------------------------------ MODULE MemStore ------------------------------
(***************************************************************************)
(* memstore/store.go: one goroutine feeds the store with Reset and Apply   *)
(* while others Check.  Replicas are objects that goroutines point at, so  *)
(* which are live is part of the state.                                    *)
(*                                                                         *)
(* The evaluator's part of a Check is the reads it makes of the replica,   *)
(* in any order that its answers allow: what it makes of them is           *)
(* Evaluator's.                                                            *)
(***************************************************************************)
EXTENDS Replica, FiniteSets

CONSTANTS
  Checkers,
  Refs,       \* where replicas are kept; enough for those that are live
  Tuples,     \* [resource : [type, id], relation, subject : [type, id, relation]]
  History,    \* what the central store held at each revision: [schema, tuples]
  Questions,  \* what each checker asks, in names: [resource, relation, subject]
  Nil,        \* no replica, and no schema
  MaxReads,   \* bound on the reads of one Check
  MaxIdle     \* bound on the tuples a change list names that did not change

Revisions == DOMAIN History

(* What may name a resource, a relation and a subject: the whole of a type *)
(* is no userset.                                                          *)
TupleNames ==
  [resource : [type : Names, id : Names], relation : Names,
   subject  : {s \in [type : Names, id : Names \cup {WildcardMarker},
                      relation : Names \cup {NoName}] :
                 s.id = WildcardMarker => s.relation = NoName}]

(* Schema sources, by what compile makes of them: whether it does, the     *)
(* names it interns, the relations and permissions they define and the     *)
(* subject types that some relation accepts.                               *)
Schemas ==
  [compiles : BOOLEAN, words : Seq(Words), defines : SUBSET [type : Names, relation : Names],
   accepts : SUBSET [type : Names, relation : Names \cup {NoName}]]

(* A schema names nothing that it does not declare. *)
Declares(schema) ==
  \A ref \in schema.defines \cup schema.accepts :
    /\ Contains(schema.words, Word("types", ref.type))
    /\ ref.relation # NoName => Contains(schema.words, Word("relations", ref.relation))

ASSUME MemStoreAssumption ==
  /\ Nil \notin Refs \cup Schemas
  /\ MaxReads \in Nat /\ MaxIdle \in Nat
  /\ IsFiniteSet(Tuples) /\ Tuples \subseteq TupleNames
  /\ \A r \in Revisions :
       /\ History[r].tuples \subseteq Tuples /\ History[r].schema \in Schemas
       /\ History[r].schema.compiles => Declares(History[r].schema)
  /\ \A c \in Checkers : Questions[c] \subseteq TupleNames

VARIABLES
  current,   \* the replica the store holds, or Nil while it is not ready
  heap,      \* the replicas
  mu,        \* the store's lock
  feed,      \* the call the feeding goroutine is in
  check      \* the call each checking goroutine is in

memVars == <<current, heap, mu, feed, check>>

(* A replica, before anything is in it. *)
Blank(rev) ==
  [revision |-> rev, names |-> NewDictionary, defines |-> {}, subjects |-> {},
   entries |-> <<>>]

IdleFeed == [step |-> "idle", ref |-> Nil, rev |-> 0, schema |-> Nil,
             left |-> {}, items |-> {}]

IdleCheck == [step |-> "idle", ref |-> Nil, asked |-> Nil, began |-> 0,
              subject |-> Nil, keys |-> {}, reads |-> 0, last |-> Nil]

-----------------------------------------------------------------------------
(* sync.RWMutex.  A reader that finds a writer there, even one that only   *)
(* waits, waits for it; a writer that is done lets in the readers that do. *)

UnlockedMutex == [active |-> {}, pending |-> {}, writer |-> "none"]

RLocked(c) == [mu EXCEPT !.active = @ \cup {c}]

RLockCalled(c) ==
  IF mu.writer = "none" THEN RLocked(c) ELSE [mu EXCEPT !.pending = @ \cup {c}]

RUnlocked(c) == [mu EXCEPT !.active = @ \ {c}]

LockCalled == [mu EXCEPT !.writer = "waits"]

Lockable == mu.writer = "waits" /\ mu.active = {}

Locked   == [mu EXCEPT !.writer = "holds"]
Unlocked == [active |-> mu.pending, pending |-> {}, writer |-> "none"]

-----------------------------------------------------------------------------
(* What the feeding goroutine is told of the central store. *)

(* The tuples of a change list from one revision to another: those that    *)
(* differ, and some that were touched and are as they were.                *)
ChangeLists(from, to) ==
  LET differ == SymDiff(History[from].tuples, History[to].tuples)
  IN  {differ \cup idle : idle \in {I \in SUBSET (Tuples \ differ) : Cardinality(I) <= MaxIdle}}

(* The schema goes along when it changed, and may when it did not. *)
SchemasSent(from, to) ==
  {History[to].schema}
    \cup (IF History[from].schema = History[to].schema THEN {Nil} ELSE {})

(* A change of t, at the revision the call is about. *)
IsPresent(t) == t \in History[feed.rev].tuples

-----------------------------------------------------------------------------
(* Reset and Apply, up to the lock. *)

CallReset(rev) ==
  /\ feed.step = "idle"
  /\ mu' = LockCalled
  /\ feed' = [IdleFeed EXCEPT !.step = "drop", !.rev = rev, !.schema = History[rev].schema,
                              !.left = History[rev].tuples]
  /\ UNCHANGED <<current, heap, check>>

(* With what changed since the revision held. *)
CallApply(rev, schema, changes) ==
  /\ feed.step = "idle"
  /\ mu' = LockCalled
  /\ feed' = [IdleFeed EXCEPT !.step = "enter", !.rev = rev, !.schema = schema,
                              !.left = changes]
  /\ UNCHANGED <<current, heap, check>>

(* Nothing points at ref any more but what is said to. *)
Collected(ref) ==
  IF ref = Nil \/ \E c \in Checkers : check[c].ref = ref THEN heap
  ELSE [heap EXCEPT ![ref] = Blank(0)]

Live == ({current, feed.ref} \cup {check[c].ref : c \in Checkers}) \ {Nil}

-----------------------------------------------------------------------------
(* Reset. *)

(* Fault: what was held is kept until the new replica replaces it. *)
DropLater ==
  /\ feed.step = "drop" /\ Lockable
  /\ mu' = Unlocked
  /\ feed' = [feed EXCEPT !.step = "new"]
  /\ UNCHANGED <<current, heap, check>>

Drop ==
  /\ feed.step = "drop" /\ Lockable
  /\ current' = Nil
  /\ heap' = Collected(current)
  /\ mu' = Unlocked
  /\ feed' = [feed EXCEPT !.step = "new"]
  /\ UNCHANGED check

New ==
  /\ feed.step = "new"
  /\ \E ref \in Refs \ Live :
       /\ heap' = [heap EXCEPT ![ref] = Blank(feed.rev)]
       /\ feed' = [feed EXCEPT !.step = "compile", !.ref = ref]
  /\ UNCHANGED <<current, mu, check>>

(* Set, under the lock. *)
Publish ==
  /\ feed.step = "publish" /\ Lockable
  /\ current' = feed.ref
  /\ mu' = Unlocked
  /\ feed' = IdleFeed
  /\ UNCHANGED <<heap, check>>

-----------------------------------------------------------------------------
(* Apply, under the lock. *)

(* Fault: ErrNotReady leaves the lock held. *)
EnterHolding ==
  /\ feed.step = "enter" /\ Lockable
  /\ mu' = Locked
  /\ feed' = IF current = Nil THEN IdleFeed
             ELSE [feed EXCEPT !.step = IF feed.schema = Nil THEN "intern" ELSE "compile",
                               !.ref = current]
  /\ UNCHANGED <<current, heap, check>>

Enter ==
  /\ feed.step = "enter" /\ Lockable
  /\ IF current = Nil THEN mu' = Unlocked /\ feed' = IdleFeed
     ELSE /\ mu' = Locked
          /\ feed' = [feed EXCEPT !.step = IF feed.schema = Nil THEN "intern" ELSE "compile",
                                  !.ref = current]
  /\ UNCHANGED <<current, heap, check>>

Applying == feed.ref # Nil /\ feed.ref = current

(* The new revision is the replica's, and Apply returns. *)
Move ==
  /\ feed.step = "merge" /\ feed.items = {} /\ Applying
  /\ heap' = [heap EXCEPT ![current].revision = feed.rev]
  /\ mu' = Unlocked
  /\ feed' = IdleFeed
  /\ UNCHANGED <<current, check>>

-----------------------------------------------------------------------------
(* What both do with a replica. *)

(* Fault: a change that did not land in full leaves what did. *)
FailKeeping ==
  /\ mu' = IF Applying THEN Unlocked ELSE mu
  /\ feed' = IdleFeed
  /\ UNCHANGED <<current, heap, check>>

(* The replica did not take it all: newReplica's is dropped, Apply's is    *)
(* no longer held.                                                         *)
Fail ==
  /\ heap' = Collected(feed.ref)
  /\ current' = Nil
  /\ mu' = IF Applying THEN Unlocked ELSE mu
  /\ feed' = IdleFeed
  /\ UNCHANGED check

(* compile: the schema's names interned, its rules held by their ids. *)
Compile ==
  /\ feed.step = "compile"
  /\ LET interned == internAll(heap[feed.ref].names, feed.schema.words)
         Id(ref)  == <<lookup(interned.names["types"], ref.type),
                       lookup(interned.names["relations"], ref.relation)>>
     IN  IF ~feed.schema.compiles \/ ~interned.ok THEN Fail
         ELSE /\ heap' = [heap EXCEPT ![feed.ref] =
                    [@ EXCEPT !.names = interned.names,
                              !.defines = {Id(ref) : ref \in feed.schema.defines},
                              !.subjects = {Id(st) : st \in feed.schema.accepts}]]
              /\ feed' = [feed EXCEPT !.step = "intern"]
              /\ UNCHANGED <<current, mu, check>>

(* The next of the changes becomes an item; a removed tuple with a name    *)
(* never seen is none.                                                     *)
Intern(t) ==
  /\ feed.step = "intern" /\ t \in feed.left
  /\ \E names \in {heap[feed.ref].names} :
     \E interned \in {internAll(names, tupleWords(t))} :
         IF IsPresent(t)
         THEN IF ~interned.ok THEN Fail
              ELSE /\ heap' = [heap EXCEPT ![feed.ref].names = interned.names]
                   /\ feed' = [feed EXCEPT !.left = @ \ {t},
                                           !.items = @ \cup {Item(interned.names, t, TRUE)}]
                   /\ UNCHANGED <<current, mu, check>>
         ELSE /\ feed' = [feed EXCEPT !.left = @ \ {t},
                            !.items = IF resolves(names, t)
                                      THEN @ \cup {Item(names, t, FALSE)} ELSE @]
              /\ UNCHANGED <<current, heap, mu, check>>

Merge ==
  /\ feed.step = "intern" /\ feed.left = {}
  /\ feed' = [feed EXCEPT !.step = "merge"]
  /\ UNCHANGED <<current, heap, mu, check>>

KeyRank(k) == <<k.object.type, k.object.id, k.relation>>

(* The first key that items are left for takes them. *)
MergeKey ==
  /\ feed.step = "merge"
  /\ \E k \in {it.key : it \in feed.items} :
       /\ \A it \in feed.items : ~Less(KeyRank(it.key), KeyRank(k))
       /\ LET on == {it \in feed.items : it.key = k}
          IN  /\ heap' = [heap EXCEPT ![feed.ref].entries = Landed(@, k, on)]
              /\ feed' = [feed EXCEPT !.items = @ \ on]
  /\ UNCHANGED <<current, mu, check>>

(* newReplica is done: Reset asks for the lock again. *)
Built ==
  /\ feed.step = "merge" /\ feed.items = {} /\ ~Applying
  /\ mu' = LockCalled
  /\ feed' = [feed EXCEPT !.step = "publish", !.schema = Nil]
  /\ UNCHANGED <<current, heap, check>>

FeedStep ==
  \/ Drop \/ New \/ Publish
  \/ Enter \/ Move
  \/ Compile \/ (\E t \in Tuples : Intern(t)) \/ Merge \/ MergeKey \/ Built

FeedCall ==
  \/ \E rev \in Revisions : CallReset(rev)
  \/ IF current = Nil
     THEN \E rev \in Revisions : CallApply(rev, Nil, {})
     ELSE LET from == heap[current].revision
          IN  \E to \in Revisions :
                /\ to > from
                /\ \E schema \in SchemasSent(from, to), changes \in ChangeLists(from, to) :
                     CallApply(to, schema, changes)

-----------------------------------------------------------------------------
(* Check. *)

CallCheck(c, q) ==
  /\ check[c].step = "idle"
  /\ mu' = RLockCalled(c)
  /\ check' = [check EXCEPT ![c] = [IdleCheck EXCEPT !.step = "begin", !.asked = q]]
  /\ UNCHANGED <<current, heap, feed>>

OrUnknown(id) == IF id = 0 THEN UnknownObject ELSE id

(* The engine's guard, of a subject that has been resolved: a whole type  *)
(* is not a question it answers.                                           *)
Concrete(subj) == ~subj.wildcard

(* What request and then the engine say to q, before anything is read: it  *)
(* is undefined, it is invalid, or reading begins.                         *)
Verdict(r, q) ==
  LET obj  == LookupObjectRef(r.names, q.resource)
      rel  == LookupRelation(r.names, q.relation)
      subj == LookupSubjectRef(r.names, q.subject)
      Unseen   == obj.type = 0 \/ rel = 0
      Accepted == /\ q.subject.relation # NoName => subj.relation # 0
                  /\ <<subj.type, subj.relation>> \in r.subjects
  IN  IF Unseen THEN "undefined" ELSE IF ~Accepted \/ ~Concrete(subj) THEN "invalid"
      ELSE IF <<obj.type, rel>> \in r.defines THEN "reading" ELSE "undefined"

(* c, once it has what it was asked by the ids of the replica held. *)
Resolved(c) ==
  IF current = Nil THEN [check[c] EXCEPT !.step = "not ready"]
  ELSE LET r    == heap[current]
           q    == check[c].asked
           obj  == LookupObjectRef(r.names, q.resource)
           subj == LookupSubjectRef(r.names, q.subject)
       IN  [check[c] EXCEPT
              !.step = Verdict(r, q), !.ref = current, !.began = r.revision,
              !.subject = [subj EXCEPT !.id = IF subj.wildcard THEN @ ELSE OrUnknown(@)],
              !.keys = {[object |-> [obj EXCEPT !.id = OrUnknown(@)],
                         relation |-> LookupRelation(r.names, q.relation)]}]

(* Fault: the lock is held to find the replica, not to read it. *)
ResolveUnlocking(c) ==
  /\ check[c].step = "begin" /\ c \in mu.active
  /\ check' = [check EXCEPT ![c] = Resolved(c)]
  /\ mu' = RUnlocked(c)
  /\ UNCHANGED <<current, heap, feed>>

Resolve(c) ==
  /\ check[c].step = "begin" /\ c \in mu.active
  /\ check' = [check EXCEPT ![c] = Resolved(c)]
  /\ UNCHANGED <<current, heap, mu, feed>>

(* The keys to which an answer leads: usersets to theirs, and objects, by  *)
(* an arrow, to any relation of theirs.                                    *)
LedTo(r, answer) ==
  {[object |-> [type |-> s[1], id |-> s[2]], relation |-> s[3]] :
     s \in {s \in ToSet(answer) : Len(s) = 3}}
  \cup {[object |-> [type |-> s[1], id |-> s[2]], relation |-> ref[2]] :
         s \in {s \in ToSet(answer) : Len(s) = 2}, ref \in r.defines}

Reads(c) == check[c].step = "reading" /\ check[c].reads < MaxReads

Answered(c, kind, k, granted, subjects) ==
  /\ check' = [check EXCEPT
       ![c].reads = @ + 1,
       ![c].keys = @ \cup LedTo(heap[check[c].ref], subjects),
       ![c].last = [kind |-> kind, key |-> k, granted |-> granted, subjects |-> subjects]]
  /\ UNCHANGED <<current, heap, mu, feed>>

ReadLookup(c, k) ==
  /\ Reads(c) /\ k \in check[c].keys
  /\ \E answer \in {Lookup(heap[check[c].ref].entries, k, check[c].subject)} :
       Answered(c, "lookup", k, answer.direct, answer.subjects)

ReadSubjects(c, k) ==
  /\ Reads(c) /\ k \in check[c].keys
  /\ Answered(c, "subjects", k, FALSE, SubjectsOf(heap[check[c].ref].entries, k))

(* Only of a subject that is an object. *)
ReadWildcard(c, k) ==
  /\ Reads(c) /\ k \in check[c].keys
  /\ ~check[c].subject.wildcard /\ check[c].subject.relation = 0
  /\ Answered(c, "wildcard", k,
              HasWildcard(heap[check[c].ref].entries, k, check[c].subject.type), <<>>)

Return(c) ==
  /\ check[c].step \in {"not ready", "undefined", "invalid", "reading"}
  /\ mu' = RUnlocked(c)
  /\ check' = [check EXCEPT ![c] = IdleCheck]
  /\ UNCHANGED <<current, heap, feed>>

CheckStep(c) ==
  \/ Resolve(c)
  \/ \E k \in check[c].keys : ReadLookup(c, k) \/ ReadSubjects(c, k) \/ ReadWildcard(c, k)
  \/ Return(c)

-----------------------------------------------------------------------------

MemInit ==
  /\ current = Nil
  /\ heap = [ref \in Refs |-> Blank(0)]
  /\ mu = UnlockedMutex
  /\ feed = IdleFeed
  /\ check = [c \in Checkers |-> IdleCheck]

MemNext ==
  \/ FeedCall \/ FeedStep
  \/ \E c \in Checkers : CheckStep(c) \/ \E q \in Questions[c] : CallCheck(c, q)

MemSpec == MemInit /\ [][MemNext]_memVars

(* The scheduler runs every goroutine that can run. *)
MemFairness == WF_memVars(FeedStep) /\ \A c \in Checkers : WF_memVars(CheckStep(c))

FairMemSpec == MemSpec /\ MemFairness

=============================================================================
