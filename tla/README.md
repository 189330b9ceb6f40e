# A formal model of AuthZ-dev

AuthZ-dev is a Zanzibar-style authorization service in Go. A *central store* in
Postgres keeps relation tuples and a schema. *Sidecars* keep a copy of it in
memory, follow its changes, and answer checks ("does this subject hold this
relation on this resource?") from the copy.

This directory holds TLA+ modules translated from `src/internal`, the TLC
configurations that check them on small instances, and TLAPS proofs of what
matters most for every instance.

```
tlasany CentralStore.tla                           # parse
tlc -workers 2 -config MCStoreRace.cfg MCStore.tla # model-check
tlapm StoreProofs.tla                              # check the proofs
```

## 1. The system

| Component | Code | State | Operations | Here |
|---|---|---|---|---|
| Central store, writes | `datastore/postgres/{write,delete,schema,lock,store}.go` | tables `tuples`, `schema_versions`, `tuple_changes`; advisory locks; a transaction per request | `Write`, `DeleteMatching`, `WriteSchema` | modelled, proved |
| Change log and pruning | `postgres/prune.go`, `migrations/0001_init.sql` | tables `tuple_changes`, `prune_marks` | `Prune` | modelled, proved |
| Central store, reads | `postgres/read.go` | none of its own: one RepeatableRead transaction per call | `Snapshot`, `Changes` | modelled, proved |
| Migrations | `postgres/migrate.go` | table `migrations` | `Migrate` | modelled, proved |
| Check engine | `core/check.go` | of one check: memo, Tarjan index, lowlink and stack, depth | `Check` | modelled, proved |
| Schema rules | `core/schema.go` | the builder's definitions and errors | `Relation`, `Permission`, `Build`, `Allows`, `Accepted` | modelled, proved |
| Proof recorder | `core/proof.go` | nodes of one proof, truncation, pause count | `open`, `leaf`, `close`, `addChild` | modelled, proved |
| Dictionary, references | `core/{dictionary,refs,tuple}.go` | three id tables | `Intern*`, `Lookup*` | modelled, proved |
| Identifier rules | `core/identifiers.go` | none | `Valid*` | which names may stand where; not the bytes of one |
| Tuple source contract | `core/source.go` | none: an interface | `Lookup`, `Subjects`, `HasWildcard` | modelled |
| In-memory store | `memstore/{store,replica}.go` | the current replica, a read-write lock, an index by object | `Reset`, `Apply`, `Check` | modelled, proved |
| Watch messages | `watch/watch.go` | none: record types | | modelled, as what `MemStore` is fed |
| Schema language | `schema/{lexer,parser,compile}.go` | the parser's position, the dictionary it shares | `Compile` | parser and compiler modelled, lexer not |
| Server command | `cmd/AuthZ-dev/main.go` | none: an empty `main` | | nothing to model |

How they meet. Callers make requests of the central store; each is one
transaction on a pooled connection, and they meet in Postgres: in advisory
locks, in rows, in what a statement sees of the others' commits. `WriteSchema`
compiles its source with `schema.Compile`, which builds a `core.Schema`; `Write`
and `DeleteMatching` compile the stored source again and check what they are
given against it. Each change is logged in the writing transaction under its id.
A reader takes a `Snapshot` at a *revision* (the text of a Postgres snapshot),
then asks for the `Changes` since; `Prune` forgets old changes, and a reader
too far behind is told so (`ErrPruned`) and starts over. The in-memory store is
fed what such a reader gets, and runs a `core.Engine` over its copy.

What is hard, and what must be true of it:

* **Writes.** Concurrent requests are checked against a schema that another
  request is replacing; large writes and deletes by filter are checked *before*
  they wait for their locks; anything may fail between two statements. Every
  stored tuple must stay inside the newest schema, each request must take
  effect at once or not at all, and no set of requests may wait in a cycle.
* **Log and pruning.** Transactions commit in another order than they took
  their ids. A cut must never take a change that a reader it does not refuse
  still needs, even one a running transaction has not committed yet.
* **Reads.** A reader that moves from one revision to a later one must hold
  exactly what the store held there: nothing lost, nothing early, and schema and
  tuples of the same revision.
* **Check engine.** Relations are recursive. Answers memoised inside a cycle
  may be too low, are raised in rounds, and the rounds open new branches; the
  result must be the least fixed point (stratified, because of exclusion), and
  the depth bound may turn an answer into an error but never into another.
* **In-memory store.** Checks run beside `Reset` and `Apply`; each must answer
  from one revision. A failed `Apply` must leave nothing to answer from. The
  index is maintained by a three-way sorted merge, which must be set algebra.
* **Schema rules.** `Build` must accept only schemas the engine can answer:
  every arrow and userset resolves, no cycle runs through an exclusion, no
  wildcard reaches a tupleset.
* **Dictionary.** Ids never move and a lookup never adds a name. A table may fill
  up in the middle of a tuple or a schema, with some of its names interned; what
  was held must not be disturbed, or must go.
* **Migrations.** Servers of several builds start together and all migrate. They
  may die, or lose the answer to a commit. Each file runs once, in order, and
  none fails because another was there first.
* **Schema language.** Operators do not mix without parentheses; the refusal
  quotes both readings from the source, and both must be readings. One dictionary
  serves every schema compiled after another, so an id may be older than the
  schema that uses it.

`PROJECT.json` lists the hazards line by line, each with the property that
would catch it, or the reason there is none yet.

## 2. The modules

Each line is a chain in which a module extends the one before it; a module in
parentheses is extended as well.

```
central store   StoreData > CentralStore (PgSnapshot) > CentralStoreProps > MCStore
                CentralStoreProps --INSTANCE--> AtomicStore (StoreData)
                CentralStoreProps > ChangeFeed > MCFeed
   proofs       ChangeFeed > StoreProofs
start-up        Migrate > MCMigrate
   proofs       Migrate > MigrateProofs

schema rules    SchemaData > SchemaBuilder > SchemaProps (CheckMeaning)
                  > MCSchema (CheckSemantics, SchemaWalk)
                SchemaBuilder > SchemaWalk
   proofs       SchemaProps > SchemaProofs
checks          SchemaData > CheckMeaning > CheckSemantics
                SchemaData > Evaluator > CheckProps (CheckMeaning)
                  > MCCheck (CheckSemantics)
   proofs       CheckProps > CheckStackProofs > CheckProofs
                  > RecordProofs
language        Dictionary > Parser (SchemaData) > Compiler (SchemaBuilder)
                  > LanguageProps > MCLanguage (SchemaWalk)
sidecar         Dictionary > Replica > MemStore > MemStoreProps > MCMem
   proofs       MemStoreProps > ReplicaProofs > MemStoreProofs
```

**`StoreData`.** A tuple is a model value with a relation (`RelOf`: resource
type and relation) and a kind of subject (`KindOf`: `user`, `user:*`,
`team#member`). Nothing in the store tells tuples apart further, but for their
identity. A schema is a function from relations to the kinds each accepts, and
the empty set stands for a relation that is not there or that is a permission:
`check` in `write.go` refuses both, and `dropped` in `schema.go` treats the two
alike. `checkFilter`, `checkUpdates`, `dropped`, `writeLocks` and `ordered` are
the functions of the code by those names. A lock is a name and a mode; names
are distinct (the code hashes them to 64 bits: a collision makes requests
exclude each other that need not), and `NameRank` is the order `ordered` sorts
them in.

**`PgSnapshot`** is external: transaction ids, snapshots and
visibility, as `pg_current_snapshot`, `pg_snapshot_xmin` and
`pg_visible_in_snapshot` define them and `prune.go` and `read.go` use them.

**`CentralStore`** has one variable per table and per database counter, and, for
each session, a transaction: its request, its next statement `pc`, the locks it
still wants and holds, its id once it has one, and its uncommitted changes.

| Action | Code |
|---|---|
| `Begin` | `writeTx` starts; the lock list is computed |
| `Precheck` | the check `DeleteMatching` and a large `Write` make before locking |
| `Acquire` | one turn of `acquire`'s loop: the next lock in order, once it can be had |
| `CheckWrite` | `Write`'s check under its locks |
| `Update` | one `touchSQL` or `deleteSQL` |
| `Sweep` | `DeleteMatching`'s one statement |
| `ReadSchema`, `Probe`, `InsertVersion` | `WriteSchema`: read the newest, one `EXISTS` per thing dropped, insert |
| `Mark`, `CutLog`, `CutMarks` | `Prune`'s three statements |
| `Commit` | the commit: all pending changes at once, locks released |
| `Fail` | an error, cancelled context, lost connection or crash at any statement |
| `Tick` | the database clock |

Each statement sees the newest commit (ReadCommitted) and its own pending
changes where it can meet them (`Prune` sees the mark it has just placed; a
`Write` names no tuple twice). A transaction takes its id at the first row it
changes, so ids are taken in one order and committed in another, and a
transaction that changes nothing has none. Locks are advisory and
transaction-scoped: `End` releases them, whether the transaction committed or
failed. A crash of the server process is `Fail` of its sessions, since nothing
of a request lives outside its transaction; a crash of Postgres is `Fail` of
all, one by one.

**`AtomicStore`** is the promise to writers: no transactions, locks or
statements; a request is one step that applies all of itself to contents and
schema, or nothing.

**`CentralStoreProps`** has the write side's properties, and their
strengthenings for the proofs.

**`ChangeFeed`** adds readers: a follower, as the one in `read_test.go`, calls
`Snapshot` and then `Changes`, and applies what comes back. A read is two steps:
`Capture` of everything it sees, when its RepeatableRead transaction begins,
and an answer at any later time. Answers may be lost (`LoseAnswer`), after which
the follower asks again from the revision it holds. `readAt` is a history
variable, for `KeepHonoured` alone.

**`SchemaData`** has what the core package speaks of: keys (a relation on an
object), subjects, tuples, rewrites, and a schema as what it defines and what
each relation accepts.

**`CheckMeaning`** says what a schema and tuples mean as `reference_test.go`
does, but without computing it. A *claim* is that a rewrite, on a key, grants the
subject. A *meaning* gives every claim the case depends on a stage, 0 for a claim
that is not granted, and a level, which is `strata`'s; `Accounts` says that each
claim granted follows from claims granted at earlier stages, that what follows
from granted claims is granted, that levels do not rise from a claim to what it is
made of, and that what an exclusion subtracts lies on a lower one. So it is a
least model, with a proof of leastness in it, and can be reasoned about without
recursion. `IsMeaning` is for the key of a case, `MeansAll` for every key. A case
of a schema that `Build` returns has a meaning (theorem `BuiltSchemasMean`), and
all that it has grant the same (`MeaningIsUnique`).

**`CheckSemantics`** computes meanings, for TLC: the keys a subject holds are a
least fixed point. It does not suppose that the schema has strata. It bounds the
answer from below and above by turns (the alternating fixed point), so that "this
schema means something" can be asked, and is not a premise. `MeaningOf` is the
meaning of a case, stage by round and level by how many claims there are below;
that it is one (`MeaningAssumption` of `CheckProps`) TLC finds of each of the cases
of `check_answers`. `MeaningOfAll` covers every key.

**`SchemaBuilder`** is `schema.go`: one action per definition (`Define`, for
`Relation` and `Permission`) and `Build`, whose rules are operators under the
code's names. Edges, and what is reachable along them, are sets: `Reach` is the
least set that edges do not lead out of, which is what `reaches` and
`exclusionReachable` have seen when their queues are empty. That a rule complains,
rather than how often, is kept. `checkShape`, `collectEdges` and
`rewriteReachesWildcard` each walk a rewrite, and do the same to every part of it;
so the module takes the parts a walk meets as `Walk`, and says only what a walk
over a tree does (`WalkAssumption`: it meets the rewrite, goes on to the operands
of what it meets, meets nothing else, and never comes back to where it started).
**`SchemaWalk`** is the recursion itself, and what TLC puts for `Walk`: it finds
the assumption true of it. **`SchemaProps`** says what `Build` promises, in terms
of what a schema means.

**`Evaluator`** is one `Check` as a machine with a call stack: `frames`, innermost
first, and `next`, which is a call about to be made or one that is back.

| Action | Code |
|---|---|
| `Cancelled`, `Undefined`, `TooDeep` | `relation`'s errors, in the code's order |
| `Reuse`, `Enter` | a key the memo has, or a new one: index, stack, lowlink, depth |
| `SourceFails`, `Stored`, `Expand` | `rewrite` of one node: the source fails, the subject is named, or calls follow, usersets and arrow targets in any order |
| `NextOperand`, `Decided` | a call is back and decides its node, or not |
| `Answered` | the memo gets the traversal's answer |
| `Settle`, `SkipMember`, `Reevaluate`, `Raise`, `EndRound` | `settle`'s rounds, each turn of its loop |
| `Pop`, `Stay` | the root test, again after settling: off the stack, or left on it |
| `Unwind` | an error passes a call on its way out |

The recorder's operations (`Opened`, `Closed`, `addChild`, `pause`, `resume`) are
parts of these actions, as the calls are in the code. **`CheckProps`** compares
the machine with a meaning of its case. Neither has a recursive operator, so that
theorems can be stated of them; the inductive invariants behind these, of the
answers and of the recorder, begin `CheckStackProofs` (section 4).

**`Dictionary`** is `dictionary.go` and `refs.go`: a table is the sequence of its
names, so an id is a place and 0 is no id. `intern`, `lookup`, `Exhausted` and the
reference functions are those of the code; `internAll` interns what one tuple or
schema brings and stops where a table is full, what came before staying.

**`Replica`** is the data of `replica.go`: tuples by key under their ids, in sorted
lists. `mergeSorted` is the code's three-way walk (the skip of the drops that are
behind, an add that is there already, the ends of the lists) and not set algebra;
`Found` is its binary search, right only if the lists are sorted; `Less` compares
field by field. `Landed` drops a key that holds nothing.

**`MemStore`** is `store.go`. Replicas lie on a heap of `Refs` and goroutines point
at them, so that which are live is part of the state; `Collected` is the garbage
collector, for those that nothing points at. `mu` is Go's `RWMutex`: a writer that
only waits already keeps new readers out, and lets those that came meanwhile in
when it is done.

| Action | Code |
|---|---|
| `CallReset`, `CallApply` | the call, as the one feeding goroutine makes it: any revision, or a later one with what changed since |
| `Drop`, `New`, `Publish` | `Reset`: drop under the lock, `newReplica` outside it, set under it again |
| `Enter`, `Move` | `Apply`: `ErrNotReady`, or on with the lock held; at its end the new revision |
| `Compile` | `compile`: the schema's names interned, its rules held by id; it may not compile, or not fit |
| `Intern`, `Merge`, `MergeKey`, `Built` | `items` tuple by tuple, then each key's merge |
| `Fail` | an error in any of these: the replica is dropped, and nothing is held |
| `CallCheck`, `Resolve` | `RLock`; then `request` and the engine's own guard (`Verdict`, `Concrete`) |
| `ReadLookup`, `ReadSubjects`, `ReadWildcard` | one read, of any key earlier answers lead to |
| `Return` | the answer, and `RUnlock` |

A change list names what differs between two revisions and up to `MaxIdle`
tuples that were touched and are as they were, as `Changes` may. The schema goes
along when it changed, and may otherwise.

**`Migrate`** is `migrate.go`, statement by statement, for servers of several
builds. A statement sees what was committed when it starts, which is what makes
the loser of the lock see what the winner committed; `create table if not exists`
looks and then creates, so that two at once collide.

| Action | Code |
|---|---|
| `Start`, `Acquire` | begin, and the statement that waits for the advisory lock |
| `CreateTable`, `ReadApplied` | the `migrations` table, and the highest version in it |
| `RunFile`, `Record` | the next file, and its row |
| `Commit`, `LoseCommit` | the commit, its answer received or lost |
| `Fail`, `Die` | an error or death in mid-migration; death of a server that was up |

**`Parser`** is the recursive descent of `parser.go`, one operator per function,
over lexemes. A source also has line comments and ends of lines in it, which
`advance` passes as `lexer.go`'s `next` does. A result has read up to a lexeme
(`Took`) or stopped at one (`Stopped`); a mix of operators stops with its
`Readings`, cut from the source by the spans of operands and put on one line, with
the comments in them, as `mixed` does (`text`). An expression is the rewrite it
stands for.

**`Compiler`** is `compile.go`: sources compiled one after another against one
dictionary. `Write` lets a source grow by a piece, so every source the pieces make
up is compiled; `Refuse` is a syntax error or one that `check` finds; `Intern`,
`Declare` and `Validate` are `build`, the last two through `SchemaBuilder`'s own
actions; `Return` ends the call. **`LanguageProps`** says what the grammar derives,
by splitting a source, its comments removed, at its operators rather than by
descent, and what a compiled schema says in names.

In some modules a definition marked "Fault:" stands beside the one it varies.
It is that definition as a plausible bug would leave it; nothing uses it. Each
property of each run was seen to fail when the definition is replaced by its
fault, as `PROJECT.json` lists under "mutants".

## 3. The runs

`MC*.tla` give the constants their values. Model values are used for tuples,
relations, kinds and sessions; sessions are symmetric, and no other set is,
because lock names sort. Where a run has a liveness property there is no
symmetry.

| Run | Instance | Shows |
|---|---|---|
| `store_race` | 3 sessions, 9 requests, `MaxTupleLocks` 1, 6 ids | `TypeOK`, `SchemaConform`, `NoRowWait`, `StaleFilterHarmless`, `VersionsCommitInOrder`, `Atomic` |
| `store_locks` | 3 sessions, 9 requests, prune among them, 2 relations, `MaxTupleLocks` 2, 4 ids, 1 tick | `NoWaitCycle` |
| `feed_order` | 2 sessions, 1 follower, 5 requests, 5 ids | `FeedTypeOK`, `CopyConforms`, `CopyExact` |
| `feed_prune` | 2 sessions, 1 follower, `keep` 0, 5 ids | `LogCovers`, `FreshRevisionReadable`, `MarksBehindRunning` |
| `feed_fair` | 2 sessions, 1 follower, 3 ids, fairness | `EveryRequestEnds`, `Converges` |
| `migrate` | 3 servers of 2 builds, 3 files, 2 faults, fairness | `RanOnceInOrder`, `RacingIsNoError`, `EveryServerReady` |
| `schema_rules` | up to 6 of 21 definitions, 9 tuples at most 3 at a time | `BuilderTypeOK`, `BuiltHasMeaning`, `UnreachableOnlyGrants`, `NoUsersetHoldsEveryone`, `RefusesOnlyLoops` |
| `check_answers` | 5299 checks, 16 proof nodes, fairness | `EvalTypeOK`, `NothingInvented`, `PoppedIsFinal`, `CheckAgrees`, `StackInOrder`, `ProofIsATree`, `RootSaysTheAnswer`, `StopsOnOnePath`, `Ends` |
| `mem_store` | 2 checkers, 6 tuples, 4 revisions, 4 ids a table, 2 reads a check, fairness | `MemTypeOK`, `NeverBothLive`, `HeldWhole`, `AnswersOneRevision`, `EveryCallEnds` |
| `language` | sources of up to 10 lexemes beyond where they start, 3 ids a table | `ParsesAsWritten`, `BothReadingsParse`, `SchemaSaysItsSource` |
| `feed_keep` | 2 sessions, 1 follower, `keep` 1, 4 ids, 1 tick | `KeepHonoured` fails: see the finding |
| `check_proof` | as `check_answers`, 256 proof nodes | `AllowedIsJustified` fails: see the finding |

The properties:

* `SchemaConform`: no committed tuple is outside the newest schema.
* `NoRowWait`: no statement meets a row that another transaction has changed. If
  one could, it would wait outside the lock order.
* `NoWaitCycle`: no non-empty set of sessions in which everyone waits for someone
  in it, for locks or rows.
* `StaleFilterHarmless`: `DeleteMatching` never checks again after it locks; if
  it deletes anything, the newest schema still accepts its filter.
* `VersionsCommitInOrder`: schema versions commit in the order of number and id.
  `Changes` picks the newest number of those the reader has not seen and calls
  it the schema in force, which is right only then.
* `Atomic`: the refinement. Every behaviour of `CentralStore` is one of
  `AtomicStore`: a request's one step is its commit, with the schema in force at
  that moment, although it was checked some statements before.
* `CopyExact`: an action property. A follower that moves to a revision holds the
  tuples and schema of that revision, whatever ran or was pruned in between. (The
  run has no prune; with one it is `LogCovers` that says the log suffices, and
  theorem `CopiesExact` has both.)
* `CopyConforms`: its tuples are inside its schema at every revision, the
  contract `contract_test.go` samples.
* `LogCovers`: at every moment, what differs between store and follower is in
  the log, or the follower would be refused.
* `FreshRevisionReadable`: a revision read now is never refused at once, so
  starting over ends.
* `MarksBehindRunning`: no mark is past a running transaction.
* `EveryRequestEnds`, `Converges`: liveness, below.
* `RanOnceInOrder`: whoever ran them and whatever died, what is committed is a
  run of the files in order, each once, none skipped, and what is recorded is
  what ran. `RacingIsNoError`: no statement of a migration is refused because of
  another server. `EveryServerReady`: liveness, below.

* `BuiltHasMeaning`: for every schema `Build` accepts, store and subject, what
  `CheckSemantics` computes is a meaning. The other two are then about what is
  computed.
* `UnreachableOnlyGrants`: what `ExclusionReachable` promises its callers. A tuple
  on a relation outside it takes no key from anyone.
* `NoUsersetHoldsEveryone`: a subject that no tuple names holds no userset that a
  relation accepts.
* `RefusesOnlyLoops`: `checkStratified` refuses exactly the schemas that
  `reference_test.go` cannot put on levels.
* `CheckAgrees`: a check that does not fail answers what its case means; and with
  depth enough and a source that answers, none fails on a schema that `Build`
  accepts, whatever tuples are stored.
* `NothingInvented`: at every step, and under every failure, an answer `true` in
  the memo is held. `PoppedIsFinal`: an answer `false` off the stack is not.
  These two are why a memo entry may be read without asking how it came about.
* `StackInOrder`: the stack holds the open keys, in the order of their indices.
* `ProofIsATree`: every node but the root hangs from one earlier node, once, after
  settling, truncation and errors too. `StopsOnOnePath`: an error leaves what was
  under way, and only that, incomplete. `RootSaysTheAnswer`: otherwise nothing
  is, and the root's outcome is the answer.
* `Ends`: liveness, below.

* `NeverBothLive`: `Reset` never has the old replica and a new one at once,
  whoever still checks against the old. Two would be twice the memory.
* `HeldWhole`: a store that is ready, and not in the middle of `Apply`, holds
  under its ids exactly the tuples and schema of the revision it names, in lists
  that are sorted, however many resets and changes came before and wherever one
  failed. This is what `mergeSorted` has to keep, and `drop` to save.
* `AnswersOneRevision`: a check that does not find the store without a replica is
  of one revision that the store was given. Every read of it, said in names, is
  what the tuples of that revision say. It is refused just when that revision's
  schema does not let it be asked, whatever is left of another in the dictionary,
  or when its subject is a whole type, `user:*`, which a relation may accept and
  `core.Check` does not answer for.
* `EveryCallEnds`: liveness, below.

* `ParsesAsWritten`: for every expression under way, `expr` reads all of it just
  when the grammar derives it, and as the one tree it derives. Comments decide
  nothing, wherever they stand.
* `BothReadingsParse`: where operators mix, a reading quoted parses, over all the
  names written and in their order, just when no line comment lies in what it
  quotes; without comments the two differ. So `mixed` keeps its word for sources
  without comments, and not for others: see below.
* `SchemaSaysItsSource`: the schema last compiled says in names, through the
  dictionary, what its source said, whatever was compiled, refused or ran out of
  ids since.

Why the bounds are enough. Store and feed first. The interesting conflicts need two or three
transactions: one that was checked, one that changes the schema, one that
overlaps both. Two tuples of one relation and different kinds, and one of
another relation, give every way two requests meet: same tuple, same relation
only, same schema only. `MaxTupleLocks` 1 (`store_race`) makes a two-tuple write
large, as 65 updates are in the code; 2 (`store_locks`) has both kinds of
multi-tuple writes. `MaxXid` bounds the transactions that change anything: 6
give two generations of three sessions; in the feed, 5 give a schema and four
overlapping changes after it. `Begin` counts transactions that have no id yet
against it, so no transaction is stuck for want of one. `AtBound` stutters where
the bound stops the model, and is not a step of the program. `MaxTime` 1 is one
tick, which is what dating a mark before or after a wait takes. The faults show
that the bounds reach the cases: each needs a particular interleaving.

Schemas and checks. `schema_rules` offers each of two relations and two
permissions in the ways that meet one of `Build`'s rules or keep it, in every
order and twice over. The loops through a subtraction that it builds need one,
two or three relations, through a computed relation, an arrow, its tupleset, a
stored userset, and a subtraction inside another. `check_answers` has three
kinds of cases. The recursion of data: three schemas on every subset of up to ten
tuples, with arrows and usersets that lead in circles of two and three objects,
tuples a schema does not accept, an object that does not define the arrow's
relation, and wildcards. The recursion of definitions, for which one object is
enough, since a component behaves alike whether its members lie on one object or
on many: all 3375 definitions of three permissions by one or two others cover
every way in which a component of three is entered, and three larger schemas were
added because no component of three settles inside another's rounds (`Inner`),
meets a member that a later round must raise (`Grown`), or has its root's answer
raised and then is not the root (`Risen`). And limits: in a part of the first
cases `MaxDepth` is 5 and the source or the caller may fail at any point. Sixteen proof nodes run
out at many points, inside settling too; `check_proof` has as many as a proof needs.

The sidecar and its language. In `mem_store` a team has users, teams and a
wildcard as members; revision 2 adds to a list that 1 has and
empties another key, 3 takes from both kinds of list and has another schema, 4 one that does not compile. Tables of
four names are too few for all that history names, so interning fails in a
schema, in a tuple's middle, and not at all, as revisions follow on one another.
Two checkers are what a writer that waits needs between them (one in, one that
must stay out), and two places for replicas one more than may be live. Two reads
of a check see a change between them, and the second may be of a key that only
the first led to. `MaxIdle` 1 puts an unchanged tuple into a list of changes.
In `migrate` one server is of an older build, and two faults are what a lost
commit and a death after it take. `language` grows any expression over one name by
up to ten lexemes (two operators with parentheses on either side fit, or a chain of
three with a comment), and whole definitions by pieces, from three starts; a line
comment of one word, with the end of its line, may come between any two lexemes.
Later sources start shorter or from nothing, and three ids run out.

Fairness. `FairEvalSpec` has `WF(EvalNext)`: a check is one goroutine, and its
source answers. `MemFairness` has weak fairness of the feeding goroutine's steps
and of each checker's: Go's scheduler runs what can run, and a waiting writer
blocks new readers, so weak fairness is enough for the lock. Nobody has to call.
`FairMigrateSpec` has weak fairness of a server's start and of its steps: what went
down is started again, and each server takes the lock once for each start, of
which `MaxFaults` leaves finitely many. In `feed_fair`, `WF(Step)` says that a session that can run its next statement
does. `SF(Acquire)`: Postgres queues lock waiters, so one that can be granted
again and again is granted; weak fairness would not do, as the other session comes
and goes with the same lock. Small writes, large ones, deletes and schemas make it
wait for a relation's lock and for the schema's, shared and alone. With two
sessions a lock is free between its holders; shared holders that overlap without
end take three, and what ends that is Postgres's queue itself. `Fail` has none:
nothing has to fail. A follower keeps asking (`WF(Ask)`), and of neither call is every answer lost (`SF` of the answers), which
is what a follower that loops over a working network gives. `Converges` is
conditional: once requests stop.

**Finding** (`feed_keep`). `prune.go:29` promises that `Prune` drops only what a
reader more than `keep` behind still needs. `markSQL` dates a mark with `now()`,
the start of its transaction; the id it notes is read after the wait for the
prune lock. A call that waited places a mark dated before its wait, and a later
call cuts there: a reader that read during the wait, less than `keep` ago, is
refused. The promise is short by the length of the wait. Such a reader starts
over and loses nothing else.

**Finding** (`check_proof`). `proof.go:17` promises that a proof records "what
justifies the outcome". While a component settles nothing is recorded, and
afterwards only its root's own node is closed again. A permission that the rounds
raise is recorded as allowed, over operands that the first traversal recorded as
denied: with `p = q & r`, `q = r + m`, `r = p + q` and the subject on `m`, `p` is an
allowed intersection with a denied operand. The answer is right; what the proof says of it is not.
`check_test.go` asks of such proofs that they are whole and that the root says
the answer, which they are and it does.

**Where a comment breaks a reading** (`language`). `parser.go:406` says of `mixed`
that it quotes "both ways the source could be meant". It cuts them from the source
and joins their fields on one line, line comments included, and there a comment
hides the rest of the line. Of `a + // first`, with `b - c` on the next line, it
quotes `(a + // first b) - c`, which does not parse; and of a chain with the
comment before an operator, as in `a // first`, then `+ b + c - d`, it quotes
`a // first + b + (c - d)`, which parses, as `a` alone. `BothReadingsParse` is true
since it says exactly when a quote is a reading; asked of all sources, what the
comment at `parser.go:406` says is false. Only the text of an error is affected.

## 4. The proofs

The theorems hold for every value of the constants, under the assumptions the
modules name.

**Central store.** For any sets of tuples, relations, kinds, sessions and
requests, finite or not, any `MaxTupleLocks`, `MaxXid` and `MaxTime`: each tuple
has a relation and a kind, `AnyKind` and `NoSchema` are neither a kind nor a
schema, lock names are distinct and sort in one order with a last element, and
requests are requests. The invariant is built in layers, each an inductive
invariant itself, so that a step's proof meets only what the step can disturb:

1. `TypeInv` = types, and every statement runs for a request of its kind
   (`StepOK`). *`TypesHold`, `TypeCorrect`.*
2. `LockInv` adds: wanted and held locks together are those of the request, held
   sort before wanted, and no two transactions hold conflicting ones. *`LocksHold`.*
3. `RowInv` adds: what a transaction has changed lies in its request's scope,
   deletes are of stored tuples, inserts of absent ones. Another's commit cannot
   disturb this: two requests whose scopes meet have conflicting locks
   (`ScopesConflict`, the lemma that carries `lock.go`'s design: tuple against
   tuple, relation against relation, and relation shared against alone when a
   small write meets a large one or a sweep). *`RowsHold`, `NoStatementWaits`.*
   `NoneWaitsInACycle` follows without induction over the cycle: in any set of
   sessions, the one whose next lock sorts last waits for nobody in it.
4. `VersionInv` adds: ids and version numbers in use have been given out, and
   pending versions are newer than committed ones and alone. *`VersionsHold`,
   `VersionOrder`.*
5. `SchemaInv` adds `SchemaConform` and what it rests on (`SchemaOK`):
   `SchemaConform` is not inductive by itself, since it does not say that a
   checked write still fits at its commit, nor that the tuples a new schema
   refuses are exactly those a probe still to come would find. *`SchemasHold`,
   `StoreConforms`, `StaleFilterIsHarmless`.*

6. `AtomicInv` adds `Executed`: what a transaction has pending is, at each
   statement, all that its request asked so far, said against the committed
   tables. At the commit that is the whole request. *`RequestsAreAtomic`* is the
   refinement: `Init` maps to `AtomicStore`'s, a commit to its request's one step,
   and every other step to a stutter (`TablesStay`).
7. `LogInv` adds, to layer 5, the log: ids in use are distinct, committed versions
   have ids of transactions that ended (`XidsOK`), a transaction has logged whatever
   it has changed under its own id (`Logged`), there is a mark and none is past what
   runs (`MarksOK`), and a `Prune` leaves a mark and cuts only what is older than every
   mark it leaves (`Cutting`).
   *`LogHolds`, `MarksStayBehind`, `FreshIsReadable`.*
8. `FeedInv` adds, for the revision a follower holds and the one it is reading,
   `Knows`: every transaction that runs is one the revision has not seen, and
   whatever has changed since is in the log where `Changes` looks, or every mark is
   past the revision. This is the strengthening `CopyExact` needs: it says of a
   revision what will be found *later*, and so is kept by every writer's step and
   every cut. *`FollowersHold`, `FeedTypes`, `CopiesExact`, `CopiesConform`,
   `LogReaches`.*

**Check engine.** For any objects, relations and types, finitely many keys, any
schema and tuples that have a meaning, any subject, key asked for, depth and node
limits, and sources that answer in any order or fail: a `Check` answers what its
case means (*`CheckIsRight`*). The assumption that each case has a meaning
(`MeaningAssumption`) is what `Build` is for: every case of a schema that `Build`
returns has one (*`BuiltSchemasMean`*, below), and no case has two that differ
(*`MeaningIsUnique`*: of the claims that two meanings would disagree on, one of
lowest level that either grants first has all its reasons agreed on). Nothing is assumed of how the relations depend on one
another: components may nest, grow and join while they settle.

None of `NothingInvented`, `PoppedIsFinal` and `CheckAgrees` is inductive: none says
what an answer `false` means while its component is open. It may be too low, and the
invariant `IInv` says how much. It has three layers:

1. `ShapeInv`: types; `depth` counts the relations under way; each frame waits for
   the call the next one serves; the open relations lie on Tarjan's stack in the
   order of their frames, with the members a settling root has met below whatever
   was entered since. *`CheckIsTyped`, `StackStaysInOrder`.*
2. `ReachInv`: `lowlink`, and `outer` for each relation left waiting, is the index of
   a key on the stack that is no further in than the relation and of no higher level;
   keys of one component are of one level. That is what makes a subtraction safe:
   its right side is of a lower level, so it reaches nothing open, and its answer is
   exact.
3. `SenseInv`: an answer `true` is granted. An answer `false` is not granted or is
   *excused*: by a key on the stack that is granted at an earlier stage, and that
   `lowlink`, or some `outer`, has noted, so that no relation between the two can
   take itself for a root. The excuses of a frame in mid-settling are further members
   not yet `true`, since the round that made one `true` has changed something. When a
   root is popped every member that is not `true` would, were it granted, have an
   excuse in the component that is not `true` either and is granted earlier; the
   stages are natural numbers, so no such member is granted (`ComponentFinal`).

The proof has one lemma for each action and layer: `...Shape`, `...Reach`,
`...Sense`. Most actions are *calm* (they enter no relation and leave none) and share
what a calm step keeps. TLC checked `IInv` as an invariant of the instance of
`check_answers` before it was proved. *`CheckIsInvariant`, `CheckInventsNothing`,
`PoppedStaysFinal`, `CheckIsRight`.*

**Schema rules.** For any definitions, made in any order and any of them twice,
over any finite set of rewrites, each a tree; any types and relations, finitely many
keys. The invariant `BuilderInv` is small: what is built is what was defined, and
keeps the rules. The work is in what the rules give.

1. *`BuildRefusesLoops`*: `checkStratified` passes just when the refs can be put on
   levels. One way, a ref's level is its *rank*, the number of refs with definitions
   that it leads to: along an edge there are no more of them, and along a negated
   edge that is on no loop fewer, since where it comes from is not among them
   (`RankFalls`). The other way, the refs on no higher level than where a negated
   edge leads are a closed set without its source (`LevelsBreakLoops`).
2. *`BuiltSchemasMean`*: a built schema means something, whatever is stored and
   whoever asks. What the rules say of refs is carried over to claims: what a claim
   reads lies on a ref that its own ref has an edge to, also through stored usersets,
   arrows and tuplesets (`ReadsLead`), and what is below a subtract side has no way
   back to the exclusion (`ClaimsDoNotLoop`; here it matters that a walk over a tree
   does not come back). So claims have levels, their ranks. Stages are then given level
   by level: of all ways to give the claims of one level stages such that each is
   justified, one that grants most leaves nothing to grant (`NextLevel`).
3. *`NoWildcardThroughUsersets`*: of the claims on refs that an accepted userset gets
   its holders from, one that is granted to a stranger first would need one granted
   before it, since none of these refs accepts a wildcard.
4. *`TuplesOutsideOnlyGrant`*: the claims that may be subtracted, those on
   `ExclusionReachable` refs and those below a subtract side, are made of such claims
   and read none but tuples on such refs, so a tuple elsewhere leaves their meaning
   as it was (`SubtractedAgree`, by the argument of `MeaningIsUnique`); and of the
   claims it would take, one granted first keeps its reasons.

Theorems 3 and 4 are about what `Meaning` computes, and suppose that it computes a
meaning where there is one (`Calculates`). There is such a `Meaning`: any choice of
one. That the one of `CheckSemantics` does, TLC finds (`BuiltHasMeaning`).

**Recorder.** For the same Checks: a finished proof is a tree whose root tells the
answer (*`ProofStaysATree`, `RootTellsTheAnswer`*), and an error stops it on one path
(*`ErrorStopsOnOnePath`*). All three speak of a Check that is finished. `RecordInv`
says why it comes to that, in four parts:

1. `Recording`: `paused` counts the components that settle, and a rewrite under way is
   without a node only because the proof is full or a component settles further out.
2. `Holding`: the nodes that calls hold, and the one handed on, were recorded in the
   order of the call stack; and what is held has somewhere to hang, since below a
   node there is neither a settling frame nor a rewrite without one.
3. `Linking`: a node in hand has no link to it; any other has one, from a node before
   it. So a node is hung once, when its call is back, by whoever called.
4. `Telling`: a rewrite under way is incomplete and its children are not; a node that
   is handed on tells the answer it comes with, or is a cycle, which answers a rewrite
   and so is never the root; nothing else is incomplete unless an error passed, and
   then at most one child of a node is, and only of an incomplete one.

When no frame is left only one node is in hand, and the first, to which no link can
lead, must be it. `RecordInv` is inductive beside `IInv`, of which it needs the types
and the shape of the call stack; TLC checked it on the cases of `check_answers` with
3, 7 and 16 proof nodes first. *`RecordIsInvariant`.*

**Migrations.** For any servers and files, where no build lacks a file older than
one it has. `MigrateInv` says that only the lock's holder has work in its
transaction, that its view is what is committed (nobody else can commit), that its
work extends that in order, and that what its loop has left is what is neither
committed nor done. *`MigrationsHold`, `RacingServersStart`, `FilesRunInOrder`.*

**In-memory store.** For any checkers, names, tuples, history and limits.
`LiveInv` relates the lock to who points where: a writer that holds excludes
readers; a check that has found a replica holds the lock for reading, and the
replica is still the store's; the feeder has a replica of its own only while the
store has none, and the store's own only under the lock. *`LocksKeepReplicas`,
`OneReplica`* (no two replicas live) and *`ReadsOneReplica`*, an action property: no
step changes a replica that a check reads, nor which one it reads, from its first
read to its return. That is half of `AnswersOneRevision`. The other half, that what
the replica holds is right, rests on the data, of any size:

1. *The lists* (`ReplicaProofs`). `mergeSorted`, the binary search and `internAll`
   are functions defined from themselves. That there is such a function at all is
   the lemma `Recursion`: a definition is *grounded* if what it says at a place
   depends on places of lower rank only (what is still to be merged, the span still
   to be searched, the words still to be interned), and then a function fits it
   everywhere. What it returns is shown at a place of least rank where it would be
   wrong. *`MergeIs`*: the merge of three sorted lists is set algebra, in order,
   with an add already there and a drop of nothing as in `replica.go`'s comment.
   *`FoundIs`*: the search of a sorted list finds what it holds. *`LandedIs`*: a
   key's changes land in its own entry, by the kinds of their subjects, and an entry
   that holds nothing is dropped.
2. *The names.* *`InternAllIs`*: interning moves no id, gives no name two, and gives
   each word one unless the ids run out. So ids tell names apart (`IdsDiffer`,
   `SameItem`), an item read earlier is the same under the names of later
   (`GrownItem`), and what a removed tuple's names lack an id for was not held.
3. *The store.* `HeldWhole` is not inductive: `apply` reads changes one by one and
   lands them key by key. `Filled` says what is true between: with the items read so
   far landed, the entries would hold the tuples of the new revision where the change
   was read, and of the old one where it was not (`ReadSoFar`). `StoreInv` asks that
   of the replica that is fed, and that any other be whole. `Fail` keeps it since the
   half-moved replica is let go. *`ReplicasHold`, `MemTyped`, `StoreIsWhole`.*
4. *The checks.* `CheckInv`: a question's verdict and subject are those its replica's
   names give, each key a read may use is in range, and the last answer says what the
   revision stores. An answer's ids are turned back into names and compared with the
   tuples; an object that nobody named has no id, and only what was asked about may
   be one (`KnownKey`), so it is on no tuple. *`ChecksSayOneRevision`.*

Assumed of the constants (`MemStoreAssumption`): finitely many tuples, made of
names as `Valid*` in `identifiers.go` let them stand; and that a schema that compiles
declares every name its relations use, which `check` in `compile.go` sees to before
anything is interned. The order in which changes are read is any; keys are merged in
their own order, as `merge` sorts them.

Only model-checked, and why. The schema language: its properties compare the
descent with what the grammar derives, both recursive, in modules that declare
`RECURSIVE` operators, for which the prover has no backend that could see what they
compute. For the same reason it is not proved that `SchemaWalk` is a walk and that
`CheckSemantics` computes meanings. All liveness, since the prover has neither
`ENABLED` nor fairness.

## 5. What is left out

* Text: the spelling of tuples, the bytes an identifier may have (`ValidNames` is a
  constant of `Compiler`, `Names` of `Dictionary`), error wording, scanning of rows, the `Format` functions. `Write`'s
  structural validation of its arguments depends on no state.
* Lexing: bytes of one string, with no state beyond a position; its tests reach it.
  Of what lies between lexemes only line comments and ends of lines are kept, for
  the text that `mixed` quotes: a blank, or a comment closed with `*/`, changes
  nothing there. A comment that is not closed is a source that cannot be lexed.
* Where an error stands on the page: `place` and `join` in `compile.go`.
* `Revision()`, which only reads, and the dictionary's own lock: a replica's
  dictionary is used under the store's.
* What the evaluator makes of a replica's reads is `Evaluator`'s. The two meet in
  the source contract: `Evaluator` takes any answers that come of one set of
  tuples, and `AnswersOneRevision` says that a replica's reads do.
* That RepeatableRead gives one snapshot to all statements of a read, and that
  ReadCommitted sees the newest commit: Postgres's promises, taken as given.
* A commit whose outcome a caller of the store never learns: the model's `Fail` or
  `Commit` happened, and the caller, who is to retry, is not in the repository.
  Migrations, whose caller is, have it (`LoseCommit`).
* Two lock names with one 64-bit hash: requests then wait that need not, and a lock
  taken shared and then alone could deadlock, which Postgres ends by an error.
* Schema sources that stop compiling under a newer binary, which takes two versions
  of the rules; `mem_store` has the sidecar's side of it, a schema that does not
  compile.
* Wraparound of transaction ids (64-bit) and of the version identity.
* Of `Check`: `NewEngine`'s refusals, and `ProofNone`, under which the recorder does
  nothing and no answer depends on it. Requests refused before anything is read
  are `MemStore`'s `Verdict`.
* Of `Build`: how often and in which words it complains. What a relation accepts is
  a set, so two refusals of `checkAllowed` have no counterpart: a subject type listed
  twice (`schema.go:489`), and a wildcard with a relation. The parser lets the first
  through to `Build`, so the sources of `Compiler` stand for those that list no type
  twice; the second it stops itself.
* The server command: an empty `main`.

## 6. The plan

Done: every component with state of its own, and the proofs of section 4. What
could be added, in order of worth:

1. `Sidecar`: `ChangeFeed` and `MemStore` composed, from a write to a check.
   Today they meet in what each promises: `CopyExact` is what `MemStore`'s
   `History` and change lists suppose.
2. Two versions of the schema rules, for stored sources that stop compiling.
