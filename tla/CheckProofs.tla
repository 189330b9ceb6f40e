---------------------------- MODULE CheckProofs -----------------------------
(***************************************************************************)
(* A Check is right, for any schema, tuples, subject and limits: IInv      *)
(* holds at every step, and CheckProps' claims follow from it.             *)
(*                                                                         *)
(* What an answer means is kept step by step: true is granted, and false   *)
(* is not, or is excused by a key on the stack that is granted at an       *)
(* earlier stage.  When a component is popped, its member that is granted  *)
(* first would need an excuse that is granted before it: there is none.    *)
(***************************************************************************)
EXTENDS CheckStackProofs

(* What a case means does not change in a step. *)
LEMMA MeaningKept ==
  ASSUME asked' = asked
  PROVE  /\ \A c : LevelOf(c)' = LevelOf(c) /\ StageOf(c)' = StageOf(c)
         /\ \A c : Granted(c)' <=> Granted(c)
         /\ \A k : Said(k)' = Said(k)
         /\ \A c : ClaimOf(c)' = ClaimOf(c)
  BY CaseKept DEF LevelOf, StageOf, Granted

(* With more excuses, no less is excused. *)
LEMMA ExcusedKept ==
  ASSUME asked' = asked, NEW i
  PROVE  /\ Excuses(i) \subseteq Excuses(i)' =>
              \A c : Excused(Excuses(i), c) => Excused(Excuses(i), c)'
         /\ Usable(i) \subseteq Usable(i)' =>
              \A c : Excused(Usable(i), c) => Excused(Usable(i), c)'
  BY MeaningKept DEF Excused

(* What a frame's answers meant, they mean. *)
LEMMA FrameKept ==
  ASSUME asked' = asked, NEW i, FrameMeans(i), frames'[i] = frames[i],
         Excuses(i) \subseteq Excuses(i)', Usable(i) \subseteq Usable(i)',
         frames[i].at = "settle" =>
           \A p \in frames[i].pos + 1 .. frames[i].pos + frames[i].turn - 1 :
             stack'[p] = stack[p] /\ (stack[p] \in Untrue' => stack[p] \in Untrue),
         Opens(i) => \A k \in Region(i)' : memo'[k].state = "false" =>
           \/ k \in Region(i) /\ memo[k].state = "false"
           \/ Excused(Excuses(i)', Said(k))
  PROVE  FrameMeans(i)'
<1>1. /\ \A c : Granted(c)' <=> Granted(c)
      /\ \A c : StageOf(c)' = StageOf(c)
      /\ \A k : Said(k)' = Said(k)
      /\ \A c : ClaimOf(c)' = ClaimOf(c)
      /\ ClaimAt(i)' = ClaimAt(i)
      /\ Opens(i)' <=> Opens(i)
  BY MeaningKept DEF ClaimAt, Opens
<1>2. /\ \A c : Excused(Excuses(i), c) => Excused(Excuses(i), c)'
      /\ \A c : Excused(Usable(i), c) => Excused(Usable(i), c)'
  BY ExcusedKept
<1>3. ~Opens(i) => OperandsMean(i)'
  <2>1. \A d : Done(i, d) => Done(i, d)'
    BY <1>1, <1>2 DEF Done
  <2> QED
    BY <1>1, <2>1 DEF OperandsMean, FrameMeans
<1>4. frames[i].at = "settle" => SettleMeans(i)'
  <2>1. SUFFICES ASSUME frames[i].at = "settle" PROVE SettleMeans(i)'
    OBVIOUS
  <2>2. frames'[i].back.allowed => Granted(ClaimAt(i))'
    BY <1>1, <2>1 DEF FrameMeans, SettleMeans
  <2>3. ASSUME ~frames[i].changed,
               NEW p \in frames[i].pos + 1 .. frames[i].pos + frames[i].turn - 1,
               stack'[p] \in Untrue'
        PROVE  Excused(Usable(i), Said(stack[p]))'
    <3>1. PICK k : k = stack[p]
      OBVIOUS
    <3>2. Excused(Usable(i), Said(k))
      BY <2>1, <2>3, <3>1 DEF FrameMeans, SettleMeans
    <3>3. PICK c : c = Said(k)
      OBVIOUS
    <3>4. Excused(Usable(i), c)'
      BY <1>2, <3>2, <3>3
    <3>5. Said(stack[p])' = c
      <4>1. stack'[p] = k
        BY <2>1, <3>1
      <4> QED
        BY <1>1, <3>3, <4>1
    <3> QED
      BY <3>4, <3>5 DEF Excused
  <2> QED
    BY <2>2, <2>3 DEF SettleMeans
<1>5. Opens(i) => FalseExcused(i)'
  <2>1. SUFFICES ASSUME Opens(i), NEW k \in Region(i)', memo'[k].state = "false"
                 PROVE  Excused(Excuses(i), Said(k))'
    BY DEF FalseExcused
  <2>2. PICK c : c = Said(k)
    OBVIOUS
  <2>3. Excused(Excuses(i), c)'
    <3>1. CASE k \in Region(i) /\ memo[k].state = "false"
      BY <1>2, <2>1, <2>2, <3>1 DEF FrameMeans, FalseExcused
    <3>2. CASE Excused(Excuses(i)', Said(k))
      <4>1. Excused(Excuses(i)', c)
        BY <2>2, <3>2
      <4> QED
        BY <4>1, MeaningKept DEF Excused
    <3> QED
      BY <2>1, <3>1, <3>2
  <2> QED
    BY <1>1, <2>2, <2>3 DEF Excused
<1> QED
  BY <1>1, <1>3, <1>4, <1>5 DEF FrameMeans

-----------------------------------------------------------------------------
(* Calm steps. *)

(* A calm step keeps every frame's excuses. *)
LEMMA CalmExcuses ==
  ASSUME Calm, Facts, Facts', lowlink' <= lowlink
  PROVE  \A i \in Nat : Excuses(i) \subseteq Excuses(i)'
<1>1. /\ DOMAIN frames = 1 .. Len(frames) /\ Len(frames) \in Nat
      /\ DOMAIN frames' = 1 .. Len(frames') /\ Len(frames') \in Nat
      /\ Typed /\ Typed' /\ lowlink \in Nat /\ lowlink' \in Nat
  BY FramesAre DEF Facts, Typed
<1>2. asked' = asked /\ \A k \in Keys : memo'[k].index = memo[k].index
  BY CalmMemo
<1>3. \A k \in Keys : memo[k].index \in Nat
  BY DEF Facts, Typed, Memos
<1>4. \A i \in Nat : Visible(i)' = Visible(i) /\ Visible(i) \subseteq Keys
  BY CalmVisible DEF Visible
<1>5. ASSUME NEW i \in Nat, NEW k \in Keys, Noted(i, k)
      PROVE  Noted(i, k)'
  <2>1. CASE lowlink <= memo[k].index
    BY <1>1, <1>2, <1>3, <2>1 DEF Noted
  <2>2. ASSUME NEW j \in i + 1 .. Len(frames), Opens(j), frames[j].outer <= memo[k].index
        PROVE  Noted(i, k)'
    <3>1. j \in DOMAIN frames' /\ Opens(j)' /\ frames'[j].outer = frames[j].outer
      BY <1>1, <2>2, CalmOpens
    <3>2. j \in i + 1 .. Len(frames')
      BY <1>1, <3>1
    <3> QED
      BY <1>2, <2>2, <3>1, <3>2 DEF Noted
  <2> QED
    BY <1>5, <2>1, <2>2 DEF Noted
<1> QED
  BY <1>2, <1>4, <1>5, MeaningKept DEF Excuses

(* A component that settles further out keeps its last member before what  *)
(* is worked on now.                                                       *)
LEMMA SettledBefore ==
  ASSUME Facts, Shape, NEW q \in DOMAIN frames, frames[q].at = "settle",
         NEW n, n = Len(frames), q < n, Opens(n)
  PROVE  /\ LastMember(frames[q]) \in Keys
         /\ memo[LastMember(frames[q])].index \in Nat
         /\ memo[LastMember(frames[q])].index < frames[n].index
         /\ frames[n].index \in Nat
<1>1. n \in DOMAIN frames
  BY FramesAre
<1>2. /\ frames[q].pos + frames[q].size \in DOMAIN stack
      /\ memo[stack[frames[q].pos + frames[q].size]].index < frames[n].index
  BY <1>1, Below DEF Opens
<1> QED
  BY <1>1, <1>2, OnStack, OpenOnStack DEF LastMember

(* So do the members it has been through.                                  *)
LEMMA SettledMembers ==
  ASSUME Facts, Shape, NEW q \in DOMAIN frames, frames[q].at = "settle",
         NEW n, n = Len(frames), q < n, Opens(n),
         NEW p \in frames[q].pos + 1 .. frames[q].pos + frames[q].turn - 1
  PROVE  /\ p \in DOMAIN stack
         /\ memo[stack[p]].index < frames[n].index
<1>1. DOMAIN frames = 1 .. n /\ n \in Nat /\ n \in DOMAIN frames /\ Opens(q)
  BY FramesAre DEF Opens
<1>2. /\ frames[q].turn <= frames[q].size
      /\ frames[q].pos + frames[q].size \in DOMAIN stack
      /\ memo[stack[frames[q].pos + frames[q].size]].index < frames[n].index
  BY <1>1, Below
<1>3. frames[q] \in RelationFrames /\ frames[n].index \in Nat
  BY <1>1, OpenOnStack
<1>4. frames[q].pos \in Nat /\ frames[q].turn \in Nat /\ frames[q].size \in Nat
  BY <1>3 DEF RelationFrames
<1>5. DOMAIN stack = 1 .. Len(stack) /\ Len(stack) \in Nat
  BY DEF Facts, Typed
<1>6. p \in DOMAIN stack /\ p < frames[q].pos + frames[q].size
  BY <1>2, <1>4, <1>5
<1>7. memo[stack[p]].index < memo[stack[frames[q].pos + frames[q].size]].index
  BY <1>2, <1>6 DEF Facts, StackInOrder
<1>8. /\ memo[stack[p]].index \in Nat
      /\ memo[stack[frames[q].pos + frames[q].size]].index \in Nat
  BY <1>2, <1>6, OnStack
<1> QED
  BY <1>2, <1>3, <1>6, <1>7, <1>8

(* A calm step keeps what may excuse a frame in mid-settling. *)
LEMMA CalmFresh ==
  ASSUME Calm, Facts, Shape, Facts', NEW n, n = Len(frames),
         \A k \in Keys : memo'[k].state = "true" =>
           \/ memo[k].state = "true"
           \/ n \in DOMAIN frames /\ Opens(n) /\ frames[n].index <= memo[k].index,
         NEW i \in DOMAIN frames, i \in DOMAIN frames',
         \A q \in 1 .. i : frames'[q].at = "settle" =>
           /\ frames[q].at = "settle"
           /\ frames'[q].pos = frames[q].pos /\ frames'[q].size = frames[q].size
           /\ q < n \/ \A k \in Keys : memo'[k].state = "true" => memo[k].state = "true"
  PROVE  Fresh(i) \subseteq Fresh(i)'
<1>1. /\ DOMAIN frames = 1 .. n /\ n \in Nat /\ Typed /\ Typed'
      /\ DOMAIN frames' = 1 .. Len(frames') /\ Len(frames') \in Nat
  BY FramesAre DEF Facts, Typed
<1>2. /\ stack' = stack /\ \A k \in Keys : memo'[k].index = memo[k].index
  BY CalmMemo
<1>3. ASSUME NEW k \in Fresh(i), NEW q \in 1 .. i, Under(q, i)', frames'[q].at = "settle"
      PROVE  memo'[k].state # "true"
               \/ memo'[LastMember(frames[q])'].index < memo'[k].index
  <2>1. k \in Keys /\ q \in 1 .. n /\ q \in DOMAIN frames' /\ frames[q].at = "settle"
    BY <1>1, <1>3 DEF Fresh
  <2>2. LastMember(frames[q])' = LastMember(frames[q])
    BY <1>2, <1>3 DEF LastMember
  <2>3. Under(q, i)
    <3>1. Opens(q) /\ \A j \in q + 1 .. i : ~Opens(j)'
      BY <1>3, <2>1 DEF Under, Opens
    <3>2. \A j \in q + 1 .. i : j \in DOMAIN frames /\ j \in DOMAIN frames'
      BY <1>1
    <3>3. \A j \in q + 1 .. i : ~Opens(j)
      BY <1>1, <3>1, <3>2, CalmOpens
    <3> QED
      BY <3>1, <3>3 DEF Under
  <2>4. memo[k].state # "true" \/ memo[LastMember(frames[q])].index < memo[k].index
    BY <1>3, <2>1, <2>3 DEF Fresh
  <2>5. LastMember(frames[q]) \in Keys
    <3>1. SettleShape(q)
      BY <1>1, <2>1 DEF Shape
    <3> QED
      BY <3>1 DEF SettleShape, LastMember, Facts, Typed
  <2>6. CASE memo[k].state = "true"
    BY <1>2, <2>1, <2>2, <2>4, <2>5, <2>6
  <2>7. CASE memo[k].state # "true" /\ memo'[k].state = "true"
    <3>1. n \in DOMAIN frames /\ Opens(n) /\ frames[n].index <= memo[k].index /\ q < n
      BY <1>3, <2>1, <2>7
    <3>2. memo[LastMember(frames[q])].index < frames[n].index /\ frames[n].index \in Nat
          /\ memo[LastMember(frames[q])].index \in Nat
      BY <1>1, <2>1, <3>1, SettledBefore
    <3>3. memo[k].index \in Nat
      BY <2>1 DEF Facts, Typed, Memos
    <3>4. memo[LastMember(frames[q])].index < memo[k].index
      BY <3>1, <3>2, <3>3
    <3> QED
      BY <1>2, <2>1, <2>2, <2>5, <3>4
  <2> QED
    BY <2>6, <2>7
<1>4. Fresh(i) \subseteq Keys
  BY DEF Fresh
<1> QED
  BY <1>3, <1>4 DEF Fresh

(* A step that leaves a frame alone, and raises or lowers no answer but    *)
(* what the innermost relation worked on, leaves what the frame means.     *)
LEMMA CalmFrame ==
  ASSUME Calm, Facts, Shape, Facts', lowlink' <= lowlink, NEW n, n = Len(frames),
         \A k \in Keys :
           \/ memo'[k].state = memo[k].state
           \/ n \in DOMAIN frames /\ Opens(n) /\ frames[n].index <= memo[k].index,
         NEW i \in DOMAIN frames, i \in DOMAIN frames', frames'[i] = frames[i],
         i < n \/ memo' = memo, FrameMeans(i)
  PROVE  FrameMeans(i)' /\ Usable(i) \subseteq Usable(i)'
<1>1. /\ DOMAIN frames = 1 .. n /\ n \in Nat /\ i \in Nat /\ i <= n
      /\ DOMAIN frames' = 1 .. Len(frames') /\ Len(frames') \in Nat
  BY FramesAre
<1>2. /\ asked' = asked /\ stack' = stack
      /\ \A k \in Keys : memo'[k].index = memo[k].index
  BY CalmMemo
<1>3. Excuses(i) \subseteq Excuses(i)'
  BY <1>1, CalmExcuses
<1>4. Fresh(i) \subseteq Fresh(i)'
  <2>1. \A q \in 1 .. i : q < n => frames'[q] = frames[q]
    <3>1. \A q \in 1 .. i : q \in DOMAIN frames /\ q \in DOMAIN frames'
      BY <1>1
    <3> QED
      BY <1>1, <3>1 DEF Calm
  <2>2. \A q \in 1 .. i : q < n \/ (q = i /\ i = n)
    BY <1>1
  <2>3. \A q \in 1 .. i : frames'[q].at = "settle" =>
           /\ frames[q].at = "settle"
           /\ frames'[q].pos = frames[q].pos /\ frames'[q].size = frames[q].size
           /\ q < n \/ \A k \in Keys : memo'[k].state = "true" => memo[k].state = "true"
    BY <2>1, <2>2
  <2>4. \A k \in Keys : memo'[k].state = "true" =>
           \/ memo[k].state = "true"
           \/ n \in DOMAIN frames /\ Opens(n) /\ frames[n].index <= memo[k].index
    OBVIOUS
  <2> QED
    BY <2>3, <2>4, CalmFresh
<1>5. Usable(i) \subseteq Usable(i)'
  BY <1>3, <1>4 DEF Usable
<1>6. ASSUME frames[i].at = "settle",
             NEW p \in frames[i].pos + 1 .. frames[i].pos + frames[i].turn - 1,
             stack[p] \in Untrue'
      PROVE  stack[p] \in Untrue
  <2>1. CASE memo' = memo
    BY <1>6, <2>1 DEF Untrue
  <2>2. CASE ~(memo'[stack[p]].state # memo[stack[p]].state)
    BY <1>6, <2>2 DEF Untrue
  <2>3. CASE i < n /\ memo'[stack[p]].state # memo[stack[p]].state
    <3>1. stack[p] \in Keys
      BY <1>6 DEF Untrue
    <3>2. n \in DOMAIN frames /\ Opens(n) /\ frames[n].index <= memo[stack[p]].index
      BY <2>3, <3>1
    <3>3. memo[stack[p]].index < frames[n].index
      BY <1>6, <2>3, <3>2, SettledMembers
    <3>4. memo[stack[p]].index \in Nat /\ frames[n].index \in Nat
      BY <3>1, <3>2, OpenOnStack DEF Facts, Typed, Memos
    <3> QED
      BY <3>2, <3>3, <3>4
  <2> QED
    BY <2>1, <2>2, <2>3
<1>7. Opens(i) => \A k \in Region(i)' : memo'[k].state = "false" =>
        k \in Region(i) /\ memo[k].state = "false"
  <2>1. SUFFICES ASSUME Opens(i), NEW k \in Region(i)', memo'[k].state = "false"
                 PROVE  k \in Region(i) /\ memo[k].state = "false"
    OBVIOUS
  <2>2. Opens(i)'
    BY <2>1 DEF Opens
  <2>3. k \in Region(i)
    BY <2>1, <2>2, CalmVisible
  <2>4. CASE memo' = memo
    BY <2>1, <2>3, <2>4
  <2>5. CASE i < n
    <3>1. k \in Keys /\ (n \in DOMAIN frames /\ Opens(n) => memo[k].index < frames[n].index)
      <4>1. n \in i + 1 .. Len(frames)
        BY <1>1, <2>5
      <4> QED
        BY <2>3, <4>1 DEF Region, Visible
    <3>2. memo[k].index \in Nat
      BY <3>1 DEF Facts, Typed, Memos
    <3>3. n \in DOMAIN frames /\ Opens(n) => frames[n].index \in Nat
      BY OpenOnStack
    <3>4. memo'[k].state = memo[k].state
      BY <3>1, <3>2, <3>3
    <3> QED
      BY <2>1, <2>3, <3>4
  <2> QED
    BY <2>4, <2>5
<1> QED
  BY <1>2, <1>3, <1>5, <1>6, <1>7, FrameKept

(* Final answers mean what they did if no answer changes. *)
LEMMA MemoMeansKept ==
  ASSUME MemoMeans, asked' = asked, memo' = memo
  PROVE  MemoMeans'
  BY MeaningKept DEF MemoMeans

(* What is being computed stays on the call stack. *)
LEMMA ComputingKept ==
  ASSUME ComputingOpen, NEW n, n = Len(frames),
         \A k \in Keys : memo'[k].state = "computing" => memo[k].state = "computing",
         \A i \in DOMAIN frames :
           /\ frames[i].at = "relation" /\ memo'[frames[i].key].state = "computing"
           /\ i = n => next.go # "test"
           => /\ i \in DOMAIN frames' /\ frames'[i].at = "relation"
              /\ frames'[i].key = frames[i].key
              /\ i = Len(frames') => next'.go # "test"
  PROVE  ComputingOpen'
<1>1. ASSUME NEW k \in Keys, memo'[k].state = "computing"
      PROVE  \E i \in DOMAIN frames' : /\ frames'[i].at = "relation" /\ frames'[i].key = k
                                       /\ i = Len(frames') => next'.go # "test"
  <2>1. PICK i \in DOMAIN frames : /\ frames[i].at = "relation" /\ frames[i].key = k
                                   /\ i = Len(frames) => next.go # "test"
    BY <1>1 DEF ComputingOpen
  <2> QED
    BY <1>1, <2>1
<1> QED
  BY <1>1 DEF ComputingOpen

(* A call that is answered at once. *)
LEMMA AtOnceSense ==
  ASSUME Calm, Facts, Shape, Facts', MemoMeans, Sense,
         frames' = frames, memo' = memo, lowlink' <= lowlink,
         next.go \in {"relation", "rewrite"}, next'.go = "back", BackMeans'
  PROVE  MemoMeans' /\ Sense'
<1>1. asked' = asked
  BY CalmMemo
<1>2. ASSUME NEW i \in DOMAIN frames'
      PROVE  FrameMeans(i)'
  <2>1. i \in DOMAIN frames /\ frames'[i] = frames[i] /\ FrameMeans(i)
    BY <1>2 DEF Sense
  <2> QED
    BY <2>1, CalmFrame
<1>3. ComputingOpen'
  BY ComputingKept DEF Sense
<1>4. TestMeans'
  BY DEF TestMeans
<1> QED
  BY <1>1, <1>2, <1>3, <1>4, MemoMeansKept DEF Sense

(* A claim that is called for, and what waits for it. *)
LEMMA CalledFor ==
  ASSUME Facts, Shape, next.go \in {"relation", "rewrite"}, frames # <<>>,
         asked' = asked, stack' = stack, frames' = frames
  PROVE  /\ ClaimOf(Awaits(Last(frames)))' = ClaimOf(next)
         /\ next = Awaits(Last(frames))
<1>1. next = Awaits(Last(frames))
  BY DEF Shape, Chain
<1>2. \A f : Awaits(f)' = Awaits(f)
  BY AwaitsKept
<1>3. \A c : ClaimOf(c)' = ClaimOf(c)
  BY CaseKept
<1>4. PICK f : f = Last(frames)
  OBVIOUS
<1>5. PICK c : c = Awaits(f)
  OBVIOUS
<1>6. Last(frames)' = f
  BY <1>4
<1>7. Awaits(Last(frames))' = c
  <2>1. Awaits(f)' = c
    BY <1>2, <1>5
  <2> QED
    BY <1>6, <2>1 DEF Awaits, Member
<1> QED
  BY <1>1, <1>3, <1>4, <1>5, <1>7

-----------------------------------------------------------------------------
(* Calls that are answered at once. *)

(* Reuse: a key being computed or false on the stack excuses itself. *)
LEMMA ReuseSense ==
  ASSUME Facts, Shape, MemoMeans, Sense, NEW k \in Keys, Reuse(k)
  PROVE  MemoMeans' /\ Sense'
<1>1. Calm /\ Facts' /\ Shape'
  BY ReuseShape
<1>2. /\ frames' = frames /\ memo' = memo /\ asked' = asked /\ stack' = stack
      /\ next.go = "relation" /\ next = Relation(k) /\ IsDefined(k) /\ memo[k] # Unseen
      /\ lowlink' = Drawn(k)
      /\ next' = Back(memo[k].state = "true", NewNode)
  <2>1. next.go = "relation" => next \in RelationCalls
    BY NextTypes DEF Facts
  <2> QED
    BY <2>1 DEF Reuse, Calling, tarjan, Relation, RelationCalls
<1>3. next'.go = "back" /\ next'.allowed = (memo[k].state = "true")
  BY <1>2 DEF Back
<1>4. /\ memo[k].index \in Nat /\ memo[k].state \in {"computing", "true", "false"}
      /\ lowlink \in Nat /\ lowlink' \in Nat /\ lowlink' <= lowlink
      /\ memo[k].index # 0 => lowlink' <= memo[k].index
  <2>1. memo[k] \in Memos /\ lowlink \in Nat
    BY DEF Facts, Typed
  <2>2. memo[k].state = "none" => memo[k].index = 0
    BY DEF Facts, MemoKnown
  <2>3. memo[k].state # "none"
    BY <1>2, <2>1, <2>2 DEF Memos, Unseen
  <2>4. lowlink' \in Nat /\ lowlink' <= lowlink
        /\ (memo[k].index # 0 => lowlink' <= memo[k].index)
    BY <1>2, <2>1 DEF Memos, Drawn, Lower
  <2> QED
    BY <2>1, <2>3, <2>4 DEF Memos
<1>5. Said(k) \in DOMAIN meaning
  BY <1>4 DEF Facts, MemoKnown
<1>6. StageOf(Said(k)) \in Nat /\ LevelOf(Said(k)) \in Nat
  BY <1>5, ClaimFacts DEF Facts, Typed
<1>7. /\ \A c : LevelOf(c)' = LevelOf(c) /\ StageOf(c)' = StageOf(c)
      /\ \A c : Granted(c)' <=> Granted(c)
      /\ \A q : Said(q)' = Said(q)
  BY <1>2, MeaningKept
<1>8. memo[k].state = "true" => Granted(Said(k))
  BY DEF MemoMeans
<1>9. memo[k].state # "true" /\ memo[k].index = 0 => ~Granted(Said(k))
  BY <1>4 DEF MemoMeans
<1>10. BackMeans'
  <2>1. CASE frames = <<>>
    <3>1. k = case.key /\ stack = <<>>
      BY <1>2, <2>1 DEF Shape, Chain, Relation
    <3>2. memo[k].index = 0
      BY <3>1 DEF Facts, StackInOrder
    <3>3. case' = case /\ meaning' = meaning /\ \A q : IsDefined(q)' <=> IsDefined(q)
      BY <1>2, CaseKept
    <3>4. next'.allowed <=> Granted(Said(k))
      BY <1>3, <1>8, <1>9, <3>2
    <3> QED
      BY <1>2, <1>5, <1>7, <2>1, <3>1, <3>3, <3>4 DEF BackMeans
  <2>2. CASE frames # <<>>
    <3>1. PICK d : d = Said(k)
      OBVIOUS
    <3>2. ClaimOf(Awaits(Last(frames)))' = d /\ next = Awaits(Last(frames))
      BY <1>2, <2>2, <3>1, CalledFor DEF ClaimOf, Relation
    <3>3. PICK n : n = Len(frames)
      OBVIOUS
    <3>4. n \in DOMAIN frames /\ ~Opens(n)
      <4>1. PICK f : f = Last(frames)
        OBVIOUS
      <4>2. n \in DOMAIN frames /\ f = frames[n] /\ f.at \in {"operands", "relation", "settle"}
        BY <2>2, <3>3, <4>1, TopShape
      <4>3. f.at \in {"relation", "settle"} => Awaits(f).go = "rewrite"
        BY DEF Awaits, Rewrite
      <4> QED
        BY <1>2, <3>2, <4>1, <4>2, <4>3 DEF Opens
    <3>5. ASSUME memo[k].state # "true", Granted(d)
          PROVE  k \in Usable(n)'
      <4>1. memo[k].index # 0
        BY <1>9, <3>1, <3>5
      <4>2. \A j \in n + 1 .. Len(frames) : FALSE
        BY <3>3, FramesAre
      <4>3. k \in Visible(n)'
        BY <1>2, <4>1, <4>2 DEF Visible
      <4>4. Noted(n, k)'
        BY <1>2, <1>4, <4>1 DEF Noted
      <4>5. k \in Fresh(n)'
        BY <1>2, <3>5 DEF Fresh
      <4> QED
        BY <1>7, <3>1, <3>5, <4>3, <4>4, <4>5 DEF Usable, Excuses
    <3>6. next'.allowed => Granted(d)
      BY <1>3, <1>8, <3>1
    <3>7. ASSUME ~next'.allowed, Granted(d)
          PROVE  \E q \in Usable(n)' : /\ StageOf(Said(q))' <= StageOf(d)'
                                       /\ LevelOf(Said(q))' <= LevelOf(d)'
                                       /\ Opens(n)' => StageOf(Said(q))' < StageOf(d)'
      <4>1. k \in Usable(n)'
        BY <1>3, <3>5, <3>7
      <4>2. StageOf(Said(k))' = StageOf(d)' /\ LevelOf(Said(k))' = LevelOf(d)'
        BY <1>7, <3>1
      <4>3. StageOf(d)' \in Nat /\ LevelOf(d)' \in Nat
        BY <1>6, <1>7, <3>1
      <4>4. ~Opens(n)'
        BY <1>2, <3>4 DEF Opens
      <4>5. StageOf(Said(k))' <= StageOf(d)' /\ LevelOf(Said(k))' <= LevelOf(d)'
        BY <4>2, <4>3
      <4> QED
        BY <4>1, <4>4, <4>5
    <3> QED
      BY <1>2, <1>7, <2>2, <3>2, <3>3, <3>6, <3>7 DEF BackMeans
  <2> QED
    BY <2>1, <2>2
<1> QED
  BY <1>1, <1>2, <1>3, <1>4, <1>10, AtOnceSense

(* A call answered for good: the answer is what its claim means.           *)
LEMMA ExactBack ==
  ASSUME Facts, Shape, next.go = "rewrite", asked' = asked, stack' = stack, frames' = frames,
         NEW d, d = Claim(next.rw, next.key),
         next'.allowed <=> Granted(d)
  PROVE  BackMeans'
<1>1. frames # <<>>
  BY CalledClaim
<1>2. ClaimOf(Awaits(Last(frames)))' = d
  BY <1>1, CalledFor DEF ClaimOf
<1>3. Granted(d)' <=> Granted(d)
  BY MeaningKept
<1> QED
  BY <1>1, <1>2, <1>3 DEF BackMeans

(* Stored: the tuples name the subject, and the claim follows. *)
LEMMA StoredSense ==
  ASSUME Facts, Shape, MemoMeans, Sense, Stored
  PROVE  MemoMeans' /\ Sense'
<1>1. Calm /\ Facts' /\ Shape'
  BY StoredShape
<1>2. /\ frames' = frames /\ memo' = memo /\ asked' = asked /\ stack' = stack
      /\ lowlink' = lowlink /\ next.go = "rewrite" /\ next.rw.op = "this"
      /\ wildcardGrants(next.key) \/ directGrants(next.key)
      /\ next' = Back(TRUE, NewNode)
  BY DEF Stored, Rewriting, tarjan
<1>3. next'.go = "back" /\ next'.allowed
  BY <1>2 DEF Back
<1>4. PICK d : d = Claim(next.rw, next.key)
  OBVIOUS
<1>5. d \in DOMAIN meaning /\ next.key \in Keys /\ d.rw.op = "this" /\ d.key = next.key
  BY <1>2, <1>4, CalledClaim DEF Claim
<1>6. asked \in DOMAIN Cases /\ lowlink \in Nat
  BY DEF Facts, Typed
<1>7. Granted(d)
  <2>1. Named(case.schema, case.tuples, case.subject, d.key)
    BY <1>2, <1>5, <1>6, NamedIsStored
  <2> QED
    BY <1>5, <1>6, <2>1, GrantedIf
<1>8. BackMeans'
  BY <1>2, <1>3, <1>4, <1>7, ExactBack
<1>9. lowlink' <= lowlink
  BY <1>2, <1>6
<1> QED
  BY <1>1, <1>2, <1>3, <1>8, <1>9, AtOnceSense

(* A claim made of nothing is not granted, unless the subject is named.    *)
LEMMA NothingToCall ==
  ASSUME asked \in DOMAIN Cases, NEW rw, NEW k, Claim(rw, k) \in DOMAIN meaning,
         <<>> \in Calls(rw, k),
         rw.op = "this" => ~(wildcardGrants(k) \/ directGrants(k))
  PROVE  ~Granted(Claim(rw, k))
<1>1. PICK c : c = Claim(rw, k)
  OBVIOUS
<1>2. c \in DOMAIN meaning /\ c.rw = rw /\ c.key = k
  BY <1>1 DEF Claim
<1>3. PICK calls \in Calls(rw, k) : calls = <<>>
  OBVIOUS
<1>4. Subclaims(case, c) = {}
  BY <1>1, <1>2, <1>3, CallsMean
<1>5. k \in Keys /\ rw.op \in Simple \cup Composite
      /\ (rw.op \in Composite => 1 \in DOMAIN rw.children)
  BY <1>2, ClaimFacts
<1>6. rw.op \notin Composite
  BY <1>2, <1>4, <1>5, ChildIsSubclaim
<1>7. ASSUME Granted(c)
      PROVE  FALSE
  <2>1. c.rw.op = "this" /\ Named(case.schema, case.tuples, case.subject, c.key)
    BY <1>2, <1>4, <1>6, <1>7, GrantedFor DEF Composite
  <2> QED
    BY <1>2, <1>5, <2>1, NamedIsStored
<1> QED
  BY <1>1, <1>7

(* Expand: a rewrite without calls is granted by nothing. *)
LEMMA ExpandSense ==
  ASSUME Facts, Shape, MemoMeans, Sense, Expand
  PROVE  MemoMeans' /\ Sense'
<1>1. Calm /\ Facts' /\ Shape'
  BY ExpandShape
<1>2. /\ memo' = memo /\ asked' = asked /\ stack' = stack /\ lowlink' = lowlink
      /\ next.go = "rewrite"
      /\ next.rw.op = "this" => ~(wildcardGrants(next.key) \/ directGrants(next.key))
  BY DEF Expand, tarjan
<1>3. PICK calls \in Calls(next.rw, next.key) :
        IF calls = <<>>
        THEN next' = Back(FALSE, NewNode) /\ frames' = frames
        ELSE /\ frames' = Append(frames,
                  [at |-> "operands", rw |-> next.rw, key |-> next.key,
                   node |-> NewNode, calls |-> calls, turn |-> 1])
             /\ next' = calls[1]
  BY DEF Expand
<1>4. asked \in DOMAIN Cases /\ lowlink \in Nat /\ frames \in Seq(Frames)
  BY DEF Facts, Typed
<1>5. lowlink' <= lowlink
  BY <1>2, <1>4
<1>6. PICK d : d = Claim(next.rw, next.key)
  OBVIOUS
<1>7. d \in DOMAIN meaning
  BY <1>2, <1>6, CalledClaim
<1>8. CASE calls = <<>>
  <2>1. frames' = frames /\ next'.go = "back" /\ ~next'.allowed
    BY <1>3, <1>8 DEF Back
  <2>2. ~Granted(d)
    BY <1>2, <1>3, <1>4, <1>6, <1>7, <1>8, NothingToCall
  <2>3. BackMeans'
    BY <1>2, <1>6, <2>1, <2>2, ExactBack
  <2> QED
    BY <1>1, <1>2, <1>5, <2>1, <2>3, AtOnceSense
<1>9. CASE calls # <<>>
  <2>1. PICK n : n = Len(frames)
    OBVIOUS
  <2>g. PICK g : g = [at |-> "operands", rw |-> next.rw, key |-> next.key,
                      node |-> NewNode, calls |-> calls, turn |-> 1]
    OBVIOUS
  <2>2. frames' = Append(frames, g) /\ g.at = "operands" /\ g.turn = 1
        /\ next' = calls[1]
    BY <1>3, <1>9, <2>g
  <2>3. /\ n \in Nat /\ DOMAIN frames = 1 .. n /\ DOMAIN frames' = 1 .. n + 1
        /\ Len(frames') = n + 1
        /\ \A i \in 1 .. n : frames'[i] = frames[i]
        /\ frames'[n + 1] = g
    BY <1>4, <2>1, <2>2
  <2>4. ASSUME NEW i \in DOMAIN frames'
        PROVE  FrameMeans(i)'
    <3>1. CASE i \in 1 .. n
      <4>1. i \in DOMAIN frames /\ frames'[i] = frames[i] /\ FrameMeans(i)
        BY <2>3, <3>1 DEF Sense
      <4> QED
        BY <1>1, <1>2, <1>5, <2>4, <4>1, CalmFrame
    <3>2. CASE i = n + 1
      <4>1. frames'[i].at = "operands" /\ \A j \in 1 .. frames'[i].turn - 1 : FALSE
        BY <2>2, <2>3, <3>2
      <4> QED
        BY <4>1 DEF FrameMeans, OperandsMean, Opens
    <3> QED
      BY <2>3, <2>4, <3>1, <3>2
  <2>5. next'.go \in {"relation", "rewrite"}
    <3>1. calls \in Seq(RelationCalls \cup RewriteCalls)
      BY <1>3, <1>4, <1>6, <1>7, CallsMean
    <3>2. calls[1] \in RelationCalls \cup RewriteCalls
      BY <1>9, <3>1
    <3> QED
      BY <2>2, <3>2 DEF RelationCalls, RewriteCalls
  <2>6. ComputingOpen'
    <3>1. \A i \in DOMAIN frames : i \in DOMAIN frames' /\ frames'[i] = frames[i]
      BY <2>3
    <3> QED
      BY <1>2, <2>5, <3>1, ComputingKept DEF Sense
  <2>7. BackMeans' /\ TestMeans'
    BY <2>5 DEF BackMeans, TestMeans
  <2> QED
    BY <1>2, <2>4, <2>6, <2>7, MemoMeansKept DEF Sense
<1> QED
  BY <1>8, <1>9

-----------------------------------------------------------------------------
(* The operands of a rewrite. *)

(* What the innermost rewrite is, and what its answer means.               *)
LEMMA OperandBack ==
  ASSUME Facts, Shape, Reach, Sense, Returned("operands"),
         NEW n, n = Len(frames), NEW f, f = Last(frames),
         NEW C, C = ClaimAt(n), NEW d, d = ClaimOf(f.calls[f.turn])
  PROVE  /\ asked \in DOMAIN Cases
         /\ n \in Nat \ {0} /\ DOMAIN frames = 1 .. n /\ n \in DOMAIN frames /\ f = frames[n]
         /\ f \in OperandsFrames /\ ~Opens(n) /\ f.at = "operands"
         /\ f.turn \in DOMAIN f.calls /\ f.calls \in Calls(f.rw, f.key)
         /\ DOMAIN f.calls = 1 .. Len(f.calls) /\ Len(f.calls) \in Nat
         /\ f.turn \in Nat \ {0} /\ f.turn <= Len(f.calls)
         /\ C = Claim(f.rw, f.key) /\ C.rw = f.rw /\ C.key = f.key
         /\ C \in DOMAIN meaning /\ StageOf(C) \in Nat /\ LevelOf(C) \in Nat
         /\ d \in Subclaims(case, C) /\ d \in DOMAIN meaning
         /\ StageOf(d) \in Nat /\ LevelOf(d) \in Nat /\ LevelOf(d) <= LevelOf(C)
         /\ f.rw.op = "this" => ~(wildcardGrants(f.key) \/ directGrants(f.key))
         /\ next.allowed \in BOOLEAN
         /\ next.allowed => Granted(d)
         /\ ~next.allowed /\ Granted(d) =>
              \E k \in Usable(n) : /\ StageOf(Said(k)) <= StageOf(d)
                                   /\ LevelOf(Said(k)) <= LevelOf(d)
         /\ \A j \in 1 .. f.turn - 1 : Done(n, ClaimOf(f.calls[j]))
         /\ \A k \in Usable(n) : /\ k \in Keys /\ k \in Visible(n)
                                 /\ StageOf(Said(k)) \in Nat /\ LevelOf(Said(k)) \in Nat
                                 /\ LevelOf(C) <= LevelOf(Said(k))
<1>1. /\ asked \in DOMAIN Cases /\ frames \in Seq(Frames) /\ frames # <<>> /\ f.at = "operands"
      /\ next.go = "back" /\ ~next.failed
  BY DEF Facts, Typed, Returned
<1>2. /\ n \in Nat \ {0} /\ DOMAIN frames = 1 .. n /\ n \in DOMAIN frames /\ f = frames[n]
      /\ f \in OperandsFrames /\ OperandsShape(f) /\ ~Opens(n)
  BY <1>1, TopShape, FramesAre DEF Opens
<1>3. f.turn \in DOMAIN f.calls /\ f.calls \in Calls(f.rw, f.key)
      /\ (f.rw.op = "this" => ~(wildcardGrants(f.key) \/ directGrants(f.key)))
  BY <1>2 DEF OperandsShape
<1>4. f.calls \in Seq(RelationCalls \cup RewriteCalls)
  BY <1>2 DEF OperandsFrames
<1>5. /\ DOMAIN f.calls = 1 .. Len(f.calls) /\ Len(f.calls) \in Nat
      /\ f.turn \in Nat \ {0} /\ f.turn <= Len(f.calls)
  BY <1>3, <1>4
<1>6. /\ C = Claim(f.rw, f.key) /\ C.rw = f.rw /\ C.key = f.key
      /\ C \in DOMAIN meaning /\ StageOf(C) \in Nat /\ LevelOf(C) \in Nat
  BY <1>2, ClaimAtIs DEF Claim
<1>7. ClaimOf(Awaits(Last(frames))) = d
  BY <1>1 DEF Awaits
<1>8. /\ d \in Subclaims(case, C) /\ d \in DOMAIN meaning
      /\ StageOf(d) \in Nat /\ LevelOf(d) \in Nat /\ LevelOf(d) <= LevelOf(C)
  BY <1>1, <1>2, <1>7, AwaitedLevel DEF Reach
<1>9. next.allowed \in BOOLEAN
  BY <1>1, NextTypes DEF Facts, Backs
<1>10. /\ next.allowed => Granted(d)
       /\ ~next.allowed /\ Granted(d) =>
              \E k \in Usable(n) : /\ StageOf(Said(k)) <= StageOf(d)
                                   /\ LevelOf(Said(k)) <= LevelOf(d)
  BY <1>1, <1>7 DEF Sense, BackMeans
<1>11. \A j \in 1 .. f.turn - 1 : Done(n, ClaimOf(f.calls[j]))
  BY <1>2 DEF Sense, FrameMeans, OperandsMean
<1>12. ASSUME NEW k \in Usable(n)
       PROVE  /\ k \in Keys /\ k \in Visible(n)
              /\ StageOf(Said(k)) \in Nat /\ LevelOf(Said(k)) \in Nat
              /\ LevelOf(C) <= LevelOf(Said(k))
  <2>1. k \in Visible(n) /\ k \in Keys /\ memo[k].index # 0
    BY DEF Usable, Excuses, Visible
  <2> QED
    BY <1>2, <2>1, Indexed DEF Reach, Levels
<1> QED
  BY <1>1, <1>2, <1>3, <1>5, <1>6, <1>8, <1>9, <1>10, <1>11, <1>12

(* NextOperand: an operand that decided nothing means what it said. *)
LEMMA NextOperandSense ==
  ASSUME Facts, Shape, Reach, MemoMeans, Sense, NextOperand
  PROVE  MemoMeans' /\ Sense'
<1>1. Calm /\ Facts' /\ Shape'
  BY NextOperandShape
<1>n. PICK n : n = Len(frames)
  OBVIOUS
<1>f. PICK f : f = Last(frames)
  OBVIOUS
<1>c. PICK C : C = ClaimAt(n)
  OBVIOUS
<1>d. PICK d : d = ClaimOf(f.calls[f.turn])
  OBVIOUS
<1>2. /\ Returned("operands") /\ ~Decides(f, next.allowed)
      /\ frames' = [frames EXCEPT ![n].turn = @ + 1]
      /\ next' = f.calls[f.turn + 1]
      /\ memo' = memo /\ asked' = asked /\ stack' = stack /\ lowlink' = lowlink
  BY <1>f, <1>n DEF NextOperand, tarjan
<1>3. /\ n \in Nat \ {0} /\ DOMAIN frames = 1 .. n /\ n \in DOMAIN frames /\ f = frames[n]
      /\ f \in OperandsFrames /\ ~Opens(n) /\ f.at = "operands"
      /\ DOMAIN f.calls = 1 .. Len(f.calls) /\ Len(f.calls) \in Nat
      /\ f.turn \in Nat \ {0} /\ f.turn <= Len(f.calls)
      /\ StageOf(C) \in Nat /\ LevelOf(C) \in Nat
      /\ StageOf(d) \in Nat /\ LevelOf(d) \in Nat /\ LevelOf(d) <= LevelOf(C)
      /\ next.allowed \in BOOLEAN
      /\ next.allowed => Granted(d)
      /\ ~next.allowed /\ Granted(d) =>
           \E k \in Usable(n) : /\ StageOf(Said(k)) <= StageOf(d)
                                /\ LevelOf(Said(k)) <= LevelOf(d)
      /\ \A j \in 1 .. f.turn - 1 : Done(n, ClaimOf(f.calls[j]))
      /\ \A k \in Usable(n) : StageOf(Said(k)) \in Nat /\ LevelOf(Said(k)) \in Nat
  BY <1>2, <1>n, <1>f, <1>c, <1>d, OperandBack
<1>4. /\ DOMAIN frames' = 1 .. n
      /\ \A i \in 1 .. n - 1 : frames'[i] = frames[i]
      /\ frames'[n] = [f EXCEPT !.turn = @ + 1]
  BY <1>2, <1>3
<1>5. /\ frames'[n].rw = f.rw /\ frames'[n].calls = f.calls /\ frames'[n].turn = f.turn + 1
      /\ frames'[n].at = "operands"
  BY <1>3, <1>4 DEF OperandsFrames
<1>6. lowlink' <= lowlink
  BY <1>2 DEF Facts, Typed
<1>7. Usable(n) \subseteq Usable(n)'
  <2>1. Excuses(n) \subseteq Excuses(n)'
    BY <1>1, <1>3, <1>6, CalmExcuses
  <2>2. \A q \in 1 .. n : frames'[q].at = "settle" =>
           /\ frames[q].at = "settle"
           /\ frames'[q].pos = frames[q].pos /\ frames'[q].size = frames[q].size
    <3>1. \A q \in 1 .. n : q = n \/ q \in 1 .. n - 1
      BY <1>3
    <3> QED
      BY <1>4, <1>5, <3>1
  <2>3. Fresh(n) \subseteq Fresh(n)'
    BY <1>1, <1>2, <1>3, <1>4, <1>n, <2>2, CalmFresh
  <2> QED
    BY <2>1, <2>3 DEF Usable
<1>8. Done(n, d)
  <2>1. CASE f.rw.op \in {"intersection", "exclusion"}
    <3>1. Granted(d)
      BY <1>2, <1>3, <2>1 DEF Decides
    <3> QED
      BY <1>3, <2>1, <3>1 DEF Done
  <2>2. CASE f.rw.op \notin {"intersection", "exclusion"}
    <3>1. ~next.allowed
      BY <1>2, <1>3, <2>2 DEF Decides
    <3>2. ASSUME Granted(d), StageOf(d) < StageOf(C)
          PROVE  Excused(Usable(n), C)
      <4>1. PICK k \in Usable(n) : /\ StageOf(Said(k)) <= StageOf(d)
                                   /\ LevelOf(Said(k)) <= LevelOf(d)
        BY <1>3, <3>1, <3>2
      <4>2. StageOf(Said(k)) < StageOf(C) /\ LevelOf(Said(k)) <= LevelOf(C)
        BY <1>3, <3>2, <4>1
      <4> QED
        BY <4>1, <4>2 DEF Excused
    <3> QED
      BY <1>3, <1>c, <2>2, <3>2 DEF Done
  <2> QED
    BY <2>1, <2>2
<1>9. OperandsMean(n)'
  <2>1. /\ \A c : Granted(c)' <=> Granted(c)
        /\ \A c : StageOf(c)' = StageOf(c)
        /\ \A c : ClaimOf(c)' = ClaimOf(c)
        /\ ClaimAt(n)' = ClaimAt(n)
    BY <1>1, <1>2, <1>3, <1>4, MeaningKept, CalmVisible
  <2>2. \A c : Excused(Usable(n), c) => Excused(Usable(n), c)'
    BY <1>2, <1>7, ExcusedKept
  <2>3. \A c : Done(n, c) => Done(n, c)'
    BY <1>3, <1>5, <2>1, <2>2 DEF Done
  <2>4. \A j \in 1 .. frames'[n].turn - 1 : j \in 1 .. f.turn - 1 \/ j = f.turn
    BY <1>3, <1>5
  <2>5. \A j \in 1 .. frames'[n].turn - 1 : Done(n, ClaimOf(f.calls[j]))
    BY <1>3, <1>8, <1>d, <2>4
  <2>6. \A j \in 1 .. frames'[n].turn - 1 : Done(n, ClaimOf(f.calls[j]))'
    <3>1. SUFFICES ASSUME NEW j \in 1 .. frames'[n].turn - 1
                   PROVE  Done(n, ClaimOf(f.calls[j]))'
      OBVIOUS
    <3>2. PICK c : c = ClaimOf(f.calls[j])
      OBVIOUS
    <3>3. Done(n, c)'
      BY <2>3, <2>5, <3>2
    <3>4. ClaimOf(f.calls[j])' = c
      BY <2>1, <3>2
    <3> QED
      BY <3>3, <3>4 DEF Done
  <2> QED
    BY <1>5, <2>6 DEF OperandsMean
<1>10. ASSUME NEW i \in DOMAIN frames'
       PROVE  FrameMeans(i)'
  <2>1. CASE i \in 1 .. n - 1
    <3>1. i \in DOMAIN frames /\ frames'[i] = frames[i] /\ FrameMeans(i)
      BY <1>3, <1>4, <2>1 DEF Sense
    <3> QED
      BY <1>1, <1>2, <1>6, <1>10, <3>1, CalmFrame
  <2>2. CASE i = n
    BY <1>5, <1>9, <2>2 DEF FrameMeans, Opens
  <2> QED
    BY <1>3, <1>4, <2>1, <2>2
<1>11. next'.go \in {"relation", "rewrite"}
  <2>1. f.turn + 1 \in DOMAIN f.calls
    BY <1>2, <1>3 DEF Decides
  <2>2. f.calls \in Seq(RelationCalls \cup RewriteCalls)
    BY <1>3 DEF OperandsFrames
  <2>3. f.calls[f.turn + 1] \in RelationCalls \cup RewriteCalls
    BY <2>1, <2>2
  <2> QED
    BY <1>2, <2>3 DEF RelationCalls, RewriteCalls
<1>12. ComputingOpen'
  <2>1. \A i \in DOMAIN frames : frames[i].at = "relation" =>
          i \in DOMAIN frames' /\ frames'[i] = frames[i]
    <3>1. \A i \in DOMAIN frames : i = n \/ i \in 1 .. n - 1
      BY <1>3
    <3> QED
      BY <1>3, <1>4, <3>1
  <2> QED
    BY <1>2, <1>11, <2>1, ComputingKept DEF Sense
<1>13. BackMeans' /\ TestMeans'
  BY <1>11 DEF BackMeans, TestMeans
<1> QED
  BY <1>2, <1>10, <1>12, <1>13, MemoMeansKept DEF Sense

(* A sequence with the places 1 and 2 is two long. *)
LEMMA TwoLong ==
  ASSUME NEW m \in Nat, 1 .. m = 1 .. 2
  PROVE  m = 2
<1>1. 2 \in 1 .. m
  OBVIOUS
<1>2. m >= 2
  BY <1>1
<1>3. m \in 1 .. m
  BY <1>2
<1>4. m \in 1 .. 2
  BY <1>3
<1> QED
  BY <1>2, <1>4

(* The calls of a composite rewrite are its operands, in their order. *)
LEMMA OperandCalls ==
  ASSUME asked \in DOMAIN Cases, NEW C, C \in DOMAIN meaning, C.rw.op \in Composite,
         NEW calls \in Calls(C.rw, C.key)
  PROVE  /\ DOMAIN calls = DOMAIN C.rw.children
         /\ \A i \in DOMAIN calls : ClaimOf(calls[i]) = Child(C, i)
         /\ Subclaims(case, C) = {Child(C, i) : i \in DOMAIN C.rw.children}
<1>1. calls = [i \in DOMAIN C.rw.children |-> Rewrite(C.rw.children[i], C.key)]
  BY DEF Calls, Composite
<1>2. Reads(case, C) = {}
  BY DEF Reads, Composite
<1>3. Subclaims(case, C) = {Child(C, i) : i \in DOMAIN C.rw.children}
  BY <1>2 DEF Subclaims
<1> QED
  BY <1>1, <1>3 DEF ClaimOf, Rewrite, Child

(* What a rewrite grants is granted. *)
LEMMA VerdictGrants ==
  ASSUME Facts, Shape, Reach, Sense, Returned("operands"),
         NEW n, n = Len(frames), NEW f, f = Last(frames), NEW C, C = ClaimAt(n),
         Decides(f, next.allowed), Verdict(f, next.allowed)
  PROVE  Granted(C)
<1>d. PICK d : d = ClaimOf(f.calls[f.turn])
  OBVIOUS
<1>1. /\ asked \in DOMAIN Cases /\ n \in DOMAIN frames
      /\ f.turn \in DOMAIN f.calls /\ f.calls \in Calls(f.rw, f.key)
      /\ DOMAIN f.calls = 1 .. Len(f.calls) /\ Len(f.calls) \in Nat
      /\ f.turn \in Nat \ {0} /\ f.turn <= Len(f.calls)
      /\ C = Claim(f.rw, f.key) /\ C.rw = f.rw /\ C.key = f.key
      /\ C \in DOMAIN meaning /\ LevelOf(C) \in Nat
      /\ d \in Subclaims(case, C) /\ LevelOf(d) \in Nat
      /\ next.allowed \in BOOLEAN
      /\ next.allowed => Granted(d)
      /\ ~next.allowed /\ Granted(d) =>
           \E k \in Usable(n) : LevelOf(Said(k)) <= LevelOf(d)
      /\ \A j \in 1 .. f.turn - 1 : Done(n, ClaimOf(f.calls[j]))
      /\ \A k \in Usable(n) : LevelOf(Said(k)) \in Nat /\ LevelOf(C) <= LevelOf(Said(k))
      /\ f = frames[n]
  BY <1>d, OperandBack
<1>2. CASE f.rw.op \notin {"intersection", "exclusion"}
  <2>1. next.allowed
    BY <1>2 DEF Verdict
  <2> QED
    BY <1>1, <1>2, <2>1, GrantedIf
<1>3. CASE f.rw.op = "intersection"
  <2>1. next.allowed /\ f.turn = Len(f.calls)
    BY <1>1, <1>3 DEF Verdict, Decides
  <2>2. \A j \in DOMAIN f.calls : j \in 1 .. f.turn - 1 \/ j = f.turn
    BY <1>1, <2>1
  <2>3. \A j \in 1 .. f.turn - 1 : Granted(ClaimOf(f.calls[j]))
    BY <1>1, <1>3 DEF Done
  <2>4. \A j \in DOMAIN f.calls : Granted(ClaimOf(f.calls[j]))
    BY <1>1, <1>d, <2>1, <2>2, <2>3
  <2>5. /\ DOMAIN f.calls = DOMAIN C.rw.children
        /\ \A i \in DOMAIN f.calls : ClaimOf(f.calls[i]) = Child(C, i)
    BY <1>1, <1>3, OperandCalls DEF Composite
  <2>6. \A i \in DOMAIN C.rw.children : Granted(Child(C, i))
    BY <2>4, <2>5
  <2> QED
    BY <1>1, <1>3, <2>6, GrantedIf
<1>4. CASE f.rw.op = "exclusion"
  <2>1. ~next.allowed /\ f.turn = Len(f.calls)
    BY <1>1, <1>4 DEF Verdict
  <2>2. /\ DOMAIN f.calls = DOMAIN C.rw.children
        /\ \A i \in DOMAIN f.calls : ClaimOf(f.calls[i]) = Child(C, i)
        /\ Subclaims(case, C) = {Child(C, i) : i \in DOMAIN C.rw.children}
    BY <1>1, <1>4, OperandCalls DEF Composite
  <2>3. DOMAIN C.rw.children = 1 .. 2
    BY <1>1, <1>4, ClaimFacts DEF Composite
  <2>4. f.turn = 2
    <3>1. 1 .. Len(f.calls) = 1 .. 2 /\ Len(f.calls) \in Nat
      BY <1>1, <2>2, <2>3
    <3>2. Len(f.calls) = 2
      BY <3>1, TwoLong
    <3> QED
      BY <2>1, <3>2
  <2>5. 1 \in 1 .. f.turn - 1 /\ 1 \in DOMAIN f.calls /\ 2 \in DOMAIN f.calls
    BY <2>2, <2>3, <2>4
  <2>6. Granted(ClaimOf(f.calls[1]))
    BY <1>1, <1>4, <2>5 DEF Done
  <2>7. Granted(Child(C, 1))
    BY <2>2, <2>5, <2>6
  <2>8. d = Child(C, 2)
    BY <1>d, <2>2, <2>4, <2>5
  <2>9. LevelOf(d) < LevelOf(C)
    BY <1>1, <1>4, <2>8, ClaimFacts
  <2>10. ~Granted(d)
    <3>1. SUFFICES ASSUME Granted(d) PROVE FALSE
      OBVIOUS
    <3>2. PICK k \in Usable(n) : LevelOf(Said(k)) <= LevelOf(d)
      BY <1>1, <2>1, <3>1
    <3>3. LevelOf(Said(k)) \in Nat /\ LevelOf(C) <= LevelOf(Said(k))
      BY <1>1
    <3> QED
      BY <1>1, <2>9, <3>2, <3>3
  <2>11. Child(C, 1) \in Subclaims(case, C) /\ Child(C, 2) \in Subclaims(case, C)
    BY <2>2, <2>3
  <2> QED
    BY <1>1, <1>4, <2>7, <2>8, <2>10, <2>11, GrantedIf
<1> QED
  BY <1>2, <1>3, <1>4

(* What a rewrite denies has an excuse. *)
LEMMA VerdictExcused ==
  ASSUME Facts, Shape, Reach, Sense, Returned("operands"),
         NEW n, n = Len(frames), NEW f, f = Last(frames), NEW C, C = ClaimAt(n),
         Decides(f, next.allowed), ~Verdict(f, next.allowed)
  PROVE  Excused(Usable(n), C)
<1>d. PICK d : d = ClaimOf(f.calls[f.turn])
  OBVIOUS
<1>1. /\ asked \in DOMAIN Cases /\ n \in DOMAIN frames /\ f = frames[n]
      /\ f.turn \in DOMAIN f.calls /\ f.calls \in Calls(f.rw, f.key)
      /\ DOMAIN f.calls = 1 .. Len(f.calls) /\ Len(f.calls) \in Nat
      /\ f.turn \in Nat \ {0} /\ f.turn <= Len(f.calls)
      /\ C = Claim(f.rw, f.key) /\ C.rw = f.rw /\ C.key = f.key
      /\ C \in DOMAIN meaning /\ StageOf(C) \in Nat /\ LevelOf(C) \in Nat
      /\ d \in Subclaims(case, C)
      /\ StageOf(d) \in Nat /\ LevelOf(d) \in Nat /\ LevelOf(d) <= LevelOf(C)
      /\ f.rw.op = "this" => ~(wildcardGrants(f.key) \/ directGrants(f.key))
      /\ next.allowed \in BOOLEAN
      /\ next.allowed => Granted(d)
      /\ ~next.allowed /\ Granted(d) =>
           \E k \in Usable(n) : /\ StageOf(Said(k)) <= StageOf(d)
                                /\ LevelOf(Said(k)) <= LevelOf(d)
      /\ \A j \in 1 .. f.turn - 1 : Done(n, ClaimOf(f.calls[j]))
      /\ \A k \in Usable(n) : StageOf(Said(k)) \in Nat /\ LevelOf(Said(k)) \in Nat
  BY <1>d, OperandBack
<1>2. SUFFICES ASSUME Granted(C)
               PROVE  Excused(Usable(n), C)
  BY DEF Excused
<1>3. ~next.allowed /\ Granted(d) /\ StageOf(d) < StageOf(C) => Excused(Usable(n), C)
  <2>1. SUFFICES ASSUME ~next.allowed, Granted(d), StageOf(d) < StageOf(C)
                 PROVE  Excused(Usable(n), C)
    OBVIOUS
  <2>2. PICK k \in Usable(n) : /\ StageOf(Said(k)) <= StageOf(d)
                               /\ LevelOf(Said(k)) <= LevelOf(d)
    BY <1>1, <2>1
  <2>3. StageOf(Said(k)) < StageOf(C) /\ LevelOf(Said(k)) <= LevelOf(C)
    BY <1>1, <2>1, <2>2
  <2> QED
    BY <2>2, <2>3 DEF Excused
<1>4. CASE f.rw.op \notin {"intersection", "exclusion"}
  <2>1. ~next.allowed /\ f.turn = Len(f.calls)
    BY <1>1, <1>4 DEF Verdict, Decides
  <2>2. ~(C.rw.op = "this" /\ Named(case.schema, case.tuples, case.subject, C.key))
    <3>1. C.key \in Keys
      BY <1>1, ClaimFacts
    <3> QED
      BY <1>1, <3>1, NamedIsStored
  <2>3. PICK e \in Subclaims(case, C) : Granted(e) /\ StageOf(e) < StageOf(C)
    BY <1>1, <1>2, <1>4, <2>2, GrantedFor
  <2>4. PICK j \in DOMAIN f.calls : ClaimOf(f.calls[j]) = e
    <3>1. Claim(f.rw, f.key) \in DOMAIN meaning /\ e \in Subclaims(case, Claim(f.rw, f.key))
      BY <1>1, <2>3
    <3>2. PICK calls \in Calls(f.rw, f.key) : calls = f.calls
      BY <1>1
    <3>3. \E i \in DOMAIN calls : ClaimOf(calls[i]) = e
      BY <1>1, <3>1, CallsMean
    <3> QED
      BY <3>2, <3>3
  <2>5. j \in 1 .. f.turn - 1 \/ j = f.turn
    BY <1>1, <2>1
  <2>6. CASE j \in 1 .. f.turn - 1
    <3>1. Done(n, e)
      BY <1>1, <2>4, <2>6
    <3> QED
      BY <1>1, <1>4, <2>3, <3>1 DEF Done
  <2>7. CASE j = f.turn
    BY <1>3, <1>d, <2>1, <2>3, <2>4, <2>7
  <2> QED
    BY <2>5, <2>6, <2>7
<1>5. CASE f.rw.op = "intersection"
  <2>1. ~next.allowed
    BY <1>1, <1>5 DEF Verdict
  <2>2. Subclaims(case, C) = {Child(C, i) : i \in DOMAIN C.rw.children}
    BY <1>1, <1>5, OperandCalls DEF Composite
  <2>3. PICK i \in DOMAIN C.rw.children : d = Child(C, i)
    BY <1>1, <2>2
  <2>4. Granted(d) /\ StageOf(d) < StageOf(C)
    BY <1>1, <1>2, <1>5, <2>3, GrantedFor
  <2> QED
    BY <1>3, <2>1, <2>4
<1>6. CASE f.rw.op = "exclusion"
  <2>1. /\ Granted(Child(C, 1)) /\ StageOf(Child(C, 1)) < StageOf(C)
        /\ ~Granted(Child(C, 2))
    BY <1>1, <1>2, <1>6, GrantedFor
  <2>2. /\ DOMAIN f.calls = DOMAIN C.rw.children
        /\ \A i \in DOMAIN f.calls : ClaimOf(f.calls[i]) = Child(C, i)
    BY <1>1, <1>6, OperandCalls DEF Composite
  <2>3. DOMAIN C.rw.children = 1 .. 2
    BY <1>1, <1>6, ClaimFacts DEF Composite
  <2>4. f.turn = 1 \/ f.turn = 2
    BY <1>1, <2>2, <2>3
  <2>5. Len(f.calls) = 2
    <3>1. 1 .. Len(f.calls) = 1 .. 2 /\ Len(f.calls) \in Nat
      BY <1>1, <2>2, <2>3
    <3> QED
      BY <3>1, TwoLong
  <2>6. CASE f.turn = 1
    <3>1. ~next.allowed
      BY <1>1, <1>6, <2>5, <2>6 DEF Decides
    <3>2. d = Child(C, 1)
      BY <1>1, <1>d, <2>2, <2>6
    <3> QED
      BY <1>3, <2>1, <3>1, <3>2
  <2>7. CASE f.turn = 2
    <3>1. next.allowed
      BY <1>1, <1>6, <2>5, <2>7 DEF Verdict
    <3>2. d = Child(C, 2)
      BY <1>1, <1>d, <2>2, <2>7
    <3> QED
      BY <1>1, <2>1, <3>1, <3>2
  <2> QED
    BY <2>4, <2>6, <2>7
<1> QED
  BY <1>4, <1>5, <1>6

(* A call returns to what waits for it. *)
LEMMA ReturnedTo ==
  ASSUME Facts, Shape, frames # <<>>, NEW n, n = Len(frames), n # 1,
         frames' = Front(frames), asked' = asked, Opens(n) \/ stack' = stack
  PROVE  /\ n - 1 \in Nat \ {0} /\ n \in Nat /\ n - 1 \in DOMAIN frames /\ n \in DOMAIN frames
         /\ DOMAIN frames' = 1 .. n - 1 /\ Len(frames') = n - 1
         /\ \A i \in 1 .. n - 1 : frames'[i] = frames[i]
         /\ frames' # <<>>
         /\ ClaimOf(Awaits(Last(frames)))' = ClaimAt(n)
         /\ Opens(n) => ~Opens(n - 1)
<1>1. frames \in Seq(Frames) /\ DOMAIN frames = 1 .. n /\ n \in Nat /\ n # 0
  BY FramesAre DEF Facts, Typed
<1>2. /\ n - 1 \in Nat \ {0} /\ n - 1 \in DOMAIN frames /\ n \in DOMAIN frames
      /\ n - 1 \in 1 .. Len(frames) - 1
  BY <1>1
<1>3. /\ DOMAIN frames' = 1 .. n - 1 /\ Len(frames') = n - 1
      /\ \A i \in 1 .. n - 1 : frames'[i] = frames[i]
  BY <1>1, Dropped
<1>4. frames' # <<>>
  BY <1>2, <1>3
<1>5. PICK g : g = frames[n - 1]
  OBVIOUS
<1>6. Serves(frames[n]) = Awaits(g)
  <2>1. Serves(frames[n - 1 + 1]) = Awaits(frames[n - 1])
    BY <1>2 DEF Shape, Chain
  <2>2. n - 1 + 1 = n
    BY <1>1
  <2> QED
    BY <1>5, <2>1, <2>2
<1>7. Last(frames)' = g
  BY <1>2, <1>3, <1>5 DEF Last
<1>8. PICK a : a = Awaits(g)
  OBVIOUS
<1>9. Opens(n) => a.go = "relation"
  BY <1>6, <1>8 DEF Opens, Serves, Relation
<1>10. g.at \in {"operands", "relation", "settle"}
  BY <1>2, <1>5, FrameTypes DEF Facts, Opens, OperandsFrames, RelationFrames
<1>11. Opens(n) => g.at = "operands"
  BY <1>8, <1>9, <1>10 DEF Awaits, Rewrite
<1>12. Awaits(g)' = a
  <2>1. CASE g.at = "operands"
    BY <1>8, <2>1 DEF Awaits
  <2>2. CASE stack' = stack
    BY <1>8, <2>2, AwaitsKept
  <2> QED
    BY <1>11, <2>1, <2>2
<1>13. Awaits(Last(frames))' = a
  <2>1. PICK h : h = Last(frames')
    OBVIOUS
  <2>2. h = g
    BY <1>7, <2>1
  <2>3. Awaits(h)' = a
    BY <1>12, <2>2
  <2> QED
    BY <1>7, <2>1, <2>2, <2>3 DEF Awaits, Member
<1>14. ClaimOf(a)' = ClaimOf(a)
  BY CaseKept
<1>15. ClaimOf(Awaits(Last(frames)))' = ClaimAt(n)
  <2>1. ClaimAt(n) = ClaimOf(a)
    BY <1>6, <1>8 DEF ClaimAt
  <2> QED
    BY <1>13, <1>14, <2>1 DEF ClaimOf, Said
<1> QED
  BY <1>1, <1>2, <1>3, <1>4, <1>5, <1>11, <1>15 DEF Opens

(* Decided: the verdict follows from the operands, or is excused. *)
LEMMA DecidedSense ==
  ASSUME Facts, Shape, Reach, MemoMeans, Sense, Decided
  PROVE  MemoMeans' /\ Sense'
<1>1. Calm /\ Facts' /\ Shape'
  BY DecidedShape
<1>n. PICK n : n = Len(frames)
  OBVIOUS
<1>f. PICK f : f = Last(frames)
  OBVIOUS
<1>c. PICK C : C = ClaimAt(n)
  OBVIOUS
<1>v. PICK v : v = Verdict(f, next.allowed)
  OBVIOUS
<1>2. /\ Returned("operands") /\ Decides(f, next.allowed)
      /\ frames' = Front(frames) /\ frames # <<>>
      /\ next' = Back(v, f.node)
      /\ memo' = memo /\ asked' = asked /\ stack' = stack /\ lowlink' = lowlink
  BY <1>f, <1>v DEF Decided, Returned, tarjan
<1>3. /\ n \in Nat \ {0} /\ DOMAIN frames = 1 .. n /\ n \in DOMAIN frames /\ f = frames[n]
      /\ ~Opens(n) /\ f.at = "operands" /\ C \in DOMAIN meaning
      /\ StageOf(C) \in Nat /\ LevelOf(C) \in Nat
      /\ \A k \in Usable(n) : StageOf(Said(k)) \in Nat /\ LevelOf(Said(k)) \in Nat
  <2>1. PICK d : d = ClaimOf(f.calls[f.turn])
    OBVIOUS
  <2> QED
    BY <1>2, <1>n, <1>f, <1>c, <2>1, OperandBack
<1>4. n # 1
  <2>1. Serves(f) # Relation(case.key)
    BY <1>3 DEF Serves, Rewrite, Relation
  <2> QED
    BY <1>2, <1>3, <2>1 DEF Shape, Chain
<1>5. /\ n - 1 \in Nat \ {0} /\ n - 1 \in DOMAIN frames
      /\ DOMAIN frames' = 1 .. n - 1 /\ Len(frames') = n - 1
      /\ \A i \in 1 .. n - 1 : frames'[i] = frames[i]
      /\ frames' # <<>>
      /\ ClaimOf(Awaits(Last(frames)))' = C
  BY <1>2, <1>4, <1>n, <1>c, ReturnedTo
<1>6. lowlink' <= lowlink
  BY <1>2 DEF Facts, Typed
<1>7. Usable(n) \subseteq Usable(n - 1)'
  <2>1. Visible(n) \subseteq Visible(n - 1)'
    <3>1. Visible(n - 1)' = Visible(n - 1)
      BY <1>1, <1>5, CalmVisible
    <3>2. \A j \in n - 1 + 1 .. Len(frames) : j = n
      <4>1. n \in Nat /\ \A j \in n - 1 + 1 .. n : j = n
        BY <1>3
      <4> QED
        BY <1>n, <4>1
    <3>3. Visible(n) \subseteq Visible(n - 1)
      BY <1>3, <3>2 DEF Visible
    <3> QED
      BY <3>1, <3>3
  <2>2. ASSUME NEW k \in Keys, Noted(n, k)
        PROVE  Noted(n - 1, k)'
    <3>1. \A j \in n + 1 .. Len(frames) : FALSE
      BY <1>3, <1>n
    <3>2. lowlink <= memo[k].index
      BY <2>2, <3>1 DEF Noted
    <3> QED
      BY <1>2, <3>2 DEF Noted
  <2>3. Fresh(n) \subseteq Fresh(n - 1)'
    <3>1. ASSUME NEW k \in Fresh(n), NEW q \in 1 .. n - 1, Under(q, n - 1)', frames'[q].at = "settle"
          PROVE  memo'[k].state # "true" \/ memo'[LastMember(frames[q])'].index < memo'[k].index
      <4>1. q \in 1 .. n /\ frames'[q] = frames[q]
        BY <1>3, <1>5
      <4>2. LastMember(frames[q])' = LastMember(frames[q])
        BY <1>2, <4>1 DEF LastMember
      <4>3. \A j \in q + 1 .. n - 1 : j \in 1 .. n - 1
        BY <1>3
      <4>4. \A j \in q + 1 .. n : j = n \/ j \in q + 1 .. n - 1
        BY <1>3
      <4>5. \A j \in q + 1 .. n - 1 : ~Opens(j)
        BY <1>5, <3>1, <4>3 DEF Under, Opens
      <4>6. Under(q, n)
        BY <1>3, <3>1, <4>1, <4>4, <4>5 DEF Under, Opens
      <4> QED
        BY <1>2, <3>1, <4>1, <4>2, <4>6 DEF Fresh
    <3> QED
      BY <3>1 DEF Fresh
  <2>4. /\ \A c : Granted(c)' <=> Granted(c)
        /\ \A k : Said(k)' = Said(k)
    BY <1>2, MeaningKept
  <2>5. Visible(n) \subseteq Keys
    BY DEF Visible
  <2> QED
    BY <2>1, <2>2, <2>3, <2>4, <2>5 DEF Usable, Excuses
<1>8. ASSUME NEW i \in DOMAIN frames'
      PROVE  FrameMeans(i)'
  <2>1. i \in DOMAIN frames /\ i < n /\ frames'[i] = frames[i] /\ FrameMeans(i)
    BY <1>3, <1>5 DEF Sense
  <2> QED
    BY <1>1, <1>2, <1>6, <1>n, <1>8, <2>1, CalmFrame
<1>9. next'.go = "back" /\ next'.allowed = v
  BY <1>2 DEF Back
<1>10. ComputingOpen'
  <2>1. \A i \in DOMAIN frames : frames[i].at = "relation" =>
          i \in DOMAIN frames' /\ frames'[i] = frames[i]
    <3>1. \A i \in DOMAIN frames : i = n \/ i \in 1 .. n - 1
      BY <1>3
    <3> QED
      BY <1>3, <1>5, <3>1
  <2> QED
    BY <1>2, <1>9, <2>1, ComputingKept DEF Sense
<1>11. BackMeans'
  <2>1. PICK m : m = Len(frames')
    OBVIOUS
  <2>2. m = n - 1
    BY <1>5, <2>1
  <2>3. /\ \A c : LevelOf(c)' = LevelOf(c) /\ StageOf(c)' = StageOf(c)
        /\ \A c : Granted(c)' <=> Granted(c)
        /\ \A k : Said(k)' = Said(k)
    BY <1>2, MeaningKept
  <2>4. v => Granted(C)
    BY <1>2, <1>n, <1>f, <1>c, <1>v, VerdictGrants
  <2>5. ASSUME ~v, Granted(C)
        PROVE  \E k \in Usable(m)' : /\ StageOf(Said(k))' <= StageOf(C)'
                                     /\ LevelOf(Said(k))' <= LevelOf(C)'
                                     /\ StageOf(Said(k))' < StageOf(C)'
    <3>1. Excused(Usable(n), C)
      BY <1>2, <1>n, <1>f, <1>c, <1>v, <2>5, VerdictExcused
    <3>2. PICK k \in Usable(n) : /\ StageOf(Said(k)) < StageOf(C)
                                 /\ LevelOf(Said(k)) <= LevelOf(C)
      BY <2>5, <3>1 DEF Excused
    <3>3. k \in Usable(m)'
      BY <1>7, <2>2, <3>2
    <3>4. StageOf(Said(k)) <= StageOf(C)
      BY <1>3, <3>2
    <3> QED
      BY <2>3, <3>2, <3>3, <3>4
  <2> QED
    BY <1>5, <1>9, <2>1, <2>3, <2>4, <2>5 DEF BackMeans
<1>12. TestMeans'
  BY <1>9 DEF TestMeans
<1> QED
  BY <1>2, <1>8, <1>10, <1>11, <1>12, MemoMeansKept DEF Sense

-----------------------------------------------------------------------------
(* A relation is answered, and settled. *)

(* The innermost relation moves on, and the frames below it do not.        *)
LEMMA TopMoves ==
  ASSUME Calm, Facts, Shape, Facts', Sense, NEW n, n = Len(frames), frames # <<>>, Opens(n),
         lowlink' = lowlink, NEW g, frames' = [frames EXCEPT ![n] = g],
         \A k \in Keys :
           \/ memo'[k].state = memo[k].state
           \/ frames[n].index <= memo[k].index,
         \A k \in Keys : memo'[k].state = "false" =>
           memo[k].state = "false" \/ Excused(Usable(n), Said(k))
  PROVE  /\ n \in Nat \ {0} /\ DOMAIN frames = 1 .. n /\ DOMAIN frames' = 1 .. n
         /\ Len(frames') = n /\ n \in DOMAIN frames
         /\ Last(frames) = frames[n]
         /\ \A i \in 1 .. n - 1 : frames'[i] = frames[i]
         /\ frames'[n] = g
         /\ Opens(n)'
         /\ \A i \in 1 .. n - 1 : FrameMeans(i)'
         /\ FalseExcused(n)'
         /\ FrameMeans(n)' <=> (g.at = "settle" => SettleMeans(n)')
         /\ Excuses(n) \subseteq Excuses(n)'
         /\ Region(n)' = Region(n) /\ Visible(n)' = Visible(n)
         /\ ClaimAt(n)' = ClaimAt(n) /\ asked' = asked /\ stack' = stack
<1>1. /\ n \in Nat \ {0} /\ DOMAIN frames = 1 .. n /\ n \in DOMAIN frames
      /\ frames \in Seq(Frames)
  BY FramesAre DEF Facts, Typed
<1>2. /\ DOMAIN frames' = 1 .. n /\ frames'[n] = g
      /\ \A i \in 1 .. n - 1 : frames'[i] = frames[i]
  BY <1>1
<1>3. Len(frames') = n
  <2>1. frames' \in Seq(Frames')
    BY DEF Facts, Typed
  <2>2. DOMAIN frames' = 1 .. Len(frames') /\ Len(frames') \in Nat
    BY <2>1
  <2> QED
    BY <1>1, <1>2, <2>2
<1>4. asked' = asked /\ stack' = stack /\ \A k \in Keys : memo'[k].index = memo[k].index
  BY CalmMemo
<1>5. Opens(n)'
  BY <1>1, CalmOpens DEF Facts
<1>6. lowlink' <= lowlink
  BY DEF Facts, Typed
<1>7. ASSUME NEW i \in 1 .. n - 1
      PROVE  FrameMeans(i)'
  <2>1. i \in DOMAIN frames /\ i \in DOMAIN frames' /\ i < n /\ frames'[i] = frames[i]
        /\ FrameMeans(i)
    BY <1>1, <1>2 DEF Sense
  <2> QED
    BY <1>1, <1>6, <2>1, CalmFrame
<1>8. Excuses(n) \subseteq Excuses(n)'
  BY <1>1, <1>6, CalmExcuses
<1>9. Region(n)' = Region(n) /\ ClaimAt(n)' = ClaimAt(n) /\ Visible(n)' = Visible(n)
  BY <1>1, <1>2, <1>5, CalmVisible
<1>10. FalseExcused(n)'
  <2>1. SUFFICES ASSUME NEW k \in Region(n)', memo'[k].state = "false"
                 PROVE  Excused(Excuses(n), Said(k))'
    BY DEF FalseExcused
  <2>2. k \in Region(n) /\ k \in Keys
    BY <1>9, <2>1 DEF Region, Visible
  <2>3. FalseExcused(n)
    BY <1>1 DEF Sense, FrameMeans
  <2>4. Excused(Excuses(n), Said(k))
    <3>1. CASE memo[k].state = "false"
      BY <2>2, <2>3, <3>1 DEF FalseExcused
    <3>2. CASE Excused(Usable(n), Said(k))
      BY <3>2 DEF Excused, Usable
    <3> QED
      BY <2>1, <2>2, <3>1, <3>2
  <2>5. PICK c : c = Said(k)
    OBVIOUS
  <2>6. Excused(Excuses(n), c)'
    BY <1>4, <1>8, <2>4, <2>5, ExcusedKept
  <2>7. Said(k)' = c
    BY <1>4, <2>5, MeaningKept
  <2> QED
    BY <2>6, <2>7 DEF Excused
<1>11. FrameMeans(n)' <=> (g.at = "settle" => SettleMeans(n)')
  BY <1>2, <1>5, <1>10 DEF FrameMeans
<1>12. Last(frames) = frames[n]
  BY <1>1, OnTop
<1> QED
  BY <1>1, <1>2, <1>3, <1>4, <1>5, <1>7, <1>8, <1>9, <1>10, <1>11, <1>12

(* Answered: the rewrite's answer is true, or excused, as its own. *)
LEMMA AnsweredSense ==
  ASSUME Facts, Shape, MemoMeans, Sense, Answered
  PROVE  MemoMeans' /\ Sense'
<1>1. Calm /\ Facts' /\ Shape'
  BY AnsweredShape
<1>n. PICK n : n = Len(frames)
  OBVIOUS
<1>f. PICK f : f = Last(frames)
  OBVIOUS
<1>2. /\ Returned("relation")
      /\ memo' = [memo EXCEPT ![f.key].state = StateOf(next.allowed)]
      /\ next' = Test(next.allowed, next.node, FALSE)
      /\ asked' = asked /\ lowlink' = lowlink /\ stack' = stack /\ frames' = frames
  BY <1>f DEF Answered, tarjan
<1>3. /\ next.go = "back" /\ ~next.failed /\ frames # <<>> /\ f.at = "relation"
      /\ n \in Nat \ {0} /\ n \in DOMAIN frames /\ f = frames[n] /\ Opens(n)
  <2>1. next.go = "back" /\ ~next.failed /\ frames # <<>> /\ f.at = "relation"
    BY <1>2, <1>f DEF Returned
  <2> QED
    BY <1>n, <1>f, <2>1, TopShape DEF Opens
<1>4. /\ f.key \in Keys /\ f.index \in Nat \ {0} /\ memo[f.key].index = f.index
      /\ Said(f.key) \in DOMAIN meaning
  BY <1>3, OpenOnStack
<1>5. PICK d : d = Said(f.key)
  OBVIOUS
<1>6. ClaimOf(Awaits(Last(frames))) = d /\ ClaimAt(n) = d
  <2>1. ClaimOf(Awaits(f)) = Said(f.key)
    BY <1>3 DEF Awaits, ClaimOf, Rewrite, Said, Says, Definition
  <2>2. ClaimAt(n) = Said(f.key)
    BY <1>3, ClaimAtIs
  <2> QED
    BY <1>5, <1>f, <2>1, <2>2
<1>7. /\ next.allowed => Granted(d)
      /\ ~next.allowed => Excused(Usable(n), d)
  <2>1. /\ next.allowed => Granted(d)
        /\ ~next.allowed /\ Granted(d) =>
             \E k \in Usable(n) : /\ LevelOf(Said(k)) <= LevelOf(d)
                                  /\ StageOf(Said(k)) < StageOf(d)
    BY <1>3, <1>6, <1>n DEF Sense, BackMeans
  <2> QED
    BY <2>1 DEF Excused
<1>8. /\ memo'[f.key].state = StateOf(next.allowed)
      /\ \A k \in Keys : memo'[k].index = memo[k].index
      /\ \A k \in Keys : k # f.key => memo'[k] = memo[k]
  <2>1. memo \in [Keys -> Memos]
    BY DEF Facts, Typed
  <2>2. memo[f.key] \in Memos
    BY <1>4, <2>1
  <2> QED
    BY <1>2, <1>4, <2>1, <2>2 DEF Memos
<1>9. StateOf(next.allowed) = IF next.allowed THEN "true" ELSE "false"
  BY DEF StateOf
<1>10. /\ \A c : Granted(c)' <=> Granted(c)
       /\ \A k : Said(k)' = Said(k)
  BY <1>2, MeaningKept
<1>11. MemoMeans'
  <2>1. ASSUME NEW k \in Keys
        PROVE  /\ memo'[k].state = "true" => Granted(Said(k))
               /\ memo'[k].state \in {"computing", "false"} /\ memo'[k].index = 0 =>
                    ~Granted(Said(k))
    <3>1. CASE k = f.key
      BY <1>4, <1>5, <1>7, <1>8, <1>9, <3>1
    <3>2. CASE k # f.key
      BY <1>8, <3>2 DEF MemoMeans
    <3> QED
      BY <3>1, <3>2
  <2> QED
    BY <1>10, <2>1 DEF MemoMeans
<1>12. /\ \A i \in 1 .. n - 1 : FrameMeans(i)'
       /\ FrameMeans(n)' <=> (f.at = "settle" => SettleMeans(n)')
       /\ DOMAIN frames' = 1 .. n /\ Len(frames') = n
       /\ ClaimAt(n)' = ClaimAt(n)
  <2>1. frames' = [frames EXCEPT ![n] = f]
    BY <1>2, <1>3, <1>n, <1>f, SameTop DEF Facts
  <2>2. \A k \in Keys : memo'[k].state = memo[k].state \/ frames[n].index <= memo[k].index
    <3>1. frames[n].index <= memo[f.key].index
      BY <1>3, <1>4
    <3> QED
      BY <1>8, <3>1
  <2>3. \A k \in Keys : memo'[k].state = "false" =>
          memo[k].state = "false" \/ Excused(Usable(n), Said(k))
    BY <1>5, <1>7, <1>8, <1>9
  <2> QED
    BY <1>1, <1>2, <1>3, <1>n, <2>1, <2>2, <2>3, TopMoves
<1>13. \A i \in DOMAIN frames' : FrameMeans(i)'
  <2>1. \A i \in DOMAIN frames' : i = n \/ i \in 1 .. n - 1
    BY <1>3, <1>12
  <2> QED
    BY <1>3, <1>12, <2>1
<1>14. next'.go = "test" /\ next'.allowed = next.allowed /\ ~next'.settled
  BY <1>2 DEF Test
<1>15. ComputingOpen'
  <2>1. memo'[f.key].state # "computing"
    BY <1>8, <1>9
  <2>2. \A k \in Keys : memo'[k].state = "computing" => memo[k].state = "computing"
    BY <1>8, <2>1
  <2>3. \A i \in DOMAIN frames : memo'[frames[i].key].state = "computing" => i # n
    BY <1>3, <2>1
  <2> QED
    BY <1>2, <1>12, <1>n, <2>2, <2>3, ComputingKept DEF Sense
<1>16. BackMeans' /\ TestMeans'
  <2>1. next'.allowed => Granted(ClaimAt(n))'
    BY <1>6, <1>7, <1>10, <1>12, <1>14
  <2> QED
    BY <1>12, <1>14, <2>1 DEF BackMeans, TestMeans
<1> QED
  BY <1>11, <1>13, <1>15, <1>16 DEF Sense

(* A step of settling, after which the root has no answer for its caller.  *)
LEMMA SettlingSense ==
  ASSUME Facts, Shape, Calm, Facts', MemoMeans, Sense, NEW n, n = Len(frames),
         frames # <<>>, Opens(n), frames[n].at = "settle" \/ next.go = "test",
         lowlink' = lowlink, memo' = memo, NEW g, frames' = [frames EXCEPT ![n] = g],
         next'.go \in {"turn", "rewrite"},
         SettleMeans(n)'
  PROVE  MemoMeans' /\ Sense'
<1>1. /\ n \in Nat \ {0} /\ DOMAIN frames = 1 .. n /\ DOMAIN frames' = 1 .. n
      /\ Len(frames') = n /\ asked' = asked
      /\ \A i \in 1 .. n - 1 : frames'[i] = frames[i]
      /\ \A i \in 1 .. n - 1 : FrameMeans(i)'
      /\ FrameMeans(n)' <=> (g.at = "settle" => SettleMeans(n)')
  BY TopMoves
<1>2. ASSUME NEW i \in DOMAIN frames'
      PROVE  FrameMeans(i)'
  <2>1. i = n \/ i \in 1 .. n - 1
    BY <1>1
  <2> QED
    BY <1>1, <2>1
<1>3. ComputingOpen'
  <2>1. \A i \in DOMAIN frames : frames[i].at = "relation" /\ (i = n => next.go # "test") =>
          i \in DOMAIN frames' /\ frames'[i] = frames[i]
    <3>1. \A i \in DOMAIN frames : i = n \/ i \in 1 .. n - 1
      BY <1>1
    <3> QED
      BY <1>1, <3>1
  <2>2. next'.go # "test"
    OBVIOUS
  <2> QED
    BY <2>1, <2>2, ComputingKept DEF Sense
<1>4. BackMeans' /\ TestMeans'
  BY DEF BackMeans, TestMeans
<1> QED
  BY <1>1, <1>2, <1>3, <1>4, MemoMeansKept DEF Sense

(* Settle: a round that has met nobody has excused everyone it met. *)
LEMMA SettleSense ==
  ASSUME Facts, Shape, MemoMeans, Sense, Settle
  PROVE  MemoMeans' /\ Sense'
<1>1. Calm /\ Facts' /\ Shape'
  BY SettleShapes
<1>n. PICK n : n = Len(frames)
  OBVIOUS
<1>f. PICK f : f = Last(frames)
  OBVIOUS
<1>g. PICK g : g = [f EXCEPT !.at = "settle", !.back = Back(next.allowed, next.node),
                    !.turn = 1, !.size = Len(stack) - f.pos, !.changed = FALSE]
  OBVIOUS
<1>2. /\ next.go = "test" /\ frames' = [frames EXCEPT ![n] = g] /\ next' = Turn
      /\ memo' = memo /\ asked' = asked /\ lowlink' = lowlink /\ stack' = stack
  BY <1>f, <1>n, <1>g DEF Settle, tarjan
<1>3. /\ frames # <<>> /\ f.at = "relation" /\ n \in DOMAIN frames /\ f = frames[n]
      /\ Opens(n) /\ f \in RelationFrames
  <2>1. frames # <<>> /\ f.at = "relation"
    BY <1>2, <1>f DEF Shape, Chain
  <2> QED
    BY <1>n, <1>f, <2>1, TopShape DEF Opens
<1>4. g.at = "settle" /\ g.back.allowed = next.allowed /\ g.turn = 1 /\ g.pos \in Int
  BY <1>3, <1>g DEF RelationFrames, Back
<1>5. frames'[n] = g /\ ClaimAt(n)' = ClaimAt(n)
  BY <1>1, <1>2, <1>3, <1>n, TopMoves
<1>6. next.allowed => Granted(ClaimAt(n))
  BY <1>2, <1>n DEF Sense, TestMeans
<1>7. SettleMeans(n)'
  <2>1. g.back.allowed => Granted(ClaimAt(n))'
    BY <1>2, <1>4, <1>5, <1>6, MeaningKept
  <2>2. \A p \in g.pos + 1 .. g.pos + g.turn - 1 : FALSE
    BY <1>4
  <2> QED
    BY <1>5, <2>1, <2>2 DEF SettleMeans
<1>8. next'.go = "turn"
  BY <1>2 DEF Turn
<1> QED
  BY <1>1, <1>2, <1>3, <1>7, <1>8, <1>n, SettlingSense

(* Reevaluate changes no answer. *)
LEMMA ReevaluateSense ==
  ASSUME Facts, Shape, MemoMeans, Sense, Reevaluate
  PROVE  MemoMeans' /\ Sense'
<1>1. Calm /\ Facts' /\ Shape'
  BY ReevaluateShape
<1>2. /\ next.go = "turn" /\ frames' = frames /\ memo' = memo /\ asked' = asked
      /\ lowlink' = lowlink /\ stack' = stack
      /\ next' = Rewrite(Definition(Member(Last(frames))), Member(Last(frames)))
  BY DEF Reevaluate, AtTurn, tarjan
<1>3. next'.go = "rewrite" /\ lowlink' <= lowlink
  BY <1>2 DEF Rewrite, Facts, Typed
<1>4. ASSUME NEW i \in DOMAIN frames'
      PROVE  FrameMeans(i)'
  <2>1. i \in DOMAIN frames /\ frames'[i] = frames[i] /\ FrameMeans(i)
    BY <1>2, <1>4 DEF Sense
  <2> QED
    BY <1>1, <1>2, <1>3, <2>1, CalmFrame
<1>5. ComputingOpen'
  BY <1>2, <1>3, ComputingKept DEF Sense
<1>6. BackMeans' /\ TestMeans'
  BY <1>3 DEF BackMeans, TestMeans
<1> QED
  BY <1>2, <1>4, <1>5, <1>6, MemoMeansKept DEF Sense

(* What a settling frame's answers meant, its next turn counting.          *)
LEMMA TurnTaken ==
  ASSUME Calm, Facts, Shape, Facts', Sense, NEW n, n = Len(frames),
         frames # <<>>, frames[n].at = "settle", lowlink' = lowlink,
         NEW g, frames' = [frames EXCEPT ![n] = g],
         g.at = "settle", g.pos = frames[n].pos, g.size = frames[n].size,
         g.turn = frames[n].turn + 1, g.back = frames[n].back,
         g.changed \in BOOLEAN,
         ~g.changed =>
           /\ ~frames[n].changed /\ memo' = memo
           /\ stack[frames[n].pos + frames[n].turn] \in Untrue =>
                Excused(Usable(n), Said(stack[frames[n].pos + frames[n].turn])),
         \A k \in Keys :
           \/ memo'[k].state = memo[k].state
           \/ frames[n].index <= memo[k].index,
         \A k \in Keys : memo'[k].state = "false" => memo[k].state = "false"
  PROVE  SettleMeans(n)'
<1>0. Opens(n)
  BY DEF Opens
<1>1. /\ n \in Nat \ {0} /\ DOMAIN frames = 1 .. n /\ DOMAIN frames' = 1 .. n
      /\ n \in DOMAIN frames /\ frames'[n] = g
      /\ \A i \in 1 .. n - 1 : frames'[i] = frames[i]
      /\ Excuses(n) \subseteq Excuses(n)'
      /\ ClaimAt(n)' = ClaimAt(n) /\ asked' = asked /\ stack' = stack
  BY <1>0, TopMoves
<1>2. SettleMeans(n)
  BY <1>1 DEF Sense, FrameMeans
<1>3. /\ \A c : Granted(c)' <=> Granted(c)
      /\ \A k : Said(k)' = Said(k)
  BY <1>1, MeaningKept
<1>4. g.back.allowed => Granted(ClaimAt(n))'
  BY <1>1, <1>2, <1>3 DEF SettleMeans
<1>5. ASSUME ~g.changed, NEW p \in g.pos + 1 .. g.pos + g.turn - 1, stack'[p] \in Untrue'
      PROVE  Excused(Usable(n), Said(stack[p]))'
  <2>1. memo' = memo /\ ~frames[n].changed
    BY <1>5
  <2>2. Fresh(n) \subseteq Fresh(n)'
    <3>1. \A q \in 1 .. n : frames'[q].at = "settle" =>
            /\ frames[q].at = "settle"
            /\ frames'[q].pos = frames[q].pos /\ frames'[q].size = frames[q].size
      <4>1. \A q \in 1 .. n : q = n \/ q \in 1 .. n - 1
        BY <1>1
      <4> QED
        BY <1>1, <4>1
    <3> QED
      BY <1>1, <2>1, <3>1, CalmFresh
  <2>3. Usable(n) \subseteq Usable(n)'
    BY <1>1, <2>2 DEF Usable
  <2>4. frames[n].pos \in Nat /\ frames[n].turn \in Nat
    <3>1. frames[n] \in RelationFrames
      BY <1>0, <1>1, FrameTypes DEF Facts
    <3> QED
      BY <3>1 DEF RelationFrames
  <2>5. p \in frames[n].pos + 1 .. frames[n].pos + frames[n].turn - 1
          \/ p = frames[n].pos + frames[n].turn
    <3>1. PICK a \in Nat : a = frames[n].pos
      BY <2>4
    <3>2. PICK b \in Nat : b = frames[n].turn
      BY <2>4
    <3>3. p \in a + 1 .. a + (b + 1) - 1
      BY <1>5, <3>1, <3>2
    <3>4. p \in a + 1 .. a + b - 1 \/ p = a + b
      BY <3>3
    <3> QED
      BY <3>1, <3>2, <3>4
  <2>6. stack[p] \in Untrue
    BY <1>1, <1>5, <2>1 DEF Untrue
  <2>7. Excused(Usable(n), Said(stack[p]))
    BY <1>2, <1>5, <2>1, <2>5, <2>6 DEF SettleMeans
  <2>8. PICK k : k = stack[p]
    OBVIOUS
  <2>9. PICK c : c = Said(k)
    OBVIOUS
  <2>10. Excused(Usable(n), c)'
    BY <1>1, <2>3, <2>7, <2>8, <2>9, ExcusedKept
  <2>11. Said(stack[p])' = c
    <3>1. stack'[p] = k
      BY <1>1, <2>8
    <3> QED
      BY <1>3, <2>9, <3>1
  <2> QED
    BY <2>10, <2>11 DEF Excused
<1> QED
  BY <1>1, <1>4, <1>5 DEF SettleMeans

(* SkipMember: a member that is true needs no excuse. *)
LEMMA SkipMemberSense ==
  ASSUME Facts, Shape, MemoMeans, Sense, SkipMember
  PROVE  MemoMeans' /\ Sense'
<1>1. Calm /\ Facts' /\ Shape'
  BY SkipMemberShape
<1>n. PICK n : n = Len(frames)
  OBVIOUS
<1>f. PICK f : f = Last(frames)
  OBVIOUS
<1>2. /\ next.go = "turn" /\ memo[Member(f)].state = "true"
      /\ frames' = [frames EXCEPT ![n].turn = @ + 1]
      /\ memo' = memo /\ asked' = asked /\ lowlink' = lowlink /\ stack' = stack
      /\ next' = next
  BY <1>f, <1>n DEF SkipMember, AtTurn, tarjan
<1>3. /\ frames # <<>> /\ f.at = "settle" /\ f \in RelationFrames
      /\ n \in DOMAIN frames /\ f = frames[n] /\ Opens(n)
  BY <1>2, <1>f, <1>n, SettlingTop, TopShape DEF Opens
<1>g. PICK g : g = [f EXCEPT !.turn = @ + 1]
  OBVIOUS
<1>4. frames' = [frames EXCEPT ![n] = g]
  BY <1>2, <1>3, <1>g
<1>5. /\ g.at = "settle" /\ g.pos = f.pos /\ g.size = f.size /\ g.turn = f.turn + 1
      /\ g.back = f.back /\ g.changed = f.changed /\ g.changed \in BOOLEAN
  BY <1>3, <1>g DEF RelationFrames
<1>6. stack[f.pos + f.turn] \notin Untrue
  BY <1>2 DEF Untrue, Member
<1>7. SettleMeans(n)'
  BY <1>1, <1>2, <1>3, <1>4, <1>5, <1>6, <1>n, TurnTaken
<1> QED
  BY <1>1, <1>2, <1>3, <1>4, <1>7, <1>n, SettlingSense

(* Raise: an answer that rises is granted; one that does not is excused. *)
LEMMA RaiseSense ==
  ASSUME Facts, Shape, Reach, MemoMeans, Sense, Raise
  PROVE  MemoMeans' /\ Sense'
<1>1. Calm /\ Facts' /\ Shape'
  BY RaiseShape
<1>n. PICK n : n = Len(frames)
  OBVIOUS
<1>f. PICK f : f = Last(frames)
  OBVIOUS
<1>k. PICK m : m = Member(f)
  OBVIOUS
<1>r. PICK rises : rises = (next.allowed /\ memo[m].state # "true")
  OBVIOUS
<1>g. PICK g : g = [f EXCEPT !.turn = @ + 1, !.changed = @ \/ rises]
  OBVIOUS
<1>2. /\ Returned("settle")
      /\ memo' = IF rises THEN [memo EXCEPT ![m].state = "true"] ELSE memo
      /\ frames' = [frames EXCEPT ![n] = g]
      /\ next' = Turn
      /\ asked' = asked /\ lowlink' = lowlink /\ stack' = stack
  BY <1>f, <1>n, <1>k, <1>r, <1>g DEF Raise, tarjan
<1>3. /\ frames # <<>> /\ f.at = "settle" /\ f \in RelationFrames
      /\ n \in DOMAIN frames /\ f = frames[n] /\ Opens(n)
      /\ f.turn \in 1 .. f.size + 1 /\ (f.turn = f.size + 1 => next.go = "turn")
      /\ next.go = "back" /\ ~next.failed
      /\ f.turn <= f.size => f.pos + f.turn \in DOMAIN stack /\ Member(f) \in Keys
  BY <1>2, <1>f, <1>n, SettlingTop, TopShape DEF Opens, Returned
<1>4. /\ f.pos + f.turn \in DOMAIN stack /\ m \in Keys /\ m = stack[f.pos + f.turn]
      /\ f.pos + f.turn >= f.pos + 1
  <2>1. f.turn \in Nat /\ f.size \in Nat /\ f.pos \in Nat
    BY <1>3 DEF RelationFrames
  <2> QED
    BY <1>3, <1>k, <2>1 DEF Member
<1>5. f.index <= memo[m].index /\ memo[m].index # 0
  BY <1>3, <1>4, <1>f, MembersAre, OnStack
<1>6. /\ g.at = "settle" /\ g.pos = f.pos /\ g.size = f.size /\ g.turn = f.turn + 1
      /\ g.back = f.back /\ g.changed = (f.changed \/ rises) /\ g.changed \in BOOLEAN
  <2>1. f.changed \in BOOLEAN /\ rises \in BOOLEAN
    BY <1>3, <1>r DEF RelationFrames
  <2> QED
    BY <1>3, <1>g, <2>1 DEF RelationFrames
<1>7. /\ \A k \in Keys : memo'[k].index = memo[k].index
      /\ \A k \in Keys : k # m => memo'[k] = memo[k]
      /\ memo'[m].state = IF rises THEN "true" ELSE memo[m].state
  <2>1. memo \in [Keys -> Memos] /\ memo[m] \in Memos
    BY <1>4 DEF Facts, Typed
  <2> QED
    BY <1>2, <1>4, <2>1 DEF Memos
<1>8. PICK d : d = Said(m)
  OBVIOUS
<1>9. ClaimOf(Awaits(Last(frames))) = d
  BY <1>3, <1>f, <1>k, <1>8 DEF Awaits, ClaimOf, Rewrite, Said, Says, Definition
<1>10. /\ next.allowed => Granted(d)
       /\ ~next.allowed => Excused(Usable(n), d)
  <2>1. /\ next.allowed => Granted(d)
        /\ ~next.allowed /\ Granted(d) =>
             \E k \in Usable(n) : /\ LevelOf(Said(k)) <= LevelOf(d)
                                  /\ StageOf(Said(k)) < StageOf(d)
    BY <1>3, <1>9, <1>n DEF Sense, BackMeans
  <2> QED
    BY <2>1 DEF Excused
<1>11. MemoMeans'
  <2>1. ASSUME NEW k \in Keys
        PROVE  /\ memo'[k].state = "true" => Granted(Said(k))
               /\ memo'[k].state \in {"computing", "false"} /\ memo'[k].index = 0 =>
                    ~Granted(Said(k))
    <3>1. CASE k = m /\ rises
      BY <1>7, <1>8, <1>10, <1>r, <3>1
    <3>2. CASE k # m
      BY <1>7, <3>2 DEF MemoMeans
    <3>3. CASE ~rises
      BY <1>2, <3>3 DEF MemoMeans
    <3> QED
      BY <3>1, <3>2, <3>3
  <2>2. /\ \A c : Granted(c)' <=> Granted(c)
        /\ \A k : Said(k)' = Said(k)
    BY <1>2, MeaningKept
  <2> QED
    BY <2>1, <2>2 DEF MemoMeans
<1>12. /\ \A k \in Keys : memo'[k].state = memo[k].state \/ frames[n].index <= memo[k].index
       /\ \A k \in Keys : memo'[k].state = "false" => memo[k].state = "false"
  BY <1>3, <1>5, <1>7
<1>13. SettleMeans(n)'
  <2>1. ASSUME ~g.changed
        PROVE  /\ ~f.changed /\ memo' = memo
               /\ stack[f.pos + f.turn] \in Untrue =>
                    Excused(Usable(n), Said(stack[f.pos + f.turn]))
    <3>1. ~f.changed /\ ~rises
      BY <1>6, <2>1
    <3>2. memo' = memo
      BY <1>2, <3>1
    <3>3. m \in Untrue => ~next.allowed
      BY <1>r, <3>1 DEF Untrue
    <3> QED
      BY <1>4, <1>8, <1>10, <3>1, <3>2, <3>3
  <2> QED
    BY <1>1, <1>2, <1>3, <1>6, <1>12, <1>n, <2>1, TurnTaken
<1>14. /\ \A i \in 1 .. n - 1 : FrameMeans(i)'
       /\ FrameMeans(n)' <=> (g.at = "settle" => SettleMeans(n)')
       /\ DOMAIN frames' = 1 .. n /\ Len(frames') = n /\ DOMAIN frames = 1 .. n
       /\ \A i \in 1 .. n - 1 : frames'[i] = frames[i] /\ n \in Nat
  BY <1>1, <1>2, <1>3, <1>12, <1>n, TopMoves
<1>15. \A i \in DOMAIN frames' : FrameMeans(i)'
  <2>1. \A i \in DOMAIN frames' : i = n \/ i \in 1 .. n - 1
    BY <1>14, FramesAre, <1>n
  <2> QED
    BY <1>13, <1>14, <2>1
<1>16. next'.go = "turn"
  BY <1>2 DEF Turn
<1>17. ComputingOpen'
  <2>1. \A i \in DOMAIN frames : frames[i].at = "relation" =>
          i \in DOMAIN frames' /\ frames'[i] = frames[i]
    <3>1. \A i \in DOMAIN frames : i = n \/ i \in 1 .. n - 1
      BY <1>14, FramesAre, <1>n
    <3> QED
      BY <1>3, <1>14, <3>1
  <2>2. \A k \in Keys : memo'[k].state = "computing" => memo[k].state = "computing"
    BY <1>7
  <2> QED
    BY <1>16, <2>1, <2>2, ComputingKept DEF Sense
<1>18. BackMeans' /\ TestMeans'
  BY <1>16 DEF BackMeans, TestMeans
<1> QED
  BY <1>11, <1>15, <1>17, <1>18 DEF Sense

(* The members of a component are those on the stack from its root on.     *)
LEMMA RegionAbove ==
  ASSUME Facts, Shape, NEW n, n = Len(frames), frames # <<>>, Opens(n)
  PROVE  /\ \A k \in Region(n) : /\ k \in Keys
                                 /\ \E p \in frames[n].pos + 1 .. Len(stack) : stack[p] = k
         /\ \A k : k \in Region(n) <=> k \in Keys /\ frames[n].index <= memo[k].index
         /\ \A k : k \in Visible(n) <=> k \in Keys /\ memo[k].index # 0
         /\ frames[n].key \in Region(n)
<1>1. n \in DOMAIN frames /\ n \in Nat /\ Last(frames) = frames[n] /\ Last(frames).at # "operands"
  BY TopShape DEF Opens
<1>2. \A j \in n + 1 .. Len(frames) : FALSE
  BY <1>1
<1>3. \A k : k \in Visible(n) <=> k \in Keys /\ memo[k].index # 0
  BY <1>2 DEF Visible
<1>4. frames[n].index \in Nat \ {0} /\ frames[n].key \in Keys
      /\ memo[frames[n].key].index = frames[n].index
  BY <1>1, OpenOnStack
<1>5. \A k \in Keys : memo[k].index \in Nat
  BY DEF Facts, Typed, Memos
<1>6. \A k : k \in Region(n) <=> k \in Keys /\ frames[n].index <= memo[k].index
  BY <1>3, <1>4, <1>5 DEF Region
<1>7. ASSUME NEW k \in Region(n)
      PROVE  \E p \in frames[n].pos + 1 .. Len(stack) : stack[p] = k
  <2>1. k \in Members(frames[n])
    BY <1>1, <1>6, MembersAre
  <2> QED
    BY <2>1 DEF Members
<1> QED
  BY <1>3, <1>4, <1>5, <1>6, <1>7

(* A component that settled has no excuse among what is true.              *)
LEMMA SettledExcuses ==
  ASSUME Facts, Shape, NEW n, n = Len(frames), frames # <<>>,
         frames[n].at = "settle", Len(stack) = frames[n].pos + frames[n].size
  PROVE  Usable(n) \subseteq Excuses(n) \cap Untrue
<1>1. Opens(n) /\ n \in DOMAIN frames /\ n \in Nat
  BY TopShape DEF Opens
<1>2. Under(n, n)
  <2>1. \A j \in n + 1 .. n : FALSE
    BY <1>1
  <2>2. n # 0 /\ n \in 1 .. n
    BY <1>1, FramesAre
  <2> QED
    BY <1>1, <2>1, <2>2 DEF Under
<1>3. LastMember(frames[n]) = stack[Len(stack)]
  BY DEF LastMember
<1>4. stack \in Seq(Keys) /\ \A k \in Keys : memo[k].index \in Nat
  BY DEF Facts, Typed, Memos
<1>5. ASSUME NEW k \in Usable(n)
      PROVE  k \in Excuses(n) \cap Untrue
  <2>1. k \in Excuses(n) /\ k \in Fresh(n) /\ k \in Keys /\ memo[k].index # 0
    BY <1>1, RegionAbove DEF Usable, Excuses
  <2>2. memo[k].state # "true" \/ memo[stack[Len(stack)]].index < memo[k].index
    BY <1>2, <1>3, <2>1, FramesAre DEF Fresh
  <2>3. PICK p \in DOMAIN stack : stack[p] = k
    BY <2>1 DEF Facts, StackInOrder
  <2>4. Len(stack) \in DOMAIN stack /\ p <= Len(stack) /\ p \in Nat /\ Len(stack) \in Nat
    BY <1>4, <2>3
  <2>5. memo[k].index <= memo[stack[Len(stack)]].index
    <3>1. CASE p < Len(stack)
      <4>1. memo[k].index < memo[stack[Len(stack)]].index
        BY <2>3, <2>4, <3>1 DEF Facts, StackInOrder
      <4>2. memo[stack[Len(stack)]].index \in Nat
        BY <2>4, OnStack
      <4> QED
        BY <1>4, <2>1, <4>1, <4>2
    <3>2. CASE p = Len(stack)
      BY <1>4, <2>1, <2>3, <3>2
    <3> QED
      BY <2>4, <3>1, <3>2
  <2>6. memo[stack[Len(stack)]].index \in Nat /\ memo[k].index \in Nat
    BY <1>4, <2>1, <2>4, OnStack
  <2>7. memo[k].state # "true"
    BY <2>2, <2>5, <2>6
  <2> QED
    BY <2>1, <2>7 DEF Untrue
<1> QED
  BY <1>5

(* EndRound: after a round without a change the excuses of members that    *)
(* are not true are none of those that are.                                *)
LEMMA EndRoundSense ==
  ASSUME Facts, Shape, MemoMeans, Sense, EndRound
  PROVE  MemoMeans' /\ Sense'
<1>1. Calm /\ Facts' /\ Shape'
  BY EndRoundShape
<1>n. PICK n : n = Len(frames)
  OBVIOUS
<1>f. PICK f : f = Last(frames)
  OBVIOUS
<1>2. /\ next.go = "turn" /\ f.turn > f.size
      /\ memo' = memo /\ asked' = asked /\ lowlink' = lowlink /\ stack' = stack
  BY <1>f DEF EndRound, tarjan
<1>3. /\ frames # <<>> /\ f.at = "settle" /\ f \in RelationFrames
      /\ n \in DOMAIN frames /\ f = frames[n] /\ Opens(n) /\ f.turn \in 1 .. f.size + 1
  BY <1>2, <1>f, <1>n, SettlingTop, TopShape DEF Opens
<1>4. f.turn \in Nat /\ f.size \in Nat /\ f.pos \in Nat /\ f.turn = f.size + 1
  <2>1. f.turn \in Nat /\ f.size \in Nat /\ f.pos \in Nat
    BY <1>3 DEF RelationFrames
  <2> QED
    BY <1>2, <1>3, <2>1
<1>5. SettleMeans(n)
  BY <1>3 DEF Sense, FrameMeans
<1>6. CASE ~LastRound(f)
  <2>g. PICK g : g = [f EXCEPT !.turn = 1, !.size = Resliced(f), !.changed = FALSE]
    OBVIOUS
  <2>1. frames' = [frames EXCEPT ![n] = g] /\ next' = next
    BY <1>6, <1>f, <1>n, <2>g DEF EndRound
  <2>2. g.turn = 1 /\ g.pos = f.pos /\ g.back = f.back
    BY <1>3, <2>g DEF RelationFrames
  <2>3. frames'[n] = g /\ ClaimAt(n)' = ClaimAt(n)
    BY <1>1, <1>2, <1>3, <1>n, <2>1, TopMoves
  <2>4. SettleMeans(n)'
    <3>1. g.back.allowed => Granted(ClaimAt(n))'
      BY <1>2, <1>3, <1>5, <2>2, <2>3, MeaningKept DEF SettleMeans
    <3>2. \A p \in g.pos + 1 .. g.pos + g.turn - 1 : FALSE
      BY <1>4, <2>2
    <3> QED
      BY <2>3, <3>1, <3>2 DEF SettleMeans
  <2> QED
    BY <1>1, <1>2, <1>3, <1>n, <2>1, <2>4, SettlingSense
<1>7. CASE LastRound(f)
  <2>g. PICK g : g = [f EXCEPT !.at = "relation"]
    OBVIOUS
  <2>1. /\ frames' = [frames EXCEPT ![n].at = "relation"]
        /\ next' = Test(f.back.allowed, f.back.node, TRUE)
    BY <1>7, <1>f, <1>n DEF EndRound
  <2>2. frames' = [frames EXCEPT ![n] = g] /\ g.at = "relation"
    BY <1>3, <2>1, <2>g DEF RelationFrames
  <2>3. next'.go = "test" /\ next'.allowed = f.back.allowed /\ next'.settled
    BY <2>1 DEF Test
  <2>4. /\ n \in Nat \ {0} /\ DOMAIN frames = 1 .. n /\ DOMAIN frames' = 1 .. n
        /\ Len(frames') = n
        /\ \A i \in 1 .. n - 1 : frames'[i] = frames[i]
        /\ \A i \in 1 .. n - 1 : FrameMeans(i)'
        /\ FrameMeans(n)' <=> (g.at = "settle" => SettleMeans(n)')
        /\ Excuses(n) \subseteq Excuses(n)'
        /\ Region(n)' = Region(n)
        /\ ClaimAt(n)' = ClaimAt(n)
    BY <1>1, <1>2, <1>3, <1>n, <2>2, TopMoves
  <2>5. \A i \in DOMAIN frames' : FrameMeans(i)'
    <3>1. \A i \in DOMAIN frames' : i = n \/ i \in 1 .. n - 1
      BY <2>4
    <3> QED
      BY <2>2, <2>4, <3>1
  <2>6. ComputingOpen'
    <3>1. \A i \in DOMAIN frames : frames[i].at = "relation" =>
            i \in DOMAIN frames' /\ frames'[i] = frames[i] /\ i # Len(frames')
      <4>1. \A i \in DOMAIN frames : i = n \/ (i \in 1 .. n - 1 /\ i # n)
        BY <2>4
      <4> QED
        BY <1>3, <2>4, <4>1
    <3> QED
      BY <1>2, <3>1, ComputingKept DEF Sense
  <2>7. /\ \A c : Granted(c)' <=> Granted(c)
        /\ \A c : LevelOf(c)' = LevelOf(c) /\ StageOf(c)' = StageOf(c)
        /\ \A k : Said(k)' = Said(k)
    BY <1>2, MeaningKept
  <2>8. ~f.changed /\ Len(stack) = f.pos + f.size
    <3>1. Len(stack) \in Nat
      BY DEF Facts, Typed
    <3> QED
      BY <1>4, <1>7, <3>1 DEF LastRound
  <2>9. ASSUME NEW k \in (Region(n) \cap Untrue)'
        PROVE  Excused(Excuses(n) \cap Untrue, Said(k))'
    <3>1. k \in Region(n) /\ k \in Untrue
      BY <1>2, <2>4, <2>9 DEF Untrue
    <3>2. PICK p \in f.pos + 1 .. Len(stack) : stack[p] = k
      BY <1>3, <1>n, <3>1, RegionAbove
    <3>3. p \in f.pos + 1 .. f.pos + f.turn - 1
      BY <1>4, <2>8, <3>2
    <3>4. Excused(Usable(n), Said(k))
      BY <1>3, <1>5, <2>8, <3>1, <3>2, <3>3 DEF SettleMeans
    <3>5. Usable(n) \subseteq Excuses(n) \cap Untrue
      BY <1>3, <1>n, <2>8, SettledExcuses
    <3>6. Usable(n) \subseteq (Excuses(n) \cap Untrue)'
      BY <1>2, <2>4, <3>5 DEF Untrue
    <3>7. PICK c : c = Said(k)
      OBVIOUS
    <3>8. Excused(Excuses(n) \cap Untrue, c)'
      BY <2>7, <3>4, <3>6, <3>7 DEF Excused
    <3>9. Said(k)' = c
      BY <2>7, <3>7
    <3> QED
      BY <3>8, <3>9 DEF Excused
  <2>10. next'.allowed => Granted(ClaimAt(n))'
    BY <1>3, <1>5, <2>3, <2>4, <2>7 DEF SettleMeans
  <2>11. BackMeans' /\ TestMeans'
    BY <2>3, <2>4, <2>9, <2>10 DEF BackMeans, TestMeans
  <2> QED
    BY <1>2, <2>5, <2>6, <2>11, MemoMeansKept DEF Sense
<1> QED
  BY <1>6, <1>7

-----------------------------------------------------------------------------
(* A relation is entered. *)

(* Enter: a key that is being computed excuses nothing yet. *)
LEMMA EnterSense ==
  ASSUME Facts, Shape, MemoMeans, Sense, NEW k \in Keys, Enter(k)
  PROVE  MemoMeans' /\ Sense'
<1>n. PICK n : n = Len(frames)
  OBVIOUS
<1>1. /\ n \in Nat /\ DOMAIN frames = 1 .. n /\ DOMAIN frames' = 1 .. n + 1
      /\ Len(frames') = n + 1
      /\ \A i \in 1 .. n : frames'[i] = frames[i]
      /\ frames'[n + 1].at = "relation" /\ frames'[n + 1].key = k
      /\ frames'[n + 1].outer = lowlink
      /\ DOMAIN stack = 1 .. Len(stack) /\ DOMAIN stack' = 1 .. Len(stack) + 1
      /\ \A p \in DOMAIN stack : stack'[p] = stack[p]
      /\ memo[k].index = 0
      /\ memo'[k].state = "computing" /\ memo'[k].index = index + 1 /\ index \in Nat
      /\ \A q \in Keys : q # k => memo'[q] = memo[q]
      /\ asked' = asked /\ next'.go = "rewrite" /\ next.go = "relation"
  BY <1>n, Entered
<1>2. /\ \A i \in 1 .. n : Visible(i)' = Visible(i)
      /\ \A i \in 1 .. n : Opens(i) => Region(i)' = Region(i)
      /\ Region(n + 1)' = {k}
      /\ \A i \in 1 .. n : Opens(i)' <=> Opens(i)
      /\ Opens(n + 1)'
      /\ \A q : Said(q)' = Said(q)
  BY <1>n, EnterVisible
<1>3. /\ \A c : Granted(c)' <=> Granted(c)
      /\ \A c : LevelOf(c)' = LevelOf(c) /\ StageOf(c)' = StageOf(c)
  BY <1>1, MeaningKept
<1>4. MemoMeans'
  <2>1. ASSUME NEW q \in Keys
        PROVE  /\ memo'[q].state = "true" => Granted(Said(q))
               /\ memo'[q].state \in {"computing", "false"} /\ memo'[q].index = 0 =>
                    ~Granted(Said(q))
    <3>1. CASE q = k
      BY <1>1, <3>1
    <3>2. CASE q # k
      BY <1>1, <3>2 DEF MemoMeans
    <3> QED
      BY <3>1, <3>2
  <2> QED
    BY <1>2, <1>3, <2>1 DEF MemoMeans
<1>5. \A p \in DOMAIN stack : stack[p] \in Keys /\ stack[p] # k
  BY <1>1, OnStack
<1>6. ASSUME NEW i \in 1 .. n
      PROVE  Excuses(i) \subseteq Excuses(i)'
  <2>1. ASSUME NEW q \in Excuses(i)
        PROVE  q \in Excuses(i)'
    <3>1. q \in Visible(i) /\ q \in Keys /\ memo[q].index # 0 /\ Granted(Said(q)) /\ Noted(i, q)
      BY DEF Excuses, Visible
    <3>2. memo'[q] = memo[q]
      BY <1>1, <3>1
    <3>3. Noted(i, q)'
      <4>1. CASE lowlink <= memo[q].index
        <5>1. n + 1 \in i + 1 .. Len(frames')
          BY <1>1
        <5> QED
          BY <1>1, <1>2, <3>2, <4>1, <5>1 DEF Noted
      <4>2. ASSUME NEW j \in i + 1 .. Len(frames), Opens(j), frames[j].outer <= memo[q].index
            PROVE  Noted(i, q)'
        <5>1. j \in 1 .. n /\ j \in i + 1 .. Len(frames')
          BY <1>1, <1>n
        <5> QED
          BY <1>1, <1>2, <3>2, <4>2, <5>1 DEF Noted
      <4> QED
        BY <3>1, <4>1, <4>2 DEF Noted
    <3> QED
      BY <1>2, <1>3, <3>1, <3>3 DEF Excuses
  <2> QED
    BY <2>1
<1>7. ASSUME NEW q \in 1 .. n, frames[q].at = "settle"
      PROVE  /\ LastMember(frames[q])' = LastMember(frames[q])
             /\ memo'[LastMember(frames[q])] = memo[LastMember(frames[q])]
             /\ \A p \in frames[q].pos + 1 .. frames[q].pos + frames[q].turn - 1 :
                  p \in DOMAIN stack
  <2>1. frames[q].pos + frames[q].size \in DOMAIN stack /\ frames[q].turn \in 1 .. frames[q].size + 1
    BY <1>1, <1>7 DEF Shape, SettleShape
  <2>2. LastMember(frames[q])' = LastMember(frames[q])
    BY <1>1, <1>7, <2>1 DEF LastMember
  <2>3. memo'[LastMember(frames[q])] = memo[LastMember(frames[q])]
    BY <1>1, <1>5, <2>1 DEF LastMember
  <2>4. frames[q].pos \in Nat /\ frames[q].turn \in Nat /\ frames[q].size \in Nat
    <3>1. frames[q] \in RelationFrames
      BY <1>1, <1>7, FrameTypes DEF Facts, Opens
    <3> QED
      BY <3>1 DEF RelationFrames
  <2>5. Len(stack) \in Nat
    BY DEF Facts, Typed
  <2>6. \A p \in frames[q].pos + 1 .. frames[q].pos + frames[q].turn - 1 : p \in DOMAIN stack
    <3>1. frames[q].pos + frames[q].turn - 1 <= frames[q].pos + frames[q].size
          /\ frames[q].pos + frames[q].size <= Len(stack)
      BY <1>1, <2>1, <2>4, <2>5
    <3>2. \A p \in frames[q].pos + 1 .. frames[q].pos + frames[q].turn - 1 : p \in 1 .. Len(stack)
      BY <2>4, <2>5, <3>1
    <3> QED
      BY <1>1, <3>2
  <2> QED
    BY <2>2, <2>3, <2>6
<1>8. ASSUME NEW i \in 1 .. n
      PROVE  Usable(i) \subseteq Usable(i)'
  <2>1. ASSUME NEW e \in Usable(i)
        PROVE  e \in Fresh(i)'
    <3>1. e \in Keys /\ memo[e].index # 0 /\ e \in Fresh(i)
      BY DEF Usable, Excuses, Visible
    <3>2. memo'[e] = memo[e]
      BY <1>1, <3>1
    <3>3. ASSUME NEW q \in 1 .. i, Under(q, i)', frames'[q].at = "settle"
          PROVE  memo'[e].state # "true"
                   \/ memo'[LastMember(frames[q])'].index < memo'[e].index
      <4>1. q \in 1 .. n /\ frames'[q] = frames[q]
        BY <1>1
      <4>2. \A j \in q + 1 .. i : j \in 1 .. n
        BY <1>1
      <4>3. Under(q, i)
        BY <1>2, <3>3, <4>1, <4>2 DEF Under
      <4>4. memo[e].state # "true" \/ memo[LastMember(frames[q])].index < memo[e].index
        BY <3>1, <3>3, <4>1, <4>3 DEF Fresh
      <4> QED
        BY <1>7, <3>2, <3>3, <4>1, <4>4
    <3>4. \A q \in 1 .. i : frames'[q] = frames[q]
      BY <1>1
    <3> QED
      BY <3>1, <3>3, <3>4 DEF Fresh
  <2> QED
    BY <1>6, <2>1 DEF Usable
<1>9. ASSUME NEW i \in 1 .. n
      PROVE  FrameMeans(i)'
  <2>1. FrameMeans(i) /\ frames'[i] = frames[i]
    BY <1>1 DEF Sense
  <2>2. ASSUME frames[i].at = "settle",
               NEW p \in frames[i].pos + 1 .. frames[i].pos + frames[i].turn - 1
        PROVE  stack'[p] = stack[p] /\ (stack[p] \in Untrue' => stack[p] \in Untrue)
    <3>1. p \in DOMAIN stack
      BY <1>7, <2>2
    <3>2. memo'[stack[p]] = memo[stack[p]]
      BY <1>1, <1>5, <3>1
    <3> QED
      BY <1>1, <3>1, <3>2 DEF Untrue
  <2>3. Opens(i) => \A q \in Region(i)' : memo'[q].state = "false" =>
          q \in Region(i) /\ memo[q].state = "false"
    <3>1. SUFFICES ASSUME Opens(i), NEW q \in Region(i)', memo'[q].state = "false"
                   PROVE  q \in Region(i) /\ memo[q].state = "false"
      OBVIOUS
    <3>2. q \in Region(i) /\ q \in Keys /\ q # k
      BY <1>1, <1>2, <3>1 DEF Region, Visible
    <3> QED
      BY <1>1, <3>1, <3>2
  <2> QED
    BY <1>1, <1>6, <1>8, <2>1, <2>2, <2>3, FrameKept
<1>10. FrameMeans(n + 1)'
  <2>1. FalseExcused(n + 1)'
    BY <1>1, <1>2 DEF FalseExcused
  <2> QED
    BY <1>1, <1>2, <2>1 DEF FrameMeans
<1>11. \A i \in DOMAIN frames' : FrameMeans(i)'
  <2>1. \A i \in DOMAIN frames' : i \in 1 .. n \/ i = n + 1
    BY <1>1
  <2> QED
    BY <1>9, <1>10, <2>1
<1>12. ComputingOpen'
  <2>1. ASSUME NEW q \in Keys, memo'[q].state = "computing"
        PROVE  \E i \in DOMAIN frames' : /\ frames'[i].at = "relation" /\ frames'[i].key = q
                                         /\ i = Len(frames') => next'.go # "test"
    <3>1. CASE q = k
      <4>1. n + 1 \in DOMAIN frames'
        BY <1>1
      <4> QED
        BY <1>1, <3>1, <4>1
    <3>2. CASE q # k
      <4>1. memo[q].state = "computing"
        BY <1>1, <2>1, <3>2
      <4>2. PICK i \in DOMAIN frames : frames[i].at = "relation" /\ frames[i].key = q
        BY <4>1 DEF Sense, ComputingOpen
      <4>3. i \in DOMAIN frames' /\ frames'[i] = frames[i]
        BY <1>1
      <4> QED
        BY <1>1, <4>2, <4>3
    <3> QED
      BY <3>1, <3>2
  <2> QED
    BY <2>1 DEF ComputingOpen
<1>13. BackMeans' /\ TestMeans'
  BY <1>1 DEF BackMeans, TestMeans
<1> QED
  BY <1>4, <1>11, <1>12, <1>13 DEF Sense

-----------------------------------------------------------------------------
(* A relation returns. *)

(* A frame below it means what it did, if it sees no less.                 *)
LEMMA LeftFrame ==
  ASSUME Facts, Shape, Sense, next.go = "test", frames' = Front(frames), asked' = asked,
         NEW n, n = Len(frames), lowlink' = Lower(frames[n].outer, lowlink),
         \A q \in Keys : memo'[q].state = memo[q].state,
         \A q \in Keys : memo[q].index < frames[n].index => memo'[q] = memo[q],
         \A p \in DOMAIN stack : memo[stack[p]].index < frames[n].index => stack'[p] = stack[p],
         NEW i \in 1 .. n - 1, Visible(i) \subseteq Visible(i)',
         Opens(i) => \A k \in Region(i)' : memo[k].state = "false" =>
           k \in Region(i) \/ Excused(Excuses(i)', Said(k))
  PROVE  FrameMeans(i)'
<1>1. /\ n \in Nat \ {0} /\ DOMAIN frames = 1 .. n /\ DOMAIN frames' = 1 .. n - 1
      /\ Len(frames') = n - 1 /\ n - 1 \in Nat
      /\ \A j \in 1 .. n - 1 : j \in 1 .. n /\ frames'[j] = frames[j]
      /\ Opens(n) /\ frames[n].index \in Nat \ {0} /\ frames[n].outer \in Nat
      /\ \A j \in 1 .. n - 1 : Opens(j)' <=> Opens(j)
  BY Left
<1>2. lowlink \in Nat /\ lowlink' <= lowlink /\ lowlink' <= frames[n].outer /\ lowlink' \in Nat
  BY <1>1, FramesAre DEF Lower
<1>3. \A k \in Keys : memo[k].index \in Nat
  BY DEF Facts, Typed, Memos
<1>4. /\ \A c : Granted(c)' <=> Granted(c)
      /\ \A q : Said(q)' = Said(q)
  BY MeaningKept
<1>5. Excuses(i) \subseteq Excuses(i)'
  <2>1. ASSUME NEW k \in Excuses(i)
        PROVE  k \in Excuses(i)'
    <3>1. k \in Visible(i) /\ k \in Keys /\ Granted(Said(k)) /\ Noted(i, k)
      BY DEF Excuses, Visible
    <3>2. memo'[k] = memo[k]
      <4>1. n \in i + 1 .. Len(frames)
        BY <1>1
      <4> QED
        BY <1>1, <3>1, <4>1 DEF Visible
    <3>3. Noted(i, k)'
      <4>1. CASE lowlink <= memo[k].index
        <5>1. lowlink' <= memo[k].index
          BY <1>2, <1>3, <3>1, <4>1
        <5> QED
          BY <3>2, <5>1 DEF Noted
      <4>2. ASSUME NEW j \in i + 1 .. Len(frames), Opens(j), frames[j].outer <= memo[k].index
            PROVE  Noted(i, k)'
        <5>1. CASE j = n
          <6>1. lowlink' <= memo[k].index
            BY <1>1, <1>2, <1>3, <3>1, <4>2, <5>1
          <6> QED
            BY <3>2, <6>1 DEF Noted
        <5>2. CASE j # n
          <6>1. j \in i + 1 .. Len(frames') /\ j \in 1 .. n - 1
            BY <1>1, <4>2, <5>2
          <6> QED
            BY <1>1, <3>2, <4>2, <6>1 DEF Noted
        <5> QED
          BY <5>1, <5>2
      <4> QED
        BY <3>1, <4>1, <4>2 DEF Noted
    <3> QED
      BY <1>4, <3>1, <3>3 DEF Excuses
  <2> QED
    BY <2>1
<1>6. ASSUME NEW q \in 1 .. n - 1, frames[q].at = "settle"
      PROVE  /\ LastMember(frames[q])' = LastMember(frames[q])
             /\ memo'[LastMember(frames[q])] = memo[LastMember(frames[q])]
             /\ \A p \in frames[q].pos + 1 .. frames[q].pos + frames[q].turn - 1 :
                  stack'[p] = stack[p]
  <2>1. q \in DOMAIN frames /\ q < n
    BY <1>1
  <2>2. /\ LastMember(frames[q]) \in Keys
        /\ memo[LastMember(frames[q])].index < frames[n].index
    BY <1>1, <1>6, <2>1, SettledBefore
  <2>3. frames[q].pos + frames[q].size \in DOMAIN stack
    BY <1>6, <2>1 DEF Shape, SettleShape
  <2>4. frames'[q] = frames[q]
    BY <1>1
  <2>5. LastMember(frames[q])' = LastMember(frames[q])
    BY <2>2, <2>3, <2>4 DEF LastMember
  <2>6. \A p \in frames[q].pos + 1 .. frames[q].pos + frames[q].turn - 1 :
          stack'[p] = stack[p]
    BY <1>1, <1>6, <2>1, SettledMembers
  <2> QED
    BY <2>2, <2>5, <2>6
<1>7. Usable(i) \subseteq Usable(i)'
  <2>1. ASSUME NEW e \in Usable(i)
        PROVE  e \in Fresh(i)'
    <3>1. e \in Keys /\ e \in Visible(i) /\ e \in Fresh(i)
      BY DEF Usable, Excuses, Visible
    <3>2. memo'[e] = memo[e]
      <4>1. n \in i + 1 .. Len(frames)
        BY <1>1
      <4> QED
        BY <1>1, <3>1, <4>1 DEF Visible
    <3>3. ASSUME NEW q \in 1 .. i, Under(q, i)', frames'[q].at = "settle"
          PROVE  memo'[e].state # "true"
                   \/ memo'[LastMember(frames[q])'].index < memo'[e].index
      <4>1. q \in 1 .. n - 1 /\ frames'[q] = frames[q]
        BY <1>1
      <4>2. \A j \in q + 1 .. i : j \in 1 .. n - 1
        BY <1>1
      <4>3. Under(q, i)
        BY <1>1, <3>3, <4>1, <4>2 DEF Under
      <4>4. memo[e].state # "true" \/ memo[LastMember(frames[q])].index < memo[e].index
        BY <3>1, <3>3, <4>1, <4>3 DEF Fresh
      <4> QED
        BY <1>6, <3>2, <3>3, <4>1, <4>4
    <3>4. \A q \in 1 .. i : frames'[q] = frames[q]
      BY <1>1
    <3> QED
      BY <3>1, <3>3, <3>4 DEF Fresh
  <2> QED
    BY <1>5, <2>1 DEF Usable
<1>8. FrameMeans(i) /\ frames'[i] = frames[i]
  BY <1>1 DEF Sense
<1>9. ASSUME frames[i].at = "settle",
             NEW p \in frames[i].pos + 1 .. frames[i].pos + frames[i].turn - 1
      PROVE  stack'[p] = stack[p] /\ (stack[p] \in Untrue' => stack[p] \in Untrue)
  <2>1. stack'[p] = stack[p]
    BY <1>6, <1>9
  <2> QED
    BY <2>1 DEF Untrue
<1>10. Opens(i) => \A k \in Region(i)' : memo'[k].state = "false" =>
         \/ k \in Region(i) /\ memo[k].state = "false"
         \/ Excused(Excuses(i)', Said(k))
  <2>1. Region(i)' \subseteq Keys
    BY DEF Region, Visible
  <2> QED
    BY <2>1
<1> QED
  BY <1>5, <1>7, <1>8, <1>9, <1>10, FrameKept

(* A relation that is left is no longer computed. *)
LEMMA ComputingLeft ==
  ASSUME Facts, Shape, Sense, next.go = "test", frames' = Front(frames), asked' = asked,
         \A q \in Keys : memo'[q].state = memo[q].state, next'.go = "back"
  PROVE  ComputingOpen'
<1>n. PICK n : n = Len(frames)
  OBVIOUS
<1>1. /\ n \in Nat \ {0} /\ DOMAIN frames = 1 .. n /\ DOMAIN frames' = 1 .. n - 1
      /\ \A j \in 1 .. n - 1 : frames'[j] = frames[j]
  BY <1>n, Left
<1>2. \A i \in DOMAIN frames : i # n => i \in DOMAIN frames' /\ frames'[i] = frames[i]
  <2>1. \A i \in DOMAIN frames : i # n => i \in 1 .. n - 1
    BY <1>1
  <2> QED
    BY <1>1, <2>1
<1> QED
  BY <1>2, <1>n, ComputingKept DEF Sense

(* No key of the component whose evaluation ended is still computed.       *)
LEMMA NoneComputed ==
  ASSUME Facts, Shape, Sense, next.go = "test", NEW n, n = Len(frames),
         NEW k \in Region(n)
  PROVE  memo[k].state \in {"true", "false"}
<1>1. /\ frames # <<>> /\ n \in Nat \ {0} /\ DOMAIN frames = 1 .. n
      /\ frames[n].at = "relation" /\ Opens(n)
  BY FramesAre DEF Shape, Chain, Opens, Last
<1>2. k \in Keys /\ frames[n].index <= memo[k].index /\ frames[n].index \in Nat \ {0}
      /\ memo[k].index \in Nat
  <2>1. frames[n] \in RelationFrames
    BY <1>1, OpenOnStack
  <2>2. frames[n].index \in Nat \ {0}
    BY <1>1, OpenOnStack
  <2>3. memo \in [Keys -> Memos]
    BY DEF Facts, Typed
  <2> QED BY <2>2, <2>3 DEF Region, Visible, Memos
<1>3. memo[k].state \in {"none", "computing", "true", "false"}
  BY <1>2 DEF Facts, Typed, Memos
<1>4. memo[k].state # "none"
  BY <1>2 DEF Facts, MemoKnown
<1>5. ASSUME memo[k].state = "computing" PROVE FALSE
  <2>1. PICK i \in 1 .. n : /\ frames[i].at = "relation" /\ frames[i].key = k
                            /\ i = n => next.go # "test"
    BY <1>1, <1>2, <1>5 DEF Sense, ComputingOpen
  <2>2. i < n
    BY <1>1, <2>1
  <2>3. Opens(i)
    BY <2>1 DEF Opens
  <2>4. RelationShape(i)
    BY <1>1, <2>3 DEF Shape
  <2>5. frames[i].index < frames[n].index
    BY <1>1, <2>2, <2>4 DEF RelationShape
  <2>6. memo[k].index = frames[i].index
    BY <2>1, <2>4 DEF RelationShape
  <2>7. frames[i].index \in Nat
    BY <1>2, <2>6
  <2> QED BY <1>2, <2>5, <2>6, <2>7
<1> QED BY <1>3, <1>4, <1>5

(* At the root, what excuses a false member is a member that is not true.  *)
LEMMA ComponentExcuses ==
  ASSUME Facts, Shape, Sense, next.go = "test", NEW n, n = Len(frames),
         IsRoot(frames[n]), next.settled \/ ~NeedsSettling(frames[n]),
         NEW k \in Region(n) \cap Untrue
  PROVE  Excused(Excuses(n) \cap Region(n) \cap Untrue, Said(k))
<1>1. /\ frames # <<>> /\ n \in Nat \ {0} /\ DOMAIN frames = 1 .. n
      /\ frames[n].at = "relation" /\ Opens(n) /\ Len(frames) = n
  BY FramesAre DEF Shape, Chain, Opens, Last
<1>2. \A e \in Excuses(n) : e \in Region(n)
  <2>1. \A e \in Excuses(n) : e \in Visible(n) /\ lowlink <= memo[e].index
    BY <1>1 DEF Excuses, Noted
  <2> QED BY <2>1 DEF Region, IsRoot
<1>3. Untrue = {q \in Keys : memo[q].state # "true"}
  BY DEF Untrue
<1>4. CASE next.settled
  <2>1. Excused(Excuses(n) \cap Untrue, Said(k))
    BY <1>1, <1>4 DEF Sense, TestMeans
  <2> QED BY <1>2, <2>1 DEF Excused, Excuses
<1>5. CASE ~NeedsSettling(frames[n])
  <2>1. memo[k].state = "false"
    BY NoneComputed, <1>3
  <2>2. Excused(Excuses(n), Said(k))
    BY <1>1, <2>1 DEF Sense, FrameMeans, FalseExcused
  <2>3. SUFFICES ASSUME Granted(Said(k))
                 PROVE  \E e \in Excuses(n) \cap Region(n) \cap Untrue :
                          /\ StageOf(Said(e)) < StageOf(Said(k))
                          /\ LevelOf(Said(e)) <= LevelOf(Said(k))
    BY DEF Excused
  <2>4. PICK e \in Excuses(n) : /\ StageOf(Said(e)) < StageOf(Said(k))
                                /\ LevelOf(Said(e)) <= LevelOf(Said(k))
    BY <2>2, <2>3 DEF Excused
  <2>5. e \in Region(n)
    BY <1>2
  <2>6. \A q \in Region(n) : q \in Members(frames[n])
    BY RegionAbove, <1>1 DEF Members
  <2>7. CASE \A q \in Members(frames[n]) : memo[q].state # "true"
    <3>1. e \in Untrue
      BY <2>5, <2>6, <2>7, <1>3 DEF Region, Visible
    <3> QED BY <2>4, <2>5, <3>1
  <2>8. CASE ~(Len(stack) - frames[n].pos >= 2)
    <3>1. PICK p \in frames[n].pos + 1 .. Len(stack) : stack[p] = k
      BY RegionAbove, <1>1
    <3>2. PICK o \in frames[n].pos + 1 .. Len(stack) : stack[o] = e
      BY RegionAbove, <1>1, <2>5
    <3>3. frames[n].pos \in Nat /\ Len(stack) \in Nat
      <4>1. frames[n] \in RelationFrames
        BY <1>1, OpenOnStack
      <4>2. stack \in Seq(Keys)
        BY DEF Facts, Typed
      <4> QED BY <4>1, <4>2 DEF RelationFrames
    <3>4. p = o
      BY <2>8, <3>1, <3>2, <3>3
    <3>5. StageOf(Said(k)) < StageOf(Said(k))
      BY <2>4, <3>1, <3>2, <3>4
    <3>6. StageOf(Said(k)) \in Nat
      <4>1. k \in Keys /\ memo[k].index # 0
        BY DEF Region, Visible
      <4> QED BY <4>1, Indexed
    <3> QED BY <3>5, <3>6
  <2> QED BY <1>5, <2>7, <2>8 DEF NeedsSettling
<1> QED BY <1>4, <1>5

(* The member that is granted first has none: no member that is not true   *)
(* is granted when its component is popped.                                *)
LEMMA ComponentFinal ==
  ASSUME Facts, Shape, Sense, next.go = "test", NEW n, n = Len(frames),
         IsRoot(frames[n]), next.settled \/ ~NeedsSettling(frames[n])
  PROVE  \A k \in Region(n) \cap Untrue : ~Granted(Said(k))
<1>1. DEFINE D == {k \in Region(n) \cap Untrue : Granted(Said(k))}
             T == {StageOf(Said(k)) : k \in D}
<1>2. SUFFICES ASSUME D # {} PROVE FALSE
  OBVIOUS
<1>3. \A k \in D : StageOf(Said(k)) \in Nat
  <2>1. \A k \in D : k \in Keys /\ memo[k].index # 0
    BY DEF Region, Visible
  <2> QED BY <2>1, Indexed
<1>4. T \subseteq Nat /\ T # {}
  BY <1>2, <1>3
<1> HIDE DEF T
<1>5. PICK m \in T : \A x \in T : ~(<<x, m>> \in OpToRel(<, Nat))
  BY <1>4, NatLessThanWellFounded, WFMin, Zenon
<1>6. PICK k \in D : StageOf(Said(k)) = m
  BY DEF T
<1>7. Excused(Excuses(n) \cap Region(n) \cap Untrue, Said(k))
  BY ComponentExcuses
<1>8. PICK e \in Excuses(n) \cap Region(n) \cap Untrue : StageOf(Said(e)) < StageOf(Said(k))
  BY <1>6, <1>7 DEF Excused
<1>9. e \in D
  BY <1>8 DEF Excuses
<1>10. StageOf(Said(e)) \in T
  BY <1>9 DEF T
<1>11. StageOf(Said(e)) < m /\ m \in Nat /\ StageOf(Said(e)) \in Nat
  BY <1>3, <1>6, <1>8, <1>9
<1>12. <<StageOf(Said(e)), m>> \in OpToRel(<, Nat)
  BY <1>11 DEF OpToRel
<1> QED BY <1>5, <1>10, <1>12

(* Popping: the component's answers are final, and its root's is exact.    *)
LEMMA PopSense ==
  ASSUME Facts, Shape, MemoMeans, Sense, Pop
  PROVE  MemoMeans' /\ Sense'
<1>n. PICK n : n = Len(frames)
  OBVIOUS
<1>f. PICK f : f = frames[n]
  OBVIOUS
<1>1. /\ next.go = "test" /\ frames' = Front(frames) /\ asked' = asked
      /\ lowlink = f.index /\ lowlink' = Lower(f.outer, lowlink)
      /\ next' = Back(memo[f.key].state = "true", next.node)
      /\ next.settled \/ ~NeedsSettling(f)
      /\ stack' = SubSeq(stack, 1, f.pos)
      /\ \A q \in Keys : /\ memo'[q].state = memo[q].state
                         /\ q \in Region(n) => memo'[q].index = 0
                         /\ q \notin Region(n) => memo'[q] = memo[q]
      /\ \A i \in 1 .. n - 1 : Visible(i)' = Visible(i)
      /\ \A i \in 1 .. n - 1 : Opens(i) => Region(i)' = Region(i)
  BY <1>n, <1>f, PopVisible
<1>2. /\ n \in Nat \ {0} /\ DOMAIN frames = 1 .. n /\ DOMAIN frames' = 1 .. n - 1
      /\ Len(frames') = n - 1 /\ n - 1 \in Nat
      /\ f.at = "relation" /\ Opens(n)
      /\ f \in RelationFrames /\ f.key \in Keys
      /\ f.index \in Nat \ {0} /\ f.outer \in Nat
      /\ ClaimAt(n) = Said(f.key)
      /\ \A q : q \in Region(n) <=> q \in Keys /\ f.index <= memo[q].index
      /\ Members(f) = Region(n)
      /\ memo[f.key].index = f.index
      /\ \A c : LevelOf(c)' = LevelOf(c) /\ StageOf(c)' = StageOf(c)
      /\ \A q : Said(q)' = Said(q)
  BY <1>1, <1>n, <1>f, Left
<1>3. IsRoot(f)
  BY <1>1 DEF IsRoot
<1>4. \A k \in Region(n) \cap Untrue : ~Granted(Said(k))
  BY <1>1, <1>3, <1>n, <1>f, ComponentFinal
<1>5. MemoMeans'
  <2>1. ASSUME NEW k \in Keys
        PROVE  /\ memo'[k].state = "true" => Granted(Said(k))
               /\ memo'[k].state \in {"computing", "false"} /\ memo'[k].index = 0 =>
                    ~Granted(Said(k))
    <3>1. CASE k \in Region(n)
      <4>1. memo'[k].state \in {"computing", "false"} => k \in Untrue
        BY <1>1 DEF Untrue
      <4> QED
        BY <1>1, <1>4, <3>1, <4>1 DEF MemoMeans
    <3>2. CASE k \notin Region(n)
      BY <1>1, <3>2 DEF MemoMeans
    <3> QED
      BY <3>1, <3>2
  <2>2. \A k : Granted(Said(k))' <=> Granted(Said(k))
    BY <1>1, MeaningKept
  <2> QED
    BY <2>1, <2>2 DEF MemoMeans
<1>6. next'.go = "back" /\ (next'.allowed <=> Granted(Said(f.key)))
  <2>1. next'.go = "back" /\ next'.allowed = (memo[f.key].state = "true")
    BY <1>1 DEF Back
  <2>2. f.key \in Region(n)
    BY <1>2
  <2>3. CASE memo[f.key].state = "true"
    BY <1>2, <2>1, <2>3 DEF MemoMeans
  <2>4. CASE memo[f.key].state # "true"
    <3>1. f.key \in Untrue
      BY <1>2, <2>4 DEF Untrue
    <3> QED
      BY <1>4, <2>1, <2>2, <2>4, <3>1
  <2> QED
    BY <2>3, <2>4
<1>7. BackMeans'
  <2>1. CASE n = 1
    <3>1. frames' = <<>>
      BY <1>1, <1>n, <2>1 DEF Front, Facts, Typed
    <3>2. f.key = case.key
      <4>1. Serves(frames[1]) = Relation(case.key)
        BY <1>2, <1>n DEF Shape, Chain
      <4>2. Serves(f) = Relation(f.key)
        BY <1>2 DEF Serves
      <4> QED
        BY <1>f, <2>1, <4>1, <4>2 DEF Relation
    <3>3. IsDefined(f.key) /\ Said(f.key) \in DOMAIN meaning
      <4>1. memo[f.key].index # 0
        BY <1>2
      <4> QED
        BY <1>2, <4>1, Indexed
    <3>4. case' = case /\ meaning' = meaning
      BY <1>1 DEF case, meaning
    <3>5. (Granted(Said(case.key)))' <=> Granted(Said(f.key))
      BY <3>2, <1>1, <3>4 DEF Granted, Said
    <3>6. (IsDefined(case.key) /\ Said(case.key) \in DOMAIN meaning)'
      BY <3>2, <3>3, <3>4 DEF Said, IsDefined
    <3> QED
      BY <1>6, <3>1, <3>5, <3>6 DEF BackMeans
  <2>2. CASE n # 1
    <3>1. frames' # <<>> /\ ClaimOf(Awaits(Last(frames)))' = ClaimAt(n)
      BY <1>1, <1>2, <1>n, <2>2, ReturnedTo
    <3>3. next'.allowed <=> Granted(ClaimOf(Awaits(Last(frames))))'
      BY <1>1, <1>2, <1>6, <3>1 DEF Granted, meaning
    <3> QED
      BY <1>6, <3>1, <3>3 DEF BackMeans
  <2> QED
    BY <2>1, <2>2
<1>8. \A p \in DOMAIN stack : memo[stack[p]].index < f.index => stack'[p] = stack[p]
  <2>1. stack \in Seq(Keys) /\ memo \in [Keys -> Memos]
    BY DEF Facts, Typed
  <2>2. SUFFICES ASSUME NEW p \in DOMAIN stack, memo[stack[p]].index < f.index
                 PROVE  stack'[p] = stack[p]
    OBVIOUS
  <2>3. p \in 1 .. Len(stack) /\ stack[p] \in Keys /\ memo[stack[p]].index \in Nat
    BY <2>1 DEF Memos
  <2>4. stack[p] \notin Members(f)
    BY <1>2, <2>2, <2>3
  <2>5. f.pos \in Nat
    BY <1>2 DEF RelationFrames
  <2>6. p <= f.pos
    BY <2>3, <2>4, <2>5 DEF Members
  <2>7. f.pos <= Len(stack)
    <3>1. RelationShape(n)
      BY <1>2 DEF Shape
    <3>2. f.pos + 1 \in 1 .. Len(stack)
      BY <3>1, <1>f, <2>1 DEF RelationShape
    <3> QED
      BY <2>5, <3>2, <2>1
  <2> QED
    BY <1>1, <2>1, <2>3, <2>5, <2>6, <2>7
<1>9. \A i \in 1 .. n - 1 : FrameMeans(i)'
  <2>1. ASSUME NEW i \in 1 .. n - 1 PROVE FrameMeans(i)'
    <3>1. /\ \A q \in Keys : memo'[q].state = memo[q].state
          /\ \A q \in Keys : memo[q].index < f.index => memo'[q] = memo[q]
      <4>1. memo \in [Keys -> Memos]
        BY DEF Facts, Typed
      <4>2. \A q \in Keys : memo[q].index < f.index => ~(f.index <= memo[q].index)
        BY <4>1, <1>2 DEF Memos
      <4> QED
        BY <1>1, <1>2, <4>2
    <3>2. Visible(i) \subseteq Visible(i)' /\ (Opens(i) => Region(i)' = Region(i))
      BY <1>1
    <3> QED
      BY <1>1, <1>8, <1>n, <1>f, <3>1, <3>2, LeftFrame
  <2> QED
    BY <2>1
<1>10. ComputingOpen'
  BY <1>1, <1>6, ComputingLeft
<1>11. TestMeans'
  BY <1>6 DEF TestMeans
<1> QED
  BY <1>2, <1>5, <1>7, <1>9, <1>10, <1>11 DEF Sense

(* Staying: a relation that is no root may be excused by itself, on the    *)
(* stack, to what called it.                                               *)
LEMMA StaySense ==
  ASSUME Facts, Shape, Reach, MemoMeans, Sense, Stay
  PROVE  MemoMeans' /\ Sense'
<1>n. PICK n : n = Len(frames)
  OBVIOUS
<1>f. PICK f : f = frames[n]
  OBVIOUS
<1>1. /\ next.go = "test" /\ frames' = Front(frames) /\ asked' = asked /\ memo' = memo
      /\ lowlink' = Lower(f.outer, lowlink)
      /\ next' = Back(next.allowed, next.node) /\ stack' = stack
      /\ lowlink < f.index /\ n > 1
      /\ \A i \in 1 .. n - 1 : \A q : q \in Visible(i)' <=>
           q \in Visible(i) \/ (q \in Region(n) /\ \A j \in i + 1 .. n - 1 : ~Opens(j))
      /\ \A i \in 1 .. n - 1 : Opens(i) => \A q : q \in Region(i)' <=>
           q \in Region(i) \/ (q \in Region(n) /\ \A j \in i + 1 .. n - 1 : ~Opens(j))
  BY <1>n, <1>f, StayVisible
<1>2. /\ n \in Nat \ {0} /\ DOMAIN frames = 1 .. n /\ DOMAIN frames' = 1 .. n - 1
      /\ Len(frames') = n - 1 /\ n - 1 \in Nat
      /\ \A i \in 1 .. n - 1 : frames'[i] = frames[i]
      /\ f.at = "relation" /\ Opens(n)
      /\ f.key \in Keys
      /\ f.index \in Nat \ {0} /\ f.outer \in Nat
      /\ ClaimAt(n) = Said(f.key)
      /\ memo[f.key].index = f.index
      /\ \A q : q \in Region(n) <=> q \in Keys /\ f.index <= memo[q].index
      /\ \A i \in 1 .. n - 1 : Opens(i)' <=> Opens(i)
      /\ \A c : LevelOf(c)' = LevelOf(c) /\ StageOf(c)' = StageOf(c)
      /\ \A q : Said(q)' = Said(q)
      /\ \A c : Granted(c)' <=> Granted(c)
  BY <1>1, <1>n, <1>f, Left, MeaningKept
<1>3. lowlink' <= lowlink /\ lowlink \in Nat /\ lowlink' \in Nat
  BY <1>1, <1>2 DEF Lower, Facts, Typed
<1>4. memo \in [Keys -> Memos]
  BY DEF Facts, Typed
<1>5. n - 1 \in 1 .. n - 1 /\ ~Opens(n - 1) /\ frames' # <<>>
      /\ ClaimOf(Awaits(Last(frames)))' = ClaimAt(n)
  <2>1. n # 1 /\ frames # <<>>
    BY <1>1, <1>2, <1>n
  <2> QED
    BY <1>1, <1>2, <1>n, <2>1, ReturnedTo
<1>6. next'.go = "back" /\ next'.allowed = next.allowed
  BY <1>1 DEF Back
<1>7. f.key \in Usable(n - 1)' \/ ~Granted(Said(f.key))
  <2>1. SUFFICES ASSUME Granted(Said(f.key)) PROVE f.key \in Usable(n - 1)'
    OBVIOUS
  <2>2. f.key \in Visible(n - 1)'
    <3>1. f.key \in Region(n) /\ \A j \in n - 1 + 1 .. n - 1 : ~Opens(j)
      BY <1>2
    <3> QED
      BY <1>1, <1>5, <3>1
  <2>3. Noted(n - 1, f.key)'
    <3>1. lowlink' <= memo'[f.key].index
      BY <1>1, <1>2, <1>3
    <3> QED
      BY <3>1 DEF Noted
  <2>4. f.key \in Excuses(n - 1)'
    BY <1>2, <2>1, <2>2, <2>3 DEF Excuses
  <2>5. f.key \in Fresh(n - 1)'
    <3>1. ASSUME NEW q \in 1 .. n - 1, frames'[q].at = "settle"
          PROVE  memo'[LastMember(frames[q])'].index < memo'[f.key].index
      <4>1. frames'[q] = frames[q] /\ q \in DOMAIN frames /\ q < n
        BY <1>2
      <4>2. memo[LastMember(frames[q])].index < f.index
        BY <1>2, <1>n, <1>f, <3>1, <4>1, SettledBefore
      <4>3. LastMember(frames[q])' = LastMember(frames[q])
        BY <1>1, <4>1 DEF LastMember
      <4> QED
        BY <1>1, <1>2, <4>2, <4>3
    <3> QED
      BY <1>2, <3>1 DEF Fresh
  <2> QED
    BY <2>4, <2>5 DEF Usable
<1>8. BackMeans'
  <2>1. next.allowed => Granted(ClaimAt(n))
    BY <1>1, <1>n DEF Sense, TestMeans
  <2>2. PICK d : d = Said(f.key)
    OBVIOUS
  <2>3. StageOf(d) \in Nat /\ LevelOf(d) \in Nat
    <3>1. memo[f.key].index # 0
      BY <1>2
    <3> QED
      BY <1>2, <2>2, <3>1, Indexed
  <2>4. ~Opens(n - 1)'
    BY <1>2, <1>5
  <2>5. ~next'.allowed /\ Granted(d)' =>
          \E k \in Usable(n - 1)' :
            /\ StageOf(Said(k))' <= StageOf(d)'
            /\ LevelOf(Said(k))' <= LevelOf(d)'
    <3>1. SUFFICES ASSUME Granted(d)
                   PROVE  \E k \in Usable(n - 1)' : /\ StageOf(Said(k))' <= StageOf(d)'
                                                    /\ LevelOf(Said(k))' <= LevelOf(d)'
      BY <1>2
    <3>2. f.key \in Usable(n - 1)'
      BY <1>7, <2>2, <3>1
    <3>3. StageOf(d)' <= StageOf(d)' /\ LevelOf(d)' <= LevelOf(d)' /\ Said(f.key)' = d
      BY <1>2, <2>2, <2>3
    <3>4. StageOf(Said(f.key))' = StageOf(d)' /\ LevelOf(Said(f.key))' = LevelOf(d)'
      BY <3>3 DEF StageOf, LevelOf
    <3> QED
      BY <3>2, <3>3, <3>4
  <2>6. next'.allowed => Granted(d)'
    BY <1>2, <1>6, <2>1, <2>2
  <2>7. ClaimOf(Awaits(Last(frames)))' = d
    BY <1>2, <1>5, <2>2
  <2>8. StageOf(ClaimOf(Awaits(Last(frames))))' = StageOf(d)'
        /\ LevelOf(ClaimOf(Awaits(Last(frames))))' = LevelOf(d)'
        /\ (Granted(ClaimOf(Awaits(Last(frames))))' <=> Granted(d)')
    BY <2>7 DEF StageOf, LevelOf, Granted
  <2> QED
    BY <1>2, <1>5, <2>4, <2>5, <2>6, <2>8 DEF BackMeans
<1>9. \A i \in 1 .. n - 1 : FrameMeans(i)'
  <2>1. ASSUME NEW i \in 1 .. n - 1 PROVE FrameMeans(i)'
    <3>1. Visible(i) \subseteq Visible(i)'
      BY <1>1
    <3>2. ASSUME Opens(i), NEW k \in Region(i)', memo[k].state = "false", k \notin Region(i)
          PROVE  Excused(Excuses(i)', Said(k))
      <4>1. k \in Region(n) /\ \A j \in i + 1 .. n - 1 : ~Opens(j)
        BY <1>1, <3>2
      <4>2. Excused(Excuses(n), Said(k))
        BY <1>2, <3>2, <4>1 DEF Sense, FrameMeans, FalseExcused
      <4>3. ASSUME NEW e \in Excuses(n) PROVE e \in Excuses(i)'
        <5>1. e \in Keys /\ e \in Visible(n) /\ Granted(Said(e)) /\ Noted(n, e)
              /\ memo[e].index \in Nat
          BY <1>4 DEF Excuses, Visible, Memos
        <5>2. lowlink <= memo[e].index
          <6>1. \A j \in n + 1 .. n : FALSE
            BY <1>2
          <6> QED
            BY <5>1, <6>1, <1>n DEF Noted
        <5>3. Noted(i, e)'
          BY <1>1, <1>3, <5>1, <5>2 DEF Noted
        <5>4. e \in Visible(i)'
          <6>1. CASE f.index <= memo[e].index
            BY <1>1, <1>2, <4>1, <5>1, <6>1
          <6>2. CASE ~(f.index <= memo[e].index)
            <7>1. \A j \in i + 1 .. n : j = n \/ j \in i + 1 .. n - 1
              BY <1>2
            <7>2. memo[e].index < f.index /\ memo[e].index # 0
              BY <1>2, <5>1, <6>2 DEF Visible
            <7>3. e \in Visible(i)
              BY <1>n, <1>f, <4>1, <5>1, <7>1, <7>2 DEF Visible
            <7> QED
              BY <3>1, <7>3
          <6> QED
            BY <6>1, <6>2
        <5> QED
          BY <1>2, <5>1, <5>3, <5>4 DEF Excuses
      <4> QED
        BY <4>2, <4>3 DEF Excused
    <3> QED
      BY <1>1, <1>n, <1>f, <3>1, <3>2, LeftFrame
  <2> QED
    BY <2>1
<1>10. ComputingOpen'
  BY <1>1, <1>6, ComputingLeft
<1>11. TestMeans'
  BY <1>6 DEF TestMeans
<1>12. MemoMeans'
  BY <1>1, MemoMeansKept
<1> QED
  BY <1>2, <1>8, <1>9, <1>10, <1>11, <1>12 DEF Sense

(* Every step of a Check that is not failing keeps what its answers mean.  *)
LEMMA SenseStep ==
  ASSUME Facts, Shape, Reach, MemoMeans, Sense, EvalNext
  PROVE  MemoMeans' /\ (Failing' \/ Sense')
<1>1. CASE Cancelled \/ SourceFails \/ Unwind \/ \E k \in Keys : Undefined(k) \/ TooDeep(k)
  <2>1. asked' = asked /\ memo' = memo
    BY <1>1 DEF Cancelled, SourceFails, Unwind, Undefined, TooDeep
  <2>2. Failing'
    BY <1>1, CancelledShape, SourceFailsShape, UnwindShape, UndefinedShape, TooDeepShape
  <2> QED
    BY <2>1, <2>2, MemoMeansKept
<1>2. CASE \E k \in Keys : Reuse(k) \/ Enter(k)
  BY <1>2, ReuseSense, EnterSense
<1>3. CASE Stored \/ Expand \/ NextOperand \/ Decided \/ Answered
  BY <1>3, StoredSense, ExpandSense, NextOperandSense, DecidedSense, AnsweredSense
<1>4. CASE Settle \/ SkipMember \/ Reevaluate \/ Raise \/ EndRound
  BY <1>4, SettleSense, SkipMemberSense, ReevaluateSense, RaiseSense, EndRoundSense
<1>5. CASE Pop \/ Stay
  BY <1>5, PopSense, StaySense
<1> QED
  BY <1>1, <1>2, <1>3, <1>4, <1>5 DEF EvalNext

(* What a step that changes nothing keeps. *)
LEMMA StutterKeeps ==
  ASSUME UNCHANGED evalVars
  PROVE  /\ Reach => Reach'
         /\ MemoMeans => MemoMeans'
         /\ Sense => Sense'
<1>1. UNCHANGED <<asked, memo, index, lowlink, stack, depth, frames, next, proof>>
  BY DEF evalVars
<1>2. /\ \A c : LevelOf(c)' = LevelOf(c) /\ StageOf(c)' = StageOf(c)
      /\ \A c : Granted(c)' <=> Granted(c)
      /\ \A k : Said(k)' = Said(k)
      /\ \A c : ClaimOf(c)' = ClaimOf(c)
      /\ \A f : Awaits(f)' = Awaits(f)
      /\ \A k : IsDefined(k)' <=> IsDefined(k)
      /\ case' = case /\ meaning' = meaning
  BY <1>1, MeaningKept, AwaitsKept, CaseKept
<1>3. \A i : /\ Opens(i)' <=> Opens(i)
             /\ Visible(i)' = Visible(i)
  BY <1>1 DEF Opens, Visible
<1>4. \A i : Region(i)' = Region(i)
  BY <1>1, <1>3 DEF Region
<1>5. \A i : ClaimAt(i)' = ClaimAt(i)
  BY <1>1, <1>2 DEF ClaimAt
<1>6. \A i, q : Under(q, i)' <=> Under(q, i)
  BY <1>1, <1>3 DEF Under
<1>7. \A i : \A k : Noted(i, k)' <=> Noted(i, k)
  BY <1>1, <1>3 DEF Noted
<1>8. \A i : Excuses(i)' = Excuses(i)
  BY <1>2, <1>3, <1>7 DEF Excuses
<1>9. \A i : Fresh(i)' = Fresh(i)
  BY <1>1, <1>6 DEF Fresh, LastMember
<1>10. \A i : Usable(i)' = Usable(i)
  BY <1>8, <1>9 DEF Usable
<1>11. Untrue' = Untrue
  BY <1>1 DEF Untrue
<1>12. MemoMeans => MemoMeans'
  BY <1>1, MemoMeansKept
<1>13. Reach => Reach'
  <2>1. \A i, v : Reaches(i, v) => Reaches(i, v)'
    BY <1>1, <1>2, <1>5, <1>6 DEF Reaches
  <2>2. Levels => Levels'
    BY <1>1, <1>2, <1>3, <1>4, <1>5 DEF Levels
  <2> QED
    BY <1>1, <1>3, <2>1, <2>2 DEF Reach
<1>14. ASSUME NEW i, FrameMeans(i) PROVE FrameMeans(i)'
  <2>1. frames'[i] = frames[i] /\ Excuses(i) \subseteq Excuses(i)' /\ Usable(i) \subseteq Usable(i)'
    BY <1>1, <1>8, <1>10
  <2>2. \A p : stack'[p] = stack[p] /\ (stack[p] \in Untrue' => stack[p] \in Untrue)
    BY <1>1, <1>11
  <2>3. \A k \in Region(i)' : memo'[k].state = "false" => k \in Region(i) /\ memo[k].state = "false"
    BY <1>1, <1>4
  <2> QED
    BY <1>1, <1>14, <2>1, <2>2, <2>3, FrameKept
<1>15. ComputingOpen => ComputingOpen'
  BY <1>1 DEF ComputingOpen
<1>16. BackMeans => BackMeans'
  BY <1>1, <1>2, <1>3, <1>10 DEF BackMeans
<1>17. TestMeans => TestMeans'
  BY <1>1, <1>2, <1>4, <1>5, <1>8, <1>11 DEF TestMeans, Excused
<1> QED
  BY <1>1, <1>12, <1>13, <1>14, <1>15, <1>16, <1>17 DEF Sense

(* A Check begins with nothing answered. *)
LEMMA InitInv == EvalInit => IInv
<1> SUFFICES ASSUME EvalInit PROVE IInv
  OBVIOUS
<1>1. Facts /\ Shape /\ ~Failing
  BY InitShape
<1>2. /\ memo = [k \in Keys |-> Unseen] /\ frames = <<>> /\ next = Relation(case.key)
      /\ DOMAIN frames = {} /\ Len(frames) = 0
  BY DEF EvalInit
<1>3. next.go = "relation"
  BY <1>2 DEF Relation
<1>4. Reach
  <2>1. Reaches(Len(frames), lowlink)
    BY <1>2 DEF Reaches
  <2> QED
    BY <1>2, <2>1 DEF Reach, Levels
<1>5. MemoMeans /\ ComputingOpen
  BY <1>2 DEF MemoMeans, ComputingOpen, Unseen
<1>6. BackMeans /\ TestMeans
  BY <1>3 DEF BackMeans, TestMeans
<1> QED
  BY <1>1, <1>2, <1>4, <1>5, <1>6 DEF IInv, ShapeInv, ReachInv, SenseInv, Sense

(* The invariant is inductive.                                             *)
LEMMA InvKept == IInv /\ [EvalNext]_evalVars => IInv'
<1> SUFFICES ASSUME IInv, [EvalNext]_evalVars PROVE IInv'
  OBVIOUS
<1>1. ShapeInv'
  BY ShapeKept DEF IInv
<1>2. Facts /\ MemoMeans
  BY DEF IInv, ShapeInv, SenseInv
<1>3. CASE Failing
  <2>1. Failing'
    BY <1>2, <1>3, FailingStep
  <2>2. MemoMeans'
    <3>1. next.go = "back" /\ next.failed
      BY <1>3 DEF Failing
    <3>2. ~Cancelled /\ \A k \in Keys : ~(Undefined(k) \/ Reuse(k) \/ TooDeep(k) \/ Enter(k))
      BY <3>1 DEF Cancelled, Undefined, Reuse, TooDeep, Enter, Calling
    <3>3. ~(SourceFails \/ Stored \/ Expand \/ NextOperand \/ Decided \/ Answered)
      BY <3>1 DEF SourceFails, Stored, Expand, NextOperand, Decided, Answered, Rewriting, Returned
    <3>4. ~(Settle \/ SkipMember \/ Reevaluate \/ Raise \/ EndRound \/ Pop \/ Stay)
      BY <3>1 DEF Settle, SkipMember, Reevaluate, Raise, EndRound, Pop, Stay, AtTurn, Returned
    <3>5. Unwind \/ UNCHANGED evalVars
      BY <3>2, <3>3, <3>4 DEF EvalNext
    <3>6. asked' = asked /\ memo' = memo
      BY <3>5 DEF Unwind, evalVars
    <3> QED
      BY <1>2, <3>6, MemoMeansKept
  <2> QED
    BY <1>1, <2>1, <2>2 DEF IInv, ReachInv, SenseInv
<1>4. CASE ~Failing
  <2>1. Shape /\ Reach /\ Sense
    BY <1>4 DEF IInv, ShapeInv, ReachInv, SenseInv
  <2>2. CASE EvalNext
    <3>1. Failing' \/ Reach'
      BY <1>2, <2>1, <2>2, ReachStep
    <3>2. MemoMeans' /\ (Failing' \/ Sense')
      BY <1>2, <2>1, <2>2, SenseStep
    <3> QED
      BY <1>1, <3>1, <3>2 DEF IInv, ReachInv, SenseInv
  <2>3. CASE UNCHANGED evalVars
    <3>1. Reach' /\ MemoMeans' /\ Sense'
      BY <1>2, <2>1, <2>3, StutterKeeps
    <3> QED
      BY <1>1, <3>1 DEF IInv, ReachInv, SenseInv
  <2> QED
    BY <2>2, <2>3
<1> QED
  BY <1>3, <1>4

(* A Check never leaves its invariant, whatever the schema and the tuples. *)
THEOREM CheckIsInvariant == EvalSpec => []IInv
<1>1. EvalInit => IInv
  BY InitInv
<1>2. IInv /\ [EvalNext]_evalVars => IInv'
  BY InvKept
<1> QED
  BY <1>1, <1>2, PTL DEF EvalSpec

(* EvalTypeOK: the variables keep their types, and depth counts the        *)
(* relations under way, which WithMaxDepth bounds.                         *)
THEOREM CheckIsTyped == EvalSpec => []EvalTypeOK
<1>1. IInv => EvalTypeOK
  <2> SUFFICES ASSUME IInv PROVE EvalTypeOK
    OBVIOUS
  <2>1. Typed /\ DepthOK
    BY DEF IInv, ShapeInv, Facts
  <2>2. next.go \in {"relation", "rewrite", "back", "test", "turn"}
    BY <2>1, NextTypes
  <2> QED
    BY <2>1, <2>2 DEF Typed, DepthOK, EvalTypeOK, Memos
<1> QED
  BY <1>1, CheckIsInvariant, PTL

(* StackInOrder: Tarjan's stack holds the open keys in the order in which  *)
(* they were entered, so a component is the slice from its root up.        *)
THEOREM StackStaysInOrder == EvalSpec => []StackInOrder
<1>1. IInv => StackInOrder
  BY DEF IInv, ShapeInv, Facts
<1> QED
  BY <1>1, CheckIsInvariant, PTL

(* What Truth says of a key that was evaluated.                            *)
LEMMA TruthIsGranted ==
  ASSUME NEW k \in Keys, IsDefined(k), Said(k) \in DOMAIN meaning
  PROVE  k \in Truth <=> Granted(Said(k))
BY DEF Truth, Said, Granted

(* NothingInvented: no answer true, however early it was taken from inside *)
(* a cycle and whatever failed since, is above what the tuples grant.      *)
THEOREM CheckInventsNothing == EvalSpec => []NothingInvented
<1>1. IInv => NothingInvented
  <2> SUFFICES ASSUME IInv, NEW k \in Keys, memo[k].state = "true"
               PROVE  k \in Truth
    BY DEF NothingInvented
  <2>1. MemoKnown /\ MemoMeans
    BY DEF IInv, ShapeInv, Facts, SenseInv
  <2>2. Granted(Said(k))
    BY <2>1 DEF MemoMeans
  <2>3. IsDefined(k) /\ Said(k) \in DOMAIN meaning
    BY <2>1 DEF MemoKnown
  <2> QED
    BY <2>2, <2>3, TruthIsGranted
<1> QED
  BY <1>1, CheckIsInvariant, PTL

(* PoppedIsFinal: an answer false of a key that is off Tarjan's stack is   *)
(* what the tuples say, so it may be reused for the rest of the Check.     *)
THEOREM PoppedStaysFinal == EvalSpec => []PoppedIsFinal
<1>1. IInv => PoppedIsFinal
  <2> SUFFICES ASSUME IInv, NEW k \in Keys, memo[k].state = "false", memo[k].index = 0
               PROVE  k \notin Truth
    BY DEF PoppedIsFinal
  <2>1. MemoKnown /\ MemoMeans
    BY DEF IInv, ShapeInv, Facts, SenseInv
  <2>2. ~Granted(Said(k))
    BY <2>1 DEF MemoMeans
  <2>3. IsDefined(k) /\ Said(k) \in DOMAIN meaning
    BY <2>1 DEF MemoKnown
  <2> QED
    BY <2>2, <2>3, TruthIsGranted
<1> QED
  BY <1>1, CheckIsInvariant, PTL

(* CheckAgrees: what a Check answers is what the schema and the tuples     *)
(* mean, in whatever order the source yields and however the relations     *)
(* depend on one another; and it fails only for a cause.                   *)
THEOREM CheckIsRight == EvalSpec => []CheckAgrees
<1>1. IInv => CheckAgrees
  <2> SUFFICES ASSUME IInv, next.go = "back", frames = <<>>
               PROVE  IF next.failed
                      THEN \/ case.mayFail \/ ~IsDefined(case.key)
                           \/ case.maxDepth < Cardinality(Keys)
                      ELSE next.allowed <=> case.key \in Truth
    BY DEF CheckAgrees, Finished
  <2>1. CASE next.failed
    <3>1. FailedForCause /\ Failing
      BY <2>1 DEF IInv, ShapeInv, Facts, Failing
    <3> QED
      BY <2>1, <3>1 DEF FailedForCause
  <2>2. CASE ~next.failed
    <3>1. BackMeans /\ asked \in DOMAIN Cases
      BY <2>2 DEF IInv, ShapeInv, Facts, Typed, SenseInv, Failing, Sense
    <3>2. /\ IsDefined(case.key) /\ Said(case.key) \in DOMAIN meaning
          /\ next.allowed <=> Granted(Said(case.key))
      BY <3>1 DEF BackMeans
    <3>3. case.key \in Keys
      BY <3>1, CaseFacts
    <3> QED
      BY <2>2, <3>2, <3>3, TruthIsGranted
  <2> QED
    BY <2>1, <2>2
<1> QED
  BY <1>1, CheckIsInvariant, PTL

=============================================================================
