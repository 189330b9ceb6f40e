--------------------------- MODULE ReplicaProofs ----------------------------
(***************************************************************************)
(* What the in-memory store is built of, for lists, names and tuples of    *)
(* any size: the order of its lists and the binary search in them,         *)
(* mergeSorted, mergeKey and the entries that changes land in, interning.  *)
(*                                                                         *)
(* Three of these are functions defined from themselves.  That there is    *)
(* such a function is proved first (Recursion), from a rank that goes down *)
(* with each step: what is still to be merged, searched or interned.       *)
(***************************************************************************)
EXTENDS MemStoreProps, FiniteSetTheorems, WellFoundedInduction, TLAPS

(* Natural numbers have a least one. *)
LEMMA LeastNat ==
  ASSUME NEW T, T \subseteq Nat, T # {}
  PROVE  \E m \in T : \A t \in T : m <= t
<1>1. PICK m \in T : \A t \in T : ~(<<t, m>> \in OpToRel(<, Nat))
  BY NatLessThanWellFounded, WFMin, Zenon
<1>2. ASSUME NEW t \in T
      PROVE  m <= t
  <2>1. t < m => <<t, m>> \in OpToRel(<, Nat)
    BY DEF OpToRel
  <2>2. ~(t < m)
    BY <1>1, <2>1, Zenon
  <2> QED
    BY <2>2
<1> QED
  BY <1>1, <1>2

(* What B makes of a function at p is up to places of lower rank. *)
Grounded(P, V, rank, B) ==
  \A p \in P : \A f, g \in [P -> V] :
    (\A q \in P : rank[q] < rank[p] => f[q] = g[q]) => B[p][f] = B[p][g]

(* Some function does at every place what B makes of it. *)
Recurs(P, V, B) == \E f \in [P -> V] : \A p \in P : f[p] = B[p][f]

(* A function may be defined from what it is at places of lower rank. *)
LEMMA Recursion ==
  ASSUME NEW P, NEW V, V # {}, NEW N \in Nat, NEW rank \in [P -> 0..N],
         NEW B \in [P -> [[P -> V] -> V]], Grounded(P, V, rank, B)
  PROVE  Recurs(P, V, B)
<1> DEFINE Upto(n) == {f \in [P -> V] : \A p \in P : rank[p] < n => f[p] = B[p][f]}
           Bad == {n \in Nat : Upto(n) = {}}
<1>1. \A p \in P : rank[p] \in Nat /\ rank[p] <= N
  OBVIOUS
<1>2. Bad = {}
  <2>1. SUFFICES ASSUME Bad # {}
                 PROVE  FALSE
    OBVIOUS
  <2>2. PICK m \in Bad : \A n \in Bad : m <= n
    <3> HIDE DEF Upto
    <3> QED
      BY <2>1, LeastNat
  <2>3. m \in Nat
    OBVIOUS
  <2>4. m # 0
    <3>1. PICK v \in V : TRUE
      OBVIOUS
    <3>2. [p \in P |-> v] \in [P -> V]
      OBVIOUS
    <3>3. \A p \in P : ~(rank[p] < 0)
      BY <1>1
    <3>4. Upto(0) # {}
      BY <3>2, <3>3, Zenon
    <3> QED
      BY <3>4
  <2>5. m - 1 \in Nat /\ ~(m <= m - 1)
    BY <2>3, <2>4
  <2>6. Upto(m - 1) # {}
    <3>1. m - 1 \notin Bad
      BY <2>2, <2>5, Zenon
    <3> QED
      BY <2>5, <3>1, Zenon
  <2>7. PICK f \in [P -> V] : \A p \in P : rank[p] < m - 1 => f[p] = B[p][f]
    BY <2>6, Zenon
  <2> DEFINE g == [p \in P |-> IF rank[p] = m - 1 THEN B[p][f] ELSE f[p]]
  <2>8. g \in [P -> V]
    OBVIOUS
  <2>9. ASSUME NEW p \in P, rank[p] < m
        PROVE  g[p] = B[p][g]
    <3>1. \A q \in P : rank[q] < rank[p] => rank[q] # m - 1
      BY <1>1, <2>3, <2>9
    <3>2. \A q \in P : rank[q] < rank[p] => g[q] = f[q]
      BY <3>1
    <3>3. g[p] = IF rank[p] = m - 1 THEN B[p][f] ELSE f[p]
      OBVIOUS
    <3> HIDE DEF g, Upto, Bad
    <3>4. rank[p] = m - 1 \/ rank[p] < m - 1
      <4>1. rank[p] \in Nat
        BY <1>1
      <4>2. \A x, y \in Nat : x < y => x = y - 1 \/ x < y - 1
        OBVIOUS
      <4> QED
        BY <2>3, <2>9, <4>1, <4>2, Zenon
    <3>5. B[p][g] = B[p][f]
      BY <2>8, <3>2, Zenon DEF Grounded
    <3> QED
      BY <2>7, <3>3, <3>4, <3>5
  <2>10. Upto(m) # {}
    BY <2>8, <2>9, Zenon
  <2> QED
    BY <2>10
<1>3. Upto(N + 1) # {}
  <2>1. N + 1 \in Nat
    OBVIOUS
  <2> QED
    BY <1>2, <2>1, Zenon
<1>4. PICK f \in [P -> V] : \A p \in P : rank[p] < N + 1 => f[p] = B[p][f]
  BY <1>3, Zenon
<1>5. \A p \in P : rank[p] < N + 1
  BY <1>1
<1> QED
  BY <1>4, <1>5, Zenon DEF Recurs

-----------------------------------------------------------------------------
(* The order of the lists. *)

(* Less is a strict order of S, any two of which compare. *)
Ordered(S) ==
  /\ \A x \in S : ~Less(x, x)
  /\ \A x, y \in S : Less(x, y) \/ x = y \/ Less(y, x)
  /\ \A x, y, z \in S : Less(x, y) /\ Less(y, z) => Less(x, z)

(* What the three lists of an entry list, as their ids. *)
ObjectCells   == Nat \X Nat
UsersetCells  == Nat \X Nat \X Nat
WildcardCells == {<<n>> : n \in Nat}

(* Each kind of cell is ordered. *)
LEMMA CellsOrdered ==
  Ordered(ObjectCells) /\ Ordered(UsersetCells) /\ Ordered(WildcardCells)
<1>1. \A a, b \in ObjectCells : Less(a, b) <=> a[1] < b[1] \/ (a[1] = b[1] /\ a[2] < b[2])
  <2> TAKE a, b \in ObjectCells
  <2>1. DOMAIN a = {1, 2} /\ DOMAIN b = {1, 2}
    BY DEF ObjectCells
  <2> QED
    BY <2>1 DEF Less, ObjectCells
<1>2. \A a, b \in UsersetCells :
        Less(a, b) <=> \/ a[1] < b[1]
                       \/ a[1] = b[1] /\ a[2] < b[2]
                       \/ a[1] = b[1] /\ a[2] = b[2] /\ a[3] < b[3]
  <2> TAKE a, b \in UsersetCells
  <2>1. DOMAIN a = {1, 2, 3} /\ DOMAIN b = {1, 2, 3}
    BY DEF UsersetCells
  <2> QED
    BY <2>1 DEF Less, UsersetCells
<1>3. \A a, b \in WildcardCells : Less(a, b) <=> a[1] < b[1]
  <2> TAKE a, b \in WildcardCells
  <2>1. DOMAIN a = {1} /\ DOMAIN b = {1}
    BY DEF WildcardCells
  <2> QED
    BY <2>1 DEF Less, WildcardCells
<1>4. Ordered(ObjectCells)
  BY <1>1 DEF Ordered, ObjectCells
<1>5. Ordered(UsersetCells)
  BY <1>2 DEF Ordered, UsersetCells
<1>6. Ordered(WildcardCells)
  BY <1>3 DEF Ordered, WildcardCells
<1> QED
  BY <1>4, <1>5, <1>6

-----------------------------------------------------------------------------
(* Merging. *)

(* The place in drops to go on from, for every x. *)
LEMMA BehindIs ==
  ASSUME NEW S, NEW drops \in Seq(S), NEW d \in 1..(Len(drops) + 1), NEW x
  PROVE  \E n \in d..(Len(drops) + 1) :
           /\ n <= Len(drops) => ~Less(drops[n], x)
           /\ \A m \in d..(n - 1) : Less(drops[m], x)
<1> DEFINE D == {n \in d..(Len(drops) + 1) : n <= Len(drops) => ~Less(drops[n], x)}
<1>1. Len(drops) \in Nat
  OBVIOUS
<1>2. D \subseteq Nat /\ Len(drops) + 1 \in D
  BY <1>1
<1>3. PICK n \in D : \A t \in D : n <= t
  BY <1>2, LeastNat
<1>4. ASSUME NEW m \in d..(n - 1)
      PROVE  Less(drops[m], x)
  BY <1>1, <1>3
<1> QED
  BY <1>3, <1>4

(* What mergeSorted is given: three lists in one order. *)
MergeLists(S, base, adds, drops) ==
  /\ Ordered(S)
  /\ base \in Seq(S) /\ adds \in Seq(S) /\ drops \in Seq(S)
  /\ Ascending(base) /\ Ascending(adds) /\ Ascending(drops)

(* Where its three indexes may stand. *)
MergePlaces(base, adds, drops) ==
  (1..(Len(base) + 1)) \X (1..(Len(adds) + 1)) \X (1..(Len(drops) + 1))

(* Where drops goes on once x has been met. *)
BehindDrops(drops, d, x) ==
  CHOOSE n \in d..(Len(drops) + 1) :
    /\ n <= Len(drops) => ~Less(drops[n], x)
    /\ \A m \in d..(n - 1) : Less(drops[m], x)

(* What is taken next, and where the indexes go from there. *)
FromBase(base, adds, at) ==
  at[1] <= Len(base) /\ (at[2] <= Len(adds) => ~Less(adds[at[2]], base[at[1]]))
FromAdds(base, adds, at) ==
  at[2] <= Len(adds) /\ (at[1] <= Len(base) => ~Less(base[at[1]], adds[at[2]]))
NextOf(base, adds, at) ==
  IF FromBase(base, adds, at) THEN base[at[1]] ELSE adds[at[2]]
NextAt(base, adds, drops, at) ==
  <<IF FromBase(base, adds, at) THEN at[1] + 1 ELSE at[1],
    IF FromAdds(base, adds, at) THEN at[2] + 1 ELSE at[2],
    BehindDrops(drops, at[3], NextOf(base, adds, at))>>
MergeEnds(base, adds, at) == ~(at[1] <= Len(base)) /\ ~(at[2] <= Len(adds))

(* What is out from at on, when rest is from the next place on. *)
MergeStep(base, adds, drops, at, rest) ==
  LET x == NextOf(base, adds, at)
      n == BehindDrops(drops, at[3], x)
  IN  IF MergeEnds(base, adds, at) THEN <<>>
      ELSE IF n <= Len(drops) /\ drops[n] = x THEN rest
      ELSE <<x>> \o rest

(* mergeSorted's walk, as one step after another. *)
MergeWalk(base, adds, drops) ==
  CHOOSE out : out =
    [at \in MergePlaces(base, adds, drops) |->
       MergeStep(base, adds, drops, at, out[NextAt(base, adds, drops, at)])]

(* mergeSorted is that walk from the start, but where there is nothing to  *)
(* merge.                                                                  *)
LEMMA MergeIsWalk ==
  ASSUME NEW base, NEW adds, NEW drops, ~(adds = <<>> /\ drops = <<>>)
  PROVE  mergeSorted(base, adds, drops) = MergeWalk(base, adds, drops)[<<1, 1, 1>>]
BY Zenon DEF mergeSorted, MergeWalk, MergePlaces, MergeStep, MergeEnds, NextAt, NextOf,
   FromBase, FromAdds, BehindDrops

(* What is still to be merged from at on. *)
Remaining(base, adds, at) ==
  {base[i] : i \in at[1]..Len(base)} \cup {adds[j] : j \in at[2]..Len(adds)}

(* A step takes the least of what remains, and drops has left all that is  *)
(* lower behind.                                                           *)
LEMMA MergeNext ==
  ASSUME NEW S, NEW base, NEW adds, NEW drops, MergeLists(S, base, adds, drops),
         NEW at \in MergePlaces(base, adds, drops), ~MergeEnds(base, adds, at),
         NEW x, x = NextOf(base, adds, at),
         NEW next, next = NextAt(base, adds, drops, at)
  PROVE  /\ x \in S /\ next \in MergePlaces(base, adds, drops)
         /\ next[1] + next[2] > at[1] + at[2]
         /\ next[3] \in at[3]..(Len(drops) + 1)
         /\ next[3] <= Len(drops) => ~Less(drops[next[3]], x)
         /\ \A m \in at[3]..(next[3] - 1) : Less(drops[m], x)
         /\ Remaining(base, adds, at) = {x} \cup Remaining(base, adds, next)
         /\ \A y \in Remaining(base, adds, next) : Less(x, y)
<1> DEFINE i == at[1]
           j == at[2]
<1>1. /\ i \in 1..(Len(base) + 1) /\ j \in 1..(Len(adds) + 1) /\ at[3] \in 1..(Len(drops) + 1)
      /\ Len(base) \in Nat /\ Len(adds) \in Nat /\ Len(drops) \in Nat
  BY DEF MergePlaces, MergeLists
<1>2. /\ \A n \in 1..Len(base) : base[n] \in S
      /\ \A n \in 1..Len(adds) : adds[n] \in S
      /\ \A m, n \in 1..Len(base) : m < n => Less(base[m], base[n])
      /\ \A m, n \in 1..Len(adds) : m < n => Less(adds[m], adds[n])
  BY DEF MergeLists, Ascending
<1>3. \E n \in at[3]..(Len(drops) + 1) :
        /\ n <= Len(drops) => ~Less(drops[n], x)
        /\ \A m \in at[3]..(n - 1) : Less(drops[m], x)
  BY <1>1, BehindIs DEF MergeLists
<1> DEFINE n == BehindDrops(drops, at[3], x)
<1>4. /\ n \in at[3]..(Len(drops) + 1)
      /\ n <= Len(drops) => ~Less(drops[n], x)
      /\ \A m \in at[3]..(n - 1) : Less(drops[m], x)
  <2> HIDE <1>1
  <2> QED
    BY <1>3, Zenon DEF BehindDrops
<1> DEFINE b == FromBase(base, adds, at)
           a == FromAdds(base, adds, at)
<1>5. /\ b <=> i <= Len(base) /\ (j <= Len(adds) => ~Less(adds[j], base[i]))
      /\ a <=> j <= Len(adds) /\ (i <= Len(base) => ~Less(base[i], adds[j]))
      /\ i <= Len(base) \/ j <= Len(adds)
      /\ x = IF b THEN base[i] ELSE adds[j]
  BY DEF FromBase, FromAdds, NextOf, MergeEnds
<1>6. next = <<IF b THEN i + 1 ELSE i, IF a THEN j + 1 ELSE j, n>>
  BY DEF NextAt
<1> HIDE DEF i, j, a, b, n
<1>7. i <= Len(base) => i \in 1..Len(base) /\ base[i] \in S
  BY <1>1, <1>2
<1>8. j <= Len(adds) => j \in 1..Len(adds) /\ adds[j] \in S
  BY <1>1, <1>2
<1>9. /\ a \/ b
      /\ a /\ b => x = base[i] /\ x = adds[j] /\ i <= Len(base) /\ j <= Len(adds)
      /\ a /\ ~b => x = adds[j] /\ j <= Len(adds) /\ (i <= Len(base) => Less(x, base[i]))
      /\ b /\ ~a => x = base[i] /\ i <= Len(base) /\ (j <= Len(adds) => Less(x, adds[j]))
  BY <1>5, <1>7, <1>8 DEF MergeLists, Ordered
<1>10. x \in S
  BY <1>7, <1>8, <1>9
<1>11. next[1] = (IF b THEN i + 1 ELSE i) /\ next[2] = (IF a THEN j + 1 ELSE j) /\ next[3] = n
  BY <1>6
<1>12. /\ next[1] \in 1..(Len(base) + 1) /\ next[2] \in 1..(Len(adds) + 1)
       /\ next[3] \in 1..(Len(drops) + 1)
       /\ next[1] + next[2] > i + j
  <2>1. next[1] \in 1..(Len(base) + 1)
    BY <1>1, <1>9, <1>11
  <2>2. next[2] \in 1..(Len(adds) + 1)
    BY <1>1, <1>9, <1>11
  <2>3. next[3] \in 1..(Len(drops) + 1)
    BY <1>1, <1>4, <1>11
  <2>4. next[1] + next[2] > i + j
    BY <1>1, <1>9, <1>11
  <2> QED
    BY <2>1, <2>2, <2>3, <2>4
<1>13. next \in MergePlaces(base, adds, drops)
  BY <1>6, <1>11, <1>12 DEF MergePlaces
<1> DEFINE R(p, q) == {base[m] : m \in p..Len(base)} \cup {adds[m] : m \in q..Len(adds)}
<1>14. i <= Len(base) => {base[m] : m \in i..Len(base)} = {base[i]} \cup {base[m] : m \in (i + 1)..Len(base)}
  <2>1. i <= Len(base) => i..Len(base) = {i} \cup (i + 1)..Len(base)
    BY <1>1
  <2> QED
    BY <2>1, Zenon
<1>15. j <= Len(adds) => {adds[m] : m \in j..Len(adds)} = {adds[j]} \cup {adds[m] : m \in (j + 1)..Len(adds)}
  <2>1. j <= Len(adds) => j..Len(adds) = {j} \cup (j + 1)..Len(adds)
    BY <1>1
  <2> QED
    BY <2>1, Zenon
<1>16. R(i, j) = {x} \cup R(next[1], next[2])
  BY <1>9, <1>11, <1>14, <1>15
<1>17. \A m \in next[1]..Len(base) : Less(x, base[m])
  <2> TAKE m \in next[1]..Len(base)
  <2>0. m \in 1..Len(base) /\ i \in 1..Len(base) /\ base[m] \in S /\ base[i] \in S
    BY <1>1, <1>2, <1>11, <1>12
  <2>1. CASE b
    <3>1. i < m /\ x = base[i]
      BY <1>1, <1>5, <1>11, <2>1
    <3> QED
      BY <1>2, <2>0, <3>1
  <2>2. CASE ~b
    <3>1. Less(x, base[i])
      BY <1>9, <2>0, <2>2
    <3>2. i = m \/ i < m
      BY <1>1, <1>11, <2>2
    <3>3. i < m => Less(base[i], base[m])
      BY <1>2, <2>0
    <3> QED
      BY <1>10, <2>0, <3>1, <3>2, <3>3 DEF MergeLists, Ordered
  <2> QED
    BY <2>1, <2>2
<1>18. \A m \in next[2]..Len(adds) : Less(x, adds[m])
  <2> TAKE m \in next[2]..Len(adds)
  <2>0. m \in 1..Len(adds) /\ j \in 1..Len(adds) /\ adds[m] \in S /\ adds[j] \in S
    BY <1>1, <1>2, <1>11, <1>12
  <2>1. CASE a
    <3>1. j < m /\ x = adds[j]
      BY <1>1, <1>9, <1>11, <2>1
    <3> QED
      BY <1>2, <2>0, <3>1
  <2>2. CASE ~a
    <3>1. Less(x, adds[j])
      BY <1>9, <2>0, <2>2
    <3>2. j = m \/ j < m
      BY <1>1, <1>11, <2>2
    <3>3. j < m => Less(adds[j], adds[m])
      BY <1>2, <2>0
    <3> QED
      BY <1>10, <2>0, <3>1, <3>2, <3>3 DEF MergeLists, Ordered
  <2> QED
    BY <2>1, <2>2
<1>19. \A y \in R(next[1], next[2]) : Less(x, y)
  BY <1>17, <1>18
<1> QED
  BY <1>4, <1>10, <1>11, <1>12, <1>13, <1>16, <1>19 DEF Remaining, i, j

(* A lower element goes before an ascending list. *)
LEMMA Prepended ==
  ASSUME NEW S, NEW x \in S, NEW rest \in Seq(S)
  PROVE  /\ <<x>> \o rest \in Seq(S)
         /\ ToSet(<<x>> \o rest) = {x} \cup ToSet(rest)
         /\ Ascending(rest) /\ (\A y \in ToSet(rest) : Less(x, y)) => Ascending(<<x>> \o rest)
<1> DEFINE list == <<x>> \o rest
<1>1. /\ list \in Seq(S) /\ Len(list) = Len(rest) + 1 /\ Len(rest) \in Nat
      /\ list[1] = x /\ \A n \in 1..Len(rest) : list[n + 1] = rest[n]
  OBVIOUS
<1> HIDE DEF list
<1>2. DOMAIN list = 1..(Len(rest) + 1) /\ DOMAIN rest = 1..Len(rest)
  BY <1>1
<1>3. \A n \in DOMAIN list : n = 1 \/ (n - 1 \in DOMAIN rest /\ list[n] = rest[n - 1])
  <2> TAKE n \in DOMAIN list
  <2>1. n # 1 => n - 1 \in 1..Len(rest) /\ n - 1 + 1 = n
    BY <1>1, <1>2
  <2> QED
    BY <1>1, <1>2, <2>1
<1>4. 1 \in DOMAIN list /\ \A n \in DOMAIN rest : n + 1 \in DOMAIN list
  BY <1>1, <1>2
<1>5. ToSet(list) = {x} \cup ToSet(rest)
  <2>1. ASSUME NEW n \in DOMAIN list
        PROVE  list[n] = x \/ \E m \in DOMAIN rest : list[n] = rest[m]
    BY <1>1, <1>3
  <2>2. ASSUME NEW m \in DOMAIN rest
        PROVE  \E n \in DOMAIN list : rest[m] = list[n]
    BY <1>1, <1>2, <1>4
  <2>3. \E n \in DOMAIN list : list[n] = x
    BY <1>1, <1>4
  <2> QED
    BY <2>1, <2>2, <2>3 DEF ToSet
<1>6. ASSUME Ascending(rest), \A y \in ToSet(rest) : Less(x, y)
      PROVE  Ascending(list)
  <2>1. \A m \in DOMAIN rest : Less(x, rest[m])
    BY <1>6 DEF ToSet
  <2>2. ASSUME NEW i \in DOMAIN list, NEW j \in DOMAIN list, i < j
        PROVE  Less(list[i], list[j])
    <3>1. j # 1 /\ (i # 1 => i - 1 < j - 1)
      BY <1>1, <1>2, <2>2
    <3>2. j - 1 \in DOMAIN rest /\ list[j] = rest[j - 1]
      BY <1>3, <3>1
    <3>3. CASE i = 1
      BY <1>1, <2>1, <3>2, <3>3
    <3>4. CASE i # 1
      <4>1. i - 1 \in DOMAIN rest /\ list[i] = rest[i - 1]
        BY <1>3, <3>4
      <4> QED
        BY <1>6, <3>1, <3>2, <3>4, <4>1 DEF Ascending
    <3> QED
      BY <3>3, <3>4
  <2> QED
    BY <2>2 DEF Ascending
<1> QED
  BY <1>1, <1>5, <1>6 DEF list

(* A step makes a list of a list. *)
LEMMA MergeStepIs ==
  ASSUME NEW S, NEW base, NEW adds, NEW drops, NEW at, NEW rest,
         NextOf(base, adds, at) \in S, rest \in Seq(S)
  PROVE  MergeStep(base, adds, drops, at, rest) \in Seq(S)
<1>1. MergeStep(base, adds, drops, at, rest) \in {<<>>, rest, <<NextOf(base, adds, at)>> \o rest}
  BY DEF MergeStep
<1>2. <<NextOf(base, adds, at)>> \o rest \in Seq(S) /\ <<>> \in Seq(S)
  BY Prepended
<1> HIDE DEF MergeStep
<1> QED
  BY <1>1, <1>2

(* Past the end of both lists nothing is out. *)
LEMMA MergeStepEnds ==
  ASSUME NEW S, NEW base, NEW adds, NEW drops, NEW at, NEW rest, MergeEnds(base, adds, at)
  PROVE  MergeStep(base, adds, drops, at, rest) = <<>> /\ <<>> \in Seq(S)
BY DEF MergeStep

(* The walk goes where its steps say. *)
LEMMA MergeWalks ==
  ASSUME NEW S, NEW base, NEW adds, NEW drops, MergeLists(S, base, adds, drops)
  PROVE  LET out == MergeWalk(base, adds, drops)
         IN  \A at \in MergePlaces(base, adds, drops) :
               /\ out[at] \in Seq(S)
               /\ out[at] = MergeStep(base, adds, drops, at, out[NextAt(base, adds, drops, at)])
<1> DEFINE P == MergePlaces(base, adds, drops)
           p == Len(base) + 1
           q == Len(adds) + 1
           N == p + q
           rank == [at \in P |-> p - at[1] + (q - at[2])]
           Next(at) == NextAt(base, adds, drops, at)
           B == [at \in P |-> [f \in [P -> Seq(S)] |-> MergeStep(base, adds, drops, at, f[Next(at)])]]
<1>1. p \in Nat /\ q \in Nat
  BY DEF MergeLists
<1>2. \A at \in P : /\ at[1] \in 1..p /\ at[2] \in 1..q
                    /\ rank[at] = p - at[1] + (q - at[2])
  BY DEF MergePlaces
<1> HIDE DEF P, p, q
<1>3. rank \in [P -> 0..N] /\ N \in Nat
  <2>1. \A at \in P : p - at[1] + (q - at[2]) \in 0..N
    BY <1>1, <1>2
  <2> QED
    BY <1>1, <2>1
<1>4. ASSUME NEW at \in P, ~MergeEnds(base, adds, at)
      PROVE  /\ Next(at) \in P /\ rank[Next(at)] < rank[at]
             /\ NextOf(base, adds, at) \in S
  <2>1. Next(at) \in P /\ NextOf(base, adds, at) \in S /\ Next(at)[1] + Next(at)[2] > at[1] + at[2]
    BY <1>4, MergeNext DEF P
  <2>2. \A x \in P : rank[x] = p - x[1] + (q - x[2]) /\ x[1] \in Nat /\ x[2] \in Nat
    BY <1>1, <1>2
  <2> HIDE DEF rank, Next
  <2> QED
    BY <1>1, <2>1, <2>2
<1>5. ASSUME NEW at \in P, NEW f \in [P -> Seq(S)]
      PROVE  MergeStep(base, adds, drops, at, f[Next(at)]) \in Seq(S)
  <2>1. CASE MergeEnds(base, adds, at)
    BY <2>1, MergeStepEnds
  <2>2. CASE ~MergeEnds(base, adds, at)
    <3>1. f[Next(at)] \in Seq(S) /\ NextOf(base, adds, at) \in S
      BY <1>4, <2>2
    <3> HIDE DEF Next
    <3> QED
      BY <3>1, MergeStepIs
  <2> QED
    BY <2>1, <2>2
<1>6. B \in [P -> [[P -> Seq(S)] -> Seq(S)]]
  <2> HIDE DEF P, Next
  <2> QED
    BY <1>5
<1>7. \A at \in P : \A f \in [P -> Seq(S)] : B[at][f] = MergeStep(base, adds, drops, at, f[Next(at)])
  <2> HIDE DEF P, Next
  <2> QED
    OBVIOUS
<1>8. ASSUME NEW at \in P, NEW f \in [P -> Seq(S)], NEW g \in [P -> Seq(S)],
             \A o \in P : rank[o] < rank[at] => f[o] = g[o]
      PROVE  B[at][f] = B[at][g]
  <2> HIDE DEF P, Next, B, rank
  <2>1. CASE MergeEnds(base, adds, at)
    BY <1>7, <2>1 DEF MergeStep
  <2>2. CASE ~MergeEnds(base, adds, at)
    BY <1>4, <1>7, <1>8, <2>2
  <2> QED
    BY <2>1, <2>2
<1>9. <<>> \in Seq(S)
  OBVIOUS
<1>10. Recurs(P, Seq(S), B)
  <2> HIDE DEF P, Next, B, rank, N
  <2>1. Grounded(P, Seq(S), rank, B)
    BY <1>8, Zenon DEF Grounded
  <2>2. Seq(S) # {}
    BY <1>9, Zenon
  <2> QED
    BY <1>3, <1>6, <2>1, <2>2, Recursion, Zenon
<1>11. PICK f \in [P -> Seq(S)] : \A at \in P : f[at] = MergeStep(base, adds, drops, at, f[Next(at)])
  <2> HIDE DEF P, Next, B
  <2> QED
    BY <1>7, <1>10 DEF Recurs
<1>12. f = [at \in P |-> MergeStep(base, adds, drops, at, f[Next(at)])]
  <2> HIDE DEF P, Next, B
  <2> QED
    BY <1>11
<1> DEFINE out == MergeWalk(base, adds, drops)
<1>13. out = [at \in P |-> MergeStep(base, adds, drops, at, out[Next(at)])]
  BY <1>12, Zenon DEF MergeWalk, P
<1>14. \A at \in P : out[at] = MergeStep(base, adds, drops, at, out[Next(at)])
  <2> HIDE DEF P, Next, out
  <2> QED
    BY <1>13
<1> DEFINE Bad == {n \in Nat : \E at \in P : rank[at] = n /\ out[at] \notin Seq(S)}
<1>15. Bad = {}
  <2>1. SUFFICES ASSUME Bad # {} PROVE FALSE
    OBVIOUS
  <2> HIDE DEF P, Next, out, rank
  <2>2. PICK n \in Bad : \A m \in Bad : n <= m
    BY <2>1, LeastNat
  <2>3. PICK at \in P : rank[at] = n /\ out[at] \notin Seq(S)
    OBVIOUS
  <2>4. CASE MergeEnds(base, adds, at)
    <3>1. out[at] = <<>>
      BY <1>14, <2>4, MergeStepEnds
    <3> QED
      BY <2>3, <3>1, MergeStepEnds
  <2>5. CASE ~MergeEnds(base, adds, at)
    <3>1. Next(at) \in P /\ rank[Next(at)] < n /\ NextOf(base, adds, at) \in S
      BY <1>4, <2>3, <2>5
    <3>2. rank[Next(at)] \in Nat /\ ~(n <= rank[Next(at)])
      BY <1>3, <3>1
    <3>3. out[Next(at)] \in Seq(S)
      BY <2>2, <3>1, <3>2
    <3>4. out[at] \in Seq(S)
      BY <1>14, <3>1, <3>3, MergeStepIs
    <3> QED
      BY <2>3, <3>4
  <2> QED
    BY <2>4, <2>5
<1>16. \A at \in P : out[at] \in Seq(S)
  <2> HIDE DEF P, out, rank
  <2>1. \A at \in P : rank[at] \in Nat
    BY <1>3
  <2> QED
    BY <1>15, <2>1
<1> QED
  BY <1>14, <1>16 DEF P

(* mergeSorted: what base and adds hold and drops does not, in order. *)
LEMMA MergeIs ==
  ASSUME NEW S, NEW base, NEW adds, NEW drops, MergeLists(S, base, adds, drops)
  PROVE  LET list == mergeSorted(base, adds, drops)
         IN  /\ list \in Seq(S) /\ Ascending(list)
             /\ ToSet(list) = (ToSet(base) \cup ToSet(adds)) \ ToSet(drops)
<1> DEFINE P == MergePlaces(base, adds, drops)
           p == Len(base) + 1
           q == Len(adds) + 1
           rank(at) == p - at[1] + (q - at[2])
           out == MergeWalk(base, adds, drops)
           R(at) == Remaining(base, adds, at)
           Apart(at) == \A d \in 1..(at[3] - 1) : \A y \in R(at) : Less(drops[d], y)
           Right(at) == /\ Ascending(out[at])
                        /\ ToSet(out[at]) = R(at) \ ToSet(drops)
           Bad == {n \in Nat : \E at \in P : rank(at) = n /\ Apart(at) /\ ~Right(at)}
<1>1. p \in Nat /\ q \in Nat /\ Len(base) \in Nat /\ Len(adds) \in Nat /\ Len(drops) \in Nat
  BY DEF MergeLists
<1>2. \A at \in P : /\ at[1] \in 1..p /\ at[2] \in 1..q /\ at[3] \in 1..(Len(drops) + 1)
                    /\ rank(at) \in Nat
  <2>1. \A at \in P : at[1] \in 1..p /\ at[2] \in 1..q /\ at[3] \in 1..(Len(drops) + 1)
    BY DEF MergePlaces
  <2> HIDE DEF P, p, q
  <2>2. \A k \in 1..p, l \in 1..q : p - k + (q - l) \in Nat
    BY <1>1
  <2> QED
    BY ONLY <2>1, <2>2
<1>0. ASSUME NEW at \in P, NEW next \in P, next[1] + next[2] > at[1] + at[2]
      PROVE  rank(next) < rank(at)
  <2>1. at[1] \in 1..p /\ at[2] \in 1..q /\ next[1] \in 1..p /\ next[2] \in 1..q
    BY <1>2
  <2> HIDE DEF P, p, q
  <2>2. \A k, l, m, n \in Nat : k + l > m + n => p - k + (q - l) < p - m + (q - n)
    BY <1>1
  <2>3. at[1] \in Nat /\ at[2] \in Nat /\ next[1] \in Nat /\ next[2] \in Nat
    BY <1>1, <2>1
  <2> QED
    BY <1>0, <2>2, <2>3
<1>3. \A at \in P : /\ out[at] \in Seq(S)
                    /\ out[at] = MergeStep(base, adds, drops, at, out[NextAt(base, adds, drops, at)])
  BY MergeWalks
<1>4. ToSet(drops) = {drops[d] : d \in 1..Len(drops)} /\ \A d \in 1..Len(drops) : drops[d] \in S
  BY DEF ToSet, MergeLists
<1>5. ASSUME NEW at \in P, Apart(at), ~MergeEnds(base, adds, at),
             NEW x, x = NextOf(base, adds, at),
             NEW next, next = NextAt(base, adds, drops, at),
             next \in P /\ Apart(next) => Right(next)
      PROVE  Right(at)
  <2>1. /\ x \in S /\ next \in P
        /\ next[3] \in at[3]..(Len(drops) + 1)
        /\ next[3] <= Len(drops) => ~Less(drops[next[3]], x)
        /\ \A m \in at[3]..(next[3] - 1) : Less(drops[m], x)
        /\ R(at) = {x} \cup R(next)
        /\ \A y \in R(next) : Less(x, y)
    BY <1>5, MergeNext
  <2>2. R(next) \subseteq S
    <3>1. next[1] \in 1..p /\ next[2] \in 1..q
      BY <1>2, <2>1
    <3>2. next[1]..Len(base) \subseteq 1..Len(base) /\ next[2]..Len(adds) \subseteq 1..Len(adds)
      BY <1>1, <3>1
    <3> QED
      BY <3>2 DEF Remaining, MergeLists
  <2> DEFINE n == next[3]
  <2>3. n \in Nat /\ at[3] \in Nat /\ at[3] >= 1 /\ at[3] <= n /\ n <= Len(drops) + 1
    BY <1>1, <1>2, <2>1
  <2> HIDE DEF n, p, q
  <2>4. \A d \in 1..(n - 1) : d \in 1..Len(drops) /\ (d \in 1..(at[3] - 1) \/ d \in at[3]..(n - 1))
    BY <1>1, <2>3
  <2>5. \A d \in 1..(n - 1) : Less(drops[d], x)
    BY <1>5, <2>1, <2>4 DEF n
  <2>6. Apart(next)
    <3> SUFFICES ASSUME NEW d \in 1..(n - 1), NEW y \in R(next)
                 PROVE  Less(drops[d], y)
      BY DEF n
    <3>1. drops[d] \in S /\ Less(drops[d], x) /\ Less(x, y) /\ y \in S
      BY <1>4, <2>1, <2>2, <2>4, <2>5
    <3> QED
      BY <2>1, <3>1 DEF MergeLists, Ordered
  <2>7. Right(next)
    BY <1>5, <2>1, <2>6
  <2>8. x \notin R(next)
    BY <2>1 DEF MergeLists, Ordered
  <2> DEFINE hit == n <= Len(drops) /\ drops[n] = x
  <2>9. CASE hit
    <3>1. out[at] = out[next]
      BY <1>3, <1>5, <2>9 DEF MergeStep, NextAt, n
    <3>2. x \in ToSet(drops)
      BY <1>4, <2>3, <2>9
    <3> QED
      BY <2>1, <2>7, <3>1, <3>2
  <2>10. CASE ~hit
    <3>1. out[at] = <<x>> \o out[next]
      BY <1>3, <1>5, <2>10 DEF MergeStep, NextAt, n
    <3>2. ASSUME NEW d \in 1..Len(drops)
          PROVE  drops[d] # x
      <4>1. CASE d \in 1..(n - 1)
        BY <2>1, <2>5, <4>1 DEF MergeLists, Ordered
      <4>2. CASE d = n
        BY <2>10, <4>2
      <4>3. CASE d > n
        <5>1. n \in 1..Len(drops)
          BY <1>1, <2>3, <4>3
        <5>2. Less(drops[n], drops[d]) /\ drops[n] \in S /\ drops[d] \in S
          BY <1>4, <4>3, <5>1 DEF MergeLists, Ascending
        <5>3. ~Less(drops[n], x)
          BY <2>1, <5>1 DEF n
        <5> QED
          BY <5>2, <5>3
      <4> QED
        BY <2>3, <4>1, <4>2, <4>3
    <3>3. x \notin ToSet(drops)
      BY <1>4, <3>2
    <3>4. \A y \in ToSet(out[next]) : Less(x, y)
      BY <2>1, <2>7
    <3>5. out[next] \in Seq(S)
      BY <1>3, <2>1
    <3>6. ToSet(out[at]) = {x} \cup ToSet(out[next]) /\ Ascending(out[at])
      BY <2>1, <2>7, <3>1, <3>4, <3>5, Prepended
    <3> QED
      BY <2>1, <2>7, <3>3, <3>6
  <2> QED
    BY <2>9, <2>10
<1>6. ASSUME NEW at \in P, MergeEnds(base, adds, at)
      PROVE  Right(at)
  <2>1. out[at] = <<>>
    BY <1>3, <1>6, MergeStepEnds
  <2>2. R(at) = {}
    <3>1. at[1] \in Nat /\ at[2] \in Nat
      BY <1>2
    <3>2. at[1]..Len(base) = {} /\ at[2]..Len(adds) = {}
      BY <1>1, <1>6, <3>1 DEF MergeEnds
    <3> QED
      BY <3>2 DEF Remaining
  <2>3. Ascending(<<>>) /\ ToSet(<<>>) = {}
    BY DEF Ascending, ToSet
  <2> QED
    BY <2>1, <2>2, <2>3
<1>7. Bad = {}
  <2>1. SUFFICES ASSUME Bad # {} PROVE FALSE
    OBVIOUS
  <2> HIDE DEF P, p, q, out, R, Apart, Right
  <2>2. PICK n \in Bad : \A m \in Bad : n <= m
    <3>1. Bad \subseteq Nat
      OBVIOUS
    <3> HIDE DEF Bad
    <3> QED
      BY <2>1, <3>1, LeastNat
  <2>3. PICK at \in P : rank(at) = n /\ Apart(at) /\ ~Right(at)
    OBVIOUS
  <2> DEFINE next == NextAt(base, adds, drops, at)
  <2>4. ~MergeEnds(base, adds, at)
    BY <1>6, <2>3
  <2>5. next \in P /\ next[1] + next[2] > at[1] + at[2]
    BY <2>4, MergeNext DEF P
  <2>6. rank(next) \in Nat /\ rank(next) < n
    <3> HIDE DEF next, rank
    <3> QED
      BY <1>0, <1>2, <2>3, <2>5
  <2>7. Apart(next) => Right(next)
    <3> HIDE DEF next, rank
    <3>1. n \in Nat
      BY <2>2
    <3>2. rank(next) \notin Bad
      BY <2>2, <2>6, <3>1
    <3> QED
      BY <2>5, <2>6, <3>2
  <2>8. Right(at)
    BY <1>5, <2>3, <2>4, <2>7
  <2> QED
    BY <2>3, <2>8
<1>8. CASE adds = <<>> /\ drops = <<>>
  <2>1. mergeSorted(base, adds, drops) = base
    BY <1>8, Zenon DEF mergeSorted
  <2>2. ToSet(adds) = {} /\ ToSet(drops) = {}
    BY <1>8 DEF ToSet
  <2> QED
    BY <2>1, <2>2 DEF MergeLists
<1>9. CASE ~(adds = <<>> /\ drops = <<>>)
  <2> DEFINE at == <<1, 1, 1>>
  <2>1. at \in P /\ at[1] = 1 /\ at[2] = 1 /\ at[3] = 1
    BY <1>1 DEF MergePlaces
  <2>2. Apart(at)
    BY <2>1
  <2>3. Right(at)
    <3> HIDE DEF P, p, q, out, R, Apart, Right, at
    <3>1. rank(at) \in Nat
      BY <1>2, <2>1
    <3> QED
      BY <1>7, <2>1, <2>2, <3>1
  <2>4. R(at) = ToSet(base) \cup ToSet(adds)
    <3>1. DOMAIN base = 1..Len(base) /\ DOMAIN adds = 1..Len(adds)
      BY DEF MergeLists
    <3> QED
      BY <2>1, <3>1 DEF Remaining, ToSet
  <2>5. out[at] \in Seq(S)
    BY <1>3, <2>1
  <2>6. mergeSorted(base, adds, drops) = out[at]
    BY <1>9, MergeIsWalk
  <2> QED
    BY <2>3, <2>4, <2>5, <2>6
<1> QED
  BY <1>8, <1>9

-----------------------------------------------------------------------------
(* The order of a set. *)

(* InOrder lists each element of a finite set once, ascending. *)
LEMMA InOrderIs ==
  ASSUME NEW S, Ordered(S), NEW T \in SUBSET S, IsFiniteSet(T)
  PROVE  LET list == InOrder(T)
         IN  list \in Seq(S) /\ Ascending(list) /\ ToSet(list) = T
<1> DEFINE n == Cardinality(T)
           Below(x) == {y \in T : Less(y, x)}
           rank == [x \in T |-> Cardinality(Below(x))]
           list == InOrder(T)
<1>1. n \in Nat
  BY FS_CardinalityType
<1>2. ASSUME NEW x \in T
      PROVE  /\ IsFiniteSet(Below(x)) /\ rank[x] \in 0..(n - 1)
             /\ rank[x] \in Nat /\ \E i \in 1..n : i - 1 = rank[x]
  <2>1. Below(x) \subseteq T /\ x \notin Below(x)
    BY DEF Ordered
  <2>2. IsFiniteSet(Below(x)) /\ Cardinality(Below(x)) <= n /\ Cardinality(Below(x)) # n
    BY <2>1, FS_Subset
  <2>3. Cardinality(Below(x)) \in Nat
    BY <2>2, FS_CardinalityType
  <2>4. rank[x] = Cardinality(Below(x))
    OBVIOUS
  <2> HIDE DEF Below, n, rank
  <2>5. \A c \in Nat : c <= n /\ c # n => c \in 0..(n - 1) /\ \E i \in 1..n : i - 1 = c
    <3> SUFFICES ASSUME NEW c \in Nat, c <= n, c # n
                 PROVE  c \in 0..(n - 1) /\ \E i \in 1..n : i - 1 = c
      OBVIOUS
    <3>1. c + 1 \in 1..n /\ c + 1 - 1 = c /\ c \in 0..(n - 1)
      BY <1>1
    <3> QED
      BY <3>1
  <2> QED
    BY <2>2, <2>3, <2>4, <2>5
<1>3. ASSUME NEW x \in T, NEW y \in T, Less(x, y)
      PROVE  rank[x] < rank[y]
  <2>1. Below(x) \subseteq Below(y) /\ x \in Below(y) /\ x \notin Below(x)
    BY <1>3 DEF Ordered
  <2> HIDE DEF Below
  <2>2. Cardinality(Below(x)) <= Cardinality(Below(y)) /\ Cardinality(Below(x)) # Cardinality(Below(y))
    BY <1>2, <2>1, FS_Subset
  <2>3. rank[x] \in Nat /\ rank[y] \in Nat
    BY <1>2
  <2> QED
    BY <2>2, <2>3
<1>4. rank \in Injection(T, 0..(n - 1))
  <2>1. rank \in [T -> 0..(n - 1)]
    <3> HIDE DEF n
    <3> QED
      BY <1>2
  <2>2. ASSUME NEW x \in T, NEW y \in T, rank[x] = rank[y]
        PROVE  x = y
    <3>1. Less(x, y) \/ x = y \/ Less(y, x)
      BY DEF Ordered
    <3>2. rank[x] \in Nat /\ rank[y] \in Nat
      BY <1>2
    <3> HIDE DEF rank, n
    <3> QED
      BY <1>3, <2>2, <3>1, <3>2
  <2> HIDE DEF rank, n
  <2> QED
    BY <2>1, <2>2 DEF Injection, IsInjective
<1>5. rank \in Surjection(T, 0..(n - 1))
  <2>1. IsFiniteSet(0..(n - 1)) /\ Cardinality(0..(n - 1)) = n
    BY <1>1, FS_Interval
  <2> HIDE DEF rank
  <2> QED
    BY <1>4, <2>1, FS_Injection
<1>6. \A i \in 1..n : \E x \in T : rank[x] = i - 1
  <2> HIDE DEF rank, n
  <2>1. \A i \in 1..n : i - 1 \in 0..(n - 1)
    BY <1>1
  <2> QED
    BY <1>5, <2>1 DEF Surjection
<1>7. DOMAIN list = 1..n /\ \A i \in 1..n : list[i] = CHOOSE x \in T : Cardinality(Below(x)) = i - 1
  BY DEF InOrder
<1>8. \A i \in 1..n : list[i] \in T /\ rank[list[i]] = i - 1
  <2>1. \A x \in T : rank[x] = Cardinality(Below(x))
    OBVIOUS
  <2> HIDE DEF rank, n, Below, list
  <2> QED
    BY <1>6, <1>7, <2>1
<1>9. list \in Seq(S)
  <2>1. list = [i \in 1..n |-> CHOOSE x \in T : Cardinality(Below(x)) = i - 1]
    BY DEF InOrder
  <2>2. n \in Nat /\ \A i \in 1..n : (CHOOSE x \in T : Cardinality(Below(x)) = i - 1) \in S
    BY <1>1, <1>7, <1>8
  <2> HIDE DEF n, Below, list
  <2> QED
    BY <2>1, <2>2
<1>10. Ascending(list)
  <2> HIDE DEF rank, n, list
  <2>1. SUFFICES ASSUME NEW i \in 1..n, NEW j \in 1..n, i < j
                 PROVE  Less(list[i], list[j])
    BY <1>7 DEF Ascending
  <2>2. rank[list[i]] < rank[list[j]] /\ list[i] \in T /\ list[j] \in T
    BY <1>1, <1>8, <2>1
  <2>3. list[i] # list[j] /\ ~Less(list[j], list[i])
    <3>1. rank[list[i]] \in Nat /\ rank[list[j]] \in Nat
      BY <1>2, <2>2
    <3> QED
      BY <1>3, <2>2, <3>1
  <2> QED
    BY <2>2, <2>3 DEF Ordered
<1>11. ToSet(list) = T
  <2> HIDE DEF rank, n, list
  <2>1. ASSUME NEW x \in T
        PROVE  \E i \in 1..n : list[i] = x
    <3>1. PICK i \in 1..n : i - 1 = rank[x]
      BY <1>2
    <3>2. list[i] \in T /\ rank[list[i]] = rank[x]
      BY <1>8, <3>1
    <3>3. list[i] = x
      BY <1>4, <3>2 DEF Injection, IsInjective
    <3> QED
      BY <3>3
  <2> QED
    BY <1>7, <1>8, <2>1 DEF ToSet
<1> QED
  BY <1>9, <1>10, <1>11

-----------------------------------------------------------------------------
(* The binary search. *)

(* The spans of the binary search of a list, one step after another. *)
SearchPlaces(list) == (1..(Len(list) + 1)) \X (1..(Len(list) + 1))

Mid(span) == (span[1] + span[2]) \div 2

Search(list, x) ==
  CHOOSE from : from =
    [span \in SearchPlaces(list) |->
       IF span[1] >= span[2] THEN span[1]
       ELSE IF Less(list[Mid(span)], x) THEN from[<<Mid(span) + 1, span[2]>>]
       ELSE from[<<span[1], Mid(span)>>]]

(* Found is that search from the whole list. *)
LEMMA FoundSearches ==
  ASSUME NEW list, NEW x
  PROVE  LET at == Search(list, x)[<<1, Len(list) + 1>>]
         IN  Found(list, x) <=> at <= Len(list) /\ list[at] = x
BY Zenon DEF Found, SearchPlaces, Mid, Search

(* The search goes where its steps say. *)
LEMMA SearchesRecurs ==
  ASSUME NEW S, NEW list \in Seq(S), NEW x
  PROVE  LET from == Search(list, x)
         IN  \A span \in SearchPlaces(list) :
               from[span] =
                 IF span[1] >= span[2] THEN span[1]
                 ELSE IF Less(list[Mid(span)], x) THEN from[<<Mid(span) + 1, span[2]>>]
                 ELSE from[<<span[1], Mid(span)>>]
<1> DEFINE P == SearchPlaces(list)
           N == Len(list) + 1
           V == 1..N
           rank == [span \in P |-> IF span[1] >= span[2] THEN 0 ELSE span[2] - span[1]]
           Step(f, span) == IF span[1] >= span[2] THEN span[1]
                            ELSE IF Less(list[Mid(span)], x) THEN f[<<Mid(span) + 1, span[2]>>]
                            ELSE f[<<span[1], Mid(span)>>]
           B == [span \in P |-> [f \in [P -> V] |-> Step(f, span)]]
<1>1. N \in Nat /\ 1 \in V
  OBVIOUS
<1>2. \A span \in P : span[1] \in V /\ span[2] \in V
  BY DEF SearchPlaces
<1>3. \A i, j \in V : <<i, j>> \in P
  BY DEF SearchPlaces
<1>4. \A span \in P : rank[span] = IF span[1] >= span[2] THEN 0 ELSE span[2] - span[1]
  OBVIOUS
<1> HIDE DEF P, N, rank
<1>5. rank \in [P -> 0..N]
  <2>1. \A i, j \in V : (IF i >= j THEN 0 ELSE j - i) \in 0..N
    BY <1>1
  <2>2. \A span \in P : (IF span[1] >= span[2] THEN 0 ELSE span[2] - span[1]) \in 0..N
    BY <1>2, <2>1
  <2> QED
    BY <2>2 DEF rank
<1>6. ASSUME NEW i \in V, NEW j \in V, ~(i >= j)
      PROVE  LET m == (i + j) \div 2
             IN  /\ m \in V /\ m + 1 \in V /\ i <= m /\ m < j
                 /\ rank[<<m + 1, j>>] < j - i /\ rank[<<i, m>>] < j - i
  <2> DEFINE m == (i + j) \div 2
  <2>1. m \in Nat /\ i <= m /\ m < j
    BY <1>1, <1>6
  <2> HIDE DEF m
  <2>2. m \in V /\ m + 1 \in V
    BY <1>1, <2>1
  <2>3. /\ rank[<<m + 1, j>>] = IF m + 1 >= j THEN 0 ELSE j - (m + 1)
        /\ rank[<<i, m>>] = IF i >= m THEN 0 ELSE m - i
    BY <1>3, <1>4, <2>2
  <2> QED
    BY <1>1, <1>6, <2>1, <2>2, <2>3 DEF m
<1>7. ASSUME NEW span \in P, ~(span[1] >= span[2])
      PROVE  /\ <<Mid(span) + 1, span[2]>> \in P /\ <<span[1], Mid(span)>> \in P
             /\ rank[<<Mid(span) + 1, span[2]>>] < rank[span]
             /\ rank[<<span[1], Mid(span)>>] < rank[span]
  <2>1. rank[span] = span[2] - span[1]
    BY <1>4, <1>7
  <2> QED
    BY <1>2, <1>3, <1>6, <1>7, <2>1 DEF Mid
<1>8. ASSUME NEW span \in P, NEW f \in [P -> V]
      PROVE  Step(f, span) \in V
  BY <1>2, <1>7
<1>9. B \in [P -> [[P -> V] -> V]]
  <2> HIDE DEF V, Step
  <2> QED
    BY <1>8
<1>10. \A span \in P : \A f \in [P -> V] : B[span][f] = Step(f, span)
  <2> HIDE DEF V, Step
  <2> QED
    OBVIOUS
<1>11. ASSUME NEW span \in P, NEW f \in [P -> V], NEW g \in [P -> V],
              \A q \in P : rank[q] < rank[span] => f[q] = g[q]
       PROVE  B[span][f] = B[span][g]
  <2>1. Step(f, span) = Step(g, span)
    BY <1>7, <1>11
  <2> HIDE DEF Step, B
  <2> QED
    BY <1>10, <2>1
<1>12. Recurs(P, V, B)
  <2> HIDE DEF V, B, Step
  <2>1. Grounded(P, V, rank, B)
    BY <1>11, Zenon DEF Grounded
  <2> QED
    BY <1>1, <1>5, <1>9, <2>1, Recursion, Zenon
<1>13. PICK f \in [P -> V] : \A span \in P : f[span] = Step(f, span)
  <2> HIDE DEF V, B, Step
  <2> QED
    BY <1>10, <1>12 DEF Recurs
<1>14. f = [span \in P |-> Step(f, span)]
  <2> HIDE DEF V, B, Step
  <2> QED
    BY <1>13
<1> DEFINE from == Search(list, x)
<1>15. from = [span \in P |-> Step(from, span)]
  BY <1>14, Zenon DEF Search, P
<1>16. \A span \in P : from[span] = Step(from, span)
  <2> HIDE DEF from, Step
  <2> QED
    BY <1>15
<1> QED
  BY <1>16 DEF P

(* A sorted list is searched right. *)
LEMMA FoundIs ==
  ASSUME NEW S, Ordered(S), NEW list \in Seq(S), Ascending(list), NEW x \in S
  PROVE  Found(list, x) <=> x \in ToSet(list)
<1> DEFINE P == SearchPlaces(list)
           N == Len(list) + 1
           from == Search(list, x)
           Below(i) == \A low \in 1..Len(list) : low < i => Less(list[low], x)
           Above(j) == \A high \in 1..Len(list) : j <= high => ~Less(list[high], x)
           Apart(span) == span[1] <= span[2] /\ Below(span[1]) /\ Above(span[2])
           Right(i) == i \in 1..N /\ Below(i) /\ Above(i)
           Bad == {n \in Nat : \E span \in P : span[2] - span[1] = n /\ Apart(span) /\ ~Right(from[span])}
<1>1. N \in Nat /\ Len(list) \in Nat /\ N = Len(list) + 1
  OBVIOUS
<1>2. \A span \in P : span[1] \in 1..N /\ span[2] \in 1..N /\ span = <<span[1], span[2]>>
  BY DEF SearchPlaces
<1>3. \A i, j \in 1..N : <<i, j>> \in P
  BY DEF SearchPlaces
<1>4. \A span \in P :
        from[span] =
          IF span[1] >= span[2] THEN span[1]
          ELSE IF Less(list[Mid(span)], x) THEN from[<<Mid(span) + 1, span[2]>>]
          ELSE from[<<span[1], Mid(span)>>]
  BY SearchesRecurs
<1>5. \A m \in 1..Len(list) : list[m] \in S
  OBVIOUS
<1>6. \A m, n \in 1..Len(list) : m < n => Less(list[m], list[n])
  BY DEF Ascending
<1> HIDE DEF P, N, from
<1>7. ASSUME NEW i \in 1..N, NEW j \in 1..N, i < j, Below(i), Above(j),
             \A k, l \in 1..N : k <= l /\ l - k < j - i /\ Below(k) /\ Above(l) => Right(from[<<k, l>>])
      PROVE  Right(from[<<i, j>>])
  <2> DEFINE m == (i + j) \div 2
  <2>1. m \in Nat /\ i <= m /\ m < j
    BY <1>1, <1>7
  <2>2. from[<<i, j>>] = IF Less(list[m], x) THEN from[<<m + 1, j>>] ELSE from[<<i, m>>]
    <3>1. <<i, j>> \in P /\ ~(i >= j)
      BY <1>1, <1>3, <1>7
    <3> QED
      BY <1>4, <3>1 DEF Mid
  <2> HIDE DEF m
  <2>3. m \in 1..Len(list) /\ m \in 1..N /\ m + 1 \in 1..N /\ list[m] \in S
    BY <1>1, <1>5, <2>1
  <2>4. CASE Less(list[m], x)
    <3>1. ASSUME NEW k \in 1..Len(list), k < m + 1
          PROVE  Less(list[k], x)
      <4>1. list[k] \in S /\ (k = m \/ k < m)
        BY <1>5, <2>1, <3>1
      <4>2. k < m => Less(list[k], list[m])
        BY <1>6, <2>3
      <4> QED
        BY <2>3, <2>4, <4>1, <4>2 DEF Ordered
    <3>2. Below(m + 1)
      BY <3>1
    <3> HIDE DEF Below, Above, Right
    <3>3. m + 1 <= j /\ j - (m + 1) < j - i
      BY <1>1, <2>1
    <3>4. Right(from[<<m + 1, j>>])
      BY <1>7, <2>3, <3>2, <3>3
    <3> QED
      BY <2>2, <2>4, <3>4
  <2>5. CASE ~Less(list[m], x)
    <3>1. ASSUME NEW k \in 1..Len(list), m <= k
          PROVE  ~Less(list[k], x)
      <4>1. list[k] \in S /\ (k = m \/ m < k)
        BY <1>5, <2>1, <3>1
      <4>2. m < k => Less(list[m], list[k])
        BY <1>6, <2>3, <4>1
      <4> QED
        BY <2>3, <2>5, <4>1, <4>2 DEF Ordered
    <3>2. Above(m)
      BY <3>1
    <3> HIDE DEF Below, Above, Right
    <3>3. m - i < j - i /\ i <= m
      BY <1>1, <2>1
    <3>4. Right(from[<<i, m>>])
      BY <1>7, <2>3, <3>2, <3>3
    <3> QED
      BY <2>2, <2>5, <3>4
  <2> QED
    BY <2>4, <2>5
<1>8. ASSUME NEW span \in P, Apart(span), ~(span[1] < span[2])
      PROVE  Right(from[span])
  <2>1. span[1] \in 1..N /\ span[2] \in 1..N
    BY <1>2
  <2>2. span[1] = span[2] /\ span[1] >= span[2]
    BY <1>1, <1>8, <2>1
  <2>3. from[span] = span[1]
    BY <1>4, <2>2
  <2> QED
    BY <1>8, <2>1, <2>2, <2>3
<1>9. Bad = {}
  <2>1. SUFFICES ASSUME Bad # {} PROVE FALSE
    OBVIOUS
  <2> HIDE DEF Below, Above, Right
  <2>2. PICK n \in Bad : \A m \in Bad : n <= m
    <3>1. Bad \subseteq Nat
      OBVIOUS
    <3> HIDE DEF Bad
    <3> QED
      BY <2>1, <3>1, LeastNat
  <2>3. PICK span \in P : span[2] - span[1] = n /\ Apart(span) /\ ~Right(from[span])
    OBVIOUS
  <2> DEFINE i == span[1]
             j == span[2]
  <2>4. i \in 1..N /\ j \in 1..N /\ span = <<i, j>> /\ i < j /\ n \in Nat /\ j - i = n
    BY <1>2, <1>8, <2>3
  <2>5. ASSUME NEW k \in 1..N, NEW l \in 1..N, k <= l, l - k < n, Below(k), Above(l)
        PROVE  Right(from[<<k, l>>])
    <3>1. l - k \in Nat /\ ~(n <= l - k)
      BY <1>1, <2>4, <2>5
    <3>2. l - k \notin Bad
      BY <2>2, <3>1, Zenon
    <3>3. <<k, l>> \in P /\ <<k, l>>[1] = k /\ <<k, l>>[2] = l
      BY <1>3
    <3>4. Apart(<<k, l>>)
      BY <2>5, <3>3
    <3> QED
      BY <3>1, <3>2, <3>3, <3>4
  <2> HIDE DEF i, j
  <2>6. Below(i) /\ Above(j)
    BY <2>3 DEF i, j
  <2>7. Right(from[<<i, j>>])
    BY <1>7, <2>4, <2>5, <2>6
  <2> QED
    BY <2>3, <2>4, <2>7
<1> DEFINE at == from[<<1, N>>]
<1>10. Right(at)
  <2>1. <<1, N>> \in P /\ <<1, N>>[1] = 1 /\ <<1, N>>[2] = N
    BY <1>1, <1>3
  <2>2. Apart(<<1, N>>)
    BY <1>1, <2>1
  <2>3. N - 1 \in Nat /\ N - 1 \notin Bad
    BY <1>1, <1>9
  <2> HIDE DEF Right, Apart
  <2> QED
    BY <2>1, <2>2, <2>3
<1>11. Found(list, x) <=> at <= Len(list) /\ list[at] = x
  BY FoundSearches DEF from, N
<1> HIDE DEF at
<1>12. at \in Nat /\ at >= 1
  BY <1>1, <1>10
<1>13. DOMAIN list = 1..Len(list)
  OBVIOUS
<1>14. ASSUME Found(list, x)
       PROVE  x \in ToSet(list)
  <2>1. at \in 1..Len(list) /\ list[at] = x
    BY <1>1, <1>11, <1>12, <1>14
  <2> QED
    BY <1>13, <2>1 DEF ToSet
<1>15. ASSUME x \in ToSet(list)
       PROVE  Found(list, x)
  <2>1. PICK m \in 1..Len(list) : list[m] = x
    BY <1>13, <1>15 DEF ToSet
  <2>2. ~Less(x, x)
    BY DEF Ordered
  <2>3. ~(m < at)
    BY <1>10, <2>1, <2>2
  <2>4. m = at \/ at < m
    BY <1>1, <1>12, <2>3
  <2>5. at \in 1..Len(list)
    BY <1>1, <1>12, <2>4
  <2>6. ~Less(list[at], x)
    <3>1. at <= at
      BY <1>12
    <3> QED
      BY <1>10, <2>5, <3>1
  <2>7. at < m => Less(list[at], list[m])
    BY <1>6, <2>5
  <2> QED
    BY <1>11, <2>1, <2>4, <2>5, <2>6, <2>7
<1> QED
  BY <1>14, <1>15

-----------------------------------------------------------------------------
(* A change list lands in an entry, and in the entries. *)

(* A patched list has what was put and not what was taken, in order. *)
LEMMA PatchIs ==
  ASSUME NEW S, Ordered(S), NEW base \in Seq(S), Ascending(base),
         NEW A \in SUBSET S, IsFiniteSet(A), NEW D \in SUBSET S, IsFiniteSet(D)
  PROVE  LET list == mergeSorted(base, InOrder(A), InOrder(D))
         IN  list \in Seq(S) /\ Ascending(list) /\ ToSet(list) = (ToSet(base) \cup A) \ D
<1>1. /\ InOrder(A) \in Seq(S) /\ Ascending(InOrder(A)) /\ ToSet(InOrder(A)) = A
      /\ InOrder(D) \in Seq(S) /\ Ascending(InOrder(D)) /\ ToSet(InOrder(D)) = D
  BY InOrderIs
<1>2. MergeLists(S, base, InOrder(A), InOrder(D))
  BY <1>1 DEF MergeLists
<1> QED
  BY <1>1, <1>2, MergeIs

(* The ids of subjects: a wildcard has neither an id nor a relation. *)
Subjects == {s \in SubjectRefs : s.wildcard => s.id = 0 /\ s.relation = 0}
(* The keys of entries, and what changes are merged as. *)
Keys     == [object : ObjectRefs, relation : Nat]
Items    == [key : Keys, subject : Subjects, present : BOOLEAN]

(* Subjects by the list they go to. *)
Plain(subjects) == {s \in subjects : ~s.wildcard /\ s.relation = 0}
Sets(subjects)  == {s \in subjects : ~s.wildcard /\ s.relation # 0}
Wild(subjects)  == {s \in subjects : s.wildcard}

(* What each list holds of its subjects tells them apart. *)
LEMMA CellsOf ==
  /\ \A s \in Subjects : AsObject(s) \in ObjectCells /\ AsUserset(s) \in UsersetCells
                         /\ AsWildcard(s) \in WildcardCells
  /\ \A s, t \in Plain(Subjects) : AsObject(s) = AsObject(t) => s = t
  /\ \A s, t \in Sets(Subjects) : AsUserset(s) = AsUserset(t) => s = t
  /\ \A s, t \in Wild(Subjects) : AsWildcard(s) = AsWildcard(t) => s = t
<1>1. \A s \in Subjects : AsObject(s) \in ObjectCells /\ AsUserset(s) \in UsersetCells
                          /\ AsWildcard(s) \in WildcardCells
  BY DEF Subjects, SubjectRefs, AsObject, AsUserset, AsWildcard, ObjectCells, UsersetCells, WildcardCells
<1>2. \A s, t \in Plain(Subjects) : AsObject(s) = AsObject(t) => s = t
  BY DEF Plain, Subjects, SubjectRefs, AsObject
<1>3. \A s, t \in Sets(Subjects) : AsUserset(s) = AsUserset(t) => s = t
  BY DEF Sets, Subjects, SubjectRefs, AsUserset
<1>4. \A s, t \in Wild(Subjects) : AsWildcard(s) = AsWildcard(t) => s = t
  BY DEF Wild, Subjects, SubjectRefs, AsWildcard
<1> QED
  BY <1>1, <1>2, <1>3, <1>4

(* The lists of an entry are what they are said to be. *)
EntryTyped(e) ==
  e \in [direct : Seq(ObjectCells), usersets : Seq(UsersetCells), wildcards : Seq(WildcardCells)]

(* The cells of each list for subjects. *)
ObjectsOf(subjects)  == {AsObject(s) : s \in Plain(subjects)}
UsersetsOf(subjects) == {AsUserset(s) : s \in Sets(subjects)}
WildOf(subjects)     == {AsWildcard(s) : s \in Wild(subjects)}

(* An entry lists subjects when each of its lists has its own kind of      *)
(* them.                                                                   *)
LEMMA ListsAllIs ==
  ASSUME NEW e, NEW subjects
  PROVE  ListsAll(e, subjects) <=>
           /\ Ascending(e.direct) /\ ToSet(e.direct) = ObjectsOf(subjects)
           /\ Ascending(e.usersets) /\ ToSet(e.usersets) = UsersetsOf(subjects)
           /\ Ascending(e.wildcards) /\ ToSet(e.wildcards) = WildOf(subjects)
<1> DEFINE wild == {s \in subjects : s.wildcard}
           sets == {s \in subjects \ wild : s.relation # 0}
<1>1. /\ subjects \ (wild \cup sets) = Plain(subjects)
      /\ sets = Sets(subjects) /\ wild = Wild(subjects)
  BY DEF Plain, Sets, Wild
<1>2. ListsAll(e, subjects) <=>
        /\ Lists(e.direct, Plain(subjects), AsObject)
        /\ Lists(e.usersets, Sets(subjects), AsUserset)
        /\ Lists(e.wildcards, Wild(subjects), AsWildcard)
  BY <1>1, Zenon DEF ListsAll
<1> QED
  BY <1>2 DEF Lists, ObjectsOf, UsersetsOf, WildOf

(* What is held once puts are put in and takes taken out. *)
Lands(held, puts, takes) == (held \cup puts) \ takes

(* What lands in an entry lands in each kind of its subjects. *)
LEMMA LandedSubjects ==
  ASSUME NEW on \in SUBSET Subjects, NEW puts \in SUBSET Subjects, NEW takes \in SUBSET Subjects
  PROVE  /\ ObjectsOf(Lands(on, puts, takes)) = Lands(ObjectsOf(on), ObjectsOf(puts), ObjectsOf(takes))
         /\ UsersetsOf(Lands(on, puts, takes)) = Lands(UsersetsOf(on), UsersetsOf(puts), UsersetsOf(takes))
         /\ WildOf(Lands(on, puts, takes)) = Lands(WildOf(on), WildOf(puts), WildOf(takes))
<1> DEFINE all == (on \cup puts) \ takes
<1>1. /\ Plain(all) = (Plain(on) \cup Plain(puts)) \ Plain(takes)
      /\ Plain(on) \cup Plain(puts) \cup Plain(takes) \subseteq Plain(Subjects)
  BY DEF Plain
<1>2. /\ Sets(all) = (Sets(on) \cup Sets(puts)) \ Sets(takes)
      /\ Sets(on) \cup Sets(puts) \cup Sets(takes) \subseteq Sets(Subjects)
  BY DEF Sets
<1>3. /\ Wild(all) = (Wild(on) \cup Wild(puts)) \ Wild(takes)
      /\ Wild(on) \cup Wild(puts) \cup Wild(takes) \subseteq Wild(Subjects)
  BY DEF Wild
<1> HIDE DEF all
<1>4. ObjectsOf(all) = (ObjectsOf(on) \cup ObjectsOf(puts)) \ ObjectsOf(takes)
  BY <1>1, CellsOf DEF ObjectsOf
<1>5. UsersetsOf(all) = (UsersetsOf(on) \cup UsersetsOf(puts)) \ UsersetsOf(takes)
  BY <1>2, CellsOf DEF UsersetsOf
<1>6. WildOf(all) = (WildOf(on) \cup WildOf(puts)) \ WildOf(takes)
  BY <1>3, CellsOf DEF WildOf
<1> QED
  BY <1>4, <1>5, <1>6 DEF all, Lands

(* The subjects that items put and take. *)
Added(items)   == {it.subject : it \in {x \in items : x.present}}
Dropped(items) == {it.subject : it \in {x \in items : ~x.present}}

(* mergeKey patches each list with the cells of its kind. *)
LEMMA MergeKeyPatches ==
  ASSUME NEW e, NEW items \in SUBSET Items
  PROVE  LET A == Added(items)
             D == Dropped(items)
         IN  mergeKey(e, items) =
               [direct    |-> mergeSorted(e.direct, InOrder(ObjectsOf(A)), InOrder(ObjectsOf(D))),
                usersets  |-> mergeSorted(e.usersets, InOrder(UsersetsOf(A)), InOrder(UsersetsOf(D))),
                wildcards |-> mergeSorted(e.wildcards, InOrder(WildOf(A)), InOrder(WildOf(D)))]
<1> DEFINE A == Added(items)
           D == Dropped(items)
           wild == {it \in items : it.subject.wildcard}
           sets == {it \in items \ wild : it.subject.relation # 0}
           rest == items \ (wild \cup sets)
<1>1. /\ {AsObject(it.subject) : it \in {x \in rest : x.present}} = ObjectsOf(A)
      /\ {AsObject(it.subject) : it \in {x \in rest : ~x.present}} = ObjectsOf(D)
  BY DEF ObjectsOf, Plain, Added, Dropped
<1>2. /\ {AsUserset(it.subject) : it \in {x \in sets : x.present}} = UsersetsOf(A)
      /\ {AsUserset(it.subject) : it \in {x \in sets : ~x.present}} = UsersetsOf(D)
  BY DEF UsersetsOf, Sets, Added, Dropped
<1>3. /\ {AsWildcard(it.subject) : it \in {x \in wild : x.present}} = WildOf(A)
      /\ {AsWildcard(it.subject) : it \in {x \in wild : ~x.present}} = WildOf(D)
  BY DEF WildOf, Wild, Added, Dropped
<1>4. Patched(e.direct, rest, AsObject) = mergeSorted(e.direct, InOrder(ObjectsOf(A)), InOrder(ObjectsOf(D)))
  <2> HIDE DEF A, D, wild, sets, rest
  <2> QED
    BY <1>1 DEF Patched, Sorted
<1>5. Patched(e.usersets, sets, AsUserset) = mergeSorted(e.usersets, InOrder(UsersetsOf(A)), InOrder(UsersetsOf(D)))
  <2> HIDE DEF A, D, wild, sets, rest
  <2> QED
    BY <1>2 DEF Patched, Sorted
<1>6. Patched(e.wildcards, wild, AsWildcard) = mergeSorted(e.wildcards, InOrder(WildOf(A)), InOrder(WildOf(D)))
  <2> HIDE DEF A, D, wild, sets, rest
  <2> QED
    BY <1>3 DEF Patched, Sorted
<1>7. mergeKey(e, items) = [direct    |-> Patched(e.direct, rest, AsObject),
                            usersets  |-> Patched(e.usersets, sets, AsUserset),
                            wildcards |-> Patched(e.wildcards, wild, AsWildcard)]
  BY Zenon DEF mergeKey
<1> QED
  BY <1>4, <1>5, <1>6, <1>7, Zenon

(* What a function makes of finitely many is finite. *)
LEMMA FiniteImage ==
  ASSUME NEW S, IsFiniteSet(S), NEW f, DOMAIN f = S
  PROVE  IsFiniteSet({f[x] : x \in S})
<1> DEFINE T == {f[x] : x \in S}
           g == [x \in S |-> f[x]]
<1>1. g \in Surjection(S, T)
  BY DEF Surjection
<1> QED
  BY <1>1, FS_Surjection

(* Finitely many items put and take finitely many cells. *)
LEMMA SubjectsFinite ==
  ASSUME NEW items, IsFiniteSet(items)
  PROVE  /\ IsFiniteSet(ObjectsOf(Added(items))) /\ IsFiniteSet(ObjectsOf(Dropped(items)))
         /\ IsFiniteSet(UsersetsOf(Added(items))) /\ IsFiniteSet(UsersetsOf(Dropped(items)))
         /\ IsFiniteSet(WildOf(Added(items))) /\ IsFiniteSet(WildOf(Dropped(items)))
<1>1. IsFiniteSet({x \in items : x.present}) /\ IsFiniteSet({x \in items : ~x.present})
  BY FS_Subset
<1>2. IsFiniteSet(Added(items)) /\ IsFiniteSet(Dropped(items))
  <2>1. \A s : IsFiniteSet(s) => IsFiniteSet({x.subject : x \in s})
    <3> SUFFICES ASSUME NEW s, IsFiniteSet(s)
                 PROVE  IsFiniteSet({x.subject : x \in s})
      OBVIOUS
    <3> DEFINE f == [x \in s |-> x.subject]
    <3>1. IsFiniteSet({f[x] : x \in s})
      BY FiniteImage
    <3>2. {f[x] : x \in s} = {x.subject : x \in s}
      OBVIOUS
    <3> QED
      BY <3>1, <3>2
  <2> QED
    BY <1>1, <2>1 DEF Added, Dropped
<1>3. \A s : IsFiniteSet(s) => IsFiniteSet(Plain(s)) /\ IsFiniteSet(Sets(s)) /\ IsFiniteSet(Wild(s))
  BY FS_Subset DEF Plain, Sets, Wild
<1>4. \A s : IsFiniteSet(s) => /\ IsFiniteSet({AsObject(x) : x \in s})
                               /\ IsFiniteSet({AsUserset(x) : x \in s})
                               /\ IsFiniteSet({AsWildcard(x) : x \in s})
  <2> SUFFICES ASSUME NEW s, IsFiniteSet(s)
               PROVE  /\ IsFiniteSet({AsObject(x) : x \in s})
                      /\ IsFiniteSet({AsUserset(x) : x \in s})
                      /\ IsFiniteSet({AsWildcard(x) : x \in s})
    OBVIOUS
  <2> DEFINE f == [x \in s |-> AsObject(x)]
             g == [x \in s |-> AsUserset(x)]
             h == [x \in s |-> AsWildcard(x)]
  <2>1. IsFiniteSet({f[x] : x \in s}) /\ IsFiniteSet({g[x] : x \in s}) /\ IsFiniteSet({h[x] : x \in s})
    BY FiniteImage
  <2>2. /\ {f[x] : x \in s} = {AsObject(x) : x \in s}
        /\ {g[x] : x \in s} = {AsUserset(x) : x \in s}
        /\ {h[x] : x \in s} = {AsWildcard(x) : x \in s}
    OBVIOUS
  <2> QED
    BY <2>1, <2>2
<1> QED
  BY <1>2, <1>3, <1>4, Zenon DEF ObjectsOf, UsersetsOf, WildOf

(* Cells of subjects are of their list. *)
LEMMA CellsTyped ==
  ASSUME NEW on \in SUBSET Subjects
  PROVE  /\ ObjectsOf(on) \subseteq ObjectCells /\ UsersetsOf(on) \subseteq UsersetCells
         /\ WildOf(on) \subseteq WildcardCells
BY CellsOf DEF ObjectsOf, UsersetsOf, WildOf, Plain, Sets, Wild

(* mergeKey: the entry lists what it listed, with what the items put and   *)
(* without what they take.                                                 *)
LEMMA MergeKeyIs ==
  ASSUME NEW e, EntryTyped(e), NEW on \in SUBSET Subjects, ListsAll(e, on),
         NEW items \in SUBSET Items, IsFiniteSet(items)
  PROVE  /\ EntryTyped(mergeKey(e, items))
         /\ ListsAll(mergeKey(e, items), Lands(on, Added(items), Dropped(items)))
<1> DEFINE A == Added(items)
           D == Dropped(items)
           all == Lands(on, A, D)
           new == mergeKey(e, items)
<1>1. A \in SUBSET Subjects /\ D \in SUBSET Subjects
  BY DEF Added, Dropped, Items
<1>2. /\ IsFiniteSet(ObjectsOf(A)) /\ IsFiniteSet(ObjectsOf(D))
      /\ IsFiniteSet(UsersetsOf(A)) /\ IsFiniteSet(UsersetsOf(D))
      /\ IsFiniteSet(WildOf(A)) /\ IsFiniteSet(WildOf(D))
  BY SubjectsFinite
<1>3. new = [direct    |-> mergeSorted(e.direct, InOrder(ObjectsOf(A)), InOrder(ObjectsOf(D))),
             usersets  |-> mergeSorted(e.usersets, InOrder(UsersetsOf(A)), InOrder(UsersetsOf(D))),
             wildcards |-> mergeSorted(e.wildcards, InOrder(WildOf(A)), InOrder(WildOf(D)))]
  BY MergeKeyPatches, Zenon
<1>4. /\ ObjectsOf(A) \in SUBSET ObjectCells /\ ObjectsOf(D) \in SUBSET ObjectCells
      /\ UsersetsOf(A) \in SUBSET UsersetCells /\ UsersetsOf(D) \in SUBSET UsersetCells
      /\ WildOf(A) \in SUBSET WildcardCells /\ WildOf(D) \in SUBSET WildcardCells
  BY <1>1, CellsTyped
<1>5. /\ Ascending(e.direct) /\ ToSet(e.direct) = ObjectsOf(on)
      /\ Ascending(e.usersets) /\ ToSet(e.usersets) = UsersetsOf(on)
      /\ Ascending(e.wildcards) /\ ToSet(e.wildcards) = WildOf(on)
  BY ListsAllIs
<1>6. e.direct \in Seq(ObjectCells) /\ e.usersets \in Seq(UsersetCells) /\ e.wildcards \in Seq(WildcardCells)
  BY DEF EntryTyped
<1>7. LET list == mergeSorted(e.direct, InOrder(ObjectsOf(A)), InOrder(ObjectsOf(D)))
      IN  list \in Seq(ObjectCells) /\ Ascending(list) /\ ToSet(list) = Lands(ObjectsOf(on), ObjectsOf(A), ObjectsOf(D))
  <2> HIDE DEF A, D
  <2> QED
    BY <1>2, <1>4, <1>5, <1>6, CellsOrdered, PatchIs DEF Lands
<1>8. LET list == mergeSorted(e.usersets, InOrder(UsersetsOf(A)), InOrder(UsersetsOf(D)))
      IN  list \in Seq(UsersetCells) /\ Ascending(list) /\ ToSet(list) = Lands(UsersetsOf(on), UsersetsOf(A), UsersetsOf(D))
  <2> HIDE DEF A, D
  <2> QED
    BY <1>2, <1>4, <1>5, <1>6, CellsOrdered, PatchIs DEF Lands
<1>9. LET list == mergeSorted(e.wildcards, InOrder(WildOf(A)), InOrder(WildOf(D)))
      IN  list \in Seq(WildcardCells) /\ Ascending(list) /\ ToSet(list) = Lands(WildOf(on), WildOf(A), WildOf(D))
  <2> HIDE DEF A, D
  <2> QED
    BY <1>2, <1>4, <1>5, <1>6, CellsOrdered, PatchIs DEF Lands
<1>10. /\ ObjectsOf(all) = Lands(ObjectsOf(on), ObjectsOf(A), ObjectsOf(D))
       /\ UsersetsOf(all) = Lands(UsersetsOf(on), UsersetsOf(A), UsersetsOf(D))
       /\ WildOf(all) = Lands(WildOf(on), WildOf(A), WildOf(D))
  <2> HIDE DEF A, D
  <2> QED
    BY <1>1, LandedSubjects, Zenon DEF all
<1> HIDE DEF A, D, all, new
<1>11. EntryTyped(new)
  BY <1>3, <1>7, <1>8, <1>9 DEF EntryTyped
<1>12. ListsAll(new, all)
  BY <1>3, <1>7, <1>8, <1>9, <1>10, ListsAllIs
<1> QED
  BY <1>11, <1>12 DEF A, D, all, new

(* Nothing is listed just where nothing is. *)
LEMMA EmptyEntry ==
  /\ EntryTyped(NoEntry) /\ ListsAll(NoEntry, {})
  /\ \A e, on : EntryTyped(e) /\ ListsAll(e, on) => (e = NoEntry <=> on = {})
<1>1. EntryTyped(NoEntry)
  BY DEF EntryTyped, NoEntry
<1>2. ToSet(<<>>) = {} /\ Ascending(<<>>)
  BY DEF ToSet, Ascending
<1>3. ListsAll(NoEntry, {})
  <2>1. ObjectsOf({}) = {} /\ UsersetsOf({}) = {} /\ WildOf({}) = {}
    BY DEF ObjectsOf, UsersetsOf, WildOf, Plain, Sets, Wild
  <2> QED
    BY <1>2, <2>1, ListsAllIs DEF NoEntry
<1>4. ASSUME NEW e, NEW on, EntryTyped(e), ListsAll(e, on)
      PROVE  e = NoEntry <=> on = {}
  <2>1. /\ ToSet(e.direct) = ObjectsOf(on) /\ ToSet(e.usersets) = UsersetsOf(on)
        /\ ToSet(e.wildcards) = WildOf(on)
    BY <1>4, ListsAllIs
  <2>2. on = {} <=> ObjectsOf(on) = {} /\ UsersetsOf(on) = {} /\ WildOf(on) = {}
    BY DEF ObjectsOf, UsersetsOf, WildOf, Plain, Sets, Wild
  <2>3. \A S : \A list \in Seq(S) : ToSet(list) = {} <=> list = <<>>
    <3> SUFFICES ASSUME NEW S, NEW list \in Seq(S)
                 PROVE  ToSet(list) = {} <=> list = <<>>
      OBVIOUS
    <3>1. Len(list) \in Nat /\ DOMAIN list = 1..Len(list)
      OBVIOUS
    <3>2. list # <<>> => 1 \in DOMAIN list
      BY <3>1
    <3> QED
      BY <3>2 DEF ToSet
  <2>4. e = NoEntry <=> e.direct = <<>> /\ e.usersets = <<>> /\ e.wildcards = <<>>
    BY <1>4 DEF EntryTyped, NoEntry
  <2>5. /\ ToSet(e.direct) = {} <=> e.direct = <<>>
        /\ ToSet(e.usersets) = {} <=> e.usersets = <<>>
        /\ ToSet(e.wildcards) = {} <=> e.wildcards = <<>>
    BY <1>4, <2>3 DEF EntryTyped
  <2> QED
    BY <2>1, <2>2, <2>4, <2>5
<1> QED
  BY <1>1, <1>3, <1>4

(* Entries are typed where they are. *)
EntriesTyped(entries) == \A k \in DOMAIN entries : EntryTyped(entries[k])

(* Items that put. *)
PresentItems == {it \in Items : it.present}

(* What items, as they stand in a list of changes, put in and take out. *)
Adds(items)  == {it \in items : it.present}
(* What items take, as it was put. *)
Drops(items) ==
  {[key |-> it.key, subject |-> it.subject, present |-> TRUE] : it \in {x \in items : ~x.present}}

(* Items landed in the entries of every key: what is held is what was,     *)
(* with what they put and without what they take.                          *)
LEMMA LandedIs ==
  ASSUME NEW entries, EntriesTyped(entries), NEW held \in SUBSET PresentItems, Holds(entries, held),
         NEW k \in Keys, NEW items \in SUBSET Items, IsFiniteSet(items), \A it \in items : it.key = k
  PROVE  /\ EntriesTyped(Landed(entries, k, items))
         /\ Holds(Landed(entries, k, items), Lands(held, Adds(items), Drops(items)))
<1> DEFINE on == SubjectsOn(held, k)
           A == Added(items)
           D == Dropped(items)
           all == Lands(on, A, D)
           next == Lands(held, Adds(items), Drops(items))
           e == EntryOf(entries, k)
           new == mergeKey(e, items)
<1>1. on \in SUBSET Subjects
  BY DEF SubjectsOn, PresentItems, Items
<1>2. EntryTyped(e) /\ ListsAll(e, on)
  <2>1. CASE k \in DOMAIN entries
    BY <2>1 DEF EntryOf, EntriesTyped, Holds
  <2>2. CASE k \notin DOMAIN entries
    <3>1. on = {}
      BY <2>2 DEF Holds, SubjectsOn
    <3> QED
      BY <2>2, <3>1, EmptyEntry DEF EntryOf
  <2> QED
    BY <2>1, <2>2
<1>3. EntryTyped(new) /\ ListsAll(new, all)
  <2> HIDE DEF e, on
  <2> QED
    BY <1>1, <1>2, MergeKeyIs
<1>4. new = NoEntry <=> all = {}
  <2> HIDE DEF new, all
  <2> QED
    BY <1>3, EmptyEntry
<1>5. next \in SUBSET PresentItems
  BY DEF PresentItems, Adds, Drops, Lands
<1>6. SubjectsOn(next, k) = all
  <2>1. \A it \in PresentItems : it.key = k => it = [key |-> k, subject |-> it.subject, present |-> TRUE]
    BY DEF PresentItems, Items
  <2>3. \A s : s \in on <=> [key |-> k, subject |-> s, present |-> TRUE] \in held
    BY <2>1 DEF SubjectsOn
  <2>4. \A s : s \in A <=> [key |-> k, subject |-> s, present |-> TRUE] \in Adds(items)
    BY <2>1 DEF Added, Adds, PresentItems
  <2>5. \A s : s \in D <=> [key |-> k, subject |-> s, present |-> TRUE] \in Drops(items)
    BY DEF Dropped, Drops
  <2>6. \A s : s \in SubjectsOn(next, k) <=> [key |-> k, subject |-> s, present |-> TRUE] \in next
    <3> HIDE DEF next
    <3> QED
      BY <1>5, <2>1 DEF SubjectsOn
  <2> HIDE DEF on, A, D
  <2> QED
    BY <2>3, <2>4, <2>5, <2>6 DEF all, next, Lands
<1>7. \A it \in PresentItems : it.key # k => (it \in next <=> it \in held)
  BY DEF Adds, Drops, Items, Lands
<1>8. \A l : l # k => SubjectsOn(next, l) = SubjectsOn(held, l)
  <2> HIDE DEF next
  <2> QED
    BY <1>5, <1>7 DEF SubjectsOn
<1>9. \A S, l : l \in {it.key : it \in S} <=> SubjectsOn(S, l) # {}
  BY DEF SubjectsOn
<1>10. \A l : l \in {it.key : it \in next} <=> IF l = k THEN all # {} ELSE l \in {it.key : it \in held}
  <2> SUFFICES ASSUME NEW l
               PROVE  l \in {it.key : it \in next} <=> IF l = k THEN all # {} ELSE l \in {it.key : it \in held}
    OBVIOUS
  <2>1. l \in {it.key : it \in next} <=> SubjectsOn(next, l) # {}
    BY <1>9
  <2>2. l \in {it.key : it \in held} <=> SubjectsOn(held, l) # {}
    BY <1>9
  <2> HIDE DEF next, all
  <2>3. CASE l = k
    BY <1>6, <2>1, <2>3
  <2>4. CASE l # k
    BY <1>8, <2>1, <2>2, <2>4
  <2> QED
    BY <2>3, <2>4
<1>11. DOMAIN entries = {it.key : it \in held}
  BY DEF Holds
<1>12. \A l \in DOMAIN entries : EntryTyped(entries[l]) /\ ListsAll(entries[l], SubjectsOn(held, l))
  BY DEF Holds, EntriesTyped
<1> DEFINE land == Landed(entries, k, items)
<1>13. land = IF new = NoEntry
              THEN [x \in DOMAIN entries \ {k} |-> entries[x]]
              ELSE [x \in DOMAIN entries \cup {k} |-> IF x = k THEN new ELSE entries[x]]
  BY Zenon DEF Landed
<1> HIDE DEF new, all, next, land, on
<1>14. DOMAIN land = {it.key : it \in next}
  BY <1>4, <1>10, <1>11, <1>13
<1>15. \A l \in DOMAIN land : EntryTyped(land[l]) /\ ListsAll(land[l], SubjectsOn(next, l))
  <2> TAKE l \in DOMAIN land
  <2>1. CASE l = k
    <3>1. land[l] = new
      BY <1>13, <2>1
    <3> QED
      BY <1>3, <1>6, <2>1, <3>1
  <2>2. CASE l # k
    <3>1. l \in DOMAIN entries /\ land[l] = entries[l]
      BY <1>13, <2>2
    <3> QED
      BY <1>8, <1>12, <2>2, <3>1
  <2> QED
    BY <2>1, <2>2
<1> QED
  BY <1>14, <1>15 DEF Holds, EntriesTyped, land, next

-----------------------------------------------------------------------------
(* Interning. *)

(* No name has two ids, and no id is past the limit. *)
Table(table) ==
  /\ table \in Seq(Names) /\ Len(table) <= Limit
  /\ \A i, j \in DOMAIN table : table[i] = table[j] => i = j

(* Each name space is a table. *)
Tables(names) == names \in [Spaces -> Seq(Names)] /\ \A space \in Spaces : Table(names[space])

(* What later holds of names, each under the id it had. *)
Lengthens(table, later) == Len(table) <= Len(later) /\ \A i \in DOMAIN table : later[i] = table[i]

(* What later holds of every name space. *)
Grows(names, later) == \A space \in Spaces : Lengthens(names[space], later[space])

(* lookup finds the one id of a name that has one, and 0 for every other. *)
LEMMA LookupIs ==
  ASSUME NEW table, Table(table), NEW s
  PROVE  IF Seen(table, s)
         THEN lookup(table, s) \in 1..Len(table) /\ table[lookup(table, s)] = s
         ELSE lookup(table, s) = 0
<1>1. DOMAIN table = 1..Len(table)
  BY DEF Table
<1>2. CASE Seen(table, s)
  <2>1. \E i \in DOMAIN table : table[i] = s
    BY <1>2 DEF Seen
  <2>2. lookup(table, s) = CHOOSE i \in DOMAIN table : table[i] = s
    BY <1>2, Zenon DEF lookup
  <2>3. lookup(table, s) \in DOMAIN table /\ table[lookup(table, s)] = s
    BY <2>1, <2>2, Zenon
  <2> QED
    BY <1>1, <1>2, <2>3
<1>3. CASE ~Seen(table, s)
  BY <1>3 DEF lookup
<1> QED
  BY <1>2, <1>3

(* Later, a name has the id it had. *)
LEMMA GrownLookup ==
  ASSUME NEW table, Table(table), NEW later, Table(later), Lengthens(table, later),
         NEW s, Seen(table, s)
  PROVE  Seen(later, s) /\ lookup(later, s) = lookup(table, s)
<1> DEFINE i == lookup(table, s)
           j == lookup(later, s)
<1>1. i \in DOMAIN table /\ table[i] = s /\ DOMAIN table = 1..Len(table) /\ Len(table) \in Nat
  BY LookupIs DEF Table
<1>2. DOMAIN later = 1..Len(later) /\ Len(later) \in Nat
  BY DEF Table
<1> HIDE DEF i, j
<1>3. i \in DOMAIN later /\ later[i] = s
  BY <1>1, <1>2 DEF Lengthens
<1>4. Seen(later, s)
  BY <1>3 DEF Seen
<1>5. j \in DOMAIN later /\ later[j] = s
  BY <1>2, <1>4, LookupIs DEF j
<1>6. i = j
  BY <1>3, <1>5 DEF Table
<1> QED
  BY <1>4, <1>6 DEF i, j

(* intern: the name has an id after it unless the ids have run out, and no *)
(* other changes its own.                                                  *)
LEMMA InternIs ==
  ASSUME NEW table, Table(table), NEW s \in Names \cup {NoName}, ~Exhausted(table, s)
  PROVE  /\ Table(intern(table, s)) /\ Lengthens(table, intern(table, s))
         /\ s # NoName => Seen(intern(table, s), s)
<1>1. /\ table \in Seq(Names) /\ Len(table) <= Limit /\ Len(table) \in Nat
      /\ DOMAIN table = 1..Len(table) /\ Limit \in Nat
      /\ \A i, j \in DOMAIN table : table[i] = table[j] => i = j
  BY DictionaryAssumption DEF Table
<1>2. CASE s = NoName \/ Seen(table, s)
  BY <1>1, <1>2 DEF intern, Table, Lengthens
<1>3. CASE s # NoName /\ ~Seen(table, s)
  <2> DEFINE next == Append(table, s)
             n == Len(table)
  <2>1. intern(table, s) = next
    BY <1>3, Zenon DEF intern
  <2>2. n + 1 <= Limit
    BY <1>1, <1>3 DEF Exhausted
  <2>3. /\ next \in Seq(Names) /\ Len(next) = n + 1 /\ next[n + 1] = s
        /\ DOMAIN next = 1..(n + 1) /\ \A i \in 1..n : next[i] = table[i]
    BY <1>1, <1>3
  <2>4. \A i \in 1..n : table[i] # s
    BY <1>1, <1>3 DEF Seen
  <2>5. \A i \in 1..(n + 1) : i \in 1..n \/ i = n + 1
    BY <1>1
  <2> HIDE DEF next, n
  <2>6. \A i, j \in DOMAIN next : next[i] = next[j] => i = j
    BY <1>1, <2>3, <2>4, <2>5 DEF n
  <2>7. Table(next)
    BY <2>2, <2>3, <2>6 DEF Table
  <2>8. Lengthens(table, next)
    BY <1>1, <2>3 DEF Lengthens, n
  <2>9. Seen(next, s)
    <3>1. n + 1 \in DOMAIN next
      BY <1>1, <2>3 DEF n
    <3> QED
      BY <2>3, <3>1, Zenon DEF Seen
  <2> QED
    BY <2>1, <2>7, <2>8, <2>9
<1> QED
  BY <1>2, <1>3

(* What interning a word after others makes of the names. *)
Took(x, w) ==
  IF ~x.ok \/ Exhausted(x.names[w.space], w.name)
  THEN [x EXCEPT !.ok = FALSE]
  ELSE [x EXCEPT !.names[w.space] = intern(@, w.name)]

(* internAll as a walk over words. *)
Started(names) == [names |-> names, ok |-> TRUE]

InternWalk(names, words) ==
  CHOOSE upTo : upTo =
    [i \in 0..Len(words) |->
       IF i = 0 THEN {Started(names)} ELSE {Took(x, words[i]) : x \in upTo[i - 1]}]

(* internAll is that walk. *)
LEMMA InternAllWalks ==
  ASSUME NEW names, NEW words
  PROVE  internAll(names, words) = CHOOSE x \in InternWalk(names, words)[Len(words)] : TRUE
BY Zenon DEF internAll, InternWalk, Took, Started

(* What the walk is at a word. *)
Internings == [names : [Spaces -> Seq(Names)], ok : BOOLEAN]

(* Interned in x is what was held in names, and the first n words if none failed. *)
InternedUpTo(names, words, n, x) ==
  /\ x \in Internings /\ Tables(x.names) /\ Grows(names, x.names)
  /\ x.ok => \A i \in 1..Len(words) :
       i <= n /\ words[i].name # NoName => Seen(x.names[words[i].space], words[i].name)

(* One word of it. *)
LEMMA TookIs ==
  ASSUME NEW names, Tables(names), NEW words \in Seq(Words), NEW n \in 1..Len(words),
         NEW x, InternedUpTo(names, words, n - 1, x)
  PROVE  InternedUpTo(names, words, n, Took(x, words[n]))
<1> DEFINE w == words[n]
           s == w.space
           y == Took(x, w)
           table == x.names[s]
           next == intern(table, w.name)
<1>1. w \in Words /\ s \in Spaces /\ w.name \in Names \cup {NoName}
  <2>1. w \in Words
    OBVIOUS
  <2> HIDE DEF w
  <2> QED
    BY <2>1 DEF Words
<1>2. /\ x.names \in [Spaces -> Seq(Names)] /\ x.ok \in BOOLEAN /\ Tables(x.names) /\ Grows(names, x.names)
      /\ x = [names |-> x.names, ok |-> x.ok]
  BY DEF InternedUpTo, Internings
<1>3. CASE ~x.ok \/ Exhausted(table, w.name)
  <2>1. y = [x EXCEPT !.ok = FALSE]
    BY <1>3, Zenon DEF Took
  <2>2. y.ok = FALSE /\ y.names = x.names /\ y \in Internings
    BY <1>2, <2>1 DEF Internings
  <2> QED
    BY <1>2, <2>2 DEF InternedUpTo
<1>4. CASE x.ok /\ ~Exhausted(table, w.name)
  <2>1. y = [x EXCEPT !.names[s] = next]
    BY <1>4, Zenon DEF Took
  <2>2. Table(table)
    BY <1>1, <1>2 DEF Tables
  <2>3. Table(next) /\ Lengthens(table, next) /\ (w.name # NoName => Seen(next, w.name))
    <3> HIDE DEF table, next
    <3> QED
      BY <1>1, <1>4, <2>2, InternIs DEF next
  <2>4. next \in Seq(Names)
    BY <2>3 DEF Table
  <2>5. /\ y.ok = TRUE /\ y.names = [x.names EXCEPT ![s] = next]
        /\ y \in Internings
    <3> HIDE DEF next
    <3> QED
      BY <1>1, <1>2, <1>4, <2>1, <2>4 DEF Internings
  <2>6. /\ y.names[s] = next
        /\ \A o \in Spaces : o # s => y.names[o] = x.names[o]
    <3> HIDE DEF next, y
    <3> QED
      BY <1>1, <1>2, <2>5
  <2>7. Tables(y.names)
    <3> HIDE DEF next, y
    <3> QED
      BY <1>2, <2>3, <2>5, <2>6 DEF Tables, Internings
  <2>8. Grows(x.names, y.names)
    <3>1. \A t \in Seq(Names) : Lengthens(t, t)
      BY DEF Lengthens
    <3> HIDE DEF next, y
    <3> QED
      BY <1>2, <2>3, <2>6, <3>1 DEF Grows
  <2>9. Grows(names, y.names)
    <3> HIDE DEF next, y, table
    <3>1. \A t, u, v \in Seq(Names) : Lengthens(t, u) /\ Lengthens(u, v) => Lengthens(t, v)
      BY DEF Lengthens
    <3>2. \A o \in Spaces : names[o] \in Seq(Names) /\ x.names[o] \in Seq(Names) /\ y.names[o] \in Seq(Names)
      BY <1>2, <2>7 DEF Tables
    <3> QED
      BY <1>2, <2>8, <3>1, <3>2 DEF Grows
  <2>10. ASSUME NEW i \in 1..Len(words), i <= n, words[i].name # NoName
         PROVE  Seen(y.names[words[i].space], words[i].name)
    <3>1. words[i].space \in Spaces
      <4>1. words[i] \in Words
        OBVIOUS
      <4> QED
        BY <4>1 DEF Words
    <3>2. CASE i = n
      BY <2>3, <2>6, <2>10, <3>2
    <3>3. CASE i # n
      <4>1. i <= n - 1
        BY <2>10, <3>3
      <4>2. Seen(x.names[words[i].space], words[i].name)
        BY <1>4, <2>10, <4>1 DEF InternedUpTo
      <4> HIDE DEF next, y, table
      <4>3. Table(x.names[words[i].space]) /\ Table(y.names[words[i].space])
        BY <1>2, <2>7, <3>1 DEF Tables
      <4>4. Lengthens(x.names[words[i].space], y.names[words[i].space])
        BY <2>8, <3>1 DEF Grows
      <4> QED
        BY <4>2, <4>3, <4>4, GrownLookup
    <3> QED
      BY <3>2, <3>3
  <2> HIDE DEF y
  <2> QED
    BY <2>5, <2>7, <2>9, <2>10 DEF InternedUpTo, y
<1> QED
  BY <1>2, <1>3, <1>4

(* The walk goes on word by word. *)
LEMMA InternsRecur ==
  ASSUME NEW names, Tables(names), NEW words \in Seq(Words)
  PROVE  LET upTo == InternWalk(names, words)
         IN  /\ upTo[0] = {Started(names)}
             /\ \A i \in 1..Len(words) : upTo[i] = {Took(x, words[i]) : x \in upTo[i - 1]}
<1> DEFINE N == Len(words)
           P == 0..N
           V == SUBSET Internings
           rank == [i \in P |-> i]
           Step(f, i) == IF i = 0 THEN {Started(names)} ELSE {Took(x, words[i]) : x \in f[i - 1]}
           B == [i \in P |-> [f \in [P -> V] |-> Step(f, i)]]
<1>1. N \in Nat /\ {} \in V
  OBVIOUS
<1>2. \A i \in P : i # 0 => i - 1 \in P /\ i \in 1..N /\ i - 1 < i
  BY <1>1
<1>3. ASSUME NEW i \in P, NEW f \in [P -> V]
      PROVE  Step(f, i) \in V
  <2>1. CASE i = 0
    BY <2>1 DEF Started, Internings, Tables
  <2>2. ASSUME i # 0, NEW x \in f[i - 1]
        PROVE  Took(x, words[i]) \in Internings
    <3>1. x \in Internings /\ words[i] \in Words
      <4>1. i - 1 \in P /\ i \in 1..N
        BY <1>2, <2>2
      <4>2. f[i - 1] \in V
        <5> HIDE DEF P, V
        <5> QED
          BY <4>1
      <4> QED
        BY <2>2, <4>1, <4>2
    <3> DEFINE w == words[i]
    <3> HIDE DEF w
    <3>2. w.space \in Spaces /\ w.name \in Names \cup {NoName}
      BY <3>1 DEF Words, w
    <3>3. \A t \in Seq(Names) : \A s \in Names \cup {NoName} : intern(t, s) \in Seq(Names)
      BY DEF intern
    <3>4. intern(x.names[w.space], w.name) \in Seq(Names)
      BY <3>1, <3>2, <3>3 DEF Internings, w
    <3>5. Took(x, w) \in Internings
      <4> DEFINE next == intern(x.names[w.space], w.name)
      <4>1. Took(x, w) = IF ~x.ok \/ Exhausted(x.names[w.space], w.name)
                         THEN [x EXCEPT !.ok = FALSE] ELSE [x EXCEPT !.names[w.space] = next]
        BY Zenon DEF Took
      <4> HIDE DEF next
      <4>2. next \in Seq(Names)
        BY <3>4 DEF next
      <4>3. [x EXCEPT !.ok = FALSE] \in Internings
        BY <3>1 DEF Internings
      <4>4. [x EXCEPT !.names[w.space] = next] \in Internings
        BY <3>1, <3>2, <4>2 DEF Internings
      <4> QED
        BY <4>1, <4>3, <4>4
    <3> QED
      BY <3>5 DEF w
  <2> QED
    BY <2>1, <2>2
<1> HIDE DEF P
<1>4. B \in [P -> [[P -> V] -> V]]
  <2> HIDE DEF V, Step
  <2> QED
    BY <1>3
<1>5. \A i \in P : \A f \in [P -> V] : B[i][f] = Step(f, i)
  <2> HIDE DEF V, Step
  <2> QED
    OBVIOUS
<1>6. ASSUME NEW i \in P, NEW f \in [P -> V], NEW g \in [P -> V],
             \A q \in P : rank[q] < rank[i] => f[q] = g[q]
      PROVE  B[i][f] = B[i][g]
  <2>1. i # 0 => f[i - 1] = g[i - 1]
    BY <1>2, <1>6
  <2>2. Step(f, i) = Step(g, i)
    BY <2>1
  <2> HIDE DEF Step, B
  <2> QED
    BY <1>5, <2>2
<1>7. rank \in [P -> 0..N]
  BY DEF P
<1>8. Recurs(P, V, B)
  <2> HIDE DEF V, B, Step, rank, N
  <2>1. Grounded(P, V, rank, B)
    BY <1>6, Zenon DEF Grounded
  <2>2. V # {}
    BY <1>1
  <2> QED
    BY <1>1, <1>4, <1>7, <2>1, <2>2, Recursion, Zenon
<1>9. PICK f \in [P -> V] : \A i \in P : f[i] = Step(f, i)
  <2> HIDE DEF V, B, Step
  <2> QED
    BY <1>5, <1>8 DEF Recurs
<1>10. f = [i \in P |-> Step(f, i)]
  <2> HIDE DEF V, B, Step
  <2> QED
    BY <1>9
<1> DEFINE upTo == InternWalk(names, words)
<1>11. upTo = [i \in P |-> Step(upTo, i)]
  BY <1>10, Zenon DEF InternWalk, P
<1>12. \A i \in P : upTo[i] = Step(upTo, i)
  <2> HIDE DEF upTo, Step
  <2> QED
    BY <1>11
<1>13. 0 \in P /\ \A i \in 1..N : i \in P /\ i # 0
  BY <1>1 DEF P
<1> HIDE DEF upTo, N
<1>14. upTo[0] = {Started(names)} /\ \A i \in 1..N : upTo[i] = {Took(x, words[i]) : x \in upTo[i - 1]}
  BY <1>12, <1>13, Zenon
<1> QED
  BY <1>14 DEF upTo, N

(* Interning keeps the ids there were, and when it succeeds there is one   *)
(* for every name.                                                         *)
LEMMA InternAllIs ==
  ASSUME NEW names, Tables(names), NEW words \in Seq(Words)
  PROVE  InternedUpTo(names, words, Len(words), internAll(names, words))
<1> DEFINE N == Len(words)
           upTo == InternWalk(names, words)
           Good(n) == upTo[n] # {} /\ \A x \in upTo[n] : InternedUpTo(names, words, n, x)
           Bad == {n \in 0..N : ~Good(n)}
<1>1. N \in Nat
  OBVIOUS
<1>2. upTo[0] = {Started(names)} /\ \A i \in 1..N : upTo[i] = {Took(x, words[i]) : x \in upTo[i - 1]}
  BY InternsRecur
<1>3. Good(0)
  <2>1. \A i \in 1..Len(words) : ~(i <= 0)
    BY <1>1
  <2>2. Grows(names, names)
    BY DEF Grows, Lengthens, Tables, Table
  <2>3. Started(names) \in Internings /\ Started(names).names = names
    BY DEF Started, Internings, Tables
  <2>4. InternedUpTo(names, words, 0, Started(names))
    BY <2>1, <2>2, <2>3 DEF InternedUpTo
  <2> QED
    BY <1>2, <2>4
<1>4. ASSUME NEW n \in 1..N, Good(n - 1)
      PROVE  Good(n)
  <2>1. upTo[n] = {Took(x, words[n]) : x \in upTo[n - 1]}
    BY <1>2
  <2>2. \A x \in upTo[n - 1] : InternedUpTo(names, words, n, Took(x, words[n]))
    <3> HIDE DEF upTo
    <3> QED
      BY <1>4, TookIs
  <2> HIDE DEF upTo
  <2> QED
    BY <1>4, <2>1, <2>2
<1>5. Bad = {}
  <2> SUFFICES ASSUME Bad # {}
               PROVE  FALSE
    OBVIOUS
  <2> HIDE DEF Good
  <2>1. PICK m \in Bad : \A n \in Bad : m <= n
    <3>1. Bad \subseteq Nat
      BY <1>1
    <3> HIDE DEF Bad
    <3> QED
      BY <3>1, LeastNat
  <2>2. m \in 0..N /\ ~Good(m)
    OBVIOUS
  <2>3. m \in 1..N /\ m - 1 \in 0..N /\ ~(m <= m - 1)
    BY <1>1, <1>3, <2>2
  <2>4. Good(m - 1)
    BY <2>1, <2>3
  <2> QED
    BY <1>4, <2>2, <2>3, <2>4
<1>6. Good(N)
  <2> HIDE DEF Good
  <2> QED
    BY <1>1, <1>5
<1>7. internAll(names, words) = CHOOSE x \in upTo[N] : TRUE
  BY InternAllWalks
<1>8. internAll(names, words) \in upTo[N]
  <2> HIDE DEF upTo, N
  <2> QED
    BY <1>6, <1>7
<1> QED
  BY <1>6, <1>8

-----------------------------------------------------------------------------
(* What is held of a tuple: its ids. *)

(* No name is the empty one, whose id is 0. *)
LEMMA NoNameUnseen ==
  ASSUME NEW names, Tables(names), NEW space \in Spaces
  PROVE  Table(names[space]) /\ ~Seen(names[space], NoName) /\ lookup(names[space], NoName) = 0
<1>1. Table(names[space])
  BY DEF Tables
<1>2. ~Seen(names[space], NoName)
  BY <1>1, DictionaryAssumption DEF Seen, Table
<1> QED
  BY <1>1, <1>2, LookupIs

(* A name's id says which name it is. *)
LEMMA IdsDiffer ==
  ASSUME NEW table, Table(table), NEW s, NEW other, Seen(table, s) \/ Seen(table, other)
  PROVE  lookup(table, s) = lookup(table, other) <=> s = other
BY LookupIs DEF Table

(* Every name of a subject, or of a tuple, has an id. *)
SubjectSeen(names, s) ==
  /\ Seen(names["types"], s.type)
  /\ s.id # WildcardMarker => Seen(names["objects"], s.id)
  /\ s.relation # NoName => Seen(names["relations"], s.relation)

TupleSeen(names, t) ==
  /\ Seen(names["types"], t.resource.type) /\ Seen(names["objects"], t.resource.id)
  /\ Seen(names["relations"], t.relation) /\ SubjectSeen(names, t.subject)

(* Subjects by their names. *)
SubjectNames ==
  {s \in [type : Names, id : Names \cup {WildcardMarker}, relation : Names \cup {NoName}] :
     s.id = WildcardMarker => s.relation = NoName}

(* A subject all of whose names have ids has ids that say its kind. *)
LEMMA SubjectResolves ==
  ASSUME NEW names, Tables(names), NEW s \in SubjectNames
  PROVE  LET ids == LookupSubjectRef(names, s)
         IN  /\ ValidSubject(ids) /\ (s.relation # NoName => ids.relation # 0) <=> SubjectSeen(names, s)
             /\ SubjectSeen(names, s) => ids \in Subjects
<1> DEFINE ids == LookupSubjectRef(names, s)
           T == names["types"]
           O == names["objects"]
           R == names["relations"]
<1>1. Table(T) /\ Table(O) /\ Table(R)
  BY DEF Tables, Spaces
<1>2. /\ IF Seen(T, s.type) THEN lookup(T, s.type) \in 1..Len(T) ELSE lookup(T, s.type) = 0
      /\ IF Seen(O, s.id) THEN lookup(O, s.id) \in 1..Len(O) ELSE lookup(O, s.id) = 0
      /\ IF Seen(R, s.relation) THEN lookup(R, s.relation) \in 1..Len(R) ELSE lookup(R, s.relation) = 0
      /\ ~Seen(R, NoName)
  <2> HIDE DEF T, O, R
  <2>1. ~Seen(R, NoName)
    BY NoNameUnseen DEF R, Spaces
  <2> QED
    BY <1>1, <2>1, LookupIs
<1>3. Len(T) \in Nat /\ Len(O) \in Nat /\ Len(R) \in Nat
  <2> HIDE DEF T, O, R
  <2> QED
    BY <1>1 DEF Table
<1>4. /\ ids.type = lookup(T, s.type)
      /\ ids.id = IF s.id = WildcardMarker THEN 0 ELSE lookup(O, s.id)
      /\ ids.relation = lookup(R, s.relation) /\ ids.wildcard \in BOOLEAN /\ (ids.wildcard <=> s.id = WildcardMarker)
      /\ ids = [type |-> ids.type, id |-> ids.id, relation |-> ids.relation, wildcard |-> ids.wildcard]
  BY DEF LookupSubjectRef, LookupRelation
<1> HIDE DEF ids, T, O, R
<1>5. s.id = WildcardMarker => s.relation = NoName
  BY DEF SubjectNames
<1>6. ids \in SubjectRefs
  <2>1. ids.type \in Nat /\ ids.relation \in Nat
    BY <1>2, <1>3, <1>4
  <2>2. ids.id \in Nat
    BY <1>2, <1>3, <1>4
  <2> QED
    BY <1>4, <2>1, <2>2 DEF SubjectRefs
<1>7. SubjectSeen(names, s) <=>
        /\ Seen(T, s.type) /\ (s.id # WildcardMarker => Seen(O, s.id))
        /\ (s.relation # NoName => Seen(R, s.relation))
  BY DEF SubjectSeen, T, O, R
<1>8. ValidSubject(ids) /\ (s.relation # NoName => ids.relation # 0) <=> SubjectSeen(names, s)
  <2>1. ids.type # 0 <=> Seen(T, s.type)
    BY <1>2, <1>3, <1>4
  <2>2. CASE s.id = WildcardMarker
    <3>1. ids.wildcard /\ ids.id = 0 /\ s.relation = NoName /\ ids.relation = 0
      BY <1>2, <1>4, <1>5, <2>2
    <3> QED
      BY <1>7, <2>1, <2>2, <3>1 DEF ValidSubject
  <2>3. CASE s.id # WildcardMarker
    <3>1. ~ids.wildcard /\ (ids.id # 0 <=> Seen(O, s.id))
      BY <1>2, <1>3, <1>4, <2>3
    <3>2. s.relation # NoName => (ids.relation # 0 <=> Seen(R, s.relation))
      BY <1>2, <1>3, <1>4
    <3> QED
      BY <1>7, <2>1, <2>3, <3>1, <3>2 DEF ValidSubject
  <2> QED
    BY <2>2, <2>3
<1>9. SubjectSeen(names, s) => ids \in Subjects
  BY <1>2, <1>3, <1>4, <1>5, <1>6, <1>7 DEF Subjects
<1> QED
  BY <1>8, <1>9 DEF ids

(* A tuple resolves when all its names have ids, and is an item then. *)
LEMMA ResolvesIs ==
  ASSUME NEW names, Tables(names), NEW t \in TupleNames
  PROVE  /\ resolves(names, t) <=> TupleSeen(names, t)
         /\ resolves(names, t) => \A present \in BOOLEAN : Item(names, t, present) \in Items
<1> DEFINE T == names["types"]
           O == names["objects"]
           R == names["relations"]
           o == LookupObjectRef(names, t.resource)
           r == LookupRelation(names, t.relation)
           s == LookupSubjectRef(names, t.subject)
<1>0. t.subject \in SubjectNames
  BY DEF TupleNames, SubjectNames
<1>1. Table(T) /\ Table(O) /\ Table(R)
  BY DEF Tables, Spaces
<1>2. /\ IF Seen(T, t.resource.type) THEN lookup(T, t.resource.type) \in 1..Len(T) ELSE lookup(T, t.resource.type) = 0
      /\ IF Seen(O, t.resource.id) THEN lookup(O, t.resource.id) \in 1..Len(O) ELSE lookup(O, t.resource.id) = 0
      /\ IF Seen(R, t.relation) THEN lookup(R, t.relation) \in 1..Len(R) ELSE lookup(R, t.relation) = 0
  <2> HIDE DEF T, O, R
  <2> QED
    BY <1>1, LookupIs
<1>3. Len(T) \in Nat /\ Len(O) \in Nat /\ Len(R) \in Nat
  <2> HIDE DEF T, O, R
  <2> QED
    BY <1>1 DEF Table
<1>4. /\ o = [type |-> lookup(T, t.resource.type), id |-> lookup(O, t.resource.id)]
      /\ r = lookup(R, t.relation)
  BY DEF LookupObjectRef, LookupRelation
<1>5. /\ ValidSubject(s) /\ (t.subject.relation # NoName => s.relation # 0) <=> SubjectSeen(names, t.subject)
      /\ SubjectSeen(names, t.subject) => s \in Subjects
  BY <1>0, SubjectResolves
<1>6. \A p : Item(names, t, p) = [key |-> [object |-> o, relation |-> r], subject |-> s, present |-> p]
  BY DEF Item
<1>7. resolves(names, t) <=> /\ ValidObject(o) /\ r # 0
                             /\ ValidSubject(s) /\ (t.subject.relation # NoName => s.relation # 0)
  <2> DEFINE it == Item(names, t, FALSE)
  <2>1. it.key.object = o /\ it.key.relation = r /\ it.subject = s
    <3>1. it = [key |-> [object |-> o, relation |-> r], subject |-> s, present |-> FALSE]
      BY Zenon DEF Item
    <3> HIDE DEF it, o, r, s
    <3> QED
      BY <3>1
  <2>2. resolves(names, t) <=> /\ ValidObject(it.key.object) /\ it.key.relation # 0
                               /\ ValidSubject(it.subject)
                               /\ (t.subject.relation # NoName => it.subject.relation # 0)
    BY Zenon DEF resolves
  <2> HIDE DEF o, r, s, it
  <2> QED
    BY <2>1, <2>2
<1>8. TupleSeen(names, t) <=>
        /\ Seen(T, t.resource.type) /\ Seen(O, t.resource.id) /\ Seen(R, t.relation)
        /\ SubjectSeen(names, t.subject)
  BY DEF TupleSeen
<1> HIDE DEF T, O, R, o, r, s
<1>9. ValidObject(o) /\ r # 0 <=> Seen(T, t.resource.type) /\ Seen(O, t.resource.id) /\ Seen(R, t.relation)
  BY <1>2, <1>3, <1>4 DEF ValidObject
<1>10. o \in ObjectRefs /\ r \in Nat
  BY <1>2, <1>3, <1>4 DEF ObjectRefs
<1>11. resolves(names, t) <=> TupleSeen(names, t)
  BY <1>5, <1>7, <1>8, <1>9
<1>12. resolves(names, t) => \A p \in BOOLEAN : Item(names, t, p) \in Items
  BY <1>5, <1>6, <1>8, <1>10, <1>11 DEF Items, Keys
<1> QED
  BY <1>11, <1>12

(* Two subjects have the same ids only if they have the same names. *)
LEMMA SameSubject ==
  ASSUME NEW names, Tables(names), NEW s \in SubjectNames, SubjectSeen(names, s),
         NEW other \in SubjectNames,
         other.relation # NoName => Seen(names["relations"], other.relation)
  PROVE  LookupSubjectRef(names, s) = LookupSubjectRef(names, other) <=> s = other
<1> DEFINE T == names["types"]
           O == names["objects"]
           R == names["relations"]
<1>1. Table(T) /\ Table(O) /\ Table(R) /\ ~Seen(R, NoName)
  BY NoNameUnseen DEF Tables, Spaces
<1>2. /\ Seen(T, s.type) /\ (s.id # WildcardMarker => Seen(O, s.id))
      /\ (s.relation # NoName => Seen(R, s.relation))
      /\ (other.relation # NoName => Seen(R, other.relation))
  BY DEF SubjectSeen
<1>3. /\ s = [type |-> s.type, id |-> s.id, relation |-> s.relation]
      /\ other = [type |-> other.type, id |-> other.id, relation |-> other.relation]
  BY DEF SubjectNames
<1>4. /\ LookupSubjectRef(names, s) =
           [type |-> lookup(T, s.type), id |-> IF s.id = WildcardMarker THEN 0 ELSE lookup(O, s.id),
            relation |-> lookup(R, s.relation), wildcard |-> s.id = WildcardMarker]
      /\ LookupSubjectRef(names, other) =
           [type |-> lookup(T, other.type), id |-> IF other.id = WildcardMarker THEN 0 ELSE lookup(O, other.id),
            relation |-> lookup(R, other.relation), wildcard |-> other.id = WildcardMarker]
  BY Zenon DEF LookupSubjectRef, LookupRelation
<1> HIDE DEF T, O, R
<1>5. s.type = other.type <=> lookup(T, s.type) = lookup(T, other.type)
  BY <1>1, <1>2, IdsDiffer
<1>6. s.id # WildcardMarker => (s.id = other.id <=> lookup(O, s.id) = lookup(O, other.id))
  BY <1>1, <1>2, IdsDiffer
<1>7. s.relation = other.relation <=> lookup(R, s.relation) = lookup(R, other.relation)
  <2>1. CASE s.relation = NoName /\ other.relation = NoName
    BY <2>1
  <2>2. CASE s.relation # NoName \/ other.relation # NoName
    BY <1>1, <1>2, <2>2, IdsDiffer
  <2> QED
    BY <2>1, <2>2
<1>8. ASSUME LookupSubjectRef(names, s) = LookupSubjectRef(names, other)
      PROVE  s = other
  <2>1. /\ lookup(T, s.type) = lookup(T, other.type) /\ lookup(R, s.relation) = lookup(R, other.relation)
        /\ (s.id = WildcardMarker <=> other.id = WildcardMarker)
        /\ (s.id # WildcardMarker => lookup(O, s.id) = lookup(O, other.id))
    BY <1>4, <1>8
  <2>2. s.id = other.id
    BY <1>6, <2>1
  <2> QED
    BY <1>3, <1>5, <1>7, <2>1, <2>2
<1> QED
  BY <1>8

(* Two keys have the same ids only if they have the same names. *)
LEMMA SameKey ==
  ASSUME NEW names, Tables(names), NEW t \in TupleNames, NEW u \in TupleNames,
         TupleSeen(names, t) \/ TupleSeen(names, u), NEW p, NEW q
  PROVE  Item(names, t, p).key = Item(names, u, q).key <=>
           t.resource = u.resource /\ t.relation = u.relation
<1> DEFINE T == names["types"]
           O == names["objects"]
           R == names["relations"]
<1>1. Table(T) /\ Table(O) /\ Table(R)
  BY DEF Tables, Spaces
<1>2. /\ Seen(T, t.resource.type) \/ Seen(T, u.resource.type)
      /\ Seen(O, t.resource.id) \/ Seen(O, u.resource.id)
      /\ Seen(R, t.relation) \/ Seen(R, u.relation)
  BY DEF TupleSeen
<1>3. /\ Item(names, t, p).key = [object |-> [type |-> lookup(T, t.resource.type), id |-> lookup(O, t.resource.id)],
                                  relation |-> lookup(R, t.relation)]
      /\ Item(names, u, q).key = [object |-> [type |-> lookup(T, u.resource.type), id |-> lookup(O, u.resource.id)],
                                  relation |-> lookup(R, u.relation)]
  BY DEF Item, LookupObjectRef, LookupRelation
<1>4. /\ t.resource = [type |-> t.resource.type, id |-> t.resource.id]
      /\ u.resource = [type |-> u.resource.type, id |-> u.resource.id]
  BY DEF TupleNames
<1> HIDE DEF T, O, R
<1>5. /\ lookup(T, t.resource.type) = lookup(T, u.resource.type) <=> t.resource.type = u.resource.type
      /\ lookup(O, t.resource.id) = lookup(O, u.resource.id) <=> t.resource.id = u.resource.id
      /\ lookup(R, t.relation) = lookup(R, u.relation) <=> t.relation = u.relation
  BY <1>1, <1>2, IdsDiffer
<1>6. t.resource = u.resource <=> t.resource.type = u.resource.type /\ t.resource.id = u.resource.id
  BY <1>4
<1>7. Item(names, t, p).key = Item(names, u, q).key <=>
        /\ lookup(T, t.resource.type) = lookup(T, u.resource.type)
        /\ lookup(O, t.resource.id) = lookup(O, u.resource.id)
        /\ lookup(R, t.relation) = lookup(R, u.relation)
  BY <1>3
<1> QED
  BY <1>5, <1>6, <1>7

(* Two tuples that resolve make the same item just when they are the same. *)
LEMMA SameItem ==
  ASSUME NEW names, Tables(names), NEW t \in TupleNames, NEW u \in TupleNames,
         resolves(names, t), resolves(names, u), NEW p \in BOOLEAN
  PROVE  Item(names, t, p) = Item(names, u, p) <=> t = u
<1>1. TupleSeen(names, t) /\ TupleSeen(names, u)
  BY ResolvesIs
<1>2. /\ t = [resource |-> t.resource, relation |-> t.relation, subject |-> t.subject]
      /\ u = [resource |-> u.resource, relation |-> u.relation, subject |-> u.subject]
      /\ t.subject \in SubjectNames /\ u.subject \in SubjectNames
  BY DEF TupleNames, SubjectNames
<1>3. SubjectSeen(names, t.subject) /\ SubjectSeen(names, u.subject)
  BY <1>1 DEF TupleSeen
<1>4. LookupSubjectRef(names, t.subject) = LookupSubjectRef(names, u.subject) <=> t.subject = u.subject
  BY <1>2, <1>3, SameSubject DEF SubjectSeen
<1>5. Item(names, t, p).key = Item(names, u, p).key <=> t.resource = u.resource /\ t.relation = u.relation
  BY <1>1, SameKey
<1>6. /\ Item(names, t, p).subject = LookupSubjectRef(names, t.subject)
      /\ Item(names, u, p).subject = LookupSubjectRef(names, u.subject)
  BY DEF Item
<1>7. Item(names, t, p) = Item(names, u, p) => t = u
  BY <1>2, <1>4, <1>5, <1>6
<1> QED
  BY <1>7

(* What resolves goes on doing so, to the same ids. *)
LEMMA GrownItem ==
  ASSUME NEW names, Tables(names), NEW later, Tables(later), Grows(names, later),
         NEW t \in TupleNames, resolves(names, t)
  PROVE  resolves(later, t) /\ \A p : Item(later, t, p) = Item(names, t, p)
<1> DEFINE s == t.subject
<1>1. \A space \in Spaces : \A x :
        Seen(names[space], x) => Seen(later[space], x) /\ lookup(later[space], x) = lookup(names[space], x)
  <2> SUFFICES ASSUME NEW space \in Spaces, NEW x, Seen(names[space], x)
               PROVE  Seen(later[space], x) /\ lookup(later[space], x) = lookup(names[space], x)
    OBVIOUS
  <2>1. Table(names[space]) /\ Table(later[space]) /\ Lengthens(names[space], later[space])
    BY DEF Tables, Grows
  <2> QED
    BY <2>1, GrownLookup
<1>2. "types" \in Spaces /\ "objects" \in Spaces /\ "relations" \in Spaces
  BY DEF Spaces
<1>3. TupleSeen(names, t)
  BY ResolvesIs
<1>4. TupleSeen(later, t)
  BY <1>1, <1>2, <1>3 DEF TupleSeen, SubjectSeen
<1>5. resolves(later, t)
  BY <1>4, ResolvesIs
<1>6. LookupObjectRef(later, t.resource) = LookupObjectRef(names, t.resource)
  BY <1>1, <1>2, <1>3 DEF TupleSeen, LookupObjectRef
<1>7. LookupRelation(later, t.relation) = LookupRelation(names, t.relation)
  BY <1>1, <1>2, <1>3 DEF TupleSeen, LookupRelation
<1>8. LookupRelation(later, s.relation) = LookupRelation(names, s.relation)
  <2>1. CASE s.relation = NoName
    BY <1>2, <2>1, NoNameUnseen DEF LookupRelation
  <2>2. CASE s.relation # NoName
    BY <1>1, <1>2, <1>3, <2>2 DEF TupleSeen, SubjectSeen, LookupRelation
  <2> QED
    BY <2>1, <2>2
<1>9. LookupSubjectRef(later, s) = LookupSubjectRef(names, s)
  BY <1>1, <1>2, <1>3, <1>8 DEF TupleSeen, SubjectSeen, LookupSubjectRef
<1> QED
  BY <1>5, <1>6, <1>7, <1>9 DEF Item

(* Two lists one after the other. *)
LEMMA Joined ==
  ASSUME NEW S, NEW a \in Seq(S), NEW b \in Seq(S)
  PROVE  a \o b \in Seq(S) /\ ToSet(a \o b) = ToSet(a) \cup ToSet(b)
<1> DEFINE c == a \o b
<1>1. /\ c \in Seq(S) /\ Len(c) = Len(a) + Len(b) /\ Len(a) \in Nat /\ Len(b) \in Nat
      /\ DOMAIN a = 1..Len(a) /\ DOMAIN b = 1..Len(b) /\ DOMAIN c = 1..Len(c)
      /\ \A i \in 1..Len(a) : c[i] = a[i]
      /\ \A i \in 1..Len(b) : c[Len(a) + i] = b[i]
  OBVIOUS
<1> DEFINE m == Len(a)
           n == Len(b)
<1> HIDE DEF c, m, n
<1>2. \A i \in 1..m : i \in 1..(m + n)
  BY <1>1 DEF m, n
<1>3. \A i \in 1..n : m + i \in 1..(m + n)
  BY <1>1 DEF m, n
<1>4. \A i \in 1..(m + n) : i \in 1..m \/ \E j \in 1..n : i = m + j
  <2> TAKE i \in 1..(m + n)
  <2>1. i > m => i - m \in 1..n /\ i = m + (i - m)
    BY <1>1 DEF m, n
  <2>2. i <= m => i \in 1..m
    BY <1>1 DEF m, n
  <2>3. i > m \/ i <= m
    BY <1>1 DEF m, n
  <2> QED
    BY <2>1, <2>2, <2>3, Zenon
<1>5. ToSet(c) = ToSet(a) \cup ToSet(b)
  <2>1. ToSet(c) \subseteq ToSet(a) \cup ToSet(b)
    <3> SUFFICES ASSUME NEW i \in 1..(m + n)
                 PROVE  c[i] \in ToSet(a) \cup ToSet(b)
      BY <1>1 DEF ToSet, m, n
    <3>1. CASE i \in 1..m
      BY <1>1, <3>1 DEF ToSet, m
    <3>2. ASSUME NEW j \in 1..n, i = m + j
          PROVE  c[i] \in ToSet(b)
      BY <1>1, <3>2 DEF ToSet, m, n
    <3> QED
      BY <1>4, <3>1, <3>2
  <2>2. ToSet(a) \subseteq ToSet(c)
    BY <1>1, <1>2 DEF ToSet, m, n
  <2>3. ToSet(b) \subseteq ToSet(c)
    BY <1>1, <1>3 DEF ToSet, m, n
  <2> QED
    BY <2>1, <2>2, <2>3
<1> QED
  BY <1>1, <1>5 DEF c

(* Two lists of words one after the other. *)
LEMMA JoinedWords ==
  ASSUME NEW a \in Seq(Words), NEW b \in Seq(Words)
  PROVE  a \o b \in Seq(Words) /\ ToSet(a \o b) = ToSet(a) \cup ToSet(b)
BY Joined

(* The words of a tuple, in the order they are interned. *)
LEMMA TupleWordsAre ==
  ASSUME NEW t \in TupleNames
  PROVE  /\ tupleWords(t) \in Seq(Words)
         /\ ToSet(tupleWords(t)) =
              {Word("types", t.resource.type), Word("objects", t.resource.id),
               Word("relations", t.relation), Word("types", t.subject.type)}
              \cup (IF t.subject.id = WildcardMarker THEN {} ELSE {Word("objects", t.subject.id)})
              \cup (IF t.subject.relation = NoName THEN {} ELSE {Word("relations", t.subject.relation)})
<1> DEFINE a == <<Word("types", t.resource.type), Word("objects", t.resource.id)>>
           b == <<Word("relations", t.relation)>>
           c == <<Word("types", t.subject.type)>>
           d == IF t.subject.id = WildcardMarker THEN <<>> ELSE <<Word("objects", t.subject.id)>>
           e == IF t.subject.relation = NoName THEN <<>> ELSE <<Word("relations", t.subject.relation)>>
<1>1. /\ t.resource.type \in Names /\ t.resource.id \in Names /\ t.relation \in Names
      /\ t.subject.type \in Names /\ (t.subject.id # WildcardMarker => t.subject.id \in Names)
      /\ (t.subject.relation # NoName => t.subject.relation \in Names)
  BY DEF TupleNames
<1>2. \A space \in Spaces, x \in Names : Word(space, x) \in Words
  BY DEF Word, Words
<1>3. /\ Word("types", t.resource.type) \in Words /\ Word("objects", t.resource.id) \in Words
      /\ Word("relations", t.relation) \in Words /\ Word("types", t.subject.type) \in Words
      /\ (t.subject.id # WildcardMarker => Word("objects", t.subject.id) \in Words)
      /\ (t.subject.relation # NoName => Word("relations", t.subject.relation) \in Words)
  BY <1>1, <1>2 DEF Spaces
<1>4. \A x \in Words : <<x>> \in Seq(Words) /\ ToSet(<<x>>) = {x}
  BY DEF ToSet
<1>5. \A x, y \in Words : <<x, y>> \in Seq(Words) /\ ToSet(<<x, y>>) = {x, y}
  BY DEF ToSet
<1>6. <<>> \in Seq(Words) /\ ToSet(<<>>) = {}
  BY DEF ToSet
<1>7. a \in Seq(Words) /\ ToSet(a) = {Word("types", t.resource.type), Word("objects", t.resource.id)}
  BY <1>3, <1>5
<1>8. b \in Seq(Words) /\ ToSet(b) = {Word("relations", t.relation)}
  BY <1>3, <1>4
<1>9. c \in Seq(Words) /\ ToSet(c) = {Word("types", t.subject.type)}
  BY <1>3, <1>4
<1>10. d \in Seq(Words) /\ ToSet(d) = IF t.subject.id = WildcardMarker THEN {} ELSE {Word("objects", t.subject.id)}
  BY <1>3, <1>4, <1>6
<1>11. e \in Seq(Words) /\ ToSet(e) = IF t.subject.relation = NoName THEN {} ELSE {Word("relations", t.subject.relation)}
  BY <1>3, <1>4, <1>6
<1>12. tupleWords(t) = a \o b \o (c \o d \o e)
  BY Zenon DEF tupleWords, objectWords, subjectWords
<1> HIDE DEF a, b, c, d, e
<1>13. a \o b \in Seq(Words) /\ ToSet(a \o b) = ToSet(a) \cup ToSet(b)
  BY <1>7, <1>8, JoinedWords
<1>14. c \o d \in Seq(Words) /\ ToSet(c \o d) = ToSet(c) \cup ToSet(d)
  BY <1>9, <1>10, JoinedWords
<1>15. c \o d \o e \in Seq(Words) /\ ToSet(c \o d \o e) = ToSet(c) \cup ToSet(d) \cup ToSet(e)
  <2> DEFINE x == c \o d
  <2> HIDE DEF x
  <2>1. x \o e \in Seq(Words) /\ ToSet(x \o e) = ToSet(x) \cup ToSet(e)
    BY <1>11, <1>14, JoinedWords DEF x
  <2> QED
    BY <1>14, <2>1 DEF x
<1>16. /\ a \o b \o (c \o d \o e) \in Seq(Words)
       /\ ToSet(a \o b \o (c \o d \o e)) = ToSet(a) \cup ToSet(b) \cup (ToSet(c) \cup ToSet(d) \cup ToSet(e))
  <2> DEFINE x == a \o b
             y == c \o d \o e
  <2> HIDE DEF x, y
  <2>1. x \o y \in Seq(Words) /\ ToSet(x \o y) = ToSet(x) \cup ToSet(y)
    BY <1>13, <1>15, JoinedWords DEF x, y
  <2> QED
    BY <1>13, <1>15, <2>1 DEF x, y
<1> QED
  BY <1>7, <1>8, <1>9, <1>10, <1>11, <1>12, <1>16

(* A word that is among those interned is seen. *)
LEMMA InternedSeen ==
  ASSUME NEW names, NEW words \in Seq(Words), NEW x, InternedUpTo(names, words, Len(words), x), x.ok,
         NEW space, NEW name, Word(space, name) \in ToSet(words), name # NoName
  PROVE  Seen(x.names[space], name)
<1>1. PICK i \in 1..Len(words) : words[i] = Word(space, name)
  BY DEF ToSet
<1>2. words[i].space = space /\ words[i].name = name
  BY <1>1 DEF Word
<1>3. i <= Len(words)
  OBVIOUS
<1> QED
  BY <1>2, <1>3 DEF InternedUpTo

(* A tuple whose words have been interned resolves. *)
LEMMA InternedResolves ==
  ASSUME NEW names, Tables(names), NEW t \in TupleNames, internAll(names, tupleWords(t)).ok
  PROVE  resolves(internAll(names, tupleWords(t)).names, t)
<1> DEFINE x == internAll(names, tupleWords(t))
           words == tupleWords(t)
<1>1. InternedUpTo(names, words, Len(words), x) /\ words \in Seq(Words)
  BY TupleWordsAre, InternAllIs
<1>2. Tables(x.names)
  BY <1>1 DEF InternedUpTo
<1>3. /\ Word("types", t.resource.type) \in ToSet(words) /\ Word("objects", t.resource.id) \in ToSet(words)
      /\ Word("relations", t.relation) \in ToSet(words) /\ Word("types", t.subject.type) \in ToSet(words)
      /\ (t.subject.id # WildcardMarker => Word("objects", t.subject.id) \in ToSet(words))
      /\ (t.subject.relation # NoName => Word("relations", t.subject.relation) \in ToSet(words))
  BY TupleWordsAre
<1>4. /\ t.resource.type # NoName /\ t.resource.id # NoName /\ t.relation # NoName
      /\ t.subject.type # NoName /\ (t.subject.id # WildcardMarker => t.subject.id # NoName)
  BY DictionaryAssumption DEF TupleNames
<1> HIDE DEF x, words
<1>5. x.ok
  BY DEF x, words
<1>6. TupleSeen(x.names, t)
  BY <1>1, <1>3, <1>4, <1>5, InternedSeen DEF TupleSeen, SubjectSeen
<1> QED
  BY <1>2, <1>6, ResolvesIs DEF x, words

=============================================================================
