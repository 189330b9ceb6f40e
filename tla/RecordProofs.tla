---------------------------- MODULE RecordProofs ----------------------------
(***************************************************************************)
(* That what a Check records is the tree of the calls it made, whatever    *)
(* the schema, the tuples and the limit of the proof.                      *)
(*                                                                         *)
(* Every node is in the hand of one call, the one that will return it, or  *)
(* is linked to once, from a node before it (Holding, Linking); the calls  *)
(* hold their nodes in the order of the call stack, and a rewrite has none *)
(* only once the proof is full, or while it is paused (Recording); and     *)
(* only the rewrites under way are incomplete, unless there was an error,  *)
(* which leaves one path of them (Telling).  When the Check is finished    *)
(* nothing is in hand but the root.                                        *)
(***************************************************************************)
EXTENDS CheckProofs

(* The first m places of a sequence that has as many. *)
LEMMA Prefix ==
  ASSUME NEW S, NEW s \in Seq(S), NEW m \in Nat, Len(s) >= m
  PROVE  \A i \in 1 .. m : i \in DOMAIN s
OBVIOUS

(* The frame on top, by what it waits for. *)
LEMMA OnTopOf ==
  ASSUME Typed, frames # <<>>, NEW f, f = Last(frames)
  PROVE  /\ f \in Frames /\ frames[Len(frames)] = f
         /\ f.at = "operands" => f \in OperandsFrames
         /\ f.at \in {"relation", "settle"} => f \in RelationFrames
         /\ f.at \in {"operands", "relation", "settle"}
<1>1. f \in Frames /\ frames[Len(frames)] = f
  BY OnTop DEF Typed
<1> QED
  BY <1>1 DEF Frames, OperandsFrames, RelationFrames

-----------------------------------------------------------------------------
(* The recorder.  A step leaves all frames but one as they are: m of them. *)

Beneath(m) ==
  /\ m \in Nat /\ Len(frames) \in {m, m + 1} /\ Len(frames') \in {m, m + 1}
  /\ \A i \in 1 .. m : frames'[i] = frames[i]

(* The node that the other frame keeps. *)
TopKeeps(m) == IF Len(frames) = m THEN NoNode ELSE Keeps(frames[m + 1])

(* What is in hand is so below, on top or in what happens next. *)
LEMMA InHandIs ==
  ASSUME Typed, Typed', NEW m \in Nat, Beneath(m), NEW n \in Nat \ {0}
  PROVE  /\ InHand(n) <=> \/ n = Carried \/ n = TopKeeps(m)
                          \/ \E i \in 1 .. m : Keeps(frames[i]) = n
         /\ InHand(n)' <=> \/ n = Carried' \/ n = TopKeeps(m)'
                           \/ \E i \in 1 .. m : Keeps(frames[i]) = n
<1>1. /\ frames \in Seq(Frames) /\ frames' \in Seq(Frames')
      /\ Len(frames) \in {m, m + 1} /\ Len(frames') \in {m, m + 1}
      /\ \A i \in 1 .. m : frames'[i] = frames[i]
  BY DEF Typed, Beneath
<1>2. /\ \A i : i \in DOMAIN frames <=> i \in 1 .. m \/ (i = m + 1 /\ Len(frames) = m + 1)
      /\ \A i : i \in DOMAIN frames' <=> i \in 1 .. m \/ (i = m + 1 /\ Len(frames') = m + 1)
  BY <1>1
<1>3. /\ Len(frames) = m => TopKeeps(m) = NoNode
      /\ Len(frames) = m + 1 => TopKeeps(m) = Keeps(frames[m + 1])
      /\ Len(frames') = m => TopKeeps(m)' = NoNode
      /\ Len(frames') = m + 1 => TopKeeps(m)' = Keeps(frames'[m + 1])
  BY <1>1 DEF TopKeeps
<1> QED
  BY <1>1, <1>2, <1>3 DEF InHand, NoNode

(* Nodes are handed on in order. *)
LEMMA HoldingMoves ==
  ASSUME Typed, Typed', Holding, NEW m \in Nat, Beneath(m),
         Len(proof.nodes) <= Len(proof'.nodes),
         TopKeeps(m)' \in {NoNode, TopKeeps(m), Carried},
         Carried' \in {NoNode, TopKeeps(m), Carried},
         Len(frames') = m + 1 => Carried' = NoNode \/ frames'[m + 1].at = "relation"
  PROVE  Holding'
<1>1. /\ frames \in Seq(Frames) /\ frames' \in Seq(Frames')
      /\ Len(frames) \in {m, m + 1} /\ Len(frames') \in {m, m + 1}
      /\ proof.nodes \in Seq(Nodes) /\ proof'.nodes \in Seq(Nodes)
      /\ \A i \in 1 .. m : frames'[i] = frames[i]
  BY DEF Typed, Beneath, Proofs
<1>2. \A i \in 1 .. m : \A n : Before(i, n)' <=> Before(i, n)
  BY <1>1 DEF Before, Settling, Unrecorded
<1>3. \A i : Before(i, NoNode)
  BY DEF Before
<1>4. \A i \in 1 .. m : Before(i, Carried) /\ Before(i, TopKeeps(m))
  <2>1. \A i \in 1 .. m : i \in DOMAIN frames
    BY <1>1
  <2>2. Len(frames) = m + 1 => \A i \in 1 .. m : m + 1 \in i + 1 .. Len(frames)
    BY <1>1
  <2> QED
    BY <1>1, <1>3, <2>1, <2>2 DEF Holding, TopKeeps
<1>5. /\ Carried \in 0 .. Len(proof'.nodes)
      /\ TopKeeps(m) \in 0 .. Len(proof'.nodes)
  BY <1>1 DEF Holding, TopKeeps, NoNode
<1>6. Carried' \in 0 .. Len(proof'.nodes) /\ TopKeeps(m)' \in 0 .. Len(proof'.nodes)
  BY <1>1, <1>5 DEF NoNode
<1>7. \A i \in 1 .. m : Before(i, Carried)' /\ Before(i, TopKeeps(m))'
  <2>1. \A i \in 1 .. m : Before(i, Carried') /\ Before(i, TopKeeps(m)')
    BY <1>3, <1>4
  <2> QED
    BY <1>1, <2>1 DEF Before, Settling, Unrecorded
<1>8. Len(frames') = m + 1 => TopKeeps(m)' = Keeps(frames'[m + 1])
  BY <1>1 DEF TopKeeps
<1>9. Len(frames') = m + 1 => Before(m + 1, Carried)'
  <2>1. SUFFICES ASSUME Len(frames') = m + 1, Carried' # NoNode
                 PROVE  Before(m + 1, Carried)'
    BY DEF Before
  <2>2. frames'[m + 1].at = "relation" /\ Keeps(frames'[m + 1]) = NoNode
    BY <2>1 DEF Keeps
  <2> QED
    BY <1>6, <2>1, <2>2 DEF Before, Settling, Unrecorded, NoNode
<1>10. \A i \in 1 .. m : \A j \in i + 1 .. m : Before(i, Keeps(frames[j]))'
  <2>1. \A i \in 1 .. m : \A j \in i + 1 .. m : Before(i, Keeps(frames[j]))
    <3>1. \A i \in 1 .. m : i \in DOMAIN frames
      BY <1>1
    <3>2. \A i \in 1 .. m : \A j \in i + 1 .. m : j \in i + 1 .. Len(frames)
      BY <1>1
    <3> QED
      BY <3>1, <3>2 DEF Holding
  <2>2. \A i \in 1 .. m : \A j \in i + 1 .. m : j \in 1 .. m
    BY <1>1
  <2> QED
    BY <1>1, <2>1, <2>2 DEF Before, Settling, Unrecorded
<1>11. \A i \in 1 .. m : Keeps(frames'[i]) \in 0 .. Len(proof'.nodes)
  <2>1. \A i \in 1 .. m : frames'[i] = frames[i] /\ i \in DOMAIN frames
    BY <1>1
  <2>2. \A i \in 1 .. m : Keeps(frames'[i]) \in 0 .. Len(proof.nodes)
    BY <2>1 DEF Holding
  <2> QED
    BY <1>1, <2>2
<1>12. ASSUME NEW i \in DOMAIN frames'
       PROVE  /\ Keeps(frames'[i]) \in 0 .. Len(proof'.nodes)
              /\ Before(i, Carried)'
              /\ \A j \in i + 1 .. Len(frames') : Before(i, Keeps(frames[j]))'
  <2>1. CASE i \in 1 .. m
    <3>1. \A j \in i + 1 .. Len(frames') : j \in i + 1 .. m \/ (j = m + 1 /\ Len(frames') = m + 1)
      BY <1>1
    <3>2. Len(frames') = m + 1 => Before(i, Keeps(frames[m + 1]))'
      BY <1>7, <1>8, <2>1 DEF Before
    <3> QED
      BY <1>7, <1>10, <1>11, <2>1, <3>1, <3>2
  <2>2. CASE i \notin 1 .. m
    <3>1. i = m + 1 /\ Len(frames') = m + 1
      BY <1>1, <2>2
    <3>2. i + 1 .. Len(frames') = {}
      BY <1>1, <3>1
    <3> QED
      BY <1>6, <1>8, <1>9, <3>1, <3>2
  <2> QED
    BY <2>1, <2>2
<1> QED
  BY <1>6, <1>12 DEF Holding

(* While the recorder is not paused no component settles. *)
LEMMA NoneSettles ==
  ASSUME Typed, Recording
  PROVE  /\ IsFiniteSet({i \in DOMAIN frames : Settling(i)})
         /\ proof.paused \in Nat
         /\ proof.paused = 0 <=> \A i \in DOMAIN frames : ~Settling(i)
<1> DEFINE settling == {i \in DOMAIN frames : Settling(i)}
<1>1. DOMAIN frames = 1 .. Len(frames) /\ Len(frames) \in Nat
  BY DEF Typed
<1>2. IsFiniteSet(1 .. Len(frames))
  BY <1>1, FS_Interval
<1>3. settling \in SUBSET (1 .. Len(frames))
  BY <1>1
<1>4. IsFiniteSet(settling)
  BY <1>2, <1>3, FS_Subset
<1>5. Cardinality(settling) \in Nat /\ (Cardinality(settling) = 0 <=> settling = {})
  BY <1>4, FS_CardinalityType, FS_EmptySet
<1> QED
  BY <1>4, <1>5 DEF Recording

(* A recorder that has room is held up by no call. *)
LEMMA RoomToRecord ==
  ASSUME Typed, Recording, NewNode # NoNode
  PROVE  /\ \A i \in DOMAIN frames : ~Settling(i) /\ ~Unrecorded(i)
         /\ NewNode = Len(proof.nodes) + 1 /\ proof.paused = 0
<1>1. /\ NewNode = Len(proof.nodes) + 1 /\ proof.paused = 0
      /\ Len(proof.nodes) < MaxProofNodes
  BY DEF NewNode
<1>2. \A i \in DOMAIN frames : ~Settling(i)
  BY <1>1, NoneSettles
<1>3. \A i \in DOMAIN frames : ~Unrecorded(i)
  <2>1. Len(proof.nodes) \in Nat /\ frames \in Seq(Frames)
    BY DEF Typed, Proofs
  <2>2. \A i \in DOMAIN frames : \A j \in 1 .. i - 1 : j \in DOMAIN frames
    BY <2>1
  <2>3. ~(Len(proof.nodes) >= MaxProofNodes)
    BY <1>1, <2>1, LimitAssumption
  <2> QED
    BY <1>2, <2>2, <2>3 DEF Recording
<1> QED
  BY <1>1, <1>2, <1>3

(* A new node is above all that is held. *)
LEMMA HoldingGrows ==
  ASSUME Typed, Typed', Recording, Holding, NEW m \in Nat, Beneath(m), Len(frames) = m,
         NewNode # NoNode, Len(proof'.nodes) = NewNode, Carried = NoNode,
         \/ TopKeeps(m)' = NewNode /\ Carried' = NoNode
         \/ TopKeeps(m)' = NoNode /\ Carried' = NewNode /\ frames' = frames
  PROVE  Holding'
<1>1. /\ frames \in Seq(Frames) /\ frames' \in Seq(Frames')
      /\ Len(frames) = m /\ Len(frames') \in {m, m + 1}
      /\ proof.nodes \in Seq(Nodes) /\ proof'.nodes \in Seq(Nodes)
      /\ \A i \in 1 .. m : frames'[i] = frames[i]
  BY DEF Typed, Beneath, Proofs
<1>2. /\ \A i \in DOMAIN frames : ~Settling(i) /\ ~Unrecorded(i)
      /\ NewNode = Len(proof.nodes) + 1
  BY RoomToRecord
<1>3. \A i \in 1 .. m : i \in DOMAIN frames /\ frames'[i] = frames[i]
  BY <1>1
<1>4. \A i \in 1 .. m : Keeps(frames'[i]) \in 0 .. Len(proof.nodes)
  BY <1>3 DEF Holding
<1>5. \A i \in 1 .. m : Keeps(frames'[i]) \in 0 .. Len(proof'.nodes) /\ Keeps(frames'[i]) < NewNode
  BY <1>1, <1>2, <1>4
<1>6. \A i \in 1 .. m : ~Settling(i)' /\ ~Unrecorded(i)'
  BY <1>2, <1>3 DEF Settling, Unrecorded
<1>7. Carried' \in 0 .. Len(proof'.nodes) /\ TopKeeps(m)' \in 0 .. Len(proof'.nodes)
  BY <1>1, <1>2 DEF NoNode
<1>8. \A i \in 1 .. m : Before(i, Carried)' /\ Before(i, TopKeeps(m))'
  BY <1>5, <1>6 DEF Before
<1>9. Len(frames') = m + 1 => TopKeeps(m)' = Keeps(frames'[m + 1]) /\ Carried' = NoNode
  BY <1>1 DEF TopKeeps
<1>10. \A i \in 1 .. m : \A j \in i + 1 .. m : Before(i, Keeps(frames[j]))'
  <2>1. \A i \in 1 .. m : \A j \in i + 1 .. m : Before(i, Keeps(frames[j]))
    <3>1. \A i \in 1 .. m : \A j \in i + 1 .. m : j \in i + 1 .. Len(frames)
      BY <1>1
    <3> QED
      BY <1>3, <3>1 DEF Holding
  <2>2. \A i \in 1 .. m : \A j \in i + 1 .. m : j \in 1 .. m
    BY <1>1
  <2> QED
    BY <1>3, <2>1, <2>2 DEF Before, Settling, Unrecorded
<1>11. ASSUME NEW i \in DOMAIN frames'
       PROVE  /\ Keeps(frames'[i]) \in 0 .. Len(proof'.nodes)
              /\ Before(i, Carried)'
              /\ \A j \in i + 1 .. Len(frames') : Before(i, Keeps(frames[j]))'
  <2>1. CASE i \in 1 .. m
    <3>1. \A j \in i + 1 .. Len(frames') : j \in i + 1 .. m \/ (j = m + 1 /\ Len(frames') = m + 1)
      BY <1>1
    <3>2. Len(frames') = m + 1 => Before(i, Keeps(frames[m + 1]))'
      BY <1>8, <1>9, <2>1 DEF Before
    <3> QED
      BY <1>5, <1>8, <1>10, <2>1, <3>1, <3>2
  <2>2. CASE i \notin 1 .. m
    <3>1. i = m + 1 /\ Len(frames') = m + 1
      BY <1>1, <2>2
    <3>2. i + 1 .. Len(frames') = {}
      BY <1>1, <3>1
    <3>3. Before(i, Carried)'
      BY <1>9, <3>1 DEF Before
    <3> QED
      BY <1>7, <1>9, <3>1, <3>2, <3>3
  <2> QED
    BY <2>1, <2>2
<1> QED
  BY <1>7, <1>11 DEF Holding

(* How many frames settle: those below, and the other one. *)
LEMMA SettlingAre ==
  ASSUME NEW S, NEW f \in Seq(S), NEW m \in Nat, Len(f) \in {m, m + 1}
  PROVE  /\ Cardinality({i \in 1 .. m : f[i].at = "settle"}) \in Nat
         /\ Cardinality({i \in DOMAIN f : f[i].at = "settle"})
              = IF Len(f) = m + 1 /\ f[m + 1].at = "settle"
                THEN Cardinality({i \in 1 .. m : f[i].at = "settle"}) + 1
                ELSE Cardinality({i \in 1 .. m : f[i].at = "settle"})
<1> DEFINE low == {i \in 1 .. m : f[i].at = "settle"}
           all == {i \in DOMAIN f : f[i].at = "settle"}
<1>1. DOMAIN f = 1 .. Len(f)
  OBVIOUS
<1>2. IsFiniteSet(low)
  <2>1. IsFiniteSet(1 .. m)
    BY FS_Interval
  <2>2. low \in SUBSET (1 .. m)
    OBVIOUS
  <2> QED
    BY <2>1, <2>2, FS_Subset
<1>3. m + 1 \notin low
  OBVIOUS
<1>4. Cardinality(low) \in Nat /\ Cardinality(low \cup {m + 1}) = Cardinality(low) + 1
  BY <1>2, <1>3, FS_CardinalityType, FS_AddElement
<1>5. Len(f) = m + 1 => all = IF f[m + 1].at = "settle" THEN low \cup {m + 1} ELSE low
  <2>1. \A i : i \in 1 .. m + 1 <=> i \in 1 .. m \/ i = m + 1
    OBVIOUS
  <2> QED
    BY <1>1, <2>1
<1>6. Len(f) = m => all = low
  BY <1>1
<1>7. Len(f) = m \/ Len(f) = m + 1
  OBVIOUS
<1> HIDE DEF low, all
<1>8. Cardinality(all) = IF Len(f) = m + 1 /\ f[m + 1].at = "settle"
                         THEN Cardinality(low) + 1 ELSE Cardinality(low)
  <2>1. CASE Len(f) = m + 1
    BY <1>4, <1>5, <2>1
  <2>2. CASE Len(f) = m
    BY <1>6, <2>2
  <2> QED
    BY <1>7, <2>1, <2>2
<1> QED
  BY <1>4, <1>8 DEF low, all

SettlesTop(m) == Len(frames) = m + 1 /\ Settling(m + 1)

(* The recorder is paused once for each component that settles. *)
LEMMA RecordingMoves ==
  ASSUME Typed, Typed', Recording, NEW m \in Nat, Beneath(m),
         Len(proof.nodes) <= Len(proof'.nodes),
         proof'.paused = IF SettlesTop(m) <=> SettlesTop(m)' THEN proof.paused
                         ELSE IF SettlesTop(m) THEN proof.paused - 1 ELSE proof.paused + 1,
         Len(frames') = m + 1 /\ Unrecorded(m + 1)' =>
           \/ NewNode = NoNode /\ Len(frames) = m
           \/ Len(frames) = m + 1 /\ Unrecorded(m + 1)
  PROVE  Recording'
<1>1. /\ frames \in Seq(Frames) /\ frames' \in Seq(Frames')
      /\ Len(frames) \in {m, m + 1} /\ Len(frames') \in {m, m + 1}
      /\ \A i \in 1 .. m : frames'[i] = frames[i]
  BY DEF Typed, Beneath
<1>2. Len(proof.nodes) \in Nat /\ Len(proof'.nodes) \in Nat /\ MaxProofNodes \in Nat
  BY LimitAssumption DEF Typed, Proofs
<1>3. proof'.paused = Cardinality({i \in DOMAIN frames' : Settling(i)'})
  <2> DEFINE low == {i \in 1 .. m : frames[i].at = "settle"}
  <2>1. /\ Cardinality(low) \in Nat
        /\ Cardinality({i \in DOMAIN frames : frames[i].at = "settle"})
             = IF Len(frames) = m + 1 /\ frames[m + 1].at = "settle"
               THEN Cardinality(low) + 1 ELSE Cardinality(low)
    BY <1>1, SettlingAre
  <2>2. {i \in 1 .. m : frames'[i].at = "settle"} = low
    BY <1>1
  <2>3. Cardinality({i \in DOMAIN frames' : frames'[i].at = "settle"})
          = IF Len(frames') = m + 1 /\ frames'[m + 1].at = "settle"
            THEN Cardinality(low) + 1 ELSE Cardinality(low)
    <3>1. Cardinality({i \in DOMAIN frames' : frames'[i].at = "settle"})
            = IF Len(frames') = m + 1 /\ frames'[m + 1].at = "settle"
              THEN Cardinality({i \in 1 .. m : frames'[i].at = "settle"}) + 1
              ELSE Cardinality({i \in 1 .. m : frames'[i].at = "settle"})
      BY <1>1, SettlingAre
    <3> QED
      BY <2>2, <3>1
  <2> HIDE DEF low
  <2>4. proof.paused = IF SettlesTop(m) THEN Cardinality(low) + 1 ELSE Cardinality(low)
    BY <2>1 DEF Recording, Settling, SettlesTop
  <2>5. proof'.paused = IF SettlesTop(m)' THEN Cardinality(low) + 1 ELSE Cardinality(low)
    BY <2>1, <2>4
  <2> QED
    BY <2>3, <2>5 DEF Settling, SettlesTop
<1>4. ASSUME NEW i \in DOMAIN frames', Unrecorded(i)'
      PROVE  Len(proof'.nodes) >= MaxProofNodes \/ \E j \in 1 .. i - 1 : Settling(j)'
  <2>1. CASE i \in 1 .. m
    <3>1. i \in DOMAIN frames /\ Unrecorded(i)
      BY <1>1, <1>4, <2>1 DEF Unrecorded
    <3>2. Len(proof.nodes) >= MaxProofNodes \/ \E j \in 1 .. i - 1 : Settling(j)
      BY <3>1 DEF Recording
    <3>3. \A j \in 1 .. i - 1 : Settling(j)' <=> Settling(j)
      BY <1>1, <2>1 DEF Settling
    <3> QED
      BY <1>2, <3>2, <3>3
  <2>2. CASE i \notin 1 .. m
    <3>1. i = m + 1 /\ Len(frames') = m + 1
      BY <1>1, <2>2
    <3>2. Len(proof.nodes) >= MaxProofNodes \/ \E j \in 1 .. m : Settling(j)
      <4>1. CASE Len(frames) = m + 1 /\ Unrecorded(m + 1)
        <5>1. m + 1 \in DOMAIN frames /\ m + 1 - 1 = m
          BY <1>1, <4>1
        <5> QED
          BY <4>1, <5>1 DEF Recording
      <4>2. CASE NewNode = NoNode /\ Len(frames) = m
        <5>1. DOMAIN frames = 1 .. m
          BY <1>1, <4>2
        <5>2. proof.paused # 0 \/ Len(proof.nodes) >= MaxProofNodes
          BY <1>2, <4>2 DEF NewNode, NoNode
        <5> QED
          BY <5>1, <5>2, NoneSettles
      <4> QED
        BY <1>4, <3>1, <4>1, <4>2
    <3>3. \A j \in 1 .. m : Settling(j)' <=> Settling(j)
      BY <1>1 DEF Settling
    <3>4. i - 1 = m
      BY <3>1
    <3> QED
      BY <1>2, <3>2, <3>3, <3>4
  <2> QED
    BY <2>1, <2>2
<1> QED
  BY <1>3, <1>4 DEF Recording

(* The links to a node, parent by parent. *)
LEMMA LinksAre ==
  ASSUME NEW n
  PROVE  /\ \A link : link \in LinksTo(n) <=>
                \E i \in DOMAIN proof.nodes : \E j \in DOMAIN ChildrenOf(i) :
                  link = <<i, j>> /\ ChildrenOf(i)[j] = n
         /\ \A link : link \in LinksTo(n)' <=>
                \E i \in DOMAIN proof'.nodes : \E j \in DOMAIN ChildrenOf(i)' :
                  link = <<i, j>> /\ ChildrenOf(i)'[j] = n
  BY DEF LinksTo, ChildrenOf

(* A step that hangs no node leaves all links. *)
LEMMA LinkingMoves ==
  ASSUME Linking, DOMAIN proof'.nodes = DOMAIN proof.nodes,
         \A n \in DOMAIN proof.nodes :
           ChildrenOf(n)' = ChildrenOf(n) /\ (InHand(n)' <=> InHand(n))
  PROVE  Linking'
<1>1. \A n : LinksTo(n)' = LinksTo(n)
  BY LinksAre
<1> QED
  BY <1>1 DEF Linking

(* A new node is in hand. *)
LEMMA LinkingGrows ==
  ASSUME Linking, proof.nodes \in Seq(Nodes), proof'.nodes \in Seq(Nodes),
         NEW m, m = Len(proof.nodes) + 1, Len(proof'.nodes) = m, ChildrenOf(m)' = <<>>, InHand(m)',
         \A n \in DOMAIN proof.nodes :
           ChildrenOf(n)' = ChildrenOf(n) /\ (InHand(n)' <=> InHand(n))
  PROVE  Linking'
<1>1. \A n : n \in DOMAIN proof'.nodes <=> n \in DOMAIN proof.nodes \/ n = m
  OBVIOUS
<1>2. m \notin DOMAIN proof.nodes
  OBVIOUS
<1>3. ASSUME NEW n PROVE LinksTo(n)' = LinksTo(n)
  <2>1. \A i : i \in DOMAIN proof'.nodes /\ DOMAIN ChildrenOf(i)' # {} => i \in DOMAIN proof.nodes
    BY <1>1
  <2>2. \A link : link \in LinksTo(n)' <=> link \in LinksTo(n)
    BY <1>1, <2>1, LinksAre
  <2> QED
    BY <2>2
<1>4. LinksTo(m) = {}
  <2>1. ASSUME NEW i \in DOMAIN proof.nodes, NEW j \in DOMAIN ChildrenOf(i)
        PROVE  ChildrenOf(i)[j] # m
    <3>1. ChildrenOf(i) \in Seq(DOMAIN proof.nodes)
      BY DEF Linking
    <3> QED
      BY <1>2, <3>1
  <2> QED
    BY <2>1, LinksAre
<1>5. \A n \in DOMAIN proof.nodes : ChildrenOf(n)' \in Seq(DOMAIN proof'.nodes)
  <2>1. \A n \in DOMAIN proof.nodes : ChildrenOf(n)' \in Seq(DOMAIN proof.nodes)
    BY DEF Linking
  <2>2. DOMAIN proof.nodes \subseteq DOMAIN proof'.nodes
    BY <1>1
  <2>3. \A s \in Seq(DOMAIN proof.nodes) : s \in Seq(DOMAIN proof'.nodes)
    BY <2>2
  <2> QED
    BY <2>1, <2>3
<1>6. ChildrenOf(m)' \in Seq(DOMAIN proof'.nodes)
  <2>1. \A S : <<>> \in Seq(S)
    OBVIOUS
  <2> QED
    BY <2>1
<1>7. ASSUME NEW n \in DOMAIN proof'.nodes
      PROVE  IF InHand(n)' THEN LinksTo(n)' = {}
             ELSE \E link \in LinksTo(n)' : link[1] < n /\ LinksTo(n)' = {link}
  BY <1>1, <1>3, <1>4 DEF Linking
<1> QED
  BY <1>1, <1>5, <1>6, <1>7 DEF Linking

(* A node that was in hand is hung under another, before it. *)
LEMMA LinkingHangs ==
  ASSUME Linking, NEW p \in DOMAIN proof.nodes, NEW c \in DOMAIN proof.nodes, p < c,
         InHand(c), ~InHand(c)', DOMAIN proof'.nodes = DOMAIN proof.nodes,
         ChildrenOf(p)' = Append(ChildrenOf(p), c),
         \A n \in DOMAIN proof.nodes :
           /\ n # p => ChildrenOf(n)' = ChildrenOf(n)
           /\ n # c => (InHand(n)' <=> InHand(n))
  PROVE  Linking'
<1> DEFINE link == <<p, Len(ChildrenOf(p)) + 1>>
<1>1. ChildrenOf(p) \in Seq(DOMAIN proof.nodes)
  BY DEF Linking
<1>2. /\ \A j : j \in DOMAIN ChildrenOf(p)' <=>
                  j \in DOMAIN ChildrenOf(p) \/ j = Len(ChildrenOf(p)) + 1
      /\ \A j \in DOMAIN ChildrenOf(p) : ChildrenOf(p)'[j] = ChildrenOf(p)[j]
      /\ ChildrenOf(p)'[Len(ChildrenOf(p)) + 1] = c
      /\ ChildrenOf(p)' \in Seq(DOMAIN proof'.nodes)
  BY <1>1
<1>3. ASSUME NEW n, NEW l
      PROVE  l \in LinksTo(n)' <=> l \in LinksTo(n) \/ (n = c /\ l = link)
  <2>1. ASSUME NEW i \in DOMAIN proof.nodes, NEW j
        PROVE  j \in DOMAIN ChildrenOf(i)' /\ l = <<i, j>> /\ ChildrenOf(i)'[j] = n <=>
                 \/ j \in DOMAIN ChildrenOf(i) /\ l = <<i, j>> /\ ChildrenOf(i)[j] = n
                 \/ i = p /\ j = Len(ChildrenOf(p)) + 1 /\ l = link /\ n = c
    <3>1. CASE i = p
      BY <1>1, <1>2, <3>1
    <3>2. CASE i # p
      BY <3>2
    <3> QED
      BY <3>1, <3>2
  <2> QED
    BY <2>1, LinksAre
<1>4. LinksTo(c) = {}
  BY DEF Linking
<1>5. LinksTo(c)' = {link} /\ link[1] < c
  BY <1>3, <1>4
<1>6. ASSUME NEW n, n # c PROVE LinksTo(n)' = LinksTo(n)
  <2>1. \A l : l \in LinksTo(n)' <=> l \in LinksTo(n)
    BY <1>3, <1>6
  <2> QED
    BY <2>1
<1>7. \A n \in DOMAIN proof'.nodes : ChildrenOf(n)' \in Seq(DOMAIN proof'.nodes)
  BY <1>2 DEF Linking
<1> HIDE DEF link
<1>8. ASSUME NEW n \in DOMAIN proof'.nodes
      PROVE  IF InHand(n)' THEN LinksTo(n)' = {}
             ELSE \E l \in LinksTo(n)' : l[1] < n /\ LinksTo(n)' = {l}
  <2>1. CASE n = c
    BY <1>5, <2>1
  <2>2. CASE n # c
    BY <1>6, <2>2 DEF Linking
  <2> QED
    BY <2>1, <2>2
<1> QED
  BY <1>7, <1>8 DEF Linking

(* A step that records nothing changes one node at most.                   *)
LEMMA TellingMoves ==
  ASSUME Typed, Typed', Holding, Linking, Telling, NEW m \in Nat, Beneath(m), NEW p \in Nat,
         DOMAIN proof'.nodes = DOMAIN proof.nodes,
         \A n \in DOMAIN proof.nodes : n # p => proof'.nodes[n] = proof.nodes[n],
         p # NoNode => \A i \in 1 .. m : Keeps(frames[i]) # p,
         p \in DOMAIN proof.nodes => (Incomplete(p)' => Incomplete(p)) /\ NodeTells(p)',
         Len(frames') = m + 1 => FrameTells(m + 1)',
         \A n \in DOMAIN proof.nodes :
           Len(frames) = m + 1 /\ ~Opens(m + 1) /\ Keeps(frames[m + 1]) = n =>
             \/ Failing' \/ ~Incomplete(n)'
             \/ Len(frames') = m + 1 /\ ~Opens(m + 1)' /\ Keeps(frames'[m + 1]) = n,
         Failing => Failing',
         Carried' # NoNode /\ ~Failing' => CarriedTells'
  PROVE  Telling'
<1>1. /\ frames \in Seq(Frames) /\ frames' \in Seq(Frames')
      /\ Len(frames) \in {m, m + 1} /\ Len(frames') \in {m, m + 1}
      /\ \A i \in 1 .. m : frames'[i] = frames[i]
      /\ proof.nodes \in Seq(Nodes)
  BY DEF Typed, Beneath, Proofs
<1>2. /\ \A i \in 1 .. m : i \in DOMAIN frames /\ frames'[i] = frames[i]
      /\ \A n \in 0 .. Len(proof.nodes) : n # 0 => n \in DOMAIN proof.nodes
  <2>1. \A i \in 1 .. m : i \in DOMAIN frames
    <3>1. Len(frames) >= m
      BY <1>1
    <3> QED
      BY <1>1, <3>1, Prefix
  <2>2. DOMAIN proof.nodes = 1 .. Len(proof.nodes)
    BY <1>1
  <2>3. \A n \in 0 .. Len(proof.nodes) : n # 0 => n \in DOMAIN proof.nodes
    <3>1. Len(proof.nodes) \in Nat
      BY <1>1
    <3> QED
      BY <2>2, <3>1
  <2> QED
    BY <1>1, <2>1, <2>3
<1>3. \A n \in DOMAIN proof.nodes : \A j \in DOMAIN ChildrenOf(n) :
        ChildrenOf(n)[j] \in DOMAIN proof.nodes
  <2>1. \A n \in DOMAIN proof.nodes : ChildrenOf(n) \in Seq(DOMAIN proof.nodes)
    BY DEF Linking
  <2> QED
    BY <2>1
<1>4. \A n \in DOMAIN proof.nodes : Incomplete(n)' => Incomplete(n)
  <2> SUFFICES ASSUME NEW n \in DOMAIN proof.nodes PROVE Incomplete(n)' => Incomplete(n)
    OBVIOUS
  <2>1. CASE n = p
    BY <2>1
  <2>2. CASE n # p
    BY <2>2 DEF Incomplete
  <2> QED
    BY <2>1, <2>2
<1>5. ASSUME NEW n \in DOMAIN proof.nodes, n # p
      PROVE  ChildrenOf(n)' = ChildrenOf(n) /\ (Incomplete(n)' <=> Incomplete(n))
  BY <1>5 DEF ChildrenOf, Incomplete
<1>6. ASSUME NEW i \in 1 .. m PROVE FrameTells(i)'
  <2>1. i \in DOMAIN frames /\ frames'[i] = frames[i]
    BY <1>2
  <2>2. SUFFICES ASSUME NEW n, n = Keeps(frames[i]), n # NoNode
                 PROVE  FrameTells(i)'
    BY <2>1 DEF FrameTells
  <2>3. n \in DOMAIN proof.nodes /\ n # p
    BY <1>2, <2>1, <2>2 DEF Holding, NoNode
  <2>4. FrameTells(i)
    BY <2>1 DEF Telling
  <2>5. proof'.nodes[n] = proof.nodes[n]
    BY <2>3
  <2>6. \A j \in DOMAIN ChildrenOf(n) :
          proof'.nodes[ChildrenOf(n)[j]].outcome = "incomplete" =>
            proof.nodes[ChildrenOf(n)[j]].outcome = "incomplete"
    BY <1>3, <1>4, <2>3 DEF Incomplete
  <2>7. ChildrenOf(n)' = ChildrenOf(n)
    BY <2>5 DEF ChildrenOf
  <2> QED
    BY <2>1, <2>2, <2>4, <2>5, <2>6, <2>7 DEF FrameTells, Settling, Tells, Incomplete
<1>7. \A i \in DOMAIN frames' : FrameTells(i)'
  <2>1. \A i \in DOMAIN frames' : i \in 1 .. m \/ (i = m + 1 /\ Len(frames') = m + 1)
    BY <1>1
  <2> QED
    BY <1>6, <2>1
<1>8. ASSUME NEW n \in DOMAIN proof'.nodes PROVE NodeTells(n)'
  <2>1. CASE n = p
    BY <2>1
  <2>2. CASE n # p
    <3>1. NodeTells(n)
      BY DEF Telling
    <3>2. \A j \in DOMAIN ChildrenOf(n) :
            proof'.nodes[ChildrenOf(n)[j]].outcome = "incomplete" =>
              proof.nodes[ChildrenOf(n)[j]].outcome = "incomplete"
      BY <1>3, <1>4 DEF Incomplete
    <3> QED
      BY <1>5, <2>2, <3>1, <3>2 DEF NodeTells, Incomplete
  <2> QED
    BY <2>1, <2>2
<1>9. ASSUME NEW n \in DOMAIN proof'.nodes, Incomplete(n)'
      PROVE  Failing' \/ Working(n)'
  <2>1. Failing \/ Working(n)
    BY <1>4, <1>9 DEF Telling
  <2>2. SUFFICES ASSUME NEW i \in DOMAIN frames, ~Opens(i), Keeps(frames[i]) = n
                 PROVE  Failing' \/ Working(n)'
    BY <2>1 DEF Working
  <2>3. CASE i \in 1 .. m
    <3>1. i \in DOMAIN frames' /\ frames'[i] = frames[i]
      BY <1>1, <2>3
    <3> QED
      BY <2>2, <3>1 DEF Working, Opens
  <2>4. CASE i \notin 1 .. m
    <3>1. i = m + 1 /\ Len(frames) = m + 1
      BY <1>1, <2>4
    <3>2. Len(frames') = m + 1 => m + 1 \in DOMAIN frames'
      BY <1>1
    <3> QED
      BY <1>9, <2>2, <3>1, <3>2 DEF Working
  <2> QED
    BY <2>3, <2>4
<1> QED
  BY <1>7, <1>8, <1>9 DEF Telling

(* A new node has no children, and is incomplete while it is worked on.    *)
LEMMA TellingGrows ==
  ASSUME Typed, Typed', Holding, Linking, Telling, NEW m \in Nat, Beneath(m), Len(frames) = m,
         NEW p, p = Len(proof.nodes) + 1, Len(proof'.nodes) = p,
         \A n \in DOMAIN proof.nodes : proof'.nodes[n] = proof.nodes[n],
         ChildrenOf(p)' = <<>>,
         Len(frames') = m + 1 =>
           ~Opens(m + 1)' /\ Keeps(frames'[m + 1]) = p /\ Incomplete(p)',
         Incomplete(p)' => Failing' \/ Len(frames') = m + 1,
         Failing => Failing',
         Carried' # NoNode /\ ~Failing' => CarriedTells'
  PROVE  Telling'
<1>1. /\ frames \in Seq(Frames) /\ frames' \in Seq(Frames')
      /\ Len(frames) = m /\ Len(frames') \in {m, m + 1}
      /\ \A i \in 1 .. m : frames'[i] = frames[i]
      /\ proof.nodes \in Seq(Nodes) /\ proof'.nodes \in Seq(Nodes)
  BY DEF Typed, Beneath, Proofs
<1>2. /\ \A i \in 1 .. m : i \in DOMAIN frames /\ frames'[i] = frames[i]
      /\ \A n \in 0 .. Len(proof.nodes) : n # 0 => n \in DOMAIN proof.nodes
  <2>1. \A i \in 1 .. m : i \in DOMAIN frames
    <3>1. Len(frames) >= m
      BY <1>1
    <3> QED
      BY <1>1, <3>1, Prefix
  <2>2. DOMAIN proof.nodes = 1 .. Len(proof.nodes)
    BY <1>1
  <2>3. \A n \in 0 .. Len(proof.nodes) : n # 0 => n \in DOMAIN proof.nodes
    <3>1. Len(proof.nodes) \in Nat
      BY <1>1
    <3> QED
      BY <2>2, <3>1
  <2> QED
    BY <1>1, <2>1, <2>3
<1>3. \A n \in DOMAIN proof.nodes : \A j \in DOMAIN ChildrenOf(n) :
        ChildrenOf(n)[j] \in DOMAIN proof.nodes
  <2>1. \A n \in DOMAIN proof.nodes : ChildrenOf(n) \in Seq(DOMAIN proof.nodes)
    BY DEF Linking
  <2> QED
    BY <2>1
<1>4. ASSUME NEW n \in DOMAIN proof.nodes
      PROVE  ChildrenOf(n)' = ChildrenOf(n) /\ (Incomplete(n)' <=> Incomplete(n))
  BY DEF ChildrenOf, Incomplete
<1>5. \A n \in DOMAIN proof.nodes : \A j \in DOMAIN ChildrenOf(n) :
        proof'.nodes[ChildrenOf(n)[j]].outcome = proof.nodes[ChildrenOf(n)[j]].outcome
  BY <1>3
<1>6. ASSUME NEW i \in 1 .. m PROVE FrameTells(i)'
  <2>1. i \in DOMAIN frames /\ frames'[i] = frames[i]
    BY <1>2
  <2>2. SUFFICES ASSUME NEW n, n = Keeps(frames[i]), n # NoNode
                 PROVE  FrameTells(i)'
    BY <2>1 DEF FrameTells
  <2>3. n \in DOMAIN proof.nodes
    BY <1>2, <2>1, <2>2 DEF Holding, NoNode
  <2>4. FrameTells(i)
    BY <2>1 DEF Telling
  <2> QED
    BY <1>4, <1>5, <2>1, <2>2, <2>3, <2>4 DEF FrameTells, Settling, Tells, Incomplete
<1>7. Len(frames') = m + 1 => FrameTells(m + 1)' /\ m + 1 \in DOMAIN frames'
  BY <1>1 DEF FrameTells, Settling, Opens
<1>8. \A i \in DOMAIN frames' : FrameTells(i)'
  <2>1. \A i \in DOMAIN frames' : i \in 1 .. m \/ (i = m + 1 /\ Len(frames') = m + 1)
    BY <1>1
  <2> QED
    BY <1>6, <1>7, <2>1
<1>9. \A n \in DOMAIN proof'.nodes : n \in DOMAIN proof.nodes \/ n = p
  BY <1>1
<1>10. ASSUME NEW n \in DOMAIN proof'.nodes PROVE NodeTells(n)'
  <2>1. CASE n = p
    BY <2>1 DEF NodeTells
  <2>2. CASE n \in DOMAIN proof.nodes
    <3>1. NodeTells(n)
      BY <2>2 DEF Telling
    <3> QED
      BY <1>4, <1>5, <2>2, <3>1 DEF NodeTells, Incomplete
  <2> QED
    BY <1>9, <2>1, <2>2
<1>11. ASSUME NEW n \in DOMAIN proof'.nodes, Incomplete(n)'
      PROVE  Failing' \/ Working(n)'
  <2>1. CASE n = p
    BY <1>7, <1>11, <2>1 DEF Working
  <2>2. CASE n \in DOMAIN proof.nodes
    <3>1. Failing \/ Working(n)
      BY <1>4, <1>11, <2>2 DEF Telling
    <3>2. \A i \in DOMAIN frames : i \in DOMAIN frames' /\ frames'[i] = frames[i]
      BY <1>1
    <3> QED
      BY <3>1, <3>2 DEF Working, Opens
  <2> QED
    BY <1>9, <2>1, <2>2
<1> QED
  BY <1>8, <1>10, <1>11 DEF Telling

-----------------------------------------------------------------------------
(* What the recorder's operations do to the nodes. *)

(* open and leaf append a node where there is room for one. *)
LEMMA OpenedNodes ==
  ASSUME proof \in Proofs, NEW k \in Keys, NEW op \in Operators, NEW outcome \in Outcomes,
         NEW memoized \in BOOLEAN
  PROVE  /\ Opened(k, op, outcome, memoized).paused = proof.paused
         /\ NewNode = NoNode => Opened(k, op, outcome, memoized).nodes = proof.nodes
         /\ NewNode # NoNode =>
              Opened(k, op, outcome, memoized).nodes
                = Append(proof.nodes, [key |-> k, op |-> op, outcome |-> outcome,
                                       memoized |-> memoized, children |-> <<>>])
<1> DEFINE node == [key |-> k, op |-> op, outcome |-> outcome, memoized |-> memoized,
                    children |-> <<>>]
<1>1. proof.paused \in Int
  BY DEF Proofs
<1>2. NewNode = NoNode => \/ Opened(k, op, outcome, memoized) = proof
                          \/ Opened(k, op, outcome, memoized) = [proof EXCEPT !.truncated = TRUE]
  BY DEF Opened
<1> HIDE DEF node
<1>3. NewNode # NoNode => Opened(k, op, outcome, memoized)
                            = [proof EXCEPT !.nodes = Append(@, node)]
  BY DEF Opened, NewNode, node
<1> QED
  BY <1>2, <1>3 DEF node, Proofs

(* close changes one outcome. *)
LEMMA ClosedNodes ==
  ASSUME NEW p \in Proofs, NEW node \in 0 .. Len(p.nodes), NEW allowed \in BOOLEAN
  PROVE  /\ Closed(p, node, allowed).paused = p.paused
         /\ Len(Closed(p, node, allowed).nodes) = Len(p.nodes)
         /\ DOMAIN Closed(p, node, allowed).nodes = DOMAIN p.nodes
         /\ \A n \in DOMAIN p.nodes :
              /\ n # node => Closed(p, node, allowed).nodes[n] = p.nodes[n]
              /\ Closed(p, node, allowed).nodes[n].children = p.nodes[n].children
         /\ node # NoNode =>
              Closed(p, node, allowed).nodes[node].outcome
                = IF allowed THEN "allowed" ELSE "denied"
<1> DEFINE outcome == IF allowed THEN "allowed" ELSE "denied"
           nodes   == [p.nodes EXCEPT ![node] = [p.nodes[node] EXCEPT !.outcome = outcome]]
<1>1. p.nodes \in Seq(Nodes)
  BY DEF Proofs
<1>2. CASE node = NoNode
  BY <1>2 DEF Closed
<1>3. CASE node # NoNode
  <2>1. node \in DOMAIN p.nodes /\ p.nodes[node] \in Nodes
    BY <1>1, <1>3 DEF NoNode
  <2>2. [p.nodes[node] EXCEPT !.outcome = outcome] \in Nodes
    BY <2>1 DEF Nodes, Outcomes
  <2>3. nodes \in Seq(Nodes)
    BY <1>1, <2>2, Updated
  <2>4. /\ DOMAIN nodes = DOMAIN p.nodes /\ Len(nodes) = Len(p.nodes)
        /\ \A n \in DOMAIN p.nodes : n # node => nodes[n] = p.nodes[n]
        /\ nodes[node] = [p.nodes[node] EXCEPT !.outcome = outcome]
    BY <1>1, <2>1, <2>3
  <2>5. nodes[node].outcome = outcome /\ nodes[node].children = p.nodes[node].children
    BY <2>1, <2>4 DEF Nodes
  <2>6. Closed(p, node, allowed) = [p EXCEPT !.nodes = nodes]
    BY <1>3 DEF Closed
  <2>7. Closed(p, node, allowed).nodes = nodes /\ Closed(p, node, allowed).paused = p.paused
    BY <2>6 DEF Proofs
  <2> HIDE DEF nodes
  <2> QED
    BY <2>4, <2>5, <2>7
<1> QED
  BY <1>2, <1>3

(* addChild appends one child, if there are a parent and a child. *)
LEMMA AddedNodes ==
  ASSUME NEW p \in Proofs, NEW parent \in 0 .. Len(p.nodes), NEW child \in Nat
  PROVE  /\ addChild(p, parent, child).paused = p.paused
         /\ Len(addChild(p, parent, child).nodes) = Len(p.nodes)
         /\ DOMAIN addChild(p, parent, child).nodes = DOMAIN p.nodes
         /\ \A n \in DOMAIN p.nodes :
              /\ n # parent => addChild(p, parent, child).nodes[n] = p.nodes[n]
              /\ addChild(p, parent, child).nodes[n].outcome = p.nodes[n].outcome
         /\ child = NoNode => addChild(p, parent, child) = p
         /\ parent # NoNode /\ child # NoNode =>
              addChild(p, parent, child).nodes[parent].children
                = Append(p.nodes[parent].children, child)
<1> DEFINE children == Append(p.nodes[parent].children, child)
           nodes    == [p.nodes EXCEPT ![parent] = [p.nodes[parent] EXCEPT !.children = children]]
<1>1. p.nodes \in Seq(Nodes)
  BY DEF Proofs
<1>2. CASE parent = NoNode \/ child = NoNode
  BY <1>2 DEF addChild
<1>3. CASE parent # NoNode /\ child # NoNode
  <2>1. parent \in DOMAIN p.nodes /\ p.nodes[parent] \in Nodes
    BY <1>1, <1>3 DEF NoNode
  <2>2. children \in Seq(Nat)
    BY <2>1 DEF Nodes
  <2> HIDE DEF children
  <2>3. [p.nodes[parent] EXCEPT !.children = children] \in Nodes
    BY <2>1, <2>2 DEF Nodes
  <2>4. nodes \in Seq(Nodes)
    BY <1>1, <2>3, Updated
  <2>5. /\ DOMAIN nodes = DOMAIN p.nodes /\ Len(nodes) = Len(p.nodes)
        /\ \A n \in DOMAIN p.nodes : n # parent => nodes[n] = p.nodes[n]
        /\ nodes[parent] = [p.nodes[parent] EXCEPT !.children = children]
    BY <1>1, <2>1, <2>4
  <2>6. nodes[parent].outcome = p.nodes[parent].outcome /\ nodes[parent].children = children
    BY <2>1, <2>5 DEF Nodes
  <2>7. addChild(p, parent, child) = [p EXCEPT !.nodes = nodes]
    BY <1>3 DEF addChild, children
  <2>8. addChild(p, parent, child).nodes = nodes /\ addChild(p, parent, child).paused = p.paused
    BY <2>7 DEF Proofs
  <2> HIDE DEF nodes
  <2> QED
    BY <1>3, <2>5, <2>6, <2>8 DEF children
<1> QED
  BY <1>2, <1>3

(* q is the proof with c hung under p, whose outcome may be set besides. *)
HangsIn(q, p, c) ==
  /\ q.paused = proof.paused
  /\ Len(q.nodes) = Len(proof.nodes) /\ DOMAIN q.nodes = DOMAIN proof.nodes
  /\ \A n \in DOMAIN proof.nodes : n # p => q.nodes[n] = proof.nodes[n]
  /\ p \in DOMAIN proof.nodes =>
       /\ p # NoNode
       /\ q.nodes[p].children = IF c = NoNode THEN ChildrenOf(p) ELSE Append(ChildrenOf(p), c)

(* That is what addChild does, ... *)
LEMMA AddsChild ==
  ASSUME proof \in Proofs, NEW p \in 0 .. Len(proof.nodes), NEW c \in Nat,
         NEW q, q = addChild(proof, p, c)
  PROVE  /\ HangsIn(q, p, c)
         /\ p \in DOMAIN proof.nodes => q.nodes[p].outcome = proof.nodes[p].outcome
<1> DEFINE added == addChild(proof, p, c)
<1>1. /\ added.paused = proof.paused
      /\ Len(added.nodes) = Len(proof.nodes) /\ DOMAIN added.nodes = DOMAIN proof.nodes
      /\ \A n \in DOMAIN proof.nodes :
           /\ n # p => added.nodes[n] = proof.nodes[n]
           /\ added.nodes[n].outcome = proof.nodes[n].outcome
      /\ c = NoNode => added = proof
      /\ p # NoNode /\ c # NoNode =>
           added.nodes[p].children = Append(proof.nodes[p].children, c)
  BY AddedNodes
<1>2. p \in DOMAIN proof.nodes => p # NoNode
  BY DEF Proofs, NoNode
<1>3. q = added
  OBVIOUS
<1> HIDE DEF added
<1> QED
  BY <1>1, <1>2, <1>3 DEF ChildrenOf, HangsIn

(* ... also where the parent is closed then. *)
LEMMA AddsAndCloses ==
  ASSUME proof \in Proofs, NEW p \in 0 .. Len(proof.nodes), NEW c \in Nat,
         NEW allowed \in BOOLEAN, NEW added, added = addChild(proof, p, c),
         NEW q, q = Closed(added, p, allowed)
  PROVE  /\ HangsIn(q, p, c)
         /\ p # NoNode => q.nodes[p].outcome = IF allowed THEN "allowed" ELSE "denied"
<1>1. HangsIn(added, p, c) /\ added \in Proofs
  BY AddsChild, AddChildType
<1>2. p \in 0 .. Len(added.nodes)
  BY <1>1 DEF HangsIn
<1> DEFINE closed == Closed(added, p, allowed)
<1>3. /\ closed.paused = added.paused
      /\ Len(closed.nodes) = Len(added.nodes) /\ DOMAIN closed.nodes = DOMAIN added.nodes
      /\ \A n \in DOMAIN added.nodes :
           /\ n # p => closed.nodes[n] = added.nodes[n]
           /\ closed.nodes[n].children = added.nodes[n].children
      /\ p # NoNode => closed.nodes[p].outcome = IF allowed THEN "allowed" ELSE "denied"
  BY <1>1, <1>2, ClosedNodes
<1>4. q = closed
  OBVIOUS
<1> HIDE DEF closed
<1> QED
  BY <1>1, <1>3, <1>4 DEF HangsIn

-----------------------------------------------------------------------------
(* The steps that record nothing, and hand on what they have. *)

(* A step that gives the node it has to a frame, or takes one from it, or  *)
(* changes which of its outcomes a complete node has.                      *)
LEMMA MovesOn ==
  ASSUME Typed, Typed', RecordInv, NEW m \in Nat, Beneath(m), NEW c, c = Carried,
         DOMAIN proof'.nodes = DOMAIN proof.nodes,
         \A n \in DOMAIN proof.nodes : n # c => proof'.nodes[n] = proof.nodes[n],
         c \in DOMAIN proof.nodes =>
           /\ ChildrenOf(c)' = ChildrenOf(c)
           /\ proof'.nodes[c] = proof.nodes[c] \/ (~Incomplete(c) /\ ~Incomplete(c)'),
         TopKeeps(m)' \in {NoNode, TopKeeps(m), c},
         Carried' \in {NoNode, TopKeeps(m), c},
         TopKeeps(m) \in {NoNode, TopKeeps(m)', Carried'},
         c \in {NoNode, TopKeeps(m)', Carried'},
         Len(frames') = m + 1 => Carried' = NoNode \/ frames'[m + 1].at = "relation",
         proof'.paused = IF SettlesTop(m) <=> SettlesTop(m)' THEN proof.paused
                         ELSE IF SettlesTop(m) THEN proof.paused - 1 ELSE proof.paused + 1,
         Len(frames') = m + 1 /\ Unrecorded(m + 1)' =>
           Len(frames) = m + 1 /\ Unrecorded(m + 1),
         Len(frames') = m + 1 => FrameTells(m + 1)',
         \A n \in DOMAIN proof.nodes :
           Len(frames) = m + 1 /\ ~Opens(m + 1) /\ Keeps(frames[m + 1]) = n =>
             \/ Failing' \/ ~Incomplete(n)'
             \/ Len(frames') = m + 1 /\ ~Opens(m + 1)' /\ Keeps(frames'[m + 1]) = n,
         Failing => Failing',
         Carried' # NoNode /\ ~Failing' => CarriedTells'
  PROVE  RecordInv'
<1>1. /\ proof.nodes \in Seq(Nodes) /\ proof'.nodes \in Seq(Nodes) /\ frames \in Seq(Frames)
      /\ Recording /\ Holding /\ Linking /\ Telling
  BY DEF Typed, Proofs, RecordInv
<1>2. Len(proof.nodes) = Len(proof'.nodes)
  BY <1>1
<1>3. Recording'
  BY <1>1, <1>2, RecordingMoves
<1>4. Holding'
  BY <1>1, <1>2, HoldingMoves
<1>5. Linking'
  <2>1. ASSUME NEW n \in DOMAIN proof.nodes
        PROVE  ChildrenOf(n)' = ChildrenOf(n) /\ (InHand(n)' <=> InHand(n))
    <3>1. n \in Nat \ {0}
      BY <1>1
    <3>2. InHand(n)' <=> InHand(n)
      BY <3>1, InHandIs DEF NoNode
    <3>3. ChildrenOf(n)' = ChildrenOf(n)
      BY DEF ChildrenOf
    <3> QED
      BY <3>2, <3>3
  <2> QED
    BY <1>1, <2>1, LinkingMoves
<1>6. Telling'
  <2>1. c \in Nat
    BY <1>1 DEF Holding
  <2>2. c # NoNode => \A i \in 1 .. m : Keeps(frames[i]) # c
    <3>1. \A i \in 1 .. m : i \in DOMAIN frames
      BY <1>1 DEF Beneath
    <3>2. \A i \in 1 .. m : Keeps(frames[i]) \in Nat /\ Before(i, c)
      BY <1>1, <3>1 DEF Holding
    <3> QED
      BY <2>1, <3>2 DEF Before
  <2>3. ASSUME c \in DOMAIN proof.nodes
        PROVE  (Incomplete(c)' => Incomplete(c)) /\ NodeTells(c)'
    <3>1. Incomplete(c)' => Incomplete(c)
      BY <2>3 DEF Incomplete
    <3>2. NodeTells(c) /\ ChildrenOf(c)' = ChildrenOf(c)
      BY <1>1, <2>3 DEF Telling
    <3>3. \A j \in DOMAIN ChildrenOf(c) : ChildrenOf(c)[j] \in DOMAIN proof.nodes
      <4>1. ChildrenOf(c) \in Seq(DOMAIN proof.nodes)
        BY <1>1, <2>3 DEF Linking
      <4> QED
        BY <4>1
    <3>4. \A n \in DOMAIN proof.nodes :
            proof'.nodes[n].outcome = "incomplete" => proof.nodes[n].outcome = "incomplete"
      BY <2>3, <3>1 DEF Incomplete
    <3>5. NodeTells(c)'
      <4>1. CASE proof'.nodes[c] = proof.nodes[c]
        BY <3>2, <3>3, <3>4, <4>1 DEF NodeTells, Incomplete
      <4>2. CASE ~Incomplete(c)
        <5>1. \A j \in DOMAIN ChildrenOf(c) : proof.nodes[ChildrenOf(c)[j]].outcome # "incomplete"
          BY <3>2, <4>2 DEF NodeTells, Incomplete
        <5> QED
          BY <3>2, <3>3, <3>4, <5>1 DEF NodeTells, Incomplete
      <4> QED
        BY <2>3, <4>1, <4>2
    <3> QED
      BY <3>1, <3>5
  <2> QED
    BY <1>1, <2>1, <2>2, <2>3, TellingMoves
<1> QED
  BY <1>3, <1>4, <1>5, <1>6 DEF RecordInv

(* A step that leaves frames and nodes alone. *)
LEMMA HandsOn ==
  ASSUME Typed, Typed', RecordInv, frames' = frames, proof' = proof, Carried' = Carried,
         Failing => Failing', Carried' # NoNode /\ ~Failing' => CarriedTells'
  PROVE  RecordInv'
<1>1. PICK m \in Nat : m = Len(frames)
  BY DEF Typed
<1>2. PICK c : c = Carried
  OBVIOUS
<1>3. Beneath(m) /\ Len(frames') = m /\ Len(frames') # m + 1 /\ Len(frames) # m + 1
  BY <1>1 DEF Beneath
<1>4. TopKeeps(m) = NoNode /\ TopKeeps(m)' = NoNode /\ ~SettlesTop(m) /\ ~SettlesTop(m)'
  BY <1>1, <1>3 DEF TopKeeps, SettlesTop
<1>5. \A n : ChildrenOf(n)' = ChildrenOf(n)
  BY DEF ChildrenOf
<1> QED
  BY <1>2, <1>3, <1>4, <1>5, MovesOn

(* There is a last frame, unless there is none. *)
LEMMA AboveOthers ==
  ASSUME Typed, frames # <<>>
  PROVE  \E m \in Nat : Len(frames) = m + 1 /\ Len(frames) - 1 = m
<1>1. Len(frames) \in Nat \ {0}
  BY OnTop DEF Typed
<1>2. PICK m : m = Len(frames) - 1
  OBVIOUS
<1>3. m \in Nat /\ Len(frames) = m + 1
  BY <1>1, <1>2
<1> QED
  BY <1>2, <1>3

(* What a step does to the frames that changes the innermost, ... *)
LEMMA Replacing ==
  ASSUME Typed, frames # <<>>, NEW g, frames' = [frames EXCEPT ![Len(frames)] = g]
  PROVE  \E m \in Nat :
           /\ Len(frames) = m + 1 /\ Len(frames') = m + 1 /\ m + 1 \in DOMAIN frames
           /\ frames[m + 1] = Last(frames) /\ frames'[m + 1] = g /\ Beneath(m)
<1>1. /\ Len(frames) \in DOMAIN frames /\ Len(frames) \in Nat \ {0}
      /\ Last(frames) = frames[Len(frames)]
      /\ Len(frames') = Len(frames) /\ frames'[Len(frames)] = g
      /\ \A i \in 1 .. Len(frames) - 1 : frames'[i] = frames[i]
  <2>1. frames \in Seq(Frames \cup {g})
    BY DEF Typed
  <2> QED
    BY <2>1, OnTop, Replaced
<1>2. PICK m \in Nat : Len(frames) = m + 1 /\ Len(frames) - 1 = m
  BY AboveOthers
<1> QED
  BY <1>1, <1>2 DEF Beneath

(* ... takes it off ... *)
LEMMA Leaving ==
  ASSUME Typed, frames # <<>>, frames' = Front(frames)
  PROVE  \E m \in Nat :
           /\ Len(frames) = m + 1 /\ Len(frames') = m /\ m + 1 \in DOMAIN frames
           /\ frames[m + 1] = Last(frames) /\ Beneath(m)
<1>1. /\ Len(frames) \in DOMAIN frames /\ Len(frames) \in Nat \ {0}
      /\ Last(frames) = frames[Len(frames)]
      /\ Len(frames') = Len(frames) - 1
      /\ \A i \in 1 .. Len(frames) - 1 : frames'[i] = frames[i]
  BY OnTop, Dropped DEF Typed
<1>2. PICK m \in Nat : Len(frames) = m + 1 /\ Len(frames) - 1 = m
  BY AboveOthers
<1> QED
  BY <1>1, <1>2 DEF Beneath

(* ... or puts one more on. *)
LEMMA Entering ==
  ASSUME Typed, NEW g, frames' = Append(frames, g)
  PROVE  \E m \in Nat :
           /\ Len(frames) = m /\ Len(frames') = m + 1 /\ frames'[m + 1] = g /\ Beneath(m)
<1>1. /\ Len(frames) \in Nat /\ Len(frames') = Len(frames) + 1
      /\ \A i \in 1 .. Len(frames) : frames'[i] = frames[i]
      /\ frames'[Len(frames) + 1] = g
  <2>1. frames \in Seq(Frames \cup {g})
    BY DEF Typed
  <2> QED
    BY <2>1, Pushed
<1> QED
  BY <1>1 DEF Beneath

(* A settling frame that goes on settling. *)
LEMMA StillSettling ==
  ASSUME Typed, Typed', RecordInv, frames # <<>>, Last(frames).at = "settle", ~Failing,
         NEW g, g.at = "settle", g.back = Last(frames).back,
         frames' = [frames EXCEPT ![Len(frames)] = g], proof' = proof, next' = Turn
  PROVE  RecordInv'
<1>1. PICK f : f = Last(frames)
  OBVIOUS
<1>2. PICK m \in Nat :
        /\ Len(frames) = m + 1 /\ Len(frames') = m + 1 /\ frames[m + 1] = f /\ frames'[m + 1] = g
        /\ Beneath(m) /\ f.at = "settle" /\ g.back = f.back /\ m + 1 \in DOMAIN frames
  BY <1>1, Replacing
<1>3. Settling(m + 1) /\ Settling(m + 1)' /\ Opens(m + 1) /\ ~Unrecorded(m + 1)'
  BY <1>2 DEF Settling, Opens, Unrecorded
<1>4. Carried = NoNode /\ Carried' = NoNode
  <2>1. Before(m + 1, Carried)
    BY <1>2 DEF RecordInv, Holding
  <2>2. next'.go = "turn"
    BY DEF Turn
  <2> QED
    BY <1>3, <2>1, <2>2 DEF Before, Carried
<1>5. TopKeeps(m) = f.back.node /\ TopKeeps(m)' = f.back.node
  BY <1>2 DEF TopKeeps, Keeps
<1>6. SettlesTop(m) /\ SettlesTop(m)'
  BY <1>2, <1>3 DEF SettlesTop
<1>7. FrameTells(m + 1)'
  <2>1. FrameTells(m + 1)
    BY <1>2 DEF RecordInv, Telling
  <2>2. Keeps(frames[m + 1]) = f.back.node /\ Keeps(frames'[m + 1]) = f.back.node
    BY <1>2 DEF Keeps
  <2> QED
    BY <1>2, <1>3, <2>1, <2>2 DEF FrameTells, Tells
<1>8. \A n : ChildrenOf(n)' = ChildrenOf(n)
  BY DEF ChildrenOf
<1>9. NoNode \notin DOMAIN proof.nodes
  BY DEF Typed, Proofs, NoNode
<1>10. PICK c : c = Carried
  OBVIOUS
<1> QED
  BY <1>2, <1>3, <1>4, <1>5, <1>6, <1>7, <1>9, <1>10, MovesOn

(* The innermost frame of a relation is left. *)
LEMMA LeavesRelation ==
  ASSUME Typed, Typed', RecordInv, frames # <<>>, Last(frames).at = "relation",
         frames' = Front(frames), Carried' = Carried, NEW c, c = Carried,
         proof'.paused = proof.paused, DOMAIN proof'.nodes = DOMAIN proof.nodes,
         \A n \in DOMAIN proof.nodes : n # c => proof'.nodes[n] = proof.nodes[n],
         c \in DOMAIN proof.nodes =>
           /\ ChildrenOf(c)' = ChildrenOf(c)
           /\ proof'.nodes[c] = proof.nodes[c] \/ (~Incomplete(c) /\ ~Incomplete(c)'),
         Failing => Failing',
         Carried' # NoNode /\ ~Failing' => CarriedTells'
  PROVE  RecordInv'
<1>1. PICK f : f = Last(frames)
  OBVIOUS
<1>2. PICK m \in Nat :
        /\ Len(frames) = m + 1 /\ Len(frames') = m /\ frames[m + 1] = f
        /\ Beneath(m) /\ f.at = "relation"
  BY <1>1, Leaving
<1>3. ~Settling(m + 1) /\ Opens(m + 1) /\ Len(frames') # m + 1
  BY <1>2 DEF Settling, Opens
<1>4. TopKeeps(m) = NoNode /\ TopKeeps(m)' = NoNode /\ ~SettlesTop(m) /\ ~SettlesTop(m)'
  BY <1>2, <1>3 DEF TopKeeps, Keeps, SettlesTop
<1> QED
  BY <1>2, <1>3, <1>4, MovesOn

-----------------------------------------------------------------------------
(* The recorder, step by step.                                             *)

(* A call that fails where it is made has no node. *)
LEMMA FailsHereRecord ==
  ASSUME Typed, Typed', RecordInv, next.go = "relation", frames' = frames, proof' = proof,
         next' = Failed(NoNode)
  PROVE  RecordInv'
<1>1. Carried = NoNode /\ Carried' = NoNode
  BY DEF Carried, Failed
<1>2. Failing'
  BY DEF Failing, Failed
<1> QED
  BY <1>1, <1>2, HandsOn

(* A relation's node is its rewrite's. *)
LEMMA AnsweredRecord ==
  ASSUME Typed, Typed', RecordInv, Answered
  PROVE  RecordInv'
<1>1. /\ next.go = "back" /\ ~next.failed /\ frames # <<>> /\ Last(frames).at = "relation"
      /\ next' = Test(next.allowed, next.node, FALSE) /\ frames' = frames /\ proof' = proof
  BY DEF Answered, Returned
<1>2. next'.go = "test" /\ next'.allowed = next.allowed /\ next'.node = next.node
  BY <1>1 DEF Test
<1>3. Carried' = Carried /\ ~Failing
  BY <1>1, <1>2 DEF Carried, Failing
<1>4. PICK c : c = Carried
  OBVIOUS
<1>5. Opens(Len(frames))
  BY <1>1, OnTop DEF Typed, Opens
<1>6. c # NoNode => Tells(c, next.allowed)
  BY <1>3, <1>4, <1>5 DEF RecordInv, Telling, CarriedTells
<1>7. c # NoNode => CarriedTells'
  BY <1>1, <1>2, <1>3, <1>4, <1>6 DEF CarriedTells, Tells
<1> QED
  BY <1>1, <1>3, <1>4, <1>7, HandsOn

(* A member is called again with nothing in hand. *)
LEMMA ReevaluateRecord ==
  ASSUME Typed, Typed', RecordInv, Reevaluate
  PROVE  RecordInv'
<1>1. next.go = "turn" /\ next'.go = "rewrite" /\ frames' = frames /\ proof' = proof
  BY DEF Reevaluate, AtTurn, Rewrite
<1>2. Carried = NoNode /\ Carried' = NoNode /\ ~Failing
  BY <1>1 DEF Carried, Failing
<1> QED
  BY <1>1, <1>2, HandsOn

(* A round goes on past a member that is true, ... *)
LEMMA SkipMemberRecord ==
  ASSUME Typed, Typed', Shape, RecordInv, SkipMember
  PROVE  RecordInv'
<1>1. next.go = "turn" /\ frames # <<>> /\ Last(frames).at = "settle" /\ ~Failing
  BY DEF SkipMember, AtTurn, Shape, Chain, Failing
<1>2. PICK f : f = Last(frames)
  OBVIOUS
<1>3. f \in RelationFrames
  BY <1>1, <1>2, OnTopOf
<1>4. PICK g : g = [f EXCEPT !.turn = @ + 1]
  OBVIOUS
<1>5. g.at = "settle" /\ g.back = f.back
  BY <1>1, <1>2, <1>3, <1>4 DEF RelationFrames
<1>6. frames' = [frames EXCEPT ![Len(frames)] = g]
  <2>1. frames[Len(frames)] = f
    BY <1>1, <1>2, OnTop DEF Typed
  <2> QED
    BY <1>4, <2>1 DEF SkipMember
<1>7. proof' = proof /\ next' = Turn
  BY <1>1, NextTypes DEF SkipMember, Typed, RelationCalls, RewriteCalls, Backs, Tests, Turn
<1> QED
  BY <1>1, <1>2, <1>5, <1>6, <1>7, StillSettling

(* ... and past one whose answer may have risen. *)
LEMMA RaiseRecord ==
  ASSUME Typed, Typed', RecordInv, Raise
  PROVE  RecordInv'
<1>1. frames # <<>> /\ Last(frames).at = "settle" /\ ~Failing
  BY DEF Raise, Returned, Failing
<1>2. PICK f : f = Last(frames)
  OBVIOUS
<1>3. f \in RelationFrames
  BY <1>1, <1>2, OnTopOf
<1>4. PICK rises : rises = (next.allowed /\ memo[Member(f)].state # "true")
  OBVIOUS
<1>5. PICK g : g = [f EXCEPT !.turn = @ + 1, !.changed = @ \/ rises]
  OBVIOUS
<1>6. g.at = "settle" /\ g.back = f.back
  BY <1>1, <1>2, <1>3, <1>5 DEF RelationFrames
<1>7. frames' = [frames EXCEPT ![Len(frames)] = g] /\ proof' = proof /\ next' = Turn
  BY <1>2, <1>4, <1>5 DEF Raise
<1> QED
  BY <1>1, <1>2, <1>6, <1>7, StillSettling

(* The root's node waits until its component is settled. *)
LEMMA SettleRecord ==
  ASSUME Typed, Typed', Shape, RecordInv, Settle
  PROVE  RecordInv'
<1>1. /\ next.go = "test" /\ frames # <<>> /\ Last(frames).at = "relation" /\ ~Failing
      /\ proof' = pause(proof) /\ next' = Turn
  BY DEF Settle, Shape, Chain, Failing
<1>2. PICK f : f = Last(frames)
  OBVIOUS
<1>3. f \in RelationFrames
  BY <1>1, <1>2, OnTopOf
<1>4. PICK g : g = [f EXCEPT !.at = "settle", !.back = Back(next.allowed, next.node),
                             !.turn = 1, !.size = Len(stack) - f.pos, !.changed = FALSE]
  OBVIOUS
<1>5. g.at = "settle" /\ g.back = Back(next.allowed, next.node)
  BY <1>3, <1>4 DEF RelationFrames
<1>6. frames' = [frames EXCEPT ![Len(frames)] = g]
  BY <1>2, <1>4 DEF Settle
<1>7. PICK m \in Nat :
        /\ Len(frames) = m + 1 /\ Len(frames') = m + 1 /\ frames[m + 1] = f /\ frames'[m + 1] = g
        /\ Beneath(m) /\ f.at = "relation"
  BY <1>1, <1>2, <1>6, Replacing
<1>8. PICK c : c = Carried
  OBVIOUS
<1>9. c = next.node
  BY <1>1, <1>8 DEF Carried
<1>10. /\ Settling(m + 1)' /\ ~Settling(m + 1) /\ Opens(m + 1) /\ ~Unrecorded(m + 1)'
  BY <1>5, <1>7 DEF Settling, Opens, Unrecorded
<1>11. Keeps(frames'[m + 1]) = c /\ Keeps(frames[m + 1]) = NoNode
  BY <1>5, <1>7, <1>9 DEF Keeps, Back
<1>12. Carried' = NoNode
  BY <1>1 DEF Carried, Turn
<1>13. TopKeeps(m) = NoNode /\ TopKeeps(m)' = c
  BY <1>7, <1>11 DEF TopKeeps
<1>14. ~SettlesTop(m) /\ SettlesTop(m)'
  BY <1>7, <1>10 DEF SettlesTop
<1>15. proof'.paused = proof.paused + 1 /\ proof'.nodes = proof.nodes
  BY <1>1 DEF pause, Typed, Proofs
<1>16. FrameTells(m + 1)'
  <2>1. c # NoNode => CarriedTells
    BY <1>1, <1>8 DEF RecordInv, Telling
  <2>2. c # NoNode => Tells(c, next.allowed)
    BY <1>1, <1>8, <2>1 DEF CarriedTells
  <2>3. frames'[m + 1].back.allowed = next.allowed
    BY <1>5, <1>7 DEF Back
  <2> QED
    BY <1>10, <1>11, <1>15, <2>2, <2>3 DEF FrameTells, Tells
<1>17. \A n : ChildrenOf(n)' = ChildrenOf(n)
  BY <1>15 DEF ChildrenOf
<1> QED
  BY <1>1, <1>7, <1>8, <1>10, <1>12, <1>13, <1>14, <1>15, <1>16, <1>17, MovesOn

(* The root's node is handed on when the rounds are over. *)
LEMMA EndRoundRecord ==
  ASSUME Typed, Typed', Shape, RecordInv, EndRound
  PROVE  RecordInv'
<1>1. next.go = "turn" /\ frames # <<>> /\ Last(frames).at = "settle" /\ ~Failing
  BY DEF EndRound, Shape, Chain, Failing
<1>2. PICK f : f = Last(frames)
  OBVIOUS
<1>3. f \in RelationFrames
  BY <1>1, <1>2, OnTopOf
<1>4. CASE LastRound(f)
  <2>1. PICK g : g = [f EXCEPT !.at = "relation"]
    OBVIOUS
  <2>2. g.at = "relation"
    BY <1>3, <2>1 DEF RelationFrames
  <2>3. /\ frames' = [frames EXCEPT ![Len(frames)].at = "relation"]
        /\ proof' = resume(proof) /\ next' = Test(f.back.allowed, f.back.node, TRUE)
    BY <1>2, <1>4 DEF EndRound
  <2>4. frames' = [frames EXCEPT ![Len(frames)] = g]
    <3>1. frames[Len(frames)] = f
      BY <1>1, <1>2, OnTop DEF Typed
    <3> QED
      BY <2>1, <2>3, <3>1
  <2>5. PICK m \in Nat :
          /\ Len(frames) = m + 1 /\ Len(frames') = m + 1 /\ m + 1 \in DOMAIN frames
          /\ frames[m + 1] = f /\ frames'[m + 1] = g
          /\ Beneath(m) /\ f.at = "settle"
    BY <1>1, <1>2, <2>4, Replacing
  <2>6. /\ Settling(m + 1) /\ ~Settling(m + 1)' /\ Opens(m + 1) /\ ~Unrecorded(m + 1)'
    BY <2>2, <2>5 DEF Settling, Opens, Unrecorded
  <2>7. Keeps(frames'[m + 1]) = NoNode /\ Keeps(frames[m + 1]) = f.back.node
    BY <2>2, <2>5 DEF Keeps
  <2>8. /\ next'.go = "test" /\ next'.node = f.back.node /\ next'.allowed = f.back.allowed
        /\ Carried = NoNode /\ Carried' = f.back.node
    BY <1>1, <2>3 DEF Carried, Test
  <2>9. TopKeeps(m) = f.back.node /\ TopKeeps(m)' = NoNode
    BY <2>5, <2>7 DEF TopKeeps
  <2>10. SettlesTop(m) /\ ~SettlesTop(m)'
    BY <2>5, <2>6 DEF SettlesTop
  <2>11. proof'.paused = proof.paused - 1 /\ proof'.nodes = proof.nodes
    BY <2>3 DEF resume, Typed, Proofs
  <2>12. FrameTells(m + 1)'
    BY <2>7 DEF FrameTells
  <2>13. Carried' # NoNode => CarriedTells'
    <3>1. FrameTells(m + 1)
      BY <2>5 DEF RecordInv, Telling
    <3> QED
      BY <2>5, <2>6, <2>7, <2>8, <2>11, <3>1 DEF FrameTells, CarriedTells, Tells
  <2>14. PICK c : c = Carried
    OBVIOUS
  <2>15. c = NoNode /\ NoNode \notin DOMAIN proof.nodes
    BY <2>8, <2>14 DEF Typed, Proofs, NoNode
  <2> QED
    BY <1>1, <2>2, <2>5, <2>6, <2>8, <2>9, <2>10, <2>11, <2>12, <2>13, <2>14, <2>15, MovesOn
<1>5. CASE ~LastRound(f)
  <2>1. PICK g : g = [f EXCEPT !.turn = 1, !.size = Resliced(f), !.changed = FALSE]
    OBVIOUS
  <2>2. g.at = "settle" /\ g.back = f.back
    BY <1>1, <1>2, <1>3, <2>1 DEF RelationFrames
  <2>3. frames' = [frames EXCEPT ![Len(frames)] = g] /\ proof' = proof /\ next' = next
    BY <1>2, <1>5, <2>1 DEF EndRound
  <2>4. next' = Turn
    BY <1>1, <2>3, NextTypes DEF Typed, RelationCalls, RewriteCalls, Backs, Tests, Turn
  <2> QED
    BY <1>1, <1>2, <2>2, <2>3, <2>4, StillSettling
<1> QED
  BY <1>4, <1>5

(* A relation that is entered records nothing of its own. *)
LEMMA EnterRecord ==
  ASSUME Typed, Typed', RecordInv, NEW k \in Keys, Enter(k)
  PROVE  RecordInv'
<1>1. next.go = "relation" /\ next'.go = "rewrite" /\ proof' = proof
  BY DEF Enter, Calling, Rewrite
<1>2. PICK g : g = [at |-> "relation", key |-> k, index |-> index', pos |-> Len(stack),
                    outer |-> lowlink, back |-> Back(FALSE, NoNode), turn |-> 0, size |-> 0,
                    changed |-> FALSE]
  OBVIOUS
<1>3. frames' = Append(frames, g) /\ g.at = "relation"
  BY <1>2 DEF Enter
<1>4. PICK m \in Nat :
        /\ Len(frames) = m /\ Len(frames') = m + 1 /\ frames'[m + 1] = g /\ Beneath(m)
        /\ g.at = "relation"
  BY <1>3, Entering
<1>5. /\ ~Settling(m + 1)' /\ ~Unrecorded(m + 1)' /\ Keeps(frames'[m + 1]) = NoNode
      /\ Len(frames) # m + 1
  BY <1>4 DEF Settling, Unrecorded, Keeps
<1>6. Carried = NoNode /\ Carried' = NoNode /\ ~Failing
  BY <1>1 DEF Carried, Failing
<1>7. TopKeeps(m) = NoNode /\ TopKeeps(m)' = NoNode /\ ~SettlesTop(m) /\ ~SettlesTop(m)'
  BY <1>4, <1>5 DEF TopKeeps, SettlesTop
<1>8. FrameTells(m + 1)'
  BY <1>5 DEF FrameTells
<1>9. PICK c : c = Carried
  OBVIOUS
<1>10. c = NoNode /\ NoNode \notin DOMAIN proof.nodes
  BY <1>6, <1>9 DEF Typed, Proofs, NoNode
<1> QED
  BY <1>1, <1>4, <1>5, <1>6, <1>7, <1>8, <1>9, <1>10, MovesOn

(* A relation that is left on the stack hands its node on. *)
LEMMA StayRecord ==
  ASSUME Typed, Typed', Shape, RecordInv, Stay
  PROVE  RecordInv'
<1>1. /\ next.go = "test" /\ frames # <<>> /\ Last(frames).at = "relation" /\ ~Failing
      /\ next' = Back(next.allowed, next.node) /\ frames' = Front(frames) /\ proof' = proof
  BY DEF Stay, Leave, Shape, Chain, Failing
<1>2. /\ next'.go = "back" /\ ~next'.failed /\ next'.allowed = next.allowed
      /\ next'.node = next.node
  BY <1>1 DEF Back
<1>3. Carried' = Carried
  BY <1>1, <1>2 DEF Carried
<1>4. PICK c : c = Carried
  OBVIOUS
<1>5. Carried' # NoNode => CarriedTells'
  <2>1. c # NoNode => Tells(c, next.allowed)
    BY <1>1, <1>4 DEF RecordInv, Telling, CarriedTells
  <2> QED
    BY <1>1, <1>2, <1>3, <1>4, <2>1 DEF CarriedTells, Tells
<1>6. \A n : ChildrenOf(n)' = ChildrenOf(n)
  BY <1>1 DEF ChildrenOf
<1> QED
  BY <1>1, <1>3, <1>4, <1>5, <1>6, LeavesRelation

(* The root's node tells what settling left it with. *)
LEMMA PopRecord ==
  ASSUME Typed, Typed', Shape, RecordInv, Pop
  PROVE  RecordInv'
<1>1. PICK f : f = Last(frames)
  OBVIOUS
<1>2. PICK allowed \in BOOLEAN : allowed = Final(f)
  BY DEF Final
<1>3. PICK c : c = Carried
  OBVIOUS
<1>4. /\ next.go = "test" /\ frames # <<>> /\ Last(frames).at = "relation" /\ ~Failing
      /\ next' = Back(allowed, next.node) /\ frames' = Front(frames)
      /\ proof' = Closed(proof, next.node, allowed)
  BY <1>1, <1>2 DEF Pop, Leave, Revised, Shape, Chain, Failing
<1>5. c = next.node
  BY <1>3, <1>4 DEF Carried
<1>6. proof \in Proofs /\ c \in 0 .. Len(proof.nodes) /\ proof' = Closed(proof, c, allowed)
  BY <1>3, <1>4, <1>5 DEF RecordInv, Holding, Typed
<1>7. /\ proof'.paused = proof.paused /\ DOMAIN proof'.nodes = DOMAIN proof.nodes
      /\ \A n \in DOMAIN proof.nodes :
           /\ n # c => proof'.nodes[n] = proof.nodes[n]
           /\ proof'.nodes[n].children = proof.nodes[n].children
      /\ c # NoNode => proof'.nodes[c].outcome = IF allowed THEN "allowed" ELSE "denied"
  BY <1>6, ClosedNodes
<1>8. /\ next'.go = "back" /\ ~next'.failed /\ next'.allowed = allowed /\ next'.node = c
      /\ Carried' = c
  BY <1>4, <1>5 DEF Back, Carried
<1>9. c \in DOMAIN proof.nodes => c # NoNode
  BY <1>6 DEF Proofs, NoNode
<1>10. c # NoNode => ~Incomplete(c) /\ ~Incomplete(c)'
  <2>1. c # NoNode => Tells(c, next.allowed)
    BY <1>3, <1>4 DEF RecordInv, Telling, CarriedTells
  <2> QED
    BY <1>7, <2>1 DEF Incomplete, Tells
<1>11. Carried' # NoNode => CarriedTells'
  BY <1>7, <1>8 DEF CarriedTells, Tells
<1>12. c \in DOMAIN proof.nodes => ChildrenOf(c)' = ChildrenOf(c)
  BY <1>7 DEF ChildrenOf
<1> QED
  BY <1>3, <1>4, <1>7, <1>8, <1>9, <1>10, <1>11, <1>12, LeavesRelation

(* A call that is answered at once has the node that it recorded, if any. *)
LEMMA RecordsOne ==
  ASSUME Typed, Typed', RecordInv, next.go \in {"relation", "rewrite"}, frames' = frames,
         NEW p, p = NewNode, next'.go = "back", next'.node = p,
         proof'.paused = proof.paused,
         p = NoNode => proof'.nodes = proof.nodes,
         p # NoNode =>
           /\ Len(proof'.nodes) = Len(proof.nodes) + 1
           /\ \A n \in DOMAIN proof.nodes : proof'.nodes[n] = proof.nodes[n]
           /\ ChildrenOf(p)' = <<>>
           /\ next'.failed \/ (~Incomplete(p)' /\ CarriedTells')
  PROVE  RecordInv'
<1>1. PICK m \in Nat : m = Len(frames)
  BY DEF Typed
<1>2. Beneath(m) /\ Len(frames) = m /\ Len(frames') = m /\ Len(frames') # m + 1 /\ Len(frames) # m + 1
  BY <1>1 DEF Beneath
<1>3. TopKeeps(m) = NoNode /\ TopKeeps(m)' = NoNode /\ ~SettlesTop(m) /\ ~SettlesTop(m)'
  BY <1>1, <1>2 DEF TopKeeps, SettlesTop
<1>4. Carried = NoNode /\ Carried' = p /\ ~Failing
  BY DEF Carried, Failing
<1>5. CASE p = NoNode
  <2>1. PICK c : c = Carried
    OBVIOUS
  <2>2. c = NoNode /\ NoNode \notin DOMAIN proof.nodes
    BY <1>4, <2>1 DEF Typed, Proofs, NoNode
  <2> QED
    BY <1>2, <1>3, <1>4, <1>5, <2>1, <2>2, MovesOn
<1>6. CASE p # NoNode
  <2>1. /\ proof.nodes \in Seq(Nodes) /\ proof'.nodes \in Seq(Nodes)
        /\ Recording /\ Holding /\ Linking /\ Telling
    BY DEF Typed, Proofs, RecordInv
  <2>2. p = Len(proof.nodes) + 1 /\ Len(proof'.nodes) = p
    BY <1>6, <2>1, RoomToRecord
  <2>3. Len(proof.nodes) <= Len(proof'.nodes) /\ p \in Nat \ {0}
    BY <2>1, <2>2
  <2>4. Recording'
    BY <1>2, <1>3, <2>1, <2>3, RecordingMoves
  <2>5. Holding'
    BY <1>2, <1>3, <1>4, <1>6, <2>1, <2>2, HoldingGrows
  <2>6. InHand(p)'
    BY <1>4 DEF InHand
  <2>7. ASSUME NEW n \in DOMAIN proof.nodes
        PROVE  ChildrenOf(n)' = ChildrenOf(n) /\ (InHand(n)' <=> InHand(n))
    <3>1. n \in Nat \ {0} /\ n # p
      BY <2>1, <2>2
    <3>2. InHand(n)' <=> InHand(n)
      BY <1>2, <1>3, <1>4, <3>1, InHandIs DEF NoNode
    <3>3. ChildrenOf(n)' = ChildrenOf(n)
      BY <1>6 DEF ChildrenOf
    <3> QED
      BY <3>2, <3>3
  <2>8. Linking'
    BY <1>6, <2>1, <2>2, <2>6, <2>7, LinkingGrows
  <2>9. Incomplete(p)' => Failing'
    BY <1>6 DEF Failing
  <2>10. ~Failing' => CarriedTells'
    BY <1>6 DEF Failing
  <2>11. Telling'
    BY <1>2, <1>4, <1>6, <2>1, <2>2, <2>9, <2>10, TellingGrows
  <2> QED
    BY <2>4, <2>5, <2>8, <2>11 DEF RecordInv
<1> QED
  BY <1>5, <1>6

(* A node that is opened. *)
LEMMA OpensOne ==
  ASSUME proof \in Proofs, NEW k \in Keys, NEW op \in Operators, NEW outcome \in Outcomes,
         NEW memoized \in BOOLEAN, NEW p, p = NewNode,
         proof' = Opened(k, op, outcome, memoized)
  PROVE  /\ proof'.paused = proof.paused
         /\ p = NoNode => proof'.nodes = proof.nodes
         /\ p # NoNode =>
              /\ Len(proof'.nodes) = Len(proof.nodes) + 1
              /\ \A n \in DOMAIN proof.nodes : proof'.nodes[n] = proof.nodes[n]
              /\ ChildrenOf(p)' = <<>>
              /\ proof'.nodes[p].outcome = outcome
<1> DEFINE node == [key |-> k, op |-> op, outcome |-> outcome, memoized |-> memoized,
                    children |-> <<>>]
<1>1. /\ proof'.paused = proof.paused
      /\ NewNode = NoNode => proof'.nodes = proof.nodes
      /\ NewNode # NoNode => proof'.nodes = Append(proof.nodes, node)
  BY OpenedNodes
<1>2. node.children = <<>> /\ node.outcome = outcome /\ node \in Nodes
  BY DEF Nodes
<1>3. p # NoNode => p = Len(proof.nodes) + 1
  BY DEF NewNode
<1> HIDE DEF node
<1>4. p # NoNode =>
        /\ Len(proof'.nodes) = Len(proof.nodes) + 1
        /\ \A n \in DOMAIN proof.nodes : proof'.nodes[n] = proof.nodes[n]
        /\ proof'.nodes[p] = node
  BY <1>1, <1>2, <1>3 DEF Proofs
<1> QED
  BY <1>1, <1>2, <1>4 DEF ChildrenOf

(* A node that is opened and closed at once. *)
LEMMA OpensAndCloses ==
  ASSUME proof \in Proofs, NEW k \in Keys, NEW op \in Operators, NEW allowed \in BOOLEAN,
         NEW memoized \in BOOLEAN, NEW p, p = NewNode,
         NEW opened, opened = Opened(k, op, "incomplete", memoized),
         proof' = Closed(opened, p, allowed)
  PROVE  /\ proof'.paused = proof.paused
         /\ p = NoNode => proof'.nodes = proof.nodes
         /\ p # NoNode =>
              /\ Len(proof'.nodes) = Len(proof.nodes) + 1
              /\ \A n \in DOMAIN proof.nodes : proof'.nodes[n] = proof.nodes[n]
              /\ ChildrenOf(p)' = <<>>
              /\ proof'.nodes[p].outcome = IF allowed THEN "allowed" ELSE "denied"
<1> DEFINE node == [key |-> k, op |-> op, outcome |-> "incomplete", memoized |-> memoized,
                    children |-> <<>>]
<1>1. "incomplete" \in Outcomes
  BY DEF Outcomes
<1>2. opened \in Proofs
  BY <1>1, OpenedType
<1>3. /\ opened.paused = proof.paused
      /\ NewNode = NoNode => opened.nodes = proof.nodes
      /\ NewNode # NoNode => opened.nodes = Append(proof.nodes, node)
  BY <1>1, OpenedNodes
<1>4. node.children = <<>> /\ node \in Nodes
  BY <1>1 DEF Nodes
<1>5. p # NoNode => p = Len(proof.nodes) + 1
  BY DEF NewNode
<1> HIDE DEF node
<1>6. p # NoNode =>
        /\ Len(opened.nodes) = Len(proof.nodes) + 1
        /\ \A n \in DOMAIN proof.nodes : opened.nodes[n] = proof.nodes[n]
        /\ opened.nodes[p] = node
  BY <1>3, <1>4, <1>5 DEF Proofs
<1>7. p \in 0 .. Len(opened.nodes)
  <2>1. Len(proof.nodes) \in Nat /\ Len(opened.nodes) \in Nat
    BY <1>2 DEF Proofs
  <2> QED
    BY <1>5, <1>6, <2>1 DEF NoNode
<1>8. /\ proof'.paused = opened.paused
      /\ Len(proof'.nodes) = Len(opened.nodes)
      /\ \A n \in DOMAIN opened.nodes :
           /\ n # p => proof'.nodes[n] = opened.nodes[n]
           /\ proof'.nodes[n].children = opened.nodes[n].children
      /\ p # NoNode => proof'.nodes[p].outcome = IF allowed THEN "allowed" ELSE "denied"
  <2> DEFINE closed == Closed(opened, p, allowed)
  <2>1. /\ closed.paused = opened.paused
        /\ Len(closed.nodes) = Len(opened.nodes)
        /\ \A n \in DOMAIN opened.nodes :
             /\ n # p => closed.nodes[n] = opened.nodes[n]
             /\ closed.nodes[n].children = opened.nodes[n].children
        /\ p # NoNode => closed.nodes[p].outcome = IF allowed THEN "allowed" ELSE "denied"
    BY <1>2, <1>7, ClosedNodes
  <2>2. proof' = closed
    OBVIOUS
  <2> HIDE DEF closed
  <2> QED
    BY <2>1, <2>2
<1>9. CASE p = NoNode
  <2>1. proof' = opened
    BY <1>9 DEF Closed
  <2> QED
    BY <1>3, <1>9, <2>1
<1>10. CASE p # NoNode
  <2>1. \A n \in DOMAIN proof.nodes : n # p /\ n \in DOMAIN opened.nodes
    BY <1>2, <1>5, <1>6, <1>10 DEF Proofs
  <2>2. p \in DOMAIN opened.nodes
    BY <1>2, <1>5, <1>6, <1>10 DEF Proofs
  <2>3. ChildrenOf(p)' = <<>>
    BY <1>4, <1>6, <1>8, <1>10, <2>2 DEF ChildrenOf
  <2> QED
    BY <1>3, <1>6, <1>8, <1>10, <2>1, <2>3
<1> QED
  BY <1>9, <1>10

(* A relation is called by a rewrite, or is what was asked. *)
LEMMA CalledByRewrite ==
  ASSUME Typed, Shape, next.go = "relation", frames # <<>>
  PROVE  ~Opens(Len(frames))
<1>1. next = Awaits(Last(frames))
  BY DEF Shape, Chain
<1>2. Last(frames) = frames[Len(frames)] /\ Last(frames).at \in {"operands", "relation", "settle"}
  BY OnTopOf
<1>3. Last(frames).at # "operands" => Awaits(Last(frames)).go = "rewrite"
  BY <1>2 DEF Awaits, Rewrite
<1> QED
  BY <1>1, <1>2, <1>3 DEF Opens

(* An answer that is reused has a leaf; one still computed is a cycle, and *)
(* what asked for it is a rewrite.                                         *)
LEMMA ReuseRecord ==
  ASSUME Typed', Facts, Shape, Sense, RecordInv, NEW k \in Keys, Reuse(k)
  PROVE  RecordInv'
<1>1. Typed /\ proof \in Proofs /\ asked \in DOMAIN Cases
  BY DEF Facts, Typed
<1>2. /\ next.go = "relation" /\ next.key = k /\ IsDefined(k) /\ memo[k] # Unseen
      /\ frames' = frames
  BY DEF Reuse, Calling
<1>3. Definition(k).op \in Operators
  <2>1. Said(k) \in DOMAIN meaning /\ Said(k).rw = Definition(k)
    BY <1>2, CalledClaim DEF Said, Says, Claim, Definition
  <2> QED
    BY <1>1, <2>1, ClaimFacts DEF Operators, Simple
<1>4. memo[k].state \in {"computing", "true", "false"}
  <2>1. memo[k] \in Memos
    BY <1>1 DEF Typed
  <2> QED
    BY <1>2, <2>1 DEF Facts, MemoKnown, Memos, Unseen
<1>5. PICK p : p = NewNode
  OBVIOUS
<1>6. PICK allowed \in BOOLEAN : allowed = (memo[k].state = "true")
  OBVIOUS
<1>7. PICK outcome : outcome = CASE memo[k].state = "computing" -> "cycle"
                                 [] memo[k].state = "true"  -> "allowed"
                                 [] memo[k].state = "false" -> "denied"
  OBVIOUS
<1>8. PICK memoized \in BOOLEAN : memoized = (memo[k].state # "computing")
  OBVIOUS
<1>9. outcome \in Outcomes /\ outcome # "incomplete"
  BY <1>4, <1>7 DEF Outcomes
<1>10. proof' = Opened(k, Definition(k).op, outcome, memoized)
  BY <1>4, <1>7, <1>8 DEF Reuse
<1>11. next'.go = "back" /\ next'.node = p /\ next'.allowed = allowed /\ ~next'.failed
  BY <1>5, <1>6 DEF Reuse, Back
<1>12. /\ proof'.paused = proof.paused
       /\ p = NoNode => proof'.nodes = proof.nodes
       /\ p # NoNode =>
            /\ Len(proof'.nodes) = Len(proof.nodes) + 1
            /\ \A n \in DOMAIN proof.nodes : proof'.nodes[n] = proof.nodes[n]
            /\ ChildrenOf(p)' = <<>>
            /\ proof'.nodes[p].outcome = outcome
  BY <1>1, <1>3, <1>5, <1>9, <1>10, OpensOne
<1>13. memo[k].state = "computing" => frames # <<>> /\ ~Opens(Len(frames))
  <2>1. memo[k].state = "computing" => DOMAIN frames # {}
    BY DEF Sense, ComputingOpen
  <2>2. frames = <<>> => DOMAIN frames = {}
    OBVIOUS
  <2> QED
    BY <1>1, <1>2, <2>1, <2>2, CalledByRewrite
<1>14. p # NoNode => CarriedTells'
  <2>1. Carried' = p
    BY <1>11 DEF Carried
  <2>2. ~Opens(Len(frames)) => ~Opens(Len(frames))'
    BY <1>2 DEF Opens
  <2> QED
    BY <1>2, <1>4, <1>6, <1>7, <1>11, <1>12, <1>13, <2>1, <2>2 DEF CarriedTells, Tells
<1>15. p # NoNode => ~Incomplete(p)'
  BY <1>9, <1>12 DEF Incomplete
<1> QED
  BY <1>1, <1>2, <1>5, <1>11, <1>12, <1>14, <1>15, RecordsOne

(* A source that fails leaves its rewrite's node incomplete. *)
LEMMA SourceFailsRecord ==
  ASSUME Typed', Facts, Shape, RecordInv, SourceFails
  PROVE  RecordInv'
<1>1. Typed /\ proof \in Proofs
  BY DEF Facts, Typed
<1>2. /\ next.go = "rewrite" /\ frames' = frames /\ next' = Failed(NewNode)
      /\ proof' = Opened(next.key, next.rw.op, "incomplete", FALSE)
  BY DEF SourceFails, Rewriting
<1>3. next.key \in Keys /\ next.rw.op \in Operators
  BY <1>2, RewritingTypes
<1>4. PICK p : p = NewNode
  OBVIOUS
<1>5. next'.go = "back" /\ next'.node = p /\ next'.failed
  BY <1>2, <1>4 DEF Failed
<1>6. /\ proof'.paused = proof.paused
      /\ p = NoNode => proof'.nodes = proof.nodes
      /\ p # NoNode =>
           /\ Len(proof'.nodes) = Len(proof.nodes) + 1
           /\ \A n \in DOMAIN proof.nodes : proof'.nodes[n] = proof.nodes[n]
           /\ ChildrenOf(p)' = <<>>
  <2>1. "incomplete" \in Outcomes
    BY DEF Outcomes
  <2>2. PICK k \in Keys : k = next.key
    BY <1>3
  <2>3. PICK op \in Operators : op = next.rw.op
    BY <1>3
  <2>4. PICK memoized \in BOOLEAN : memoized = FALSE
    OBVIOUS
  <2>5. proof' = Opened(k, op, "incomplete", memoized)
    BY <1>2, <2>2, <2>3, <2>4
  <2> QED
    BY <1>1, <1>4, <2>1, <2>5, OpensOne
<1> QED
  BY <1>1, <1>2, <1>4, <1>5, <1>6, RecordsOne

(* A rewrite that calls nothing is closed as soon as it is open. *)
LEMMA AtOnceRecord ==
  ASSUME Typed', Facts, Shape, RecordInv, next.go = "rewrite", frames' = frames,
         NEW allowed \in BOOLEAN, NEW memoized \in BOOLEAN, memoized = FALSE,
         NEW p, p = NewNode, next' = Back(allowed, p),
         NEW opened, opened = Opened(next.key, next.rw.op, "incomplete", memoized),
         proof' = Closed(opened, p, allowed)
  PROVE  RecordInv'
<1>1. Typed /\ proof \in Proofs
  BY DEF Facts, Typed
<1>2. PICK k \in Keys : k = next.key
  BY RewritingTypes
<1>3. PICK op \in Operators : op = next.rw.op
  BY RewritingTypes
<1>4. opened = Opened(k, op, "incomplete", memoized)
  BY <1>2, <1>3
<1>5. /\ proof'.paused = proof.paused
      /\ p = NoNode => proof'.nodes = proof.nodes
      /\ p # NoNode =>
           /\ Len(proof'.nodes) = Len(proof.nodes) + 1
           /\ \A n \in DOMAIN proof.nodes : proof'.nodes[n] = proof.nodes[n]
           /\ ChildrenOf(p)' = <<>>
           /\ proof'.nodes[p].outcome = IF allowed THEN "allowed" ELSE "denied"
  BY <1>1, <1>4, OpensAndCloses
<1>6. next'.go = "back" /\ next'.node = p /\ next'.allowed = allowed /\ ~next'.failed
  BY DEF Back
<1>7. p # NoNode => ~Incomplete(p)' /\ CarriedTells'
  <2>1. Carried' = p
    BY <1>6 DEF Carried
  <2> QED
    BY <1>5, <1>6, <2>1 DEF Incomplete, CarriedTells, Tells
<1> QED
  BY <1>1, <1>5, <1>6, <1>7, RecordsOne

(* The subject that is stored is granted at once. *)
LEMMA StoredRecord ==
  ASSUME Typed', Facts, Shape, RecordInv, Stored
  PROVE  RecordInv'
<1>1. /\ next.go = "rewrite" /\ next.rw.op = "this" /\ frames' = frames
      /\ next' = Back(TRUE, NewNode)
      /\ proof' = Closed(Opened(next.key, next.rw.op, "incomplete", FALSE), NewNode, TRUE)
  BY DEF Stored, Rewriting
<1>2. PICK allowed \in BOOLEAN : allowed = TRUE
  OBVIOUS
<1>3. PICK memoized \in BOOLEAN : memoized = FALSE
  OBVIOUS
<1>4. PICK p : p = NewNode
  OBVIOUS
<1>5. PICK opened : opened = Opened(next.key, next.rw.op, "incomplete", memoized)
  OBVIOUS
<1>6. next' = Back(allowed, p) /\ proof' = Closed(opened, p, allowed)
  BY <1>1, <1>2, <1>3, <1>4, <1>5
<1> QED
  BY <1>1, <1>3, <1>4, <1>5, <1>6, AtOnceRecord

(* A rewrite that calls keeps its node until its calls are back. *)
LEMMA ExpandRecord ==
  ASSUME Typed', Facts, Shape, RecordInv, Expand
  PROVE  RecordInv'
<1> DEFINE opened == Opened(next.key, next.rw.op, "incomplete", FALSE)
<1>1. Typed /\ proof \in Proofs /\ next.go = "rewrite"
  BY DEF Facts, Typed, Expand
<1>2. PICK calls \in Calls(next.rw, next.key) :
        IF calls = <<>>
        THEN /\ proof' = Closed(opened, NewNode, FALSE)
             /\ next' = Back(FALSE, NewNode)
             /\ UNCHANGED frames
        ELSE /\ proof' = opened
             /\ frames' = Append(frames,
                  [at |-> "operands", rw |-> next.rw, key |-> next.key,
                   node |-> NewNode, calls |-> calls, turn |-> 1])
             /\ next' = calls[1]
  BY DEF Expand
<1>3. CASE calls = <<>>
  <2>1. PICK allowed \in BOOLEAN : allowed = FALSE
    OBVIOUS
  <2>2. PICK memoized \in BOOLEAN : memoized = FALSE
    OBVIOUS
  <2>3. PICK p : p = NewNode
    OBVIOUS
  <2>4. PICK node : node = Opened(next.key, next.rw.op, "incomplete", memoized)
    OBVIOUS
  <2>5. next' = Back(allowed, p) /\ proof' = Closed(node, p, allowed) /\ frames' = frames
    BY <1>2, <1>3, <2>1, <2>2, <2>3, <2>4
  <2> QED
    BY <1>1, <2>2, <2>3, <2>4, <2>5, AtOnceRecord
<1>4. CASE calls # <<>>
  <2>1. /\ next.key \in Keys /\ next.rw.op \in Operators /\ next'.go \in {"relation", "rewrite"}
    <3>1. Claim(next.rw, next.key) \in DOMAIN meaning /\ asked \in DOMAIN Cases
      BY <1>1, CalledClaim DEF Facts, Typed
    <3>2. calls \in Seq(RelationCalls \cup RewriteCalls)
      BY <1>1, <3>1, CallsMean, RewritingTypes
    <3>3. calls[1] \in RelationCalls \cup RewriteCalls
      BY <1>4, <3>2
    <3> QED
      BY <1>1, <1>2, <1>4, <3>3, RewritingTypes DEF RelationCalls, RewriteCalls
  <2>2. PICK p : p = NewNode
    OBVIOUS
  <2>3. PICK g : g = [at |-> "operands", rw |-> next.rw, key |-> next.key,
                      node |-> NewNode, calls |-> calls, turn |-> 1]
    OBVIOUS
  <2>4. frames' = Append(frames, g) /\ g.at = "operands" /\ g.node = p
    BY <1>2, <1>4, <2>2, <2>3
  <2>5. PICK m \in Nat :
          /\ Len(frames) = m /\ Len(frames') = m + 1 /\ frames'[m + 1] = g /\ Beneath(m)
    BY <1>1, <2>4, Entering
  <2>6. /\ ~Settling(m + 1)' /\ Keeps(frames'[m + 1]) = p /\ ~Opens(m + 1)'
        /\ Len(frames) # m + 1 /\ (Unrecorded(m + 1)' => p = NoNode)
    BY <2>4, <2>5 DEF Settling, Unrecorded, Keeps, Opens
  <2>7. Carried = NoNode /\ Carried' = NoNode /\ ~Failing
    BY <1>1, <2>1 DEF Carried, Failing
  <2>8. TopKeeps(m) = NoNode /\ TopKeeps(m)' = p /\ ~SettlesTop(m) /\ ~SettlesTop(m)'
    BY <2>5, <2>6 DEF TopKeeps, SettlesTop
  <2>9. /\ proof'.paused = proof.paused
        /\ p = NoNode => proof'.nodes = proof.nodes
        /\ p # NoNode =>
             /\ Len(proof'.nodes) = Len(proof.nodes) + 1
             /\ \A n \in DOMAIN proof.nodes : proof'.nodes[n] = proof.nodes[n]
             /\ ChildrenOf(p)' = <<>>
             /\ proof'.nodes[p].outcome = "incomplete"
    <3>1. "incomplete" \in Outcomes
      BY DEF Outcomes
    <3>2. PICK k \in Keys : k = next.key
      BY <2>1
    <3>3. PICK op \in Operators : op = next.rw.op
      BY <2>1
    <3>4. PICK memoized \in BOOLEAN : memoized = FALSE
      OBVIOUS
    <3>5. proof' = Opened(k, op, "incomplete", memoized)
      BY <1>2, <1>4, <3>2, <3>3, <3>4
    <3> QED
      BY <1>1, <2>2, <3>1, <3>5, OpensOne
  <2>10. /\ proof.nodes \in Seq(Nodes) /\ proof'.nodes \in Seq(Nodes)
         /\ Recording /\ Holding /\ Linking /\ Telling
    BY <1>1 DEF Typed, Proofs, RecordInv
  <2>11. Len(proof.nodes) <= Len(proof'.nodes)
    BY <2>9, <2>10
  <2>12. Recording'
    BY <1>1, <2>2, <2>5, <2>6, <2>8, <2>9, <2>10, <2>11, RecordingMoves
  <2>13. CASE p = NoNode
    <3>1. Holding'
      BY <1>1, <2>5, <2>7, <2>8, <2>10, <2>11, <2>13, HoldingMoves
    <3>2. DOMAIN proof'.nodes = DOMAIN proof.nodes
          /\ \A n : ChildrenOf(n)' = ChildrenOf(n)
      BY <2>9, <2>13 DEF ChildrenOf
    <3>3. \A n \in DOMAIN proof.nodes : InHand(n)' <=> InHand(n)
      <4>1. \A n \in DOMAIN proof.nodes : n \in Nat \ {0}
        BY <2>10
      <4> QED
        BY <1>1, <2>5, <2>7, <2>8, <2>13, <4>1, InHandIs DEF NoNode
    <3>4. Linking'
      BY <2>10, <3>2, <3>3, LinkingMoves
    <3>5. FrameTells(m + 1)'
      BY <2>6, <2>13 DEF FrameTells
    <3>6. NoNode \in Nat /\ NoNode \notin DOMAIN proof.nodes
      BY <2>10 DEF NoNode
    <3>7. Telling'
      BY <1>1, <2>5, <2>6, <2>7, <2>9, <2>10, <2>13, <3>2, <3>5, <3>6, TellingMoves
    <3> QED
      BY <2>12, <3>1, <3>4, <3>7 DEF RecordInv
  <2>14. CASE p # NoNode
    <3>1. p = Len(proof.nodes) + 1 /\ Len(proof'.nodes) = p /\ p \in Nat \ {0}
      <4>1. p = Len(proof.nodes) + 1
        BY <1>1, <2>2, <2>10, <2>14, RoomToRecord
      <4> QED
        BY <2>9, <2>10, <2>14, <4>1
    <3>2. Holding'
      BY <1>1, <2>2, <2>5, <2>7, <2>8, <2>10, <2>14, <3>1, HoldingGrows
    <3>3. InHand(p)'
      BY <1>1, <2>5, <2>8, <3>1, InHandIs
    <3>4. ASSUME NEW n \in DOMAIN proof.nodes
          PROVE  ChildrenOf(n)' = ChildrenOf(n) /\ (InHand(n)' <=> InHand(n))
      <4>1. n \in Nat \ {0} /\ n # p
        BY <2>10, <3>1
      <4>2. InHand(n)' <=> InHand(n)
        BY <1>1, <2>5, <2>7, <2>8, <4>1, InHandIs DEF NoNode
      <4>3. ChildrenOf(n)' = ChildrenOf(n)
        BY <2>9, <2>14 DEF ChildrenOf
      <4> QED
        BY <4>2, <4>3
    <3>5. Linking'
      BY <2>9, <2>10, <2>14, <3>1, <3>3, <3>4, LinkingGrows
    <3>6. Incomplete(p)'
      BY <2>9, <2>14 DEF Incomplete
    <3>7. Telling'
      BY <1>1, <2>5, <2>6, <2>7, <2>9, <2>10, <2>14, <3>1, <3>6, TellingGrows
    <3> QED
      BY <2>12, <3>2, <3>5, <3>7 DEF RecordInv
  <2> QED
    BY <2>13, <2>14
<1> QED
  BY <1>3, <1>4

-----------------------------------------------------------------------------
(* What a call that is back handed on is hung under the node of the        *)
(* rewrite that called.                                                    *)

(* The innermost call is a rewrite with the node p, ... *)
HangsUnder(m, p) ==
  /\ Len(frames) = m + 1 /\ m + 1 \in DOMAIN frames
  /\ frames[m + 1].at = "operands" /\ frames[m + 1].node = p /\ next.go = "back"

(* ... which calls its next operand, ... *)
GoesOn(m, p) ==
  /\ Len(frames') = m + 1 /\ frames'[m + 1].at = "operands" /\ frames'[m + 1].node = p
  /\ Carried' = NoNode /\ ~Failing /\ ~Failing'
  /\ p \in DOMAIN proof.nodes => Incomplete(p)'

(* ... fails ... *)
Fails(m, p) ==
  /\ Len(frames') = m /\ Carried' = p /\ Failing'
  /\ p \in DOMAIN proof.nodes => Incomplete(p)'

(* ... or has its answer. *)
Concludes(m, p) ==
  /\ Len(frames') = m /\ Carried' = p /\ ~Failing /\ ~Failing'
  /\ p \in DOMAIN proof.nodes => ~Incomplete(p)' /\ CarriedTells'

(* However it goes on, the recorder keeps its invariant. *)
LEMMA HangsNode ==
  ASSUME Typed, Typed', RecordInv, NEW m \in Nat, Beneath(m), NEW p, NEW c, c = Carried,
         HangsUnder(m, p), HangsIn(proof', p, c), GoesOn(m, p) \/ Fails(m, p) \/ Concludes(m, p)
  PROVE  RecordInv'
<1> USE DEF HangsUnder, HangsIn, GoesOn, Fails, Concludes
<1>1. p \in DOMAIN proof.nodes =>
         ChildrenOf(p)' = IF c = NoNode THEN ChildrenOf(p) ELSE Append(ChildrenOf(p), c)
  BY DEF ChildrenOf
<1>2. /\ proof.nodes \in Seq(Nodes) /\ proof'.nodes \in Seq(Nodes) /\ frames \in Seq(Frames)
      /\ Recording /\ Holding /\ Linking /\ Telling
  BY DEF Typed, Proofs, RecordInv
<1>3. Len(proof.nodes) = Len(proof'.nodes)
  BY <1>2
<1>4. /\ ~Opens(m + 1) /\ ~Settling(m + 1) /\ Keeps(frames[m + 1]) = p
      /\ Unrecorded(m + 1) <=> p = NoNode
      /\ \A i \in 1 .. m : i \in DOMAIN frames
  BY <1>2 DEF Opens, Settling, Keeps, Unrecorded
<1>5. Len(frames') = m + 1 =>
        /\ ~Opens(m + 1)' /\ ~Settling(m + 1)' /\ Keeps(frames'[m + 1]) = p
        /\ Unrecorded(m + 1)' <=> p = NoNode
        /\ Carried' = NoNode
  BY DEF Opens, Settling, Keeps, Unrecorded
<1>6. /\ p \in 0 .. Len(proof.nodes) /\ c \in 0 .. Len(proof.nodes)
      /\ p # NoNode <=> p \in DOMAIN proof.nodes
      /\ c # NoNode <=> c \in DOMAIN proof.nodes
  <2>1. p \in 0 .. Len(proof.nodes) /\ c \in 0 .. Len(proof.nodes)
    BY <1>2, <1>4 DEF Holding
  <2> QED
    BY <1>2, <2>1 DEF NoNode
<1>7. c # NoNode => p # NoNode /\ p < c
  <2>1. Before(m + 1, c)
    BY <1>2 DEF Holding
  <2> QED
    BY <1>4, <2>1 DEF Before
<1>8. \A i \in 1 .. m : /\ Keeps(frames[i]) \in Nat
                        /\ p # NoNode => Keeps(frames[i]) < p
                        /\ c # NoNode => Keeps(frames[i]) < c
  <2>1. \A i \in 1 .. m : m + 1 \in i + 1 .. Len(frames)
    OBVIOUS
  <2>2. \A i \in 1 .. m : /\ Keeps(frames[i]) \in 0 .. Len(proof.nodes)
                          /\ Before(i, c) /\ Before(i, p)
    BY <1>2, <1>4, <2>1 DEF Holding
  <2> QED
    BY <2>2 DEF Before
<1>9. /\ TopKeeps(m) = p /\ ~SettlesTop(m) /\ ~SettlesTop(m)'
      /\ TopKeeps(m)' = IF Len(frames') = m THEN NoNode ELSE p
      /\ Carried' = IF Len(frames') = m THEN p ELSE NoNode
      /\ Len(frames') = m \/ Len(frames') = m + 1
  BY <1>4, <1>5 DEF TopKeeps, SettlesTop
<1>10. Recording'
  BY <1>2, <1>3, <1>4, <1>5, <1>9, RecordingMoves
<1>11. Holding'
  BY <1>2, <1>3, <1>9, HoldingMoves
<1>12. \A n \in DOMAIN proof.nodes :
         /\ n # c => (InHand(n)' <=> InHand(n))
         /\ n = c => InHand(n) /\ ~InHand(n)'
  <2> SUFFICES ASSUME NEW n \in DOMAIN proof.nodes
               PROVE  /\ n # c => (InHand(n)' <=> InHand(n))
                      /\ n = c => InHand(n) /\ ~InHand(n)'
    OBVIOUS
  <2>1. n \in Nat \ {0}
    BY <1>2
  <2>2. /\ InHand(n) <=> n = c \/ n = p \/ \E i \in 1 .. m : Keeps(frames[i]) = n
        /\ InHand(n)' <=> n = p \/ \E i \in 1 .. m : Keeps(frames[i]) = n
    BY <1>9, <2>1, InHandIs DEF NoNode
  <2>3. n = c => n # p /\ \A i \in 1 .. m : Keeps(frames[i]) # n
    BY <1>6, <1>7, <1>8, <2>1 DEF NoNode
  <2> QED
    BY <2>2, <2>3
<1>13. \A n \in DOMAIN proof.nodes : n # p => ChildrenOf(n)' = ChildrenOf(n)
  BY DEF ChildrenOf
<1>14. Linking'
  <2>1. CASE c = NoNode
    <3>1. ASSUME NEW n \in DOMAIN proof.nodes
          PROVE  ChildrenOf(n)' = ChildrenOf(n) /\ (InHand(n)' <=> InHand(n))
      BY <1>1, <1>6, <1>12, <1>13, <2>1
    <3> QED
      BY <1>2, <3>1, LinkingMoves
  <2>2. CASE c # NoNode
    BY <1>1, <1>2, <1>6, <1>7, <1>12, <1>13, <2>2, LinkingHangs
  <2> QED
    BY <2>1, <2>2
<1>15. c # NoNode /\ ~Failing => ~Incomplete(c)
  BY <1>2 DEF Telling, CarriedTells, Tells, Incomplete
<1>16. p # NoNode =>
         /\ Incomplete(p)
         /\ \A j \in DOMAIN ChildrenOf(p) : ~Incomplete(ChildrenOf(p)[j])
  BY <1>2, <1>4 DEF Telling, FrameTells
<1>17. ASSUME p # NoNode
       PROVE  /\ \A j, k \in DOMAIN ChildrenOf(p)' :
                   Incomplete(ChildrenOf(p)[j])' /\ Incomplete(ChildrenOf(p)[k])' => k = j
              /\ \A j \in DOMAIN ChildrenOf(p)' : Incomplete(ChildrenOf(p)[j])' => Failing
  <2>1. ChildrenOf(p) \in Seq(DOMAIN proof.nodes)
    BY <1>2, <1>6, <1>17 DEF Linking
  <2>2. \A j \in DOMAIN ChildrenOf(p) : ChildrenOf(p)[j] \in DOMAIN proof.nodes
    BY <2>1
  <2>3. \A j \in DOMAIN ChildrenOf(p) :
          ChildrenOf(p)[j] # p /\ proof'.nodes[ChildrenOf(p)[j]].outcome # "incomplete"
    BY <1>16, <1>17, <2>2 DEF Incomplete
  <2>4. CASE c = NoNode
    <3>1. ChildrenOf(p)' = ChildrenOf(p)
      BY <1>1, <1>6, <1>17, <2>4
    <3> QED
      BY <2>3, <3>1 DEF Incomplete
  <2>5. CASE c # NoNode
    <3>1. ChildrenOf(p)' = Append(ChildrenOf(p), c)
      BY <1>1, <1>6, <1>17, <2>5
    <3>2. /\ \A j : j \in DOMAIN ChildrenOf(p)' <=>
                      j \in DOMAIN ChildrenOf(p) \/ j = Len(ChildrenOf(p)) + 1
          /\ \A j \in DOMAIN ChildrenOf(p) : ChildrenOf(p)'[j] = ChildrenOf(p)[j]
          /\ ChildrenOf(p)'[Len(ChildrenOf(p)) + 1] = c
      BY <1>6, <2>1, <2>5, <3>1
    <3>3. proof'.nodes[c].outcome = "incomplete" => Failing
      <4>1. c # p /\ c \in DOMAIN proof.nodes
        BY <1>6, <1>7, <2>5
      <4> QED
        BY <1>15, <2>5, <4>1 DEF Incomplete
    <3>4. \A j \in DOMAIN ChildrenOf(p)' :
            proof'.nodes[ChildrenOf(p)'[j]].outcome = "incomplete" =>
              j = Len(ChildrenOf(p)) + 1 /\ Failing
      BY <2>3, <3>2, <3>3
    <3> QED
      BY <3>4 DEF Incomplete
  <2> QED
    BY <2>4, <2>5
<1>18. p \in DOMAIN proof.nodes => (Incomplete(p)' => Incomplete(p)) /\ NodeTells(p)'
  <2>1. p # NoNode /\ Failing => Incomplete(p)'
    BY <1>6
  <2>2. p # NoNode => NodeTells(p)'
    BY <1>17, <2>1 DEF NodeTells
  <2> QED
    BY <1>6, <1>16, <2>2
<1>19. Len(frames') = m + 1 => FrameTells(m + 1)'
  <2>1. Len(frames') = m + 1 => ~Failing /\ (p # NoNode => Incomplete(p)')
    BY <1>6
  <2> QED
    BY <1>5, <1>17, <2>1 DEF FrameTells
<1>20. Telling'
  <2>1. p \in Nat /\ (p # NoNode => \A i \in 1 .. m : Keeps(frames[i]) # p)
    BY <1>6, <1>8
  <2>2. \A n \in DOMAIN proof.nodes :
          Len(frames) = m + 1 /\ ~Opens(m + 1) /\ Keeps(frames[m + 1]) = n =>
            \/ Failing' \/ ~Incomplete(n)'
            \/ Len(frames') = m + 1 /\ ~Opens(m + 1)' /\ Keeps(frames'[m + 1]) = n
    BY <1>4, <1>5
  <2>3. /\ Failing => Failing'
        /\ Carried' # NoNode /\ ~Failing' => CarriedTells'
    BY <1>6, <1>9
  <2> QED
    BY <1>2, <1>18, <1>19, <2>1, <2>2, <2>3, TellingMoves
<1> QED
  BY <1>10, <1>11, <1>14, <1>20 DEF RecordInv

(* An operand's node is hung under its rewrite's, ... *)
LEMMA NextOperandRecord ==
  ASSUME Typed', Facts, Shape, RecordInv, NextOperand
  PROVE  RecordInv'
<1>1. /\ next.go = "back" /\ ~next.failed /\ frames # <<>> /\ Last(frames).at = "operands"
      /\ Typed /\ proof \in Proofs /\ ~Failing
  BY DEF NextOperand, Returned, Facts, Typed, Failing
<1>2. PICK f : f = Last(frames)
  OBVIOUS
<1>3. /\ f \in OperandsFrames /\ f.node \in Nat /\ f.turn \in Nat
      /\ frames[Len(frames)] = f
  BY <1>1, <1>2, OnTopOf DEF OperandsFrames
<1>4. PICK g : g = [f EXCEPT !.turn = @ + 1]
  OBVIOUS
<1>5. g.at = "operands" /\ g.node = f.node
  BY <1>1, <1>2, <1>3, <1>4 DEF OperandsFrames
<1>6. frames' = [frames EXCEPT ![Len(frames)] = g]
  BY <1>3, <1>4 DEF NextOperand
<1>7. PICK m \in Nat :
        /\ Len(frames) = m + 1 /\ Len(frames') = m + 1 /\ m + 1 \in DOMAIN frames
        /\ frames[m + 1] = f /\ frames'[m + 1] = g /\ Beneath(m)
  BY <1>1, <1>2, <1>6, Replacing
<1>8. PICK p : p = f.node
  OBVIOUS
<1>9. PICK c : c = Carried
  OBVIOUS
<1>10. c = next.node /\ proof' = addChild(proof, p, c)
  BY <1>1, <1>2, <1>8, <1>9 DEF Carried, NextOperand
<1>11. p \in 0 .. Len(proof.nodes) /\ c \in Nat /\ Keeps(frames[m + 1]) = p
  <2>1. Keeps(frames[m + 1]) = p
    BY <1>1, <1>2, <1>7, <1>8 DEF Keeps
  <2> QED
    BY <1>7, <1>9, <2>1 DEF RecordInv, Holding
<1>12. /\ HangsIn(proof', p, c)
       /\ p \in DOMAIN proof.nodes => proof'.nodes[p].outcome = proof.nodes[p].outcome
  BY <1>1, <1>10, <1>11, AddsChild
<1>13. Carried' = NoNode /\ ~Failing'
  <2>1. next'.go \in {"relation", "rewrite"}
    <3>1. f.turn # Len(f.calls) /\ next' = f.calls[f.turn + 1]
      BY <1>2 DEF NextOperand, Decides
    <3>2. f.turn \in DOMAIN f.calls /\ f.calls \in Seq(RelationCalls \cup RewriteCalls)
      <4>1. OperandsShape(f)
        BY <1>1, <1>2, <1>7 DEF Shape, Opens
      <4> QED
        BY <1>3, <4>1 DEF OperandsShape, OperandsFrames
    <3>3. next' \in RelationCalls \cup RewriteCalls
      BY <3>1, <3>2
    <3> QED
      BY <3>3 DEF RelationCalls, RewriteCalls
  <2> QED
    BY <2>1 DEF Carried, Failing
<1>14. p \in DOMAIN proof.nodes => Incomplete(p)'
  <2>1. FrameTells(m + 1) /\ ~Settling(m + 1)
    BY <1>1, <1>2, <1>7 DEF RecordInv, Telling, Settling
  <2>2. p \in DOMAIN proof.nodes => p # NoNode
    BY <1>12 DEF HangsIn
  <2> QED
    BY <1>11, <1>12, <2>1, <2>2 DEF FrameTells, Incomplete
<1>15. HangsUnder(m, p)
  BY <1>1, <1>2, <1>7, <1>8 DEF HangsUnder
<1>16. GoesOn(m, p)
  BY <1>1, <1>5, <1>7, <1>8, <1>13, <1>14 DEF GoesOn
<1> QED
  BY <1>1, <1>7, <1>9, <1>12, <1>15, <1>16, HangsNode

(* ... which is closed with the last of them. *)
LEMMA DecidedRecord ==
  ASSUME Typed', Facts, RecordInv, Decided
  PROVE  RecordInv'
<1>1. /\ next.go = "back" /\ ~next.failed /\ frames # <<>> /\ Last(frames).at = "operands"
      /\ Typed /\ proof \in Proofs /\ ~Failing /\ frames' = Front(frames)
  BY DEF Decided, Returned, Facts, Typed, Failing
<1>2. PICK f : f = Last(frames)
  OBVIOUS
<1>3. PICK m \in Nat :
        /\ Len(frames) = m + 1 /\ Len(frames') = m /\ m + 1 \in DOMAIN frames
        /\ frames[m + 1] = f /\ Beneath(m)
  BY <1>1, <1>2, Leaving
<1>4. PICK p : p = f.node
  OBVIOUS
<1>5. PICK c : c = Carried
  OBVIOUS
<1>6. next.allowed \in BOOLEAN /\ c = next.node
  BY <1>1, <1>5, NextTypes DEF Typed, RelationCalls, RewriteCalls, Backs, Tests, Turn, Carried
<1>7. PICK verdict \in BOOLEAN : verdict = Verdict(f, next.allowed)
  BY <1>6 DEF Verdict
<1>8. PICK added : added = addChild(proof, p, c)
  OBVIOUS
<1>9. proof' = Closed(added, p, verdict) /\ next' = Back(verdict, p)
  BY <1>2, <1>4, <1>6, <1>7, <1>8 DEF Decided
<1>10. p \in 0 .. Len(proof.nodes) /\ c \in 0 .. Len(proof.nodes)
  <2>1. Keeps(frames[m + 1]) = p
    BY <1>1, <1>2, <1>3, <1>4 DEF Keeps
  <2> QED
    BY <1>3, <1>5, <2>1 DEF RecordInv, Holding
<1>11. /\ HangsIn(proof', p, c)
       /\ p # NoNode => proof'.nodes[p].outcome = IF verdict THEN "allowed" ELSE "denied"
  <2>1. c \in Nat
    BY <1>10
  <2> QED
    BY <1>1, <1>8, <1>9, <1>10, <2>1, AddsAndCloses
<1>12. Carried' = p /\ ~Failing' /\ next'.allowed = verdict
  BY <1>9 DEF Carried, Failing, Back
<1>13. p \in DOMAIN proof.nodes => ~Incomplete(p)' /\ CarriedTells'
  <2>1. p \in DOMAIN proof.nodes => p # NoNode
    BY <1>11 DEF HangsIn
  <2> QED
    BY <1>11, <1>12, <2>1 DEF Incomplete, CarriedTells, Tells
<1>14. HangsUnder(m, p)
  BY <1>1, <1>2, <1>3, <1>4 DEF HangsUnder
<1>15. Concludes(m, p)
  BY <1>1, <1>3, <1>12, <1>13 DEF Concludes
<1> QED
  BY <1>1, <1>3, <1>5, <1>11, <1>14, <1>15, HangsNode

(* An error hangs what was recorded, and closes nothing. *)
LEMMA UnwindRecord ==
  ASSUME Typed', Facts, RecordInv, Unwind
  PROVE  RecordInv'
<1>1. /\ next.go = "back" /\ next.failed /\ frames # <<>> /\ Typed /\ proof \in Proofs
      /\ Failing /\ frames' = Front(frames)
  BY DEF Unwind, Facts, Typed, Failing
<1>2. PICK f : f = Last(frames)
  OBVIOUS
<1>3. PICK m \in Nat :
        /\ Len(frames) = m + 1 /\ Len(frames') = m /\ m + 1 \in DOMAIN frames
        /\ frames[m + 1] = f /\ Beneath(m)
  BY <1>1, <1>2, Leaving
<1>4. f.at \in {"operands", "relation", "settle"}
  BY <1>1, <1>2, OnTopOf
<1>5. PICK c : c = Carried
  OBVIOUS
<1>6. c = next.node
  BY <1>1, <1>5 DEF Carried
<1>7. CASE f.at = "operands"
  <2>1. PICK p : p = f.node
    OBVIOUS
  <2>2. next' = Failed(p)
    BY <1>2, <1>7, <2>1 DEF Unwind
  <2>3. proof' = addChild(proof, p, c) /\ proof \in Proofs
    BY <1>1, <1>2, <1>6, <1>7, <2>1 DEF Unwind, Linked
  <2>4. p \in 0 .. Len(proof.nodes) /\ c \in Nat /\ Keeps(frames[m + 1]) = p
    <3>1. Keeps(frames[m + 1]) = p
      BY <1>3, <1>7, <2>1 DEF Keeps
    <3> QED
      BY <1>3, <1>5, <3>1 DEF RecordInv, Holding
  <2>5. /\ HangsIn(proof', p, c)
        /\ p \in DOMAIN proof.nodes => proof'.nodes[p].outcome = proof.nodes[p].outcome
    BY <2>4, <2>3, AddsChild
  <2>6. Carried' = p /\ Failing'
    BY <2>2 DEF Carried, Failing, Failed
  <2>7. p \in DOMAIN proof.nodes => Incomplete(p)'
    <3>1. FrameTells(m + 1) /\ ~Settling(m + 1)
      BY <1>3, <1>7 DEF RecordInv, Telling, Settling
    <3>2. p \in DOMAIN proof.nodes => p # NoNode
      BY <2>5 DEF HangsIn
    <3> QED
      BY <2>4, <2>5, <3>1, <3>2 DEF FrameTells, Incomplete
  <2>8. HangsUnder(m, p)
    BY <1>1, <1>3, <1>7, <2>1 DEF HangsUnder
  <2>9. Fails(m, p)
    BY <1>3, <2>6, <2>7 DEF Fails
  <2> QED
    BY <1>1, <1>3, <1>5, <2>5, <2>8, <2>9, HangsNode
<1>8. CASE f.at = "relation"
  <2>1. next' = next /\ proof' = proof
    BY <1>2, <1>8 DEF Unwind
  <2>2. Carried' = Carried /\ Failing'
    BY <1>1, <2>1 DEF Carried, Failing
  <2>3. \A n : ChildrenOf(n)' = ChildrenOf(n)
    BY <2>1 DEF ChildrenOf
  <2> QED
    BY <1>1, <1>2, <1>5, <1>8, <2>1, <2>2, <2>3, LeavesRelation
<1>9. CASE f.at = "settle"
  <2>1. proof' = resume(proof) /\ next' = Failed(f.back.node)
    BY <1>2, <1>9 DEF Unwind
  <2>2. proof'.paused = proof.paused - 1 /\ proof'.nodes = proof.nodes
    BY <1>1, <2>1 DEF resume, Proofs
  <2>3. Settling(m + 1) /\ Opens(m + 1) /\ Keeps(frames[m + 1]) = f.back.node
    BY <1>3, <1>9 DEF Settling, Opens, Keeps
  <2>4. c = NoNode
    BY <1>3, <1>5, <2>3 DEF RecordInv, Holding, Before
  <2>5. Carried' = f.back.node /\ Failing'
    BY <2>1 DEF Carried, Failing, Failed
  <2>6. /\ TopKeeps(m) = f.back.node /\ TopKeeps(m)' = NoNode
        /\ SettlesTop(m) /\ ~SettlesTop(m)' /\ Len(frames') # m + 1
    BY <1>3, <2>3 DEF TopKeeps, SettlesTop
  <2>7. NoNode \notin DOMAIN proof.nodes
    BY <1>1 DEF Proofs, NoNode
  <2> QED
    BY <1>1, <1>3, <1>5, <2>2, <2>3, <2>4, <2>5, <2>6, <2>7, MovesOn
<1> QED
  BY <1>4, <1>7, <1>8, <1>9

-----------------------------------------------------------------------------
(* The recorder's invariant is inductive. *)

(* A Check starts with an empty proof. *)
LEMMA InitRecord == EvalInit => RecordInv
<1> SUFFICES ASSUME EvalInit PROVE RecordInv
  OBVIOUS
<1>1. frames = <<>> /\ proof.nodes = <<>> /\ proof.paused = 0 /\ next.go = "relation"
  BY DEF EvalInit, Relation
<1>2. DOMAIN frames = {} /\ DOMAIN proof.nodes = {} /\ Len(proof.nodes) = 0 /\ Carried = NoNode
  BY <1>1 DEF Carried
<1>3. {i \in DOMAIN frames : Settling(i)} = {}
  BY <1>2
<1>4. Cardinality({}) = 0
  BY FS_EmptySet
<1>5. Recording
  BY <1>1, <1>2, <1>3, <1>4 DEF Recording
<1>6. Holding
  BY <1>2 DEF Holding, NoNode
<1>7. Linking /\ Telling
  BY <1>2 DEF Linking, Telling
<1> QED
  BY <1>5, <1>6, <1>7 DEF RecordInv

(* A step that evaluates keeps it, ... *)
LEMMA RecordStep ==
  ASSUME Typed', Facts, Shape, Sense, RecordInv, EvalNext
  PROVE  RecordInv'
<1>1. Typed
  BY DEF Facts
<1>2. CASE Cancelled
  BY <1>1, <1>2, FailsHereRecord DEF Cancelled
<1>3. ASSUME NEW k \in Keys, Undefined(k) PROVE RecordInv'
  BY <1>1, <1>3, FailsHereRecord DEF Undefined, Calling
<1>4. ASSUME NEW k \in Keys, Reuse(k) PROVE RecordInv'
  BY <1>4, ReuseRecord
<1>5. ASSUME NEW k \in Keys, TooDeep(k) PROVE RecordInv'
  BY <1>1, <1>5, FailsHereRecord DEF TooDeep, Calling
<1>6. ASSUME NEW k \in Keys, Enter(k) PROVE RecordInv'
  BY <1>1, <1>6, EnterRecord
<1>7. CASE SourceFails \/ Stored \/ Expand
  BY <1>7, SourceFailsRecord, StoredRecord, ExpandRecord
<1>8. CASE NextOperand \/ Decided \/ Answered
  BY <1>1, <1>8, NextOperandRecord, DecidedRecord, AnsweredRecord
<1>9. CASE Settle \/ SkipMember \/ Reevaluate
  BY <1>1, <1>9, SettleRecord, SkipMemberRecord, ReevaluateRecord
<1>10. CASE Raise \/ EndRound
  BY <1>1, <1>10, RaiseRecord, EndRoundRecord
<1>11. CASE Pop \/ Stay \/ Unwind
  BY <1>1, <1>11, PopRecord, StayRecord, UnwindRecord
<1> QED
  BY <1>2, <1>3, <1>4, <1>5, <1>6, <1>7, <1>8, <1>9, <1>10, <1>11 DEF EvalNext

(* ... and so does one that unwinds an error, or none. *)
LEMMA RecordKept ==
  ASSUME IInv, IInv', RecordInv, [EvalNext]_evalVars
  PROVE  RecordInv'
<1>1. Facts /\ Typed /\ Typed'
  BY DEF IInv, ShapeInv, Facts
<1>2. CASE UNCHANGED evalVars
  <2>1. frames' = frames /\ proof' = proof /\ next' = next
    BY <1>2 DEF evalVars
  <2>2. Carried' = Carried /\ (Failing' <=> Failing) /\ (CarriedTells' <=> CarriedTells)
    BY <2>1 DEF Carried, Failing, CarriedTells, Tells, Opens
  <2>3. Carried # NoNode /\ ~Failing => CarriedTells
    BY DEF RecordInv, Telling
  <2> QED
    BY <1>1, <2>1, <2>2, <2>3, HandsOn
<1>3. CASE EvalNext /\ Failing
  <2>1. next.go = "back" /\ next.failed
    BY <1>3 DEF Failing
  <2>2. ~Cancelled /\ \A k \in Keys : ~(Undefined(k) \/ Reuse(k) \/ TooDeep(k) \/ Enter(k))
    BY <2>1 DEF Cancelled, Undefined, Reuse, TooDeep, Enter, Calling
  <2>3. ~(SourceFails \/ Stored \/ Expand \/ NextOperand \/ Decided \/ Answered)
    BY <2>1 DEF SourceFails, Stored, Expand, NextOperand, Decided, Answered, Rewriting, Returned
  <2>4. ~(Settle \/ SkipMember \/ Reevaluate \/ Raise \/ EndRound \/ Pop \/ Stay)
    BY <2>1 DEF Settle, SkipMember, Reevaluate, Raise, EndRound, Pop, Stay, AtTurn, Returned
  <2>5. Unwind
    BY <1>3, <2>2, <2>3, <2>4 DEF EvalNext
  <2> QED
    BY <1>1, <2>5, UnwindRecord
<1>4. CASE EvalNext /\ ~Failing
  <2>1. Shape /\ Sense
    BY <1>4 DEF IInv, ShapeInv, SenseInv
  <2> QED
    BY <1>1, <1>4, <2>1, RecordStep
<1> QED
  BY <1>2, <1>3, <1>4

(* When a Check is finished, only what it hands on is in hand: the root,   *)
(* since what nothing links to is in hand and no link leads to the root.   *)
LEMMA RootIsCarried ==
  ASSUME Typed, RecordInv, Finished, proof.nodes # <<>>
  PROVE  Carried = 1 /\ 1 \in DOMAIN proof.nodes
<1>1. 1 \in DOMAIN proof.nodes /\ \A n \in DOMAIN proof.nodes : n >= 1
  BY DEF Typed, Proofs
<1>2. \A link \in LinksTo(1) : ~(link[1] < 1)
  <2>1. \A link \in LinksTo(1) : link[1] \in DOMAIN proof.nodes
    BY LinksAre
  <2> QED
    BY <2>1 DEF Typed, Proofs
<1>3. InHand(1)
  <2>1. IF InHand(1) THEN LinksTo(1) = {}
        ELSE \E link \in LinksTo(1) : link[1] < 1 /\ LinksTo(1) = {link}
    BY <1>1 DEF RecordInv, Linking
  <2> QED
    BY <1>2, <2>1
<1> QED
  BY <1>1, <1>3 DEF InHand, Finished

(* ProofIsATree, of the invariant. *)
LEMMA RecordIsATree ==
  ASSUME Typed, RecordInv
  PROVE  ProofIsATree
<1> SUFFICES ASSUME Finished, NEW n \in (DOMAIN proof.nodes) \ {1}
             PROVE  \E link \in LinksTo(n) : link[1] < n /\ LinksTo(n) = {link}
  BY DEF ProofIsATree
<1>1. Carried = 1
  <2>1. proof.nodes # <<>>
    OBVIOUS
  <2> QED
    BY <2>1, RootIsCarried
<1>2. ~InHand(n)
  BY <1>1 DEF InHand, Finished
<1> QED
  BY <1>2 DEF RecordInv, Linking

(* RootSaysTheAnswer, of the invariant. *)
LEMMA RecordSaysTheAnswer ==
  ASSUME Typed, RecordInv
  PROVE  RootSaysTheAnswer
<1> SUFFICES ASSUME Finished, ~next.failed, proof.nodes # <<>>
             PROVE  /\ proof.nodes[1].outcome = IF next.allowed THEN "allowed" ELSE "denied"
                    /\ \A n \in DOMAIN proof.nodes : proof.nodes[n].outcome # "incomplete"
  BY DEF RootSaysTheAnswer
<1>1. Carried = 1 /\ frames = <<>> /\ ~Failing
  BY RootIsCarried DEF Finished, Failing
<1>2. Tells(1, next.allowed)
  BY <1>1 DEF RecordInv, Telling, CarriedTells, NoNode
<1>3. \A n \in DOMAIN proof.nodes : ~Incomplete(n)
  BY <1>1 DEF RecordInv, Telling, Working
<1> QED
  BY <1>2, <1>3 DEF Tells, Incomplete

(* StopsOnOnePath, of the invariant. *)
LEMMA RecordStopsOnOnePath ==
  ASSUME Typed, RecordInv
  PROVE  StopsOnOnePath
<1> DEFINE open == {n \in DOMAIN proof.nodes : proof.nodes[n].outcome = "incomplete"}
<1> SUFFICES ASSUME Finished
             PROVE  /\ \A n \in open \ {1} : \A link \in LinksTo(n) : link[1] \in open
                    /\ \A n, o \in open : n # o =>
                         ~\E l \in LinksTo(n), k \in LinksTo(o) : l[1] = k[1]
  BY DEF StopsOnOnePath
<1>1. ASSUME NEW n, NEW link \in LinksTo(n)
      PROVE  /\ link[1] \in DOMAIN proof.nodes /\ link[2] \in DOMAIN ChildrenOf(link[1])
             /\ ChildrenOf(link[1])[link[2]] = n
  <2>1. PICK i \in DOMAIN proof.nodes :
          \E j \in DOMAIN ChildrenOf(i) : link = <<i, j>> /\ ChildrenOf(i)[j] = n
    BY <1>1, LinksAre
  <2> QED
    BY <2>1
<1>2. \A n \in DOMAIN proof.nodes : NodeTells(n)
  BY DEF RecordInv, Telling
<1>3. ASSUME NEW n \in open \ {1}, NEW link \in LinksTo(n) PROVE link[1] \in open
  BY <1>1, <1>2, <1>3 DEF NodeTells, Incomplete
<1>4. ASSUME NEW n \in open, NEW o \in open, NEW l \in LinksTo(n), NEW k \in LinksTo(o),
             l[1] = k[1]
      PROVE  n = o
  <2>1. /\ l[1] \in DOMAIN proof.nodes
        /\ l[2] \in DOMAIN ChildrenOf(l[1]) /\ ChildrenOf(l[1])[l[2]] = n
        /\ k[2] \in DOMAIN ChildrenOf(l[1]) /\ ChildrenOf(l[1])[k[2]] = o
    BY <1>1, <1>4
  <2>2. NodeTells(l[1])
    BY <1>2, <2>1
  <2> QED
    BY <2>1, <2>2 DEF NodeTells, Incomplete
<1> QED
  BY <1>3, <1>4

-----------------------------------------------------------------------------
(* What a reader of a proof may rely on. *)

(* A Check never leaves the recorder's invariant. *)
THEOREM RecordIsInvariant == EvalSpec => []RecordInv
<1>1. EvalInit => RecordInv
  BY InitRecord
<1>2. IInv /\ IInv' /\ RecordInv /\ [EvalNext]_evalVars => RecordInv'
  BY RecordKept
<1> QED
  BY <1>1, <1>2, CheckIsInvariant, PTL DEF EvalSpec

(* The invariant says the types. *)
LEMMA RecordIsTyped == IInv => Typed
BY DEF IInv, ShapeInv, Facts

(* ProofIsATree: children point backwards, and settling, an error or a     *)
(* full proof leaves no node that nothing points at.                       *)
THEOREM ProofStaysATree == EvalSpec => []ProofIsATree
<1>1. IInv /\ RecordInv => ProofIsATree
  BY RecordIsTyped, RecordIsATree
<1> QED
  BY <1>1, CheckIsInvariant, RecordIsInvariant, PTL

(* RootSaysTheAnswer: the root's outcome is the answer, and a Check that   *)
(* did not fail leaves no node without an outcome.                         *)
THEOREM RootTellsTheAnswer == EvalSpec => []RootSaysTheAnswer
<1>1. IInv /\ RecordInv => RootSaysTheAnswer
  BY RecordIsTyped, RecordSaysTheAnswer
<1> QED
  BY <1>1, CheckIsInvariant, RecordIsInvariant, PTL

(* StopsOnOnePath: what an error leaves incomplete is one path from the    *)
(* root.                                                                   *)
THEOREM ErrorStopsOnOnePath == EvalSpec => []StopsOnOnePath
<1>1. IInv /\ RecordInv => StopsOnOnePath
  BY RecordIsTyped, RecordStopsOnOnePath
<1> QED
  BY <1>1, CheckIsInvariant, RecordIsInvariant, PTL

=============================================================================
