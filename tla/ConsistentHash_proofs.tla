----------------------- MODULE ConsistentHash_proofs -----------------------
(***************************************************************************)
(* For any nodes, any number of virtual nodes and any hash function:        *)
(* sortedKeys lists the positions of the map in order, GetNode finds the     *)
(* owner the ring defines, and membership changes move no more keys than     *)
(* they must.                                                               *)
(***************************************************************************)
EXTENDS ConsistentHash, SequenceFacts

(***************************************************************************)
(* A node's positions are hashes.                                           *)
(***************************************************************************)
LEMMA PointsAreHashes ==
  /\ Hashes \subseteq Nat /\ None \notin Nodes
  /\ \A n \in Nodes : Points[n] \subseteq Hashes
BY HashAssumption DEF Points, Range

-----------------------------------------------------------------------------
(***************************************************************************)
(* Min returns the least element, which LeastElement provides, and there is *)
(* no other.                                                                *)
(***************************************************************************)
LEMMA MinIsLeast ==
  ASSUME NEW T, T \subseteq Nat, T # {}
  PROVE  /\ Ring!Min(T) \in T /\ \A y \in T : Ring!Min(T) <= y
         /\ Min(T) = Ring!Min(T)
<1>1. PICK m \in T : \A y \in T : m <= y
  BY LeastElement
<1> QED
  BY <1>1 DEF Min, Ring!Min

(***************************************************************************)
(* The least element is the only one.                                       *)
(***************************************************************************)
LEMMA LeastIsMin ==
  ASSUME NEW T, T \subseteq Nat, NEW m \in T, \A y \in T : m <= y
  PROVE  Ring!Min(T) = m
<1>1. Ring!Min(T) \in T /\ \A y \in T : Ring!Min(T) <= y
  BY MinIsLeast
<1>2. Ring!Min(T) <= m /\ m <= Ring!Min(T) /\ m \in Nat /\ Ring!Min(T) \in Nat
  BY <1>1
<1> QED
  BY <1>2

(***************************************************************************)
(* A set that contains the least element of a larger one has the same least *)
(* element.                                                                 *)
(***************************************************************************)
LEMMA MinOfSubset ==
  ASSUME NEW T, T \subseteq Nat, NEW U, U \subseteq T, Ring!Min(T) \in U
  PROVE  Ring!Min(U) = Ring!Min(T)
<1>1. \A y \in U : Ring!Min(T) <= y
  BY MinIsLeast
<1> QED
  BY <1>1, LeastIsMin

(***************************************************************************)
(* The first position of a set belongs to it.                               *)
(***************************************************************************)
LEMMA FirstBelongs ==
  ASSUME NEW S, S \subseteq Nat, S # {}, NEW x \in Nat
  PROVE  Ring!First(S, x) \in S
<1>1. Ring!AtOrAfter(S, x) \subseteq S
  BY DEF Ring!AtOrAfter
<1>2. CASE Ring!AtOrAfter(S, x) # {}
  BY <1>1, <1>2, MinIsLeast DEF Ring!First
<1>3. CASE Ring!AtOrAfter(S, x) = {}
  BY <1>3, MinIsLeast DEF Ring!First
<1> QED
  BY <1>2, <1>3

(***************************************************************************)
(* If one set of positions includes another and the first position in the   *)
(* larger set belongs to the smaller one, it is the first there too.        *)
(***************************************************************************)
LEMMA SameFirst ==
  ASSUME NEW S, S \subseteq Nat, NEW U, U \subseteq S, NEW x \in Nat,
         Ring!First(S, x) \in U
  PROVE  Ring!First(U, x) = Ring!First(S, x)
<1> DEFINE FS == Ring!AtOrAfter(S, x)
           FU == Ring!AtOrAfter(U, x)
<1>1. FU \subseteq FS /\ FS \subseteq Nat
  BY DEF Ring!AtOrAfter
<1>2. CASE FS # {}
  <2>1. Ring!First(S, x) = Ring!Min(FS) /\ Ring!Min(FS) \in FS
    BY <1>1, <1>2, MinIsLeast DEF Ring!First
  <2>2. Ring!Min(FS) \in FU
    BY <2>1 DEF Ring!AtOrAfter
  <2>3. Ring!Min(FU) = Ring!Min(FS)
    BY <1>1, <2>2, MinOfSubset
  <2> QED
    BY <2>1, <2>2, <2>3 DEF Ring!First
<1>3. CASE FS = {}
  BY <1>1, <1>3, MinOfSubset DEF Ring!First
<1> QED
  BY <1>2, <1>3

(***************************************************************************)
(* Adding a node moves keys only to it (AddNode).                           *)
(***************************************************************************)
LEMMA AddStep ==
  ASSUME NEW n \in Nodes, AddNode(n)
  PROVE  \A x \in Hashes : Ring!Lookup(x)' \in {Ring!Lookup(x), n}
<1> TAKE x \in Hashes
<1>1. /\ Points[n] \subseteq Hashes /\ n # None /\ x \in Nat
      /\ Hashes \subseteq Nat
  BY PointsAreHashes
<1>2. /\ \A h \in Hashes : nodes'[h] = IF h \in Points[n] THEN n ELSE nodes[h]
      /\ Ring!Occupied' = Ring!Occupied \cup Points[n]
  BY <1>1 DEF AddNode, Ring!Occupied
<1>3. CASE Ring!Occupied' = {}
  BY <1>2, <1>3 DEF Ring!Lookup
<1>4. CASE Ring!Occupied' # {}
  <2> DEFINE s == Ring!Successor(x)'
  <2>1. s \in Ring!Occupied'
    <3>1. Ring!Occupied' \subseteq Nat
      BY <1>1 DEF Ring!Occupied
    <3> QED
      BY <1>1, <1>4, <3>1, FirstBelongs DEF Ring!Successor
  <2>2. Ring!Lookup(x)' = nodes'[s]
    BY <1>4 DEF Ring!Lookup
  <2>3. CASE s \in Points[n]
    BY <1>1, <1>2, <2>2, <2>3
  <2>4. CASE s \notin Points[n]
    <3>1. s \in Ring!Occupied
      BY <1>2, <2>1, <2>4
    <3>2. Ring!Successor(x) = s
      <4>1. Ring!Occupied' \subseteq Nat /\ Ring!Occupied \subseteq Ring!Occupied'
        BY <1>1, <1>2 DEF Ring!Occupied
      <4> QED
        BY <1>1, <3>1, <4>1, SameFirst DEF Ring!Successor
    <3>3. nodes'[s] = nodes[s] /\ s \in Hashes
      BY <1>2, <2>4, <3>1 DEF Ring!Occupied
    <3> QED
      BY <2>2, <3>1, <3>2, <3>3 DEF Ring!Lookup
  <2> QED
    BY <2>3, <2>4
<1> QED
  BY <1>3, <1>4

(***************************************************************************)
(* Removing a node moves only the keys on its positions (RemoveNode).       *)
(***************************************************************************)
LEMMA RemoveStep ==
  ASSUME NEW n \in Nodes, RemoveNode(n), NEW x \in Hashes,
         Ring!Occupied # {}, Ring!Successor(x) \notin Points[n]
  PROVE  Ring!Lookup(x)' = Ring!Lookup(x)
<1> DEFINE s == Ring!Successor(x)
<1>1. /\ Points[n] \subseteq Hashes /\ x \in Nat /\ Hashes \subseteq Nat
  BY PointsAreHashes
<1>2. /\ \A h \in Hashes : nodes'[h] = IF h \in Points[n] THEN None ELSE nodes[h]
      /\ Ring!Occupied' = Ring!Occupied \ Points[n]
  BY <1>1 DEF RemoveNode, Ring!Occupied
<1>3. s \in Ring!Occupied /\ s \in Ring!Occupied' /\ s \in Hashes
  <2>1. s \in Ring!Occupied
    BY <1>1, FirstBelongs DEF Ring!Successor, Ring!Occupied
  <2> QED
    BY <1>2, <2>1 DEF Ring!Occupied
<1>4. Ring!Successor(x)' = s
  <2>1. Ring!Occupied \subseteq Nat /\ Ring!Occupied' \subseteq Ring!Occupied
    BY <1>1, <1>2 DEF Ring!Occupied
  <2> QED
    BY <1>1, <1>3, <2>1, SameFirst DEF Ring!Successor
<1>5. nodes'[s] = nodes[s]
  BY <1>2, <1>3
<1> QED
  BY <1>3, <1>4, <1>5 DEF Ring!Lookup

-----------------------------------------------------------------------------
(***************************************************************************)
(* The entries of a sequence of naturals have an upper bound.               *)
(***************************************************************************)
LEMMA BoundedSequence ==
  ASSUME NEW s \in Seq(Nat)
  PROVE  \E b \in Nat : \A j \in 1 .. Len(s) : s[j] <= b
<1> DEFINE T == {n \in 0 .. Len(s) : \E b \in Nat : \A j \in 1 .. n : s[j] <= b}
<1>1. 0 \in T /\ Len(s) \in Nat
  OBVIOUS
<1>2. ASSUME NEW n \in 0 .. Len(s), n < Len(s), n \in T PROVE n + 1 \in T
  <2>1. PICK b \in Nat : \A j \in 1 .. n : s[j] <= b
    BY <1>2
  <2>2. n + 1 \in 0 .. Len(s) /\ s[n + 1] \in Nat /\ \A j \in 1 .. n : s[j] \in Nat
    BY <1>2
  <2> DEFINE c == IF b <= s[n + 1] THEN s[n + 1] ELSE b
  <2>3. c \in Nat /\ b <= c /\ s[n + 1] <= c
    BY <2>2
  <2> HIDE DEF c
  <2>4. ASSUME NEW j \in 1 .. n + 1 PROVE s[j] <= c
    <3>1. CASE j = n + 1
      BY <2>3, <3>1
    <3>2. CASE j # n + 1
      <4>1. j \in 1 .. n
        BY <3>2
      <4> QED
        BY <4>1, <2>1, <2>2, <2>3
    <3> QED
      BY <3>1, <3>2
  <2> QED
    BY <2>2, <2>3, <2>4
<1>3. Len(s) \in T
  <2>1. \A n \in 0 .. Len(s) : n < Len(s) /\ n \in T => n + 1 \in T
    BY <1>2
  <2> HIDE DEF T
  <2>2. \A n \in 0 .. Len(s) : n \in T
    BY <1>1, <2>1, UpTo
  <2> QED
    BY <1>1, <2>2
<1> QED
  BY <1>3

(***************************************************************************)
(* The entries that pass a test can be counted.                             *)
(***************************************************************************)
LEMMA CountsAreNat ==
  ASSUME NEW s \in Seq(Nat), NEW P, P \subseteq (1 .. Len(s))
  PROVE  /\ IsFiniteSet(P) /\ Cardinality(P) \in Nat
         /\ Cardinality(P) <= Len(s)
         /\ P = 1 .. Len(s) => Cardinality(P) = Len(s)
<1>1. IsFiniteSet(1 .. Len(s)) /\ Cardinality(1 .. Len(s)) = Len(s) /\ Len(s) \in Nat
  <2>1. 1 \in Int /\ Len(s) \in Int /\ Len(s) \in Nat
    OBVIOUS
  <2>2. /\ IsFiniteSet(1 .. Len(s))
        /\ Cardinality(1 .. Len(s)) = IF 1 > Len(s) THEN 0 ELSE Len(s) - 1 + 1
    BY <2>1, FS_Interval
  <2> QED
    BY <2>1, <2>2
<1> QED
  BY <1>1, FS_Subset, FS_CardinalityType

(***************************************************************************)
(* The entries that are not above a value are below any larger value.       *)
(***************************************************************************)
LEMMA RankMonotone ==
  ASSUME NEW s \in Seq(Nat), NEW g \in Nat, NEW h \in Nat, g < h
  PROVE  NotAbove(s, g) <= Below(s, h) /\ NotAbove(s, g) \in Nat /\ Below(s, h) \in Nat
<1> DEFINE P == {j \in 1 .. Len(s) : s[j] <= g}
           Q == {j \in 1 .. Len(s) : s[j] < h}
<1>1. P \subseteq Q
  OBVIOUS
<1>2. P \subseteq 1 .. Len(s) /\ Q \subseteq 1 .. Len(s)
  OBVIOUS
<1> HIDE DEF P, Q
<1>3. IsFiniteSet(Q) /\ Cardinality(P) \in Nat /\ Cardinality(Q) \in Nat
  BY <1>2, CountsAreNat
<1>4. Cardinality(P) <= Cardinality(Q)
  BY <1>1, <1>3, FS_Subset
<1> QED
  BY <1>3, <1>4 DEF P, Q, Below, NotAbove

(***************************************************************************)
(* There is a value for every place of the sorted sequence: the least one   *)
(* that enough entries do not exceed.                                       *)
(***************************************************************************)
LEMMA RankExists ==
  ASSUME NEW s \in Seq(Nat), NEW i \in 1 .. Len(s)
  PROVE  \E h \in Range(s) : HasRank(s, h, i)
<1> DEFINE V == {s[j] : j \in 1 .. Len(s)}
           T == {h \in V : i <= NotAbove(s, h)}
<1>1. V \subseteq Nat /\ V = Range(s) /\ V # {} /\ s[i] \in V
  BY DEF Range
<1>2. PICK b \in Nat : \A j \in 1 .. Len(s) : s[j] <= b
  BY BoundedSequence
<1>3. PICK top \in V : \A y \in V : y <= top
  <2>1. \A y \in V : y <= b
    BY <1>2
  <2> HIDE DEF V
  <2> QED
    BY <1>1, <2>1, GreatestElement
<1>4. top \in T
  <2>1. {j \in 1 .. Len(s) : s[j] <= top} = 1 .. Len(s)
    BY <1>3
  <2>2. NotAbove(s, top) = Len(s) 
    BY <2>1, CountsAreNat DEF NotAbove
  <2> QED
    BY <2>2
<1>5. PICK h \in T : \A y \in T : h <= y
  <2>1. T \subseteq Nat /\ T # {}
    BY <1>1, <1>4
  <2> HIDE DEF T
  <2> QED
    BY <2>1, LeastElement
<1>6. Below(s, h) < i
  <2> DEFINE L == {j \in 1 .. Len(s) : s[j] < h}
             W == {y \in V : y < h}
  <2>0. h \in Nat /\ h \in V
    BY <1>1, <1>5
  <2>1. CASE W = {}
    <3>1. L = {}
      BY <1>1, <2>1
    <3>2. Below(s, h) = 0
      BY <3>1, FS_EmptySet DEF Below
    <3> QED
      BY <3>2
  <2>2. CASE W # {}
    <3>1. W \subseteq Nat /\ \A y \in W : y <= h
      <4>1. \A y \in W : y \in Nat /\ y < h
        BY <1>1
      <4> QED
        BY <2>0, <4>1
    <3>2. PICK g \in W : \A y \in W : y <= g
      <4> HIDE DEF W
      <4> QED
        BY <2>0, <2>2, <3>1, GreatestElement
    <3>3. g \in V /\ g < h /\ g \in Nat
      BY <1>1, <3>2
    <3>4. {j \in 1 .. Len(s) : s[j] <= g} = L
      <4>1. ASSUME NEW j \in 1 .. Len(s) PROVE s[j] <= g <=> s[j] < h
        <5>1. s[j] \in V /\ s[j] \in Nat
          BY <1>1
        <5>2. s[j] < h => s[j] <= g
          BY <3>2, <5>1
        <5> HIDE DEF T, V, W, L
        <5> QED
          BY <2>0, <3>3, <5>1, <5>2
      <4> QED
        BY <4>1
    <3>5. NotAbove(s, g) = Below(s, h)
      BY <3>4 DEF NotAbove, Below
    <3>6. g \notin T
      <4> HIDE DEF T
      <4> QED
        BY <1>5, <2>0, <3>3
    <3>7. NotAbove(s, g) \in Nat
      BY <2>0, <3>3, RankMonotone
    <3> QED
      BY <3>3, <3>5, <3>6, <3>7
  <2> QED
    BY <2>1, <2>2
<1> QED
  BY <1>1, <1>5, <1>6 DEF HasRank

(***************************************************************************)
(* Sorted keeps the values of a sequence and puts them in ascending order   *)
(* (sort.Slice in AddNode).                                                 *)
(***************************************************************************)
LEMMA SortedSorts ==
  ASSUME NEW s \in Seq(Nat)
  PROVE  /\ Len(Sorted(s)) = Len(s) /\ DOMAIN Sorted(s) = 1 .. Len(s)
         /\ Range(Sorted(s)) = Range(s)
         /\ \A i, j \in 1 .. Len(s) : i < j => Sorted(s)[i] <= Sorted(s)[j]
<1> DEFINE t == Sorted(s)
<1>1. \A i \in 1 .. Len(s) : t[i] \in Range(s) /\ HasRank(s, t[i], i)
  BY RankExists DEF Sorted
<1>2. Range(s) \subseteq Nat /\ Len(s) \in Nat
  BY DEF Range
<1>3. DOMAIN t = 1 .. Len(s) /\ Len(t) = Len(s)
  BY <1>2 DEF Sorted
<1> HIDE DEF t
<1>4. ASSUME NEW i \in 1 .. Len(s), NEW j \in 1 .. Len(s), i < j PROVE t[i] <= t[j]
  <2> SUFFICES ASSUME t[j] < t[i] PROVE FALSE
    BY <1>1, <1>2
  <2>1. NotAbove(s, t[j]) <= Below(s, t[i]) /\ NotAbove(s, t[j]) \in Nat /\ Below(s, t[i]) \in Nat
    BY <1>1, <1>2, RankMonotone
  <2>2. Below(s, t[i]) < i /\ j <= NotAbove(s, t[j])
    BY <1>1 DEF HasRank
  <2> QED
    BY <1>4, <2>1, <2>2
<1>5. ASSUME NEW h \in Range(s) PROVE \E i \in 1 .. Len(s) : t[i] = h
  <2> DEFINE L == {j \in 1 .. Len(s) : s[j] < h}
             M == {j \in 1 .. Len(s) : s[j] <= h}
             i == Cardinality(L) + 1
  <2>1. PICK p \in 1 .. Len(s) : s[p] = h
    BY DEF Range
  <2>2. L \subseteq M /\ p \in M /\ p \notin L /\ M \subseteq 1 .. Len(s) /\ L \subseteq 1 .. Len(s)
    BY <1>2, <2>1
  <2> HIDE DEF L, M
  <2>3. /\ IsFiniteSet(M) /\ IsFiniteSet(L) /\ Cardinality(M) \in Nat /\ Cardinality(L) \in Nat
        /\ Cardinality(M) <= Len(s)
    BY <2>2, CountsAreNat
  <2>4. Cardinality(L) < Cardinality(M)
    <3>1. L # M
      BY <2>2
    <3>2. Cardinality(L) <= Cardinality(M) /\ Cardinality(L) # Cardinality(M)
      BY <2>2, <2>3, <3>1, FS_Subset
    <3> QED
      BY <2>3, <3>2
  <2>5. i \in 1 .. Len(s)
    BY <1>2, <2>3, <2>4
  <2>6. Below(s, h) < i /\ i <= NotAbove(s, h)
    BY <2>3, <2>4 DEF L, M, Below, NotAbove
  <2>7. Below(s, t[i]) < i /\ i <= NotAbove(s, t[i]) /\ t[i] \in Nat
    BY <1>1, <1>2, <2>5 DEF HasRank
  <2>8. i \in Nat /\ h \in Nat
    BY <1>2, <2>3
  <2> HIDE DEF i
  <2>9. ~(h < t[i]) 
    <3> SUFFICES ASSUME h < t[i] PROVE FALSE
      OBVIOUS
    <3>1. NotAbove(s, h) <= Below(s, t[i]) /\ NotAbove(s, h) \in Nat /\ Below(s, t[i]) \in Nat
      BY <2>7, <2>8, RankMonotone
    <3> QED
      BY <2>6, <2>7, <2>8, <3>1
  <2>10. ~(t[i] < h) 
    <3> SUFFICES ASSUME t[i] < h PROVE FALSE
      OBVIOUS
    <3>1. NotAbove(s, t[i]) <= Below(s, h) /\ NotAbove(s, t[i]) \in Nat /\ Below(s, h) \in Nat
      BY <2>7, <2>8, RankMonotone
    <3> QED
      BY <2>6, <2>7, <2>8, <3>1
  <2>11. t[i] = h
    BY <2>7, <2>8, <2>9, <2>10
  <2> QED
    BY <2>5, <2>11
<1>6. Range(t) = Range(s)
  <2>1. Range(t) = {t[i] : i \in 1 .. Len(s)}
    BY <1>3 DEF Range
  <2> QED
    BY <1>1, <1>5, <2>1
<1> QED
  BY <1>3, <1>4, <1>6 DEF t

(***************************************************************************)
(* A sequence over a set is one over any larger set.                        *)
(***************************************************************************)
LEMMA SeqOfSubset ==
  ASSUME NEW A, NEW B, A \subseteq B, NEW s \in Seq(A)
  PROVE  s \in Seq(B) /\ Len(s) \in Nat
<1>1. s = [i \in 1 .. Len(s) |-> s[i]] /\ Len(s) \in Nat
  OBVIOUS
<1>2. \A i \in 1 .. Len(s) : s[i] \in B
  OBVIOUS
<1> QED
  BY <1>1, <1>2

(***************************************************************************)
(* What a concatenation contains.                                           *)
(***************************************************************************)
LEMMA ConcatenationRange ==
  ASSUME NEW A, NEW p \in Seq(A), NEW q \in Seq(A)
  PROVE  p \o q \in Seq(A) /\ Range(p \o q) = Range(p) \cup Range(q)
<1> DEFINE s == p \o q
           a == Len(p)
           b == Len(q)
<1>1. /\ a \in Nat /\ b \in Nat /\ Len(s) = a + b /\ s \in Seq(A)
      /\ DOMAIN s = 1 .. Len(s) /\ DOMAIN p = 1 .. a /\ DOMAIN q = 1 .. b
      /\ \A i \in 1 .. a : s[i] = p[i]
      /\ \A i \in 1 .. Len(s) : i > a => s[i] = q[i - a]
  OBVIOUS
<1> HIDE DEF s, a, b
<1>2. ASSUME NEW i \in 1 .. Len(s) PROVE s[i] \in Range(p) \cup Range(q)
  <2>1. CASE i <= a
    BY <1>1, <2>1 DEF Range
  <2>2. CASE i > a
    <3>1. i - a \in 1 .. b
      BY <1>1, <2>2
    <3> QED
      BY <1>1, <2>2, <3>1 DEF Range
  <2> QED
    BY <1>1, <2>1, <2>2
<1>3. ASSUME NEW x \in Range(p) PROVE x \in Range(s)
  <2>1. PICK i \in 1 .. a : p[i] = x
    BY <1>1 DEF Range
  <2>2. i \in 1 .. Len(s) /\ s[i] = x
    BY <1>1, <2>1
  <2> QED
    BY <1>1, <2>2 DEF Range
<1>4. ASSUME NEW x \in Range(q) PROVE x \in Range(s)
  <2>1. PICK i \in 1 .. b : q[i] = x
    BY <1>1 DEF Range
  <2>2. i + a \in 1 .. Len(s) /\ i + a > a /\ (i + a) - a = i
    BY <1>1, <2>1
  <2>3. s[i + a] = x
    BY <1>1, <2>1, <2>2
  <2> QED
    BY <1>1, <2>2, <2>3 DEF Range
<1>5. Range(s) \subseteq Range(p) \cup Range(q)
  BY <1>1, <1>2 DEF Range
<1> QED
  BY <1>1, <1>3, <1>4, <1>5 DEF s

-----------------------------------------------------------------------------
(***************************************************************************)
(* The inductive invariant.  Any two entries of sortedKeys are in order, not *)
(* only neighbours, and the map is well-typed.                              *)
(***************************************************************************)
KeysInv ==
  /\ nodes \in [Hashes -> Nodes \cup {None}]
  /\ sortedKeys \in Seq(Hashes)
  /\ \A i, j \in 1 .. Len(sortedKeys) : i < j => sortedKeys[i] <= sortedKeys[j]
  /\ Range(sortedKeys) = {h \in Hashes : nodes[h] # None}

(***************************************************************************)
(* The hashes of a node's virtual nodes are a sequence.                     *)
(***************************************************************************)
LEMMA VirtualHashes ==
  ASSUME NEW n \in Nodes
  PROVE  /\ VHash[n] \in Seq(Hashes) /\ Points[n] = Range(VHash[n])
         /\ Points[n] \subseteq Hashes
<1>1. VHash[n] \in [1 .. VirtualNodes -> Hashes] /\ VirtualNodes \in Nat
  BY HashAssumption
<1> QED
  BY <1>1 DEF Points, Range

(***************************************************************************)
(* AddNode appends the new hashes to sortedKeys and sorts it.               *)
(***************************************************************************)
LEMMA AddKeepsKeys ==
  ASSUME KeysInv, NEW n \in Nodes, AddNode(n)
  PROVE  KeysInv'
<1> DEFINE s == sortedKeys \o VHash[n]
<1>1. /\ sortedKeys \in Seq(Hashes) /\ VHash[n] \in Seq(Hashes) /\ Hashes \subseteq Nat
      /\ Points[n] = Range(VHash[n]) /\ Points[n] \subseteq Hashes
  BY VirtualHashes, HashAssumption DEF KeysInv
<1>2. s \in Seq(Hashes) /\ s \in Seq(Nat) /\ Len(s) \in Nat
  <2>1. s \in Seq(Hashes)
    BY <1>1, ConcatenationRange
  <2> HIDE DEF s
  <2> QED
    BY <1>1, <2>1, SeqOfSubset
<1>3. Range(s) = Range(sortedKeys) \cup Points[n]
  BY <1>1, ConcatenationRange
<1>4. sortedKeys' = Sorted(s) /\ nodes' = [h \in Hashes |-> IF h \in Points[n] THEN n ELSE nodes[h]]
  BY DEF AddNode
<1> HIDE DEF s
<1>5. /\ Len(sortedKeys') = Len(s) /\ DOMAIN sortedKeys' = 1 .. Len(s)
      /\ Range(sortedKeys') = Range(s)
      /\ \A i, j \in 1 .. Len(s) : i < j => sortedKeys'[i] <= sortedKeys'[j]
  BY <1>2, <1>4, SortedSorts
<1>6. Range(s) \subseteq Hashes
  BY <1>2 DEF Range
<1>7. sortedKeys' \in Seq(Hashes)
  <2>1. \A i \in 1 .. Len(s) : sortedKeys'[i] \in Hashes
    BY <1>5, <1>6 DEF Range
  <2>2. sortedKeys' = [i \in 1 .. Len(s) |-> sortedKeys'[i]]
    BY <1>4, <1>5 DEF Sorted
  <2> QED
    BY <1>2, <2>1, <2>2
<1>8. {h \in Hashes : nodes'[h] # None} = {h \in Hashes : nodes[h] # None} \cup Points[n]
  BY <1>1, <1>4, HashAssumption
<1>9. nodes' \in [Hashes -> Nodes \cup {None}]
  BY <1>4 DEF KeysInv
<1>10. Range(sortedKeys') = {h \in Hashes : nodes'[h] # None}
  BY <1>3, <1>5, <1>8 DEF KeysInv
<1> QED
  BY <1>5, <1>7, <1>9, <1>10 DEF KeysInv

(***************************************************************************)
(* RemoveNode keeps the keys that are still in the map.                     *)
(***************************************************************************)
LEMMA RemoveKeepsKeys ==
  ASSUME KeysInv, NEW n \in Nodes, RemoveNode(n)
  PROVE  KeysInv'
<1> DEFINE S == {h \in Hashes : nodes'[h] # None}
           k == sortedKeys'
<1>1. /\ nodes' = [h \in Hashes |-> IF h \in Points[n] THEN None ELSE nodes[h]]
      /\ k = Filter(sortedKeys, S)
  BY DEF RemoveNode, Remaining
<1>2. nodes' \in [Hashes -> Nodes \cup {None}]
  BY <1>1 DEF KeysInv
<1>3. S \subseteq {h \in Hashes : nodes[h] # None}
  BY <1>1
<1>4. sortedKeys \in Seq(Hashes) /\ Len(sortedKeys) \in Nat
  BY DEF KeysInv
<1> HIDE DEF S
<1>5. PICK at : k \in Seq(Hashes) /\ Picks(at, k, sortedKeys, Len(sortedKeys), S)
  BY <1>1, <1>4, FilterPicks
<1> HIDE DEF k
<1>6. \A i, j \in 1 .. Len(k) : i < j => k[i] <= k[j]
  BY <1>5 DEF Picks, KeysInv
<1>7. Range(k) = S
  <2>1. \A i \in 1 .. Len(k) : k[i] \in S
    BY <1>5 DEF Picks
  <2>2. ASSUME NEW h \in S PROVE h \in Range(k)
    <3>1. h \in Range(sortedKeys)
      BY <1>3 DEF KeysInv
    <3>2. PICK p \in 1 .. Len(sortedKeys) : sortedKeys[p] = h
      BY <1>4, <3>1 DEF Range
    <3>3. PICK i \in 1 .. Len(k) : at[i] = p
      BY <1>5, <3>2 DEF Picks
    <3>4. k[i] = h
      BY <1>5, <3>2, <3>3 DEF Picks
    <3> QED
      BY <1>5, <3>4 DEF Range
  <2> QED
    BY <1>5, <2>1, <2>2 DEF Range
<1> QED
  BY <1>2, <1>5, <1>6, <1>7 DEF KeysInv, S, k

(***************************************************************************)
(* The empty ring satisfies the invariant and both operations keep it.      *)
(***************************************************************************)
LEMMA KeysInvInitially == Init => KeysInv
<1> SUFFICES ASSUME Init PROVE KeysInv
  OBVIOUS
<1>1. sortedKeys = <<>> /\ Range(sortedKeys) = {}
  BY DEF Init, Range
<1> QED
  BY <1>1 DEF Init, KeysInv

LEMMA KeysInvHolds == Spec => []KeysInv
<1>1. Init => KeysInv
  BY KeysInvInitially
<1>2. KeysInv /\ [Next]_vars => KeysInv'
  <2> SUFFICES ASSUME KeysInv, [Next]_vars PROVE KeysInv'
    OBVIOUS
  <2>1. CASE UNCHANGED vars
    BY <2>1 DEF vars, KeysInv
  <2>2. ASSUME NEW n \in Nodes, AddNode(n) PROVE KeysInv'
    BY <2>2, AddKeepsKeys
  <2>3. ASSUME NEW n \in Nodes, RemoveNode(n) PROVE KeysInv'
    BY <2>3, RemoveKeepsKeys
  <2> QED
    BY <2>1, <2>2, <2>3 DEF Next
<1> QED
  BY <1>1, <1>2, PTL DEF Spec

(***************************************************************************)
(* sortedKeys is ascending and lists exactly the hashes in the map (AddNode, *)
(* RemoveNode).                                                             *)
(***************************************************************************)
THEOREM KeysAlwaysMatch == Spec => []KeysMatchMap
<1>1. KeysInv => KeysMatchMap
  <2> SUFFICES ASSUME KeysInv, NEW i \in 1 .. Len(sortedKeys) - 1
               PROVE  sortedKeys[i] <= sortedKeys[i + 1]
    BY DEF KeysMatchMap, KeysInv
  <2>1. i \in 1 .. Len(sortedKeys) /\ i + 1 \in 1 .. Len(sortedKeys) /\ i < i + 1
    BY DEF KeysInv
  <2> QED
    BY <2>1 DEF KeysInv
<1> QED
  BY <1>1, KeysInvHolds, PTL

(***************************************************************************)
(* Under the invariant sort.Search and the wrap-around of GetNode lead to   *)
(* the first position at or after the hash.                                 *)
(***************************************************************************)
LEMMA LookupAgrees ==
  ASSUME KeysInv, NEW x \in Hashes
  PROVE  GetNode(x) = Ring!Lookup(x)
<1> DEFINE O == Ring!Occupied
           k == sortedKeys
           hits == {i \in 1 .. Len(k) : k[i] >= x}
<1>1. /\ k \in Seq(Hashes) /\ Len(k) \in Nat /\ Hashes \subseteq Nat /\ O = Range(k)
      /\ \A i, j \in 1 .. Len(k) : i < j => k[i] <= k[j]
  BY HashAssumption DEF KeysInv, Ring!Occupied
<1>2. CASE O = {}
  BY <1>2 DEF GetNode, Ring!Lookup, Ring!Occupied
<1>3. CASE O # {}
  <2>1. GetNode(x) = nodes[k[SearchIndex(x)]] /\ Ring!Lookup(x) = nodes[Ring!First(O, x)]
    BY <1>3 DEF GetNode, Ring!Lookup, Ring!Occupied, Ring!Successor
  <2>2. /\ O \subseteq Nat /\ x \in Nat
        /\ \A h \in O : \E i \in 1 .. Len(k) : k[i] = h
        /\ \A i \in 1 .. Len(k) : k[i] \in O /\ k[i] \in Nat
    <3>1. DOMAIN k = 1 .. Len(k) /\ \A i \in 1 .. Len(k) : k[i] \in Hashes
      BY <1>1
    <3>2. x \in Nat /\ \A i \in 1 .. Len(k) : k[i] \in Nat
      BY <1>1, <3>1
    <3> HIDE DEF O, k
    <3> QED
      BY <1>1, <3>1, <3>2 DEF Range
  <2>3. CASE hits = {}
    <3>1. Ring!AtOrAfter(O, x) = {}
      BY <2>2, <2>3 DEF Ring!AtOrAfter
    <3>2. Ring!First(O, x) = Ring!Min(O) /\ SearchIndex(x) = 1
      BY <2>3, <3>1 DEF Ring!First, SearchIndex
    <3>3. 1 \in 1 .. Len(k)
      BY <1>1, <1>3, <2>2
    <3>4. \A h \in O : k[1] <= h
      <4> TAKE h \in O
      <4>1. PICK i \in 1 .. Len(k) : k[i] = h
        BY <2>2
      <4>2. CASE i = 1
        BY <2>2, <4>1, <4>2
      <4>3. CASE i # 1
        <5>1. 1 < i
          BY <4>3
        <5> QED
          BY <1>1, <3>3, <4>1, <5>1
      <4> QED
        BY <4>2, <4>3
    <3>5. Ring!Min(O) = k[1]
      <4> HIDE DEF O, k
      <4> QED
        BY <2>2, <3>3, <3>4, LeastIsMin
    <3> QED
      BY <2>1, <3>2, <3>5
  <2>4. CASE hits # {}
    <3> DEFINE i == Min(hits)
               A == Ring!AtOrAfter(O, x)
    <3>1. i \in hits /\ \A j \in hits : i <= j
      <4>1. hits \subseteq Nat
        OBVIOUS
      <4> HIDE DEF hits
      <4> QED
        BY <2>4, <4>1, MinIsLeast
    <3>2. SearchIndex(x) = i
      BY <2>4 DEF SearchIndex
    <3> HIDE DEF i
    <3>3. i \in 1 .. Len(k) /\ k[i] \in O /\ k[i] >= x /\ k[i] \in Nat
      BY <2>2, <3>1
    <3>4. A \subseteq Nat /\ k[i] \in A
      BY <2>2, <3>3 DEF Ring!AtOrAfter
    <3>5. ASSUME NEW h \in A PROVE k[i] <= h
      <4>1. h \in O /\ h >= x
        BY DEF Ring!AtOrAfter
      <4>2. PICK j \in 1 .. Len(k) : k[j] = h
        BY <2>2, <4>1
      <4>3. j \in hits
        BY <4>1, <4>2
      <4>4. i <= j
        BY <3>1, <4>3
      <4>5. CASE i = j
        BY <3>3, <4>2, <4>5
      <4>6. CASE i # j
        <5>1. i < j
          BY <3>3, <4>4, <4>6
        <5> QED
          BY <1>1, <3>3, <4>2, <5>1
      <4> QED
        BY <4>5, <4>6
    <3>6. Ring!First(O, x) = Ring!Min(A)
      BY <3>4 DEF Ring!First
    <3> HIDE DEF A, O, k
    <3>7. Ring!Min(A) = k[i]
      BY <3>4, <3>5, LeastIsMin
    <3> QED
      BY <2>1, <3>2, <3>6, <3>7
  <2> QED
    BY <2>3, <2>4
<1> QED
  BY <1>2, <1>3

(***************************************************************************)
(* GetNode finds the owner the ring defines in every reachable state.       *)
(***************************************************************************)
THEOREM GetNodeAlwaysAgrees == Spec => []GetNodeAgrees
<1>1. KeysInv => GetNodeAgrees
  BY LookupAgrees DEF GetNodeAgrees
<1> QED
  BY <1>1, KeysInvHolds, PTL

(***************************************************************************)
(* A change of membership moves no more keys, as GetNode answers them, than *)
(* it must (AddNode, RemoveNode, GetNode).                                  *)
(***************************************************************************)
THEOREM KeysAlwaysMoveMinimally == Spec => KeysMoveMinimally
<1> DEFINE Moves(n, x) ==
             /\ AddNode(n) => GetNode(x)' \in {GetNode(x), n}
             /\ RemoveNode(n) /\ sortedKeys # <<>> /\ Ring!Successor(x) \notin Points[n] =>
                  GetNode(x)' = GetNode(x)
<1>1. KeysInv /\ GetNodeAgrees /\ GetNodeAgrees' => \A n \in Nodes, x \in Hashes : Moves(n, x)
  <2> SUFFICES ASSUME KeysInv, GetNodeAgrees, GetNodeAgrees',
                      NEW n \in Nodes, NEW x \in Hashes
               PROVE  Moves(n, x)
    OBVIOUS
  <2>1. GetNode(x) = Ring!Lookup(x) /\ GetNode(x)' = Ring!Lookup(x)'
    BY DEF GetNodeAgrees
  <2>2. AddNode(n) => GetNode(x)' \in {GetNode(x), n}
    BY <2>1, AddStep
  <2>3. ASSUME RemoveNode(n), sortedKeys # <<>>, Ring!Successor(x) \notin Points[n]
        PROVE  GetNode(x)' = GetNode(x)
    <3>1. sortedKeys[1] \in Range(sortedKeys)
      BY <2>3 DEF KeysInv, Range
    <3>2. Ring!Occupied # {}
      BY <3>1 DEF KeysInv, Ring!Occupied
    <3> QED
      BY <2>1, <2>3, <3>2, RemoveStep
  <2> QED
    BY <2>2, <2>3
<1> QED
  BY <1>1, KeysInvHolds, GetNodeAlwaysAgrees, PTL DEF KeysMoveMinimally
=============================================================================
