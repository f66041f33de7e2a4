--------------------------- MODULE SequenceFacts ---------------------------
(***************************************************************************)
(* Facts about numbers, loops and sequences that the other proofs cite.     *)
(* Induction appears in one form only: a set of naturals that is not empty  *)
(* has a least element.                                                     *)
(***************************************************************************)
EXTENDS SeqFilter, FiniteSets, FiniteSetTheorems, NaturalsInduction,
        WellFoundedInduction, TLAPS

(***************************************************************************)
(* A set of naturals that is not empty has a least element.                 *)
(***************************************************************************)
LEMMA LeastElement ==
  ASSUME NEW T, T \subseteq Nat, T # {}
  PROVE  \E m \in T : \A y \in T : m <= y
<1> DEFINE R == OpToRel(<, Nat)
<1>1. IsWellFoundedOn(R, Nat)
  BY NatLessThanWellFounded
<1>2. PICK m \in T : \A y \in T : ~(<<y, m>> \in R)
  <2> HIDE DEF R
  <2> QED
    BY <1>1, WFMin
<1>3. R = {ss \in Nat \X Nat : ss[1] < ss[2]}
  BY DEF OpToRel
<1> HIDE DEF R
<1>4. \A y \in T : m <= y
  <2> TAKE y \in T
  <2>1. m \in Nat /\ y \in Nat /\ <<y, m>> \in Nat \X Nat
    OBVIOUS
  <2>2. ~(y < m)
    BY <1>2, <1>3, <2>1
  <2> QED
    BY <2>1, <2>2
<1> QED
  BY <1>4

(***************************************************************************)
(* A set that has an upper bound and is not empty has a greatest element.   *)
(***************************************************************************)
LEMMA GreatestElement ==
  ASSUME NEW T, T \subseteq Nat, T # {}, NEW b \in Nat, \A x \in T : x <= b
  PROVE  \E m \in T : \A y \in T : y <= m
<1> DEFINE Bounds == {m \in Nat : \A x \in T : x <= m}
<1>1. Bounds \subseteq Nat /\ Bounds # {}
  OBVIOUS
<1>2. PICK m \in Bounds : \A y \in Bounds : m <= y
  <2> HIDE DEF Bounds
  <2> QED
    BY <1>1, LeastElement
<1>3. m \in T
  <2> SUFFICES ASSUME m \notin T PROVE FALSE
    OBVIOUS
  <2>1. \A x \in T : x <= m /\ x # m /\ x \in Nat
    BY <1>2
  <2>2. m # 0
    <3>1. PICK x \in T : x \in Nat /\ x <= m /\ x # m
      BY <2>1
    <3> QED
      BY <1>2, <3>1
  <2>3. m - 1 \in Bounds
    BY <1>2, <2>1, <2>2
  <2> QED
    BY <1>2, <2>3
<1> QED
  BY <1>2, <1>3

(***************************************************************************)
(* Induction over an interval: what holds at its start, and is carried from *)
(* each number to the next, holds throughout.                               *)
(***************************************************************************)
LEMMA UpTo ==
  ASSUME NEW T, NEW m \in Nat, NEW n \in Nat, m \in T,
         \A i \in m .. n : i < n /\ i \in T => i + 1 \in T
  PROVE  \A i \in m .. n : i \in T
<1> DEFINE Bad == {i \in m .. n : i \notin T}
<1> SUFFICES ASSUME Bad # {} PROVE FALSE
  OBVIOUS
<1>1. Bad \subseteq Nat
  OBVIOUS
<1>2. PICK i \in Bad : \A j \in Bad : i <= j
  <2> HIDE DEF Bad
  <2> QED
    BY <1>1, LeastElement
<1>3. i - 1 \in m .. n /\ i - 1 \in T /\ i - 1 < n
  BY <1>2
<1> QED
  BY <1>2, <1>3

(***************************************************************************)
(* f is the sequence of the states of a loop over m + 1 .. n that starts    *)
(* from base and whose round i is step[i].                                  *)
(***************************************************************************)
Follows(f, X, m, n, base, step) ==
  /\ f \in [m .. n -> X] /\ f[m] = base
  /\ \A i \in m + 1 .. n : f[i] = step[i][f[i - 1]]

(***************************************************************************)
(* Every loop has such a sequence of states.                                *)
(***************************************************************************)
LEMMA Recursion ==
  ASSUME NEW X, NEW m \in Nat, NEW n \in Nat, m <= n,
         NEW base \in X, NEW step \in [m .. n -> [X -> X]]
  PROVE  \E f : Follows(f, X, m, n, base, step)
<1> DEFINE T == {k \in m .. n : \E f : Follows(f, X, m, k, base, step)}
<1>1. m \in T
  <2> DEFINE g == [i \in m .. m |-> base]
  <2>1. Follows(g, X, m, m, base, step)
    BY DEF Follows
  <2> QED
    BY <2>1
<1>2. ASSUME NEW k \in m .. n, k < n, k \in T PROVE k + 1 \in T
  <2>1. PICK f : Follows(f, X, m, k, base, step)
    BY <1>2
  <2> DEFINE g == [i \in m .. k + 1 |-> IF i <= k THEN f[i] ELSE step[k + 1][f[k]]]
  <2>2. step[k + 1][f[k]] \in X
    <3>1. k + 1 \in m .. n /\ f[k] \in X
      BY <1>2, <2>1 DEF Follows
    <3> QED
      BY <3>1
  <2>3. g \in [m .. k + 1 -> X] /\ g[m] = base
    BY <1>2, <2>1, <2>2 DEF Follows
  <2>4. ASSUME NEW i \in m + 1 .. k + 1 PROVE g[i] = step[i][g[i - 1]]
    <3>1. i \in m .. k + 1 /\ i - 1 \in m .. k /\ g[i - 1] = f[i - 1]
      OBVIOUS
    <3>2. CASE i = k + 1
      <4>1. i - 1 = k /\ g[i] = step[k + 1][f[k]]
        BY <3>1, <3>2
      <4> QED
        BY <3>1, <3>2, <4>1
    <3>3. CASE i # k + 1
      <4>1. i \in m + 1 .. k /\ g[i] = f[i]
        BY <3>1, <3>3
      <4> QED
        BY <2>1, <3>1, <4>1 DEF Follows
    <3> QED
      BY <3>2, <3>3
  <2>5. Follows(g, X, m, k + 1, base, step)
    BY <2>3, <2>4 DEF Follows
  <2> HIDE DEF g
  <2> QED
    BY <1>2, <2>5
<1>3. n \in T
  <2> HIDE DEF T
  <2>1. \A k \in m .. n : k < n /\ k \in T => k + 1 \in T
    BY <1>2
  <2>2. \A i \in m .. n : i \in T
    BY <1>1, <2>1, UpTo
  <2> QED
    BY <2>2
<1> QED
  BY <1>3

(***************************************************************************)
(* What holds before a loop and is kept by every round holds after each.    *)
(***************************************************************************)
LEMMA LoopKeeps ==
  ASSUME NEW f, NEW Inv, NEW m \in Nat, NEW n \in Nat, f[m] \in Inv[m],
         \A i \in m + 1 .. n : f[i - 1] \in Inv[i - 1] => f[i] \in Inv[i]
  PROVE  \A i \in m .. n : f[i] \in Inv[i]
<1> DEFINE T == {i \in Nat : f[i] \in Inv[i]}
<1>1. m \in T
  OBVIOUS
<1>2. ASSUME NEW i \in m .. n, i < n, i \in T PROVE i + 1 \in T
  <2>1. i + 1 \in m + 1 .. n /\ (i + 1) - 1 = i /\ i + 1 \in Nat
    BY <1>2
  <2>2. f[(i + 1) - 1] \in Inv[(i + 1) - 1]
    BY <1>2, <2>1
  <2> QED
    BY <2>1, <2>2
<1>3. \A i \in m .. n : i \in T
  <2> HIDE DEF T
  <2>1. \A i \in m .. n : i < n /\ i \in T => i + 1 \in T
    BY <1>2
  <2> QED
    BY <1>1, <2>1, UpTo
<1> QED
  BY <1>3

(***************************************************************************)
(* f is the sequence of the states of a loop with the invariant Inv.        *)
(***************************************************************************)
Loops(f, Inv, m, n, base, step) ==
  /\ f = [i \in m .. n |-> f[i]] /\ f[m] = base
  /\ \A i \in m + 1 .. n : f[i] = step[i][f[i - 1]]
  /\ \A i \in m .. n : f[i] \in Inv[i]

(***************************************************************************)
(* A loop whose rounds are defined where the invariant holds has such a     *)
(* sequence of states.                                                      *)
(***************************************************************************)
LEMMA LoopStates ==
  ASSUME NEW Inv, NEW m \in Nat, NEW n \in Nat, m <= n, NEW base \in Inv[m], NEW step,
         \A i \in m + 1 .. n : \A x \in Inv[i - 1] : step[i][x] \in Inv[i]
  PROVE  \E f : Loops(f, Inv, m, n, base, step)
<1> DEFINE X == UNION {Inv[i] : i \in m .. n}
           safe == [i \in m .. n |-> [x \in X |->
                      IF i # m /\ x \in Inv[i - 1] THEN step[i][x] ELSE base]]
<1>1. base \in X
  BY DEF X
<1>2. ASSUME NEW i \in m .. n, NEW x \in X PROVE safe[i][x] \in X
  <2>1. CASE i # m /\ x \in Inv[i - 1]
    <3>1. i \in m + 1 .. n /\ safe[i][x] = step[i][x]
      BY <2>1
    <3>2. step[i][x] \in Inv[i]
      BY <2>1, <3>1
    <3> QED
      BY <3>1, <3>2 DEF X
  <2>2. CASE ~(i # m /\ x \in Inv[i - 1])
    BY <1>1, <2>2
  <2> QED
    BY <2>1, <2>2
<1>3. safe \in [m .. n -> [X -> X]]
  BY <1>2
<1>4. PICK f : Follows(f, X, m, n, base, safe)
  <2> HIDE DEF X, safe
  <2> QED
    BY <1>1, <1>3, Recursion
<1>5. ASSUME NEW i \in m + 1 .. n, f[i - 1] \in Inv[i - 1]
      PROVE  f[i] = step[i][f[i - 1]] /\ f[i] \in Inv[i]
  <2>1. i \in m .. n /\ i # m /\ i - 1 \in m .. n
    OBVIOUS
  <2>2. f[i - 1] \in X
    BY <1>5, <2>1 DEF X
  <2>3. f[i] = safe[i][f[i - 1]]
    BY <1>4 DEF Follows
  <2>4. f[i] = step[i][f[i - 1]]
    BY <1>5, <2>1, <2>2, <2>3
  <2> QED
    BY <1>5, <2>4
<1>6. \A i \in m .. n : f[i] \in Inv[i]
  <2>1. f[m] \in Inv[m]
    BY <1>4 DEF Follows
  <2> HIDE DEF X, safe
  <2> QED
    BY <1>5, <2>1, LoopKeeps
<1>7. \A i \in m + 1 .. n : f[i] = step[i][f[i - 1]]
  <2> TAKE i \in m + 1 .. n
  <2>1. i - 1 \in m .. n
    OBVIOUS
  <2> QED
    BY <1>5, <1>6, <2>1
<1>8. f = [i \in m .. n |-> f[i]] /\ f[m] = base
  BY <1>4 DEF Follows
<1>9. Loops(f, Inv, m, n, base, step)
  BY <1>6, <1>7, <1>8 DEF Loops
<1> QED
  BY <1>9

(***************************************************************************)
(* kept is the sequence of the states of the loop of Filter.                *)
(***************************************************************************)
FilterStates(kept, A, s, S) ==
  /\ kept \in [0 .. Len(s) -> Seq(A)]
  /\ Filter(s, S) = kept[Len(s)]
  /\ kept[0] = <<>>
  /\ \A n \in 1 .. Len(s) :
       kept[n] = IF s[n] \in S THEN Append(kept[n - 1], s[n]) ELSE kept[n - 1]

(***************************************************************************)
(* The recursive function in Filter is that sequence.                       *)
(***************************************************************************)
LEMMA FilterRecursion ==
  ASSUME NEW A, NEW s \in Seq(A), NEW S
  PROVE  \E kept : FilterStates(kept, A, s, S)
<1> DEFINE Next(k, n) == IF s[n] \in S THEN Append(k, s[n]) ELSE k
           R(f) == f = [n \in 0 .. Len(s) |->
                          IF n = 0 THEN <<>>
                          ELSE IF s[n] \in S THEN Append(f[n - 1], s[n]) ELSE f[n - 1]]
           kept == CHOOSE f : R(f)
           step == [n \in 0 .. Len(s) |-> [k \in Seq(A) |-> IF n = 0 THEN k ELSE Next(k, n)]]
<1>0. Len(s) \in Nat /\ <<>> \in Seq(A) /\ 0 <= Len(s) /\ 0 \in Nat
  OBVIOUS
<1>1. Filter(s, S) = kept[Len(s)]
  BY DEF Filter
<1>2. ASSUME NEW k \in Seq(A), NEW n \in 0 .. Len(s)
      PROVE  step[n][k] = (IF n = 0 THEN k ELSE Next(k, n)) /\ step[n][k] \in Seq(A)
  OBVIOUS
<1>3. PICK f : Follows(f, Seq(A), 0, Len(s), <<>>, step)
  <2>1. step \in [0 .. Len(s) -> [Seq(A) -> Seq(A)]]
    BY <1>2
  <2> HIDE DEF step
  <2> QED
    BY <1>0, <2>1, Recursion
<1>4. ASSUME NEW n \in 1 .. Len(s) PROVE f[n] = Next(f[n - 1], n)
  <2>1. n \in 0 .. Len(s) /\ n # 0 /\ n - 1 \in 0 .. Len(s) /\ n \in 0 + 1 .. Len(s)
    BY <1>0
  <2>2. f[n - 1] \in Seq(A)
    BY <2>1, <1>3 DEF Follows
  <2>3. f[n] = step[n][f[n - 1]]
    BY <1>3, <2>1 DEF Follows
  <2> HIDE DEF step
  <2> QED
    BY <1>2, <2>1, <2>2, <2>3
<1>5. R(f)
  <2> DEFINE g == [n \in 0 .. Len(s) |->
                          IF n = 0 THEN <<>>
                          ELSE IF s[n] \in S THEN Append(f[n - 1], s[n]) ELSE f[n - 1]]
  <2>1. ASSUME NEW n \in 0 .. Len(s) PROVE f[n] = g[n]
    <3>1. CASE n = 0
      BY <1>3, <3>1 DEF Follows
    <3>2. CASE n # 0
      <4>1. n \in 1 .. Len(s)
        BY <3>2, <1>0
      <4> QED
        BY <3>2, <4>1, <1>4
    <3> QED
      BY <3>1, <3>2
  <2>2. f \in [0 .. Len(s) -> Seq(A)]
    BY <1>3 DEF Follows
  <2>3. f = g
    BY <2>1, <2>2
  <2> QED
    BY <2>3
<1>6. R(kept)
  <2> HIDE DEF R
  <2> QED
    BY <1>5
<1> HIDE DEF kept
<1>7. kept[0] = <<>>
  BY <1>0, <1>6
<1>8. ASSUME NEW n \in 1 .. Len(s) PROVE kept[n] = Next(kept[n - 1], n)
  <2>1. n \in 0 .. Len(s) /\ n # 0
    BY <1>0
  <2> QED
    BY <1>6, <2>1
<1>9. \A n \in 0 .. Len(s) : kept[n] \in Seq(A)
  <2> DEFINE T == {n \in 0 .. Len(s) : kept[n] \in Seq(A)}
  <2>1. 0 \in T
    <3>1. kept[0] \in Seq(A) /\ 0 \in 0 .. Len(s)
      BY <1>0, <1>7
    <3> QED
      BY <3>1
  <2>2. ASSUME NEW n \in 0 .. Len(s), n < Len(s), n \in T PROVE n + 1 \in T
    <3>1. n + 1 \in 1 .. Len(s) /\ (n + 1) - 1 = n /\ kept[n] \in Seq(A)
      BY <1>0, <2>2
    <3>2. kept[n + 1] = Next(kept[n], n + 1)
      BY <1>8, <3>1
    <3>3. s[n + 1] \in A
      BY <3>1
    <3>4. kept[n + 1] \in Seq(A)
      BY <3>1, <3>2, <3>3
    <3> QED
      BY <3>1, <3>4
  <2> HIDE DEF T
  <2>3. \A n \in 0 .. Len(s) : n \in T
    BY <1>0, <2>1, <2>2, UpTo
  <2> QED
    BY <2>3 DEF T
<1>10. kept \in [0 .. Len(s) -> Seq(A)]
  BY <1>6, <1>9
<1>11. \A n \in 1 .. Len(s) :
         kept[n] = IF s[n] \in S THEN Append(kept[n - 1], s[n]) ELSE kept[n - 1]
  BY <1>8
<1> HIDE DEF R, step, Next
<1>12. FilterStates(kept, A, s, S)
  BY <1>1, <1>7, <1>10, <1>11 DEF FilterStates
<1> QED
  BY <1>12

(***************************************************************************)
(* k consists of those of the first n elements of s that belong to S, in    *)
(* their order: at gives the places they come from.                         *)
(***************************************************************************)
Picks(at, k, s, n, S) ==
  /\ at \in [1 .. Len(k) -> 1 .. n]
  /\ \A i \in 1 .. Len(k) : k[i] = s[at[i]] /\ s[at[i]] \in S
  /\ \A i, j \in 1 .. Len(k) : i < j => at[i] < at[j]
  /\ \A p \in 1 .. n : s[p] \in S => \E i \in 1 .. Len(k) : at[i] = p

(***************************************************************************)
(* What Filter returns (the loops that append what passes a test).          *)
(***************************************************************************)
LEMMA FilterPicks ==
  ASSUME NEW A, NEW s \in Seq(A), NEW S
  PROVE  /\ Filter(s, S) \in Seq(A)
         /\ \E at : Picks(at, Filter(s, S), s, Len(s), S)
<1>6. PICK kept : FilterStates(kept, A, s, S)
  BY FilterRecursion
<1>1. /\ kept \in [0 .. Len(s) -> Seq(A)]
      /\ Filter(s, S) = kept[Len(s)]
      /\ kept[0] = <<>>
      /\ \A n \in 1 .. Len(s) :
           kept[n] = IF s[n] \in S THEN Append(kept[n - 1], s[n]) ELSE kept[n - 1]
  BY <1>6 DEF FilterStates
<1> DEFINE T == {n \in 0 .. Len(s) : \E at : Picks(at, kept[n], s, n, S)}
<1>0. Len(s) \in Nat /\ 0 \in Nat /\ 0 \in 0 .. Len(s) /\ Len(s) \in 0 .. Len(s)
  OBVIOUS
<1>2. 0 \in T
  <2> DEFINE at == [i \in 1 .. 0 |-> 0]
  <2>1. Picks(at, <<>>, s, 0, S)
    BY DEF Picks
  <2> QED
    BY <1>0, <1>1, <2>1
<1>3. ASSUME NEW n \in 0 .. Len(s), n < Len(s), n \in T PROVE n + 1 \in T
  <2>1. PICK at : Picks(at, kept[n], s, n, S)
    BY <1>3
  <2>2. /\ n + 1 \in 1 .. Len(s) /\ n + 1 \in 0 .. Len(s) /\ (n + 1) - 1 = n
        /\ kept[n] \in Seq(A) /\ s[n + 1] \in A /\ n \in Nat
    BY <1>0, <1>1, <1>3
  <2> DEFINE k == kept[n]
             m == n + 1
  <2>3. CASE s[m] \in S
    <3>1. kept[m] = Append(k, s[m])
      BY <1>1, <2>2, <2>3
    <3> DEFINE k2 == Append(k, s[m])
               len == Len(k)
               bt == [i \in 1 .. len + 1 |-> IF i = len + 1 THEN m ELSE at[i]]
    <3>2. /\ Len(k2) = len + 1 /\ len \in Nat /\ k2[len + 1] = s[m]
          /\ \A i \in 1 .. len : k2[i] = k[i]
      BY <2>2
    <3>3. /\ \A i \in 1 .. len : at[i] \in 1 .. n /\ k[i] = s[at[i]] /\ s[at[i]] \in S
          /\ \A i, j \in 1 .. len : i < j => at[i] < at[j]
          /\ \A p \in 1 .. n : s[p] \in S => \E i \in 1 .. len : at[i] = p
      BY <2>1 DEF Picks
    <3> HIDE DEF k2, k, len
    <3>4. bt \in [1 .. Len(k2) -> 1 .. m]
      BY <2>2, <3>2, <3>3
    <3>5. ASSUME NEW i \in 1 .. Len(k2) PROVE k2[i] = s[bt[i]] /\ s[bt[i]] \in S
      <4>1. CASE i = len + 1
        BY <2>3, <3>2, <4>1
      <4>2. CASE i # len + 1
        BY <3>2, <3>3, <4>2
      <4> QED
        BY <4>1, <4>2
    <3>6. ASSUME NEW i \in 1 .. Len(k2), NEW j \in 1 .. Len(k2), i < j PROVE bt[i] < bt[j]
      <4>1. i \in 1 .. len /\ bt[i] = at[i] /\ at[i] \in 1 .. n
        BY <3>2, <3>3, <3>6
      <4>2. CASE j = len + 1
        BY <2>2, <3>2, <4>1, <4>2
      <4>3. CASE j # len + 1
        BY <3>2, <3>3, <3>6, <4>1, <4>3
      <4> QED
        BY <4>2, <4>3
    <3>7. ASSUME NEW p \in 1 .. m, s[p] \in S PROVE \E i \in 1 .. Len(k2) : bt[i] = p
      <4>1. CASE p = m
        <5>1. len + 1 \in 1 .. Len(k2) /\ bt[len + 1] = p
          BY <3>2, <4>1
        <5> QED
          BY <5>1
      <4>2. CASE p # m
        <5>0. p \in 1 .. n
          BY <2>2, <4>2
        <5>1. PICK i \in 1 .. len : at[i] = p
          BY <3>3, <3>7, <5>0
        <5>2. i \in 1 .. Len(k2) /\ bt[i] = p
          BY <3>2, <5>1
        <5> QED
          BY <5>2
      <4> QED
        BY <4>1, <4>2
    <3> HIDE DEF bt
    <3>8. Picks(bt, k2, s, m, S)
      BY <3>4, <3>5, <3>6, <3>7 DEF Picks
    <3> QED
      BY <2>2, <3>1, <3>8 DEF k, k2
  <2>4. CASE s[m] \notin S
    <3>1. kept[m] = k
      BY <1>1, <2>2, <2>4
    <3>2. Picks(at, k, s, m, S)
      <4>1. at \in [1 .. Len(k) -> 1 .. m]
        BY <2>1, <2>2 DEF Picks
      <4>2. ASSUME NEW p \in 1 .. m, s[p] \in S PROVE \E i \in 1 .. Len(k) : at[i] = p
        <5>1. p \in 1 .. n
          BY <2>2, <2>4, <4>2
        <5> QED
          BY <2>1, <4>2, <5>1 DEF Picks
      <4> QED
        BY <2>1, <4>1, <4>2 DEF Picks
    <3> QED
      BY <2>2, <3>1, <3>2
  <2> QED
    BY <2>3, <2>4
<1>4. Len(s) \in T
  <2>1. \A n \in 0 .. Len(s) : n < Len(s) /\ n \in T => n + 1 \in T
    BY <1>3
  <2> HIDE DEF T
  <2>2. \A n \in 0 .. Len(s) : n \in T
    BY <1>0, <1>2, <2>1, UpTo
  <2> QED
    BY <1>0, <2>2
<1>5. kept[Len(s)] \in Seq(A)
  BY <1>0, <1>1
<1> QED
  BY <1>1, <1>4, <1>5

(***************************************************************************)
(* Filter returns no more than it is given, and all of it when all of it    *)
(* passes the test.                                                         *)
(***************************************************************************)
LEMMA FilterLength ==
  ASSUME NEW A, NEW s \in Seq(A), NEW S
  PROVE  /\ Len(Filter(s, S)) <= Len(s)
         /\ (\A i \in 1 .. Len(s) : s[i] \in S) => Len(Filter(s, S)) = Len(s)
<1>1. PICK kept : FilterStates(kept, A, s, S)
  BY FilterRecursion
<1>2. /\ kept \in [0 .. Len(s) -> Seq(A)]
      /\ Filter(s, S) = kept[Len(s)]
      /\ kept[0] = <<>>
      /\ \A n \in 1 .. Len(s) :
           kept[n] = IF s[n] \in S THEN Append(kept[n - 1], s[n]) ELSE kept[n - 1]
  BY <1>1 DEF FilterStates
<1> DEFINE all == \A i \in 1 .. Len(s) : s[i] \in S
           Inv == [n \in 0 .. Len(s) |-> {k \in Seq(A) : Len(k) <= n /\ (all => Len(k) = n)}]
<1>3. Len(s) \in Nat /\ 0 \in Nat /\ <<>> \in Seq(A) /\ Len(<<>>) = 0
  OBVIOUS
<1>4. kept[0] \in Inv[0]
  BY <1>2, <1>3
<1>5. ASSUME NEW n \in 1 .. Len(s), kept[n - 1] \in Inv[n - 1] PROVE kept[n] \in Inv[n]
  <2>1. n - 1 \in 0 .. Len(s) /\ n \in 0 .. Len(s) /\ s[n] \in A
    BY <1>3
  <2>2. /\ kept[n - 1] \in Seq(A) /\ Len(kept[n - 1]) \in Nat /\ Len(kept[n - 1]) <= n - 1
        /\ (all => Len(kept[n - 1]) = n - 1)
    BY <1>5, <2>1
  <2>3. CASE s[n] \in S
    <3>1. kept[n] = Append(kept[n - 1], s[n])
      BY <1>2, <2>3
    <3>2. kept[n] \in Seq(A) /\ Len(kept[n]) = Len(kept[n - 1]) + 1
      BY <2>1, <2>2, <3>1
    <3> HIDE DEF all
    <3> QED
      BY <2>1, <2>2, <3>2
  <2>4. CASE s[n] \notin S
    <3>1. kept[n] = kept[n - 1] /\ ~all
      BY <1>2, <2>4
    <3> HIDE DEF all
    <3> QED
      BY <2>1, <2>2, <3>1
  <2> QED
    BY <2>3, <2>4
<1>6. \A n \in 0 .. Len(s) : kept[n] \in Inv[n]
  <2> HIDE DEF Inv
  <2>1. \A n \in 0 + 1 .. Len(s) : kept[n - 1] \in Inv[n - 1] => kept[n] \in Inv[n]
    BY <1>5
  <2> QED
    BY <1>3, <1>4, <2>1, LoopKeeps
<1>7. Len(s) \in 0 .. Len(s)
  BY <1>3
<1>8. kept[Len(s)] \in Inv[Len(s)]
  BY <1>6, <1>7
<1> HIDE DEF all
<1>9. Len(kept[Len(s)]) <= Len(s) /\ (all => Len(kept[Len(s)]) = Len(s))
  BY <1>7, <1>8
<1> QED
  BY <1>2, <1>9 DEF all
=============================================================================
