--------------------------- MODULE HostsFileProofs ---------------------------
(***************************************************************************)
(* The safety of the hosts file of HostsFile, for any number of commands,  *)
(* names and lines of others.                                              *)
(***************************************************************************)
EXTENDS HostsFile, SequenceTheorems, FiniteSetTheorems, WellFoundedInduction, TLAPS

(* Lines at some places                                                     *)

\* A set of numbers has a least one.
LEMMA Least ==
  ASSUME NEW T \in SUBSET Nat, T # {}
  PROVE  \E i \in T : \A j \in T : i <= j
<1> DEFINE Below == {ss \in Nat \X Nat : ss[1] < ss[2]}
<1>1. IsWellFoundedOn(Below, Nat)
  BY NatLessThanWellFounded DEF OpToRel
<1>2. \A j, i \in Nat : i <= j \/ <<j, i>> \in Below
  OBVIOUS
<1> HIDE DEF Below
<1>3. PICK i \in T : \A j \in T : ~(<<j, i>> \in Below)
  BY <1>1, WFMin
<1>4. \A j \in T : i <= j
  BY <1>2, <1>3
<1> QED
  BY <1>4

\* Induction up to a bound, with a set in the place of a predicate.
LEMMA UpTo ==
  ASSUME NEW n \in Nat, NEW P, 0 \in P,
         \A m \in Nat : m < n /\ m \in P => m + 1 \in P
  PROVE  \A m \in 0..n : m \in P
<1> DEFINE Bad == {m \in Nat : m <= n /\ m \notin P}
<1>1. SUFFICES ASSUME Bad # {} PROVE FALSE
  OBVIOUS
<1>2. PICK m \in Bad : \A j \in Bad : m <= j
  <2>1. Bad \in SUBSET Nat
    OBVIOUS
  <2> HIDE DEF Bad
  <2> QED
    BY <1>1, <2>1, Least
<1>3. m \in Nat /\ m <= n /\ m # 0
  BY <1>2
<1>4. m - 1 \in Nat /\ m - 1 \notin Bad /\ (m - 1) + 1 = m
  BY <1>2, <1>3
<1> QED
  BY <1>2, <1>3, <1>4

\* Places up to n are finitely many.
LEMMA PlacesFinite ==
  ASSUME NEW n \in Nat, NEW K \in SUBSET (1..n)
  PROVE  IsFiniteSet(K) /\ Cardinality(K) \in Nat
<1>1. IsFiniteSet(1..n)
  BY FS_Interval
<1>2. IsFiniteSet(K)
  BY <1>1, FS_Subset
<1> QED
  BY <1>2, FS_CardinalityType

LEMMA PickedNone == ASSUME NEW lines PROVE Picked(lines, {}) = << >>
  BY FS_EmptySet DEF Picked

\* One more line.
LEMMA PickedNext ==
  ASSUME NEW lines, NEW n \in Nat, NEW K \in SUBSET (1..n)
  PROVE  Picked(lines, K \cup {n + 1}) = Append(Picked(lines, K), lines[n + 1])
<1> DEFINE L == K \cup {n + 1}
           c == Cardinality(K)
           RankK(i) == Cardinality({j \in K : j <= i})
           RankL(i) == Cardinality({j \in L : j <= i})
<1>1. IsFiniteSet(K) /\ c \in Nat
  BY PlacesFinite
<1>2. n + 1 \notin K
  OBVIOUS
<1>3. Cardinality(L) = c + 1
  BY <1>1, <1>2, FS_AddElement
<1>4. ASSUME NEW i \in K PROVE RankL(i) = RankK(i)
  <2>1. i \in 1..n
    OBVIOUS
  <2>2. ~(n + 1 <= i)
    BY <2>1
  <2>3. {j \in L : j <= i} = {j \in K : j <= i}
    BY <2>2
  <2> QED
    BY <2>3
<1>5. RankL(n + 1) = c + 1
  <2>1. \A j \in L : j <= n + 1
    OBVIOUS
  <2>2. {j \in L : j <= n + 1} = L
    BY <2>1
  <2> QED
    BY <2>2, <1>3
<1>6. ASSUME NEW i \in K PROVE RankK(i) \in Nat /\ RankK(i) <= c
  <2> DEFINE J == {j \in K : j <= i}
  <2>1. J \in SUBSET K
    OBVIOUS
  <2> HIDE DEF J
  <2>2. IsFiniteSet(J) /\ Cardinality(J) <= Cardinality(K)
    BY <2>1, <1>1, FS_Subset
  <2>3. Cardinality(J) \in Nat
    BY <2>2, FS_CardinalityType
  <2> QED
    BY <2>2, <2>3 DEF J
<1>7. ASSUME NEW m \in 1..c
      PROVE  (CHOOSE i \in L : RankL(i) = m) = (CHOOSE i \in K : RankK(i) = m)
  <2>1. m # c + 1
    BY <1>1
  <2>2. \A i \in L : i \in K \/ i = n + 1
    OBVIOUS
  <2>3. \A i \in K : i \in L
    OBVIOUS
  <2> HIDE DEF c, L, RankL, RankK
  <2>4. \A i : (i \in L /\ RankL(i) = m) <=> (i \in K /\ RankK(i) = m)
    BY <2>1, <2>2, <2>3, <1>4, <1>5
  <2> QED
    BY <2>4
<1>8. ASSUME NEW m, m = c + 1 PROVE (CHOOSE i \in L : RankL(i) = m) = n + 1
  <2>1. \A i \in L : RankL(i) = m => i = n + 1
    BY <1>1, <1>4, <1>6, <1>8
  <2>2. n + 1 \in L
    OBVIOUS
  <2> HIDE DEF c, L, RankL
  <2> QED
    BY <2>1, <2>2, <1>5, <1>8
<1>9. Picked(lines, L) = [m \in 1..(c + 1) |-> lines[CHOOSE i \in L : RankL(i) = m]]
  BY <1>3 DEF Picked
<1>10. Picked(lines, K) = [m \in 1..c |-> lines[CHOOSE i \in K : RankK(i) = m]]
  BY DEF Picked
<1>11. Append(Picked(lines, K), lines[n + 1])
         = [m \in 1..(c + 1) |-> IF m = c + 1 THEN lines[n + 1] ELSE Picked(lines, K)[m]]
  <2>1. Len(Picked(lines, K)) = c
    BY <1>1, <1>10
  <2> DEFINE S == {Picked(lines, K)[m] : m \in 1..c}
  <2>2. Picked(lines, K) \in Seq(S)
    <3>1. Picked(lines, K) \in [1..c -> S]
      BY <1>10
    <3> HIDE DEF c, S
    <3> QED
      BY <1>1, <3>1
  <2> HIDE DEF c, S
  <2> QED
    BY <2>1, <2>2
<1> HIDE DEF c, RankK, RankL, L
<1>12. ASSUME NEW m \in 1..(c + 1)
       PROVE  lines[CHOOSE i \in L : RankL(i) = m]
                = IF m = c + 1 THEN lines[n + 1] ELSE Picked(lines, K)[m]
  <2>1. CASE m = c + 1
    <3>1. PICK x : x = CHOOSE i \in L : RankL(i) = m
      OBVIOUS
    <3>2. x = n + 1
      BY <2>1, <3>1, <1>8
    <3>3. lines[x] = IF m = c + 1 THEN lines[n + 1] ELSE Picked(lines, K)[m]
      BY <2>1, <3>2
    <3> QED
      BY <3>1, <3>3, Zenon
  <2>2. CASE m # c + 1
    <3>1. m \in 1..c
      BY <2>2, <1>1
    <3>2. (CHOOSE i \in L : RankL(i) = m) = (CHOOSE i \in K : RankK(i) = m)
      BY <3>1, <1>7
    <3>3. Picked(lines, K)[m] = lines[CHOOSE i \in K : RankK(i) = m]
      BY <3>1, <1>10
    <3> QED
      BY <3>2, <3>3, <2>2, Zenon
  <2> QED
    BY <2>1, <2>2
<1>13. Picked(lines, L) = Append(Picked(lines, K), lines[n + 1])
  BY <1>9, <1>11, <1>12
<1> QED
  BY <1>13 DEF L


\* What is picked up to one more line.
LEMMA PickedStep ==
  ASSUME NEW K \in SUBSET Nat, NEW m \in Nat, NEW lines
  PROVE  Picked(lines, K \cap (1..(m + 1)))
           = IF m + 1 \in K THEN Append(Picked(lines, K \cap (1..m)), lines[m + 1])
             ELSE Picked(lines, K \cap (1..m))
<1>1. PICK L : L = K \cap (1..(m + 1))
  OBVIOUS
<1>2. PICK J : J = K \cap (1..m)
  OBVIOUS
<1>3. CASE m + 1 \in K
  <2>1. L = J \cup {m + 1}
    BY <1>1, <1>2, <1>3
  <2>2. J \in SUBSET (1..m)
    BY <1>2
  <2>3. Picked(lines, J \cup {m + 1}) = Append(Picked(lines, J), lines[m + 1])
    BY <2>2, PickedNext
  <2>4. Picked(lines, L) = Append(Picked(lines, J), lines[m + 1])
    BY <2>1, <2>3
  <2> QED
    BY <2>4, <1>1, <1>2, <1>3, Zenon
<1>4. CASE m + 1 \notin K
  <2>1. L = J
    BY <1>1, <1>2, <1>4
  <2>2. Picked(lines, L) = Picked(lines, J)
    BY <2>1
  <2> QED
    BY <2>2, <1>1, <1>2, <1>4, Zenon
<1> QED
  BY <1>3, <1>4

LEMMA PickedZero ==
  ASSUME NEW K \in SUBSET Nat, NEW lines PROVE Picked(lines, K \cap (1..0)) = << >>
<1>1. K \cap (1..0) = {}
  OBVIOUS
<1> QED
  BY <1>1, PickedNone

\* What is picked depends on the lines at these places only.
LEMMA PickedSame ==
  ASSUME NEW n \in Nat, NEW K \in SUBSET (1..n), NEW a, NEW b, \A i \in K : a[i] = b[i]
  PROVE  Picked(a, K) = Picked(b, K)
<1> DEFINE A(m) == Picked(a, K \cap (1..m))
           B(m) == Picked(b, K \cap (1..m))
           P == {m \in Nat : A(m) = B(m)}
<1>0. K \in SUBSET Nat
  OBVIOUS
<1>1. A(0) = B(0)
  BY <1>0, PickedZero
<1>2. ASSUME NEW m \in Nat
      PROVE  /\ A(m + 1) = IF m + 1 \in K THEN Append(A(m), a[m + 1]) ELSE A(m)
             /\ B(m + 1) = IF m + 1 \in K THEN Append(B(m), b[m + 1]) ELSE B(m)
  BY <1>0, PickedStep
<1>3. A(n) = Picked(a, K) /\ B(n) = Picked(b, K)
  <2>1. K \cap (1..n) = K
    OBVIOUS
  <2> QED
    BY <2>1
<1> HIDE DEF A, B
<1>4. \A m \in Nat : m \in P => m + 1 \in P
  BY <1>2
<1>5. 0 \in P
  BY <1>1
<1> HIDE DEF P
<1>6. n \in P
  BY <1>4, <1>5, UpTo
<1> QED
  BY <1>3, <1>6 DEF P

\* Picked lines are lines.
LEMMA PickedType ==
  ASSUME NEW n \in Nat, NEW K \in SUBSET (1..n), NEW S, NEW lines, \A i \in K : lines[i] \in S
  PROVE  Picked(lines, K) \in Seq(S)
<1> DEFINE A(m) == Picked(lines, K \cap (1..m))
           P == {m \in Nat : A(m) \in Seq(S)}
<1>0. K \in SUBSET Nat
  OBVIOUS
<1>1. A(0) = << >>
  BY <1>0, PickedZero
<1>2. ASSUME NEW m \in Nat
      PROVE  A(m + 1) = IF m + 1 \in K THEN Append(A(m), lines[m + 1]) ELSE A(m)
  BY <1>0, PickedStep
<1>3. A(n) = Picked(lines, K)
  <2>1. K \cap (1..n) = K
    OBVIOUS
  <2> QED
    BY <2>1
<1> HIDE DEF A
<1>4. \A m \in Nat : m \in P => m + 1 \in P
  <2> SUFFICES ASSUME NEW m \in Nat, A(m) \in Seq(S) PROVE A(m + 1) \in Seq(S)
    OBVIOUS
  <2>1. CASE m + 1 \in K
    <3>1. A(m + 1) = Append(A(m), lines[m + 1]) /\ lines[m + 1] \in S
      BY <1>2, <2>1
    <3> QED
      BY <3>1
  <2>2. CASE m + 1 \notin K
    BY <1>2, <2>2
  <2> QED
    BY <2>1, <2>2
<1>5. 0 \in P
  <2>1. << >> \in Seq(S)
    OBVIOUS
  <2> QED
    BY <1>1, <2>1
<1> HIDE DEF P
<1>6. n \in P
  BY <1>4, <1>5, UpTo
<1> QED
  BY <1>3, <1>6 DEF P

\* All the lines up to one.
LEMMA PickedPrefix ==
  ASSUME NEW S, NEW lines \in Seq(S), NEW n \in 0..Len(lines)
  PROVE  Picked(lines, 1..n) = SubSeq(lines, 1, n)
<1> DEFINE A(m) == Picked(lines, 1..m)
           P == {m \in Nat : m <= Len(lines) => A(m) = SubSeq(lines, 1, m)}
<1>1. 0 \in P
  <2>1. 1..0 = {}
    OBVIOUS
  <2>2. SubSeq(lines, 1, 0) = << >>
    OBVIOUS
  <2>3. A(0) = << >>
    BY <2>1, PickedNone
  <2> HIDE DEF A
  <2> QED
    BY <2>2, <2>3
<1>2. ASSUME NEW m \in Nat, m \in P PROVE m + 1 \in P
  <2> SUFFICES ASSUME m + 1 <= Len(lines)
               PROVE  A(m + 1) = SubSeq(lines, 1, m + 1)
    OBVIOUS
  <2>1. A(m + 1) = Append(A(m), lines[m + 1])
    <3>1. 1..(m + 1) = (1..m) \cup {m + 1}
      OBVIOUS
    <3>2. Picked(lines, (1..m) \cup {m + 1}) = Append(Picked(lines, 1..m), lines[m + 1])
      BY PickedNext
    <3> QED
      BY <3>1, <3>2
  <2> HIDE DEF A
  <2>3. A(m) = SubSeq(lines, 1, m)
    BY <1>2
  <2>4. Append(SubSeq(lines, 1, m), lines[m + 1]) = SubSeq(lines, 1, m + 1)
    OBVIOUS
  <2> QED
    BY <2>1, <2>3, <2>4
<1> HIDE DEF P
<1>3. n \in P
  BY <1>1, <1>2, UpTo, SMTT(30)
<1> QED
  BY <1>3 DEF P

(* remove_block                                                             *)

\* Whether the next line is in a block depends on the last one.
LEMMA InsideNext ==
  ASSUME NEW lines, NEW n \in Nat, n # 0
  PROVE  Inside(lines, n + 1) <=> IF lines[n] \in Markers THEN lines[n] = "# nsl-start"
                                  ELSE Inside(lines, n)
<1>1. (n + 1) - 1 = n /\ n - 1 \in Nat
  OBVIOUS
<1>2. CASE lines[n] = "# nsl-start"
  <2>1. n \in 1..n /\ \A k \in n..n : lines[k] # "# nsl-end"
    <3>1. n \in 1..n /\ \A k \in n..n : k = n
      OBVIOUS
    <3>2. lines[n] # "# nsl-end"
      BY <1>2
    <3> QED
      BY <3>1, <3>2
  <2>2. Inside(lines, n + 1)
    BY <1>1, <1>2, <2>1 DEF Inside
  <2> QED
    BY <1>2, <2>2 DEF Markers
<1>3. CASE lines[n] = "# nsl-end"
  <2>1. \A j \in 1..n : n \in j..n
    OBVIOUS
  <2>2. ~Inside(lines, n + 1)
    BY <1>1, <1>3, <2>1 DEF Inside
  <2>3. lines[n] \in Markers /\ lines[n] # "# nsl-start"
    BY <1>3 DEF Markers
  <2> QED
    BY <2>2, <2>3
<1>4. CASE lines[n] \notin Markers
  <2>1. lines[n] # "# nsl-start" /\ lines[n] # "# nsl-end"
    BY <1>4 DEF Markers
  <2>2. ASSUME Inside(lines, n + 1) PROVE Inside(lines, n)
    <3>1. PICK j \in 1..n : lines[j] = "# nsl-start" /\ \A k \in j..n : lines[k] # "# nsl-end"
      BY <1>1, <2>2 DEF Inside
    <3>2. j # n
      BY <2>1, <3>1
    <3>3. j \in 1..(n - 1) /\ \A k \in j..(n - 1) : k \in j..n
      BY <3>2
    <3> QED
      BY <3>1, <3>3 DEF Inside
  <2>3. ASSUME Inside(lines, n) PROVE Inside(lines, n + 1)
    <3>1. PICK j \in 1..(n - 1) :
            lines[j] = "# nsl-start" /\ \A k \in j..(n - 1) : lines[k] # "# nsl-end"
      BY <2>3 DEF Inside
    <3>2. j \in 1..n /\ \A k \in j..n : k = n \/ k \in j..(n - 1)
      OBVIOUS
    <3> QED
      BY <1>1, <2>1, <3>1, <3>2 DEF Inside
  <2> QED
    BY <1>4, <2>2, <2>3
<1> QED
  BY <1>2, <1>3, <1>4 DEF Markers

\* The loop keeps what is no part of a block.
LEMMA RemovesTheBlock ==
  ASSUME NEW S, NEW lines \in Seq(S)
  PROVE  RemoveBlock(lines) = Outside(lines)
<1> DEFINE N == Len(lines)
           K == OutsidePlaces(lines)
           In(n) == Inside(lines, n + 1)
           Kept(n) == Picked(lines, K \cap (1..n))
           Zero == [inside |-> FALSE, result |-> << >>]
           F == [n \in 0..N |-> [inside |-> In(n), result |-> Kept(n)]]
<1>1. N \in Nat /\ K \in SUBSET (1..N) /\ K \in SUBSET Nat
  BY DEF OutsidePlaces
<1>2. Kept(0) = << >>
  BY <1>1, PickedZero
<1>3. In(0) = FALSE
  <2>1. 1..((0 + 1) - 1) = {}
    OBVIOUS
  <2>2. ~Inside(lines, 0 + 1)
    BY <2>1 DEF Inside
  <2>3. In(0) \in BOOLEAN
    BY DEF Inside
  <2> QED
    BY <2>2, <2>3
<1>4. ASSUME NEW n \in 1..N
      PROVE  /\ In(n) = IF lines[n] \in Markers THEN lines[n] = "# nsl-start" ELSE In(n - 1)
             /\ Kept(n) = IF lines[n] \notin Markers /\ ~In(n - 1)
                          THEN Append(Kept(n - 1), lines[n]) ELSE Kept(n - 1)
  <2>1. n - 1 \in Nat /\ (n - 1) + 1 = n /\ n \in Nat /\ n # 0
    BY <1>1
  <2>2. n \in K <=> lines[n] \notin Markers /\ ~Inside(lines, n)
    BY DEF OutsidePlaces
  <2>3. Kept(n) = IF n \in K THEN Append(Kept(n - 1), lines[n]) ELSE Kept(n - 1)
    <3>1. PICK m \in Nat : m = n - 1 /\ m + 1 = n
      BY <2>1
    <3>2. Kept(m + 1) = IF m + 1 \in K THEN Append(Kept(m), lines[m + 1]) ELSE Kept(m)
      BY <1>1, PickedStep
    <3> HIDE DEF Kept, K
    <3> QED
      BY <3>1, <3>2
  <2>4. In(n - 1) <=> Inside(lines, n)
    BY <2>1
  <2>5. In(n) <=> IF lines[n] \in Markers THEN lines[n] = "# nsl-start" ELSE In(n - 1)
    BY <2>1, <2>4, InsideNext
  <2>6. In(n) \in BOOLEAN /\ In(n - 1) \in BOOLEAN
    BY DEF Inside
  <2>7. In(n) = IF lines[n] \in Markers THEN lines[n] = "# nsl-start" ELSE In(n - 1)
    BY <2>5, <2>6
  <2> HIDE DEF In, Kept, K
  <2> QED
    BY <2>2, <2>3, <2>4, <2>7
<1> HIDE DEF In, Kept, K, N
<1>5. F[0] = Zero
  <2>1. 0 \in 0..N
    BY <1>1
  <2>2. F[0] = [inside |-> In(0), result |-> Kept(0)]
    BY <2>1, Zenon
  <2> QED
    BY <2>2, <1>2, <1>3, Zenon
<1>6. ASSUME NEW n \in 1..N PROVE F[n] = Turn(F[n - 1], lines[n])
  <2>1. n \in 0..N /\ n - 1 \in 0..N
    BY <1>1
  <2>2. F[n] = [inside |-> In(n), result |-> Kept(n)]
    BY <2>1, Zenon
  <2>3. F[n - 1] = [inside |-> In(n - 1), result |-> Kept(n - 1)]
    BY <2>1, Zenon
  <2>4. F[n - 1].inside = In(n - 1) /\ F[n - 1].result = Kept(n - 1)
    <3>1. PICK a : a = In(n - 1)
      OBVIOUS
    <3>2. PICK b : b = Kept(n - 1)
      OBVIOUS
    <3>3. PICK r : r = F[n - 1]
      OBVIOUS
    <3>4. r = [inside |-> a, result |-> b]
      BY <2>3, <3>1, <3>2, <3>3, Zenon
    <3>5. r.inside = a /\ r.result = b
      BY <3>4
    <3> QED
      BY <3>1, <3>2, <3>3, <3>5, Zenon
  <2>5. F[n] = IF lines[n] \in Markers
               THEN [inside |-> lines[n] = "# nsl-start", result |-> Kept(n - 1)]
               ELSE IF In(n - 1) THEN [inside |-> In(n - 1), result |-> Kept(n - 1)]
               ELSE [inside |-> In(n - 1), result |-> Append(Kept(n - 1), lines[n])]
    BY <2>2, <1>4, Zenon
  <2>6. ~In(n - 1) => In(n - 1) = FALSE
    <3>1. In(n - 1) \in BOOLEAN
      BY DEF In, Inside
    <3> QED
      BY <3>1, Zenon
  <2> HIDE DEF F
  <2>7. CASE lines[n] \in Markers
    BY <2>4, <2>5, <2>7, Zenon DEF Turn
  <2>8. CASE lines[n] \notin Markers /\ In(n - 1)
    BY <2>3, <2>4, <2>5, <2>8, Zenon DEF Turn
  <2>9. CASE lines[n] \notin Markers /\ ~In(n - 1)
    <3>1. F[n] = [inside |-> In(n - 1), result |-> Append(Kept(n - 1), lines[n])]
      BY <2>5, <2>9, Zenon
    <3>2. F[n] = [inside |-> FALSE, result |-> Append(Kept(n - 1), lines[n])]
      BY <3>1, <2>6, <2>9, Zenon
    <3> QED
      BY <3>2, <2>4, <2>9, Zenon DEF Turn
  <2> QED
    BY <2>7, <2>8, <2>9
<1> HIDE DEF F
<1> DEFINE Loop(g) == [n \in 0..N |-> IF n = 0 THEN Zero ELSE Turn(g[n - 1], lines[n])]
           after == CHOOSE g : g = Loop(g)
<1>7. F = Loop(F)
  <2>1. F = [n \in 0..N |-> F[n]]
    BY DEF F
  <2>2. \A n \in 0..N : F[n] = IF n = 0 THEN Zero ELSE Turn(F[n - 1], lines[n])
    BY <1>1, <1>5, <1>6
  <2> HIDE DEF Zero
  <2> QED
    BY <2>1, <2>2
<1>8. after = Loop(after)
  BY <1>7
<1>9. RemoveBlock(lines) = after[N].result
  BY DEF RemoveBlock, N
<1> HIDE DEF after
<1>10. \A m \in 0..N : after[m] = F[m]
  <2> DEFINE P == {m \in Nat : m <= N => after[m] = F[m]}
  <2>1. 0 \in P
    BY <1>1, <1>5, <1>8
  <2>2. ASSUME NEW m \in Nat, m \in P PROVE m + 1 \in P
    <3> SUFFICES ASSUME m + 1 <= N PROVE after[m + 1] = F[m + 1]
      OBVIOUS
    <3>1. m + 1 \in 1..N /\ (m + 1) - 1 = m /\ m + 1 # 0
      BY <1>1
    <3>2. after[m + 1] = Turn(after[m], lines[m + 1])
      <4>1. m + 1 \in 0..N
        BY <3>1, <1>1
      <4>2. after[m + 1] = Loop(after)[m + 1]
        BY <1>8
      <4>3. Loop(after)[m + 1]
              = IF m + 1 = 0 THEN Zero ELSE Turn(after[(m + 1) - 1], lines[m + 1])
        BY <4>1, Zenon
      <4> HIDE DEF Loop, Zero
      <4> QED
        BY <4>2, <4>3, <3>1
    <3>3. F[m + 1] = Turn(F[m], lines[m + 1])
      BY <3>1, <1>6
    <3>4. after[m] = F[m]
      BY <2>2, <3>1, <1>1
    <3> QED
      BY <3>2, <3>3, <3>4
  <2> HIDE DEF P
  <2>3. N \in Nat /\ 0 \in P /\ \A m \in Nat : m < N /\ m \in P => m + 1 \in P
    BY <1>1, <2>1, <2>2
  <2>4. \A m \in 0..N : m \in P
    BY <2>3, UpTo
  <2> QED
    BY <2>4, <1>1 DEF P
<1>11. after[N].result = Kept(N)
  <2>1. N \in 0..N
    BY <1>1
  <2>2. F[N] = [inside |-> In(N), result |-> Kept(N)]
    BY <2>1, Zenon DEF F
  <2>3. F[N].result = Kept(N)
    <3>1. PICK a : a = In(N)
      OBVIOUS
    <3>2. PICK b : b = Kept(N)
      OBVIOUS
    <3>3. PICK r : r = F[N]
      OBVIOUS
    <3>4. r = [inside |-> a, result |-> b]
      BY <2>2, <3>1, <3>2, <3>3, Zenon
    <3>5. r.inside = a /\ r.result = b
      BY <3>4
    <3> QED
      BY <3>1, <3>2, <3>3, <3>5, Zenon
  <2>4. after[N] = F[N]
    BY <2>1, <1>10
  <2> QED
    BY <2>3, <2>4, Zenon
<1>12. Kept(N) = Outside(lines)
  <2>1. K \cap (1..N) = K
    BY <1>1
  <2> QED
    BY <2>1 DEF Kept, K, Outside
<1> QED
  BY <1>9, <1>11, <1>12

(* TrimEnd                                                                  *)

LEMMA Greatest ==
  ASSUME NEW n \in Nat, NEW T \in SUBSET (1..n), T # {}
  PROVE  \E i \in T : \A j \in T : j <= i
<1> DEFINE U == {n - i : i \in T}
<1>1. U \in SUBSET Nat /\ U # {}
  <2>1. \A i \in T : n - i \in Nat
    OBVIOUS
  <2> QED
    BY <2>1
<1> HIDE DEF U
<1>2. PICK u \in U : \A v \in U : u <= v
  BY <1>1, Least
<1>3. PICK i \in T : u = n - i
  BY <1>2 DEF U
<1>4. ASSUME NEW j \in T PROVE j <= i
  <2>1. n - j \in U
    BY DEF U
  <2>2. n - i <= n - j
    BY <2>1, <1>2, <1>3
  <2> QED
    BY <2>2
<1> QED
  BY <1>4

\* What is cut off is blank, and the line before it is not.
LEMMA TrimFacts ==
  ASSUME NEW S, NEW lines \in Seq(S)
  PROVE  \E k \in 0..Len(lines) :
           /\ TrimEnd(lines) = SubSeq(lines, 1, k)
           /\ k = 0 \/ lines[k] # "blank"
           /\ \A i \in (k + 1)..Len(lines) : lines[i] = "blank"
<1> DEFINE last == {i \in DOMAIN lines : lines[i] # "blank"}
           top == CHOOSE i \in last : \A j \in last : j <= i
<1>1. last \in SUBSET (1..Len(lines)) /\ Len(lines) \in Nat
  OBVIOUS
<1>2. TrimEnd(lines) = SubSeq(lines, 1, IF last = {} THEN 0 ELSE top)
  BY DEF TrimEnd
<1>3. \A i \in 1..Len(lines) : i \notin last => lines[i] = "blank"
  OBVIOUS
<1>4. CASE last = {}
  <2>1. TrimEnd(lines) = SubSeq(lines, 1, 0)
    BY <1>2, <1>4
  <2>2. \A i \in (0 + 1)..Len(lines) : lines[i] = "blank"
    BY <1>3, <1>4
  <2>3. 0 \in 0..Len(lines)
    BY <1>1
  <2> QED
    BY <2>1, <2>2, <2>3
<1>5. CASE last # {}
  <2>1. \E i \in last : \A j \in last : j <= i
    <3> HIDE DEF last
    <3> QED
      BY <1>1, <1>5, Greatest
  <2>2. top \in last /\ \A j \in last : j <= top
    <3> HIDE DEF last
    <3> QED
      BY <2>1
  <2>3. lines[top] # "blank"
    BY <2>2
  <2>4. top \in 1..Len(lines)
    BY <1>1, <2>2
  <2> HIDE DEF top, last
  <2>5. TrimEnd(lines) = SubSeq(lines, 1, top)
    BY <1>2, <1>5
  <2>6. \A i \in (top + 1)..Len(lines) : lines[i] = "blank"
    BY <1>1, <1>3, <2>2, <2>4
  <2>7. top \in 0..Len(lines)
    BY <2>4
  <2> QED
    BY <2>3, <2>5, <2>6, <2>7
<1> QED
  BY <1>4, <1>5

LEMMA TrimAt ==
  ASSUME NEW S, NEW lines \in Seq(S), NEW k \in 0..Len(lines), k = 0 \/ lines[k] # "blank",
         \A i \in (k + 1)..Len(lines) : lines[i] = "blank"
  PROVE  TrimEnd(lines) = SubSeq(lines, 1, k)
<1>1. PICK m \in 0..Len(lines) :
        /\ TrimEnd(lines) = SubSeq(lines, 1, m)
        /\ m = 0 \/ lines[m] # "blank"
        /\ \A i \in (m + 1)..Len(lines) : lines[i] = "blank"
  BY TrimFacts
<1>2. ~(m < k)
  BY <1>1
<1>3. ~(k < m)
  BY <1>1
<1>4. m = k
  BY <1>2, <1>3
<1> QED
  BY <1>1, <1>4

\* Trimmed text ends with a line that is not blank, and the rest was blank.
Trimmed(lines) == lines = << >> \/ lines[Len(lines)] # "blank"

LEMMA TrimSplit ==
  ASSUME NEW S, NEW lines \in Seq(S)
  PROVE  /\ TrimEnd(lines) \in Seq(S) /\ Trimmed(TrimEnd(lines))
         /\ \E z \in Seq({"blank"}) : lines = TrimEnd(lines) \o z
<1>1. PICK k \in 0..Len(lines) :
        /\ TrimEnd(lines) = SubSeq(lines, 1, k)
        /\ k = 0 \/ lines[k] # "blank"
        /\ \A i \in (k + 1)..Len(lines) : lines[i] = "blank"
  BY TrimFacts
<1> DEFINE t == SubSeq(lines, 1, k)
           z == SubSeq(lines, k + 1, Len(lines))
<1>2. t \in Seq(S) /\ Len(t) = k /\ \A i \in 1..k : t[i] = lines[i]
  OBVIOUS
<1>3. Trimmed(t)
  <2>1. CASE k = 0
    BY <1>2, <2>1, EmptySeq DEF Trimmed
  <2>2. CASE k # 0
    <3>1. k \in 1..k
      BY <2>2
    <3> QED
      BY <1>1, <1>2, <2>2, <3>1 DEF Trimmed
  <2> QED
    BY <2>1, <2>2
<1>4. z \in Seq(S) /\ Len(z) = Len(lines) - k
      /\ \A i \in 1..(Len(lines) - k) : z[i] = lines[k + i]
  OBVIOUS
<1>5. z \in Seq({"blank"})
  <2>1. \A i \in 1..Len(z) : z[i] \in {"blank"}
    BY <1>1, <1>4
  <2> HIDE DEF z
  <2> QED
    BY <1>4, <2>1
<1>6. lines = t \o z
  <2>1. SubSeq(lines, 1, Len(lines)) = lines
    BY SubSeqFull
  <2>2. 1 \in 1..(Len(lines) + 1) /\ k \in (1 - 1)..Len(lines) /\ Len(lines) \in k..Len(lines)
    OBVIOUS
  <2>3. t \o z = SubSeq(lines, 1, Len(lines))
    BY <2>2, ConcatAdjacentSubSeq
  <2> QED
    BY <2>1, <2>3
<1> HIDE DEF t, z
<1> QED
  BY <1>1, <1>2, <1>3, <1>5, <1>6 DEF t

\* Blank lines after trimmed text are cut off.
LEMMA TrimJoined ==
  ASSUME NEW S, NEW t \in Seq(S), Trimmed(t), NEW z \in Seq({"blank"})
  PROVE  TrimEnd(t \o z) = t
<1> DEFINE lines == t \o z
           k == Len(t)
<1>1. lines \in Seq(S \cup {"blank"})
  OBVIOUS
<1>2. k \in 0..Len(lines)
  OBVIOUS
<1>3. k = 0 \/ lines[k] # "blank"
  <2>1. CASE t = << >>
    BY <2>1
  <2>2. CASE t # << >>
    <3>1. k \in 1..Len(t)
      BY <2>2
    <3>2. lines[k] = t[k]
      BY <3>1
    <3> QED
      BY <2>2, <3>2 DEF Trimmed
  <2> QED
    BY <2>1, <2>2
<1>4. ASSUME NEW i \in (k + 1)..Len(lines) PROVE lines[i] = "blank"
  <2>0. Len(lines) = k + Len(z) /\ k \in Nat /\ Len(z) \in Nat
    OBVIOUS
  <2>1. i - k \in 1..Len(z) /\ lines[i] = z[i - k]
    BY <2>0
  <2>2. z[i - k] \in {"blank"}
    BY <2>1
  <2> QED
    BY <2>1, <2>2
<1>5. SubSeq(lines, 1, k) = t
  OBVIOUS
<1> HIDE DEF lines, k
<1>6. TrimEnd(lines) = SubSeq(lines, 1, k)
  BY <1>1, <1>2, <1>3, <1>4, TrimAt
<1> QED
  BY <1>5, <1>6 DEF lines

LEMMA TrimTrimmed ==
  ASSUME NEW S, NEW t \in Seq(S), Trimmed(t)
  PROVE  TrimEnd(t) = t
<1>1. << >> \in Seq({"blank"}) /\ t \o << >> = t
  OBVIOUS
<1>2. TrimEnd(t \o << >>) = t
  BY <1>1, TrimJoined
<1> QED
  BY <1>1, <1>2

(* The lines of others                                                      *)

LEMMA OthersNext ==
  ASSUME NEW S, NEW s \in Seq(S), NEW x \in S
  PROVE  OfOthers(Append(s, x)) = IF x \in Foreign THEN Append(OfOthers(s), x) ELSE OfOthers(s)
<1> DEFINE n == Len(s)
           t == Append(s, x)
           K == {i \in DOMAIN s : s[i] \in Foreign}
           L == {i \in DOMAIN t : t[i] \in Foreign}
<1>1. n \in Nat /\ DOMAIN s = 1..n /\ DOMAIN t = 1..(n + 1)
  OBVIOUS
<1>2. (\A i \in 1..n : t[i] = s[i]) /\ t[n + 1] = x
  OBVIOUS
<1>3. OfOthers(t) = Picked(t, L) /\ OfOthers(s) = Picked(s, K)
  BY DEF OfOthers
<1>4. K \in SUBSET (1..n)
  BY <1>1
<1>5. L = IF x \in Foreign THEN K \cup {n + 1} ELSE K
  <2>1. \A i : i \in 1..(n + 1) <=> i \in 1..n \/ i = n + 1
    BY <1>1
  <2>2. \A i \in 1..n : i # n + 1
    BY <1>1
  <2> HIDE DEF t, n
  <2> QED
    BY <1>1, <1>2, <2>1, <2>2
<1> HIDE DEF K, L, t, n
<1>6. Picked(t, K) = Picked(s, K)
  <2>1. \A i \in K : t[i] = s[i]
    BY <1>2, <1>4
  <2> QED
    BY <1>1, <1>4, <2>1, PickedSame
<1>7. Picked(t, K \cup {n + 1}) = Append(Picked(t, K), t[n + 1])
  BY <1>1, <1>4, PickedNext
<1>8. OfOthers(t) = IF x \in Foreign THEN Append(OfOthers(s), x) ELSE OfOthers(s)
  BY <1>2, <1>3, <1>5, <1>6, <1>7
<1> QED
  BY <1>8 DEF t

\* The lines of others among picked lines.
LEMMA OthersPicked ==
  ASSUME NEW S, NEW lines \in Seq(S), NEW K \in SUBSET (1..Len(lines))
  PROVE  OfOthers(Picked(lines, K)) = Picked(lines, {i \in K : lines[i] \in Foreign})
<1> DEFINE N == Len(lines)
           J == {i \in K : lines[i] \in Foreign}
           A(m) == Picked(lines, K \cap (1..m))
           B(m) == Picked(lines, J \cap (1..m))
           P == {m \in Nat : m <= N => OfOthers(A(m)) = B(m)}
<1>1. N \in Nat /\ K \in SUBSET Nat /\ J \in SUBSET Nat
  <2>1. \A i \in 1..N : i \in Nat
    OBVIOUS
  <2>2. K \subseteq 1..N /\ J \subseteq K /\ N \in Nat
    OBVIOUS
  <2> QED
    BY <2>1, <2>2
<1>2. 0 \in P
  <2>1. A(0) = << >> /\ B(0) = << >>
    BY <1>1, PickedZero
  <2>2. OfOthers(<< >>) = << >>
    <3>1. {i \in DOMAIN << >> : << >>[i] \in Foreign} = {}
      OBVIOUS
    <3>2. Picked(<< >>, {}) = << >>
      BY PickedNone
    <3> QED
      BY <3>1, <3>2 DEF OfOthers
  <2> HIDE DEF A, B
  <2> QED
    BY <2>1, <2>2
<1>3. ASSUME NEW m \in Nat, m \in P PROVE m + 1 \in P
  <2> SUFFICES ASSUME m + 1 <= N PROVE OfOthers(A(m + 1)) = B(m + 1)
    OBVIOUS
  <2>1. /\ A(m + 1) = IF m + 1 \in K THEN Append(A(m), lines[m + 1]) ELSE A(m)
        /\ B(m + 1) = IF m + 1 \in J THEN Append(B(m), lines[m + 1]) ELSE B(m)
    BY <1>1, PickedStep
  <2>2. OfOthers(A(m)) = B(m)
    BY <1>1, <1>3
  <2>3. lines[m + 1] \in S
    BY <1>1
  <2>4. A(m) \in Seq(S)
    <3>1. K \cap (1..m) \in SUBSET (1..m)
      OBVIOUS
    <3>2. \A i \in K \cap (1..m) : lines[i] \in S
      OBVIOUS
    <3> QED
      BY <3>1, <3>2, PickedType
  <2>5. m + 1 \in J <=> m + 1 \in K /\ lines[m + 1] \in Foreign
    OBVIOUS
  <2> HIDE DEF A, B, J
  <2>6. CASE m + 1 \in K
    <3>1. OfOthers(Append(A(m), lines[m + 1]))
            = IF lines[m + 1] \in Foreign THEN Append(OfOthers(A(m)), lines[m + 1])
              ELSE OfOthers(A(m))
      BY <2>3, <2>4, OthersNext
    <3> QED
      BY <3>1, <2>1, <2>2, <2>5, <2>6
  <2>7. CASE m + 1 \notin K
    BY <2>1, <2>2, <2>5, <2>7
  <2> QED
    BY <2>6, <2>7
<1>4. A(N) = Picked(lines, K) /\ B(N) = Picked(lines, J)
  <2>1. K \cap (1..N) = K /\ J \cap (1..N) = J
    OBVIOUS
  <2> QED
    BY <2>1
<1> HIDE DEF P, A, B, N, J
<1>5. N \in P
  <2>1. \A m \in Nat : m < N /\ m \in P => m + 1 \in P
    BY <1>3
  <2>2. \A m \in 0..N : m \in P
    BY <1>1, <1>2, <2>1, UpTo
  <2> QED
    BY <1>1, <2>2
<1>6. OfOthers(A(N)) = B(N)
  BY <1>1, <1>5 DEF P
<1>7. OfOthers(Picked(lines, K)) = Picked(lines, J)
  BY <1>4, <1>6
<1> QED
  BY <1>7 DEF J

LEMMA OthersTrim ==
  ASSUME NEW S, NEW lines \in Seq(S)
  PROVE  OfOthers(TrimEnd(lines)) = OfOthers(lines)
<1>1. PICK k \in 0..Len(lines) :
        /\ TrimEnd(lines) = SubSeq(lines, 1, k)
        /\ \A i \in (k + 1)..Len(lines) : lines[i] = "blank"
  BY TrimFacts
<1> DEFINE t == SubSeq(lines, 1, k)
           K == {i \in DOMAIN t : t[i] \in Foreign}
           L == {i \in DOMAIN lines : lines[i] \in Foreign}
<1>2. /\ Len(lines) \in Nat /\ DOMAIN lines = 1..Len(lines)
      /\ DOMAIN t = 1..k /\ \A i \in 1..k : t[i] = lines[i]
  OBVIOUS
<1>3. "blank" \notin Foreign
  BY LinesAssumption
<1>4. L = K
  <2>1. \A i \in 1..Len(lines) : i \in 1..k \/ i \in (k + 1)..Len(lines)
    OBVIOUS
  <2>2. \A i \in 1..k : i \in 1..Len(lines)
    OBVIOUS
  <2> HIDE DEF t
  <2> QED
    BY <1>1, <1>2, <1>3, <2>1, <2>2
<1>5. K \in SUBSET (1..k) /\ \A i \in K : t[i] = lines[i]
  BY <1>2
<1>6. OfOthers(t) = Picked(t, K) /\ OfOthers(lines) = Picked(lines, L)
  BY DEF OfOthers
<1> HIDE DEF t, K, L
<1>7. Picked(t, K) = Picked(lines, K)
  <2>1. k \in Nat
    OBVIOUS
  <2> QED
    BY <1>5, <2>1, PickedSame
<1>8. OfOthers(t) = OfOthers(lines)
  BY <1>4, <1>6, <1>7
<1> QED
  BY <1>1, <1>8 DEF t

(* What is written                                                          *)

Plain == Seq(Lines \ Markers)

LEMMA PlainFacts ==
  ASSUME NEW B \in Plain
  PROVE  /\ B \in Seq(Lines) /\ Len(B) \in Nat /\ DOMAIN B = 1..Len(B)
         /\ \A i \in 1..Len(B) : B[i] \in Lines /\ B[i] # "# nsl-start" /\ B[i] # "# nsl-end"
<1>1. B \in Seq(Lines)
  BY DEF Plain
<1>2. Len(B) \in Nat /\ DOMAIN B = 1..Len(B) /\ \A i \in 1..Len(B) : B[i] \in Lines \ Markers
  BY DEF Plain
<1> QED
  BY <1>1, <1>2 DEF Markers

\* One sequence after another.
LEMMA Joined ==
  ASSUME NEW S, NEW a \in Seq(S), NEW b \in Seq(S), NEW x, x = a \o b,
         NEW m, m = Len(a), NEW n, n = Len(b)
  PROVE  /\ x \in Seq(S) /\ Len(x) = m + n /\ DOMAIN x = 1..(m + n) /\ m \in Nat /\ n \in Nat
         /\ \A i \in 1..m : x[i] = a[i]
         /\ \A i \in 1..n : x[m + i] = b[i]
         /\ \A i \in 1..(m + n) : i \in 1..m \/ (i - m \in 1..n /\ x[i] = b[i - m])
<1>1. /\ x \in Seq(S) /\ Len(x) = m + n /\ m \in Nat /\ n \in Nat
      /\ \A i \in 1..(m + n) : x[i] = IF i <= m THEN a[i] ELSE b[i - m]
  BY ConcatProperties, LenProperties
<1>2. DOMAIN x = 1..(m + n)
  BY <1>1, LenProperties
<1>3. \A i \in 1..m : i \in 1..(m + n) /\ i <= m
  BY <1>1
<1>4. \A i \in 1..n : m + i \in 1..(m + n) /\ ~(m + i <= m) /\ (m + i) - m = i
  BY <1>1
<1>5. \A i \in 1..(m + n) : i \in 1..m \/ (i - m \in 1..n /\ ~(i <= m))
  BY <1>1
<1>6. \A i \in 1..m : x[i] = a[i]
  BY <1>1, <1>3
<1>7. \A i \in 1..n : x[m + i] = b[i]
  BY <1>1, <1>4
<1>8. \A i \in 1..(m + n) : i \in 1..m \/ (i - m \in 1..n /\ x[i] = b[i - m])
  BY <1>1, <1>5
<1> QED
  BY <1>1, <1>2, <1>6, <1>7, <1>8

\* Lines that start no block are outside.
LEMMA OutsideAtStart ==
  ASSUME NEW n \in Nat, NEW x, 1..n \subseteq DOMAIN x, \A i \in 1..n : x[i] \notin Markers
  PROVE  1..n \subseteq OutsidePlaces(x)
<1> SUFFICES ASSUME NEW i \in 1..n PROVE i \in OutsidePlaces(x)
  OBVIOUS
<1>1. \A j \in 1..(i - 1) : j \in 1..n
  OBVIOUS
<1>2. ~Inside(x, i)
  BY <1>1 DEF Inside, Markers
<1> QED
  BY <1>2 DEF OutsidePlaces

LEMMA OutsidePlain == ASSUME NEW B \in Plain PROVE Outside(B) = B
<1>1. B \in Seq(Lines) /\ Len(B) \in Nat /\ DOMAIN B = 1..Len(B)
      /\ \A i \in 1..Len(B) : B[i] \notin Markers
  BY PlainFacts DEF Markers
<1>2. 1..Len(B) \subseteq OutsidePlaces(B)
  BY <1>1, OutsideAtStart
<1>3. OutsidePlaces(B) = 1..Len(B)
  BY <1>1, <1>2 DEF OutsidePlaces
<1>4. Len(B) \in 0..Len(B)
  BY <1>1
<1>5. Picked(B, 1..Len(B)) = SubSeq(B, 1, Len(B))
  BY <1>1, <1>4, PickedPrefix
<1>6. SubSeq(B, 1, Len(B)) = B
  BY <1>1, SubSeqFull
<1> QED
  BY <1>3, <1>5, <1>6 DEF Outside

\* What follows them without a line of others adds none.
LEMMA OthersJoined ==
  ASSUME NEW B \in Plain, NEW z \in Seq(Lines \ Foreign)
  PROVE  OfOthers(Outside(B \o z)) = OfOthers(B)
<1>1. PICK x : x = B \o z
  OBVIOUS
<1>2. PICK m : m = Len(B)
  OBVIOUS
<1>3. PICK n : n = Len(z)
  OBVIOUS
<1> DEFINE K == {i \in OutsidePlaces(x) : x[i] \in Foreign}
           L == {i \in 1..m : B[i] \in Foreign}
<1>4. B \in Seq(Lines) /\ DOMAIN B = 1..m /\ \A i \in 1..m : B[i] \notin Markers
  BY <1>2, PlainFacts DEF Markers
<1>5. z \in Seq(Lines) /\ \A i \in 1..n : z[i] \notin Foreign
  BY <1>3
<1>6. /\ x \in Seq(Lines) /\ Len(x) = m + n /\ DOMAIN x = 1..(m + n) /\ m \in Nat /\ n \in Nat
      /\ \A i \in 1..m : x[i] = B[i]
      /\ \A i \in 1..(m + n) : i \in 1..m \/ (i - m \in 1..n /\ x[i] = z[i - m])
  BY <1>1, <1>2, <1>3, <1>4, <1>5, Joined
<1>7. 1..m \subseteq 1..(m + n)
  BY <1>6
<1>8. 1..m \subseteq OutsidePlaces(x)
  BY <1>4, <1>6, <1>7, OutsideAtStart
<1>9. OutsidePlaces(x) \subseteq 1..(m + n)
  BY <1>6 DEF OutsidePlaces
<1>10. K = L
  BY <1>5, <1>6, <1>8, <1>9
<1>11. L \in SUBSET (1..m) /\ \A i \in L : x[i] = B[i]
  BY <1>6
<1>12. OfOthers(Outside(x)) = Picked(x, K)
  BY <1>6, <1>9, OthersPicked DEF Outside
<1>13. OfOthers(B) = Picked(B, L)
  BY <1>4 DEF OfOthers
<1> HIDE DEF K, L
<1>14. Picked(x, L) = Picked(B, L)
  BY <1>6, <1>11, PickedSame
<1> QED
  BY <1>1, <1>10, <1>12, <1>13, <1>14

LEMMA OutsideType ==
  ASSUME NEW S, NEW lines \in Seq(S)
  PROVE  Outside(lines) \in Seq(S \ Markers)
<1>1. OutsidePlaces(lines) \in SUBSET (1..Len(lines)) /\ Len(lines) \in Nat
  BY DEF OutsidePlaces
<1>2. \A i \in OutsidePlaces(lines) : lines[i] \in S \ Markers
  BY <1>1 DEF OutsidePlaces
<1> HIDE DEF OutsidePlaces
<1> QED
  BY <1>1, <1>2, PickedType DEF Outside

\* SetToSeq lists each element.
LEMMA ListedNames ==
  ASSUME NEW h \in SUBSET Names
  PROVE  /\ SetToSeq(h) \in Seq(h)
         /\ \A x \in h : \E i \in 1..Len(SetToSeq(h)) : SetToSeq(h)[i] = x
<1> DEFINE n == Cardinality(h)
           s == SetToSeq(h)
<1>1. IsFiniteSet(h)
  BY LinesAssumption, FS_Subset
<1>2. n \in Nat /\ ExistsBijection(1..n, h)
  BY <1>1, FS_CardinalityType
<1>3. \E f \in [1..n -> h] : IsInjective(f)
  <2>1. PICK f \in Bijection(1..n, h) : TRUE
    BY <1>2 DEF ExistsBijection
  <2> QED
    BY <2>1 DEF Bijection, Injection, IsInjective
<1>4. s \in [1..n -> h] /\ IsInjective(s)
  BY <1>3 DEF SetToSeq
<1> HIDE DEF s
<1>5. s \in Injection(1..n, h)
  BY <1>4 DEF Injection, IsInjective
<1>6. Cardinality(1..n) = n
  BY <1>2, FS_Interval
<1>7. s \in Surjection(1..n, h)
  BY <1>1, <1>5, <1>6, FS_Injection
<1>8. s \in Seq(h) /\ Len(s) = n
  BY <1>2, <1>4
<1>9. \A x \in h : \E i \in 1..n : s[i] = x
  BY <1>7 DEF Surjection
<1> QED
  BY <1>8, <1>9 DEF s

\* A block is its markers with n names between them.
IsBlock(b, h, n) ==
  /\ b \in Seq(Lines) /\ Len(b) = n + 2
  /\ b[1] = "# nsl-start" /\ b[n + 2] = "# nsl-end"
  /\ \A i \in 2..(n + 1) : b[i] \in h
  /\ \A y \in h : \E i \in 2..(n + 1) : b[i] = y

LEMMA OneLine ==
  ASSUME NEW S, NEW v \in S, NEW a, a = << v >>
  PROVE  a \in Seq(S) /\ Len(a) = 1 /\ a[1] = v
  OBVIOUS

LEMMA BlockFacts ==
  ASSUME NEW h \in SUBSET Names, NEW b, b = Block(h)
  PROVE  \E n \in Nat : IsBlock(b, h, n)
<1>1. PICK s : s = SetToSeq(h)
  OBVIOUS
<1>2. PICK n : n = Len(s)
  OBVIOUS
<1>3. s \in Seq(h) /\ \A y \in h : \E i \in 1..n : s[i] = y
  BY <1>1, <1>2, ListedNames
<1>4. s \in Seq(Lines) /\ n \in Nat /\ \A i \in 1..n : s[i] \in h
  <2>1. h \subseteq Lines
    BY DEF Lines
  <2>2. s \in Seq(Lines)
    BY <1>3, <2>1, SeqMonotonic
  <2> QED
    BY <1>2, <1>3, <2>2
<1>5. PICK a : a = << "# nsl-start" >>
  OBVIOUS
<1>6. PICK e : e = << "# nsl-end" >>
  OBVIOUS
<1>7. PICK one : one = 1
  OBVIOUS
<1>8. a \in Seq(Lines) /\ one = Len(a) /\ a[1] = "# nsl-start"
  <2>1. "# nsl-start" \in Lines
    BY DEF Lines, Markers
  <2> QED
    BY <1>5, <1>7, <2>1, OneLine
<1>9. e \in Seq(Lines) /\ one = Len(e) /\ e[1] = "# nsl-end"
  <2>1. "# nsl-end" \in Lines
    BY DEF Lines, Markers
  <2> QED
    BY <1>6, <1>7, <2>1, OneLine
<1>10. PICK t : t = a \o s
  OBVIOUS
<1>11. PICK l : l = Len(t)
  OBVIOUS
<1>12. /\ t \in Seq(Lines) /\ l = one + n
       /\ \A i \in 1..one : t[i] = a[i]
       /\ \A i \in 1..n : t[one + i] = s[i]
  <2>1. s \in Seq(Lines) /\ a \in Seq(Lines)
    BY <1>4, <1>8
  <2>2. one = Len(a)
    BY <1>8
  <2> QED
    BY <2>1, <2>2, <1>2, <1>10, <1>11, Joined
<1>13. b = t \o e
  BY <1>1, <1>5, <1>6, <1>10 DEF Block
<1>14. /\ b \in Seq(Lines) /\ Len(b) = l + one
       /\ \A i \in 1..l : b[i] = t[i]
       /\ \A i \in 1..one : b[l + i] = e[i]
  <2>1. t \in Seq(Lines) /\ e \in Seq(Lines)
    BY <1>9, <1>12
  <2>2. one = Len(e)
    BY <1>9
  <2> QED
    BY <2>1, <2>2, <1>11, <1>13, Joined
<1>15. b[1] = "# nsl-start"
  <2>1. 1 \in 1..l /\ 1 \in 1..one
    BY <1>4, <1>7, <1>12
  <2> QED
    BY <1>8, <1>12, <1>14, <2>1
<1>16. b[n + 2] = "# nsl-end"
  <2>1. n + 2 = l + 1 /\ 1 \in 1..one
    BY <1>4, <1>7, <1>12
  <2> QED
    BY <1>9, <1>14, <2>1
<1>17. \A i \in 1..n : 1 + i \in 2..(n + 1) /\ b[1 + i] = s[i]
  <2>1. \A i \in 1..n : 1 + i \in 1..l /\ 1 + i \in 2..(n + 1) /\ one + i = 1 + i
    BY <1>4, <1>7, <1>12
  <2> QED
    BY <2>1, <1>12, <1>14
<1>18. \A i \in 2..(n + 1) : b[i] \in h
  <2>1. \A i \in 2..(n + 1) : i - 1 \in 1..n /\ 1 + (i - 1) = i
    BY <1>4
  <2> QED
    BY <2>1, <1>4, <1>17
<1>19. \A y \in h : \E i \in 2..(n + 1) : b[i] = y
  BY <1>3, <1>17
<1>20. Len(b) = n + 2
  BY <1>4, <1>7, <1>12, <1>14
<1>21. IsBlock(b, h, n)
  BY <1>14, <1>15, <1>16, <1>18, <1>19, <1>20 DEF IsBlock
<1> QED
  BY <1>4, <1>21

\* Plain text of m lines with a block after it.
IsSynced(x, B, h, m, n) ==
  /\ m = Len(B) /\ x \in Seq(Lines) /\ DOMAIN x = 1..(m + n + 2)
  /\ \A i \in 1..m : x[i] = B[i] /\ x[i] \notin Markers
  /\ x[m + 1] = "# nsl-start" /\ x[m + n + 2] = "# nsl-end"
  /\ \A i \in (m + 2)..(m + n + 1) : x[i] \in h /\ x[i] \notin Markers
  /\ \A y \in h : \E i \in (m + 2)..(m + n + 1) : x[i] = y

LEMMA WithBlock ==
  ASSUME NEW B \in Plain, NEW h \in SUBSET Names, NEW x, x = B \o Block(h)
  PROVE  \E m, n \in Nat : IsSynced(x, B, h, m, n)
<1>1. PICK b : b = Block(h)
  OBVIOUS
<1>2. PICK n \in Nat : IsBlock(b, h, n)
  BY <1>1, BlockFacts
<1>3. PICK m : m = Len(B)
  OBVIOUS
<1>4. B \in Seq(Lines) /\ m \in Nat /\ \A i \in 1..m : B[i] \notin Markers
  BY <1>3, PlainFacts DEF Markers
<1>5. PICK l : l = Len(b)
  OBVIOUS
<1>6. /\ b \in Seq(Lines) /\ l = n + 2
      /\ b[1] = "# nsl-start" /\ b[n + 2] = "# nsl-end"
      /\ \A i \in 2..(n + 1) : b[i] \in h
      /\ \A y \in h : \E i \in 2..(n + 1) : b[i] = y
  BY <1>2, <1>5 DEF IsBlock
<1>7. /\ x \in Seq(Lines) /\ DOMAIN x = 1..(m + l)
      /\ \A i \in 1..m : x[i] = B[i]
      /\ \A i \in 1..l : x[m + i] = b[i]
  <2>1. x = B \o b
    BY <1>1
  <2>2. B \in Seq(Lines) /\ b \in Seq(Lines)
    BY <1>4, <1>6
  <2> QED
    BY <1>3, <1>5, <2>1, <2>2, Joined
<1>19. m \in Nat /\ n \in Nat /\ l = n + 2
  BY <1>4, <1>6
<1>8. h \cap Markers = {}
  BY LinesAssumption
<1>9. DOMAIN x = 1..(m + n + 2)
  <2>1. m + l = m + n + 2
    BY <1>19
  <2> QED
    BY <1>7, <2>1
<1>10. x[m + 1] = "# nsl-start"
  <2>1. 1 \in 1..l
    BY <1>19
  <2> QED
    BY <2>1, <1>6, <1>7
<1>11. x[m + n + 2] = "# nsl-end"
  <2>1. n + 2 \in 1..l /\ m + (n + 2) = m + n + 2
    BY <1>19
  <2>2. x[m + (n + 2)] = b[n + 2]
    BY <2>1, <1>7
  <2> QED
    BY <2>1, <2>2, <1>6
<1>12. \A i \in 2..(n + 1) : m + i \in (m + 2)..(m + n + 1) /\ x[m + i] = b[i]
  <2>1. \A i \in 2..(n + 1) : i \in 1..l /\ m + i \in (m + 2)..(m + n + 1)
    BY <1>19
  <2> QED
    BY <2>1, <1>7
<1>13. \A i \in (m + 2)..(m + n + 1) : x[i] \in h
  <2>1. \A i \in (m + 2)..(m + n + 1) : i - m \in 2..(n + 1) /\ m + (i - m) = i
    BY <1>4
  <2>2. \A i \in 2..(n + 1) : b[i] \in h /\ x[m + i] = b[i]
    BY <1>6, <1>12
  <2>3. \A i \in 2..(n + 1) : x[m + i] \in h
    BY <2>2
  <2> QED
    BY <2>1, <2>3
<1>14. ASSUME NEW y \in h PROVE \E i \in (m + 2)..(m + n + 1) : x[i] = y
  <2>1. PICK i \in 2..(n + 1) : b[i] = y
    BY <1>6
  <2>2. m + i \in (m + 2)..(m + n + 1) /\ x[m + i] = y
    BY <2>1, <1>12
  <2> QED
    BY <2>2
<1>15. \A i \in 1..m : x[i] = B[i] /\ x[i] \notin Markers
  BY <1>4, <1>7
<1>16. \A i \in (m + 2)..(m + n + 1) : x[i] \in h /\ x[i] \notin Markers
  BY <1>8, <1>13
<1>17. x \in Seq(Lines)
  BY <1>7
<1>18. IsSynced(x, B, h, m, n)
  BY <1>3, <1>9, <1>10, <1>11, <1>14, <1>15, <1>16, <1>17, Zenon DEF IsSynced
<1> QED
  BY <1>4, <1>18

\* Nothing but the plain text is outside.
LEMMA OutsideSynced ==
  ASSUME NEW B \in Plain, NEW h \in SUBSET Names, NEW x, x = B \o Block(h)
  PROVE  Outside(x) = B
<1>1. PICK m, n \in Nat : IsSynced(x, B, h, m, n)
  BY WithBlock
<1>2. /\ m = Len(B) /\ x \in Seq(Lines) /\ DOMAIN x = 1..(m + n + 2)
      /\ \A i \in 1..m : x[i] = B[i] /\ x[i] \notin Markers
  BY <1>1 DEF IsSynced
<1>3. /\ x[m + 1] = "# nsl-start" /\ x[m + n + 2] = "# nsl-end"
      /\ \A i \in (m + 2)..(m + n + 1) : x[i] \notin Markers
  BY <1>1 DEF IsSynced
<1>4. 1..m \subseteq DOMAIN x
  BY <1>2
<1>5. 1..m \subseteq OutsidePlaces(x)
  BY <1>2, <1>4, OutsideAtStart
<1>6. ASSUME NEW i \in OutsidePlaces(x) PROVE i \in 1..m
  <2>1. i \in 1..(m + n + 2) /\ x[i] \notin Markers /\ ~Inside(x, i)
    BY <1>2 DEF OutsidePlaces
  <2>2. i # m + 1 /\ i # m + n + 2
    BY <1>3, <2>1 DEF Markers
  <2>3. CASE i \in (m + 2)..(m + n + 1)
    <3>1. m + 1 \in 1..(i - 1) /\ \A k \in (m + 1)..(i - 1) : k = m + 1 \/ k \in (m + 2)..(m + n + 1)
      BY <2>3
    <3>2. \A k \in (m + 2)..(m + n + 1) : x[k] # "# nsl-end"
      BY <1>3 DEF Markers
    <3>3. x[m + 1] = "# nsl-start" /\ x[m + 1] # "# nsl-end"
      BY <1>3
    <3>4. Inside(x, i)
      BY <3>1, <3>2, <3>3 DEF Inside
    <3> QED
      BY <2>1, <3>4
  <2> QED
    BY <2>1, <2>2, <2>3
<1>7. OutsidePlaces(x) = 1..m
  BY <1>5, <1>6
<1>8. \A i \in 1..m : x[i] = B[i]
  BY <1>2
<1>9. Picked(x, 1..m) = Picked(B, 1..m)
  <2>1. 1..m \in SUBSET (1..m)
    OBVIOUS
  <2> QED
    BY <1>8, <2>1, PickedSame
<1>10. Picked(B, 1..m) = B
  <2>1. B \in Seq(Lines)
    BY PlainFacts
  <2>2. m \in 0..Len(B)
    BY <1>2
  <2>3. Picked(B, 1..m) = SubSeq(B, 1, Len(B))
    BY <1>2, <2>1, <2>2, PickedPrefix
  <2> QED
    BY <2>1, <2>3, SubSeqFull
<1> QED
  BY <1>7, <1>9, <1>10 DEF Outside

\* Each marker is there once.
LEMMA OneOfEach ==
  ASSUME NEW x, NEW v, \A i, j \in DOMAIN x : x[i] = v /\ x[j] = v => i = j
  PROVE  Cardinality({i \in DOMAIN x : x[i] = v}) <= 1
<1> DEFINE T == {i \in DOMAIN x : x[i] = v}
<1>1. CASE T = {}
  <2>1. Cardinality(T) = 0
    BY <1>1, FS_EmptySet
  <2> QED
    BY <2>1
<1>2. CASE T # {}
  <2>1. PICK i : T = {i}
    BY <1>2
  <2>2. Cardinality(T) = 1
    BY <2>1, FS_Singleton
  <2> QED
    BY <2>2
<1> QED
  BY <1>1, <1>2

OneBlockAtMost(x) == \A m \in Markers : Cardinality({i \in DOMAIN x : x[i] = m}) <= 1

LEMMA SyncedHasOneBlock ==
  ASSUME NEW B \in Plain, NEW h \in SUBSET Names, NEW x, x = B \o Block(h)
  PROVE  OneBlockAtMost(x)
<1>1. PICK m, n \in Nat : IsSynced(x, B, h, m, n)
  BY WithBlock
<1>2. /\ DOMAIN x = 1..(m + n + 2)
      /\ \A i \in 1..m : x[i] \notin Markers
      /\ x[m + 1] = "# nsl-start" /\ x[m + n + 2] = "# nsl-end"
      /\ \A i \in (m + 2)..(m + n + 1) : x[i] \notin Markers
  BY <1>1 DEF IsSynced
<1> SUFFICES ASSUME NEW v \in Markers
             PROVE  Cardinality({i \in DOMAIN x : x[i] = v}) <= 1
  BY DEF OneBlockAtMost
<1>3. \A i \in 1..(m + n + 2) : i \in 1..m \/ i = m + 1 \/ i \in (m + 2)..(m + n + 1) \/ i = m + n + 2
  OBVIOUS
<1>4. \A i \in DOMAIN x : x[i] = v => i = m + 1 \/ i = m + n + 2
  BY <1>2, <1>3
<1>5. \A i, j \in DOMAIN x : x[i] = v /\ x[j] = v => i = j
  BY <1>2, <1>4
<1> QED
  BY <1>5, OneOfEach, ZenonT(60)

LEMMA PlainHasNoBlock == ASSUME NEW x \in Plain PROVE OneBlockAtMost(x) /\ ~HasBlock(x)
<1>1. \A i \in DOMAIN x : x[i] # "# nsl-start" /\ x[i] # "# nsl-end"
  BY PlainFacts
<1>2. ~HasBlock(x)
  BY <1>1 DEF HasBlock, Ends
<1>3. ASSUME NEW v \in Markers PROVE Cardinality({i \in DOMAIN x : x[i] = v}) <= 1
  <2>1. {i \in DOMAIN x : x[i] = v} = {}
    BY <1>1 DEF Markers
  <2> QED
    BY <2>1, FS_EmptySet
<1> QED
  BY <1>2, <1>3 DEF OneBlockAtMost

\* Without an end marker no name is managed.
LEMMA ManagedNone == ASSUME NEW x, ~HasBlock(x) PROVE ManagedHostnames(x) = {}
<1>1. {j \in DOMAIN x : InBlock(x, j)} = {}
  BY DEF InBlock
<1> QED
  BY <1>1 DEF ManagedHostnames

LEMMA ManagedSynced ==
  ASSUME NEW B \in Plain, NEW h \in SUBSET Names, NEW x, x = B \o Block(h)
  PROVE  ManagedHostnames(x) = h
<1>1. PICK m, n \in Nat : IsSynced(x, B, h, m, n)
  BY WithBlock
<1>2. /\ DOMAIN x = 1..(m + n + 2)
      /\ \A i \in 1..m : x[i] \notin Markers
      /\ x[m + 1] = "# nsl-start" /\ x[m + n + 2] = "# nsl-end"
      /\ \A i \in (m + 2)..(m + n + 1) : x[i] \in h /\ x[i] \notin Markers
      /\ \A y \in h : \E i \in (m + 2)..(m + n + 1) : x[i] = y
  BY <1>1 DEF IsSynced
<1>3. \A i \in 1..(m + n + 2) : i \in 1..m \/ i = m + 1 \/ i \in (m + 2)..(m + n + 1) \/ i = m + n + 2
  OBVIOUS
<1>4. Ends(x) = {m + n + 2}
  <2>1. m + n + 2 \in Ends(x)
    <3>1. m + n + 2 \in 1..(m + n + 2)
      OBVIOUS
    <3>2. m + n + 2 \in DOMAIN x
      BY <3>1, <1>2
    <3> QED
      BY <3>2, <1>2 DEF Ends
  <2>2. \A i \in Ends(x) : i = m + n + 2
    BY <1>2, <1>3 DEF Ends, Markers
  <2> QED
    BY <2>1, <2>2
<1>5. HasBlock(x) /\ FirstEnd(x) = m + n + 2
  BY <1>4 DEF HasBlock, FirstEnd
<1>6. \A i \in (m + 2)..(m + n + 1) : i \in DOMAIN x /\ InBlock(x, i)
  <2>1. \A i \in (m + 2)..(m + n + 1) : i \in 1..(m + n + 2) /\ i < m + n + 2 /\ m + 1 \in 1..(i - 1)
    OBVIOUS
  <2> QED
    BY <2>1, <1>2, <1>5 DEF InBlock
<1>7. \A i \in DOMAIN x : InBlock(x, i) => i \in (m + 2)..(m + n + 1)
  <2> SUFFICES ASSUME NEW i \in DOMAIN x, InBlock(x, i) PROVE i \in (m + 2)..(m + n + 1)
    OBVIOUS
  <2>1. i \in 1..(m + n + 2) /\ i < m + n + 2
    BY <1>2, <1>5 DEF InBlock
  <2>2. PICK j \in 1..(i - 1) : x[j] = "# nsl-start"
    BY DEF InBlock
  <2>3. j \notin 1..m
    BY <1>2, <2>2 DEF Markers
  <2>4. j \in Nat /\ j >= 1 /\ j < i
    BY <2>1
  <2>5. j > m
    BY <2>3, <2>4
  <2> QED
    BY <2>1, <2>4, <2>5
<1>8. h \subseteq Names
  OBVIOUS
<1>9. ASSUME NEW y \in ManagedHostnames(x) PROVE y \in h
  <2>1. PICK i \in DOMAIN x : InBlock(x, i) /\ y = x[i]
    BY DEF ManagedHostnames
  <2> QED
    BY <2>1, <1>2, <1>7
<1>10. ASSUME NEW y \in h PROVE y \in ManagedHostnames(x)
  <2>1. PICK i \in (m + 2)..(m + n + 1) : x[i] = y
    BY <1>2
  <2>2. i \in DOMAIN x /\ InBlock(x, i)
    BY <2>1, <1>6
  <2> QED
    BY <2>1, <2>2, <1>8 DEF ManagedHostnames
<1> QED
  BY <1>9, <1>10

-------------------------------------------------------------------------------
(* Inodes                                                                   *)

\* An inode is free when one of the two names leads to none.
LEMMA FreeInodeThere ==
  ASSUME fd \in [Commands -> Inodes \cup {NoFile}], NoFile \in {hosts, tmp}
  PROVE  /\ FreeInode \in Inodes /\ FreeInode # NoFile
         /\ FreeInode # hosts /\ FreeInode # tmp
         /\ \A c \in Commands : FreeInode # fd[c]
<1> DEFINE opened == {fd[c] : c \in Commands}
           T == {hosts, tmp} \cup opened
           n == Cardinality(Commands)
           U == Inodes \cup {NoFile}
<1>1. IsFiniteSet(Commands) /\ n \in Nat
  BY InodesSuffice, FS_CardinalityType
<1>2. IsFiniteSet(opened) /\ Cardinality(opened) <= n
  <2>1. fd \in Surjection(Commands, opened)
    BY DEF Surjection
  <2> QED
    BY <2>1, <1>1, FS_Surjection
<1>3. IsFiniteSet({hosts, tmp}) /\ Cardinality({hosts, tmp}) <= 2
  <2>1. IsFiniteSet({}) /\ Cardinality({}) = 0
    BY FS_EmptySet
  <2>2. IsFiniteSet({hosts}) /\ Cardinality({hosts}) = 1
    BY FS_Singleton
  <2>3. {hosts, tmp} = {hosts} \cup {tmp}
    OBVIOUS
  <2>4. /\ IsFiniteSet({hosts} \cup {tmp})
        /\ Cardinality({hosts} \cup {tmp})
             = IF tmp \in {hosts} THEN Cardinality({hosts}) ELSE Cardinality({hosts}) + 1
    BY <2>2, FS_AddElement
  <2> QED
    BY <2>2, <2>3, <2>4
<1>4. IsFiniteSet(T) /\ Cardinality(T) <= 2 + n
  <2>1. IsFiniteSet({hosts, tmp} \cap opened)
    BY <1>2, FS_Subset
  <2>2. /\ Cardinality(opened) \in Nat /\ Cardinality({hosts, tmp}) \in Nat
        /\ Cardinality({hosts, tmp} \cap opened) \in Nat
    BY <1>2, <1>3, <2>1, FS_CardinalityType
  <2>3. /\ IsFiniteSet(T)
        /\ Cardinality(T) = Cardinality({hosts, tmp}) + Cardinality(opened)
                              - Cardinality({hosts, tmp} \cap opened)
    BY <1>2, <1>3, FS_Union
  <2> QED
    BY <1>1, <1>2, <1>3, <2>2, <2>3
<1>5. IsFiniteSet(U) /\ Cardinality(U) = 3 + n
  <2>1. NoFile \notin Inodes /\ IsFiniteSet(Inodes) /\ Cardinality(Inodes) = 2 + n
    BY InodesSuffice
  <2>2. Cardinality(U) = Cardinality(Inodes) + 1 /\ IsFiniteSet(U)
    BY <2>1, FS_AddElement
  <2> QED
    BY <2>1, <2>2, <1>1
<1>6. \E i \in Inodes : i \notin T
  <2>1. SUFFICES ASSUME Inodes \subseteq T PROVE FALSE
    OBVIOUS
  <2>2. U \in SUBSET T
    BY <2>1
  <2>3. Cardinality(U) <= Cardinality(T) /\ Cardinality(T) \in Nat
    BY <2>2, <1>4, FS_Subset, FS_CardinalityType
  <2> QED
    BY <2>3, <1>1, <1>4, <1>5
<1>7. FreeInode \in Inodes /\ FreeInode \notin T
  BY <1>6 DEF FreeInode
<1>8. NoFile \notin Inodes
  BY InodesSuffice
<1> QED
  BY <1>7, <1>8

-------------------------------------------------------------------------------
(* What is left of two writings                                             *)

LEMMA CommonPrefixFacts ==
  ASSUME NEW S, NEW a \in Seq(S), NEW b \in Seq(S), NEW n, n = CommonPrefix(a, b)
  PROVE  /\ n \in 0..Len(a) /\ n <= Len(b)
         /\ \A i \in 1..n : a[i] = b[i]
         /\ \A m \in 0..Len(a) : m <= Len(b) /\ (\A i \in 1..m : a[i] = b[i]) => m <= n
<1> DEFINE same == {m \in 0..Len(a) : m <= Len(b) /\ \A i \in 1..m : a[i] = b[i]}
<1>1. Len(a) \in Nat /\ Len(b) \in Nat
  OBVIOUS
<1>2. 0 \in same
  BY <1>1
<1>3. \E k \in same : \A m \in same : m <= k
  <2>1. CASE same \ {0} = {}
    <3> HIDE DEF same
    <3>1. \A m \in same : m = 0
      BY <2>1
    <3>2. \A m \in same : m <= 0
      BY <3>1
    <3> QED
      BY <3>2, <1>2
  <2>2. CASE same \ {0} # {}
    <3>1. same \ {0} \in SUBSET (1..Len(a))
      BY <1>1
    <3>2. PICK k \in same \ {0} : \A m \in same \ {0} : m <= k
      <4> HIDE DEF same
      <4> QED
        BY <3>1, <2>2, <1>1, Greatest
    <3>3. k \in Nat
      BY <1>1
    <3> QED
      BY <3>2, <3>3
  <2> QED
    BY <2>1, <2>2
<1>4. n = CHOOSE k \in same : \A m \in same : m <= k
  BY DEF CommonPrefix
<1>5. n \in same /\ \A m \in same : m <= n
  <2> HIDE DEF same
  <2> QED
    BY <1>3, <1>4
<1> QED
  BY <1>5

\* What is written, and after it what another had written beyond the common lines.
LEMMA WrittenOver ==
  ASSUME NEW old \in Seq(Lines), NEW new \in Seq(Lines), NEW x \in Overwritten(old, new)
  PROVE  \/ x = new
         \/ /\ old # << >>
            /\ \E torn \in {<< >>, << "garbage" >>}, k \in 1..Len(old) :
                 CommonPrefix(new, old) < k /\ x = new \o torn \o SubSeq(old, k, Len(old))
<1>1. CommonPrefix(new, old) \in Nat
  BY CommonPrefixFacts
<1>2. Len(old) \in Nat
  OBVIOUS
<1>3. CASE x = new
  BY <1>3
<1>4. CASE x # new
  <2> DEFINE top == IF old = << >> THEN 0 ELSE Len(old)
             K == (CommonPrefix(new, old) + 1)..top
             Text(torn, k) == new \o torn \o SubSeq(old, k, Len(old))
             Torn == {<< >>, << "garbage" >>}
  <2>a. Overwritten(old, new) = {new} \cup {Text(torn, k) : torn \in Torn, k \in K}
    BY DEF Overwritten
  <2>1. PICK torn \in Torn, k \in K : x = Text(torn, k)
    <3> HIDE DEF K, Text, Torn
    <3> QED
      BY <2>a, <1>4
  <2>2. old # << >>
    BY <2>1, <1>1
  <2>3. k \in 1..Len(old) /\ CommonPrefix(new, old) < k
    BY <2>1, <2>2, <1>1, <1>2
  <2> QED
    BY <2>1, <2>2, <2>3
<1> QED
  BY <1>3, <1>4

\* A file that was truncated and not written to holds what is written.
LEMMA WrittenToNothing ==
  ASSUME NEW new \in Seq(Lines) PROVE Overwritten(<< >>, new) = {new}
<1>1. << >> \in Seq(Lines)
  OBVIOUS
<1>2. \A x \in Overwritten(<< >>, new) : x = new
  BY <1>1, WrittenOver
<1>3. new \in Overwritten(<< >>, new)
  BY DEF Overwritten
<1> QED
  BY <1>2, <1>3

LEMMA Widened == ASSUME NEW S, NEW T, S \subseteq T, NEW z \in Seq(S) PROVE z \in Seq(T)
  OBVIOUS

LEMMA TornLine ==
  ASSUME NEW torn \in {<< >>, << "garbage" >>} PROVE torn \in Seq(Lines \ Foreign)
<1>1. "garbage" \in Lines \ Foreign
  BY LinesAssumption DEF Lines
<1>2. << "garbage" >> \in Seq(Lines \ Foreign)
  BY <1>1, OneLine
<1>3. << >> \in Seq(Lines \ Foreign)
  OBVIOUS
<1> QED
  BY <1>2, <1>3

LEMMA WrittenType ==
  ASSUME NEW old \in Seq(Lines), NEW new \in Seq(Lines)
  PROVE  Overwritten(old, new) \subseteq Seq(Lines)
<1> SUFFICES ASSUME NEW x \in Overwritten(old, new) PROVE x \in Seq(Lines)
  OBVIOUS
<1>1. CASE x = new
  BY <1>1
<1>2. CASE x # new
  <2>1. PICK torn \in {<< >>, << "garbage" >>}, k \in 1..Len(old) :
          x = new \o torn \o SubSeq(old, k, Len(old))
    BY <1>2, WrittenOver, ZenonT(60)
  <2>2. torn \in Seq(Lines)
    <3>1. torn \in Seq(Lines \ Foreign)
      BY TornLine
    <3>2. Lines \ Foreign \subseteq Lines
      OBVIOUS
    <3> QED
      BY <3>1, <3>2, Widened
  <2>3. Len(old) \in Nat
    OBVIOUS
  <2>4. k \in 1..(Len(old) + 1) /\ Len(old) \in 0..Len(old)
    BY <2>3
  <2>5. SubSeq(old, k, Len(old)) \in Seq(Lines)
    BY <2>3, <2>4
  <2>6. new \o torn \in Seq(Lines)
    BY <2>2
  <2> QED
    BY <2>1, <2>5, <2>6
<1> QED
  BY <1>1, <1>2

LEMMA Associative ==
  ASSUME NEW a \in Seq(Lines), NEW b \in Seq(Lines), NEW c \in Seq(Lines)
  PROVE  (a \o b) \o c = a \o (b \o c)
  BY ConcatAssociative

\* x is B and lines after it that no other has written.
Starts(x, B) == \E z \in Seq(Lines \ Foreign) : x = B \o z

\* Two such texts, one written over the other, are such a text.
LEMMA WrittenStarts ==
  ASSUME NEW B \in Plain, NEW old, NEW new, Starts(old, B), Starts(new, B),
         NEW x \in Overwritten(old, new)
  PROVE  Starts(x, B)
<1>0. PICK m : m = Len(B)
  OBVIOUS
<1>1. PICK z \in Seq(Lines \ Foreign) : new = B \o z
  BY DEF Starts
<1>2. PICK y \in Seq(Lines \ Foreign) : old = B \o y
  BY DEF Starts
<1>3. B \in Seq(Lines) /\ z \in Seq(Lines) /\ y \in Seq(Lines)
  <2>1. Lines \ Foreign \subseteq Lines
    OBVIOUS
  <2> QED
    BY <2>1, PlainFacts, Widened
<1>4. PICK n, l : n = Len(z) /\ l = Len(y)
  OBVIOUS
<1>5. /\ new \in Seq(Lines) /\ Len(new) = m + n /\ m \in Nat /\ n \in Nat
      /\ \A i \in 1..m : new[i] = B[i]
  BY <1>0, <1>1, <1>3, <1>4, Joined
<1>6. /\ old \in Seq(Lines) /\ Len(old) = m + l /\ l \in Nat
      /\ \A i \in 1..m : old[i] = B[i]
      /\ \A i \in 1..(m + l) : i \in 1..m \/ (i - m \in 1..l /\ old[i] = y[i - m])
  BY <1>0, <1>2, <1>3, <1>4, Joined
<1>7. CASE x = new
  BY <1>7
<1>8. CASE x # new
  <2>1. PICK torn \in {<< >>, << "garbage" >>}, k \in 1..Len(old) :
          CommonPrefix(new, old) < k /\ x = new \o torn \o SubSeq(old, k, Len(old))
    BY <1>5, <1>6, <1>8, WrittenOver
  <2>2. m <= CommonPrefix(new, old) /\ CommonPrefix(new, old) \in Nat
    <3>1. PICK p : p = CommonPrefix(new, old)
      OBVIOUS
    <3>2. /\ p \in 0..Len(new)
          /\ \A q \in 0..Len(new) : q <= Len(old) /\ (\A i \in 1..q : new[i] = old[i]) => q <= p
      BY <3>1, <1>5, <1>6, CommonPrefixFacts
    <3>3. m \in 0..Len(new) /\ m <= Len(old)
      BY <1>5, <1>6
    <3>4. \A i \in 1..m : new[i] = old[i]
      BY <1>5, <1>6
    <3> QED
      BY <3>1, <3>2, <3>3, <3>4, <1>5
  <2>3. k \in Nat /\ k > m /\ k <= m + l
    BY <2>1, <2>2, <1>5, <1>6
  <2> DEFINE t == SubSeq(old, k, Len(old))
  <2>4. t \in Seq(Lines \ Foreign)
    <3>1. /\ t \in Seq(Lines) /\ Len(t) = (m + l) - k + 1
          /\ \A i \in 1..((m + l) - k + 1) : t[i] = old[k + i - 1]
      <4>1. k \in Int /\ m + l \in Int /\ k <= m + l /\ Len(old) = m + l
        BY <2>3, <1>5, <1>6
      <4>2. \A i \in k..(m + l) : i \in 1..Len(old)
        BY <2>3, <1>5, <1>6
      <4>3. \A i \in k..(m + l) : old[i] \in Lines
        BY <4>2, <1>6
      <4>4. /\ SubSeq(old, k, m + l) \in Seq(Lines)
            /\ Len(SubSeq(old, k, m + l)) = (m + l) - k + 1
            /\ \A i \in 1..((m + l) - k + 1) : SubSeq(old, k, m + l)[i] = old[k + i - 1]
        BY <4>1, <4>3, SubSeqProperties
      <4> QED
        BY <4>1, <4>4
    <3>2. \A i \in 1..((m + l) - k + 1) : t[i] \in Lines \ Foreign
      <4> SUFFICES ASSUME NEW i \in 1..((m + l) - k + 1) PROVE old[k + i - 1] \in Lines \ Foreign
        BY <3>1
      <4>1. PICK j : j = k + i - 1
        OBVIOUS
      <4>2. j \in 1..(m + l) /\ j \notin 1..m
        <5>1. /\ k \in Nat /\ k > m /\ k <= m + l /\ m \in Nat /\ l \in Nat
              /\ i \in 1..((m + l) - k + 1)
          BY <2>3, <1>5, <1>6
        <5> QED
          BY ONLY <4>1, <5>1
      <4>3. j - m \in 1..l /\ old[j] = y[j - m]
        BY <4>2, <1>6
      <4>4. y[j - m] \in Lines \ Foreign
        BY <4>3, <1>4
      <4> QED
        BY <4>1, <4>3, <4>4
    <3> HIDE DEF t
    <3> QED
      BY <3>1, <3>2
  <2>5. torn \in Seq(Lines \ Foreign)
    BY TornLine
  <2>6. torn \in Seq(Lines) /\ t \in Seq(Lines)
    <3> HIDE DEF t
    <3>1. Lines \ Foreign \subseteq Lines
      OBVIOUS
    <3> QED
      BY <3>1, <2>4, <2>5, Widened
  <2>7. x = B \o (z \o torn \o t)
    <3>1. x = ((B \o z) \o torn) \o t
      BY <2>1, <1>1
    <3> HIDE DEF t
    <3>2. z \o torn \in Seq(Lines)
      BY <1>3, <2>6
    <3>3. (B \o z) \o torn = B \o (z \o torn)
      BY <1>3, <2>6, Associative, SMTT(30)
    <3>4. (B \o (z \o torn)) \o t = B \o ((z \o torn) \o t)
      BY <1>3, <2>6, <3>2, Associative, ZenonT(60)
    <3> QED
      BY <3>1, <3>3, <3>4
  <2>8. z \o torn \o t \in Seq(Lines \ Foreign)
    <3> HIDE DEF t
    <3> QED
      BY <2>4, <2>5
  <2> QED
    BY <2>7, <2>8 DEF Starts
<1> QED
  BY <1>7, <1>8

-------------------------------------------------------------------------------
(* Types                                                                    *)

TypeInv == TypeOK /\ crowd <= begun

LEMMA FileType == ASSUME TypeOK PROVE File \in Seq(Lines)
<1>1. << >> \in Seq(Lines)
  OBVIOUS
<1> QED
  BY <1>1 DEF File, TypeOK

LEMMA RemovedType ==
  ASSUME NEW x \in Seq(Lines)
  PROVE  RemoveBlock(x) = Outside(x) /\ RemoveBlock(x) \in Plain
  BY RemovesTheBlock, OutsideType DEF Plain

LEMMA BlockType == ASSUME NEW h \in SUBSET Names PROVE Block(h) \in Seq(Lines)
<1>1. PICK n \in Nat : IsBlock(Block(h), h, n)
  BY BlockFacts
<1> QED
  BY <1>1 DEF IsBlock

LEMMA SyncedText ==
  ASSUME NEW x \in Seq(Lines), NEW h \in SUBSET Names
  PROVE  /\ TrimEnd(Outside(x)) \in Plain
         /\ Synced(x, h) = TrimEnd(Outside(x)) \o Block(h)
         /\ Synced(x, h) \in Seq(Lines)
<1>1. RemoveBlock(x) = Outside(x) /\ Outside(x) \in Seq(Lines \ Markers)
  BY RemovedType DEF Plain
<1>2. TrimEnd(Outside(x)) \in Plain
  BY <1>1, TrimSplit DEF Plain
<1>3. TrimEnd(Outside(x)) \in Seq(Lines) /\ Block(h) \in Seq(Lines)
  BY <1>2, PlainFacts, BlockType
<1>4. TrimEnd(Outside(x)) \o Block(h) \in Seq(Lines)
  BY <1>3
<1> QED
  BY <1>1, <1>2, <1>4 DEF Synced

LEMMA NothingOutside == Outside(<< >>) = << >> /\ TrimEnd(<< >>) = << >>
<1>1. << >> \in Plain
  BY DEF Plain
<1>2. Trimmed(<< >>)
  BY DEF Trimmed
<1>3. << >> \in Seq(Lines)
  OBVIOUS
<1> QED
  BY <1>1, <1>2, <1>3, OutsidePlain, TrimTrimmed

\* The files that nsl may find.
LEMMA FilesFound ==
  ASSUME Init
  PROVE  /\ File \in Seq(Lines \ {"garbage"})
         /\ foreign = TrimEnd(Outside(File))
         /\ OneBlockAtMost(File)
<1>1. PICK file \in Initial, i \in Inodes :
        /\ hosts = IF file = NoFile THEN NoFile ELSE i
        /\ data = [j \in Inodes |-> IF j = i /\ file # NoFile THEN file ELSE << >>]
        /\ foreign = IF file = NoFile THEN << >> ELSE TrimEnd(Outside(file))
  BY DEF Init
<1>2. NoFile \notin Inodes
  BY InodesSuffice
<1>3. CASE file = NoFile
  <2>1. File = << >> /\ foreign = << >>
    BY <1>1, <1>3 DEF File
  <2>2. << >> \in Seq(Lines \ {"garbage"}) /\ << >> \in Plain
    BY DEF Plain
  <2> QED
    BY <2>1, <2>2, NothingOutside, PlainHasNoBlock
<1>4. CASE file # NoFile
  <2>1. hosts = i /\ hosts # NoFile /\ data[i] = file
    BY <1>1, <1>2, <1>4
  <2>2. File = file
    BY <2>1 DEF File
  <2>3. file \in Seq(Lines \ {"garbage"}) /\ OneBlockAtMost(file)
    BY <1>4, InitialAssumption DEF OneBlockAtMost
  <2> QED
    BY <1>1, <1>4, <2>2, <2>3
<1> QED
  BY <1>3, <1>4

LEMMA TypeInit == ASSUME Init PROVE TypeInv
<1>1. PICK file \in Initial, i \in Inodes :
        /\ hosts = IF file = NoFile THEN NoFile ELSE i
        /\ data = [j \in Inodes |-> IF j = i /\ file # NoFile THEN file ELSE << >>]
  BY DEF Init
<1>2. \A file_1 \in Initial \ {NoFile} : file_1 \in Seq(Lines)
  <2>1. Lines \ {"garbage"} \subseteq Lines
    OBVIOUS
  <2> QED
    BY <2>1, InitialAssumption, Widened
<1>3. << >> \in Seq(Lines)
  OBVIOUS
<1>4. data \in [Inodes -> Seq(Lines)]
  BY <1>1, <1>2, <1>3
<1>5. {hosts, tmp} \subseteq Inodes \cup {NoFile} /\ (hosts = tmp => hosts = NoFile)
  BY <1>1 DEF Init
<1>6. foreign \in Seq(Lines)
  <2>1. PICK S : S = Lines \ {"garbage"}
    OBVIOUS
  <2>2. File \in Seq(S) /\ foreign = TrimEnd(Outside(File))
    BY <2>1, FilesFound
  <2>3. Outside(File) \in Seq(S \ Markers)
    BY <2>2, OutsideType
  <2>4. foreign \in Seq(S \ Markers)
    BY <2>2, <2>3, TrimSplit
  <2>5. S \ Markers \subseteq Lines
    BY <2>1
  <2> QED
    BY <2>4, <2>5, Widened
<1>7. /\ alone \subseteq Commands /\ {begun, crowd} \subseteq 0..MaxBegun /\ crowd <= begun
      /\ {crowded, overlapped, stopped, refused} \subseteq BOOLEAN
  <2>1. 0 \in 0..MaxBegun
    BY MaxBegunAssumption
  <2>2. begun = 0 /\ crowd = 0 /\ alone = {}
    BY DEF Init
  <2>3. {crowded, overlapped, stopped, refused} \subseteq BOOLEAN
    BY DEF Init
  <2>4. {begun, crowd} \subseteq 0..MaxBegun /\ crowd <= begun
    BY <2>1, <2>2
  <2> QED
    BY <2>2, <2>3, <2>4
<1>8. NoFile \notin Inodes
  BY InodesSuffice
<1>9. /\ pc \in [Commands -> {"idle"}] /\ op \in [Commands -> {"sync", "clean"}]
      /\ wants \in [Commands -> SUBSET Names] /\ content \in [Commands -> Seq(Lines)]
      /\ fd \in [Commands -> Inodes \cup {NoFile}]
      /\ \A c \in Commands : fd[c] = NoFile /\ pc[c] = "idle"
  BY <1>3 DEF Init
<1>10. pc \in [Commands -> Resting \cup {"read", "openTmp", "writeTmp", "rename",
                                      "removeTmp", "openHosts", "writeHosts"}]
  BY <1>9 DEF Resting
<1> QED
  BY <1>4, <1>5, <1>6, <1>7, <1>9, <1>10 DEF TypeInv, TypeOK

Labels == Resting \cup {"read", "openTmp", "writeTmp", "rename",
                        "removeTmp", "openHosts", "writeHosts"}

\* The histories of a command that begins.
LEMMA BegunType ==
  ASSUME TypeInv, NEW c \in Commands, Begun(c)
  PROVE  /\ foreign' \in Seq(Lines) /\ alone' \subseteq Commands
         /\ {begun, crowd}' \subseteq 0..MaxBegun /\ (crowd <= begun)'
         /\ {crowded, overlapped, stopped, refused}' \subseteq BOOLEAN
<1> DEFINE others == {d \in Commands \ {c} : pc[d] \notin Resting}
           n == IF others = {} THEN 1 ELSE crowd + 1
<1>1. /\ alone' = IF others = {} THEN alone \cup {c} ELSE alone \ (others \cup {c})
      /\ overlapped' = (overlapped \/ others # {})
      /\ begun < MaxBegun /\ begun' = begun + 1 /\ crowd' = n
      /\ crowded' = (crowded \/ n >= 3)
      /\ foreign' = foreign /\ stopped' = stopped /\ refused' = refused
  BY DEF Begun
<1>2. /\ begun \in 0..MaxBegun /\ crowd \in 0..MaxBegun /\ crowd <= begun
      /\ foreign \in Seq(Lines) /\ alone \subseteq Commands
      /\ {crowded, overlapped, stopped, refused} \subseteq BOOLEAN
  BY DEF TypeInv, TypeOK
<1>3. n \in 0..MaxBegun /\ n <= begun + 1 /\ begun + 1 \in 0..MaxBegun
  BY <1>1, <1>2, MaxBegunAssumption
<1>4. crowded' \in BOOLEAN /\ overlapped' \in BOOLEAN
  BY <1>1, <1>2
<1>5. alone' \subseteq Commands
  BY <1>1, <1>2
<1> QED
  <2> HIDE DEF n, others
  <2> QED
    BY <1>1, <1>2, <1>3, <1>4, <1>5

\* Steps that leave the files alone.
LEMMA BeginType ==
  ASSUME TypeInv, NEW c \in Commands, pc[c] \in Resting, Begun(c), Goto(c, "read"),
         NEW o \in {"sync", "clean"}, NEW h \in SUBSET Names,
         op' = [op EXCEPT ![c] = o], wants' = [wants EXCEPT ![c] = h],
         UNCHANGED <<hosts, tmp, data, content, fd>>
  PROVE  TypeInv'
<1>1. pc' \in [Commands -> Labels] /\ op' \in [Commands -> {"sync", "clean"}]
  BY DEF TypeInv, TypeOK, Goto, Labels
<1>2. wants' \in [Commands -> SUBSET Names]
  BY DEF TypeInv, TypeOK
<1>3. \A d \in Commands : (fd'[d] # NoFile) <=> (pc'[d] \in {"writeTmp", "writeHosts"})
  BY DEF TypeInv, TypeOK, Goto, Resting
<1> QED
  BY <1>1, <1>2, <1>3, BegunType DEF TypeInv, TypeOK, Labels

\* The other steps change where a command is, the files and what it has open.
LEMMA WorkType ==
  ASSUME TypeInv, NEW c \in Commands, NEW l \in Labels, Goto(c, l),
         {hosts, tmp}' \subseteq Inodes \cup {NoFile}, (hosts = tmp => hosts = NoFile)',
         data' \in [Inodes -> Seq(Lines)], content' \in [Commands -> Seq(Lines)],
         fd' \in [Commands -> Inodes \cup {NoFile}],
         (fd'[c] # NoFile) <=> (l \in {"writeTmp", "writeHosts"}),
         \A d \in Commands \ {c} : fd'[d] = fd[d],
         op' \in [Commands -> {"sync", "clean"}], wants' \in [Commands -> SUBSET Names],
         UNCHANGED <<foreign, alone, begun, crowd>>,
         {crowded, overlapped, stopped, refused}' \subseteq BOOLEAN
  PROVE  TypeInv'
<1>1. pc' \in [Commands -> Labels]
  BY DEF TypeInv, TypeOK, Goto, Labels
<1>2. \A d \in Commands : (fd'[d] # NoFile) <=> (pc'[d] \in {"writeTmp", "writeHosts"})
  <2> SUFFICES ASSUME NEW d \in Commands
               PROVE  (fd'[d] # NoFile) <=> (pc'[d] \in {"writeTmp", "writeHosts"})
    OBVIOUS
  <2>1. CASE d = c
    BY <2>1 DEF TypeInv, TypeOK, Goto
  <2>2. CASE d # c
    BY <2>2 DEF TypeInv, TypeOK, Goto
  <2> QED
    BY <2>1, <2>2
<1> QED
  BY <1>1, <1>2 DEF TypeInv, TypeOK, Labels

LEMMA OpenType ==
  ASSUME TypeInv, NEW c \in Commands, NEW at \in Inodes, Open(c, at)
  PROVE  /\ data' \in [Inodes -> Seq(Lines)] /\ fd' \in [Commands -> Inodes \cup {NoFile}]
         /\ fd'[c] = at /\ fd'[c] # NoFile /\ \A d \in Commands \ {c} : fd'[d] = fd[d]
<1>1. << >> \in Seq(Lines) /\ NoFile \notin Inodes
  BY InodesSuffice
<1> QED
  BY <1>1 DEF TypeInv, TypeOK, Open

LEMMA WriteOpenedType ==
  ASSUME TypeInv, NEW c \in Commands, pc[c] \in {"writeTmp", "writeHosts"}, WriteOpened(c)
  PROVE  /\ data' \in [Inodes -> Seq(Lines)] /\ fd' \in [Commands -> Inodes \cup {NoFile}]
         /\ fd'[c] = NoFile /\ \A d \in Commands \ {c} : fd'[d] = fd[d]
<1>1. fd[c] \in Inodes /\ fd \in [Commands -> Inodes \cup {NoFile}]
  BY DEF TypeInv, TypeOK
<1>2. data[fd[c]] \in Seq(Lines) /\ content[c] \in Seq(Lines)
  BY <1>1 DEF TypeInv, TypeOK
<1>3. Overwritten(data[fd[c]], content[c]) \subseteq Seq(Lines)
  BY <1>2, WrittenType
<1>4. PICK d \in Seq(Lines) : data' = [data EXCEPT ![fd[c]] = d]
  BY <1>3 DEF WriteOpened
<1>5. data' \in [Inodes -> Seq(Lines)]
  BY <1>4 DEF TypeInv, TypeOK
<1> QED
  BY <1>1, <1>5 DEF WriteOpened

LEMMA TypeStep == ASSUME TypeInv, [Next]_vars PROVE TypeInv'
<1>0. /\ {hosts, tmp} \subseteq Inodes \cup {NoFile} /\ (hosts = tmp => hosts = NoFile)
      /\ data \in [Inodes -> Seq(Lines)] /\ content \in [Commands -> Seq(Lines)]
      /\ fd \in [Commands -> Inodes \cup {NoFile}]
      /\ op \in [Commands -> {"sync", "clean"}] /\ wants \in [Commands -> SUBSET Names]
      /\ \A d \in Commands : (fd[d] # NoFile) <=> (pc[d] \in {"writeTmp", "writeHosts"})
      /\ {crowded, overlapped, stopped, refused} \subseteq BOOLEAN
  BY DEF TypeInv, TypeOK
<1>F. NoFile \notin Inodes
  BY InodesSuffice
<1>G. ASSUME NEW c \in Commands, Forget(c)
      PROVE  /\ content' \in [Commands -> Seq(Lines)] /\ op' \in [Commands -> {"sync", "clean"}]
             /\ wants' \in [Commands -> SUBSET Names]
  <2>1. << >> \in Seq(Lines)
    OBVIOUS
  <2> QED
    BY <1>0, <1>G, <2>1 DEF Forget
<1>1. ASSUME NEW c \in Commands, NEW names \in SUBSET Names, BeginSync(c, names) PROVE TypeInv'
  BY <1>1, BeginType DEF BeginSync
<1>2. ASSUME NEW c \in Commands, BeginClean(c) PROVE TypeInv'
  <2>1. {} \in SUBSET Names
    OBVIOUS
  <2> QED
    BY <1>2, <2>1, BeginType DEF BeginClean
<1>3. ASSUME NEW c \in Commands, ReadForSync(c) PROVE TypeInv'
  <2>1. Synced(File, wants[c]) \in Seq(Lines)
    BY <1>0, FileType, SyncedText DEF TypeInv
  <2>2. content' \in [Commands -> Seq(Lines)]
    BY <1>0, <1>3, <2>1 DEF ReadForSync
  <2>3. fd'[c] = NoFile
    BY <1>0, <1>3 DEF ReadForSync
  <2> QED
    BY <1>0, <1>3, <2>2, <2>3, WorkType DEF ReadForSync, Labels, history
<1>4. ASSUME NEW c \in Commands, ReadForClean(c) PROVE TypeInv'
  <2>1. fd'[c] = NoFile /\ fd' = fd /\ pc[c] = "read"
    BY <1>0, <1>4 DEF ReadForClean
  <2>2. UNCHANGED <<hosts, tmp, data, history>>
    BY <1>4 DEF ReadForClean
  <2>3. CASE Goto(c, "done") /\ Forget(c)
    BY <1>0, <1>G, <2>1, <2>2, <2>3, WorkType DEF Labels, Resting, history
  <2>4. CASE /\ content' = [content EXCEPT ![c] = RemoveBlock(File)]
             /\ Goto(c, "openTmp") /\ UNCHANGED <<op, wants>>
    <3>1. RemoveBlock(File) \in Seq(Lines)
      BY FileType, RemovedType, PlainFacts DEF TypeInv
    <3>2. content' \in [Commands -> Seq(Lines)]
      BY <1>0, <2>4, <3>1
    <3> QED
      BY <1>0, <2>1, <2>2, <2>4, <3>2, WorkType DEF Labels, history
  <2> QED
    BY <1>4, <2>3, <2>4 DEF ReadForClean
<1>5. ASSUME NEW c \in Commands, OpenTmp(c) PROVE TypeInv'
  <2> DEFINE at == IF tmp = NoFile THEN FreeInode ELSE tmp
  <2>1. Open(c, at) /\ tmp' = at /\ hosts' = hosts
    BY <1>5 DEF OpenTmp
  <2>2. at \in Inodes /\ at # hosts
    BY <1>0, FreeInodeThere
  <2>3. UNCHANGED <<op, wants, content, history>> /\ Goto(c, "writeTmp")
    BY <1>5 DEF OpenTmp
  <2> HIDE DEF at
  <2>4. /\ data' \in [Inodes -> Seq(Lines)] /\ fd' \in [Commands -> Inodes \cup {NoFile}]
        /\ fd'[c] # NoFile /\ \A d \in Commands \ {c} : fd'[d] = fd[d]
    BY <2>1, <2>2, OpenType
  <2> QED
    BY <1>0, <2>1, <2>2, <2>3, <2>4, WorkType DEF Labels, history
<1>6. ASSUME NEW c \in Commands, WriteTmp(c) PROVE TypeInv'
  <2>1. /\ data' \in [Inodes -> Seq(Lines)] /\ fd' \in [Commands -> Inodes \cup {NoFile}]
        /\ fd'[c] = NoFile /\ \A d \in Commands \ {c} : fd'[d] = fd[d]
    BY <1>6, WriteOpenedType DEF WriteTmp
  <2> QED
    BY <1>0, <1>6, <2>1, WorkType DEF WriteTmp, Labels, history
<1>7. ASSUME NEW c \in Commands, Rename(c) PROVE TypeInv'
  <2>1. fd'[c] = NoFile
    BY <1>0, <1>7 DEF Rename
  <2> QED
    BY <1>0, <1>7, <1>G, <2>1, WorkType DEF Rename, Labels, Resting, history
<1>8. ASSUME NEW c \in Commands, RenameFails(c) PROVE TypeInv'
  <2>1. fd'[c] = NoFile
    BY <1>0, <1>8 DEF RenameFails
  <2>2. refused' \in BOOLEAN /\ {crowded, overlapped, stopped}' \subseteq BOOLEAN
    BY <1>0, <1>8 DEF RenameFails
  <2>3. {crowded, overlapped, stopped, refused}' \subseteq BOOLEAN
    BY <2>2
  <2> QED
    BY <1>0, <1>8, <2>1, <2>3, WorkType DEF RenameFails, Labels
<1>9. ASSUME NEW c \in Commands, RemoveTmp(c) PROVE TypeInv'
  <2>1. fd'[c] = NoFile
    BY <1>0, <1>9 DEF RemoveTmp
  <2> QED
    BY <1>0, <1>9, <2>1, WorkType DEF RemoveTmp, Labels, history
<1>10. ASSUME NEW c \in Commands, OpenHosts(c) PROVE TypeInv'
  <2> DEFINE at == IF hosts = NoFile THEN FreeInode ELSE hosts
  <2>1. Open(c, at) /\ hosts' = at /\ tmp' = tmp
    BY <1>10 DEF OpenHosts
  <2>2. at \in Inodes /\ at # tmp
    BY <1>0, <1>F, FreeInodeThere
  <2>3. UNCHANGED <<op, wants, content, history>> /\ Goto(c, "writeHosts")
    BY <1>10 DEF OpenHosts
  <2> HIDE DEF at
  <2>4. /\ data' \in [Inodes -> Seq(Lines)] /\ fd' \in [Commands -> Inodes \cup {NoFile}]
        /\ fd'[c] # NoFile /\ \A d \in Commands \ {c} : fd'[d] = fd[d]
    BY <2>1, <2>2, OpenType
  <2> QED
    BY <1>0, <2>1, <2>2, <2>3, <2>4, WorkType DEF Labels, history
<1>11. ASSUME NEW c \in Commands, WriteHosts(c) PROVE TypeInv'
  <2>1. /\ data' \in [Inodes -> Seq(Lines)] /\ fd' \in [Commands -> Inodes \cup {NoFile}]
        /\ fd'[c] = NoFile /\ \A d \in Commands \ {c} : fd'[d] = fd[d]
    BY <1>11, WriteOpenedType DEF WriteHosts
  <2> QED
    BY <1>0, <1>11, <1>G, <2>1, WorkType DEF WriteHosts, Labels, Resting, history
<1>12. ASSUME NEW c \in Commands, Stops(c) PROVE TypeInv'
  <2>1. /\ fd' \in [Commands -> Inodes \cup {NoFile}]
        /\ fd'[c] = NoFile /\ \A d \in Commands \ {c} : fd'[d] = fd[d]
    BY <1>0, <1>12 DEF Stops
  <2>2. {crowded, overlapped, stopped, refused}' \subseteq BOOLEAN
    BY <1>0, <1>12 DEF Stops
  <2> QED
    BY <1>0, <1>12, <1>G, <2>1, <2>2, WorkType DEF Stops, Labels, Resting
<1>13. CASE UNCHANGED vars
  BY <1>13 DEF TypeInv, TypeOK, vars, command, history
<1> QED
  BY <1>1, <1>2, <1>3, <1>4, <1>5, <1>6, <1>7, <1>8, <1>9, <1>10, <1>11, <1>12, <1>13 DEF Next

LEMMA Typed == Spec => []TypeInv
<1>1. Init => TypeInv
  BY TypeInit
<1>2. TypeInv /\ [Next]_vars => TypeInv'
  BY TypeStep
<1> QED
  BY <1>1, <1>2, PTL DEF Spec

\* Every variable has its type, and only a command that is about to write has a
\* file open, however many commands run and wherever they are killed; so an
\* inode is always free for a file that is made.
THEOREM HostsFileTyped == Spec => []TypeOK
<1>1. TypeInv => TypeOK
  BY DEF TypeInv
<1> QED
  BY <1>1, Typed, PTL

-------------------------------------------------------------------------------
(* Commands that run one at a time                                          *)

\* No line is torn, those of others are f, and there is one block at most.
Whole(x, f) ==
  /\ x \in Seq(Lines \ {"garbage"}) /\ TrimEnd(Outside(x)) = f /\ OneBlockAtMost(x)

LEMMA BlockNotTorn ==
  ASSUME NEW h \in SUBSET Names PROVE Block(h) \in Seq(Lines \ {"garbage"})
<1>1. PICK b : b = Block(h)
  OBVIOUS
<1>2. PICK n \in Nat : IsBlock(b, h, n)
  BY <1>1, BlockFacts
<1>3. b \in Seq(Lines) /\ Len(b) = n + 2
  BY <1>2 DEF IsBlock
<1>4. b[1] # "garbage" /\ b[n + 2] # "garbage"
  BY <1>2 DEF IsBlock
<1>5. \A i \in 2..(n + 1) : b[i] # "garbage"
  BY <1>2, LinesAssumption DEF IsBlock
<1>6. \A i \in 1..(n + 2) : i = 1 \/ i = n + 2 \/ i \in 2..(n + 1)
  OBVIOUS
<1>7. \A i \in 1..(n + 2) : b[i] \in Lines \ {"garbage"}
  <2>1. \A i \in 1..(n + 2) : b[i] \in Lines
    BY <1>3
  <2> QED
    BY <2>1, <1>4, <1>5, <1>6
<1>8. b \in Seq(Lines \ {"garbage"})
  BY <1>3, <1>7
<1> QED
  BY <1>1, <1>8

LEMMA WholeFacts ==
  ASSUME NEW x, NEW f, Whole(x, f)
  PROVE  /\ x \in Seq(Lines) /\ Outside(x) \in Seq((Lines \ {"garbage"}) \ Markers)
         /\ f \in Seq((Lines \ {"garbage"}) \ Markers) /\ f \in Plain /\ Trimmed(f)
<1>1. PICK S : S = Lines \ {"garbage"}
  OBVIOUS
<1>2. x \in Seq(S) /\ TrimEnd(Outside(x)) = f
  BY <1>1 DEF Whole
<1>3. S \subseteq Lines /\ S \ Markers \subseteq Lines \ Markers
  BY <1>1
<1>4. x \in Seq(Lines)
  BY <1>2, <1>3, Widened
<1>5. Outside(x) \in Seq(S \ Markers)
  BY <1>2, OutsideType
<1>6. f \in Seq(S \ Markers) /\ Trimmed(f)
  BY <1>2, <1>5, TrimSplit
<1>7. f \in Plain
  BY <1>3, <1>6, Widened DEF Plain
<1> QED
  BY <1>1, <1>4, <1>5, <1>6, <1>7

LEMMA WholeSynced ==
  ASSUME NEW x, NEW f, Whole(x, f), NEW h \in SUBSET Names
  PROVE  Whole(Synced(x, h), f)
<1>1. /\ x \in Seq(Lines) /\ TrimEnd(Outside(x)) = f
      /\ f \in Seq((Lines \ {"garbage"}) \ Markers) /\ f \in Plain /\ Trimmed(f)
  BY WholeFacts DEF Whole
<1>2. PICK y : y = f \o Block(h)
  OBVIOUS
<1>3. Synced(x, h) = y
  BY <1>1, <1>2, SyncedText
<1>4. Outside(y) = f /\ OneBlockAtMost(y)
  BY <1>1, <1>2, OutsideSynced, SyncedHasOneBlock
<1>5. TrimEnd(f) = f
  <2>1. f \in Seq(Lines)
    BY <1>1, PlainFacts
  <2> QED
    BY <2>1, <1>1, TrimTrimmed
<1>6. y \in Seq(Lines \ {"garbage"})
  <2>1. (Lines \ {"garbage"}) \ Markers \subseteq Lines \ {"garbage"}
    OBVIOUS
  <2>2. f \in Seq(Lines \ {"garbage"}) /\ Block(h) \in Seq(Lines \ {"garbage"})
    BY <2>1, <1>1, Widened, BlockNotTorn
  <2> QED
    BY <2>2, <1>2
<1> QED
  BY <1>3, <1>4, <1>5, <1>6 DEF Whole

LEMMA WholeRemoved ==
  ASSUME NEW x, NEW f, Whole(x, f)
  PROVE  Whole(RemoveBlock(x), f)
<1>1. PICK y : y = Outside(x)
  OBVIOUS
<1>2. x \in Seq(Lines) /\ y \in Seq((Lines \ {"garbage"}) \ Markers) /\ TrimEnd(y) = f
  BY <1>1, WholeFacts DEF Whole
<1>3. RemoveBlock(x) = y /\ y \in Plain
  BY <1>1, <1>2, RemovedType
<1>4. Outside(y) = y /\ OneBlockAtMost(y)
  BY <1>3, OutsidePlain, PlainHasNoBlock
<1>5. y \in Seq(Lines \ {"garbage"})
  <2>1. (Lines \ {"garbage"}) \ Markers \subseteq Lines \ {"garbage"}
    OBVIOUS
  <2> QED
    BY <2>1, <1>2, Widened
<1> QED
  BY <1>2, <1>3, <1>4, <1>5 DEF Whole

\* A command that runs alone works on its own file, and that one is put in the
\* place of the other when it is complete.
AtomicInv ==
  ~overlapped /\ ~refused =>
    /\ Whole(File, foreign)
    /\ \A c, d \in Commands : pc[c] \notin Resting /\ pc[d] \notin Resting => c = d
    /\ \A c \in Commands :
         /\ pc[c] \notin {"removeTmp", "openHosts", "writeHosts"}
         /\ pc[c] \in {"openTmp", "writeTmp", "rename"} => Whole(content[c], foreign)
         /\ pc[c] = "writeTmp" => fd[c] = tmp /\ data[tmp] = << >>
         /\ pc[c] = "rename" => tmp # NoFile /\ data[tmp] = content[c]

LEMMA AtomicInit == ASSUME Init PROVE AtomicInv
<1>1. Whole(File, foreign)
  BY FilesFound DEF Whole
<1>2. \A c \in Commands : pc[c] = "idle"
  BY DEF Init
<1> QED
  BY <1>1, <1>2 DEF AtomicInv, Resting

\* A file that is opened is another than those with a name, or that which the
\* name of the temporary file leads to.
LEMMA TmpOpened ==
  ASSUME TypeInv, NEW c \in Commands, OpenTmp(c)
  PROVE  /\ tmp' \in Inodes /\ tmp' # NoFile /\ tmp' # hosts
         /\ tmp # NoFile => tmp' = tmp
         /\ fd' = [fd EXCEPT ![c] = tmp'] /\ data' = [data EXCEPT ![tmp'] = << >>]
         /\ data'[tmp'] = << >> /\ fd'[c] = tmp' /\ File' = File /\ pc[c] = "openTmp"
         /\ UNCHANGED <<hosts, op, wants, content, history>> /\ Goto(c, "writeTmp")
<1>1. /\ {hosts, tmp} \subseteq Inodes \cup {NoFile} /\ (hosts = tmp => hosts = NoFile)
      /\ fd \in [Commands -> Inodes \cup {NoFile}] /\ data \in [Inodes -> Seq(Lines)]
  BY DEF TypeInv, TypeOK
<1> DEFINE at == IF tmp = NoFile THEN FreeInode ELSE tmp
<1>2. at \in Inodes /\ at # hosts /\ at # NoFile
  BY <1>1, FreeInodeThere
<1>3. /\ tmp' = at /\ fd' = [fd EXCEPT ![c] = at] /\ data' = [data EXCEPT ![at] = << >>]
      /\ hosts' = hosts /\ pc[c] = "openTmp"
      /\ UNCHANGED <<hosts, op, wants, content, history>> /\ Goto(c, "writeTmp")
  BY DEF OpenTmp, Open
<1>4. File' = File
  BY <1>1, <1>2, <1>3 DEF File
<1> QED
  BY <1>1, <1>2, <1>3, <1>4

\* What a command writes to a file that was truncated is all it holds.
LEMMA WrittenAlone ==
  ASSUME TypeInv, NEW c \in Commands, WriteOpened(c), fd[c] \in Inodes, data[fd[c]] = << >>
  PROVE  data' = [data EXCEPT ![fd[c]] = content[c]]
<1>1. content[c] \in Seq(Lines)
  BY DEF TypeInv, TypeOK
<1>2. Overwritten(data[fd[c]], content[c]) = {content[c]}
  BY <1>1, WrittenToNothing
<1> QED
  BY <1>2 DEF WriteOpened

\* What has happened stays so.
LEMMA HistoryGrows ==
  ASSUME Next
  PROVE  /\ foreign' = foreign /\ (overlapped => overlapped') /\ (refused => refused')
         /\ (crowded => crowded') /\ (stopped => stopped')
<1> DEFINE Goal == /\ foreign' = foreign /\ (overlapped => overlapped') /\ (refused => refused')
                   /\ (crowded => crowded') /\ (stopped => stopped')
<1>1. ASSUME NEW c \in Commands, Begun(c) PROVE Goal
  <2>1. PICK p, q : /\ overlapped' = (overlapped \/ p) /\ crowded' = (crowded \/ q)
                    /\ foreign' = foreign /\ stopped' = stopped /\ refused' = refused
    BY <1>1, Zenon DEF Begun
  <2> QED
    BY <2>1, Zenon
<1>2. UNCHANGED history => Goal
  BY DEF history
<1>3. ASSUME NEW c \in Commands, RenameFails(c) PROVE Goal
  BY <1>3, Zenon DEF RenameFails
<1>4. ASSUME NEW c \in Commands, Stops(c) PROVE Goal
  BY <1>4, Zenon DEF Stops
<1> HIDE DEF Goal
<1>5. \A c \in Commands :
        /\ (\E names \in SUBSET Names : BeginSync(c, names)) \/ BeginClean(c) => Begun(c)
        /\ ReadForSync(c) \/ ReadForClean(c) \/ OpenTmp(c) \/ WriteTmp(c) \/ Rename(c) \/ RemoveTmp(c)
             \/ OpenHosts(c) \/ WriteHosts(c) => UNCHANGED history
  BY DEF BeginSync, BeginClean, ReadForSync, ReadForClean, OpenTmp, WriteTmp, Rename,
         RemoveTmp, OpenHosts, WriteHosts
<1>6. Goal
  BY <1>1, <1>2, <1>3, <1>4, <1>5 DEF Next
<1> QED
  BY <1>6 DEF Goal

LEMMA AtomicStep == ASSUME TypeInv, AtomicInv, [Next]_vars PROVE AtomicInv'
<1> SUFFICES ASSUME ~overlapped', ~refused', Next
             PROVE  /\ Whole(File, foreign)'
                    /\ \A c, d \in Commands : pc'[c] \notin Resting /\ pc'[d] \notin Resting => c = d
                    /\ \A c \in Commands :
                         /\ pc'[c] \notin {"removeTmp", "openHosts", "writeHosts"}
                         /\ pc'[c] \in {"openTmp", "writeTmp", "rename"} => Whole(content'[c], foreign')
                         /\ pc'[c] = "writeTmp" => fd'[c] = tmp' /\ data'[tmp'] = << >>
                         /\ pc'[c] = "rename" => tmp' # NoFile /\ data'[tmp'] = content'[c]
  <2>1. CASE UNCHANGED vars
    BY <2>1 DEF AtomicInv, vars, command, history, File, Whole
  <2> QED
    BY <2>1 DEF AtomicInv
<1> DEFINE Alone(c, l) ==
      /\ \A d \in Commands \ {c} : pc'[d] \in Resting
      /\ pc'[c] = l
<1>T. /\ {hosts, tmp} \subseteq Inodes \cup {NoFile} /\ (hosts = tmp => hosts = NoFile)
      /\ data \in [Inodes -> Seq(Lines)] /\ content \in [Commands -> Seq(Lines)]
      /\ fd \in [Commands -> Inodes \cup {NoFile}] /\ wants \in [Commands -> SUBSET Names]
      /\ pc \in [Commands -> Labels] /\ op \in [Commands -> {"sync", "clean"}]
      /\ \A d \in Commands : (fd[d] # NoFile) <=> (pc[d] \in {"writeTmp", "writeHosts"})
      /\ NoFile \notin Inodes
  BY InodesSuffice DEF TypeInv, TypeOK, Labels
<1>H. ~overlapped /\ ~refused /\ foreign' = foreign
  BY HistoryGrows
<1>I. /\ Whole(File, foreign)
      /\ \A c, d \in Commands : pc[c] \notin Resting /\ pc[d] \notin Resting => c = d
      /\ \A c \in Commands :
           /\ pc[c] \notin {"removeTmp", "openHosts", "writeHosts"}
           /\ pc[c] \in {"openTmp", "writeTmp", "rename"} => Whole(content[c], foreign)
           /\ pc[c] = "writeTmp" => fd[c] = tmp /\ data[tmp] = << >>
           /\ pc[c] = "rename" => tmp # NoFile /\ data[tmp] = content[c]
  BY <1>H DEF AtomicInv
<1>W. Whole(File, foreign)' <=> Whole(File', foreign)
  BY <1>H DEF Whole
<1>A. ASSUME NEW c \in Commands, pc[c] \notin Resting, NEW l, Goto(c, l) PROVE Alone(c, l)
  BY <1>A, <1>T, <1>I DEF Goto
<1>B. ASSUME NEW c \in Commands, Begun(c), Goto(c, "read") PROVE Alone(c, "read")
  <2>1. {d \in Commands \ {c} : pc[d] \notin Resting} = {}
    BY <1>B DEF Begun
  <2> QED
    BY <2>1, <1>B, <1>T DEF Goto
<1>Z. "read" \notin Resting /\ "openTmp" \notin Resting /\ "writeTmp" \notin Resting
      /\ "rename" \notin Resting /\ "done" \in Resting /\ "idle" \in Resting
      /\ "removeTmp" \notin Resting /\ "openHosts" \notin Resting /\ "writeHosts" \notin Resting
  BY DEF Resting
<1> HIDE DEF Alone
<1>K. ASSUME NEW c \in Commands, NEW l \in Resting \cup {"read"}, Alone(c, l), Whole(File', foreign)
      PROVE  AtomicInv'
  BY <1>K, <1>H, <1>W, <1>Z DEF AtomicInv, Alone, Resting
<1>L. ASSUME NEW c \in Commands, NEW l, Alone(c, l),
             l \notin {"removeTmp", "openHosts", "writeHosts"},
             Whole(File', foreign), Whole(content'[c], foreign),
             l = "writeTmp" => fd'[c] = tmp' /\ data'[tmp'] = << >>,
             l = "rename" => tmp' # NoFile /\ data'[tmp'] = content'[c]
      PROVE  AtomicInv'
  BY <1>L, <1>H, <1>W, <1>Z DEF AtomicInv, Alone
<1>1. ASSUME NEW c \in Commands, NEW names \in SUBSET Names, BeginSync(c, names) PROVE AtomicInv'
  <2>1. File' = File
    BY <1>1 DEF BeginSync, File
  <2> QED
    BY <1>1, <1>B, <1>K, <1>I, <2>1 DEF BeginSync
<1>2. ASSUME NEW c \in Commands, BeginClean(c) PROVE AtomicInv'
  <2>1. File' = File
    BY <1>2 DEF BeginClean, File
  <2> QED
    BY <1>2, <1>B, <1>K, <1>I, <2>1 DEF BeginClean
<1>3. ASSUME NEW c \in Commands, ReadForSync(c) PROVE AtomicInv'
  <2>1. File' = File /\ Alone(c, "openTmp")
    BY <1>3, <1>A, <1>Z DEF ReadForSync, File
  <2>2. content'[c] = Synced(File, wants[c])
    BY <1>3, <1>T DEF ReadForSync
  <2>3. Whole(content'[c], foreign)
    BY <2>2, <1>I, <1>T, WholeSynced
  <2> QED
    BY <2>1, <2>3, <1>I, <1>L
<1>4. ASSUME NEW c \in Commands, ReadForClean(c) PROVE AtomicInv'
  <2>1. File' = File /\ pc[c] \notin Resting
    BY <1>4, <1>Z DEF ReadForClean, File
  <2>2. CASE Goto(c, "done")
    BY <2>1, <2>2, <1>A, <1>K, <1>I, <1>Z
  <2>3. CASE Goto(c, "openTmp") /\ content' = [content EXCEPT ![c] = RemoveBlock(File)]
    <3>1. content'[c] = RemoveBlock(File)
      BY <2>3, <1>T
    <3>2. Whole(content'[c], foreign)
      BY <3>1, <1>I, WholeRemoved
    <3>3. Alone(c, "openTmp")
      BY <2>1, <2>3, <1>A
    <3> QED
      BY <2>1, <3>2, <3>3, <1>I, <1>L
  <2> QED
    BY <1>4, <2>2, <2>3 DEF ReadForClean
<1>5. ASSUME NEW c \in Commands, OpenTmp(c) PROVE AtomicInv'
  <2>1. /\ File' = File /\ data'[tmp'] = << >> /\ fd'[c] = tmp' /\ content' = content
        /\ pc[c] = "openTmp" /\ Goto(c, "writeTmp")
    BY <1>5, TmpOpened
  <2>2. Alone(c, "writeTmp")
    BY <2>1, <1>A, <1>Z
  <2> QED
    BY <2>1, <2>2, <1>I, <1>L
<1>6. ASSUME NEW c \in Commands, WriteTmp(c) PROVE AtomicInv'
  <2>1. pc[c] = "writeTmp" /\ fd[c] = tmp /\ data[tmp] = << >> /\ tmp \in Inodes
    BY <1>6, <1>I, <1>T DEF WriteTmp
  <2>2. data' = [data EXCEPT ![tmp] = content[c]]
    BY <1>6, <2>1, WrittenAlone DEF WriteTmp
  <2>3. tmp' = tmp /\ hosts' = hosts /\ content' = content
    BY <1>6 DEF WriteTmp
  <2>4. File' = File /\ data'[tmp'] = content'[c] /\ tmp' # NoFile
    BY <2>1, <2>2, <2>3, <1>T DEF File
  <2>5. Alone(c, "rename")
    BY <1>6, <2>1, <1>A, <1>Z DEF WriteTmp
  <2> QED
    BY <2>1, <2>3, <2>4, <2>5, <1>I, <1>L
<1>7. ASSUME NEW c \in Commands, Rename(c) PROVE AtomicInv'
  <2>1. pc[c] = "rename" /\ tmp # NoFile /\ hosts' = tmp /\ data' = data
    BY <1>7 DEF Rename
  <2>2. data[tmp] = content[c] /\ Whole(content[c], foreign)
    BY <2>1, <1>I
  <2>3. File' = content[c]
    BY <2>1, <2>2 DEF File
  <2>4. Alone(c, "done")
    BY <1>7, <2>1, <1>A, <1>Z DEF Rename
  <2> QED
    BY <2>2, <2>3, <2>4, <1>K, <1>Z
<1>8. ASSUME NEW c \in Commands, RenameFails(c) PROVE FALSE
  BY <1>8, <1>I DEF RenameFails
<1>9. ASSUME NEW c \in Commands, RemoveTmp(c) PROVE FALSE
  BY <1>9, <1>I DEF RemoveTmp
<1>10. ASSUME NEW c \in Commands, OpenHosts(c) PROVE FALSE
  BY <1>10, <1>I DEF OpenHosts
<1>11. ASSUME NEW c \in Commands, WriteHosts(c) PROVE FALSE
  BY <1>11, <1>I DEF WriteHosts
<1>12. ASSUME NEW c \in Commands, Stops(c) PROVE AtomicInv'
  <2>1. File' = File /\ Alone(c, "idle")
    BY <1>12, <1>A DEF Stops, File
  <2> QED
    BY <2>1, <1>K, <1>I, <1>Z
<1>13. AtomicInv'
  BY <1>1, <1>2, <1>3, <1>4, <1>5, <1>6, <1>7, <1>8, <1>9, <1>10, <1>11, <1>12 DEF Next
<1> QED
  BY <1>13 DEF AtomicInv

LEMMA AtomicImplies == ASSUME AtomicInv PROVE AtomicWhenAlone
<1> SUFFICES ASSUME ~overlapped, ~refused, Whole(File, foreign)
             PROVE  /\ TrimEnd(Outside(File)) = foreign
                    /\ \A m \in Markers : Cardinality({i \in DOMAIN File : File[i] = m}) <= 1
                    /\ "garbage" \notin ToSet(File)
  BY DEF AtomicInv, AtomicWhenAlone
<1>1. PICK x : x = File
  OBVIOUS
<1>2. /\ x \in Seq(Lines \ {"garbage"}) /\ TrimEnd(Outside(x)) = foreign
      /\ \A m \in Markers : Cardinality({i \in DOMAIN x : x[i] = m}) <= 1
  BY <1>1 DEF Whole, OneBlockAtMost
<1>3. "garbage" \notin ToSet(x)
  <2>1. \A i \in DOMAIN x : x[i] # "garbage"
    BY <1>2
  <2> QED
    BY <2>1 DEF ToSet
<1> QED
  BY <1>1, <1>2, <1>3

\* Whatever the files, however many the commands and wherever one is killed:
\* while they run one at a time and no rename is refused, a reader of the hosts
\* file sees the lines of others in their order and one block at most.
THEOREM HostsFileAtomic == Spec => []AtomicWhenAlone
<1>1. Init => AtomicInv
  BY AtomicInit
<1>2. TypeInv /\ AtomicInv /\ [Next]_vars => AtomicInv'
  BY AtomicStep
<1>3. AtomicInv => AtomicWhenAlone
  BY AtomicImplies
<1> QED
  BY <1>1, <1>2, <1>3, Typed, PTL DEF Spec

-------------------------------------------------------------------------------
(* A command that runs alone, whatever the others left behind               *)

Solo(c) ==
  /\ \A d \in Commands \ {c} : pc[d] \in Resting
  /\ pc[c] # "read" => ManagedHostnames(content[c]) = wants[c]
  /\ pc[c] = "writeTmp" => fd[c] = tmp /\ data[tmp] = << >>
  /\ pc[c] = "rename" /\ tmp # NoFile => data[tmp] = content[c]
  /\ pc[c] = "writeHosts" => fd[c] = hosts /\ data[hosts] = << >>

SoloInv ==
  \A c \in Commands :
    pc[c] \notin Resting =>
      /\ op[c] = "clean" => wants[c] = {}
      /\ c \in alone => Solo(c)

LEMMA ManagedText ==
  ASSUME NEW x \in Seq(Lines), NEW h \in SUBSET Names
  PROVE  /\ ManagedHostnames(Synced(x, h)) = h
         /\ ManagedHostnames(RemoveBlock(x)) = {}
<1>1. PICK B \in Plain : Synced(x, h) = B \o Block(h)
  BY SyncedText
<1>2. ManagedHostnames(Synced(x, h)) = h
  BY <1>1, ManagedSynced
<1>3. RemoveBlock(x) \in Plain
  BY RemovedType
<1>4. ManagedHostnames(RemoveBlock(x)) = {}
  BY <1>3, PlainHasNoBlock, ManagedNone
<1> QED
  BY <1>2, <1>4

LEMMA HostsOpened ==
  ASSUME TypeInv, NEW c \in Commands, OpenHosts(c)
  PROVE  /\ hosts' \in Inodes /\ hosts' # NoFile
         /\ fd' = [fd EXCEPT ![c] = hosts'] /\ data' = [data EXCEPT ![hosts'] = << >>]
         /\ data'[hosts'] = << >> /\ fd'[c] = hosts' /\ pc[c] = "openHosts"
         /\ UNCHANGED <<tmp, op, wants, content, history>> /\ Goto(c, "writeHosts")
<1>1. /\ {hosts, tmp} \subseteq Inodes \cup {NoFile} /\ (hosts = tmp => hosts = NoFile)
      /\ fd \in [Commands -> Inodes \cup {NoFile}] /\ data \in [Inodes -> Seq(Lines)]
  BY DEF TypeInv, TypeOK
<1> DEFINE at == IF hosts = NoFile THEN FreeInode ELSE hosts
<1>2. at \in Inodes /\ at # NoFile
  BY <1>1, FreeInodeThere
<1>3. /\ hosts' = at /\ fd' = [fd EXCEPT ![c] = at] /\ data' = [data EXCEPT ![at] = << >>]
      /\ pc[c] = "openHosts"
      /\ UNCHANGED <<tmp, op, wants, content, history>> /\ Goto(c, "writeHosts")
  BY DEF OpenHosts, Open
<1> QED
  BY <1>1, <1>2, <1>3

LEMMA SoloInit == ASSUME Init PROVE SoloInv
<1>1. \A c \in Commands : pc[c] = "idle"
  BY DEF Init
<1> QED
  BY <1>1 DEF SoloInv, Resting

\* A command that begins alone finds the others at rest, and they stay so.
LEMMA SoloBegins ==
  ASSUME TypeInv, SoloInv, NEW c \in Commands, pc[c] \in Resting, Begun(c), Goto(c, "read"),
         NEW o, NEW h, o = "clean" => h = {},
         op' = [op EXCEPT ![c] = o], wants' = [wants EXCEPT ![c] = h]
  PROVE  SoloInv'
<1> DEFINE others == {d \in Commands \ {c} : pc[d] \notin Resting}
<1>1. alone' = IF others = {} THEN alone \cup {c} ELSE alone \ (others \cup {c})
  BY DEF Begun
<1>2. /\ pc' = [pc EXCEPT ![c] = "read"] /\ pc \in [Commands -> Labels]
      /\ op \in [Commands -> {"sync", "clean"}] /\ wants \in [Commands -> SUBSET Names]
  BY DEF TypeInv, TypeOK, Goto, Labels
<1>3. op'[c] = "clean" => wants'[c] = {}
  BY <1>2
<1>4. c \in alone' => Solo(c)'
  <2> SUFFICES ASSUME c \in alone' PROVE Solo(c)'
    OBVIOUS
  <2>1. others = {}
    BY <1>1
  <2>2. \A d \in Commands \ {c} : pc'[d] \in Resting
    BY <2>1, <1>2
  <2>3. pc'[c] = "read"
    BY <1>2
  <2> QED
    BY <2>2, <2>3 DEF Solo
<1>5. \A d \in Commands \ {c} : pc'[d] \notin Resting => d \in others /\ d \notin alone'
  BY <1>1, <1>2
<1>6. \A d \in Commands \ {c} : pc'[d] = pc[d] /\ op'[d] = op[d] /\ wants'[d] = wants[d]
  BY <1>2
<1> QED
  BY <1>3, <1>4, <1>5, <1>6 DEF SoloInv

\* While a command takes a step, no other is one that runs alone.
LEMMA SoloWorks ==
  ASSUME TypeInv, SoloInv, NEW c \in Commands, pc[c] \notin Resting, NEW l, Goto(c, l),
         alone' = alone, \A d \in Commands \ {c} : op'[d] = op[d] /\ wants'[d] = wants[d],
         l \notin Resting => op'[c] = op[c] /\ wants'[c] = wants[c],
         l \notin Resting /\ c \in alone =>
           /\ l # "read" => ManagedHostnames(content'[c]) = wants'[c]
           /\ l = "writeTmp" => fd'[c] = tmp' /\ data'[tmp'] = << >>
           /\ l = "rename" /\ tmp' # NoFile => data'[tmp'] = content'[c]
           /\ l = "writeHosts" => fd'[c] = hosts' /\ data'[hosts'] = << >>
  PROVE  SoloInv'
<1>1. pc' = [pc EXCEPT ![c] = l] /\ pc \in [Commands -> Labels]
  BY DEF TypeInv, TypeOK, Goto, Labels
<1>2. pc'[c] = l /\ \A d \in Commands \ {c} : pc'[d] = pc[d]
  BY <1>1
<1>3. ASSUME NEW d \in Commands \ {c}, pc'[d] \notin Resting
      PROVE  (op'[d] = "clean" => wants'[d] = {}) /\ d \notin alone'
  BY <1>2, <1>3 DEF SoloInv, Solo
<1>4. l \notin Resting /\ op'[c] = "clean" => wants'[c] = {}
  BY DEF SoloInv
<1>5. l \notin Resting /\ c \in alone' => Solo(c)'
  <2>1. c \in alone => \A d \in Commands \ {c} : pc'[d] \in Resting
    BY <1>2 DEF SoloInv, Solo
  <2> QED
    BY <2>1, <1>2 DEF Solo
<1> QED
  BY <1>2, <1>3, <1>4, <1>5 DEF SoloInv

LEMMA SoloStep == ASSUME TypeInv, SoloInv, [Next]_vars PROVE SoloInv'
<1>T. /\ {hosts, tmp} \subseteq Inodes \cup {NoFile} /\ (hosts = tmp => hosts = NoFile)
      /\ data \in [Inodes -> Seq(Lines)] /\ content \in [Commands -> Seq(Lines)]
      /\ fd \in [Commands -> Inodes \cup {NoFile}] /\ wants \in [Commands -> SUBSET Names]
      /\ pc \in [Commands -> Labels] /\ op \in [Commands -> {"sync", "clean"}]
      /\ \A d \in Commands : (fd[d] # NoFile) <=> (pc[d] \in {"writeTmp", "writeHosts"})
      /\ NoFile \notin Inodes
  BY InodesSuffice DEF TypeInv, TypeOK, Labels
<1>S. /\ \A c \in Commands : pc[c] \notin Resting /\ c \in alone => Solo(c)
      /\ \A c \in Commands : pc[c] \notin Resting /\ op[c] = "clean" => wants[c] = {}
  BY DEF SoloInv
<1>Z. /\ {"read", "openTmp", "writeTmp", "rename", "removeTmp", "openHosts", "writeHosts"}
           \cap Resting = {}
      /\ "done" \in Resting /\ "idle" \in Resting
  BY DEF Resting
<1>F. ASSUME NEW c \in Commands, Forget(c)
      PROVE  \A d \in Commands \ {c} : op'[d] = op[d] /\ wants'[d] = wants[d]
  BY <1>F, <1>T DEF Forget
<1>1. ASSUME NEW c \in Commands, NEW names \in SUBSET Names, BeginSync(c, names) PROVE SoloInv'
  BY <1>1, SoloBegins DEF BeginSync
<1>2. ASSUME NEW c \in Commands, BeginClean(c) PROVE SoloInv'
  BY <1>2, SoloBegins DEF BeginClean
<1>3. ASSUME NEW c \in Commands, ReadForSync(c) PROVE SoloInv'
  <2>1. content'[c] = Synced(File, wants[c])
    BY <1>3, <1>T DEF ReadForSync
  <2>2. ManagedHostnames(content'[c]) = wants[c]
    BY <2>1, <1>T, FileType, ManagedText DEF TypeInv
  <2>3. /\ Goto(c, "openTmp") /\ pc[c] = "read" /\ alone' = alone /\ op' = op /\ wants' = wants
    BY <1>3 DEF ReadForSync, history
  <2> QED
    BY <2>2, <2>3, <1>Z, SoloWorks
<1>4. ASSUME NEW c \in Commands, ReadForClean(c) PROVE SoloInv'
  <2>1. pc[c] = "read" /\ op[c] = "clean" /\ alone' = alone
    BY <1>4 DEF ReadForClean, history
  <2>2. CASE Goto(c, "done") /\ Forget(c)
    BY <2>1, <2>2, <1>F, <1>Z, SoloWorks
  <2>3. CASE /\ content' = [content EXCEPT ![c] = RemoveBlock(File)]
             /\ Goto(c, "openTmp") /\ UNCHANGED <<op, wants>>
    <3>1. content'[c] = RemoveBlock(File)
      BY <2>3, <1>T
    <3>2. ManagedHostnames(content'[c]) = {}
      <4>1. {} \in SUBSET Names /\ File \in Seq(Lines)
        BY FileType DEF TypeInv
      <4> QED
        BY <3>1, <4>1, ManagedText
    <3>3. wants[c] = {}
      BY <2>1, <1>S, <1>Z
    <3> QED
      BY <2>1, <2>3, <3>2, <3>3, <1>Z, SoloWorks
  <2> QED
    BY <1>4, <2>2, <2>3 DEF ReadForClean
<1>5. ASSUME NEW c \in Commands, OpenTmp(c) PROVE SoloInv'
  <2>1. /\ data'[tmp'] = << >> /\ fd'[c] = tmp' /\ content' = content /\ op' = op /\ wants' = wants
        /\ pc[c] = "openTmp" /\ Goto(c, "writeTmp") /\ alone' = alone
    BY <1>5, TmpOpened DEF history
  <2>2. c \in alone => ManagedHostnames(content[c]) = wants[c]
    BY <2>1, <1>S, <1>Z DEF Solo
  <2> QED
    BY <2>1, <2>2, <1>Z, SoloWorks
<1>6. ASSUME NEW c \in Commands, WriteTmp(c) PROVE SoloInv'
  <2>1. /\ pc[c] = "writeTmp" /\ Goto(c, "rename") /\ WriteOpened(c) /\ alone' = alone
        /\ UNCHANGED <<hosts, tmp, op, wants, content>>
    BY <1>6 DEF WriteTmp, history
  <2>2. ASSUME c \in alone
        PROVE  ManagedHostnames(content[c]) = wants[c] /\ data'[tmp] = content[c]
    <3>1. /\ ManagedHostnames(content[c]) = wants[c] /\ fd[c] = tmp /\ data[tmp] = << >>
          /\ tmp \in Inodes
      BY <2>1, <2>2, <1>S, <1>T, <1>Z DEF Solo
    <3>2. data' = [data EXCEPT ![tmp] = content[c]]
      BY <2>1, <3>1, WrittenAlone
    <3> QED
      BY <3>1, <3>2, <1>T
  <2> QED
    BY <2>1, <2>2, <1>Z, SoloWorks
<1>7. ASSUME NEW c \in Commands, Rename(c) PROVE SoloInv'
  BY <1>7, <1>F, <1>Z, SoloWorks DEF Rename, history
<1>8. ASSUME NEW c \in Commands, RenameFails(c) PROVE SoloInv'
  <2>1. /\ pc[c] = "rename" /\ Goto(c, "removeTmp") /\ alone' = alone
        /\ UNCHANGED <<hosts, tmp, op, wants, content>>
    BY <1>8 DEF RenameFails
  <2>2. c \in alone => ManagedHostnames(content[c]) = wants[c]
    BY <2>1, <1>S, <1>Z DEF Solo
  <2> QED
    BY <2>1, <2>2, <1>Z, SoloWorks
<1>9. ASSUME NEW c \in Commands, RemoveTmp(c) PROVE SoloInv'
  <2>1. /\ pc[c] = "removeTmp" /\ Goto(c, "openHosts") /\ alone' = alone
        /\ UNCHANGED <<hosts, op, wants, content>>
    BY <1>9 DEF RemoveTmp, history
  <2>2. c \in alone => ManagedHostnames(content[c]) = wants[c]
    BY <2>1, <1>S, <1>Z DEF Solo
  <2> QED
    BY <2>1, <2>2, <1>Z, SoloWorks
<1>10. ASSUME NEW c \in Commands, OpenHosts(c) PROVE SoloInv'
  <2>1. /\ data'[hosts'] = << >> /\ fd'[c] = hosts' /\ content' = content /\ op' = op /\ wants' = wants
        /\ pc[c] = "openHosts" /\ Goto(c, "writeHosts") /\ alone' = alone
    BY <1>10, HostsOpened DEF history
  <2>2. c \in alone => ManagedHostnames(content[c]) = wants[c]
    BY <2>1, <1>S, <1>Z DEF Solo
  <2> QED
    BY <2>1, <2>2, <1>Z, SoloWorks
<1>11. ASSUME NEW c \in Commands, WriteHosts(c) PROVE SoloInv'
  BY <1>11, <1>F, <1>Z, SoloWorks DEF WriteHosts, history
<1>12. ASSUME NEW c \in Commands, Stops(c) PROVE SoloInv'
  BY <1>12, <1>F, <1>Z, SoloWorks DEF Stops
<1>13. CASE UNCHANGED vars
  BY <1>13 DEF SoloInv, Solo, vars, command, history
<1> QED
  BY <1>1, <1>2, <1>3, <1>4, <1>5, <1>6, <1>7, <1>8, <1>9, <1>10, <1>11, <1>12, <1>13 DEF Next

\* When such a command ends, the block is what it wanted.
TakesEffect ==
  \A c \in Commands :
    pc[c] # "done" /\ pc'[c] = "done" /\ c \in alone' =>
      ManagedHostnames(File') = wants[c]

LEMMA SoloEnds == ASSUME TypeInv, SoloInv, [Next]_vars PROVE TakesEffect
<1> SUFFICES ASSUME NEW c \in Commands, pc[c] # "done", pc'[c] = "done", c \in alone'
             PROVE  ManagedHostnames(File') = wants[c]
  BY DEF TakesEffect
<1>T. /\ {hosts, tmp} \subseteq Inodes \cup {NoFile} /\ (hosts = tmp => hosts = NoFile)
      /\ data \in [Inodes -> Seq(Lines)] /\ content \in [Commands -> Seq(Lines)]
      /\ fd \in [Commands -> Inodes \cup {NoFile}] /\ pc \in [Commands -> Labels]
      /\ \A d \in Commands : (fd[d] # NoFile) <=> (pc[d] \in {"writeTmp", "writeHosts"})
      /\ NoFile \notin Inodes
  BY InodesSuffice DEF TypeInv, TypeOK, Labels
<1>G. ASSUME NEW d \in Commands, NEW l, Goto(d, l) PROVE d = c /\ l = "done"
  BY <1>G, <1>T DEF Goto
<1>S. pc[c] \notin Resting /\ c \in alone => (op[c] = "clean" => wants[c] = {}) /\ Solo(c)
  BY DEF SoloInv
<1>1. ReadForClean(c) \/ Rename(c) \/ WriteHosts(c)
  <2>1. CASE UNCHANGED vars
    BY <2>1 DEF vars, command
  <2>2. ASSUME NEW d \in Commands, (\E names \in SUBSET Names : BeginSync(d, names)) \/ BeginClean(d)
        PROVE  FALSE
    BY <2>2, <1>G DEF BeginSync, BeginClean
  <2>3. ASSUME NEW d \in Commands,
               ReadForSync(d) \/ OpenTmp(d) \/ WriteTmp(d) \/ RenameFails(d) \/ RemoveTmp(d)
                 \/ OpenHosts(d) \/ Stops(d)
        PROVE  FALSE
    BY <2>3, <1>G DEF ReadForSync, OpenTmp, WriteTmp, RenameFails, RemoveTmp, OpenHosts, Stops
  <2>4. ASSUME NEW d \in Commands, ReadForClean(d) \/ Rename(d) \/ WriteHosts(d) PROVE d = c
    BY <2>4, <1>G DEF ReadForClean, Rename, WriteHosts
  <2> QED
    BY <2>1, <2>2, <2>3, <2>4 DEF Next
<1>2. CASE ReadForClean(c)
  <2>1. pc[c] = "read" /\ op[c] = "clean" /\ alone' = alone /\ File' = File
    BY <1>2 DEF ReadForClean, history, File
  <2>2. ~HasBlock(File)
    BY <1>2, <1>G DEF ReadForClean
  <2>3. wants[c] = {}
    BY <2>1, <1>S DEF Resting
  <2> QED
    BY <2>1, <2>2, <2>3, ManagedNone
<1>3. CASE Rename(c)
  <2>1. pc[c] = "rename" /\ tmp # NoFile /\ hosts' = tmp /\ data' = data /\ alone' = alone
    BY <1>3 DEF Rename, history
  <2>2. ManagedHostnames(content[c]) = wants[c] /\ data[tmp] = content[c]
    BY <2>1, <1>S DEF Resting, Solo
  <2>3. File' = content[c]
    BY <2>1, <2>2 DEF File
  <2> QED
    BY <2>2, <2>3
<1>4. CASE WriteHosts(c)
  <2>1. pc[c] = "writeHosts" /\ WriteOpened(c) /\ hosts' = hosts /\ alone' = alone
    BY <1>4 DEF WriteHosts, history
  <2>2. /\ ManagedHostnames(content[c]) = wants[c] /\ fd[c] = hosts /\ data[hosts] = << >>
        /\ hosts \in Inodes
    BY <2>1, <1>S, <1>T DEF Resting, Solo
  <2>3. data' = [data EXCEPT ![hosts] = content[c]]
    BY <2>1, <2>2, WrittenAlone
  <2>4. File' = content[c]
    BY <2>1, <2>2, <2>3, <1>T DEF File
  <2> QED
    BY <2>2, <2>4
<1> QED
  BY <1>1, <1>2, <1>3, <1>4

\* Whatever commands that overlapped, failed or were killed had left behind, a
\* command that ran alone did what it says: after a sync the block lists the
\* names of the routes, after a clean there is none.
THEOREM HostsFileSyncTakesEffect == Spec => SyncTakesEffect
<1>1. Init => SoloInv
  BY SoloInit
<1>2. TypeInv /\ SoloInv /\ [Next]_vars => SoloInv'
  BY SoloStep
<1>3. TypeInv /\ SoloInv /\ [Next]_vars => TakesEffect
  BY SoloEnds
<1>4. Spec => [][TakesEffect]_vars
  BY <1>1, <1>2, <1>3, Typed, PTL DEF Spec
<1> QED
  BY <1>4 DEF SyncTakesEffect, TakesEffect

-------------------------------------------------------------------------------
(* Two commands at once                                                     *)

\* Up to the blank lines at its end, B is what is left of x without its blocks.
Kept(x, B) == TrimEnd(Outside(x)) = B

\* The texts that commands read and write, while the lines of others are those of B.
Based(x, B) == Kept(x, B) /\ Starts(x, B)

Base(B) == B \in Plain /\ OfOthers(B) = OfOthers(foreign)

LEMMA BlockNotOfOthers ==
  ASSUME NEW h \in SUBSET Names PROVE Block(h) \in Seq(Lines \ Foreign)
<1>1. PICK b : b = Block(h)
  OBVIOUS
<1>2. PICK n \in Nat : IsBlock(b, h, n)
  BY <1>1, BlockFacts
<1>3. b \in Seq(Lines) /\ Len(b) = n + 2
  BY <1>2 DEF IsBlock
<1>4. b[1] \notin Foreign /\ b[n + 2] \notin Foreign
  BY <1>2, LinesAssumption DEF IsBlock, Markers
<1>5. \A i \in 2..(n + 1) : b[i] \notin Foreign
  BY <1>2, LinesAssumption DEF IsBlock
<1>6. \A i \in 1..(n + 2) : i = 1 \/ i = n + 2 \/ i \in 2..(n + 1)
  OBVIOUS
<1>7. \A i \in 1..(n + 2) : b[i] \in Lines \ Foreign
  <2>1. \A i \in 1..(n + 2) : b[i] \in Lines
    BY <1>3
  <2> QED
    BY <2>1, <1>4, <1>5, <1>6
<1>8. b \in Seq(Lines \ Foreign)
  BY <1>3, <1>7
<1> QED
  BY <1>1, <1>8

\* What a command makes of a file with this rest.
LEMMA BasedSynced ==
  ASSUME NEW x \in Seq(Lines), NEW B, Kept(x, B), NEW h \in SUBSET Names
  PROVE  Based(Synced(x, h), B)
<1>1. B \in Plain /\ Synced(x, h) = B \o Block(h)
  BY SyncedText DEF Kept
<1>2. Outside(Synced(x, h)) = B
  BY <1>1, OutsideSynced
<1>3. TrimEnd(B) = B
  <2>1. Outside(x) \in Seq(Lines \ Markers)
    BY OutsideType
  <2>2. Trimmed(B)
    BY <2>1, TrimSplit DEF Kept
  <2>3. B \in Seq(Lines)
    BY <1>1, PlainFacts
  <2> QED
    BY <2>2, <2>3, TrimTrimmed
<1> QED
  BY <1>1, <1>2, <1>3, BlockNotOfOthers DEF Based, Kept, Starts

LEMMA BasedRemoved ==
  ASSUME NEW x \in Seq(Lines), NEW B, Kept(x, B)
  PROVE  Based(RemoveBlock(x), B)
<1>1. PICK y : y = RemoveBlock(x)
  OBVIOUS
<1>2. y = Outside(x) /\ y \in Plain
  BY <1>1, RemovedType
<1>3. Outside(y) = y /\ TrimEnd(y) = B
  BY <1>2, OutsidePlain DEF Kept
<1>4. PICK z \in Seq({"blank"}) : y = B \o z
  BY <1>2, <1>3, TrimSplit DEF Plain
<1>5. z \in Seq(Lines \ Foreign)
  <2>1. {"blank"} \subseteq Lines \ Foreign
    BY LinesAssumption DEF Lines
  <2> QED
    BY <2>1, <1>4, Widened
<1> QED
  BY <1>1, <1>3, <1>4, <1>5 DEF Based, Kept, Starts

LEMMA StartsType == ASSUME NEW B \in Plain, NEW x, Starts(x, B) PROVE x \in Seq(Lines)
<1>1. PICK z \in Seq(Lines \ Foreign) : x = B \o z
  BY DEF Starts
<1>2. Lines \ Foreign \subseteq Lines
  OBVIOUS
<1>3. B \in Seq(Lines) /\ z \in Seq(Lines)
  BY <1>2, PlainFacts, Widened
<1> QED
  BY <1>1, <1>3

LEMMA StartsOthers ==
  ASSUME NEW B, Base(B), NEW x, Starts(x, B) PROVE OfOthers(Outside(x)) = OfOthers(foreign)
<1>1. PICK z \in Seq(Lines \ Foreign) : x = B \o z
  BY DEF Starts
<1> QED
  BY <1>1, OthersJoined DEF Base

LEMMA KeptOthers ==
  ASSUME NEW B, Base(B), NEW x \in Seq(Lines), Kept(x, B)
  PROVE  OfOthers(Outside(x)) = OfOthers(foreign)
<1>1. Outside(x) \in Seq(Lines \ Markers)
  BY OutsideType
<1>2. OfOthers(TrimEnd(Outside(x))) = OfOthers(Outside(x))
  BY <1>1, OthersTrim
<1> QED
  BY <1>2 DEF Base, Kept

\* A file without a command at work is the start of the next.
LEMMA NextBase ==
  ASSUME NEW x \in Seq(Lines), OfOthers(Outside(x)) = OfOthers(foreign)
  PROVE  \E B : Base(B) /\ Kept(x, B)
<1>1. Outside(x) \in Seq(Lines \ Markers)
  BY OutsideType
<1>2. TrimEnd(Outside(x)) \in Plain
  BY <1>1, TrimSplit DEF Plain
<1>3. OfOthers(TrimEnd(Outside(x))) = OfOthers(Outside(x))
  BY <1>1, OthersTrim
<1> QED
  BY <1>2, <1>3 DEF Base, Kept

-------------------------------------------------------------------------------

Fine == ~crowded /\ ~stopped /\ ~refused

Nobody  == \A e \in Commands : pc[e] \in Resting
Only(c) == pc[c] \notin Resting /\ \A e \in Commands \ {c} : pc[e] \in Resting
Both(c, d) ==
  /\ c # d /\ pc[c] \notin Resting /\ pc[d] \notin Resting
  /\ \A e \in Commands \ {c, d} : pc[e] \in Resting

\* c is at work and no other is; if another was, it may have renamed the file
\* that c has opened or written, which then is c's no more.
Single(c, B) ==
  /\ crowd = 1 => Kept(File, B)
  /\ pc[c] = "read" => Kept(File, B)
  /\ pc[c] # "read" => Based(content[c], B)
  /\ pc[c] = "writeTmp" =>
       \/ fd[c] = tmp /\ data[tmp] = << >>
       \/ /\ fd[c] = hosts /\ tmp = NoFile /\ crowd = 2
          /\ data[hosts] = << >> \/ Starts(data[hosts], B)
  /\ pc[c] = "rename" =>
       IF tmp = NoFile THEN crowd = 2 ELSE data[tmp] = content[c]
  /\ pc[c] \in {"removeTmp", "openHosts", "writeHosts"} => crowd = 2
  /\ pc[c] = "writeHosts" => fd[c] = hosts /\ data[hosts] = << >>

\* c and d are at work: both on the one temporary file, which holds nothing, what
\* one of them has written, or, when both have written, what starts with B.
Beside(c, d, B) ==
  /\ pc[c] \in {"read", "openTmp", "writeTmp", "rename"}
  /\ pc[c] = "read" => Kept(File, B)
  /\ pc[c] # "read" => Based(content[c], B)
  /\ pc[c] = "writeTmp" => fd[c] = tmp /\ (pc[d] = "rename" \/ data[tmp] = << >>)
  /\ pc[c] = "rename" =>
       /\ tmp # NoFile
       /\ \/ data[tmp] = content[c]
          \/ pc[d] = "writeTmp" /\ data[tmp] = << >>
          \/ pc[d] = "rename" /\ Starts(data[tmp], B)

OneAtWork(c)    == Only(c) /\ crowd \in {1, 2} /\ \E B : Base(B) /\ Single(c, B)
TwoAtWork(c, d) ==
  Both(c, d) /\ crowd = 2 /\ \E B : Base(B) /\ Beside(c, d, B) /\ Beside(d, c, B)

TwoInv ==
  Fine => \/ Nobody /\ OfOthers(Outside(File)) = OfOthers(foreign)
          \/ \E c \in Commands : OneAtWork(c)
          \/ \E c, d \in Commands : TwoAtWork(c, d)

LEMMA TwoInit == ASSUME Init PROVE TwoInv
<1>1. Nobody
  BY DEF Init, Nobody, Resting
<1>2. PICK S : S = Lines \ {"garbage"}
  OBVIOUS
<1>3. File \in Seq(S) /\ foreign = TrimEnd(Outside(File))
  BY <1>2, FilesFound
<1>4. Outside(File) \in Seq(S \ Markers)
  BY <1>3, OutsideType
<1>5. OfOthers(foreign) = OfOthers(Outside(File))
  BY <1>3, <1>4, OthersTrim
<1> QED
  BY <1>1, <1>5 DEF TwoInv

\* A command that begins is the first, or the second and the last.
LEMMA TwoBegins ==
  ASSUME TypeInv, TwoInv, Fine, Fine', NEW c \in Commands, pc[c] \in Resting, Begun(c),
         Goto(c, "read"), UNCHANGED <<hosts, tmp, data, content, fd>>
  PROVE  TwoInv'
<1> DEFINE others == {d \in Commands \ {c} : pc[d] \notin Resting}
           n == IF others = {} THEN 1 ELSE crowd + 1
<1>1. foreign' = foreign /\ crowd' = n /\ (n >= 3 => crowded')
  <2>1. crowded' = (crowded \/ n >= 3) /\ foreign' = foreign /\ crowd' = n
    BY DEF Begun
  <2> QED
    BY <2>1
<1>2. pc' = [pc EXCEPT ![c] = "read"] /\ pc \in [Commands -> Labels]
  BY DEF TypeInv, TypeOK, Goto, Labels
<1>3. pc'[c] = "read" /\ "read" \notin Resting /\ \A d \in Commands \ {c} : pc'[d] = pc[d]
  BY <1>2 DEF Resting
<1>4. File' = File /\ File \in Seq(Lines)
  BY FileType DEF File, TypeInv
<1>5. \A B : Base(B) => Base(B)'
  BY <1>1 DEF Base
<1>6. CASE Nobody /\ OfOthers(Outside(File)) = OfOthers(foreign)
  <2>1. others = {} /\ crowd' = 1
    BY <1>1, <1>6 DEF Nobody
  <2>2. PICK B : Base(B) /\ Kept(File, B)
    BY <1>4, <1>6, NextBase
  <2>3. Single(c, B)'
    BY <1>3, <1>4, <2>2 DEF Single
  <2>4. Only(c)'
    BY <1>3, <1>6 DEF Only, Nobody
  <2>5. OneAtWork(c)'
    BY <2>1, <2>2, <2>3, <2>4, <1>5 DEF OneAtWork
  <2> QED
    BY <2>5 DEF TwoInv
<1>7. CASE \E d \in Commands : OneAtWork(d)
  <2> PICK d \in Commands : OneAtWork(d)
    BY <1>7
  <2>1. PICK B : /\ d \in Commands /\ Only(d) /\ crowd \in {1, 2}
                /\ Base(B) /\ Single(d, B)
    BY DEF OneAtWork
  <2>2. d # c /\ others # {}
    BY <2>1 DEF Only
  <2>3. crowd = 1 /\ crowd' = 2
    BY <1>1, <2>1, <2>2 DEF Fine
  <2>4. Both(c, d)'
    BY <1>3, <2>1, <2>2 DEF Both, Only
  <2>5. Kept(File, B)
    BY <2>1, <2>3 DEF Single
  <2>6. Beside(c, d, B)'
    BY <1>3, <1>4, <2>5 DEF Beside
  <2>7. pc[d] \in Labels \ Resting
    BY <1>2, <2>1 DEF Only
  <2>8. Beside(d, c, B)'
    BY <1>3, <1>4, <2>1, <2>2, <2>3, <2>5, <2>7 DEF Beside, Single, Labels, Resting
  <2>9. TwoAtWork(c, d)'
    BY <2>1, <2>3, <2>4, <2>6, <2>8, <1>5 DEF TwoAtWork
  <2> QED
    BY <2>9 DEF TwoInv
<1>8. CASE \E d, e \in Commands : TwoAtWork(d, e)
  <2>1. PICK d, e \in Commands : Both(d, e) /\ crowd = 2
    BY <1>8 DEF TwoAtWork
  <2>2. others # {}
    BY <2>1 DEF Both
  <2>3. n >= 3
    BY <2>1, <2>2
  <2> QED
    BY <1>1, <2>3 DEF Fine
<1> QED
  BY <1>6, <1>7, <1>8 DEF TwoInv

\* Who is at work after a step.
LEMMA OneGoes ==
  ASSUME TypeInv, NEW c \in Commands, Only(c), NEW l, Goto(c, l)
  PROVE  pc'[c] = l /\ (l \notin Resting => Only(c)') /\ (l \in Resting => Nobody')
<1>1. pc'[c] = l /\ \A e \in Commands \ {c} : pc'[e] = pc[e]
  BY DEF TypeInv, TypeOK, Goto
<1> QED
  BY <1>1 DEF Only, Nobody

LEMMA OneOfTwoGoes ==
  ASSUME TypeInv, NEW c \in Commands, NEW d \in Commands, Both(c, d), NEW l, Goto(c, l)
  PROVE  /\ pc'[c] = l /\ pc'[d] = pc[d]
         /\ l \notin Resting => Both(c, d)'
         /\ l \in Resting => Only(d)'
<1>1. pc'[c] = l /\ \A e \in Commands \ {c} : pc'[e] = pc[e]
  BY DEF TypeInv, TypeOK, Goto
<1> QED
  BY <1>1 DEF Only, Both

Works(c) ==
  \/ ReadForSync(c) \/ ReadForClean(c) \/ OpenTmp(c) \/ WriteTmp(c) \/ Rename(c)
  \/ RenameFails(c) \/ RemoveTmp(c) \/ OpenHosts(c) \/ WriteHosts(c)

\* The steps that depend on what a command has written.
LEMMA TmpWritten ==
  ASSUME TypeInv, NEW c \in Commands, WriteTmp(c), fd[c] = tmp
  PROVE  /\ tmp' = tmp /\ tmp # NoFile /\ File' = File /\ content' = content /\ fd'[c] = NoFile
         /\ \A d \in Commands \ {c} : fd'[d] = fd[d]
         /\ data'[tmp'] \in Overwritten(data[tmp], content[c])
         /\ data[tmp] = << >> => data'[tmp'] = content[c]
<1>1. /\ {hosts, tmp} \subseteq Inodes \cup {NoFile} /\ (hosts = tmp => hosts = NoFile)
      /\ fd \in [Commands -> Inodes \cup {NoFile}] /\ data \in [Inodes -> Seq(Lines)]
      /\ fd[c] # NoFile
  BY DEF TypeInv, TypeOK, WriteTmp
<1>2. UNCHANGED <<hosts, tmp, content>> /\ WriteOpened(c)
  BY DEF WriteTmp
<1>3. PICK x \in Overwritten(data[tmp], content[c]) : data' = [data EXCEPT ![tmp] = x]
  BY <1>2 DEF WriteOpened
<1>4. File' = File
  BY <1>1, <1>2, <1>3 DEF File
<1>5. data'[tmp'] = x /\ tmp \in Inodes
  BY <1>1, <1>2, <1>3
<1>6. fd' = [fd EXCEPT ![c] = NoFile]
  BY <1>2 DEF WriteOpened
<1>7. data[tmp] = << >> => data'[tmp'] = content[c]
  <2>1. data[tmp] = << >> => data' = [data EXCEPT ![tmp] = content[c]]
    BY <1>2, <1>5, WrittenAlone
  <2> QED
    BY <2>1, <1>1, <1>2, <1>5
<1> QED
  BY <1>1, <1>2, <1>3, <1>4, <1>5, <1>6, <1>7

LEMMA HostsWritten ==
  ASSUME TypeInv, NEW c \in Commands, WriteOpened(c), fd[c] = hosts, hosts # NoFile,
         hosts' = hosts
  PROVE  /\ File' \in Overwritten(data[hosts], content[c])
         /\ data[hosts] = << >> => File' = content[c]
<1>1. /\ {hosts, tmp} \subseteq Inodes \cup {NoFile} /\ data \in [Inodes -> Seq(Lines)]
      /\ hosts \in Inodes
  BY DEF TypeInv, TypeOK
<1>2. PICK x \in Overwritten(data[hosts], content[c]) : data' = [data EXCEPT ![hosts] = x]
  BY DEF WriteOpened
<1>3. File' = x
  BY <1>1, <1>2 DEF File
<1>4. data[hosts] = << >> => data' = [data EXCEPT ![hosts] = content[c]]
  BY <1>1, WrittenAlone
<1>5. data[hosts] = << >> => File' = content[c]
  BY <1>1, <1>4 DEF File
<1> QED
  BY <1>2, <1>3, <1>5

LEMMA ReadText ==
  ASSUME TypeInv, NEW c \in Commands, NEW B, Kept(File, B),
         ReadForSync(c) \/ (ReadForClean(c) /\ pc'[c] # "done")
  PROVE  /\ Goto(c, "openTmp") /\ pc[c] = "read" /\ Based(content'[c], B) /\ File' = File
         /\ \A d \in Commands \ {c} : content'[d] = content[d]
         /\ UNCHANGED <<hosts, tmp, data, fd, foreign, crowd>>
<1>1. /\ content \in [Commands -> Seq(Lines)] /\ wants \in [Commands -> SUBSET Names]
      /\ pc \in [Commands -> Labels] /\ File \in Seq(Lines)
  BY FileType DEF TypeInv, TypeOK, Labels
<1>2. /\ UNCHANGED <<hosts, tmp, data, fd, foreign, crowd>> /\ pc[c] = "read" /\ Goto(c, "openTmp")
      /\ \/ content' = [content EXCEPT ![c] = Synced(File, wants[c])]
         \/ content' = [content EXCEPT ![c] = RemoveBlock(File)]
  <2>1. CASE ReadForSync(c)
    BY <2>1 DEF ReadForSync, history
  <2>2. CASE ReadForClean(c) /\ pc'[c] # "done"
    BY <2>2, <1>1 DEF ReadForClean, history, Goto
  <2> QED
    BY <2>1, <2>2
<1>3. /\ content'[c] = Synced(File, wants[c]) \/ content'[c] = RemoveBlock(File)
      /\ \A d \in Commands \ {c} : content'[d] = content[d]
  BY <1>1, <1>2
<1>4. Based(content'[c], B)
  <2>1. Based(Synced(File, wants[c]), B) /\ Based(RemoveBlock(File), B)
    BY <1>1, BasedSynced, BasedRemoved
  <2> QED
    BY <2>1, <1>3
<1>5. File' = File
  BY <1>2 DEF File
<1> QED
  BY <1>2, <1>3, <1>4, <1>5

LEMMA OneWorks ==
  ASSUME TypeInv, Fine, Fine', NEW c \in Commands, OneAtWork(c), Works(c)
  PROVE  TwoInv'
<1>1. PICK B : Base(B) /\ Single(c, B)
  BY DEF OneAtWork
<1>2. Only(c) /\ crowd \in {1, 2}
  BY DEF OneAtWork
<1>3. foreign' = foreign /\ crowd' = crowd
  BY DEF Works, ReadForSync, ReadForClean, OpenTmp, WriteTmp, Rename,
         RenameFails, RemoveTmp, OpenHosts, WriteHosts, history
<1>4. Base(B)'
  BY <1>1, <1>3 DEF Base
<1>T. /\ {hosts, tmp} \subseteq Inodes \cup {NoFile} /\ (hosts = tmp => hosts = NoFile)
      /\ data \in [Inodes -> Seq(Lines)] /\ File \in Seq(Lines)
      /\ \A d \in Commands : (fd[d] # NoFile) <=> (pc[d] \in {"writeTmp", "writeHosts"})
  BY FileType DEF TypeInv, TypeOK
<1>G. ASSUME NEW l \in Labels \ Resting, Goto(c, l), pc'[c] = l => Single(c, B)' PROVE TwoInv'
  <2>1. pc'[c] = l /\ Only(c)'
    BY <1>G, <1>2, OneGoes
  <2>2. OneAtWork(c)'
    BY <2>1, <1>G, <1>2, <1>3, <1>4 DEF OneAtWork
  <2> QED
    BY <2>2 DEF TwoInv
<1>D. ASSUME Goto(c, "done"), OfOthers(Outside(File')) = OfOthers(foreign) PROVE TwoInv'
  <2>1. Nobody'
    BY <1>D, <1>2, OneGoes DEF Resting
  <2> QED
    BY <2>1, <1>D, <1>3 DEF TwoInv
<1>5. CASE ReadForSync(c) \/ (ReadForClean(c) /\ pc'[c] # "done")
  <2>1. Kept(File, B)
    BY <1>1, <1>5 DEF Single, ReadForSync, ReadForClean
  <2>2. Goto(c, "openTmp") /\ Based(content'[c], B) /\ File' = File
    BY <2>1, <1>5, ReadText
  <2>3. pc'[c] = "openTmp" => Single(c, B)'
    BY <2>1, <2>2 DEF Single
  <2> QED
    BY <2>2, <2>3, <1>G DEF Labels, Resting
<1>6. CASE ReadForClean(c) /\ pc'[c] = "done"
  <2>1. Kept(File, B) /\ File' = File
    BY <1>1, <1>6 DEF Single, ReadForClean, File
  <2>2. Goto(c, "done")
    BY <1>6 DEF ReadForClean, Goto, TypeInv, TypeOK
  <2>3. OfOthers(Outside(File')) = OfOthers(foreign)
    BY <2>1, <1>1, <1>T, KeptOthers
  <2> QED
    BY <2>2, <2>3, <1>D
<1>7. CASE OpenTmp(c)
  <2>1. /\ tmp' # NoFile /\ data'[tmp'] = << >> /\ fd'[c] = tmp' /\ File' = File /\ content' = content
        /\ pc[c] = "openTmp" /\ Goto(c, "writeTmp")
    BY <1>7, TmpOpened
  <2>2. pc'[c] = "writeTmp" => Single(c, B)'
    BY <2>1, <1>1, <1>3 DEF Single
  <2> QED
    BY <2>1, <2>2, <1>G DEF Labels, Resting
<1>8. CASE WriteTmp(c)
  <2>1. pc[c] = "writeTmp" /\ Goto(c, "rename") /\ UNCHANGED <<hosts, tmp, content>>
    BY <1>8 DEF WriteTmp
  <2>2. CASE fd[c] = tmp /\ data[tmp] = << >>
    <3>1. tmp' # NoFile /\ File' = File /\ data'[tmp'] = content'[c]
      BY <1>8, <2>2, TmpWritten
    <3>2. pc'[c] = "rename" => Single(c, B)'
      BY <2>1, <3>1, <1>1, <1>3 DEF Single
    <3> QED
      BY <2>1, <3>2, <1>G DEF Labels, Resting
  <2>3. CASE tmp = NoFile /\ crowd = 2
    <3>1. pc'[c] = "rename" => Single(c, B)'
      BY <2>1, <2>3, <1>1, <1>3 DEF Single
    <3> QED
      BY <2>1, <3>1, <1>G DEF Labels, Resting
  <2> QED
    BY <2>1, <2>2, <2>3, <1>1 DEF Single
<1>9. CASE Rename(c)
  <2>1. pc[c] = "rename" /\ tmp # NoFile /\ hosts' = tmp /\ data' = data /\ Goto(c, "done")
    BY <1>9 DEF Rename
  <2>2. File' = content[c] /\ Starts(content[c], B)
    BY <2>1, <1>1 DEF File, Single, Based
  <2> QED
    BY <2>1, <2>2, <1>1, <1>D, StartsOthers
<1>10. CASE RenameFails(c)
  <2>1. tmp = NoFile
    BY <1>10 DEF RenameFails, Fine
  <2>2. pc[c] = "rename" /\ Goto(c, "removeTmp") /\ UNCHANGED <<hosts, tmp, data, content, fd>>
    BY <1>10 DEF RenameFails
  <2>3. pc'[c] = "removeTmp" => Single(c, B)'
    BY <2>1, <2>2, <1>1, <1>3 DEF Single
  <2> QED
    BY <2>2, <2>3, <1>G DEF Labels, Resting
<1>11. CASE RemoveTmp(c)
  <2>1. pc[c] = "removeTmp" /\ Goto(c, "openHosts") /\ UNCHANGED <<hosts, data, content, fd>>
    BY <1>11 DEF RemoveTmp
  <2>2. pc'[c] = "openHosts" => Single(c, B)'
    BY <2>1, <1>1, <1>3 DEF Single
  <2> QED
    BY <2>1, <2>2, <1>G DEF Labels, Resting
<1>12. CASE OpenHosts(c)
  <2>1. /\ data'[hosts'] = << >> /\ fd'[c] = hosts' /\ content' = content
        /\ pc[c] = "openHosts" /\ Goto(c, "writeHosts")
    BY <1>12, HostsOpened
  <2>2. pc'[c] = "writeHosts" => Single(c, B)'
    BY <2>1, <1>1, <1>3 DEF Single
  <2> QED
    BY <2>1, <2>2, <1>G DEF Labels, Resting
<1>13. CASE WriteHosts(c)
  <2>1. pc[c] = "writeHosts" /\ WriteOpened(c) /\ hosts' = hosts /\ Goto(c, "done")
    BY <1>13 DEF WriteHosts
  <2>2. fd[c] = hosts /\ data[hosts] = << >> /\ Starts(content[c], B) /\ hosts # NoFile
    BY <2>1, <1>1, <1>T DEF Single, Based
  <2>3. File' = content[c]
    BY <2>1, <2>2, HostsWritten
  <2> QED
    BY <2>1, <2>2, <2>3, <1>1, <1>D, StartsOthers
<1> QED
  BY <1>5, <1>6, <1>7, <1>8, <1>9, <1>10, <1>11, <1>12, <1>13 DEF Works

LEMMA TwoWork ==
  ASSUME TypeInv, Fine, Fine', NEW c \in Commands, NEW d \in Commands, TwoAtWork(c, d), Works(c)
  PROVE  TwoInv'
<1>1. PICK B : Base(B) /\ Beside(c, d, B) /\ Beside(d, c, B)
  BY DEF TwoAtWork
<1>2. Both(c, d) /\ crowd = 2 /\ c # d
  BY DEF TwoAtWork, Both
<1>3. foreign' = foreign /\ crowd' = crowd
  BY DEF Works, ReadForSync, ReadForClean, OpenTmp, WriteTmp, Rename,
         RenameFails, RemoveTmp, OpenHosts, WriteHosts, history
<1>4. Base(B)'
  BY <1>1, <1>3 DEF Base
<1>T. /\ {hosts, tmp} \subseteq Inodes \cup {NoFile} /\ (hosts = tmp => hosts = NoFile)
      /\ data \in [Inodes -> Seq(Lines)] /\ content \in [Commands -> Seq(Lines)]
      /\ fd \in [Commands -> Inodes \cup {NoFile}]
      /\ \A e \in Commands : (fd[e] # NoFile) <=> (pc[e] \in {"writeTmp", "writeHosts"})
  BY DEF TypeInv, TypeOK
<1>G. ASSUME NEW l \in Labels \ Resting, Goto(c, l),
             pc'[c] = l /\ pc'[d] = pc[d] => (Beside(c, d, B) /\ Beside(d, c, B))'
      PROVE  TwoInv'
  <2>1. pc'[c] = l /\ pc'[d] = pc[d] /\ Both(c, d)'
    BY <1>G, <1>2, OneOfTwoGoes
  <2>2. TwoAtWork(c, d)'
    BY <2>1, <1>G, <1>2, <1>3, <1>4 DEF TwoAtWork
  <2> QED
    BY <2>2 DEF TwoInv
<1>D. ASSUME Goto(c, "done"), pc'[d] = pc[d] => Single(d, B)' PROVE TwoInv'
  <2>1. pc'[d] = pc[d] /\ Only(d)'
    BY <1>D, <1>2, OneOfTwoGoes DEF Resting
  <2>2. OneAtWork(d)'
    BY <2>1, <1>D, <1>2, <1>3, <1>4 DEF OneAtWork
  <2> QED
    BY <2>2 DEF TwoInv
<1>5. CASE ReadForSync(c) \/ (ReadForClean(c) /\ pc'[c] # "done")
  <2>1. Kept(File, B)
    BY <1>1, <1>5 DEF Beside, ReadForSync, ReadForClean
  <2>2. /\ Goto(c, "openTmp") /\ pc[c] = "read" /\ Based(content'[c], B) /\ File' = File
        /\ content'[d] = content[d] /\ UNCHANGED <<tmp, data, fd>>
    BY <2>1, <1>2, <1>5, ReadText
  <2>3. pc'[c] = "openTmp" /\ pc'[d] = pc[d] => (Beside(c, d, B) /\ Beside(d, c, B))'
    BY <2>2, <1>1 DEF Beside
  <2> QED
    BY <2>2, <2>3, <1>G DEF Labels, Resting
<1>6. CASE ReadForClean(c) /\ pc'[c] = "done"
  <2>1. pc[c] = "read" /\ UNCHANGED <<hosts, tmp, data, fd>> /\ File' = File
    BY <1>6 DEF ReadForClean, File
  <2>2. Goto(c, "done") /\ content'[d] = content[d]
    BY <1>2, <1>6, <1>T DEF ReadForClean, Goto, Forget, TypeInv, TypeOK
  <2>3. pc'[d] = pc[d] => Single(d, B)'
    BY <2>1, <2>2, <1>1, <1>2, <1>3 DEF Beside, Single
  <2> QED
    BY <2>2, <2>3, <1>D
<1>7. CASE OpenTmp(c)
  <2>1. /\ tmp' # NoFile /\ (tmp # NoFile => tmp' = tmp) /\ data'[tmp'] = << >> /\ fd'[c] = tmp'
        /\ File' = File /\ content' = content /\ fd' = [fd EXCEPT ![c] = tmp']
        /\ pc[c] = "openTmp" /\ Goto(c, "writeTmp")
    BY <1>7, TmpOpened
  <2>2. fd'[d] = fd[d] /\ (pc[d] = "writeTmp" => fd[d] = tmp /\ tmp # NoFile)
    BY <2>1, <1>1, <1>2, <1>T DEF Beside
  <2>3. pc'[c] = "writeTmp" /\ pc'[d] = pc[d] => (Beside(c, d, B) /\ Beside(d, c, B))'
    BY <2>1, <2>2, <1>1 DEF Beside
  <2> QED
    BY <2>1, <2>3, <1>G DEF Labels, Resting
<1>8. CASE WriteTmp(c)
  <2>1. pc[c] = "writeTmp" /\ Goto(c, "rename")
    BY <1>8 DEF WriteTmp
  <2>2. fd[c] = tmp
    BY <2>1, <1>1 DEF Beside
  <2>3. /\ tmp' = tmp /\ tmp # NoFile /\ File' = File /\ content' = content
        /\ fd'[d] = fd[d] /\ data'[tmp'] \in Overwritten(data[tmp], content[c])
        /\ data[tmp] = << >> => data'[tmp'] = content[c]
    BY <1>2, <1>8, <2>2, TmpWritten
  <2>4. Based(content[c], B) /\ (Based(content[d], B) \/ pc[d] = "read")
    BY <2>1, <1>1 DEF Beside
  <2>5. Based(content[c], B)
    BY <2>1, <1>1 DEF Beside
  <2>6. pc[d] # "rename" => data'[tmp'] = content[c]
    BY <2>1, <2>3, <1>1 DEF Beside
  <2>7. pc[d] = "rename" => Starts(data'[tmp'], B)
    <3> SUFFICES ASSUME pc[d] = "rename" PROVE Starts(data'[tmp'], B)
      OBVIOUS
    <3>1. data[tmp] = << >> \/ data[tmp] = content[d]
      BY <2>1, <1>1 DEF Beside
    <3>2. Starts(content[c], B) /\ Starts(content[d], B) /\ B \in Plain
      BY <2>4, <2>5, <1>1 DEF Based, Base
    <3>3. CASE data[tmp] = << >>
      BY <3>2, <3>3, <2>3
    <3>4. CASE data[tmp] = content[d]
      BY <3>2, <3>4, <2>3, WrittenStarts
    <3> QED
      BY <3>1, <3>3, <3>4
  <2>8. pc'[c] = "rename" /\ pc'[d] = pc[d] => (Beside(c, d, B) /\ Beside(d, c, B))'
    BY <2>1, <2>3, <2>5, <2>6, <2>7, <1>1 DEF Beside
  <2> QED
    BY <2>1, <2>8, <1>G DEF Labels, Resting
<1>9. CASE Rename(c)
  <2>1. /\ pc[c] = "rename" /\ tmp # NoFile /\ hosts' = tmp /\ tmp' = NoFile
        /\ data' = data /\ fd' = fd /\ Goto(c, "done") /\ Forget(c)
    BY <1>9 DEF Rename
  <2>2. content'[d] = content[d] /\ File' = data[tmp]
    BY <2>1, <1>2, <1>T DEF Forget, File
  <2>3. Kept(content[c], B) /\ Starts(content[c], B)
    BY <2>1, <1>1 DEF Beside, Based
  <2>4. pc[d] = "read" => Kept(File', B)
    BY <2>1, <2>2, <2>3, <1>1 DEF Beside
  <2>5. pc[d] = "writeTmp" => fd'[d] = hosts' /\ (data'[hosts'] = << >> \/ Starts(data'[hosts'], B))
    BY <2>1, <2>3, <1>1 DEF Beside
  <2>6. pc'[d] = pc[d] => Single(d, B)'
    BY <2>1, <2>2, <2>4, <2>5, <1>1, <1>2, <1>3 DEF Beside, Single
  <2> QED
    BY <2>1, <2>6, <1>D
<1>10. CASE RenameFails(c)
  BY <1>1, <1>10 DEF RenameFails, Fine, Beside
<1>11. CASE RemoveTmp(c) \/ OpenHosts(c) \/ WriteHosts(c)
  BY <1>1, <1>11 DEF RemoveTmp, OpenHosts, WriteHosts, Beside
<1> QED
  BY <1>5, <1>6, <1>7, <1>8, <1>9, <1>10, <1>11 DEF Works

LEMMA TwoStep == ASSUME TypeInv, TwoInv, [Next]_vars PROVE TwoInv'
<1>1. CASE UNCHANGED vars
  BY <1>1 DEF TwoInv, Fine, Nobody, OneAtWork, TwoAtWork, Only, Both, Base, Single, Beside, File,
              vars, command, history
<1>2. CASE Next
  <2> SUFFICES ASSUME Fine' PROVE TwoInv'
    BY DEF TwoInv
  <2>1. Fine
    BY <1>2, HistoryGrows DEF Fine
  <2>2. PICK c \in Commands :
          \/ \E names \in SUBSET Names : BeginSync(c, names)
          \/ BeginClean(c) \/ Works(c) \/ Stops(c)
    BY <1>2 DEF Next, Works
  <2>3. CASE (\E names \in SUBSET Names : BeginSync(c, names)) \/ BeginClean(c)
    <3>1. /\ pc[c] \in Resting /\ Begun(c) /\ Goto(c, "read")
          /\ UNCHANGED <<hosts, tmp, data, content, fd>>
      BY <2>3 DEF BeginSync, BeginClean
    <3> QED
      BY <3>1, <2>1, TwoBegins
  <2>4. CASE Works(c)
    <3>1. pc[c] \notin Resting
      BY <2>4 DEF Works, ReadForSync, ReadForClean, OpenTmp, WriteTmp, Rename,
                  RenameFails, RemoveTmp, OpenHosts, WriteHosts, Resting
    <3>2. CASE Nobody
      BY <3>1, <3>2 DEF Nobody
    <3>3. CASE \E e \in Commands : OneAtWork(e)
      <4>1. OneAtWork(c)
        BY <3>1, <3>3 DEF OneAtWork, Only
      <4> QED
        BY <4>1, <2>1, <2>4, OneWorks
    <3>4. CASE \E d, e \in Commands : TwoAtWork(d, e)
      <4>1. PICK d, e \in Commands : TwoAtWork(d, e)
        BY <3>4
      <4>2. c = d \/ c = e
        BY <4>1, <3>1 DEF TwoAtWork, Both
      <4>3. TwoAtWork(e, d)
        BY <4>1 DEF TwoAtWork, Both
      <4> QED
        BY <4>1, <4>2, <4>3, <2>1, <2>4, TwoWork
    <3> QED
      BY <3>2, <3>3, <3>4, <2>1 DEF TwoInv
  <2>5. CASE Stops(c)
    BY <2>5 DEF Stops, Fine
  <2> QED
    BY <2>2, <2>3, <2>4, <2>5
<1> QED
  BY <1>1, <1>2

LEMMA TwoImplies == ASSUME TwoInv PROVE TwoAtOnceKeepForeignLines
<1> SUFFICES ASSUME Fine, \A c \in Commands : pc[c] \in Resting
             PROVE  OfOthers(Outside(File)) = OfOthers(foreign)
  BY DEF TwoAtOnceKeepForeignLines, Fine
<1>1. /\ ~ \E c \in Commands : OneAtWork(c)
      /\ ~ \E c, d \in Commands : TwoAtWork(c, d)
  BY DEF OneAtWork, TwoAtWork, Only, Both
<1> QED
  BY <1>1 DEF TwoInv

\* Two commands that overlap may truncate, write over and rename each other's
\* temporary file; when both have ended, the lines of others are as they were
\* found all the same, whatever the files.
THEOREM HostsFileTwoAtOnce == Spec => []TwoAtOnceKeepForeignLines
<1>1. Init => TwoInv
  BY TwoInit
<1>2. TypeInv /\ TwoInv /\ [Next]_vars => TwoInv'
  BY TwoStep
<1>3. TwoInv => TwoAtOnceKeepForeignLines
  BY TwoImplies
<1> QED
  BY <1>1, <1>2, <1>3, Typed, PTL DEF Spec
===============================================================================
