----------------------- MODULE RecordListCursorProofs -----------------------
(***************************************************************************)
(* Proofs about the lists of RecordList, for a table that stays as it is   *)
(* while the application browses it:                                       *)
(*   - a list holds consecutive records of the order (ListStaysRun) and a  *)
(*     remembered end is the end of the order (EndsHold);                  *)
(*   - the steps of a call do together what the call does on a cursor      *)
(*     (ListMovesAsCursor), and SEEK finds the first record with the key   *)
(*     (SeekFindsFirst).                                                   *)
(***************************************************************************)
EXTENDS RecordListBufferProofs, FunctionTheorems

-----------------------------------------------------------------------------
(* The order *)

Rows(t) == Meeting(t, Val)

(* The rows of the table in either order, walked either way, are ordered strictly. *)
LEMMA RowIs ==
    ASSUME NEW t \in [Rec -> Row], NEW x
    PROVE  x \in Rows(t) <=> x \in Rec /\ t[x] \in Val
  <1>1. NoRow \notin Val
    BY Bounds
  <1> QED BY <1>1 DEF Rows, Meeting

LEMMA OrderLaws ==
    ASSUME NEW t \in [Rec -> Row], NEW o, NEW d \in Dir
    PROVE  /\ \A x \in Rows(t) : ~Ahead(t, o, d, x, x)
           /\ \A x, y \in Rows(t) : Ahead(t, o, d, x, y) => ~Ahead(t, o, d, y, x)
           /\ \A x, y \in Rows(t) : Ahead(t, o, d, x, y) \/ Ahead(t, o, d, y, x) \/ x = y
           /\ \A x, y, z \in Rows(t) :
                  Ahead(t, o, d, x, y) /\ Ahead(t, o, d, y, z) => Ahead(t, o, d, x, z)
  <1>1. \A x \in Rows(t) : x \in Nat /\ t[x] \in Nat
    BY RowIs, Bounds
  <1>2. FWD # BWD /\ (d = FWD \/ d = BWD)
    BY DEF Dir, FWD, BWD
  <1>3. ASSUME NEW x \in Rows(t), NEW y \in Rows(t), NEW z \in Rows(t)
        PROVE  /\ ~Precedes(t, o, x, x)
               /\ Precedes(t, o, x, y) => ~Precedes(t, o, y, x)
               /\ Precedes(t, o, x, y) \/ Precedes(t, o, y, x) \/ x = y
               /\ Precedes(t, o, x, y) /\ Precedes(t, o, y, z) => Precedes(t, o, x, z)
    <2>1. x \in Nat /\ y \in Nat /\ z \in Nat /\ t[x] \in Nat /\ t[y] \in Nat /\ t[z] \in Nat
      BY <1>1
    <2> QED BY <2>1 DEF Precedes
  <1>4. CASE d = FWD
    BY <1>3, <1>4 DEF Ahead
  <1>5. CASE d = BWD
    BY <1>2, <1>3, <1>5 DEF Ahead
  <1> QED BY <1>2, <1>4, <1>5

(* The other way round. *)
LEMMA Reversed ==
    ASSUME NEW t, NEW o, NEW d \in Dir, NEW x, NEW y
    PROVE  -d \in Dir /\ -(-d) = d /\ (Ahead(t, o, -d, x, y) <=> Ahead(t, o, d, y, x))
  <1>1. (d = 1 \/ d = -1) /\ FWD = 1 /\ BWD = -1
    BY DEF Dir, FWD, BWD
  <1> QED BY <1>1 DEF Ahead, Dir

-----------------------------------------------------------------------------
(* What the server answers *)

Rank(t, o, d, A, x) == 1 + Cardinality({y \in A : Ahead(t, o, d, y, x)})

(* The ranks of the rows of A are 1, 2, ..., each of one row, as the rows come. *)
Counted(t, o, d, A) ==
    /\ IsFiniteSet(A) /\ Cardinality(A) \in Nat
    /\ \A x \in A : Rank(t, o, d, A, x) \in 1..Cardinality(A)
    /\ \A x, y \in A : Ahead(t, o, d, x, y) => Rank(t, o, d, A, x) < Rank(t, o, d, A, y)
    /\ \A i \in 1..Cardinality(A) : \E x \in A : Rank(t, o, d, A, x) = i

LEMMA RanksAreAll ==
    ASSUME NEW t \in [Rec -> Row], NEW o, NEW d \in Dir, NEW A, A \subseteq Rows(t)
    PROVE  Counted(t, o, d, A)
  <1> DEFINE N == Cardinality(A)
             Prior(x) == {y \in A : Ahead(t, o, d, y, x)}
             h == [x \in A |-> Rank(t, o, d, A, x)]
  <1>1. IsFiniteSet(A) /\ N \in Nat
    <2>1. IsFiniteSet(Rec) /\ A \subseteq Rec
      BY FS_Interval, Bounds DEF Rec, Rows, Meeting
    <2> QED BY <2>1, FS_Subset, FS_CardinalityType
  <1>2. ASSUME NEW x \in A
        PROVE  /\ IsFiniteSet(Prior(x)) /\ Cardinality(Prior(x)) \in Nat
               /\ Rank(t, o, d, A, x) = 1 + Cardinality(Prior(x))
               /\ Rank(t, o, d, A, x) \in 1..N
    <2>1. Prior(x) \in SUBSET A /\ x \notin Prior(x)
      BY OrderLaws
    <2>2. IsFiniteSet(Prior(x)) /\ Cardinality(Prior(x)) <= N /\ Prior(x) # A
      BY <1>1, <2>1, FS_Subset
    <2>3. Cardinality(Prior(x)) \in Nat /\ Cardinality(Prior(x)) < N
      BY <1>1, <2>1, <2>2, FS_Subset, FS_CardinalityType
    <2>4. Rank(t, o, d, A, x) = 1 + Cardinality(Prior(x))
      BY DEF Rank
    <2> HIDE DEF Prior, N
    <2> QED BY <1>1, <2>2, <2>3, <2>4
  <1>3. ASSUME NEW x \in A, NEW y \in A, Ahead(t, o, d, x, y)
        PROVE  Rank(t, o, d, A, x) < Rank(t, o, d, A, y)
    <2>1. Prior(x) \in SUBSET Prior(y) /\ x \notin Prior(x) /\ x \in Prior(y)
      BY <1>3, OrderLaws
    <2> HIDE DEF Prior
    <2>2. Prior(x) # Prior(y) /\ IsFiniteSet(Prior(y))
      BY <1>2, <2>1
    <2>3. Cardinality(Prior(x)) <= Cardinality(Prior(y)) /\ Cardinality(Prior(x)) # Cardinality(Prior(y))
      BY <2>1, <2>2, FS_Subset
    <2> QED BY <1>2, <2>3
  <1>4. h \in Injection(A, 1..N)
    <2>1. h \in [A -> 1..N]
      <3> HIDE DEF N
      <3> QED BY <1>2
    <2>2. ASSUME NEW x \in A, NEW y \in A, h[x] = h[y] PROVE x = y
      <3>1. Rank(t, o, d, A, x) = Rank(t, o, d, A, y) /\ Rank(t, o, d, A, x) \in Nat
        <4>1. h[x] = Rank(t, o, d, A, x) /\ h[y] = Rank(t, o, d, A, y)
          OBVIOUS
        <4>2. Rank(t, o, d, A, x) \in 1..N
          BY <1>2
        <4>3. N \in Nat
          BY <1>1
        <4> HIDE DEF N, h
        <4>4. Rank(t, o, d, A, x) \in Nat
          BY <4>2, <4>3
        <4> QED BY <2>2, <4>1, <4>4
      <3>2. ~Ahead(t, o, d, x, y) /\ ~Ahead(t, o, d, y, x)
        <4> HIDE DEF N, h
        <4> QED BY <1>3, <3>1
      <3> QED BY <3>2, OrderLaws
    <2> HIDE DEF h, N
    <2> QED BY <2>1, <2>2 DEF Injection, IsInjective
  <1>5. IsFiniteSet(1..N) /\ Cardinality(1..N) = N
    BY <1>1, FS_Interval
  <1>6. h \in Surjection(A, 1..N)
    <2> HIDE DEF h
    <2> QED BY <1>1, <1>4, <1>5, FS_Injection
  <1>7. \A i \in 1..N : \E x \in A : h[x] = i
    <2> HIDE DEF h
    <2> QED BY <1>6 DEF Surjection
  <1> QED BY <1>1, <1>2, <1>3, <1>7 DEF Counted

(* s has the records of the first k ranks of A. *)
Sorted(t, o, d, A, k, s) ==
    /\ s \in Seq(A) /\ Cardinality(A) \in Nat
    /\ Len(s) = IF Cardinality(A) < k THEN Cardinality(A) ELSE k
    /\ \A i \in 1..Len(s) : s[i] \in A /\ Rank(t, o, d, A, s[i]) = i
    /\ \A x \in A : Rank(t, o, d, A, x) <= k => \E i \in 1..Len(s) : s[i] = x
    /\ \A i, j \in 1..Len(s) : i < j => Ahead(t, o, d, s[i], s[j])
    /\ \A i, j \in 1..Len(s) : s[i] = s[j] => i = j

LEMMA AnswerIs ==
    ASSUME NEW t \in [Rec -> Row], NEW o, NEW d \in Dir, NEW A, A \subseteq Rows(t),
           NEW k \in Nat \ {0}, NEW s \in Answers(t, o, d, A, k)
    PROVE  Sorted(t, o, d, A, k, s)
  <1> DEFINE N == Cardinality(A)
             m == IF N < k THEN N ELSE k
  <1>1. /\ N \in Nat
        /\ \A x \in A : Rank(t, o, d, A, x) \in 1..N
        /\ \A x, y \in A : Ahead(t, o, d, x, y) => Rank(t, o, d, A, x) < Rank(t, o, d, A, y)
        /\ \A i \in 1..N : \E x \in A : Rank(t, o, d, A, x) = i
    <2>1. Counted(t, o, d, A)
      BY RanksAreAll
    <2> QED BY <2>1 DEF Counted
  <1>2. s \in Seq(A) /\ s = [i \in 1..m |-> CHOOSE x \in A : Rank(t, o, d, A, x) = i]
    BY DEF Answers, Ranked, Rank
  <1> HIDE DEF N
  <1>3. m \in Nat /\ m <= N /\ m <= k
    BY <1>1
  <1>4. Len(s) = m
    <2> HIDE DEF m
    <2>1. DOMAIN s = 1..m
      BY <1>2
    <2>2. DOMAIN s = 1..Len(s) /\ Len(s) \in Nat
      <3>1. s \in Seq(A)
        BY <1>2
      <3> QED BY <3>1
    <2> QED BY <1>3, <2>1, <2>2
  <1>5. ASSUME NEW i \in 1..Len(s) PROVE s[i] \in A /\ Rank(t, o, d, A, s[i]) = i
    <2>1. i \in 1..m /\ i \in 1..N
      BY <1>1, <1>3, <1>4
    <2>2. s[i] = CHOOSE x \in A : Rank(t, o, d, A, x) = i
      BY <1>2, <2>1
    <2>3. \E x \in A : Rank(t, o, d, A, x) = i
      BY <1>1, <2>1
    <2> QED BY <2>2, <2>3
  <1>6. ASSUME NEW x \in A, NEW y \in A, Rank(t, o, d, A, x) = Rank(t, o, d, A, y) PROVE x = y
    <2>1. ~Ahead(t, o, d, x, y) /\ ~Ahead(t, o, d, y, x)
      BY <1>1, <1>6
    <2> QED BY <2>1, OrderLaws
  <1>7. ASSUME NEW x \in A, Rank(t, o, d, A, x) <= k PROVE \E i \in 1..Len(s) : s[i] = x
    <2> DEFINE i == Rank(t, o, d, A, x)
    <2>1. i \in 1..Len(s)
      BY <1>1, <1>3, <1>4, <1>7
    <2>2. s[i] \in A /\ Rank(t, o, d, A, s[i]) = i
      BY <1>5, <2>1
    <2> QED BY <1>6, <2>1, <2>2
  <1>8. ASSUME NEW i \in 1..Len(s), NEW j \in 1..Len(s), i < j PROVE Ahead(t, o, d, s[i], s[j])
    <2>1. s[i] \in A /\ s[j] \in A /\ Rank(t, o, d, A, s[i]) = i /\ Rank(t, o, d, A, s[j]) = j
      BY <1>5
    <2>2. s[i] # s[j] /\ ~Ahead(t, o, d, s[j], s[i])
      BY <1>1, <1>8, <2>1
    <2> QED BY <2>1, <2>2, OrderLaws
  <1>9. ASSUME NEW i \in 1..Len(s), NEW j \in 1..Len(s), s[i] = s[j] PROVE i = j
    BY <1>5, <1>9
  <1> QED BY <1>1, <1>2, <1>4, <1>5, <1>7, <1>8, <1>9 DEF N, Sorted

(* x is the last row in direction d. *)
IsEnd(t, o, d, x) == x \in Rows(t) /\ \A r \in Rows(t) : ~Ahead(t, o, d, x, r)

(* y is the row after x in direction d. *)
NextTo(t, o, d, x, y) ==
    /\ x \in Rows(t) /\ y \in Rows(t) /\ Ahead(t, o, d, x, y)
    /\ \A r \in Rows(t) : ~(Ahead(t, o, d, x, r) /\ Ahead(t, o, d, r, y))

(* Consecutive rows. *)
Run(t, o, d, s) == \A i \in DOMAIN s : i + 1 \in DOMAIN s => NextTo(t, o, d, s[i], s[i + 1])

(* With a row A has all that follow it. *)
Rest(t, o, d, A) == A \subseteq Rows(t) /\ \A x \in A, y \in Rows(t) : Ahead(t, o, d, x, y) => y \in A

(* The run s begins with the first of A; it ends with the end of the order when *)
(* it has all of A, and only then.                                              *)
RunOf(t, o, d, A, s) ==
    /\ Run(t, o, d, s)
    /\ \A x \in A : 1 \in DOMAIN s => ~Ahead(t, o, d, x, s[1])
    /\ Len(s) >= 1 => (IsEnd(t, o, d, s[Len(s)]) <=> Len(s) = Cardinality(A))

LEMMA EndIsOne ==
    ASSUME NEW t \in [Rec -> Row], NEW o, NEW d \in Dir, NEW x, NEW y,
           IsEnd(t, o, d, x), IsEnd(t, o, d, y)
    PROVE  x = y
  BY OrderLaws DEF IsEnd

LEMMA NextIsOne ==
    ASSUME NEW t \in [Rec -> Row], NEW o, NEW d \in Dir, NEW x, NEW y, NEW z,
           NextTo(t, o, d, x, y), NextTo(t, o, d, x, z)
    PROVE  y = z
  BY OrderLaws DEF NextTo

(* An answer to a query for the rest of the order is a run of it. *)
LEMMA RestIsRun ==
    ASSUME NEW t \in [Rec -> Row], NEW o, NEW d \in Dir, NEW A, Rest(t, o, d, A),
           NEW k \in Nat \ {0}, NEW s \in Answers(t, o, d, A, k)
    PROVE  RunOf(t, o, d, A, s)
  <1> DEFINE R(x) == Rank(t, o, d, A, x)
             N == Cardinality(A)
  <1>1. A \subseteq Rows(t) /\ \A x \in A, y \in Rows(t) : Ahead(t, o, d, x, y) => y \in A
    BY DEF Rest
  <1>2. /\ N \in Nat
        /\ \A x \in A : R(x) \in 1..N
        /\ \A x, y \in A : Ahead(t, o, d, x, y) => R(x) < R(y)
        /\ \A i \in 1..N : \E x \in A : R(x) = i
    <2>1. Counted(t, o, d, A)
      BY <1>1, RanksAreAll
    <2> QED BY <2>1 DEF Counted
  <1>3. /\ s \in Seq(A)
        /\ Len(s) = IF N < k THEN N ELSE k
        /\ \A i \in 1..Len(s) : s[i] \in A /\ R(s[i]) = i
        /\ \A i, j \in 1..Len(s) : i < j => Ahead(t, o, d, s[i], s[j])
    <2>1. Sorted(t, o, d, A, k, s)
      BY <1>1, AnswerIs
    <2> QED BY <2>1 DEF Sorted
  <1> HIDE DEF R, N
  <1>4. DOMAIN s = 1..Len(s) /\ Len(s) \in Nat
    BY <1>3
  <1>5. ASSUME NEW i \in DOMAIN s, i + 1 \in DOMAIN s PROVE NextTo(t, o, d, s[i], s[i + 1])
    <2>1. /\ i \in 1..Len(s) /\ i + 1 \in 1..Len(s) /\ i < i + 1
      BY <1>4, <1>5
    <2>2. /\ s[i] \in A /\ s[i + 1] \in A /\ R(s[i]) = i /\ R(s[i + 1]) = i + 1
          /\ Ahead(t, o, d, s[i], s[i + 1])
      BY <1>3, <2>1
    <2>3. ASSUME NEW r \in Rows(t), Ahead(t, o, d, s[i], r), Ahead(t, o, d, r, s[i + 1])
          PROVE  FALSE
      <3>1. r \in A
        BY <1>1, <2>2, <2>3
      <3>2. R(s[i]) < R(r) /\ R(r) < R(s[i + 1]) /\ R(r) \in 1..N
        BY <1>2, <2>2, <2>3, <3>1
      <3> QED BY <1>2, <2>1, <2>2, <3>2
    <2> QED BY <1>1, <2>2, <2>3 DEF NextTo
  <1>6. ASSUME NEW x \in A, 1 \in DOMAIN s PROVE ~Ahead(t, o, d, x, s[1])
    <2>1. s[1] \in A /\ R(s[1]) = 1
      BY <1>3, <1>4, <1>6
    <2>2. R(x) \in 1..N
      BY <1>2
    <2> QED BY <1>2, <2>1, <2>2
  <1>7. ASSUME Len(s) >= 1 PROVE IsEnd(t, o, d, s[Len(s)]) <=> Len(s) = N
    <2> DEFINE e == s[Len(s)]
    <2>1. e \in A /\ R(e) = Len(s) /\ e \in Rows(t)
      BY <1>1, <1>3, <1>4, <1>7
    <2> HIDE DEF e
    <2>2. ASSUME Len(s) = N, NEW r \in Rows(t), Ahead(t, o, d, e, r) PROVE FALSE
      <3>1. r \in A /\ R(e) < R(r) /\ R(r) \in 1..N
        BY <1>1, <1>2, <2>1, <2>2
      <3> QED BY <1>2, <2>1, <2>2, <3>1
    <2>3. ASSUME IsEnd(t, o, d, e), Len(s) # N PROVE FALSE
      <3>1. Len(s) + 1 \in 1..N
        BY <1>2, <1>3, <1>4, <2>3
      <3>2. PICK x \in A : R(x) = Len(s) + 1
        BY <1>2, <3>1
      <3>3. x # e /\ ~Ahead(t, o, d, x, e)
        BY <1>2, <1>4, <2>1, <3>2
      <3>4. Ahead(t, o, d, e, x) /\ x \in Rows(t)
        BY <1>1, <2>1, <3>3, OrderLaws
      <3> QED BY <2>3, <3>4 DEF IsEnd
    <2> QED BY <2>1, <2>2, <2>3 DEF IsEnd, e
  <1> QED BY <1>5, <1>6, <1>7 DEF Run, RunOf, N

(* The list of GO TOP (d = FWD) and of GO BOTTOM (BWD). *)
LEMMA TopIsRun ==
    ASSUME NEW t \in [Rec -> Row], NEW o, NEW d \in Dir, Rows(t) # {},
           NEW k \in Nat \ {0}, NEW s \in Answers(t, o, d, Rows(t), k)
    PROVE  /\ s \in Seq(Rows(t)) /\ s # <<>> /\ Len(s) \in Nat \ {0} /\ Run(t, o, d, s)
           /\ IsEnd(t, o, -d, s[1])
           /\ Len(s) < k => IsEnd(t, o, d, s[Len(s)])
           /\ IsEnd(t, o, d, s[Len(s)]) => Len(s) = Cardinality(Rows(t))
  <1>1. Rest(t, o, d, Rows(t))
    BY DEF Rest
  <1>2. /\ s \in Seq(Rows(t)) /\ Cardinality(Rows(t)) \in Nat
        /\ Len(s) = IF Cardinality(Rows(t)) < k THEN Cardinality(Rows(t)) ELSE k
    <2>1. Sorted(t, o, d, Rows(t), k, s)
      BY AnswerIs
    <2> QED BY <2>1 DEF Sorted
  <1>3. Cardinality(Rows(t)) # 0
    <2>1. IsFiniteSet(Rows(t))
      BY RanksAreAll DEF Counted
    <2> QED BY <2>1, FS_EmptySet
  <1>4. Len(s) \in Nat \ {0} /\ s # <<>> /\ 1 \in DOMAIN s /\ s[1] \in Rows(t)
    <2> DEFINE N == Cardinality(Rows(t))
    <2>1. N \in Nat /\ N # 0 /\ Len(s) = IF N < k THEN N ELSE k
      BY <1>2, <1>3
    <2> HIDE DEF N
    <2>2. Len(s) \in Nat /\ Len(s) >= 1
      BY <2>1
    <2>3. 1 \in 1..Len(s) /\ DOMAIN s = 1..Len(s)
      BY <1>2, <2>2
    <2> QED BY <1>2, <2>2, <2>3
  <1>5. /\ Run(t, o, d, s)
        /\ \A x \in Rows(t) : ~Ahead(t, o, d, x, s[1])
        /\ IsEnd(t, o, d, s[Len(s)]) <=> Len(s) = Cardinality(Rows(t))
    <2>1. RunOf(t, o, d, Rows(t), s)
      BY <1>1, RestIsRun
    <2> QED BY <1>4, <2>1 DEF RunOf
  <1>6. IsEnd(t, o, -d, s[1])
    BY <1>4, <1>5, Reversed DEF IsEnd
  <1> QED BY <1>2, <1>4, <1>5, <1>6

-----------------------------------------------------------------------------
(* The table, and the list that follows *)

(* What the theorems assume of the rows: there is one, they are not as many as  *)
(* the list of GO TOP asks for, no more than a list of them share a key, and    *)
(* every SEEK meets one, from either end, or there is one row only.             *)
Suits(t) ==
    /\ Rows(t) # {}
    /\ Cardinality(Rows(t)) # TopSize
    /\ \A v \in Val : Cardinality({r \in Rec : t[r] = v}) <= ListSize
    /\ \/ \A x, y \in Rows(t) : x = y
       \/ \A v \in Seeks, d \in Dir : \E r \in Rows(t) : d * t[r] >= d * v

(* The query of a SKIP asks for the rest of the order, from the key of the current *)
(* record on; few rows share it and come before.                                   *)
LEMMA FromIsRest ==
    ASSUME table \in [Rec -> Row], Suits(table), NEW d \in Dir, NEW a, NEW h \in Rows(table),
           Here(a) = h, a.buf = table[h], a.stmt[d] = Val
    PROVE  /\ Rest(table, order, d, From(a, d))
           /\ h \in From(a, d)
           /\ Rank(table, order, d, From(a, d), h) <= ListSize
           /\ order = "recno" => Rank(table, order, d, From(a, d), h) = 1
  <1> DEFINE Key(r) == IF order = "recno" THEN r ELSE table[r]
             A == From(a, d)
             P == {y \in A : Ahead(table, order, d, y, h)}
             S == {r \in Rec : table[r] = table[h]}
  <1>1. A = {r \in Rows(table) : d * Key(r) >= d * Key(h)}
    BY DEF From, BoundKey, Rows
  <1>2. \A x \in Rows(table) : x \in Nat /\ x \in Rec /\ table[x] \in Nat /\ table[x] \in Val
    BY RowIs, Bounds
  <1>3. (d = 1 \/ d = -1) /\ FWD = 1 /\ BWD = -1
    BY DEF Dir, FWD, BWD
  <1>4. A = {r \in Rows(table) : IF d = FWD THEN Key(r) >= Key(h) ELSE Key(r) <= Key(h)}
    <2>1. \A r \in Rows(table) : Key(r) \in Nat
      BY <1>2
    <2> HIDE DEF Key, A
    <2>2. \A r \in Rows(table) : d * Key(r) >= d * Key(h) <=>
              IF d = FWD THEN Key(r) >= Key(h) ELSE Key(r) <= Key(h)
      <3>1. CASE d = 1
        BY <1>3, <2>1, <3>1
      <3>2. CASE d = -1
        BY <1>3, <2>1, <3>2
      <3> QED BY <1>3, <3>1, <3>2
    <2> QED BY <1>1, <2>2
  <1>5. \A x, y \in Rows(table) : Ahead(table, order, d, x, y) <=>
            IF d = FWD THEN Key(x) < Key(y) \/ (Key(x) = Key(y) /\ x < y)
            ELSE Key(y) < Key(x) \/ (Key(x) = Key(y) /\ y < x)
    <2> TAKE x, y \in Rows(table)
    <2>1. x \in Nat /\ y \in Nat /\ table[x] \in Nat /\ table[y] \in Nat
      BY <1>2
    <2> QED BY <2>1 DEF Ahead, Precedes
  <1> HIDE DEF A
  <1>6. \A r \in Rows(table) : Key(r) \in Nat
    BY <1>2
  <1>7. h \in A
    BY <1>4, <1>6
  <1>8. Rest(table, order, d, A)
    <2>1. ASSUME NEW x \in A, NEW y \in Rows(table), Ahead(table, order, d, x, y) PROVE y \in A
      <3>1. x \in Rows(table) /\ Key(x) \in Nat /\ Key(y) \in Nat /\ Key(h) \in Nat
        BY <1>4, <1>6
      <3>2. IF d = FWD THEN Key(x) >= Key(h) ELSE Key(x) <= Key(h)
        BY <1>4
      <3>3. IF d = FWD THEN Key(x) <= Key(y) ELSE Key(y) <= Key(x)
        <4> HIDE DEF Key
        <4> QED BY <1>5, <2>1, <3>1
      <3> HIDE DEF Key
      <3> QED BY <1>4, <3>1, <3>2, <3>3
    <2> QED BY <1>4, <2>1 DEF Rest
  <1>9. \A y \in P : y \in Rows(table) /\ Key(y) = Key(h) /\ y # h
    <2> TAKE y \in P
    <2>1. y \in Rows(table) /\ y \in A /\ Ahead(table, order, d, y, h)
      BY <1>4
    <2> HIDE DEF Key
    <2>2. Key(y) \in Nat /\ Key(h) \in Nat /\ y \in Nat /\ h \in Nat
      BY <1>2, <1>6, <2>1
    <2> QED BY <1>4, <1>5, <2>1, <2>2
  <1>10. Rank(table, order, d, A, h) = 1 + Cardinality(P)
    BY DEF Rank
  <1>11. CASE order = "recno"
    <2>1. P = {}
      BY <1>9, <1>11
    <2>2. Cardinality(P) = 0
      BY <2>1, FS_EmptySet
    <2> QED BY <1>7, <1>8, <1>10, <2>2, Bounds DEF A
  <1>12. CASE order # "recno"
    <2>1. P \in SUBSET S /\ h \in S /\ h \notin P
      <3>1. \A y \in P : y \in Rec /\ table[y] = table[h] /\ y # h
        BY <1>2, <1>9, <1>12
      <3> QED BY <1>2, <3>1
    <2>2. IsFiniteSet(Rec) /\ S \in SUBSET Rec
      BY FS_Interval, Bounds DEF Rec
    <2>3. IsFiniteSet(S) /\ Cardinality(S) \in Nat
      BY <2>2, FS_Subset, FS_CardinalityType
    <2>4. Cardinality(S) <= ListSize
      BY <1>2 DEF Suits
    <2> HIDE DEF P, S
    <2>5. P # S /\ IsFiniteSet(P) /\ Cardinality(P) <= Cardinality(S) /\ Cardinality(P) # Cardinality(S)
      BY <2>1, <2>3, FS_Subset
    <2>6. Cardinality(P) \in Nat
      BY <2>5, FS_CardinalityType
    <2> QED BY <1>7, <1>8, <1>10, <1>12, <2>3, <2>4, <2>5, <2>6, Bounds DEF A
  <1> QED BY <1>11, <1>12

(* The rows that follow the current one in an answer: none at the end of the order, *)
(* and else the next in the order and those after it.                               *)
Follows(t, o, d, h, s) ==
    IF s = <<>> THEN IsEnd(t, o, d, h)
    ELSE /\ s \in Seq(Rows(t)) /\ Len(s) \in Nat \ {0}
         /\ Run(t, o, d, s) /\ NextTo(t, o, d, h, s[1])
         /\ o = "recno" /\ Len(s) < ListSize => IsEnd(t, o, d, s[Len(s)])

LEMMA FollowingIs ==
    ASSUME NEW t \in [Rec -> Row], NEW o, NEW d \in Dir, NEW A, Rest(t, o, d, A),
           NEW h \in A, Rank(t, o, d, A, h) <= ListSize,
           o = "recno" => Rank(t, o, d, A, h) = 1,
           NEW s \in Answers(t, o, d, A, ListSize + 1)
    PROVE  (\E i \in DOMAIN s : s[i] = h) /\ Follows(t, o, d, h, Following(s, h))
  <1> DEFINE R(x) == Rank(t, o, d, A, x)
             N == Cardinality(A)
             L == ListSize
  <1>1. A \subseteq Rows(t) /\ L \in Nat \ {0} /\ L + 1 \in Nat \ {0}
    BY Bounds DEF Rest
  <1>2. /\ s \in Seq(A) /\ N \in Nat
        /\ Len(s) = IF N < L + 1 THEN N ELSE L + 1
        /\ \A i \in 1..Len(s) : s[i] \in A /\ R(s[i]) = i
        /\ \A x \in A : R(x) <= L + 1 => \E i \in 1..Len(s) : s[i] = x
        /\ \A i, j \in 1..Len(s) : i < j => Ahead(t, o, d, s[i], s[j])
        /\ \A i, j \in 1..Len(s) : s[i] = s[j] => i = j
    <2>1. Sorted(t, o, d, A, L + 1, s)
      BY <1>1, AnswerIs
    <2> QED BY <2>1 DEF Sorted
  <1>3. R(h) \in 1..N
    <2>1. Counted(t, o, d, A)
      BY <1>1, RanksAreAll
    <2> QED BY <2>1 DEF Counted
  <1>4. /\ Run(t, o, d, s)
        /\ Len(s) >= 1 => (IsEnd(t, o, d, s[Len(s)]) <=> Len(s) = N)
    <2>1. RunOf(t, o, d, A, s)
      BY <1>1, RestIsRun
    <2> QED BY <2>1 DEF RunOf
  <1>5. R(h) <= L /\ (o = "recno" => R(h) = 1)
    OBVIOUS
  <1> HIDE DEF R, N, L
  <1>6. R(h) <= L + 1
    BY <1>1, <1>2, <1>3, <1>5
  <1>7. PICK i \in 1..Len(s) : s[i] = h
    BY <1>2, <1>6
  <1>8. i = R(h) /\ DOMAIN s = 1..Len(s) /\ Len(s) \in Nat
    BY <1>2, <1>7
  <1> DEFINE F == Following(s, h)
             n == Len(s) - i
  <1>9. F = SubSeq(s, i + 1, Len(s))
    <2>1. (CHOOSE j \in DOMAIN s : s[j] = h) = i
      BY <1>2, <1>7, <1>8
    <2> QED BY <2>1 DEF Following
  <1>10. F \in Seq(Rows(t)) /\ Len(F) = n /\ \A j \in 1..n : F[j] = s[i + j]
    <2>1. s \in Seq(Rows(t))
      BY <1>1, <1>2
    <2>2. SubSeq(s, i + 1, Len(s)) = [j \in 1..n |-> s[i + j]]
      BY <1>7, <1>8
    <2>3. n \in Nat /\ \A j \in 1..n : i + j \in 1..Len(s)
      BY <1>7, <1>8
    <2>4. \A j \in 1..n : s[i + j] \in Rows(t)
      BY <1>1, <1>2, <2>3
    <2> DEFINE G == [j \in 1..n |-> s[i + j]]
    <2> HIDE DEF n
    <2>5. G \in Seq(Rows(t)) /\ Len(G) = n
      BY <2>3, <2>4
    <2>6. \A j \in 1..n : G[j] = s[i + j]
      OBVIOUS
    <2>7. F = G
      BY <1>9, <2>2
    <2> QED BY <2>5, <2>6, <2>7
  <1>11. n \in Nat
    BY <1>7, <1>8
  <1> HIDE DEF F
  <1>12. CASE F = <<>>
    <2>1. i = Len(s)
      BY <1>8, <1>10, <1>12
    <2>2. Len(s) = N /\ Len(s) >= 1
      BY <1>1, <1>2, <1>5, <1>7, <1>8, <2>1
    <2>3. IsEnd(t, o, d, h)
      BY <1>4, <1>7, <2>1, <2>2
    <2> QED BY <1>7, <1>8, <1>12, <2>3 DEF Follows, F
  <1>13. CASE F # <<>>
    <2>1. Len(F) \in Nat \ {0} /\ 1 \in 1..n
      BY <1>10, <1>11, <1>13
    <2>2. NextTo(t, o, d, h, F[1])
      <3>1. i \in DOMAIN s /\ i + 1 \in DOMAIN s /\ F[1] = s[i + 1]
        BY <1>7, <1>8, <1>10, <2>1
      <3> QED BY <1>4, <1>7, <3>1 DEF Run
    <2>3. Run(t, o, d, F)
      <3> SUFFICES ASSUME NEW j \in DOMAIN F, j + 1 \in DOMAIN F
                   PROVE  NextTo(t, o, d, F[j], F[j + 1])
        BY DEF Run
      <3>1. j \in 1..n /\ j + 1 \in 1..n
        BY <1>10
      <3>2. i + j \in DOMAIN s /\ (i + j) + 1 \in DOMAIN s /\ F[j] = s[i + j] /\ F[j + 1] = s[(i + j) + 1]
        <4>1. i + j \in 1..Len(s) /\ (i + j) + 1 \in 1..Len(s) /\ i + (j + 1) = (i + j) + 1
          BY <1>7, <1>8, <3>1
        <4>2. F[j] = s[i + j] /\ F[j + 1] = s[i + (j + 1)]
          BY <1>10, <3>1
        <4> QED BY <1>8, <4>1, <4>2
      <3> QED BY <1>4, <3>2 DEF Run
    <2>4. ASSUME o = "recno", Len(F) < L PROVE IsEnd(t, o, d, F[Len(F)])
      <3>1. i = 1 /\ Len(F) = Len(s) - 1
        BY <1>5, <1>8, <1>10, <2>4
      <3>2. Len(s) = N /\ Len(s) >= 1
        BY <1>1, <1>2, <1>7, <1>8, <2>4, <3>1
      <3>3. F[Len(F)] = s[Len(s)]
        BY <1>8, <1>10, <2>1, <3>1
      <3> QED BY <1>4, <3>2, <3>3
    <2> QED BY <1>7, <1>8, <1>10, <1>13, <2>1, <2>2, <2>3, <2>4 DEF Follows, F, L
  <1> QED BY <1>12, <1>13

-----------------------------------------------------------------------------
(* The area *)

(* Its list is a run of the order in the direction of the area; what it remembers as *)
(* an end is one; the first record of the order, when it begins a list of several,   *)
(* is remembered, and so is the last, when such a list reaches it: no query is made  *)
(* that would leave the list as it is and turn the direction.                        *)
Strung(a, t, o) ==
    /\ a.list # <<>>
    /\ Run(t, o, a.dir, a.list)
    /\ \A d \in Dir : a.ends[d] # 0 => IsEnd(t, o, d, a.ends[d])
    /\ Len(a.list) > 1 /\ IsEnd(t, o, -a.dir, a.list[1]) =>
         /\ a.ends[-a.dir] = a.list[1]
         /\ IsEnd(t, o, a.dir, a.list[Len(a.list)]) => a.ends[a.dir] = a.list[Len(a.list)]

(* It shows a row; at EOF() no query follows that would turn the list; between calls *)
(* it is in one of these states.                                                     *)
OnRow(a, t) == ~a.fEof /\ Here(a) \in Rows(t) /\ a.buf = t[Here(a)]
PastEnd(a) == Len(a.list) = 1 \/ a.ends[FWD] = Here(a)
Standing(a, t) == IF a.fEof THEN PastEnd(a) ELSE OnRow(a, t)

(* What browsing leaves alone: nothing is edited or marked, the statements are those *)
(* of the conditions, the number of the phantom record is no row's, and the pool has *)
(* rows of the table.                                                                *)
Still(a, t, on) ==
    /\ ~a.hot /\ ~a.isInsert
    /\ \A d \in Dir : a.stmt[d] \in {None, Val}
    /\ a.lastRec \notin Rows(t) /\ a.rcount + 1 \notin Rows(t)
    /\ \A r \in Rec : a.pool[r] # NoRow => a.pool[r] = t[r]
    /\ on => \A i \in DOMAIN a.del : ~a.del[i]

(* The area b stands where a does, and remembers the same. *)
Alike(a, b) ==
    /\ b.list = a.list /\ b.pos = a.pos /\ b.dir = a.dir /\ b.ends = a.ends
    /\ b.fBof = a.fBof /\ b.fEof = a.fEof /\ b.fBottom = a.fBottom

LEMMA AlikeStrung ==
    ASSUME NEW a, NEW b, Alike(a, b), NEW t, NEW o, Strung(a, t, o)
    PROVE  Strung(b, t, o) /\ Here(b) = Here(a)
  BY DEF Alike, Strung, Here

(* Every record of a list of several is a row. *)
LEMMA RunHasRows ==
    ASSUME NEW t, NEW o, NEW d, NEW s \in Seq(Rec), Run(t, o, d, s), Len(s) > 1
    PROVE  \A i \in DOMAIN s : s[i] \in Rows(t)
  <1> SUFFICES ASSUME NEW i \in 1..Len(s) PROVE s[i] \in Rows(t)
    OBVIOUS
  <1>1. DOMAIN s = 1..Len(s) /\ Len(s) \in Nat
    OBVIOUS
  <1>2. CASE i + 1 \in DOMAIN s
    BY <1>1, <1>2 DEF Run, NextTo
  <1>3. CASE i + 1 \notin DOMAIN s
    <2>1. i - 1 \in DOMAIN s /\ (i - 1) + 1 = i
      BY <1>1, <1>3
    <2> QED BY <1>1, <2>1 DEF Run, NextTo
  <1> QED BY <1>2, <1>3

(* A page that is read leaves the area where it is, and the current row, when there *)
(* is one, in the buffer.                                                           *)
LEMMA PageReadIs ==
    ASSUME NEW t \in [Rec -> Row], NEW a, NEW n, NEW i, Good(a, t, n, i),
           NEW on, Still(a, t, on), NEW M, on => M = {}
    PROVE  LET b == PageRead(a, t, M) IN
           /\ Still(b, t, on) /\ Alike(a, b)
           /\ Here(a) \in Rows(t) => b.buf = t[Here(a)]
  <1> DEFINE p == PoolWith(a, t)
             m == Here(a) \in M
             e == [a.del EXCEPT ![a.pos] = m]
             b == PageRead(a, t, M)
  <1>1. a \in Area /\ a.del \in Seq(BOOLEAN) /\ a.pos \in DOMAIN a.del
    BY DEF Good, Loose, Area
  <1>2. p \in [Rec -> Row] /\ \A r \in Rec : p[r] # NoRow => p[r] = t[r]
    <2>1. a.pool \in [Rec -> Row] /\ NoRow \in Row
      BY <1>1 DEF Area, Row
    <2> QED BY <2>1 DEF PoolWith, Still
  <1>3. DOMAIN e = DOMAIN a.del /\ (on => ~m /\ \A j \in DOMAIN e : ~e[j])
    BY <1>1 DEF Still
  <1>4. b = IF t[Here(a)] = NoRow THEN [a EXCEPT !.pool = p]
            ELSE [a EXCEPT !.pool = p, !.buf = t[Here(a)], !.del = e]
    BY DEF PageRead
  <1> HIDE DEF p, e, m, b
  <1>5. Still(b, t, on) /\ Alike(a, b)
    <2>1. CASE t[Here(a)] = NoRow
      BY <1>1, <1>2, <1>4, <2>1 DEF Still, Alike, Area
    <2>2. CASE t[Here(a)] # NoRow
      BY <1>1, <1>2, <1>3, <1>4, <2>2 DEF Still, Alike, Area
    <2> QED BY <2>1, <2>2
  <1>6. Here(a) \in Rows(t) => b.buf = t[Here(a)]
    <2>1. Here(a) \in Rows(t) => t[Here(a)] # NoRow
      BY DEF Rows, Meeting
    <2> QED BY <1>1, <1>4, <2>1 DEF Area
  <1> QED BY <1>5, <1>6 DEF b

(* A read of a row always succeeds. *)
LEMMA ReadIs ==
    ASSUME NEW t \in [Rec -> Row], NEW a, NEW n, NEW i, Good(a, t, n, i),
           NEW on, Still(a, t, on), NEW M, on => M = {}, Here(a) \in Rows(t)
    PROVE  LET b == Read(a, t, M) IN
           /\ Readable(a, t)
           /\ Still(b, t, on) /\ Alike(a, b) /\ Here(b) = Here(a) /\ b.buf = t[Here(a)]
  <1> DEFINE b == Read(a, t, M)
  <1>1. a \in Area /\ a.pos \in 1..Len(a.list) /\ Len(a.list) \in Nat /\ Here(a) \in Rec
    <2>1. Here(a) \in Rec
      BY HereIsRec
    <2>2. a \in Area /\ a.list \in Seq(Rec) /\ a.pos \in DOMAIN a.list
      BY DEF Good, Loose, Area
    <2> QED BY <2>1, <2>2
  <1>2. Readable(a, t)
    <2>1. a.pos \in a.pos..Len(a.list) /\ a.pos < a.pos + PageSize
      BY <1>1, Bounds
    <2>2. Here(a) \in Page(a)
      BY <2>1 DEF Page, Here
    <2> QED BY <1>1, <2>2 DEF Readable, Rows, Meeting
  <1>3. CASE a.pool[Here(a)] # NoRow
    <2>1. b = [a EXCEPT !.buf = a.pool[Here(a)]] /\ a.pool[Here(a)] = t[Here(a)]
      BY <1>1, <1>3 DEF Read, Still
    <2> HIDE DEF b
    <2>2. Still(b, t, on) /\ Alike(a, b) /\ b.buf = t[Here(a)]
      BY <1>1, <2>1 DEF Still, Alike, Area
    <2> QED BY <1>2, <2>2 DEF b, Alike, Here
  <1>4. CASE a.pool[Here(a)] = NoRow
    <2>1. b = PageRead(a, t, M)
      BY <1>4 DEF Read
    <2>2. Still(b, t, on) /\ Alike(a, b) /\ b.buf = t[Here(a)]
      BY <2>1, PageReadIs
    <2> HIDE DEF b
    <2> QED BY <1>2, <2>2 DEF b, Alike, Here
  <1> QED BY <1>3, <1>4

LEMMA CleanIs ==
    ASSUME NEW t, NEW a \in Area, NEW on, Still(a, t, on)
    PROVE  /\ Still(Clean(a), t, on) /\ Clean(a).fEof
           /\ Clean(a).list = a.list /\ Clean(a).pos = a.pos /\ Clean(a).dir = a.dir
           /\ Clean(a).ends = a.ends /\ Clean(a).fBof = a.fBof /\ Clean(a).fBottom = a.fBottom
           /\ Here(Clean(a)) = Here(a)
  BY DEF Clean, Still, Area, Here

(* The flags do not matter to the list. *)
Strings(a, b) == b.list = a.list /\ b.dir = a.dir /\ b.ends = a.ends

LEMMA StringsOK ==
    ASSUME NEW a, NEW b, Strings(a, b), NEW t, NEW o, Strung(a, t, o)
    PROVE  Strung(b, t, o)
  BY DEF Strings, Strung

(* A list of one record, with the ends as they were. *)
LEMMA OneStrung ==
    ASSUME NEW a \in Area, NEW t, NEW o, Len(a.list) = 1,
           \A d \in Dir : a.ends[d] # 0 => IsEnd(t, o, d, a.ends[d])
    PROVE  Strung(a, t, o)
  <1>1. a.list \in Seq(Rec)
    BY DEF Area
  <1>2. DOMAIN a.list = 1..1
    BY <1>1
  <1>3. a.list # <<>> /\ ~(Len(a.list) > 1) /\ \A j \in DOMAIN a.list : j + 1 \notin DOMAIN a.list
    BY <1>1, <1>2
  <1> QED BY <1>3 DEF Strung, Run

LEMMA AloneIs ==
    ASSUME NEW t \in [Rec -> Row], NEW o, NEW a, NEW n, NEW i, Good(a, t, n, i), Strung(a, t, o),
           NEW on, Still(a, t, on), NEW r \in Rec
    PROVE  LET b == Alone(a, r) IN
           /\ Still(b, t, on) /\ Strung(b, t, o) /\ Here(b) = r /\ Len(b.list) = 1
           /\ b.ends = a.ends /\ b.fBottom = a.fBottom /\ Good(b, t, n, i)
  <1> DEFINE b == Alone(a, r)
             m == MarkLeft(a)
  <1>0. on => ~m
    BY DEF MarkLeft, Still, Good, Loose, Area
  <1>1. Good(b, t, n, i) /\ Here(b) = r
    BY AloneOK DEF Good
  <1>2. Len(b.list) = 1 /\ b.ends = a.ends /\ b.fBottom = a.fBottom /\ b.del = <<m>>
    BY DEF Alone, Good, Loose, Area
  <1>3. Still(b, t, on)
    <2> DEFINE e == <<m>>
    <2>1. DOMAIN e = 1..1 /\ (on => ~e[1])
      BY <1>0
    <2>2. b.del = e
      BY <1>2
    <2>3. on => \A j \in DOMAIN b.del : ~b.del[j]
      <3> HIDE DEF e, b
      <3> QED BY <2>1, <2>2
    <2> HIDE DEF e
    <2> QED BY <2>3 DEF Alone, Good, Loose, Area, Still
  <1>4. b \in Area
    BY <1>1 DEF Good, Loose
  <1> HIDE DEF b
  <1>5. Strung(b, t, o)
    BY <1>2, <1>4, OneStrung DEF Strung
  <1> QED BY <1>1, <1>2, <1>3, <1>5 DEF b

(* GO TO a row stands on it; GO TO any other record stands past the end. *)
LEMMA GoToIs ==
    ASSUME NEW t \in [Rec -> Row], NEW o, NEW a, NEW n, NEW i, Good(a, t, n, i), TableFits(t, n),
           Strung(a, t, o), NEW on, Still(a, t, on), NEW M, on => M = {}, NEW r \in Rec
    PROVE  LET b == GoToOf(a, r, t, M) IN
           /\ Still(b, t, on) /\ Strung(b, t, o) /\ b.ends = a.ends /\ b.fBottom = a.fBottom
           /\ IF r \in Rows(t) THEN OnRow(b, t) /\ Here(b) = r /\ ~b.fBof
              ELSE b.fEof /\ Len(b.list) = 1
  <1> DEFINE b == GoToOf(a, r, t, M)
  <1>1. r # 0 /\ a \in Area
    BY Bounds DEF Good, Loose
  <1>2. r \in Rows(t) <=> t[r] # NoRow
    <2>1. t[r] \in Val \cup {NoRow} /\ NoRow \notin Val
      BY Bounds DEF Row
    <2> QED BY <2>1, RowIs
  <1>3. CASE (\E j \in DOMAIN a.list : a.list[j] = r) /\ Readable(Placed(a, r), t)
    <2> DEFINE p == Placed(a, r)
    <2>1. PlaceOf(a, r) \in DOMAIN a.list /\ a.list[PlaceOf(a, r)] = r
      BY <1>3 DEF PlaceOf
    <2>2. PlaceOf(a, r) \in Nat
      BY <1>1, <2>1 DEF Area
    <2>3. Good(p, t, n, i) /\ Here(p) = r /\ Still(p, t, on) /\ p.fBottom = a.fBottom /\ p.ends = a.ends
          /\ p.list = a.list /\ p.dir = a.dir /\ p.pool = a.pool /\ p.pos \in DOMAIN a.list
      BY <1>1, <2>1, <2>2 DEF Placed, Good, Loose, Area, Here, Still
    <2>4. Strung(p, t, o)
      BY <2>3, StringsOK DEF Strings
    <2>5. r \in Rows(t)
      <3>1. CASE Len(a.list) > 1
        BY <1>1, <2>1, <3>1, RunHasRows DEF Area, Strung
      <3>2. CASE ~(Len(a.list) > 1)
        <4>1. a.list \in Seq(Rec) /\ DOMAIN a.list \subseteq {1}
          BY <1>1, <3>2 DEF Area
        <4>2. \A q \in Page(p) : q = r
          <5>1. \A j \in p.pos..Len(p.list) : j \in DOMAIN a.list
            BY <2>3, <4>1
          <5>2. p.list[1] = r
            BY <2>1, <2>3, <4>1
          <5> QED BY <2>3, <4>1, <5>1, <5>2 DEF Page
        <4> HIDE DEF p
        <4>3. p.pool[r] # NoRow \/ t[r] # NoRow
          BY <1>3, <2>3, <4>2 DEF Readable, p
        <4>4. p.pool[r] # NoRow => p.pool[r] = t[r]
          BY <2>3 DEF Still
        <4> QED BY <1>2, <4>3, <4>4
      <3> QED BY <3>1, <3>2
    <2> DEFINE c == Read(p, t, M)
    <2> HIDE DEF p
    <2>6. Still(c, t, on) /\ Alike(p, c) /\ Here(c) = r /\ c.buf = t[r] /\ Good(c, t, n, i)
      BY <2>3, <2>5, ReadIs, ReadOK
    <2>7. b = OnIt(c)
      BY <1>1, <1>3 DEF GoToOf, p
    <2>8. Strung(c, t, o)
      BY <2>4, <2>6, AlikeStrung
    <2> HIDE DEF c, b
    <2>9. /\ b.list = c.list /\ b.dir = c.dir /\ b.ends = c.ends /\ b.pos = c.pos /\ b.buf = c.buf
          /\ b.fBottom = c.fBottom /\ ~b.fBof /\ ~b.fEof /\ Still(b, t, on)
      BY <2>6, <2>7 DEF OnIt, Good, Loose, Area, Still
    <2>10. Strung(b, t, o)
      BY <2>8, <2>9, StringsOK DEF Strings
    <2> QED BY <2>3, <2>5, <2>6, <2>9, <2>10 DEF b, OnRow, Here, Alike
  <1>4. CASE ~((\E j \in DOMAIN a.list : a.list[j] = r) /\ Readable(Placed(a, r), t))
    <2> DEFINE p == Alone(a, r)
               c == PageRead(p, t, M)
    <2>1. /\ Still(p, t, on) /\ Strung(p, t, o) /\ Here(p) = r /\ Len(p.list) = 1
          /\ p.ends = a.ends /\ p.fBottom = a.fBottom /\ Good(p, t, n, i)
      BY AloneIs
    <2>2. b = IF t[r] # NoRow THEN OnIt(c) ELSE Phantom(c)
      BY <1>1, <1>4 DEF GoToOf, Fetched
    <2> HIDE DEF p
    <2>3. Still(c, t, on) /\ Alike(p, c) /\ (r \in Rows(t) => c.buf = t[r]) /\ Good(c, t, n, i)
      BY <2>1, PageReadIs, PageReadOK
    <2>4. Strung(c, t, o) /\ Here(c) = r
      BY <2>1, <2>3, AlikeStrung
    <2> HIDE DEF c, b
    <2>5. c \in Area
      BY <2>3 DEF Good, Loose
    <2>6. CASE r \in Rows(t)
      <3>1. b = OnIt(c)
        BY <1>2, <2>2, <2>6
      <3>2. /\ b.list = c.list /\ b.dir = c.dir /\ b.ends = c.ends /\ b.pos = c.pos /\ b.buf = c.buf
            /\ b.fBottom = c.fBottom /\ ~b.fBof /\ ~b.fEof /\ Still(b, t, on)
        BY <2>3, <2>5, <3>1 DEF OnIt, Area, Still
      <3>3. Strung(b, t, o)
        BY <2>4, <3>2, StringsOK DEF Strings
      <3> QED BY <2>1, <2>3, <2>4, <2>6, <3>2, <3>3 DEF b, OnRow, Here, Alike
    <2>7. CASE r \notin Rows(t)
      <3>1. b = [Clean(c) EXCEPT !.fBof = TRUE]
        BY <1>2, <2>2, <2>7 DEF Phantom
      <3>2. /\ b.list = c.list /\ b.dir = c.dir /\ b.ends = c.ends
            /\ b.fBottom = c.fBottom /\ b.fEof /\ Still(b, t, on)
        BY <2>3, <2>5, <3>1 DEF Clean, Area, Still
      <3>3. Strung(b, t, o)
        BY <2>4, <3>2, StringsOK DEF Strings
      <3> QED BY <2>1, <2>3, <2>7, <3>2, <3>3 DEF b, Alike
    <2> QED BY <2>6, <2>7
  <1> QED BY <1>3, <1>4

(* Where GO TOP (d = FWD) and GO BOTTOM (BWD) leave the area. *)
Gone(a, t, o, d) ==
    /\ Strung(a, t, o) /\ Here(a) \in Rows(t) /\ IsEnd(t, o, -d, Here(a))
    /\ ~a.fEof /\ ~a.fBof /\ a.fBottom = (d = BWD)

LEMMA GoneToIs ==
    ASSUME NEW a \in Area, NEW d \in Dir
    PROVE  LET b == GoneTo(a, d) IN
           /\ b = [a EXCEPT !.fBof = FALSE, !.fEof = FALSE, !.fBottom = (d = BWD),
                            !.ends = [a.ends EXCEPT ![-d] = Here(a)]]
           /\ b.ends = [a.ends EXCEPT ![-d] = Here(a)]
           /\ b.list = a.list /\ b.pos = a.pos /\ b.dir = a.dir /\ b.buf = a.buf /\ b.del = a.del
           /\ ~b.fEof /\ ~b.fBof /\ b.fBottom = (d = BWD)
           /\ \A t, on : Still(a, t, on) => Still(b, t, on)
  <1> DEFINE b == GoneTo(a, d)
             h == Here(a)
             m == -d
             z == d = BWD
             e == [a.ends EXCEPT ![m] = h]
             u == [a EXCEPT !.fBof = FALSE, !.fEof = FALSE, !.fBottom = z]
  <1>1. b = [u EXCEPT !.ends[m] = h]
    BY DEF GoneTo, OnIt
  <1>2. u.ends = a.ends
    BY DEF Area
  <1> HIDE DEF h, m, z, b
  <1>3. b = [u EXCEPT !.ends = e]
    <2> HIDE DEF u
    <2> QED BY <1>1, <1>2
  <1> HIDE DEF e
  <1>4. b = [a EXCEPT !.fBof = FALSE, !.fEof = FALSE, !.fBottom = z, !.ends = e]
    BY <1>3
  <1> HIDE DEF u
  <1>5. /\ b.ends = e /\ b.list = a.list /\ b.pos = a.pos /\ b.dir = a.dir /\ b.buf = a.buf /\ b.del = a.del
        /\ ~b.fEof /\ ~b.fBof /\ b.fBottom = z
        /\ b.hot = a.hot /\ b.isInsert = a.isInsert /\ b.stmt = a.stmt /\ b.lastRec = a.lastRec
        /\ b.rcount = a.rcount /\ b.pool = a.pool
    BY <1>4 DEF Area
  <1>6. \A t, on : Still(a, t, on) => Still(b, t, on)
    BY <1>5 DEF Still
  <1> QED BY <1>4, <1>5, <1>6 DEF b, e, h, m, z

(* The end is remembered. *)
LEMMA GoneKnown ==
    ASSUME NEW t, NEW o, NEW d \in Dir, NEW a \in Area,
           Strung(a, t, o), Here(a) \in Rows(t), a.ends[-d] = Here(a), IsEnd(t, o, -d, Here(a)),
           NEW on, Still(a, t, on)
    PROVE  Gone(GoneTo(a, d), t, o, d) /\ Still(GoneTo(a, d), t, on) /\ Here(GoneTo(a, d)) = Here(a)
  <1> DEFINE b == GoneTo(a, d)
  <1>1. a.ends \in [Dir -> 0..MaxRec] /\ -d \in Dir
    BY Bounds DEF Area
  <1>2. [a.ends EXCEPT ![-d] = Here(a)] = a.ends
    BY <1>1
  <1>3. /\ b.list = a.list /\ b.dir = a.dir /\ b.ends = a.ends /\ b.pos = a.pos
        /\ ~b.fEof /\ ~b.fBof /\ b.fBottom = (d = BWD) /\ Still(b, t, on)
    BY <1>2, GoneToIs
  <1> HIDE DEF b
  <1>4. Strung(b, t, o)
    BY <1>3, StringsOK DEF Strings
  <1> QED BY <1>3, <1>4 DEF b, Gone, Here

(* The end is asked for. *)
LEMMA GoneAsked ==
    ASSUME NEW t \in [Rec -> Row], Suits(t), NEW o, NEW d \in Dir,
           NEW a, NEW n, NEW u, Loose(a, t, n, u),
           \A e \in Dir : a.ends[e] # 0 => IsEnd(t, o, e, a.ends[e]),
           NEW on, Still(a, t, on), on => marked = {},
           NEW s \in Answers(t, o, d, Rows(t), TopSize)
    PROVE  LET b == GoneTo(TopList(a, d, s), d) IN
           Gone(b, t, o, d) /\ Still(b, t, on)
  <1> DEFINE b == GoneTo(TopList(a, d, s), d)
             m == [i \in 1..Len(s) |-> s[i] \in marked]
             c == Listed([a EXCEPT !.dir = d, !.condChanged = FALSE], s, marked)
             x == IF Len(s) < TopSize THEN s[Len(s)] ELSE a.ends[d]
             y == s[1]
             e == [a.ends EXCEPT ![d] = x]
             f == [e EXCEPT ![-d] = y]
             z == d = BWD
  <1>1. a \in Area
    BY DEF Loose
  <1>2. /\ s \in Seq(Rows(t)) /\ s # <<>> /\ Len(s) \in Nat \ {0} /\ Run(t, o, d, s)
        /\ IsEnd(t, o, -d, s[1])
        /\ Len(s) < TopSize => IsEnd(t, o, d, s[Len(s)])
        /\ IsEnd(t, o, d, s[Len(s)]) => Len(s) = Cardinality(Rows(t))
    BY TopIsRun, Bounds DEF Suits
  <1>3. Len(s) # TopSize \/ ~IsEnd(t, o, d, s[Len(s)])
    BY <1>2 DEF Suits
  <1>4. Len(s) <= TopSize /\ TopSize \in Nat
    <2>1. Sorted(t, o, d, Rows(t), TopSize, s) /\ TopSize \in Nat \ {0}
      BY AnswerIs, Bounds
    <2>2. Cardinality(Rows(t)) \in Nat
      BY <2>1 DEF Sorted
    <2> QED BY <2>1, <2>2 DEF Sorted
  <1>5. c = [a EXCEPT !.dir = d, !.condChanged = FALSE, !.list = s, !.del = m, !.pos = 1]
    BY DEF Listed
  <1>6. a.ends \in [Dir -> 0..MaxRec] /\ -d \in Dir /\ -d # d /\ Dir = {d, -d}
    BY <1>1, Bounds DEF Area, Dir, FWD, BWD
  <1>7. TopList(a, d, s) = [c EXCEPT !.ends = e] /\ c.ends = a.ends
    <2>1. c.ends = a.ends
      BY <1>1, <1>5 DEF Area
    <2>2. TopList(a, d, s) = [c EXCEPT !.ends[d] = IF Len(s) < TopSize THEN s[Len(s)] ELSE @]
      BY <1>2 DEF TopList
    <2> HIDE DEF c
    <2> QED BY <2>1, <2>2
  <1>8. on => \A i \in DOMAIN m : ~m[i]
    OBVIOUS
  <1> DEFINE g == TopList(a, d, s)
  <1> HIDE DEF m
  <1>9. g = [a EXCEPT !.dir = d, !.condChanged = FALSE, !.list = s, !.del = m, !.pos = 1, !.ends = e]
    BY <1>1, <1>5, <1>7 DEF Area
  <1>10. g \in Area
    <2>1. Good(g, t, n, u)
      BY <1>2, <1>1, AnswersOK, MeetingIsRec, TopListOK DEF Rows
    <2> QED BY <2>1 DEF Good, Loose
  <1>11. Here(g) = y /\ g.ends = e /\ g.list = s /\ g.dir = d /\ g.pos = 1 /\ Still(g, t, on)
    BY <1>1, <1>8, <1>9 DEF Here, Area, Still
  <1>12. b = GoneTo(g, d)
    OBVIOUS
  <1> HIDE DEF g, e, b
  <1>13. b.ends = f
    <2>1. b.ends = [g.ends EXCEPT ![-d] = Here(g)]
      BY <1>10, <1>12, GoneToIs
    <2> QED BY <1>11, <2>1
  <1>14. f[d] = x /\ f[-d] = y /\ DOMAIN f = Dir
    <2> HIDE DEF x, y
    <2> QED BY <1>6 DEF e
  <1> HIDE DEF f, c
  <1>15. /\ b.list = s /\ b.dir = d /\ b.ends = f /\ b.pos = 1 /\ b.fBottom = z /\ ~b.fEof /\ ~b.fBof
         /\ Still(b, t, on)
    BY <1>10, <1>11, <1>13, <1>12, GoneToIs
  <1>16. Here(b) = y
    BY <1>15 DEF Here
  <1>17. y \in Rows(t) /\ IsEnd(t, o, -d, y)
    BY <1>2 DEF IsEnd
  <1>18. \A k \in Dir : f[k] # 0 => IsEnd(t, o, k, f[k])
    BY <1>2, <1>6, <1>14, <1>17
  <1>19. IsEnd(t, o, d, s[Len(s)]) => f[d] = s[Len(s)]
    BY <1>2, <1>3, <1>4, <1>14
  <1>20. Strung(b, t, o)
    BY <1>2, <1>14, <1>15, <1>18, <1>19 DEF Strung
  <1> QED BY <1>15, <1>17, <1>20, <1>16 DEF Gone, b, z

(* A statement that is made forgets both ends; nothing else of the list changes. *)
LEMMA WithStmtIs ==
    ASSUME filter = Val, NEW t, NEW n, NEW i, NEW d \in Dir, Good(wa, t, n, i),
           NEW on, Still(wa, t, on)
    PROVE  LET a == WithStmt([wa EXCEPT !.dir = d], d) IN
           /\ a.list = wa.list /\ a.pos = wa.pos /\ a.dir = d /\ a.buf = wa.buf /\ a.cur = wa.cur
           /\ a.fBof = wa.fBof /\ a.fEof = wa.fEof /\ a.fBottom = wa.fBottom
           /\ Still(a, t, on) /\ a.stmt[d] = Val
           /\ \A x \in Dir : a.ends[x] = wa.ends[x] \/ a.ends[x] = 0
  <1> DEFINE b == [wa EXCEPT !.dir = d]
             a == WithStmt(b, d)
             e == [x \in Dir |-> 0]
             f == [x \in Dir |-> IF x = d THEN filter ELSE None]
  <1>1. wa \in Area
    BY DEF Good, Loose
  <1>2. a = IF wa.orderChanged \/ wa.condChanged \/ wa.stmt[d] = None
            THEN [b EXCEPT !.ends = e, !.condChanged = FALSE, !.orderChanged = FALSE, !.stmt = f]
            ELSE b
    BY <1>1 DEF WithStmt, Area
  <1>3. (\A x \in Dir : e[x] = 0 /\ f[x] \in {None, Val}) /\ f[d] = Val
    OBVIOUS
  <1> HIDE DEF e, f, a
  <1>4. CASE wa.orderChanged \/ wa.condChanged \/ wa.stmt[d] = None
    <2>1. a = [wa EXCEPT !.dir = d, !.ends = e, !.condChanged = FALSE, !.orderChanged = FALSE, !.stmt = f]
      BY <1>2, <1>4
    <2>2. /\ a.list = wa.list /\ a.pos = wa.pos /\ a.dir = d /\ a.buf = wa.buf /\ a.cur = wa.cur
          /\ a.fBof = wa.fBof /\ a.fEof = wa.fEof /\ a.fBottom = wa.fBottom
          /\ a.hot = wa.hot /\ a.isInsert = wa.isInsert /\ a.lastRec = wa.lastRec
          /\ a.rcount = wa.rcount /\ a.pool = wa.pool /\ a.del = wa.del /\ a.stmt = f /\ a.ends = e
      BY <1>1, <2>1 DEF Area
    <2> QED BY <1>3, <2>2 DEF Still, a
  <1>5. CASE ~(wa.orderChanged \/ wa.condChanged \/ wa.stmt[d] = None)
    <2>1. a = b
      BY <1>2, <1>5
    <2>2. /\ a.list = wa.list /\ a.pos = wa.pos /\ a.dir = d /\ a.buf = wa.buf /\ a.cur = wa.cur
          /\ a.fBof = wa.fBof /\ a.fEof = wa.fEof /\ a.fBottom = wa.fBottom
          /\ a.hot = wa.hot /\ a.isInsert = wa.isInsert /\ a.lastRec = wa.lastRec
          /\ a.rcount = wa.rcount /\ a.pool = wa.pool /\ a.del = wa.del /\ a.stmt = wa.stmt
          /\ a.ends = wa.ends
      BY <1>1, <2>1 DEF Area
    <2> QED BY <1>5, <2>2 DEF Still, a
  <1> QED BY <1>4, <1>5

(* The neighbours of a record in the list are its neighbours in the order. *)
LEMMA NeighbourIs ==
    ASSUME NEW t, NEW o, NEW a \in Area, a.pos \in DOMAIN a.list, Strung(a, t, o), NEW d \in Dir,
           Next1(a, d) \in DOMAIN a.list
    PROVE  NextTo(t, o, d, Here(a), a.list[Next1(a, d)])
  <1>1. a.dir \in Dir /\ (d = 1 \/ d = -1) /\ (a.dir = 1 \/ a.dir = -1) /\ a.pos \in Nat
    BY DEF Area, Dir, FWD, BWD
  <1>2. CASE d = a.dir
    <2>1. Next1(a, d) = a.pos + 1
      BY <1>1, <1>2 DEF Next1
    <2> QED BY <1>2, <2>1 DEF Strung, Run, Here
  <1>3. CASE d # a.dir
    <2> DEFINE m == Next1(a, d)
    <2>1. m = a.pos - 1 /\ d = -a.dir
      BY <1>1, <1>3 DEF Next1
    <2>2. m + 1 = a.pos
      BY <1>1, <2>1
    <2> HIDE DEF m
    <2>3. NextTo(t, o, a.dir, a.list[m], a.list[a.pos])
      BY <2>2 DEF Strung, Run, m
    <2>4. NextTo(t, o, d, a.list[a.pos], a.list[m])
      BY <1>1, <2>1, <2>3, Reversed DEF NextTo
    <2> QED BY <2>4 DEF Here, m
  <1> QED BY <1>2, <1>3

-----------------------------------------------------------------------------
(* The stages of a call *)

Filter(d) == Do("filter", d, 0, FALSE)
RawOf(d) == Do("raw", d, 0, FALSE)
Go(d) == Do("go", d, 0, FALSE)
Bof == Do("bof", BWD, 0, FALSE)

(* The last step of call c. *)
Then(c) == IF c.op = "skip" THEN Do("skip", c.d, 0, FALSE) ELSE Do("sought", FWD, c.n, c.b)

LEMMA Frames ==
    ASSUME NEW d \in Dir, NEW c \in Frame
    PROVE  /\ Filter(d) \in Frame /\ RawOf(d) \in Frame /\ Go(d) \in Frame /\ Bof \in Frame
           /\ Then(c) \in Frame
           /\ Filter(d).op = "filter" /\ RawOf(d).op = "raw" /\ Go(d).op = "go" /\ Bof.op = "bof"
           /\ Filter(d).d = d /\ RawOf(d).d = d /\ Go(d).d = d /\ Bof.d = BWD
           /\ Bof.b = FALSE
           /\ c.op = "skip" => Then(c).op = "skip" /\ Then(c).d = c.d /\ Then(c).n = 0
           /\ c.op # "skip" => Then(c).op = "sought" /\ Then(c).n = c.n /\ Then(c).b = c.b
  BY Bounds DEF Filter, RawOf, Go, Bof, Then, Do, Frame

LEMMA OneFrame ==
    ASSUME NEW f \in Frame
    PROVE  /\ <<f>> # <<>> /\ Head(<<f>>) = f /\ Tail(<<f>>) = <<>>
           /\ <<>> \o <<>> = <<>> /\ <<>> \o <<f>> = <<f>> /\ <<f>> \o <<>> = <<f>>
  OBVIOUS

LEMMA TwoFrames ==
    ASSUME NEW f \in Frame, NEW g \in Frame
    PROVE  /\ <<f, g>> # <<>> /\ Head(<<f, g>>) = f /\ Tail(<<f, g>>) = <<g>>
           /\ <<>> \o <<f, g>> = <<f, g>> /\ <<f, g>> \o <<>> = <<f, g>>
           /\ <<f>> \o <<g>> = <<f, g>> /\ <<f, g>> # <<g>>
  <1>1. <<f>> \o <<g>> = <<f, g>>
    BY JoinedTwo
  <1>2. <<f, g>> # <<>> /\ Head(<<f, g>>) = f /\ <<f, g>> # <<g>>
    OBVIOUS
  <1>3. Tail(<<f, g>>) = <<g>>
    OBVIOUS
  <1>4. <<>> \o <<f, g>> = <<f, g>> /\ <<f, g>> \o <<>> = <<f, g>>
    OBVIOUS
  <1> QED BY <1>1, <1>2, <1>3, <1>4, Zenon

LEMMA ThreeFrames ==
    ASSUME NEW f \in Frame, NEW g \in Frame, NEW h \in Frame
    PROVE  /\ <<f, g, h>> # <<>> /\ Head(<<f, g, h>>) = f /\ Tail(<<f, g, h>>) = <<g, h>>
           /\ <<f>> \o <<g, h>> = <<f, g, h>> /\ <<f, g>> \o <<h>> = <<f, g, h>>
           /\ <<f, g, h>> \o <<>> = <<f, g, h>> /\ <<f, g, h>> # <<g, h>>
  <1>1. <<f, g, h>> # <<>> /\ Head(<<f, g, h>>) = f /\ <<f, g, h>> # <<g, h>>
    OBVIOUS
  <1>2. Tail(<<f, g, h>>) = <<g, h>>
    OBVIOUS
  <1>3. <<f, g, h>> \o <<>> = <<f, g, h>>
    OBVIOUS
  <1>4. <<f, g>> \o <<h>> = <<f, g, h>>
    <2>1. <<f>> \o <<g>> = <<f, g>> /\ (<<f>> \o <<g>>) \o <<h>> = <<f, g, h>>
      BY JoinedTwo, JoinedFrames
    <2> QED BY <2>1
  <1>5. <<f>> \o <<g, h>> = <<f, g, h>>
    <2> DEFINE v == <<f>>
               w == <<g, h>>
               u == v \o w
    <2>1. /\ v \in Seq(Frame) /\ Len(v) = 1 /\ v[1] = f
          /\ w \in Seq(Frame) /\ Len(w) = 2 /\ w[1] = g /\ w[2] = h
      OBVIOUS
    <2> HIDE DEF v, w
    <2>2. /\ u \in Seq(Frame) /\ Len(u) = Len(v) + Len(w)
          /\ \A j \in 1..Len(v) + Len(w) : u[j] = IF j <= Len(v) THEN v[j] ELSE w[j - Len(v)]
      BY <2>1, Joined
    <2> HIDE DEF u
    <2>3. u \in Seq(Frame) /\ Len(u) = 3 /\ u[1] = f /\ u[2] = g /\ u[3] = h
      BY <2>1, <2>2
    <2>4. u = <<f, g, h>>
      BY <2>3
    <2> QED BY <2>4 DEF u, v, w
  <1> QED BY <1>1, <1>2, <1>3, <1>4, <1>5, Zenon

(* The same, for frames to be named. *)
Three(f, g, h) ==
    /\ <<f, g, h>> # <<>> /\ Head(<<f, g, h>>) = f /\ Tail(<<f, g, h>>) = <<g, h>>
    /\ <<f>> \o <<g, h>> = <<f, g, h>> /\ <<f, g>> \o <<h>> = <<f, g, h>>

LEMMA AnyThree ==
    \A f, g, h \in Frame : Three(f, g, h)
  BY ThreeFrames DEF Three

(* A SKIP from where the application was moves to the neighbour, or meets the end. *)
Moved(a, t, o, d, sees) ==
    IF sees.eof THEN IF d = FWD THEN a.fEof
                     ELSE OnRow(a, t) /\ ~a.fBof /\ IsEnd(t, o, FWD, Here(a))
    ELSE \/ OnRow(a, t) /\ ~a.fBof /\ NextTo(t, o, d, sees.recno, Here(a))
         \/ /\ IsEnd(t, o, d, sees.recno)
            /\ IF d = FWD THEN a.fEof ELSE OnRow(a, t) /\ Here(a) = sees.recno

Keyed(t, v) == {r \in Rows(t) : t[r] = v}

(* A SEEK stands on the first record with the key; a soft one may stand on another *)
(* when there is none.                                                             *)
Found(a, t, o, c) ==
    /\ OnRow(a, t)
    /\ IF Keyed(t, c.n) = {} THEN c.b
       ELSE /\ ~a.fBof /\ Here(a) \in Keyed(t, c.n)
            /\ \A r \in Keyed(t, c.n) : ~Ahead(t, o, c.d, r, Here(a))

(* Where call c leaves the area. *)
Outcome(c, a, sees, t, o) ==
    /\ c.op = "go" => OnRow(a, t) /\ IsEnd(t, o, -c.d, Here(a))
    /\ c.op = "goto" => IF c.n \in Rows(t) THEN OnRow(a, t) /\ Here(a) = c.n ELSE a.fEof
    /\ c.op = "skip" => Moved(a, t, o, c.d, sees)
    /\ c.op = "seek" => Found(a, t, o, c) \/ (a.fEof /\ Keyed(t, c.n) = {})

(* A SKIP has cleared the flags and noted the record it leaves. *)
Leaving(a, t, sees) ==
    /\ ~a.fEof /\ ~a.fBof /\ ~a.fBottom
    /\ IF sees.eof THEN a.cur = a.lastRec /\ PastEnd(a)
       ELSE OnRow(a, t) /\ a.cur = Here(a) /\ sees.recno = Here(a)

(* No step is taken yet.  A GO TOP follows the calls that forget the ends. *)
Asked(c, a, sees, t, o) ==
    \/ c = Go(FWD) /\ a.ends = [d \in Dir |-> 0]
    \/ /\ Strung(a, t, o)
       /\ c.op \in {"go", "goto", "skip", "seek", "flush", "recall"}
       /\ c.op = "goto" => c.n \in Rec
       /\ c.op = "skip" => c.n = 1 /\ Leaving(a, t, sees)
       /\ c.op = "seek" => ~a.fBottom /\ ~a.fEof /\ o = "index" /\ c.n \in Seeks
       /\ c.op \in {"flush", "recall"} => Standing(a, t)

(* f is next, then the filter of SET DELETED, then the end of the call. *)
Before(f, c, on) == IF on THEN <<f, Filter(c.d), Then(c)>> ELSE <<f, Then(c)>>

Rawing(c, a, sees, s, t, o, on) ==
    /\ c.op = "skip" /\ s = Before(RawOf(c.d), c, on)
    /\ Strung(a, t, o) /\ Leaving(a, t, sees)

(* SKIP -1 from the phantom record. *)
Bottoming(c, a, sees, s, t, o, on) ==
    /\ c.op = "skip" /\ c.d = BWD /\ s = Before(Go(BWD), c, on)
    /\ Strung(a, t, o) /\ sees.eof

(* What may be left to do when the area is where the call leaves it. *)
Rests(c) ==
    {<<Then(c)>>, <<Filter(c.d), Then(c)>>, <<Filter(c.d), Filter(c.d), Then(c)>>}

Passing(c, a, sees, s, t, o, on) ==
    /\ c.op \in {"go", "skip", "seek"}
    /\ IF c.op = "go" THEN s = <<Filter(c.d)>> ELSE s \in Rests(c)
    /\ s = <<Then(c)>> \/ on
    /\ a.fBof => \/ s = <<Then(c)>>
                 \/ c.op # "go" /\ ~a.fBottom /\ s = <<Filter(c.d), Then(c)>>
    /\ c.op = "seek" => ~a.fBottom /\ ~a.fEof /\ on
    /\ Strung(a, t, o) /\ Standing(a, t) /\ Outcome(c, a, sees, t, o)

(* The top is passed: SKIP -1 from the first record, or a soft SEEK. *)
AtTop(c, sees, t, o) ==
    \/ c.op = "skip" /\ c.d = BWD /\ ~sees.eof /\ IsEnd(t, o, BWD, sees.recno)
    \/ c.op = "seek" /\ c.b /\ Keyed(t, c.n) = {}

Topping(c, a, sees, s, t, o, on) ==
    /\ on /\ s = <<Go(FWD), Bof, Then(c)>>
    /\ Strung(a, t, o) /\ AtTop(c, sees, t, o)

Topped(c, a, sees, s, t, o, on) ==
    /\ on /\ s \in {<<Filter(FWD), Bof, Then(c)>>, <<Bof, Then(c)>>}
    /\ Strung(a, t, o) /\ AtTop(c, sees, t, o)
    /\ OnRow(a, t) /\ ~a.fBof /\ ~a.fBottom
    /\ c.op = "skip" => Here(a) = sees.recno

Stage(c, a, sees, s, t, o, on) ==
    /\ c \in Frame
    /\ \/ s = <<c>> /\ Asked(c, a, sees, t, o)
       \/ Rawing(c, a, sees, s, t, o, on)
       \/ Bottoming(c, a, sees, s, t, o, on)
       \/ Passing(c, a, sees, s, t, o, on)
       \/ Topping(c, a, sees, s, t, o, on)
       \/ Topped(c, a, sees, s, t, o, on)

(* What a step leaves: the call returns, or is at a stage. *)
Lands(c, a, sees, s, t, o, on) ==
    /\ Still(a, t, on)
    /\ IF s = <<>> THEN Strung(a, t, o) /\ Standing(a, t) /\ Outcome(c, a, sees, t, o)
       ELSE Stage(c, a, sees, s, t, o, on)

Walks ==
    /\ filter = Val /\ Suits(table) /\ (setDeleted => marked = {})
    /\ Still(wa, table, setDeleted) /\ app.sees.eof \in BOOLEAN
    /\ IF todo = <<>>
       THEN /\ app.call = Ready /\ app.sees = Sees(wa)
            /\ Strung(wa, table, order) /\ Standing(wa, table)
       ELSE Stage(app.call, wa, app.sees, todo, table, order, setDeleted)

(* The next step tells the stage. *)
LEMMA Staged ==
    ASSUME NEW c, NEW a, NEW sees, NEW s, NEW t, NEW o, NEW on, Stage(c, a, sees, s, t, o, on)
    PROVE  LET op == Head(s).op IN
           /\ s # <<>> /\ c \in Frame
           /\ op \in {"go", "goto", "skip", "seek", "flush", "recall", "raw", "filter", "bof", "sought"}
           /\ op \in {"goto", "seek", "flush", "recall"} => s = <<c>> /\ Asked(c, a, sees, t, o)
           /\ op = "go" => \/ s = <<c>> /\ Asked(c, a, sees, t, o)
                           \/ Bottoming(c, a, sees, s, t, o, on)
                           \/ Topping(c, a, sees, s, t, o, on)
           /\ op = "skip" => \/ s = <<c>> /\ Asked(c, a, sees, t, o)
                             \/ c.op = "skip" /\ s = <<Then(c)>> /\ Passing(c, a, sees, s, t, o, on)
           /\ op = "sought" => c.op = "seek" /\ s = <<Then(c)>> /\ Passing(c, a, sees, s, t, o, on)
           /\ op = "raw" => Rawing(c, a, sees, s, t, o, on)
           /\ op = "bof" => s = <<Bof, Then(c)>> /\ Topped(c, a, sees, s, t, o, on)
           /\ op = "filter" => \/ Passing(c, a, sees, s, t, o, on) /\ s # <<Then(c)>>
                               \/ s = <<Filter(FWD), Bof, Then(c)>> /\ Topped(c, a, sees, s, t, o, on)
  <1> DEFINE x == Then(c)
  <1>1. c \in Frame /\ c.d \in Dir /\ FWD \in Dir /\ BWD \in Dir
    BY Bounds DEF Stage, Frame
  <1>2. /\ x \in Frame /\ (c.op = "skip" => x.op = "skip") /\ (c.op # "skip" => x.op = "sought")
        /\ \A d \in Dir : /\ Filter(d) \in Frame /\ RawOf(d) \in Frame /\ Go(d) \in Frame /\ Bof \in Frame
                          /\ Filter(d).op = "filter" /\ RawOf(d).op = "raw" /\ Go(d).op = "go"
                          /\ Bof.op = "bof"
    <2>1. x \in Frame /\ (c.op = "skip" => x.op = "skip") /\ (c.op # "skip" => x.op = "sought")
      <3> HIDE DEF x
      <3>1. x = Then(c)
        BY DEF x
      <3>2. /\ Then(c) \in Frame /\ (c.op = "skip" => Then(c).op = "skip")
            /\ (c.op # "skip" => Then(c).op = "sought")
        <4>1. ASSUME NEW d \in Dir, NEW f \in Frame
              PROVE  /\ Then(f) \in Frame /\ (f.op = "skip" => Then(f).op = "skip")
                     /\ (f.op # "skip" => Then(f).op = "sought")
          BY Frames, <4>1
        <4> HIDE DEF x
        <4> QED BY <1>1, <4>1
      <3> QED BY <3>1, <3>2
    <2>2. ASSUME NEW d \in Dir
          PROVE  /\ Filter(d) \in Frame /\ RawOf(d) \in Frame /\ Go(d) \in Frame /\ Bof \in Frame
                 /\ Filter(d).op = "filter" /\ RawOf(d).op = "raw" /\ Go(d).op = "go"
                 /\ Bof.op = "bof"
      BY <1>1, Frames
    <2> QED BY <2>1, <2>2
  <1> HIDE DEF x
  <1>3. \A f, g, h \in Frame : /\ <<f>> # <<>> /\ Head(<<f>>) = f
                               /\ <<f, g>> # <<>> /\ Head(<<f, g>>) = f
                               /\ <<f, g, h>> # <<>> /\ Head(<<f, g, h>>) = f
    BY OneFrame, TwoFrames, ThreeFrames
  <1>4. CASE s = <<c>> /\ Asked(c, a, sees, t, o)
    <2>1. Head(s) = c /\ s # <<>>
      BY <1>1, <1>3, <1>4
    <2>2. c.op \in {"go", "goto", "skip", "seek", "flush", "recall"}
      BY <1>1, <1>2, <1>4 DEF Asked
    <2> QED BY <1>1, <1>4, <2>1, <2>2
  <1>5. CASE Rawing(c, a, sees, s, t, o, on)
    <2>1. Head(s) = RawOf(c.d) /\ s # <<>>
      BY <1>1, <1>2, <1>3, <1>5 DEF Rawing, Before, x
    <2> QED BY <1>1, <1>2, <1>5, <2>1
  <1>6. CASE Bottoming(c, a, sees, s, t, o, on)
    <2>1. Head(s) = Go(BWD) /\ s # <<>>
      BY <1>1, <1>2, <1>3, <1>6 DEF Bottoming, Before, x
    <2> QED BY <1>1, <1>2, <1>6, <2>1
  <1>7. CASE Passing(c, a, sees, s, t, o, on)
    <2>1. CASE s = <<x>> /\ c.op # "go"
      <3>1. Head(s) = x /\ s # <<>>
        BY <1>1, <1>2, <1>3, <2>1
      <3>2. c.op \in {"skip", "seek"}
        BY <1>7, <2>1 DEF Passing
      <3> QED BY <1>1, <1>2, <1>7, <2>1, <3>1, <3>2 DEF x
    <2>2. CASE ~(s = <<x>> /\ c.op # "go")
      <3>1. Head(s) = Filter(c.d) /\ s # <<>> /\ s # <<x>>
        BY <1>1, <1>2, <1>3, <1>7, <2>2 DEF Passing, Rests, x
      <3> QED BY <1>1, <1>2, <1>7, <3>1 DEF x
    <2> QED BY <2>1, <2>2
  <1>8. CASE Topping(c, a, sees, s, t, o, on)
    <2>1. Head(s) = Go(FWD) /\ s # <<>>
      BY <1>1, <1>2, <1>3, <1>8 DEF Topping, x
    <2> QED BY <1>1, <1>2, <1>8, <2>1
  <1>9. CASE Topped(c, a, sees, s, t, o, on)
    <2>1. CASE s = <<Filter(FWD), Bof, x>>
      <3>1. Head(s) = Filter(FWD) /\ s # <<>>
        BY <1>1, <1>2, <1>3, <2>1
      <3> QED BY <1>1, <1>2, <1>9, <2>1, <3>1 DEF x
    <2>2. CASE s = <<Bof, x>>
      <3>1. Head(s) = Bof /\ s # <<>>
        BY <1>1, <1>2, <1>3, <2>2
      <3> QED BY <1>1, <1>2, <1>9, <2>2, <3>1 DEF x
    <2> QED BY <1>9, <2>1, <2>2 DEF Topped, x
  <1> QED BY <1>4, <1>5, <1>6, <1>7, <1>8, <1>9 DEF Stage

-----------------------------------------------------------------------------
(* The steps of a call, one by one *)

Landed == Lands(app.call, wa', app.sees, todo', table, order, setDeleted)

LEMMA WalkIs ==
    ASSUME IInv, Walks, todo # <<>>
    PROVE  /\ Stage(app.call, wa, app.sees, todo, table, order, setDeleted)
           /\ app.call \in Frame /\ app.call.d \in Dir /\ app.call.n \in Nat
           /\ table \in [Rec -> Row] /\ TableFits(table, last)
           /\ Still(wa, table, setDeleted) /\ (setDeleted => marked = {})
           /\ filter = Val /\ Suits(table) /\ setDeleted \in BOOLEAN /\ order \in {"recno", "index"}
           /\ ~Running("go") => Good(wa, table, last, wa.isInsert)
           /\ Loose(wa, table, last, wa.isInsert) /\ wa \in Area
  <1>1. Stage(app.call, wa, app.sees, todo, table, order, setDeleted)
    BY DEF Walks
  <1>2. app.call \in Frame /\ app.call.d \in Dir /\ app.call.n \in Nat
    BY <1>1 DEF Stage, Frame
  <1>3. table \in [Rec -> Row] /\ TableFits(table, last) /\ setDeleted \in BOOLEAN
        /\ order \in {"recno", "index"}
    BY DEF IInv, TableFits
  <1> QED BY <1>1, <1>2, <1>3, GoodHere, LooseHere DEF Walks, Loose

(* A call of one step. *)
LEMMA OneStep ==
    ASSUME IInv, Walks, todo = <<app.call>>, app.call \in Frame, NEW b, Continue(b, <<>>)
    PROVE  wa' = b /\ todo' = <<>>
  <1>1. Tail(todo) = <<>> /\ <<>> \o <<>> = <<>>
    BY OneFrame, TwoFrames, ThreeFrames
  <1> QED BY <1>1 DEF Continue, Goes

LEMMA FlushLands ==
    ASSUME IInv, Walks, Flush
    PROVE  Landed
  <1> DEFINE c == app.call
  <1>1. /\ todo # <<>> /\ Head(todo).op = "flush" /\ Continue(wa, <<>>)
    BY DEF Flush, Running
  <1>2. Stage(c, wa, app.sees, todo, table, order, setDeleted) /\ c \in Frame /\ Still(wa, table, setDeleted)
    BY <1>1, WalkIs
  <1>3. todo = <<c>> /\ Asked(c, wa, app.sees, table, order)
    BY <1>1, <1>2, Staged
  <1>4. Head(todo) = c /\ wa' = wa /\ todo' = <<>>
    BY <1>1, <1>2, <1>3, OneStep, OneFrame, TwoFrames, ThreeFrames
  <1>5. c.op = "flush" /\ c # Go(FWD)
    BY <1>1, <1>4 DEF Go, Do
  <1>6. Strung(wa, table, order) /\ Standing(wa, table) /\ Outcome(c, wa, app.sees, table, order)
    BY <1>3, <1>5 DEF Asked, Outcome
  <1> QED BY <1>2, <1>4, <1>6 DEF Landed, Lands

LEMMA RecallLands ==
    ASSUME IInv, Walks, Recall
    PROVE  Landed
  <1> DEFINE c == app.call
             b == Flagged(wa, FALSE)
             e == [wa.del EXCEPT ![wa.pos] = FALSE]
  <1>1. /\ todo # <<>> /\ Head(todo).op = "recall" /\ Continue(b, <<>>)
    BY DEF Recall, Running
  <1>2. Stage(c, wa, app.sees, todo, table, order, setDeleted) /\ c \in Frame /\ Still(wa, table, setDeleted)
        /\ wa \in Area
    BY <1>1, WalkIs
  <1>3. todo = <<c>> /\ Asked(c, wa, app.sees, table, order)
    BY <1>1, <1>2, Staged
  <1>4. Head(todo) = c /\ wa' = b /\ todo' = <<>>
    BY <1>1, <1>2, <1>3, OneStep, OneFrame, TwoFrames, ThreeFrames
  <1>5. c.op = "recall" /\ c # Go(FWD)
    BY <1>1, <1>4 DEF Go, Do
  <1>6. Strung(wa, table, order) /\ Standing(wa, table)
    BY <1>3, <1>5 DEF Asked
  <1>7. b = [wa EXCEPT !.del = e] /\ DOMAIN e = DOMAIN wa.del
        /\ \A i \in DOMAIN e : e[i] => wa.del[i]
    BY <1>2 DEF Flagged, Area
  <1> HIDE DEF e, b
  <1>8. /\ b.list = wa.list /\ b.dir = wa.dir /\ b.ends = wa.ends /\ b.pos = wa.pos /\ b.fEof = wa.fEof
        /\ b.buf = wa.buf /\ b.hot = wa.hot /\ b.isInsert = wa.isInsert /\ b.stmt = wa.stmt
        /\ b.lastRec = wa.lastRec /\ b.rcount = wa.rcount /\ b.pool = wa.pool /\ b.del = e
    BY <1>2, <1>7 DEF Area
  <1>9. Still(b, table, setDeleted)
    BY <1>2, <1>7, <1>8 DEF Still
  <1>10. Strung(b, table, order)
    BY <1>6, <1>8, StringsOK DEF Strings
  <1>11. Standing(b, table)
    BY <1>6, <1>8 DEF Standing, PastEnd, OnRow, Here
  <1>12. Outcome(c, b, app.sees, table, order)
    BY <1>5 DEF Outcome
  <1> QED BY <1>4, <1>9, <1>10, <1>11, <1>12 DEF Landed, Lands

LEMMA GoToLands ==
    ASSUME IInv, Walks, GoTo
    PROVE  Landed
  <1> DEFINE c == app.call
             b == GoToOf(wa, c.n, table, marked)
  <1>1. /\ todo # <<>> /\ Running("goto") /\ Head(todo).op = "goto"
        /\ Continue(GoToOf(wa, Head(todo).n, table, marked), <<>>)
    BY DEF GoTo, Running
  <1>2. Stage(c, wa, app.sees, todo, table, order, setDeleted) /\ c \in Frame /\ Still(wa, table, setDeleted)
        /\ table \in [Rec -> Row] /\ TableFits(table, last) /\ (setDeleted => marked = {})
    BY <1>1, WalkIs
  <1>3. todo = <<c>> /\ Asked(c, wa, app.sees, table, order)
    BY <1>1, <1>2, Staged
  <1>4. Head(todo) = c /\ c.op = "goto" /\ c # Go(FWD)
    BY <1>1, <1>2, <1>3, OneFrame, TwoFrames, ThreeFrames DEF Go, Do
  <1>5. wa' = b /\ todo' = <<>>
    BY <1>1, <1>2, <1>3, <1>4, OneStep
  <1>6. Strung(wa, table, order) /\ c.n \in Rec
    BY <1>3, <1>4 DEF Asked
  <1>7. Good(wa, table, last, wa.isInsert)
    BY <1>1, <1>4, GoodHere DEF Running
  <1>8. /\ Still(b, table, setDeleted) /\ Strung(b, table, order)
        /\ IF c.n \in Rows(table) THEN OnRow(b, table) /\ Here(b) = c.n /\ ~b.fBof
           ELSE b.fEof /\ Len(b.list) = 1
    BY <1>2, <1>6, <1>7, GoToIs
  <1> HIDE DEF b
  <1>9. Standing(b, table) /\ Outcome(c, b, app.sees, table, order)
    BY <1>4, <1>8 DEF Standing, PastEnd, OnRow, Outcome
  <1> QED BY <1>5, <1>8, <1>9 DEF Landed, Lands

LEMMA SkipLands ==
    ASSUME IInv, Walks, Skip
    PROVE  Landed
  <1> DEFINE c == app.call
             d == Head(todo).d
             n == Head(todo).n
             x == Then(c)
  <1>1. /\ todo # <<>> /\ Head(todo).op = "skip" /\ Running("skip")
    BY DEF Skip, Running
  <1>2. /\ Stage(c, wa, app.sees, todo, table, order, setDeleted) /\ c \in Frame /\ c.d \in Dir
        /\ Still(wa, table, setDeleted) /\ wa \in Area
    BY <1>1, WalkIs
  <1>3. \/ todo = <<c>> /\ Asked(c, wa, app.sees, table, order)
        \/ c.op = "skip" /\ todo = <<x>> /\ Passing(c, wa, app.sees, todo, table, order, setDeleted)
    BY <1>1, <1>2, Staged
  <1>4. CASE todo = <<c>> /\ Asked(c, wa, app.sees, table, order)
    <2> DEFINE r == RawOf(c.d)
               f == Filter(c.d)
               w == (<<r>> \o Filtering(d)) \o <<Do("skip", d, n - 1, FALSE)>>
    <2>1. Head(todo) = c /\ Tail(todo) = <<>>
      BY <1>2, <1>4, OneFrame, TwoFrames, ThreeFrames
    <2>2. c.op = "skip" /\ c # Go(FWD)
      BY <1>1, <2>1 DEF Go, Do
    <2>3. c.n = 1 /\ Leaving(wa, table, app.sees) /\ Strung(wa, table, order)
      BY <1>4, <2>2 DEF Asked
    <2>4. ~wa.fBof /\ ~wa.fEof
      BY <2>3 DEF Leaving
    <2>5. Do("skip", d, n - 1, FALSE) = x
      <3>1. d = c.d /\ n - 1 = 0
        BY <2>1, <2>3
      <3> HIDE DEF d, n
      <3> QED BY <2>2, <3>1 DEF Then
    <2>6. Filtering(d) = IF setDeleted THEN <<f>> ELSE <<>>
      BY <2>1 DEF Filtering, Filter
    <2>7. Goes(wa, w \o <<>>)
      <3>1. n = 1 /\ d = c.d
        BY <2>1, <2>3
      <3>2. Continue(wa, (<<Do("raw", d, 0, FALSE)>> \o Filtering(d)) \o <<Do("skip", d, n - 1, FALSE)>>)
        BY <2>4, <3>1 DEF Skip
      <3> QED BY <2>1, <3>1, <3>2 DEF Continue, RawOf
    <2>8. r \in Frame /\ f \in Frame /\ x \in Frame
      BY <1>2, Frames
    <2>9. w = IF setDeleted THEN <<r, f, x>> ELSE <<r, x>>
      <3> HIDE DEF r, f, x, d, n
      <3>1. w = (<<r>> \o Filtering(d)) \o <<x>>
        BY <2>5
      <3> HIDE DEF w
      <3>2. CASE setDeleted
        <4>1. w = (<<r>> \o <<f>>) \o <<x>>
          BY <2>6, <3>1, <3>2
        <4>2. <<r>> \o <<f>> = <<r, f>> /\ <<r, f>> \o <<x>> = <<r, f, x>>
          BY <2>8, TwoFrames, ThreeFrames
        <4> QED BY <3>2, <4>1, <4>2
      <3>3. CASE ~setDeleted
        <4>1. w = (<<r>> \o <<>>) \o <<x>>
          BY <2>6, <3>1, <3>3
        <4> QED BY <2>8, <3>3, <4>1, OneFrame, TwoFrames, ThreeFrames
      <3> QED BY <3>2, <3>3
    <2>10. w = Before(r, c, setDeleted)
      BY <2>9 DEF Before
    <2> HIDE DEF w, r, f, x
    <2>11. w \o <<>> = w /\ w # <<>>
      BY <2>8, <2>9
    <2>12. wa' = wa /\ todo' = w
      BY <2>7, <2>11 DEF Goes
    <2>13. Rawing(c, wa, app.sees, w, table, order, setDeleted)
      BY <2>2, <2>3, <2>10 DEF Rawing, r
    <2> QED BY <1>2, <2>11, <2>12, <2>13 DEF Landed, Lands, Stage
  <1>5. CASE c.op = "skip" /\ todo = <<x>> /\ Passing(c, wa, app.sees, todo, table, order, setDeleted)
    <2> DEFINE b == IF d = BWD THEN [wa EXCEPT !.fEof = FALSE] ELSE [wa EXCEPT !.fBof = FALSE]
    <2>1. x \in Frame /\ x.n = 0 /\ x.d = c.d
      <3>1. x = Then(c) /\ c.op = "skip"
        BY <1>5
      <3> HIDE DEF x
      <3>2. c \in Frame /\ FWD \in Dir
        BY <1>2 DEF Dir
      <3>3. /\ Then(c) \in Frame
            /\ c.op = "skip" => Then(c).op = "skip" /\ Then(c).d = c.d /\ Then(c).n = 0
        BY <3>2, Frames
      <3> QED BY <3>1, <3>3
    <2>2. Head(todo) = x /\ Tail(todo) = <<>> /\ <<>> \o <<>> = <<>>
      <3> HIDE DEF x
      <3> QED BY <1>5, <2>1, OneFrame, TwoFrames, ThreeFrames
    <2>3. d = c.d /\ n = 0
      BY <2>1, <2>2
    <2>4. wa' = b /\ todo' = <<>>
      BY <2>2, <2>3 DEF Skip, Continue, Goes
    <2>5. Strung(wa, table, order) /\ Standing(wa, table) /\ Moved(wa, table, order, c.d, app.sees)
      BY <1>5 DEF Passing, Outcome
    <2>6. /\ b.list = wa.list /\ b.dir = wa.dir /\ b.ends = wa.ends /\ b.pos = wa.pos
          /\ b.buf = wa.buf /\ b.hot = wa.hot /\ b.isInsert = wa.isInsert /\ b.stmt = wa.stmt
          /\ b.lastRec = wa.lastRec /\ b.rcount = wa.rcount /\ b.pool = wa.pool /\ b.del = wa.del
          /\ b.fEof = (IF d = BWD THEN FALSE ELSE wa.fEof)
          /\ b.fBof = (IF d = BWD THEN wa.fBof ELSE FALSE)
      BY <1>2 DEF Area
    <2> HIDE DEF b
    <2>7. Still(b, table, setDeleted)
      BY <1>2, <2>6 DEF Still
    <2>8. Strung(b, table, order)
      BY <2>5, <2>6, StringsOK DEF Strings
    <2>9. FWD # BWD
      BY DEF FWD, BWD
    <2>10. Standing(b, table) /\ Moved(b, table, order, c.d, app.sees)
      BY <1>2, <2>3, <2>5, <2>6, <2>9 DEF Standing, PastEnd, OnRow, Moved, Here, Dir
    <2>11. Outcome(c, b, app.sees, table, order)
      BY <1>5, <2>10 DEF Outcome
    <2> QED BY <2>4, <2>7, <2>8, <2>10, <2>11 DEF Landed, Lands
  <1> QED BY <1>3, <1>4, <1>5

LEMMA SkipFilterLands ==
    ASSUME IInv, Walks, SkipFilter
    PROVE  Landed
  <1> DEFINE c == app.call
             x == Then(c)
             f == Filter(c.d)
             g == Go(FWD)
             h == Filter(FWD)
             k == Bof
  <1>1. todo # <<>>
    BY DEF SkipFilter, Running
  <1>2. /\ Stage(c, wa, app.sees, todo, table, order, setDeleted) /\ c \in Frame /\ c.d \in Dir
        /\ Still(wa, table, setDeleted) /\ wa \in Area
    BY <1>1, WalkIs
  <1>3. Head(todo).op = "filter" /\ Running("filter")
    <2>1. Head(todo).op # "passed"
      BY <1>2, Staged
    <2> QED BY <2>1 DEF SkipFilter, Running
  <1>4. \/ Passing(c, wa, app.sees, todo, table, order, setDeleted) /\ todo # <<x>>
        \/ todo = <<h, k, x>> /\ Topped(c, wa, app.sees, todo, table, order, setDeleted)
    BY <1>2, <1>3, Staged
  <1>5. setDeleted
    BY <1>4 DEF Passing, Topped
  <1>6. ~Deleted(wa)
    <2>1. Good(wa, table, last, wa.isInsert)
      BY <1>1, <1>3, WalkIs DEF Running
    <2>2. wa.pos \in DOMAIN wa.del
      BY <2>1 DEF Good, Loose, Area
    <2> QED BY <1>2, <1>5, <2>2 DEF Deleted, Still
  <1>7. x \in Frame /\ f \in Frame /\ g \in Frame /\ h \in Frame /\ k \in Frame
        /\ f.d = c.d /\ h.d = FWD /\ FWD # BWD
    <2>1. FWD \in Dir /\ FWD # BWD
      BY Bounds DEF FWD, BWD
    <2> QED BY <1>2, <2>1, Frames
  <1>8. IF ~(wa.fBof /\ Head(todo).d = BWD) THEN Continue(wa, <<>>)
        ELSE IF wa.fBottom THEN Continue(Phantom(wa), <<>>)
        ELSE Continue(wa, <<g, k>>)
    BY <1>3, <1>6 DEF SkipFilter, Go, Bof
  <1> HIDE DEF f, g, h, k, x
  <1>9. CASE todo = <<h, k, x>> /\ Topped(c, wa, app.sees, todo, table, order, setDeleted)
    <2>1. Head(todo) = h /\ Tail(todo) = <<k, x>> /\ <<>> \o <<k, x>> = <<k, x>> /\ <<k, x>> # <<>>
      BY <1>7, <1>9, OneFrame, TwoFrames, ThreeFrames
    <2>2. wa' = wa /\ todo' = <<k, x>>
      BY <1>7, <1>8, <2>1 DEF Continue, Goes
    <2>3. Topped(c, wa, app.sees, <<k, x>>, table, order, setDeleted)
      BY <1>9 DEF Topped, h, k, x
    <2> QED BY <1>2, <2>1, <2>2, <2>3 DEF Landed, Lands, Stage
  <1>10. CASE Passing(c, wa, app.sees, todo, table, order, setDeleted) /\ todo # <<x>>
    <2>1. \/ c.op = "go" /\ todo = <<f>>
          \/ c.op # "go" /\ todo \in {<<f, x>>, <<f, f, x>>}
      BY <1>10 DEF Passing, Rests, f, x
    <2>2. /\ Head(todo) = f
          /\ c.op = "go" => Tail(todo) = <<>>
          /\ todo = <<f, x>> => Tail(todo) = <<x>>
          /\ todo = <<f, f, x>> => Tail(todo) = <<f, x>>
      <3>1. /\ Head(<<f>>) = f /\ Tail(<<f>>) = <<>>
            /\ Head(<<f, x>>) = f /\ Tail(<<f, x>>) = <<x>>
            /\ Head(<<f, f, x>>) = f /\ Tail(<<f, f, x>>) = <<f, x>>
        BY <1>7, OneFrame, TwoFrames, ThreeFrames
      <3> QED BY <2>1, <3>1, Zenon
    <2>3. /\ <<>> \o <<>> = <<>> /\ <<>> \o <<x>> = <<x>> /\ <<>> \o <<f, x>> = <<f, x>>
          /\ <<x>> # <<>> /\ <<f, x>> # <<>> /\ <<f, x>> # <<f, f, x>> /\ <<x>> # <<f, x>>
      BY <1>7, OneFrame, TwoFrames, ThreeFrames
    <2>4. Strung(wa, table, order) /\ Standing(wa, table) /\ Outcome(c, wa, app.sees, table, order)
          /\ (c.op = "seek" => ~wa.fBottom /\ ~wa.fEof) /\ c.op \in {"go", "skip", "seek"}
      BY <1>10 DEF Passing
    <2>5. wa.fBof => c.op # "go" /\ ~wa.fBottom /\ todo = <<f, x>>
      BY <1>10 DEF Passing, f, x
    <2>6. CASE ~(wa.fBof /\ Head(todo).d = BWD)
      <3>1. wa' = wa /\ todo' = <<>> \o Tail(todo)
        BY <1>8, <2>6 DEF Continue, Goes
      <3>2. CASE c.op = "go"
        <4>1. todo' = <<>>
          BY <2>2, <2>3, <3>1, <3>2
        <4> QED BY <1>2, <2>4, <3>1, <4>1 DEF Landed, Lands
      <3>3. CASE todo = <<f, x>>
        <4>1. todo' = <<x>>
          BY <2>2, <2>3, <3>1, <3>3
        <4>2. c.op # "go"
          BY <2>1, <2>2, <2>3, <3>3
        <4>3. Passing(c, wa, app.sees, <<x>>, table, order, setDeleted)
          BY <1>5, <2>4, <4>2 DEF Passing, Rests, f, x
        <4> QED BY <1>2, <2>3, <3>1, <4>1, <4>3 DEF Landed, Lands, Stage
      <3>4. CASE todo = <<f, f, x>>
        <4>1. todo' = <<f, x>>
          BY <2>2, <2>3, <3>1, <3>4
        <4>2. c.op # "go" /\ ~wa.fBof
          <5>1. todo # <<f, x>>
            BY <2>3, <3>4
          <5>2. Tail(todo) # <<>>
            BY <2>2, <2>3, <3>4
          <5> QED BY <2>2, <2>5, <5>1, <5>2
        <4>3. Passing(c, wa, app.sees, <<f, x>>, table, order, setDeleted)
          BY <1>5, <2>4, <4>2 DEF Passing, Rests, f, x
        <4> QED BY <1>2, <2>3, <3>1, <4>1, <4>3 DEF Landed, Lands, Stage
      <3> QED BY <2>1, <3>2, <3>3, <3>4
    <2>7. CASE wa.fBof /\ Head(todo).d = BWD
      <3>1. Continue(wa, <<g, k>>) /\ c.op # "go" /\ todo = <<f, x>> /\ c.d = BWD
        BY <1>7, <1>8, <2>2, <2>5, <2>7
      <3>2. wa' = wa /\ todo' = <<g, k, x>> /\ <<g, k, x>> # <<>>
        <4>1. <<g, k>> \o <<x>> = <<g, k, x>> /\ <<g, k, x>> # <<>>
          <5>1. Three(g, k, x)
            BY <1>7, AnyThree
          <5> QED BY <5>1 DEF Three
        <4> QED BY <2>2, <3>1, <4>1 DEF Continue, Goes
      <3>3. AtTop(c, app.sees, table, order)
        <4>1. CASE c.op = "skip"
          BY <1>7, <2>4, <2>7, <3>1, <4>1 DEF Outcome, Moved, AtTop
        <4>2. CASE c.op = "seek"
          BY <2>4, <2>7, <4>2 DEF Outcome, Found, AtTop
        <4> QED BY <2>4, <3>1, <4>1, <4>2
      <3>4. Topping(c, wa, app.sees, <<g, k, x>>, table, order, setDeleted)
        BY <1>5, <2>4, <3>3 DEF Topping, g, k, x
      <3> QED BY <1>2, <3>2, <3>4 DEF Landed, Lands, Stage
    <2> QED BY <2>6, <2>7
  <1> QED BY <1>4, <1>9, <1>10

LEMMA RaiseBofLands ==
    ASSUME IInv, Walks, RaiseBof
    PROVE  Landed
  <1> DEFINE c == app.call
             x == Then(c)
             k == Bof
             e == [wa.ends EXCEPT ![BWD] = IF Head(todo).b THEN Here(wa) ELSE wa.ends[BWD]]
             b == [wa EXCEPT !.fBof = TRUE, !.ends = e]
  <1>1. todo # <<>> /\ Head(todo).op = "bof"
    BY DEF RaiseBof, Running
  <1>2. /\ Stage(c, wa, app.sees, todo, table, order, setDeleted) /\ c \in Frame /\ c.d \in Dir
        /\ Still(wa, table, setDeleted) /\ wa \in Area
    BY <1>1, WalkIs
  <1>3. todo = <<k, x>> /\ Topped(c, wa, app.sees, todo, table, order, setDeleted)
    BY <1>1, <1>2, Staged
  <1>4. x \in Frame /\ k \in Frame /\ k.b = FALSE
    BY <1>2, Frames
  <1> HIDE DEF x, k
  <1>5. Head(todo) = k /\ Tail(todo) = <<x>> /\ <<>> \o <<x>> = <<x>> /\ <<x>> # <<>>
    BY <1>3, <1>4, OneFrame, TwoFrames, ThreeFrames
  <1>6. e = wa.ends
    BY <1>2, <1>4, <1>5 DEF Area
  <1>7. Continue([wa EXCEPT !.fBof = TRUE, !.ends[BWD] = IF Head(todo).b THEN Here(wa) ELSE @], <<>>)
    BY DEF RaiseBof
  <1>8. Continue(b, <<>>)
    <2>1. [wa EXCEPT !.fBof = TRUE, !.ends[BWD] = IF Head(todo).b THEN Here(wa) ELSE @] = b
      BY <1>2 DEF Area
    <2> QED BY <1>7, <2>1
  <1> HIDE DEF e
  <1>9. /\ b.list = wa.list /\ b.dir = wa.dir /\ b.ends = wa.ends /\ b.pos = wa.pos
        /\ b.buf = wa.buf /\ b.hot = wa.hot /\ b.isInsert = wa.isInsert /\ b.stmt = wa.stmt
        /\ b.lastRec = wa.lastRec /\ b.rcount = wa.rcount /\ b.pool = wa.pool /\ b.del = wa.del
        /\ b.fEof = wa.fEof /\ b.fBof = TRUE /\ b.fBottom = wa.fBottom
    BY <1>2, <1>6 DEF Area
  <1> HIDE DEF b
  <1>10. wa' = b /\ todo' = <<x>>
    BY <1>5, <1>8 DEF Continue, Goes
  <1>11. /\ Strung(wa, table, order) /\ AtTop(c, app.sees, table, order) /\ setDeleted
         /\ OnRow(wa, table) /\ ~wa.fBottom /\ (c.op = "skip" => Here(wa) = app.sees.recno)
    BY <1>3 DEF Topped
  <1>12. Still(b, table, setDeleted)
    BY <1>2, <1>9 DEF Still
  <1>13. Strung(b, table, order)
    BY <1>9, <1>11, StringsOK DEF Strings
  <1>14. OnRow(b, table) /\ Here(b) = Here(wa) /\ Standing(b, table) /\ ~b.fEof
    BY <1>9, <1>11 DEF OnRow, Here, Standing
  <1>15. c.op \in {"skip", "seek"} /\ Outcome(c, b, app.sees, table, order)
    <2>1. FWD # BWD
      BY DEF FWD, BWD
    <2> QED BY <1>11, <1>14, <2>1 DEF AtTop, Outcome, Moved, Found
  <1>16. Passing(c, b, app.sees, <<x>>, table, order, setDeleted)
    BY <1>9, <1>11, <1>13, <1>14, <1>15 DEF Passing, Rests, x
  <1> QED BY <1>2, <1>5, <1>10, <1>12, <1>16 DEF Landed, Lands, Stage

(* What is left of a SKIP after its move. *)
After(c, on) == IF on THEN <<Filter(c.d), Then(c)>> ELSE <<Then(c)>>

LEMMA BeforeIs ==
    ASSUME NEW c \in Frame, NEW f \in Frame, NEW on \in BOOLEAN
    PROVE  /\ Before(f, c, on) # <<>> /\ Head(Before(f, c, on)) = f
           /\ Tail(Before(f, c, on)) = After(c, on) /\ <<>> \o After(c, on) = After(c, on)
           /\ <<f>> \o After(c, on) = Before(f, c, on) /\ After(c, on) # <<>>
           /\ on => /\ <<Filter(c.d)>> \o After(c, on) = <<Filter(c.d), Filter(c.d), Then(c)>>
                    /\ <<Filter(c.d), Filter(c.d), Then(c)>> # <<>>
  <1> DEFINE g == Filter(c.d)
             x == Then(c)
  <1>1. g \in Frame /\ x \in Frame
    <2>1. c.d \in Dir
      BY DEF Frame
    <2> QED BY <2>1, Frames
  <1>2. Before(f, c, on) = (IF on THEN <<f, g, x>> ELSE <<f, x>>)
        /\ After(c, on) = (IF on THEN <<g, x>> ELSE <<x>>)
    BY DEF Before, After
  <1> HIDE DEF g, x
  <1>3. CASE on
    <2>1. Before(f, c, on) = <<f, g, x>> /\ After(c, on) = <<g, x>>
      BY <1>2, <1>3
    <2>2. /\ <<f, g, x>> # <<>> /\ Head(<<f, g, x>>) = f /\ Tail(<<f, g, x>>) = <<g, x>>
          /\ <<>> \o <<g, x>> = <<g, x>> /\ <<f>> \o <<g, x>> = <<f, g, x>> /\ <<g, x>> # <<>>
          /\ <<g>> \o <<g, x>> = <<g, g, x>> /\ <<g, g, x>> # <<>>
      <3>1. /\ <<f, g, x>> # <<>> /\ Head(<<f, g, x>>) = f /\ Tail(<<f, g, x>>) = <<g, x>>
            /\ <<f>> \o <<g, x>> = <<f, g, x>>
        <4>1. Three(f, g, x)
          BY <1>1, AnyThree
        <4> QED BY <4>1 DEF Three
      <3>2. <<>> \o <<g, x>> = <<g, x>> /\ <<g, x>> # <<>>
        BY <1>1, TwoFrames
      <3>3. <<g>> \o <<g, x>> = <<g, g, x>> /\ <<g, g, x>> # <<>>
        <4>1. Three(g, g, x)
          BY <1>1, AnyThree
        <4> QED BY <4>1 DEF Three
      <3> QED BY <3>1, <3>2, <3>3
    <2> QED BY <2>1, <2>2 DEF g, x
  <1>4. CASE ~on
    <2>1. Before(f, c, on) = <<f, x>> /\ After(c, on) = <<x>>
      BY <1>2, <1>4
    <2>2. /\ <<f, x>> # <<>> /\ Head(<<f, x>>) = f /\ Tail(<<f, x>>) = <<x>>
          /\ <<>> \o <<x>> = <<x>> /\ <<f>> \o <<x>> = <<f, x>> /\ <<x>> # <<>>
      BY <1>1, OneFrame, TwoFrames
    <2> QED BY <1>4, <2>1, <2>2
  <1> QED BY <1>3, <1>4

(* The move of a SKIP is done. *)
LEMMA SkipArrives ==
    ASSUME NEW c \in Frame, c.op = "skip", NEW a, NEW sees, NEW t, NEW o, NEW on \in BOOLEAN,
           Still(a, t, on), Strung(a, t, o), Standing(a, t), Moved(a, t, o, c.d, sees),
           a.fBof => ~a.fBottom
    PROVE  Lands(c, a, sees, After(c, on), t, o, on)
  <1> DEFINE s == After(c, on)
  <1>1. s # <<>>
    BY BeforeIs
  <1>2. s \in Rests(c) /\ (s = <<Then(c)>> \/ (on /\ s = <<Filter(c.d), Then(c)>>))
    BY DEF After, Rests
  <1> HIDE DEF s
  <1>3. Outcome(c, a, sees, t, o)
    BY DEF Outcome
  <1>4. Passing(c, a, sees, s, t, o, on)
    BY <1>2, <1>3 DEF Passing
  <1> QED BY <1>1, <1>4 DEF Lands, Stage, s

LEMMA RawIs ==
    ASSUME IInv, Walks, NEW d \in Dir, Raw(d)
    PROVE  /\ app.call.op = "skip" /\ app.call.d = d
           /\ <<>> \o Tail(todo) = After(app.call, setDeleted) /\ todo # <<>>
           /\ \A f \in Frame : <<f>> \o Tail(todo) = Before(f, app.call, setDeleted)
           /\ Strung(wa, table, order) /\ Leaving(wa, table, app.sees)
           /\ Good(wa, table, last, wa.isInsert)
           /\ app.sees.eof /\ d = BWD => OnPhantom(d)
           /\ ~app.sees.eof => ~OnPhantom(d)
  <1> DEFINE c == app.call
  <1>1. todo # <<>> /\ Head(todo).op = "raw" /\ Head(todo).d = d /\ Running("raw")
    BY DEF Raw, Running
  <1>2. /\ Stage(c, wa, app.sees, todo, table, order, setDeleted) /\ c \in Frame /\ c.d \in Dir
        /\ Still(wa, table, setDeleted) /\ setDeleted \in BOOLEAN
    BY <1>1, WalkIs
  <1>3. Rawing(c, wa, app.sees, todo, table, order, setDeleted)
    BY <1>1, <1>2, Staged
  <1>4. RawOf(c.d) \in Frame /\ RawOf(c.d).d = c.d
    BY <1>2, Frames
  <1>5. todo = Before(RawOf(c.d), c, setDeleted) /\ Head(todo) = RawOf(c.d)
        /\ Tail(todo) = After(c, setDeleted)
    BY <1>2, <1>3, <1>4, BeforeIs DEF Rawing
  <1>6. <<>> \o Tail(todo) = After(c, setDeleted)
        /\ \A f \in Frame : <<f>> \o Tail(todo) = Before(f, c, setDeleted)
    <2>1. <<>> \o After(c, setDeleted) = After(c, setDeleted)
      BY <1>2, <1>4, BeforeIs
    <2>2. ASSUME NEW f \in Frame PROVE <<f>> \o After(c, setDeleted) = Before(f, c, setDeleted)
      BY <1>2, BeforeIs
    <2> QED BY <1>5, <2>1, <2>2
  <1>7. Good(wa, table, last, wa.isInsert)
    BY <1>1, GoodHere DEF Running
  <1> HIDE DEF c
  <1>8. app.sees.eof /\ d = BWD => OnPhantom(d)
    BY <1>3 DEF Rawing, Leaving, OnPhantom
  <1>9. ~app.sees.eof => ~OnPhantom(d)
    BY <1>2, <1>3 DEF Rawing, Leaving, OnPhantom, OnRow, Still
  <1> QED BY <1>1, <1>3, <1>4, <1>5, <1>6, <1>7, <1>8, <1>9 DEF Rawing, c

LEMMA RawFromPhantomLands ==
    ASSUME IInv, Walks, RawFromPhantom
    PROVE  Landed
  <1> DEFINE c == app.call
             g == Go(BWD)
  <1>1. Raw(BWD) /\ OnPhantom(BWD) /\ BWD \in Dir /\ Continue(wa, <<g>>)
    BY Bounds DEF RawFromPhantom, Go
  <1>2. /\ c.op = "skip" /\ c.d = BWD /\ todo # <<>> /\ Strung(wa, table, order) /\ app.sees.eof
        /\ \A f \in Frame : <<f>> \o Tail(todo) = Before(f, c, setDeleted)
    BY <1>1, RawIs
  <1>3. c \in Frame /\ setDeleted \in BOOLEAN /\ Still(wa, table, setDeleted)
    BY <1>2, WalkIs
  <1>4. g \in Frame
    BY <1>1, <1>3, Frames
  <1> HIDE DEF g, c
  <1>5. wa' = wa /\ todo' = Before(g, c, setDeleted) /\ Before(g, c, setDeleted) # <<>>
    BY <1>1, <1>2, <1>3, <1>4, BeforeIs DEF Continue, Goes
  <1>6. Bottoming(c, wa, app.sees, todo', table, order, setDeleted)
    BY <1>2, <1>5 DEF Bottoming, g
  <1> QED BY <1>3, <1>5, <1>6 DEF Landed, Lands, Stage, c

(* A step that ends with a read of a row. *)
LEMMA ReadAndIs ==
    ASSUME NEW b, NEW w, ReadAnd(b, w), Good(b, table, last, wa.isInsert), Still(b, table, setDeleted),
           setDeleted => marked = {}, table \in [Rec -> Row], Here(b) \in Rows(table)
    PROVE  /\ Goes(wa', w \o Tail(todo)) /\ wa' = Read(b, table, marked)
           /\ Still(wa', table, setDeleted) /\ Alike(b, wa')
           /\ Here(wa') = Here(b) /\ wa'.buf = table[Here(b)]
  <1> DEFINE c == Read(b, table, marked)
  <1>1. /\ Readable(b, table) /\ Still(c, table, setDeleted) /\ Alike(b, c)
        /\ Here(c) = Here(b) /\ c.buf = table[Here(b)]
    BY ReadIs
  <1>2. Continue(c, w)
    BY <1>1 DEF ReadAnd
  <1> HIDE DEF c
  <1>3. Goes(c, w \o Tail(todo)) /\ wa' = c
    BY <1>2 DEF Continue, Goes
  <1> QED BY <1>1, <1>3 DEF c

LEMMA RawInListLands ==
    ASSUME IInv, Walks, NEW d \in Dir, RawInList(d)
    PROVE  Landed
  <1> DEFINE c == app.call
             m == Next1(wa, d)
             b == [wa EXCEPT !.pos = m]
             h == Here(wa)
  <1>1. Raw(d) /\ ~OnPhantom(d) /\ m \in DOMAIN wa.list /\ ReadAnd(b, <<>>)
    BY DEF RawInList
  <1>2. /\ c.op = "skip" /\ c.d = d /\ todo # <<>> /\ Strung(wa, table, order)
        /\ Leaving(wa, table, app.sees) /\ Good(wa, table, last, wa.isInsert)
        /\ <<>> \o Tail(todo) = After(c, setDeleted)
        /\ (app.sees.eof /\ d = BWD => OnPhantom(d))
    BY <1>1, RawIs
  <1>3. /\ c \in Frame /\ setDeleted \in BOOLEAN /\ Still(wa, table, setDeleted) /\ wa \in Area
        /\ (setDeleted => marked = {}) /\ table \in [Rec -> Row]
    BY <1>2, WalkIs
  <1>4. wa.pos \in DOMAIN wa.list /\ wa.pos \in Nat /\ m \in Nat /\ Len(wa.list) \in Nat
        /\ DOMAIN wa.list = 1..Len(wa.list)
    BY <1>1, <1>2, <1>3 DEF Good, Area
  <1>5. NextTo(table, order, d, h, wa.list[m])
    BY <1>1, <1>2, <1>3, <1>4, NeighbourIs
  <1>6. ~app.sees.eof
    <2> SUFFICES ASSUME app.sees.eof PROVE FALSE
      OBVIOUS
    <2>1. d = FWD
      BY <1>1, <1>2 DEF Dir
    <2>2. PastEnd(wa)
      BY <1>2 DEF Leaving
    <2>3. h # 0
      BY <1>2, HereIsRec, Bounds
    <2>4. wa.ends[FWD] # h
      BY <1>2, <1>5, <2>1, <2>3, Bounds DEF Strung, IsEnd, NextTo
    <2>5. Len(wa.list) = 1
      BY <2>2, <2>4 DEF PastEnd
    <2>6. m = wa.pos + 1 \/ m = wa.pos - 1
      <3>1. wa.dir \in {1, -1} /\ d \in {1, -1}
        BY <1>3 DEF Area, Dir, FWD, BWD
      <3> QED BY <1>4, <3>1 DEF Next1
    <2> HIDE DEF m
    <2>7. m = wa.pos
      BY <1>1, <1>4, <2>5
    <2> QED BY <1>4, <2>6, <2>7
  <1> HIDE DEF m
  <1>7. /\ b.list = wa.list /\ b.dir = wa.dir /\ b.ends = wa.ends /\ b.pos = m /\ b.del = wa.del
        /\ b.fEof = wa.fEof /\ b.fBof = wa.fBof /\ b.fBottom = wa.fBottom
        /\ Still(b, table, setDeleted) /\ Good(b, table, last, wa.isInsert)
    <2>1. /\ b.list = wa.list /\ b.dir = wa.dir /\ b.ends = wa.ends /\ b.pos = m /\ b.del = wa.del
          /\ b.fEof = wa.fEof /\ b.fBof = wa.fBof /\ b.fBottom = wa.fBottom
          /\ b.hot = wa.hot /\ b.isInsert = wa.isInsert /\ b.stmt = wa.stmt /\ b.lastRec = wa.lastRec
          /\ b.rcount = wa.rcount /\ b.pool = wa.pool /\ b \in Area
      BY <1>3, <1>4 DEF Area
    <2> HIDE DEF b
    <2> QED BY <1>1, <1>2, <1>3, <2>1 DEF Still, Good, Loose
  <1> HIDE DEF b
  <1>8. Here(b) = wa.list[m] /\ Here(b) \in Rows(table) /\ Strung(b, table, order)
    BY <1>2, <1>5, <1>7, StringsOK DEF Strings, Here, NextTo
  <1>9. /\ Goes(wa', <<>> \o Tail(todo)) /\ Still(wa', table, setDeleted) /\ Alike(b, wa')
        /\ Here(wa') = Here(b) /\ wa'.buf = table[Here(b)]
    BY <1>1, <1>3, <1>7, <1>8, ReadAndIs
  <1>10. Strung(wa', table, order) /\ todo' = After(c, setDeleted)
    BY <1>2, <1>8, <1>9, AlikeStrung DEF Goes
  <1>11. OnRow(wa', table) /\ ~wa'.fBof
    BY <1>2, <1>7, <1>8, <1>9 DEF Leaving, OnRow, Alike
  <1>12. app.sees.recno = h
    BY <1>2, <1>6 DEF Leaving
  <1>13. Moved(wa', table, order, c.d, app.sees) /\ Standing(wa', table)
    BY <1>2, <1>5, <1>6, <1>8, <1>9, <1>11, <1>12 DEF Moved, Standing, OnRow
  <1> QED BY <1>2, <1>3, <1>9, <1>10, <1>11, <1>13, SkipArrives DEF Landed

LEMMA RawAtEndLands ==
    ASSUME IInv, Walks, NEW d \in Dir, RawAtEnd(d)
    PROVE  Landed
  <1> DEFINE c == app.call
             b == Stop(wa, d)
             h == Here(wa)
  <1>1. Raw(d) /\ ~OnPhantom(d) /\ wa.ends[d] = h /\ Continue(b, <<>>)
    BY DEF RawAtEnd
  <1>2. /\ c.op = "skip" /\ c.d = d /\ todo # <<>> /\ Strung(wa, table, order)
        /\ Leaving(wa, table, app.sees) /\ Good(wa, table, last, wa.isInsert)
        /\ <<>> \o Tail(todo) = After(c, setDeleted)
        /\ (app.sees.eof /\ d = BWD => OnPhantom(d))
    BY <1>1, RawIs
  <1>3. /\ c \in Frame /\ setDeleted \in BOOLEAN /\ Still(wa, table, setDeleted) /\ wa \in Area
    BY <1>2, WalkIs
  <1>4. wa' = b /\ todo' = After(c, setDeleted)
    BY <1>1, <1>2 DEF Continue, Goes
  <1>5. IsEnd(table, order, d, h)
    <2>1. h # 0
      BY <1>2, HereIsRec, Bounds
    <2> QED BY <1>1, <1>2, <2>1 DEF Strung
  <1>6. ~wa.fEof /\ ~wa.fBof /\ ~wa.fBottom
        /\ (~app.sees.eof => OnRow(wa, table) /\ app.sees.recno = h)
    BY <1>2 DEF Leaving
  <1>7. CASE d = FWD
    <2>1. b = Clean(wa)
      BY <1>7 DEF Stop
    <2>2. /\ Still(b, table, setDeleted) /\ b.fEof /\ b.list = wa.list /\ b.dir = wa.dir
          /\ b.ends = wa.ends /\ b.fBof = wa.fBof /\ Here(b) = h
      BY <1>3, <2>1, CleanIs
    <2> HIDE DEF b
    <2>3. Strung(b, table, order)
      BY <1>2, <2>2, StringsOK DEF Strings
    <2>4. Standing(b, table) /\ Moved(b, table, order, c.d, app.sees)
      BY <1>1, <1>2, <1>5, <1>6, <1>7, <2>2 DEF Standing, PastEnd, Moved
    <2> QED BY <1>2, <1>3, <1>4, <1>6, <2>2, <2>3, <2>4, SkipArrives DEF Landed
  <1>8. CASE d # FWD
    <2>1. b = [wa EXCEPT !.fBof = TRUE] /\ d = BWD /\ ~app.sees.eof
      BY <1>1, <1>2, <1>8 DEF Stop, Dir
    <2>2. /\ b.list = wa.list /\ b.dir = wa.dir /\ b.ends = wa.ends /\ b.pos = wa.pos
          /\ b.buf = wa.buf /\ b.hot = wa.hot /\ b.isInsert = wa.isInsert /\ b.stmt = wa.stmt
          /\ b.lastRec = wa.lastRec /\ b.rcount = wa.rcount /\ b.pool = wa.pool /\ b.del = wa.del
          /\ b.fEof = wa.fEof /\ b.fBottom = wa.fBottom
      BY <1>3, <2>1 DEF Area
    <2> HIDE DEF b
    <2>3. Still(b, table, setDeleted) /\ Strung(b, table, order)
      BY <1>2, <1>3, <2>2, StringsOK DEF Still, Strings
    <2>4. OnRow(b, table) /\ Here(b) = h
      BY <1>6, <2>1, <2>2 DEF OnRow, Here
    <2>5. Standing(b, table) /\ Moved(b, table, order, c.d, app.sees)
      BY <1>2, <1>5, <1>6, <1>8, <2>1, <2>4 DEF Standing, OnRow, Moved
    <2> QED BY <1>2, <1>3, <1>4, <1>6, <2>2, <2>3, <2>5, SkipArrives DEF Landed
  <1> QED BY <1>7, <1>8

(* At the end of the order and of the list, which is not remembered: no query has *)
(* brought a list of several that begins there.                                   *)
LEMMA EndOfList ==
    ASSUME NEW t, NEW o, NEW a \in Area, a.pos \in DOMAIN a.list, Strung(a, t, o), NEW d \in Dir,
           Next1(a, d) \notin DOMAIN a.list, a.ends[d] # Here(a), IsEnd(t, o, d, Here(a))
    PROVE  Len(a.list) = 1 \/ (a.dir = d /\ ~IsEnd(t, o, -d, a.list[1]))
  <1>1. /\ a.dir \in Dir /\ (d = 1 \/ d = -1) /\ (a.dir = 1 \/ a.dir = -1) /\ a.pos \in Nat
        /\ Len(a.list) \in Nat /\ DOMAIN a.list = 1..Len(a.list)
    BY DEF Area, Dir, FWD, BWD
  <1> SUFFICES ASSUME Len(a.list) # 1 PROVE a.dir = d /\ ~IsEnd(t, o, -d, a.list[1])
    OBVIOUS
  <1>2. Len(a.list) > 1
    <2>1. a.pos \in 1..Len(a.list)
      BY <1>1
    <2> DEFINE k == Len(a.list)
               q == a.pos
    <2>2. k \in Nat /\ q \in 1..k /\ k # 1
      BY <1>1, <2>1
    <2> HIDE DEF k, q
    <2>3. k > 1
      BY <2>2
    <2> QED BY <2>3 DEF k
  <1>3. IsEnd(t, o, -a.dir, a.list[1]) =>
          /\ a.ends[-a.dir] = a.list[1]
          /\ IsEnd(t, o, a.dir, a.list[Len(a.list)]) => a.ends[a.dir] = a.list[Len(a.list)]
    BY <1>2 DEF Strung
  <1>4. a.dir = d
    <2> SUFFICES ASSUME a.dir # d PROVE FALSE
      OBVIOUS
    <2>1. d = -a.dir /\ Next1(a, d) = a.pos - 1
      BY <1>1 DEF Next1
    <2>2. a.pos = 1
      BY <1>1, <2>1
    <2> QED BY <1>3, <2>1, <2>2 DEF Here
  <1>5. a.pos = Len(a.list)
    <2>1. Next1(a, d) = a.pos + 1
      BY <1>1, <1>4 DEF Next1
    <2> QED BY <1>1, <2>1
  <1> QED BY <1>3, <1>4, <1>5 DEF Here

(* The query of a SKIP is answered: no row follows. *)
LEMMA NoneFollows ==
    ASSUME IInv, Walks, NEW d \in Dir, RawQuery(d), NEW a,
           a.list = wa.list /\ a.pos = wa.pos /\ a.dir = d /\ a.buf = wa.buf,
           a.fBof = wa.fBof /\ a.fEof = wa.fEof /\ a.fBottom = wa.fBottom,
           \A x \in Dir : a.ends[x] = wa.ends[x] \/ a.ends[x] = 0,
           Good(a, table, last, wa.isInsert), Still(a, table, setDeleted),
           ~app.sees.eof, IsEnd(table, order, d, Here(wa)), NextList(a, d, <<>>)
    PROVE  Landed
  <1> DEFINE c == app.call
             h == Here(wa)
             e == [a.ends EXCEPT ![d] = h]
             b == [a EXCEPT !.ends = e]
             s == Stop(b, d)
  <1>1. Raw(d) /\ Next1(wa, d) \notin DOMAIN wa.list /\ wa.ends[d] # h
    BY DEF RawQuery
  <1>2. /\ c.op = "skip" /\ c.d = d /\ todo # <<>> /\ Strung(wa, table, order)
        /\ Leaving(wa, table, app.sees) /\ Good(wa, table, last, wa.isInsert)
        /\ <<>> \o Tail(todo) = After(c, setDeleted)
    BY <1>1, RawIs
  <1>3. /\ c \in Frame /\ setDeleted \in BOOLEAN /\ wa \in Area /\ a \in Area
    BY <1>2, WalkIs DEF Good, Loose
  <1>4. Here(a) = h /\ h \in Rec /\ h \in 0..MaxRec
    <2>1. h \in Rec
      BY <1>2, HereIsRec
    <2> QED BY <2>1 DEF Here, Rec
  <1>5. s = Stop([a EXCEPT !.ends[d] = Here(a)], d)
    BY <1>3, <1>4
  <1>6. wa' = s /\ todo' = After(c, setDeleted)
    BY <1>2, <1>5 DEF NextList, Continue, Goes
  <1>7. a.ends \in [Dir -> 0..MaxRec] /\ e \in [Dir -> 0..MaxRec] /\ e[d] = h
        /\ \A x \in Dir : x # d => e[x] = wa.ends[x] \/ e[x] = 0
    BY <1>3, <1>4 DEF Area
  <1> HIDE DEF e
  <1>8. /\ b.list = wa.list /\ b.pos = wa.pos /\ b.dir = d /\ b.buf = wa.buf /\ b.ends = e
        /\ b.fBof = wa.fBof /\ b.fEof = wa.fEof /\ b.fBottom = wa.fBottom /\ b \in Area
        /\ b.hot = a.hot /\ b.isInsert = a.isInsert /\ b.stmt = a.stmt /\ b.lastRec = a.lastRec
        /\ b.rcount = a.rcount /\ b.pool = a.pool /\ b.del = a.del
    BY <1>3, <1>7 DEF Area
  <1> HIDE DEF b
  <1>9. Still(b, table, setDeleted)
    BY <1>8 DEF Still
  <1>10. \A x \in Dir : e[x] # 0 => IsEnd(table, order, x, e[x])
    BY <1>2, <1>7 DEF Strung
  <1>11. Strung(b, table, order)
    <2>1. Len(wa.list) = 1 \/ (wa.dir = d /\ ~IsEnd(table, order, -d, wa.list[1]))
      BY <1>1, <1>2, <1>3, EndOfList DEF Good
    <2>2. CASE Len(wa.list) = 1
      BY <1>8, <1>10, <2>2, OneStrung
    <2>3. CASE wa.dir = d /\ ~IsEnd(table, order, -d, wa.list[1])
      BY <1>2, <1>8, <1>10, <2>3 DEF Strung
    <2> QED BY <2>1, <2>2, <2>3
  <1>12. ~wa.fEof /\ ~wa.fBof /\ ~wa.fBottom /\ OnRow(wa, table) /\ app.sees.recno = h
    BY <1>2 DEF Leaving
  <1>13. CASE d = FWD
    <2>1. s = Clean(b)
      BY <1>13 DEF Stop
    <2>2. /\ Still(s, table, setDeleted) /\ s.fEof /\ s.list = b.list /\ s.dir = b.dir
          /\ s.ends = b.ends /\ s.fBof = b.fBof /\ Here(s) = Here(b)
      BY <1>8, <1>9, <2>1, CleanIs
    <2> HIDE DEF s
    <2>3. Strung(s, table, order)
      BY <1>11, <2>2, StringsOK DEF Strings
    <2>4. Standing(s, table) /\ Moved(s, table, order, c.d, app.sees)
      BY <1>2, <1>7, <1>8, <1>12, <1>13, <2>2 DEF Standing, PastEnd, Moved, Here
    <2> QED BY <1>2, <1>3, <1>6, <1>8, <1>12, <2>2, <2>3, <2>4, SkipArrives DEF Landed
  <1>14. CASE d # FWD
    <2>1. s = [b EXCEPT !.fBof = TRUE]
      BY <1>14 DEF Stop
    <2>2. /\ s.list = b.list /\ s.dir = b.dir /\ s.ends = b.ends /\ s.pos = b.pos
          /\ s.buf = b.buf /\ s.hot = b.hot /\ s.isInsert = b.isInsert /\ s.stmt = b.stmt
          /\ s.lastRec = b.lastRec /\ s.rcount = b.rcount /\ s.pool = b.pool /\ s.del = b.del
          /\ s.fEof = b.fEof /\ s.fBottom = b.fBottom
      BY <1>8, <2>1 DEF Area
    <2> HIDE DEF s
    <2>3. Still(s, table, setDeleted) /\ Strung(s, table, order)
      BY <1>9, <1>11, <2>2, StringsOK DEF Still, Strings
    <2>4. OnRow(s, table) /\ Here(s) = h
      BY <1>8, <1>12, <2>2 DEF OnRow, Here
    <2>5. Standing(s, table) /\ Moved(s, table, order, c.d, app.sees)
      BY <1>2, <1>12, <1>14, <2>4 DEF Standing, OnRow, Moved
    <2> QED BY <1>2, <1>3, <1>6, <1>8, <1>12, <2>2, <2>3, <2>5, SkipArrives DEF Landed
  <1> QED BY <1>13, <1>14

(* The query of a SKIP is answered with the rows that follow. *)
LEMMA SomeFollow ==
    ASSUME IInv, Walks, NEW d \in Dir, RawQuery(d), NEW a,
           a.dir = d /\ a.fBof = wa.fBof /\ a.fEof = wa.fEof,
           \A x \in Dir : a.ends[x] = wa.ends[x] \/ a.ends[x] = 0,
           Good(a, table, last, wa.isInsert), Still(a, table, setDeleted), ~app.sees.eof,
           NEW s, s # <<>>, Follows(table, order, d, Here(wa), s), NextList(a, d, s)
    PROVE  Landed
  <1> DEFINE c == app.call
             h == Here(wa)
             m == [i \in 1..Len(s) |-> s[i] \in marked]
             x == IF order = "recno" /\ Len(s) < ListSize THEN s[Len(s)] ELSE a.ends[d]
             e == [a.ends EXCEPT ![d] = x]
             b == [a EXCEPT !.list = s, !.del = m, !.pos = 1, !.ends = e]
             g == Listed(a, s, marked)
  <1>1. Raw(d)
    BY DEF RawQuery
  <1>2. /\ c.op = "skip" /\ c.d = d /\ todo # <<>> /\ Strung(wa, table, order)
        /\ Leaving(wa, table, app.sees)
        /\ <<>> \o Tail(todo) = After(c, setDeleted)
    BY <1>1, RawIs
  <1>3. /\ c \in Frame /\ setDeleted \in BOOLEAN /\ a \in Area
        /\ (setDeleted => marked = {}) /\ table \in [Rec -> Row]
    BY <1>2, WalkIs DEF Good, Loose
  <1>4. /\ s \in Seq(Rows(table)) /\ Len(s) \in Nat \ {0} /\ Run(table, order, d, s)
        /\ NextTo(table, order, d, h, s[1])
        /\ (order = "recno" /\ Len(s) < ListSize => IsEnd(table, order, d, s[Len(s)]))
    BY DEF Follows
  <1>5. s \in Seq(Rec) /\ \A i \in 1..Len(s) : s[i] \in Rec
    <2>1. Rows(table) \subseteq Rec
      BY MeetingIsRec DEF Rows
    <2> QED BY <1>4, <2>1
  <1>6. a.ends \in [Dir -> 0..MaxRec] /\ x \in 0..MaxRec
    <2>1. a.ends \in [Dir -> 0..MaxRec]
      BY <1>3 DEF Area
    <2>2. s[Len(s)] \in Rec
      BY <1>4, <1>5
    <2> QED BY <2>1, <2>2 DEF Rec
  <1>7. Good(g, table, last, wa.isInsert)
    BY <1>5, ListedOK DEF Good
  <1>8. g = [a EXCEPT !.list = s, !.del = m, !.pos = 1] /\ g.ends = a.ends
    BY <1>3 DEF Listed, Area
  <1>9. ReadAnd([g EXCEPT !.ends[d] = x], <<>>)
    <2>1. ReadAnd([g EXCEPT !.ends[d] = IF order = "recno" /\ Len(s) < ListSize THEN s[Len(s)] ELSE @], <<>>)
      BY DEF NextList
    <2> HIDE DEF g
    <2> QED BY <1>8, <2>1
  <1>10. Good([g EXCEPT !.ends[d] = x], table, last, wa.isInsert)
    <2> HIDE DEF g, x
    <2> QED BY <1>6, <1>7, EndOK
  <1>11. (\A i \in DOMAIN m : setDeleted => ~m[i]) /\ e[d] = x
         /\ \A y \in Dir : y # d => e[y] = a.ends[y]
    BY <1>3, <1>6
  <1> HIDE DEF x, m
  <1>12. b = [g EXCEPT !.ends[d] = x]
    BY <1>8
  <1> HIDE DEF e, g
  <1>13. /\ b.list = s /\ b.pos = 1 /\ b.dir = d /\ b.ends = e /\ b.fBof = wa.fBof /\ b.fEof = wa.fEof
         /\ b.hot = a.hot /\ b.isInsert = a.isInsert /\ b.stmt = a.stmt /\ b.lastRec = a.lastRec
         /\ b.rcount = a.rcount /\ b.pool = a.pool /\ b.del = m
    BY <1>3 DEF Area
  <1>14. Good(b, table, last, wa.isInsert) /\ ReadAnd(b, <<>>)
    BY <1>9, <1>10, <1>12
  <1> HIDE DEF b
  <1>15. Still(b, table, setDeleted)
    BY <1>11, <1>13 DEF Still
  <1>16. Here(b) = s[1] /\ Here(b) \in Rows(table)
    BY <1>4, <1>13 DEF Here, NextTo
  <1>17. Strung(b, table, order)
    <2>1. \A y \in Dir : e[y] # 0 => IsEnd(table, order, y, e[y])
      BY <1>2, <1>4, <1>11 DEF Strung, x
    <2>2. ~IsEnd(table, order, -d, s[1])
      BY <1>4, Reversed DEF NextTo, IsEnd
    <2> QED BY <1>4, <1>13, <2>1, <2>2 DEF Strung
  <1>18. /\ Goes(wa', <<>> \o Tail(todo)) /\ Still(wa', table, setDeleted) /\ Alike(b, wa')
         /\ Here(wa') = Here(b) /\ wa'.buf = table[Here(b)]
    BY <1>3, <1>14, <1>15, <1>16, ReadAndIs
  <1>19. Strung(wa', table, order) /\ todo' = After(c, setDeleted)
    BY <1>2, <1>17, <1>18, AlikeStrung DEF Goes
  <1>20. ~wa.fEof /\ ~wa.fBof /\ app.sees.recno = h
    BY <1>2 DEF Leaving
  <1>21. OnRow(wa', table) /\ ~wa'.fBof
    BY <1>13, <1>16, <1>18, <1>20 DEF OnRow, Alike
  <1>22. Moved(wa', table, order, c.d, app.sees) /\ Standing(wa', table)
    BY <1>2, <1>4, <1>16, <1>18, <1>20, <1>21 DEF Moved, Standing, OnRow
  <1> QED BY <1>2, <1>3, <1>18, <1>19, <1>21, <1>22, SkipArrives DEF Landed

(* The query of a SKIP past the end of the list. *)
LEMMA RawQueryLands ==
    ASSUME IInv, Walks, NEW d \in Dir, RawQuery(d)
    PROVE  Landed
  <1> DEFINE c == app.call
             h == Here(wa)
             w == [wa EXCEPT !.dir = d]
             a == WithStmt(w, d)
  <1>1. Raw(d) /\ wa.ends[d] # h /\ ~OnPhantom(d) /\ Fetch(a, d)
    BY DEF RawQuery
  <1>2. /\ c.op = "skip" /\ c.d = d /\ todo # <<>> /\ Strung(wa, table, order)
        /\ Leaving(wa, table, app.sees) /\ Good(wa, table, last, wa.isInsert)
        /\ <<>> \o Tail(todo) = After(c, setDeleted)
        /\ (app.sees.eof /\ d = BWD => OnPhantom(d))
    BY <1>1, RawIs
  <1>3. /\ c \in Frame /\ setDeleted \in BOOLEAN /\ wa \in Area
        /\ filter = Val /\ table \in [Rec -> Row] /\ Suits(table)
        /\ Still(wa, table, setDeleted)
    BY <1>2, WalkIs DEF Good, Loose
  <1>4. /\ a.list = wa.list /\ a.pos = wa.pos /\ a.dir = d /\ a.buf = wa.buf /\ a.cur = wa.cur
        /\ a.fBof = wa.fBof /\ a.fEof = wa.fEof /\ a.fBottom = wa.fBottom
        /\ Still(a, table, setDeleted) /\ a.stmt[d] = Val
        /\ \A x \in Dir : a.ends[x] = wa.ends[x] \/ a.ends[x] = 0
    BY <1>2, <1>3, WithStmtIs
  <1>5. Good(a, table, last, wa.isInsert)
    <2>1. Good(w, table, last, wa.isInsert)
      BY <1>2 DEF Good, Loose, Area
    <2> HIDE DEF w
    <2> QED BY <2>1, WithStmtOK
  <1> HIDE DEF a
  <1>6. PICK s \in Answers(table, order, d, From(a, d), ListSize + 1) :
            IF \E j \in DOMAIN s : s[j] = a.cur THEN NextList(a, d, Following(s, a.cur))
            ELSE LostRecord(a, d)
    BY <1>1 DEF Fetch
  <1>7. CASE app.sees.eof
    <2>1. d = FWD /\ wa.cur = wa.lastRec /\ Len(wa.list) = 1 /\ ~wa.fBof
      BY <1>1, <1>2, <1>7 DEF Leaving, PastEnd, Dir
    <2>2. From(a, d) \subseteq Rows(table) /\ wa.lastRec \notin Rows(table)
      BY <1>3, <1>4 DEF From, Rows, Still
    <2>3. s \in Seq(Rows(table))
      <3>1. s \in Seq(From(a, d))
        BY DEF Answers
      <3> QED BY <2>2, <3>1
    <2>4. ~\E j \in DOMAIN s : s[j] = a.cur
      BY <1>4, <2>1, <2>2, <2>3
    <2>5. Continue(Clean(a), <<>>)
      BY <1>6, <2>1, <2>4 DEF LostRecord
    <2>6. wa' = Clean(a) /\ todo' = After(c, setDeleted)
      BY <1>2, <2>5 DEF Continue, Goes
    <2>7. /\ Still(wa', table, setDeleted) /\ wa'.fEof /\ ~wa'.fBof /\ wa'.list = a.list
          /\ wa'.dir = a.dir /\ wa'.ends = a.ends
      BY <1>4, <1>5, <2>1, <2>6, CleanIs DEF Good, Loose
    <2>8. Strung(wa', table, order)
      <3>1. Strung(a, table, order)
        BY <1>2, <1>4, <1>5, <2>1, OneStrung DEF Strung, Good, Loose
      <3> QED BY <2>7, <3>1, StringsOK DEF Strings
    <2>9. Standing(wa', table) /\ Moved(wa', table, order, c.d, app.sees)
      BY <1>2, <1>4, <1>7, <2>1, <2>7 DEF Standing, PastEnd, Moved
    <2> QED BY <1>2, <1>3, <2>6, <2>7, <2>8, <2>9, SkipArrives DEF Landed
  <1>8. CASE ~app.sees.eof
    <2>1. h \in Rows(table) /\ wa.buf = table[h] /\ wa.cur = h /\ Here(a) = h
      BY <1>2, <1>4, <1>8 DEF Leaving, OnRow, Here
    <2> DEFINE A == From(a, d)
               f == Following(s, h)
    <2>2. /\ Rest(table, order, d, A) /\ h \in A /\ Rank(table, order, d, A, h) <= ListSize
          /\ (order = "recno" => Rank(table, order, d, A, h) = 1)
      BY <1>3, <1>4, <2>1, FromIsRest
    <2>3. s \in Answers(table, order, d, A, ListSize + 1)
      BY <1>6
    <2> HIDE DEF A
    <2>4. (\E i \in DOMAIN s : s[i] = h) /\ Follows(table, order, d, h, f)
      BY <1>3, <2>2, <2>3, FollowingIs
    <2>5. NextList(a, d, f)
      BY <1>4, <1>6, <2>1, <2>4
    <2> HIDE DEF f
    <2>6. CASE f = <<>>
      <3>1. IsEnd(table, order, d, h) /\ NextList(a, d, <<>>)
        BY <2>4, <2>5, <2>6 DEF Follows
      <3> QED BY <1>4, <1>5, <1>8, <3>1, NoneFollows
    <2>7. CASE f # <<>>
      BY <1>4, <1>5, <1>8, <2>4, <2>5, <2>7, SomeFollow
    <2> QED BY <2>6, <2>7
  <1> QED BY <1>7, <1>8

(* GO TOP and GO BOTTOM arrive on the end, remembered or asked for. *)
LEMMA GoEndIs ==
    ASSUME IInv, Walks, NEW d \in Dir, GoEnd(d)
    PROVE  /\ Gone(wa', table, order, d) /\ Still(wa', table, setDeleted)
           /\ OnRow(wa', table) /\ Standing(wa', table)
           /\ Goes(wa', Filtering(d) \o Tail(todo))
  <1>1. Running("go") /\ Head(todo).d = d /\ todo # <<>> /\ Head(todo).op = "go"
    BY DEF GoEnd, Running
  <1>2. /\ Stage(app.call, wa, app.sees, todo, table, order, setDeleted)
        /\ table \in [Rec -> Row] /\ TableFits(table, last) /\ Still(wa, table, setDeleted)
        /\ (setDeleted => marked = {}) /\ filter = Val /\ Suits(table)
        /\ Loose(wa, table, last, wa.isInsert) /\ wa \in Area
    BY <1>1, WalkIs
  <1>3. -d \in Dir
    BY Bounds
  <1>4. Strung(wa, table, order) \/ wa.ends = [x \in Dir |-> 0]
    <2>1. \/ Asked(app.call, wa, app.sees, table, order)
          \/ Bottoming(app.call, wa, app.sees, todo, table, order, setDeleted)
          \/ Topping(app.call, wa, app.sees, todo, table, order, setDeleted)
      BY <1>1, <1>2, Staged
    <2> QED BY <2>1 DEF Asked, Bottoming, Topping
  <1>5. \A x \in Dir : wa.ends[x] # 0 => IsEnd(table, order, x, wa.ends[x])
    <2>1. CASE Strung(wa, table, order)
      BY <2>1 DEF Strung
    <2>2. CASE wa.ends = [x \in Dir |-> 0]
      BY <2>2
    <2> QED BY <1>4, <2>1, <2>2
  <1>6. ASSUME NEW b, Good(b, table, last, wa.isInsert), Still(b, table, setDeleted),
               Gone(b, table, order, d), ReadAnd(b, Filtering(d))
        PROVE  /\ Gone(wa', table, order, d) /\ Still(wa', table, setDeleted)
               /\ OnRow(wa', table) /\ Standing(wa', table)
               /\ Goes(wa', Filtering(d) \o Tail(todo))
    <2>1. Strung(b, table, order) /\ Here(b) \in Rows(table) /\ IsEnd(table, order, -d, Here(b))
          /\ ~b.fEof /\ ~b.fBof /\ b.fBottom = (d = BWD)
      BY <1>6 DEF Gone
    <2>2. /\ Goes(wa', Filtering(d) \o Tail(todo)) /\ Still(wa', table, setDeleted)
          /\ Alike(b, wa') /\ Here(wa') = Here(b) /\ wa'.buf = table[Here(b)]
      BY <1>2, <1>6, <2>1, ReadAndIs
    <2>3. Strung(wa', table, order)
      BY <2>1, <2>2, AlikeStrung
    <2>4. ~wa'.fEof /\ ~wa'.fBof /\ wa'.fBottom = (d = BWD)
      BY <2>1, <2>2 DEF Alike
    <2>5. OnRow(wa', table)
      BY <2>1, <2>2, <2>4 DEF OnRow
    <2> QED BY <2>1, <2>2, <2>3, <2>4, <2>5 DEF Gone, Standing
  <1>7. CASE wa.ends[-d] # 0
    <2> DEFINE r == wa.ends[-d]
               g == GoToOf(wa, r, table, marked)
               b == GoneTo(g, d)
    <2>1. Strung(wa, table, order)
      BY <1>3, <1>4, <1>7
    <2>2. IsEnd(table, order, -d, r) /\ r \in Rows(table) /\ r \in Rec /\ r \in 0..MaxRec
      <3>1. IsEnd(table, order, -d, r)
        BY <1>3, <1>5, <1>7
      <3>2. r \in Rows(table) /\ r \in Rec
        BY <1>2, <3>1, RowIs DEF IsEnd
      <3> QED BY <3>1, <3>2 DEF Rec
    <2>3. Good(wa, table, last, wa.isInsert)
      <3>1. ~First
        BY <1>3, <1>7, OpenedOK DEF First, IInv
      <3> QED BY <3>1 DEF IInv
    <2>4. ReadAnd(b, Filtering(d))
      BY <1>7 DEF GoEnd
    <2> HIDE DEF r
    <2>5. /\ Still(g, table, setDeleted) /\ Strung(g, table, order) /\ g.ends = wa.ends
          /\ OnRow(g, table) /\ Here(g) = r /\ Good(g, table, last, wa.isInsert)
      BY <1>2, <2>1, <2>2, <2>3, GoToIs, GoToOfOK
    <2> HIDE DEF g
    <2>6. g.ends[-d] = r /\ g \in Area
      BY <2>5 DEF r, Good, Loose
    <2>7. Gone(b, table, order, d) /\ Still(b, table, setDeleted) /\ Good(b, table, last, wa.isInsert)
      BY <2>2, <2>5, <2>6, GoneKnown, GoneToOK
    <2> HIDE DEF b
    <2> QED BY <1>6, <2>4, <2>7
  <1>8. CASE wa.ends[-d] = 0
    <2>1. PICK s \in Answers(table, order, d, Rows(table), TopSize) :
              ReadAnd(GoneTo(TopList(wa, d, s), d), Filtering(d))
      BY <1>2, <1>8 DEF GoEnd, Rows
    <2> DEFINE g == TopList(wa, d, s)
               b == GoneTo(g, d)
    <2>2. Gone(b, table, order, d) /\ Still(b, table, setDeleted)
      BY <1>2, <1>5, GoneAsked
    <2>3. s \in Seq(Rec) /\ s # <<>>
      <3>1. s # <<>>
        BY <1>2, TopIsRun, Bounds DEF Suits
      <3> QED BY <3>1, AnswersOK, MeetingIsRec DEF Rows
    <2>4. Good(g, table, last, wa.isInsert)
      BY <1>2, <2>3, TopListOK
    <2> HIDE DEF g
    <2>5. Good(b, table, last, wa.isInsert) /\ ReadAnd(b, Filtering(d))
      BY <2>1, <2>4, GoneToOK DEF g
    <2> HIDE DEF b
    <2> QED BY <1>6, <2>2, <2>5
  <1> QED BY <1>7, <1>8

LEMMA GoEndLands ==
    ASSUME IInv, Walks, NEW d \in Dir, GoEnd(d)
    PROVE  Landed
  <1> DEFINE c == app.call
             f == Filter(d)
  <1>1. Head(todo).d = d /\ todo # <<>> /\ Head(todo).op = "go"
    BY DEF GoEnd, Running
  <1>2. /\ Stage(c, wa, app.sees, todo, table, order, setDeleted) /\ c \in Frame /\ c.d \in Dir
        /\ table \in [Rec -> Row] /\ setDeleted \in BOOLEAN
    BY <1>1, WalkIs
  <1>3. /\ Gone(wa', table, order, d) /\ Still(wa', table, setDeleted)
        /\ OnRow(wa', table) /\ Standing(wa', table) /\ Goes(wa', Filtering(d) \o Tail(todo))
    BY GoEndIs
  <1>4. /\ Strung(wa', table, order) /\ IsEnd(table, order, -d, Here(wa')) /\ ~wa'.fEof /\ ~wa'.fBof
        /\ wa'.fBottom = (d = BWD)
    BY <1>3 DEF Gone
  <1>5. todo' = (IF setDeleted THEN <<f>> ELSE <<>>) \o Tail(todo)
    BY <1>3 DEF Goes, Filtering, Filter
  <1>6. f \in Frame
    BY <1>2, Frames
  <1> HIDE DEF f
  <1>7. -FWD = BWD /\ -BWD = FWD /\ FWD # BWD
    <2>1. ASSUME NEW x \in Dir PROVE -x = IF x = FWD THEN BWD ELSE FWD
      BY DEF Dir, FWD, BWD
    <2>2. FWD # BWD
      BY DEF FWD, BWD
    <2> QED BY <2>1, <2>2, Bounds
  <1>8. CASE todo = <<c>> /\ Asked(c, wa, app.sees, table, order)
    <2>1. c.op = "go" /\ c.d = d /\ Tail(todo) = <<>>
      BY <1>1, <1>2, <1>8, OneFrame
    <2>2. Outcome(c, wa', app.sees, table, order)
      BY <1>3, <1>4, <2>1 DEF Outcome
    <2>3. CASE setDeleted
      <3>1. todo' = <<f>> /\ todo' # <<>>
        BY <1>5, <1>6, <2>1, <2>3, OneFrame
      <3>2. Passing(c, wa', app.sees, todo', table, order, setDeleted)
        BY <1>3, <1>4, <2>1, <2>2, <2>3, <3>1 DEF Passing, f
      <3> QED BY <1>2, <1>3, <3>1, <3>2 DEF Landed, Lands, Stage
    <2>4. CASE ~setDeleted
      <3>1. todo' = <<>>
        BY <1>5, <1>6, <2>1, <2>4, OneFrame
      <3> QED BY <1>3, <1>4, <2>2, <3>1 DEF Landed, Lands
    <2> QED BY <2>3, <2>4
  <1>9. CASE Bottoming(c, wa, app.sees, todo, table, order, setDeleted)
    <2>1. c.op = "skip" /\ c.d = BWD /\ todo = Before(Go(BWD), c, setDeleted) /\ app.sees.eof
      BY <1>9 DEF Bottoming
    <2>2. Go(BWD) \in Frame /\ Go(BWD).d = BWD /\ Then(c) \in Frame
      BY <1>2, Frames, Bounds
    <2>3. d = BWD /\ Tail(todo) = After(c, setDeleted)
      BY <1>1, <1>2, <2>1, <2>2, BeforeIs
    <2>4. Moved(wa', table, order, c.d, app.sees)
      BY <1>3, <1>4, <1>7, <2>1, <2>3 DEF Moved
    <2>5. Outcome(c, wa', app.sees, table, order)
      BY <2>1, <2>4 DEF Outcome
    <2>6. todo' = (IF setDeleted THEN <<Filter(c.d), Filter(c.d), Then(c)>> ELSE <<Then(c)>>)
          /\ todo' # <<>>
      <3>1. CASE setDeleted
        <4>1. f = Filter(c.d) /\ todo' = <<f>> \o After(c, setDeleted)
          BY <1>5, <2>1, <2>3, <3>1 DEF f
        <4>2. /\ <<Filter(c.d)>> \o After(c, setDeleted) = <<Filter(c.d), Filter(c.d), Then(c)>>
              /\ <<Filter(c.d), Filter(c.d), Then(c)>> # <<>>
          BY <1>2, <2>2, <3>1, BeforeIs
        <4> QED BY <3>1, <4>1, <4>2, Zenon
      <3>2. CASE ~setDeleted
        BY <1>2, <1>5, <2>2, <2>3, <3>2, OneFrame DEF After
      <3> QED BY <3>1, <3>2
    <2>7. Passing(c, wa', app.sees, todo', table, order, setDeleted)
      BY <1>3, <1>4, <2>1, <2>5, <2>6 DEF Passing, Rests
    <2> QED BY <1>2, <1>3, <2>6, <2>7 DEF Landed, Lands, Stage
  <1>10. CASE Topping(c, wa, app.sees, todo, table, order, setDeleted)
    <2>1. setDeleted /\ todo = <<Go(FWD), Bof, Then(c)>> /\ AtTop(c, app.sees, table, order)
      BY <1>10 DEF Topping
    <2>2. Go(FWD) \in Frame /\ Go(FWD).d = FWD /\ Then(c) \in Frame /\ Bof \in Frame
      BY <1>2, Frames, Bounds
    <2>3. d = FWD /\ Tail(todo) = <<Bof, Then(c)>>
      BY <1>1, <2>1, <2>2, ThreeFrames
    <2>4. todo' = <<Filter(FWD), Bof, Then(c)>> /\ todo' # <<>>
      <3>1. f = Filter(FWD) /\ todo' = <<f>> \o <<Bof, Then(c)>>
        BY <1>5, <2>1, <2>3 DEF f
      <3>2. <<f>> \o <<Bof, Then(c)>> = <<f, Bof, Then(c)>> /\ <<f, Bof, Then(c)>> # <<>>
        BY <1>6, <2>2, ThreeFrames
      <3> QED BY <3>1, <3>2, Zenon
    <2>5. c.op = "skip" => Here(wa') = app.sees.recno
      BY <1>2, <1>4, <1>7, <2>1, <2>3, EndIsOne DEF AtTop, Dir
    <2>6. Topped(c, wa', app.sees, todo', table, order, setDeleted)
      BY <1>3, <1>4, <1>7, <2>1, <2>3, <2>4, <2>5 DEF Topped
    <2> QED BY <1>2, <1>3, <2>4, <2>6 DEF Landed, Lands, Stage
  <1> QED BY <1>1, <1>2, <1>8, <1>9, <1>10, Staged

(* What SEEK asks for: the first record with the key, or the one after its place. *)
LEMMA SeekFromIs ==
    ASSUME table \in [Rec -> Row], filter = Val, order = "index", NEW d \in Dir, NEW v \in Nat,
           NEW s \in Answers(table, order, d, SeekFrom(d, v), 1)
    PROVE  /\ Keyed(table, v) \subseteq SeekFrom(d, v)
           /\ s = <<>> => SeekFrom(d, v) = {}
           /\ s # <<>> =>
                /\ s[1] \in Rows(table)
                /\ Keyed(table, v) # {} => table[s[1]] = v
                /\ \A q \in Keyed(table, v) : ~Ahead(table, order, d, q, s[1])
  <1> DEFINE A == SeekFrom(d, v)
  <1>1. (d = 1 \/ d = -1) /\ FWD = 1 /\ BWD = -1
    BY DEF Dir, FWD, BWD
  <1>2. \A x \in Rows(table) : x \in Nat /\ x \in Rec /\ table[x] \in Nat /\ table[x] \in Val
    BY RowIs, Bounds
  <1>3. A = {r \in Rows(table) : d * table[r] >= d * v}
    BY DEF SeekFrom, Rows
  <1>4. \A r \in Rows(table) : r \in A <=> IF d = FWD THEN table[r] >= v ELSE table[r] <= v
    <2> TAKE r \in Rows(table)
    <2>1. table[r] \in Nat
      BY <1>2
    <2>2. CASE d = 1
      BY <1>1, <1>3, <2>1, <2>2
    <2>3. CASE d = -1
      BY <1>1, <1>3, <2>1, <2>3
    <2> QED BY <1>1, <2>2, <2>3
  <1>5. \A x, y \in Rows(table) : table[x] < table[y] =>
            IF d = FWD THEN Ahead(table, order, d, x, y) ELSE Ahead(table, order, d, y, x)
    <2> TAKE x, y \in Rows(table)
    <2>1. table[x] \in Nat /\ table[y] \in Nat
      BY <1>2
    <2> QED BY <2>1 DEF Ahead, Precedes
  <1>6. \A x, y \in Rows(table) : Ahead(table, order, d, x, y) =>
            IF d = FWD THEN table[x] <= table[y] ELSE table[y] <= table[x]
    <2> TAKE x, y \in Rows(table)
    <2>1. table[x] \in Nat /\ table[y] \in Nat
      BY <1>2
    <2> QED BY <2>1 DEF Ahead, Precedes
  <1>7. A \subseteq Rows(table) /\ Keyed(table, v) \subseteq A
    <2>1. \A r \in Keyed(table, v) : r \in Rows(table) /\ table[r] = v
      BY DEF Keyed
    <2>2. A \subseteq Rows(table)
      BY <1>3
    <2> HIDE DEF A
    <2>3. \A r \in Keyed(table, v) : r \in A
      BY <1>4, <2>1
    <2> QED BY <2>2, <2>3
  <1> HIDE DEF A
  <1>8. Rest(table, order, d, A)
    <2>1. ASSUME NEW x \in A, NEW y \in Rows(table), Ahead(table, order, d, x, y) PROVE y \in A
      <3>1. x \in Rows(table) /\ table[x] \in Nat /\ table[y] \in Nat
        BY <1>2, <1>7
      <3>2. IF d = FWD THEN table[x] >= v ELSE table[x] <= v
        BY <1>4, <3>1
      <3>3. IF d = FWD THEN table[x] <= table[y] ELSE table[y] <= table[x]
        BY <1>6, <2>1, <3>1
      <3> QED BY <1>4, <3>1, <3>2, <3>3
    <2> QED BY <1>7, <2>1 DEF Rest
  <1>9. s \in Seq(A) /\ s \in Answers(table, order, d, A, 1)
    BY DEF Answers, A
  <1>10. s = <<>> => A = {}
    BY <1>7, <1>9, AnswersSome, MeetingIsRec DEF Rows
  <1>11. ASSUME s # <<>>
         PROVE  /\ s[1] \in Rows(table)
                /\ Keyed(table, v) # {} => table[s[1]] = v
                /\ \A q \in Keyed(table, v) : ~Ahead(table, order, d, q, s[1])
    <2> DEFINE r == s[1]
    <2>1. 1 \in DOMAIN s /\ r \in A
      BY <1>9, <1>11
    <2>2. \A x \in A : ~Ahead(table, order, d, x, r)
      <3>1. RunOf(table, order, d, A, s)
        BY <1>8, <1>9, RestIsRun
      <3> QED BY <2>1, <3>1 DEF RunOf
    <2> HIDE DEF r
    <2>3. ASSUME NEW q \in Keyed(table, v) PROVE table[r] = v
      <3>1. q \in A /\ q \in Rows(table) /\ table[q] = v /\ r \in Rows(table)
        BY <1>7, <2>1 DEF Keyed
      <3>2. table[r] \in Nat /\ ~Ahead(table, order, d, q, r)
        BY <1>2, <2>2, <3>1
      <3>3. IF d = FWD THEN table[r] >= v ELSE table[r] <= v
        BY <1>4, <2>1, <3>1
      <3>4. IF d = FWD THEN ~(v < table[r]) ELSE ~(table[r] < v)
        BY <1>5, <3>1, <3>2
      <3> QED BY <3>2, <3>3, <3>4
    <2> QED BY <1>7, <2>1, <2>2, <2>3 DEF r
  <1> QED BY <1>7, <1>10, <1>11 DEF A

(* One row has a list of one record. *)
LEMMA OneRowOneList ==
    ASSUME NEW t \in [Rec -> Row], \A x, y \in Rows(t) : x = y, NEW o, NEW a \in Area, Strung(a, t, o)
    PROVE  Len(a.list) = 1
  <1>1. a.list \in Seq(Rec) /\ a.list # <<>> /\ a.dir \in Dir /\ Run(t, o, a.dir, a.list)
    BY DEF Area, Strung
  <1>2. Len(a.list) \in Nat \ {0} /\ DOMAIN a.list = 1..Len(a.list)
    BY <1>1
  <1>3. ASSUME Len(a.list) > 1 PROVE FALSE
    <2>1. 1 \in DOMAIN a.list /\ 1 + 1 \in DOMAIN a.list
      BY <1>2, <1>3
    <2>2. NextTo(t, o, a.dir, a.list[1], a.list[1 + 1])
      BY <1>1, <2>1 DEF Run
    <2> QED BY <1>1, <2>2, OrderLaws DEF NextTo
  <1> DEFINE k == Len(a.list)
  <1>4. k \in Nat \ {0} /\ ~(k > 1)
    BY <1>2, <1>3
  <1> HIDE DEF k
  <1>5. k = 1
    BY <1>4
  <1> QED BY <1>5 DEF k

(* The row found is alone in the list. *)
LEMMA SoughtIs ==
    ASSUME NEW t \in [Rec -> Row], NEW o, NEW a \in Area,
           \A x \in Dir : a.ends[x] # 0 => IsEnd(t, o, x, a.ends[x]),
           NEW on, Still(a, t, on), on => marked = {}, NEW r \in Rows(t)
    PROVE  LET b == [Listed(a, <<r>>, marked) EXCEPT !.buf = t[r]] IN
           /\ b \in Area /\ Strung(b, t, o) /\ Still(b, t, on) /\ Len(b.list) = 1 /\ Here(b) = r
           /\ b.buf = t[r] /\ b.fBof = a.fBof /\ b.fEof = a.fEof /\ b.fBottom = a.fBottom
           /\ b.dir = a.dir
  <1> DEFINE l == <<r>>
             m == [i \in 1..Len(l) |-> l[i] \in marked]
             z == t[r]
             b == [Listed(a, l, marked) EXCEPT !.buf = z]
  <1>1. r \in Rec /\ z \in Val
    BY RowIs
  <1>2. l \in Seq(Rec) /\ Len(l) = 1 /\ l[1] = r /\ m \in Seq(BOOLEAN)
        /\ (on => \A i \in DOMAIN m : ~m[i])
    <2>1. l \in Seq(Rec) /\ Len(l) = 1 /\ l[1] = r
      BY <1>1
    <2> HIDE DEF l
    <2>2. m \in Seq(BOOLEAN)
      BY <2>1
    <2>3. on => \A i \in DOMAIN m : ~m[i]
      OBVIOUS
    <2> QED BY <2>1, <2>2, <2>3
  <1>3. b = [a EXCEPT !.list = l, !.del = m, !.pos = 1, !.buf = z]
    BY DEF Listed
  <1> HIDE DEF l, m, z
  <1>4. /\ b.list = l /\ b.del = m /\ b.pos = 1 /\ b.buf = z /\ b.dir = a.dir /\ b.ends = a.ends
        /\ b.fBof = a.fBof /\ b.fEof = a.fEof /\ b.fBottom = a.fBottom /\ b.hot = a.hot
        /\ b.isInsert = a.isInsert /\ b.stmt = a.stmt /\ b.lastRec = a.lastRec
        /\ b.rcount = a.rcount /\ b.pool = a.pool
    BY <1>3 DEF Area
  <1> HIDE DEF b
  <1>5. b \in Area
    BY <1>1, <1>2, <1>3 DEF Area
  <1>6. Still(b, t, on) /\ Here(b) = r
    BY <1>2, <1>4 DEF Still, Here
  <1>7. Strung(b, t, o)
    BY <1>2, <1>4, <1>5, OneStrung
  <1> QED BY <1>2, <1>4, <1>6, <1>7, <1>5 DEF b, l, z

LEMMA SeekLands ==
    ASSUME IInv, Walks, Seek
    PROVE  Landed
  <1> DEFINE c == app.call
             d == c.d
             v == c.n
             a == WithSeekStmt(wa, d)
  <1>1. todo # <<>> /\ Head(todo).op = "seek"
    BY DEF Seek, Running
  <1>2. /\ Stage(c, wa, app.sees, todo, table, order, setDeleted) /\ c \in Frame /\ d \in Dir
        /\ table \in [Rec -> Row] /\ Still(wa, table, setDeleted) /\ filter = Val /\ Suits(table)
        /\ setDeleted \in BOOLEAN /\ (setDeleted => marked = {}) /\ wa \in Area /\ v \in Nat
    BY <1>1, WalkIs
  <1>3. todo = <<c>> /\ Asked(c, wa, app.sees, table, order)
    BY <1>1, <1>2, Staged
  <1>4. Head(todo) = c /\ Tail(todo) = <<>> /\ c.op = "seek"
    BY <1>1, <1>2, <1>3, OneFrame
  <1>5. c # Go(FWD)
    BY <1>4 DEF Go, Do
  <1>6. Strung(wa, table, order) /\ ~wa.fBottom /\ ~wa.fEof /\ order = "index" /\ v \in Seeks
    BY <1>3, <1>4, <1>5 DEF Asked
  <1>7. PICK s \in Answers(table, order, d, SeekFrom(d, v), 1) :
            IF s = <<>> THEN Continue(Clean(a), <<>>) ELSE Sought(a, s[1], v, c.b)
    BY <1>4 DEF Seek
  <1>8. /\ Keyed(table, v) \subseteq SeekFrom(d, v)
        /\ s = <<>> => SeekFrom(d, v) = {}
        /\ s # <<>> =>
             /\ s[1] \in Rows(table)
             /\ Keyed(table, v) # {} => table[s[1]] = v
             /\ \A q \in Keyed(table, v) : ~Ahead(table, order, d, q, s[1])
    BY <1>2, <1>6, SeekFromIs
  <1>9. a = [wa EXCEPT !.dir = d, !.condChanged = TRUE, !.orderChanged = FALSE]
    BY DEF WithSeekStmt
  <1> HIDE DEF a
  <1>10. /\ a.list = wa.list /\ a.pos = wa.pos /\ a.ends = wa.ends /\ a.dir = d /\ a.fBof = wa.fBof
         /\ a.fEof = wa.fEof /\ a.fBottom = wa.fBottom /\ a.hot = wa.hot
         /\ a.isInsert = wa.isInsert /\ a.stmt = wa.stmt /\ a.lastRec = wa.lastRec
         /\ a.rcount = wa.rcount /\ a.pool = wa.pool /\ a.del = wa.del /\ a \in Area
    BY <1>2, <1>9 DEF Area
  <1>11. Still(a, table, setDeleted) /\ \A x \in Dir : a.ends[x] # 0 => IsEnd(table, order, x, a.ends[x])
    BY <1>2, <1>6, <1>10 DEF Still, Strung
  <1>12. CASE s = <<>>
    <2>1. Continue(Clean(a), <<>>)
      BY <1>7, <1>12
    <2>2. wa' = Clean(a) /\ todo' = <<>>
      BY <1>2, <1>3, <2>1, OneStep
    <2>3. Len(wa.list) = 1
      <3>1. ~\E r \in Rows(table) : d * table[r] >= d * v
        BY <1>2, <1>8, <1>12 DEF SeekFrom, Rows
      <3>2. \A x, y \in Rows(table) : x = y
        BY <1>2, <1>6, <3>1 DEF Suits
      <3> QED BY <1>2, <1>6, <3>2, OneRowOneList
    <2>4. Strung(a, table, order)
      BY <1>10, <1>11, <2>3, OneStrung
    <2>5. /\ Still(wa', table, setDeleted) /\ wa'.fEof /\ wa'.list = a.list
          /\ wa'.dir = a.dir /\ wa'.ends = a.ends
      BY <1>10, <1>11, <2>2, CleanIs
    <2>6. Strung(wa', table, order) /\ Standing(wa', table)
      BY <1>10, <2>3, <2>4, <2>5, StringsOK DEF Strings, Standing, PastEnd
    <2>7. Outcome(c, wa', app.sees, table, order)
      BY <1>4, <1>8, <1>12, <2>5 DEF Outcome
    <2> QED BY <2>2, <2>5, <2>6, <2>7 DEF Landed, Lands
  <1>13. CASE s # <<>>
    <2> DEFINE r == s[1]
               b == [Listed(a, <<r>>, marked) EXCEPT !.buf = table[r]]
               w == IF setDeleted THEN <<Do("sought", FWD, v, c.b)>> ELSE <<>>
               g == IF table[r] = v THEN OnIt(b) ELSE b
    <2>1. /\ r \in Rows(table) /\ (Keyed(table, v) # {} => table[r] = v)
          /\ \A q \in Keyed(table, v) : ~Ahead(table, order, d, q, r)
      BY <1>8, <1>13
    <2>2. Sought(a, r, v, c.b)
      BY <1>7, <1>13
    <2> HIDE DEF r
    <2>3. /\ b \in Area /\ Strung(b, table, order) /\ Still(b, table, setDeleted) /\ Len(b.list) = 1
          /\ Here(b) = r /\ b.buf = table[r] /\ b.fBof = a.fBof /\ b.fEof = a.fEof
          /\ b.fBottom = a.fBottom /\ b.dir = d
      BY <1>2, <1>10, <1>11, <2>1, SoughtIs
    <2>4. IF table[r] # v /\ ~c.b THEN Continue(Clean(b), <<>>)
          ELSE Continue(g, Filtering(d) \o w)
      BY <1>10, <2>2 DEF Sought
    <2> HIDE DEF b
    <2>5. CASE table[r] # v /\ ~c.b
      <3>1. wa' = Clean(b) /\ todo' = <<>>
        BY <1>2, <1>3, <2>4, <2>5, OneStep
      <3>2. /\ Still(wa', table, setDeleted) /\ wa'.fEof /\ wa'.list = b.list
            /\ wa'.dir = b.dir /\ wa'.ends = b.ends
        BY <2>3, <3>1, CleanIs
      <3>3. Strung(wa', table, order) /\ Standing(wa', table)
        BY <2>3, <3>2, StringsOK DEF Strings, Standing, PastEnd
      <3>4. Outcome(c, wa', app.sees, table, order)
        BY <1>4, <2>1, <2>5, <3>2 DEF Outcome
      <3> QED BY <3>1, <3>2, <3>3, <3>4 DEF Landed, Lands
    <2>6. CASE ~(table[r] # v /\ ~c.b)
      <3>1. Continue(g, Filtering(d) \o w)
        BY <2>4, <2>6
      <3>2. /\ g.list = b.list /\ g.dir = b.dir /\ g.ends = b.ends /\ g.pos = b.pos /\ g.buf = b.buf
            /\ ~g.fEof /\ ~g.fBottom /\ (table[r] = v => ~g.fBof)
            /\ g.hot = b.hot /\ g.isInsert = b.isInsert /\ g.stmt = b.stmt /\ g.lastRec = b.lastRec
            /\ g.rcount = b.rcount /\ g.pool = b.pool /\ g.del = b.del
        <4>1. CASE table[r] = v
          <5>1. g = [b EXCEPT !.fBof = FALSE, !.fEof = FALSE]
            BY <4>1 DEF OnIt
          <5> QED BY <1>6, <1>10, <2>3, <5>1 DEF Area
        <4>2. CASE table[r] # v
          BY <1>6, <1>10, <2>3, <4>2
        <4> QED BY <4>1, <4>2
      <3> HIDE DEF g
      <3>3. Strung(g, table, order) /\ Still(g, table, setDeleted) /\ Here(g) = r
        BY <2>3, <3>2, StringsOK DEF Strings, Still, Here
      <3>4. OnRow(g, table) /\ Standing(g, table)
        BY <2>1, <2>3, <3>2, <3>3 DEF OnRow, Standing
      <3>5. Found(g, table, order, c)
        BY <2>1, <2>6, <3>2, <3>3, <3>4 DEF Found, Keyed
      <3>6. Outcome(c, g, app.sees, table, order)
        BY <1>4, <3>5 DEF Outcome
      <3>7. wa' = g /\ todo' = (Filtering(d) \o w) \o Tail(todo)
        BY <3>1 DEF Continue, Goes
      <3>8. CASE setDeleted
        <4>1. Then(c) = Do("sought", FWD, v, c.b)
          BY <1>4 DEF Then
        <4>2. Filter(d) \in Frame /\ Then(c) \in Frame
          BY <1>2, Frames
        <4>3. todo' = (<<Filter(d)>> \o <<Then(c)>>) \o <<>>
          BY <1>4, <3>7, <3>8, <4>1 DEF Filtering, Filter
        <4>4. todo' = <<Filter(d), Then(c)>> /\ todo' # <<>>
          <5>1. (<<Filter(d)>> \o <<Then(c)>>) \o <<>> = <<Filter(d), Then(c)>>
                /\ <<Filter(d), Then(c)>> # <<>>
            BY <4>2, TwoFrames
          <5> QED BY <4>3, <5>1, Zenon
        <4>5. Passing(c, g, app.sees, todo', table, order, setDeleted)
          BY <1>4, <3>2, <3>3, <3>4, <3>6, <3>8, <4>4 DEF Passing, Rests
        <4> QED BY <1>2, <3>3, <3>7, <4>4, <4>5 DEF Landed, Lands, Stage
      <3>9. CASE ~setDeleted
        <4>1. Filtering(d) = <<>> /\ w = <<>>
          BY <3>9 DEF Filtering
        <4>2. todo' = <<>>
          BY <1>2, <1>4, <3>7, <4>1, OneFrame
        <4> QED BY <3>3, <3>4, <3>6, <3>7, <4>2 DEF Landed, Lands
      <3> QED BY <3>8, <3>9
    <2> QED BY <2>5, <2>6
  <1> QED BY <1>12, <1>13

LEMMA SoughtAgainLands ==
    ASSUME IInv, Walks, SoughtAgain
    PROVE  Landed
  <1> DEFINE c == app.call
             f == Then(c)
  <1>1. todo # <<>> /\ Head(todo).op = "sought"
    BY DEF SoughtAgain, Running
  <1>2. /\ Stage(c, wa, app.sees, todo, table, order, setDeleted) /\ c \in Frame
        /\ Still(wa, table, setDeleted)
    BY <1>1, WalkIs
  <1>3. /\ c.op = "seek" /\ todo = <<f>> /\ Passing(c, wa, app.sees, todo, table, order, setDeleted)
    BY <1>1, <1>2, Staged
  <1>4. f \in Frame /\ f.n = c.n /\ f.b = c.b
    <2>1. c.op # "skip" /\ FWD \in Dir
      BY <1>3, Bounds
    <2> QED BY <1>2, <2>1, Frames
  <1> HIDE DEF f
  <1>5. Head(todo) = f /\ Tail(todo) = <<>> /\ <<>> \o Tail(todo) = <<>>
    BY <1>3, <1>4, OneFrame
  <1>6. /\ Strung(wa, table, order) /\ Standing(wa, table) /\ Outcome(c, wa, app.sees, table, order)
        /\ ~wa.fEof
    BY <1>3 DEF Passing
  <1>7. Found(wa, table, order, c)
    BY <1>3, <1>6 DEF Outcome
  <1>8. wa.buf = c.n \/ c.b
    BY <1>7 DEF Found, OnRow, Keyed
  <1>9. Continue(wa, <<>>)
    BY <1>4, <1>5, <1>8 DEF SoughtAgain
  <1>10. wa' = wa /\ todo' = <<>>
    BY <1>5, <1>9 DEF Continue, Goes
  <1> QED BY <1>2, <1>6, <1>10 DEF Landed, Lands

-----------------------------------------------------------------------------
(* A step of a call, and a call *)

(* What the theorems assume of the calls: nothing is edited, deleted or counted by key, *)
(* no other user changes the table, every condition is met by all rows, SKIP moves one  *)
(* record at a time, and GO TO is of a record.                                          *)
Browsing ==
    /\ Calls \subseteq {"order", "scope", "filter", "flush", "count", "recall"}
    /\ Conditions \subseteq {Val} /\ Skips \subseteq {1, -1} /\ 0 \notin GoTos

LEMMA ReadAndGoes ==
    ASSUME NEW b, NEW w, ReadAnd(b, w)
    PROVE  Goes(wa', todo')
  BY DEF ReadAnd, Continue, Goes

LEMMA ContinueGoes ==
    ASSUME NEW b, NEW w, Continue(b, w)
    PROVE  Goes(wa', todo')
  BY DEF Continue, Goes

(* What a step does: the table stays, no record is marked, and the call goes on or returns. *)
LEMMA StepLands ==
    ASSUME IInv, Walks, Step
    PROVE  /\ Landed /\ Goes(wa', todo')
           /\ table' = table /\ marked' \subseteq marked /\ todo # <<>>
  <1>1. todo # <<>>
    BY DEF Step, Insert, Update, DropEdit, Skip, SkipFilter, RaiseBof, RawFromPhantom, GoEnd,
           RawInList, RawAtEnd, RawQuery, Flush, GoTo, Append1, DeleteRec, Recall, Seek,
           SoughtAgain, Raw, Running
  <1>2. /\ Stage(app.call, wa, app.sees, todo, table, order, setDeleted)
    BY <1>1, WalkIs
  <1>3. Head(todo).op \notin {"cold", "append", "delete"}
    BY <1>2, Staged
  <1>4. ~Insert /\ ~Update /\ ~DropEdit /\ ~Append1 /\ ~DeleteRec
    BY <1>3 DEF Insert, Update, DropEdit, Append1, DeleteRec, Running
  <1>5. CASE Skip
    <2>1. Untouched /\ \E b, w : Continue(b, w)
      BY <1>5 DEF Skip
    <2> QED BY <1>1, <1>5, <2>1, SkipLands, ContinueGoes DEF Untouched
  <1>6. CASE SkipFilter
    <2>1. Untouched /\ \E b, w : Continue(b, w)
      BY <1>6 DEF SkipFilter
    <2> QED BY <1>1, <1>6, <2>1, SkipFilterLands, ContinueGoes DEF Untouched
  <1>7. CASE RaiseBof
    <2>1. Untouched /\ \E b, w : Continue(b, w)
      BY <1>7 DEF RaiseBof
    <2> QED BY <1>1, <1>7, <2>1, RaiseBofLands, ContinueGoes DEF Untouched
  <1>8. CASE RawFromPhantom
    <2>1. Untouched /\ \E b, w : Continue(b, w)
      BY <1>8 DEF RawFromPhantom
    <2> QED BY <1>1, <1>8, <2>1, RawFromPhantomLands, ContinueGoes DEF Untouched
  <1>9. ASSUME NEW d \in Dir, GoEnd(d)
        PROVE  Landed /\ Goes(wa', todo') /\ table' = table /\ marked' \subseteq marked
    <2>1. Untouched /\ \E b, w : ReadAnd(b, w)
      BY <1>9 DEF GoEnd
    <2> QED BY <1>1, <1>9, <2>1, GoEndLands, ReadAndGoes DEF Untouched
  <1>10. ASSUME NEW d \in Dir, RawInList(d)
         PROVE  Landed /\ Goes(wa', todo') /\ table' = table /\ marked' \subseteq marked
    <2>1. Untouched /\ \E b, w : ReadAnd(b, w)
      BY <1>10 DEF RawInList
    <2> QED BY <1>1, <1>10, <2>1, RawInListLands, ReadAndGoes DEF Untouched
  <1>11. ASSUME NEW d \in Dir, RawAtEnd(d)
         PROVE  Landed /\ Goes(wa', todo') /\ table' = table /\ marked' \subseteq marked
    <2>1. Untouched /\ \E b, w : Continue(b, w)
      BY <1>11 DEF RawAtEnd
    <2> QED BY <1>1, <1>11, <2>1, RawAtEndLands, ContinueGoes DEF Untouched
  <1>12. ASSUME NEW d \in Dir, RawQuery(d)
         PROVE  Landed /\ Goes(wa', todo') /\ table' = table /\ marked' \subseteq marked
    <2>1. Untouched /\ \E b, w : ReadAnd(b, w) \/ Continue(b, w)
      BY <1>12 DEF RawQuery, Fetch, NextList, LostRecord
    <2> QED BY <1>1, <1>12, <2>1, RawQueryLands, ReadAndGoes, ContinueGoes DEF Untouched
  <1>13. CASE Flush
    <2>1. Untouched /\ \E b, w : Continue(b, w)
      BY <1>13 DEF Flush
    <2> QED BY <1>1, <1>13, <2>1, FlushLands, ContinueGoes DEF Untouched
  <1>14. CASE GoTo
    <2>1. Untouched /\ \E b, w : Continue(b, w)
      BY <1>14 DEF GoTo
    <2> QED BY <1>1, <1>14, <2>1, GoToLands, ContinueGoes DEF Untouched
  <1>15. CASE Recall
    <2>1. table' = table /\ marked' \subseteq marked /\ \E b, w : Continue(b, w)
      BY <1>15 DEF Recall
    <2> QED BY <1>1, <1>15, <2>1, RecallLands, ContinueGoes
  <1>16. CASE Seek
    <2>1. Untouched /\ \E b, w : Continue(b, w)
      BY <1>16 DEF Seek, Sought
    <2> QED BY <1>1, <1>16, <2>1, SeekLands, ContinueGoes DEF Untouched
  <1>17. CASE SoughtAgain
    <2>1. Untouched /\ \E b, w : Continue(b, w)
      BY <1>17 DEF SoughtAgain
    <2> QED BY <1>1, <1>17, <2>1, SoughtAgainLands, ContinueGoes DEF Untouched
  <1> QED BY <1>1, <1>4, <1>5, <1>6, <1>7, <1>8, <1>9, <1>10, <1>11, <1>12, <1>13, <1>14, <1>15,
             <1>16, <1>17 DEF Step

LEMMA StepWalks ==
    ASSUME IInv, Walks, Step
    PROVE  Walks'
  <1>1. /\ Landed /\ Goes(wa', todo') /\ table' = table /\ marked' \subseteq marked /\ todo # <<>>
    BY StepLands
  <1>2. /\ app' = IF todo' = <<>> THEN [call |-> Ready, sees |-> Sees(wa')] ELSE app
        /\ setDeleted' = setDeleted /\ order' = order /\ filter' = filter
    BY <1>1 DEF Goes
  <1>3. filter' = Val /\ Suits(table') /\ (setDeleted' => marked' = {})
    BY <1>1, <1>2 DEF Walks
  <1>4. Lands(app.call, wa', app.sees, todo', table', order', setDeleted')
    BY <1>1, <1>2 DEF Landed
  <1>5. Still(wa', table', setDeleted')
    BY <1>4 DEF Lands
  <1>6. CASE todo' = <<>>
    <2>1. app'.call = Ready /\ app'.sees = Sees(wa')
      BY <1>2, <1>6
    <2>2. Strung(wa', table', order') /\ Standing(wa', table')
      BY <1>4, <1>6 DEF Lands
    <2>3. app'.sees.eof \in BOOLEAN
      BY <2>1 DEF Sees
    <2> QED BY <1>3, <1>5, <1>6, <2>1, <2>2, <2>3 DEF Walks
  <1>7. CASE todo' # <<>>
    <2>1. app' = app /\ app.sees.eof \in BOOLEAN
      BY <1>2, <1>7 DEF Walks
    <2>2. Stage(app'.call, wa', app'.sees, todo', table', order', setDeleted')
      BY <1>4, <1>7, <2>1 DEF Lands
    <2> QED BY <1>3, <1>5, <1>7, <2>1, <2>2 DEF Walks
  <1> QED BY <1>6, <1>7

LEMMA BeginWalks ==
    ASSUME IInv, Walks, NEW c \in Frame, NEW a, Begin(c, a), filter' = Val,
           Still(a, table, setDeleted), Asked(c, a, app.sees, table, order')
    PROVE  Walks'
  <1>1. /\ wa' = a /\ todo' = (IF wa.hot THEN <<Do("cold", FWD, 0, FALSE), c>> ELSE <<c>>)
        /\ app' = [app EXCEPT !.call = c]
        /\ table' = table /\ marked' = marked /\ setDeleted' = setDeleted
    BY DEF Begin
  <1>2. app = [call |-> app.call, sees |-> app.sees] /\ ~wa.hot
    BY DEF IInv, Seen, Walks, Still
  <1>3. app'.call = c /\ app'.sees = app.sees /\ app.sees.eof \in BOOLEAN
    BY <1>1, <1>2 DEF Walks
  <1>4. todo' = <<c>> /\ todo' # <<>>
    BY <1>1, <1>2, OneFrame
  <1>5. Stage(app'.call, wa', app'.sees, todo', table', order', setDeleted')
    BY <1>1, <1>3, <1>4 DEF Stage
  <1> QED BY <1>1, <1>3, <1>4, <1>5 DEF Walks

(* Where a call finds the area. *)
LEMMA IdleIs ==
    ASSUME IInv, Walks, todo = <<>>
    PROVE  /\ wa \in Area /\ Good(wa, table, last, wa.isInsert)
           /\ Strung(wa, table, order) /\ Standing(wa, table) /\ Still(wa, table, setDeleted)
           /\ app.call = Ready /\ app.sees = Sees(wa) /\ filter = Val /\ ~wa.isInsert /\ ~wa.hot
  <1>1. Strung(wa, table, order) /\ Still(wa, table, setDeleted)
    BY DEF Walks
  <1>2. wa.list # <<>> /\ ~wa.isInsert /\ ~wa.hot
    BY <1>1 DEF Strung, Still
  <1>3. Good(wa, table, last, wa.isInsert)
    BY <1>2, ListedHere
  <1> QED BY <1>1, <1>2, <1>3 DEF Walks, Good, Loose

LEMMA CallGoWalks ==
    ASSUME IInv, Walks, NEW d \in Dir, CallGo(d)
    PROVE  Walks'
  <1>1. Begin(Go(d), wa) /\ order' = order /\ filter' = filter /\ todo = <<>>
    BY DEF CallGo, Call, Begin, Idle, Go
  <1>2. Strung(wa, table, order) /\ Still(wa, table, setDeleted) /\ filter = Val
    BY <1>1, IdleIs
  <1>3. Go(d) \in Frame /\ Go(d).op = "go"
    BY Bounds DEF Go, Do, Frame
  <1>4. Asked(Go(d), wa, app.sees, table, order')
    BY <1>1, <1>2, <1>3 DEF Asked
  <1> QED BY <1>1, <1>2, <1>3, <1>4, BeginWalks

LEMMA CallGoToWalks ==
    ASSUME IInv, Walks, Browsing, NEW r \in GoTos, CallGoTo(r)
    PROVE  Walks'
  <1> DEFINE c == Do("goto", FWD, r, FALSE)
  <1>1. Begin(c, wa) /\ order' = order /\ filter' = filter /\ todo = <<>>
    BY DEF CallGoTo, Call, Begin, Idle
  <1>2. Strung(wa, table, order) /\ Still(wa, table, setDeleted) /\ filter = Val
    BY <1>1, IdleIs
  <1>3. r \in 0..MaxRec /\ r # 0 /\ r \in Nat /\ r \in Rec
    BY ListAssumption, Bounds DEF Browsing, Rec
  <1>4. c \in Frame /\ c.op = "goto" /\ c.n = r
    BY <1>3, Bounds DEF Do, Frame
  <1> HIDE DEF c
  <1>5. Asked(c, wa, app.sees, table, order')
    BY <1>1, <1>2, <1>3, <1>4 DEF Asked
  <1> QED BY <1>1, <1>2, <1>4, <1>5, BeginWalks

LEMMA CallSkipWalks ==
    ASSUME IInv, Walks, Browsing, NEW n \in Skips, CallSkip(n)
    PROVE  Walks'
  <1> DEFINE d == IF n > 0 THEN FWD ELSE BWD
             c == Do("skip", d, 1, FALSE)
             k == Current(wa)
             a == [wa EXCEPT !.cur = k, !.fBottom = FALSE, !.fBof = FALSE, !.fEof = FALSE]
  <1>1. n = 1 \/ n = -1
    BY DEF Browsing
  <1>2. (IF n > 0 THEN n ELSE -n) = 1
    BY <1>1
  <1>3. Begin(c, a) /\ order' = order /\ filter' = filter /\ todo = <<>>
    BY <1>2 DEF CallSkip, Call, Begin, Idle
  <1>4. /\ wa \in Area /\ Strung(wa, table, order) /\ Standing(wa, table)
        /\ Still(wa, table, setDeleted) /\ filter = Val /\ app.sees = Sees(wa) /\ ~wa.isInsert
    BY <1>3, IdleIs
  <1>5. c \in Frame /\ c.op = "skip" /\ c.n = 1
    BY Bounds DEF Do, Frame
  <1> HIDE DEF c, k
  <1>6. /\ a.list = wa.list /\ a.pos = wa.pos /\ a.ends = wa.ends /\ a.dir = wa.dir /\ a.cur = k
        /\ ~a.fBof /\ ~a.fEof /\ ~a.fBottom /\ a.hot = wa.hot /\ a.buf = wa.buf
        /\ a.isInsert = wa.isInsert /\ a.stmt = wa.stmt /\ a.lastRec = wa.lastRec
        /\ a.rcount = wa.rcount /\ a.pool = wa.pool /\ a.del = wa.del
    BY <1>4 DEF Area
  <1> HIDE DEF a
  <1>7. Still(a, table, setDeleted) /\ Strung(a, table, order)
    BY <1>4, <1>6, StringsOK DEF Still, Strings
  <1>8. app.sees.eof = wa.fEof /\ app.sees.recno = k
    <2>1. wa.fEof \in BOOLEAN
      BY <1>4 DEF Area
    <2> QED BY <1>4, <2>1 DEF Sees, k
  <1>9. Leaving(a, table, app.sees)
    <2>1. CASE wa.fEof
      BY <1>4, <1>6, <1>8, <2>1 DEF Leaving, Standing, PastEnd, Here, Current, k
    <2>2. CASE ~wa.fEof
      BY <1>4, <1>6, <1>8, <2>2 DEF Leaving, Standing, OnRow, Here, Current, k
    <2> QED BY <2>1, <2>2
  <1>10. Asked(c, a, app.sees, table, order')
    BY <1>3, <1>5, <1>7, <1>9 DEF Asked
  <1> QED BY <1>3, <1>4, <1>5, <1>7, <1>10, BeginWalks

LEMMA CallSeekWalks ==
    ASSUME IInv, Walks, NEW d \in Dir, NEW v \in Seeks, NEW soft \in BOOLEAN, CallSeek(d, v, soft)
    PROVE  Walks'
  <1> DEFINE c == Do("seek", d, v, soft)
             a == [wa EXCEPT !.fBottom = FALSE, !.fEof = FALSE]
  <1>1. Begin(c, a) /\ order = "index" /\ order' = order /\ filter' = filter /\ todo = <<>>
    BY DEF CallSeek, Call, Begin, Idle
  <1>2. /\ wa \in Area /\ Strung(wa, table, order) /\ Still(wa, table, setDeleted) /\ filter = Val
    BY <1>1, IdleIs
  <1>3. v \in Nat
    BY ListAssumption, Bounds
  <1>4. c \in Frame /\ c.op = "seek" /\ c.n = v
    BY <1>3 DEF Do, Frame
  <1> HIDE DEF c
  <1>5. /\ a.list = wa.list /\ a.ends = wa.ends /\ a.dir = wa.dir
        /\ ~a.fEof /\ ~a.fBottom /\ a.hot = wa.hot
        /\ a.isInsert = wa.isInsert /\ a.stmt = wa.stmt /\ a.lastRec = wa.lastRec
        /\ a.rcount = wa.rcount /\ a.pool = wa.pool /\ a.del = wa.del
    BY <1>2 DEF Area
  <1> HIDE DEF a
  <1>6. Still(a, table, setDeleted) /\ Strung(a, table, order)
    BY <1>2, <1>5, StringsOK DEF Still, Strings
  <1>7. Asked(c, a, app.sees, table, order')
    BY <1>1, <1>4, <1>5, <1>6 DEF Asked
  <1> QED BY <1>1, <1>2, <1>4, <1>6, <1>7, BeginWalks

LEMMA CallFlushWalks ==
    ASSUME IInv, Walks, CallFlush \/ CallRecall
    PROVE  Walks'
  <1> DEFINE f == Do("flush", FWD, 0, FALSE)
             r == Do("recall", FWD, 0, FALSE)
  <1>1. (Begin(f, wa) \/ Begin(r, wa)) /\ order' = order /\ filter' = filter /\ todo = <<>>
    BY DEF CallFlush, CallRecall, Call, Begin, Idle
  <1>2. /\ wa \in Area /\ Strung(wa, table, order) /\ Still(wa, table, setDeleted) /\ filter = Val
        /\ Standing(wa, table)
    BY <1>1, IdleIs
  <1>3. f \in Frame /\ f.op = "flush" /\ r \in Frame /\ r.op = "recall"
    BY Bounds DEF Do, Frame
  <1> HIDE DEF f, r
  <1>4. Asked(f, wa, app.sees, table, order') /\ Asked(r, wa, app.sees, table, order')
    BY <1>1, <1>2, <1>3 DEF Asked
  <1> QED BY <1>1, <1>2, <1>3, <1>4, BeginWalks

LEMMA RecCountWalks ==
    ASSUME IInv, Walks, RecCount
    PROVE  Walks'
  <1>1. /\ Sets([wa EXCEPT !.lastRec = wa.rcount + (IF wa.isInsert /\ wa.hot THEN 2 ELSE 1)])
        /\ todo = <<>>
    BY DEF RecCount, Sets, Idle
  <1>2. /\ wa \in Area /\ Strung(wa, table, order) /\ Still(wa, table, setDeleted) /\ filter = Val
        /\ Standing(wa, table) /\ ~wa.isInsert /\ app.call = Ready
    BY <1>1, IdleIs
  <1> DEFINE z == wa.rcount + 1
             a == [wa EXCEPT !.lastRec = z]
  <1>3. Sets(a)
    BY <1>1, <1>2
  <1>4. z \notin Rows(table)
    BY <1>2 DEF Still
  <1> HIDE DEF z
  <1>5. /\ a.list = wa.list /\ a.ends = wa.ends /\ a.dir = wa.dir /\ a.pos = wa.pos /\ a.buf = wa.buf
        /\ a.fEof = wa.fEof /\ a.hot = wa.hot /\ a.lastRec = z
        /\ a.isInsert = wa.isInsert /\ a.stmt = wa.stmt
        /\ a.rcount = wa.rcount /\ a.pool = wa.pool /\ a.del = wa.del
    BY <1>2 DEF Area
  <1> HIDE DEF a
  <1>6. Still(a, table, setDeleted) /\ Strung(a, table, order)
    BY <1>2, <1>4, <1>5, StringsOK DEF Still, Strings
  <1>7. Standing(a, table)
    BY <1>2, <1>5 DEF Standing, PastEnd, OnRow, Here
  <1>8. /\ wa' = a /\ app' = [app EXCEPT !.sees = Sees(a)]
        /\ UNCHANGED <<table, marked, setDeleted, order, filter, todo>>
    BY <1>3 DEF Sets
  <1>9. app = [call |-> app.call, sees |-> app.sees]
    BY DEF IInv, Seen
  <1>10. app'.call = Ready /\ app'.sees = Sees(a)
    BY <1>2, <1>8, <1>9
  <1>11. app'.sees.eof \in BOOLEAN
    BY <1>10 DEF Sees
  <1> QED BY <1>1, <1>6, <1>7, <1>8, <1>10, <1>11 DEF Walks

(* Calls that set the order or a condition, and go to the top. *)
LEMMA ResetWalks ==
    ASSUME IInv, Walks, NEW a, Resets(a), filter' = Val, Still(a, table, setDeleted),
           Strung(a, table, order') \/ a.ends = [d \in Dir |-> 0]
    PROVE  Walks'
  <1>1. Begin(Go(FWD), a)
    BY DEF Resets, Go
  <1>2. Go(FWD) \in Frame /\ Go(FWD).op = "go"
    BY Bounds DEF Go, Do, Frame
  <1>3. Asked(Go(FWD), a, app.sees, table, order')
    BY <1>2 DEF Asked
  <1> QED BY <1>1, <1>2, <1>3, BeginWalks

LEMMA SetOrderWalks ==
    ASSUME IInv, Walks, NEW o, SetOrder(o)
    PROVE  Walks'
  <1> DEFINE x == wa.orderChanged \/ o # order
             e == IF o # order THEN [d \in Dir |-> 0] ELSE wa.ends
             f == IF o = "index" THEN [d \in Dir |-> None] ELSE wa.stmt
             a == [wa EXCEPT !.orderChanged = x, !.ends = e, !.stmt = f]
  <1>1. order' = o /\ filter' = filter /\ todo = <<>>
    BY DEF SetOrder, Resets, Begin, Idle
  <1>2. /\ wa \in Area /\ Strung(wa, table, order) /\ Still(wa, table, setDeleted) /\ filter = Val
    BY <1>1, IdleIs
  <1>3. Resets(a)
    BY <1>2 DEF SetOrder, Area
  <1>4. \A d \in Dir : f[d] \in {None, Val}
    BY <1>2 DEF Still
  <1>5. IF o # order THEN e = [d \in Dir |-> 0] ELSE e = wa.ends
    OBVIOUS
  <1> HIDE DEF x, e, f
  <1>6. /\ a.list = wa.list /\ a.ends = e /\ a.dir = wa.dir
        /\ a.hot = wa.hot /\ a.isInsert = wa.isInsert /\ a.stmt = f /\ a.lastRec = wa.lastRec
        /\ a.rcount = wa.rcount /\ a.pool = wa.pool /\ a.del = wa.del
    BY <1>2 DEF Area
  <1> HIDE DEF a
  <1>7. Still(a, table, setDeleted)
    BY <1>2, <1>4, <1>6 DEF Still
  <1>8. Strung(a, table, order') \/ a.ends = [d \in Dir |-> 0]
    <2>1. CASE o = order
      BY <1>1, <1>2, <1>5, <1>6, <2>1, StringsOK DEF Strings
    <2>2. CASE o # order
      BY <1>5, <1>6, <2>2
    <2> QED BY <2>1, <2>2
  <1> QED BY <1>1, <1>2, <1>3, <1>7, <1>8, ResetWalks

LEMMA SetConditionWalks ==
    ASSUME IInv, Walks, Browsing, NEW c \in Conditions, SetFilter(c) \/ SetScope(c)
    PROVE  Walks'
  <1>1. c = Val
    BY DEF Browsing
  <1>2. filter' = Val /\ order' = order /\ todo = <<>>
    BY <1>1 DEF SetFilter, SetScope, Resets, Begin, Idle
  <1>3. /\ wa \in Area /\ Strung(wa, table, order) /\ Still(wa, table, setDeleted)
    BY <1>2, IdleIs
  <1>4. CASE SetFilter(c)
    <2> DEFINE a == [wa EXCEPT !.condChanged = TRUE]
    <2>1. Resets(a)
      BY <1>4 DEF SetFilter
    <2>2. /\ a.list = wa.list /\ a.ends = wa.ends /\ a.dir = wa.dir
          /\ a.hot = wa.hot /\ a.isInsert = wa.isInsert /\ a.stmt = wa.stmt /\ a.lastRec = wa.lastRec
          /\ a.rcount = wa.rcount /\ a.pool = wa.pool /\ a.del = wa.del
      BY <1>3 DEF Area
    <2> HIDE DEF a
    <2>3. Still(a, table, setDeleted) /\ Strung(a, table, order')
      BY <1>2, <1>3, <2>2, StringsOK DEF Still, Strings
    <2> QED BY <1>2, <2>1, <2>3, ResetWalks
  <1>5. CASE SetScope(c)
    <2> DEFINE e == [d \in Dir |-> 0]
               a == [wa EXCEPT !.condChanged = TRUE, !.ends = e]
    <2>1. Resets(a)
      BY <1>5 DEF SetScope
    <2> HIDE DEF e
    <2>2. /\ a.list = wa.list /\ a.ends = e /\ a.dir = wa.dir
          /\ a.hot = wa.hot /\ a.isInsert = wa.isInsert /\ a.stmt = wa.stmt /\ a.lastRec = wa.lastRec
          /\ a.rcount = wa.rcount /\ a.pool = wa.pool /\ a.del = wa.del
      BY <1>3 DEF Area
    <2> HIDE DEF a
    <2>3. Still(a, table, setDeleted)
      BY <1>3, <2>2 DEF Still
    <2> QED BY <1>2, <2>1, <2>2, <2>3, ResetWalks DEF e
  <1> QED BY <1>4, <1>5

LEMMA CallingWalks ==
    ASSUME IInv, Walks, Browsing, Calling
    PROVE  Walks'
  <1>1. ~CallAppend /\ ~CallDelete /\ ~KeyCount /\ \A v \in Val : ~PutValue(v)
    BY DEF Browsing, CallAppend, CallDelete, KeyCount, PutValue
  <1> QED BY <1>1, CallFlushWalks, RecCountWalks, CallSkipWalks, CallGoToWalks, CallGoWalks,
             CallSeekWalks, SetOrderWalks, SetConditionWalks DEF Calling

(* The area is opened on a table that suits. *)
StartsSuit == \A s \in Starts : Suits(s.table) /\ (s.setDeleted => s.marked = {})

LEMMA InitWalks ==
    ASSUME StartsSuit, Init
    PROVE  Walks
  <1>1. PICK s \in Starts : /\ table = s.table /\ marked = s.marked
                            /\ order = s.order /\ setDeleted = s.setDeleted
    BY DEF Init
  <1>2. Suits(table) /\ (setDeleted => marked = {}) /\ filter = Val
    BY <1>1 DEF StartsSuit, Init
  <1>3. /\ last \in Rec /\ (\A x \in Rec : x > last => table[x] = NoRow)
        /\ wa = Opened(last) /\ todo = <<Go(FWD)>> /\ app.call = Go(FWD) /\ app.sees.eof = TRUE
    BY DEF Init, Go
  <1>4. table \in [Rec -> Row]
    BY InitOK DEF IInv, TableFits
  <1>5. /\ wa.ends = [d \in Dir |-> 0] /\ ~wa.hot /\ ~wa.isInsert /\ wa.rcount = last
        /\ wa.lastRec = 0 /\ wa.pool = EmptyPool /\ wa.stmt = [d \in Dir |-> None] /\ wa.del = <<>>
    BY <1>3 DEF Opened
  <1>6. Still(wa, table, setDeleted)
    <2>1. 0 \notin Rows(table) /\ last + 1 \notin Rows(table)
      <3>1. last + 1 \in Rec => table[last + 1] = NoRow
        BY <1>3, Bounds
      <3> QED BY <1>4, <3>1, RowIs, Bounds
    <2>2. (\A r \in Rec : EmptyPool[r] = NoRow) /\ \A i \in DOMAIN wa.del : ~wa.del[i]
      BY <1>5 DEF EmptyPool
    <2> QED BY <1>5, <2>1, <2>2 DEF Still
  <1>7. Go(FWD) \in Frame /\ <<Go(FWD)>> # <<>>
    BY Frames, OneFrame, Bounds DEF Go, Do, Frame
  <1>8. Stage(app.call, wa, app.sees, todo, table, order, setDeleted)
    BY <1>3, <1>5, <1>7 DEF Stage, Asked
  <1> QED BY <1>2, <1>3, <1>6, <1>7, <1>8 DEF Walks

LEMMA NextWalks ==
    ASSUME Browsing, IInv, Walks, [Next]_vars
    PROVE  Walks'
  <1>1. CASE Step
    BY <1>1, StepWalks
  <1>2. CASE Calling
    BY <1>2, CallingWalks
  <1>3. CASE Other
    BY <1>3 DEF Other, OtherInserts, OtherDeletes, Browsing
  <1>4. CASE UNCHANGED vars
    BY <1>4 DEF vars, Walks
  <1> QED BY <1>1, <1>2, <1>3, <1>4 DEF Next

LEMMA Walking ==
    ASSUME Browsing, StartsSuit
    PROVE  Spec => []Walks
  <1>1. Init => Walks
    BY InitWalks
  <1>2. IInv /\ Walks /\ [Next]_vars => Walks'
    BY NextWalks
  <1> QED BY <1>1, <1>2, Invariance, PTL DEF Spec

-----------------------------------------------------------------------------
(* What the application sees *)

(* The place of a row among the rows, in the order. *)
RankOf(t, o, x) == Rank(t, o, FWD, Rows(t), x)

(* The first has place 1, the last their number, and the next one more. *)
LEMMA PlacesAre ==
    ASSUME NEW t \in [Rec -> Row], NEW o, Rows(t) # {}
    PROVE  LET n == Cardinality(Rows(t)) IN
           /\ n \in Nat \ {0} /\ 1..n # {}
           /\ \A x \in Rows(t) : RankOf(t, o, x) \in 1..n
           /\ \A x : IsEnd(t, o, BWD, x) => RankOf(t, o, x) = 1
           /\ \A x : IsEnd(t, o, FWD, x) => RankOf(t, o, x) = n
           /\ \A x, y : NextTo(t, o, FWD, x, y) => RankOf(t, o, y) = RankOf(t, o, x) + 1
           /\ \A x, y : NextTo(t, o, BWD, x, y) => RankOf(t, o, y) = RankOf(t, o, x) - 1
  <1> DEFINE A == Rows(t)
             n == Cardinality(A)
             R(x) == RankOf(t, o, x)
  <1>1. /\ IsFiniteSet(A) /\ n \in Nat /\ FWD \in Dir /\ BWD \in Dir
        /\ \A x \in A : R(x) \in 1..n
        /\ \A x, y \in A : Ahead(t, o, FWD, x, y) => R(x) < R(y)
        /\ \A i \in 1..n : \E x \in A : R(x) = i
    <2>1. Counted(t, o, FWD, A)
      BY RanksAreAll, Bounds
    <2> QED BY <2>1, Bounds DEF Counted, RankOf
  <1>2. n # 0
    BY <1>1, FS_EmptySet
  <1>3. \A x, y : Ahead(t, o, BWD, x, y) <=> Ahead(t, o, FWD, y, x)
    BY DEF Ahead, FWD, BWD
  <1>4. \A x, y \in A : Ahead(t, o, FWD, x, y) \/ Ahead(t, o, FWD, y, x) \/ x = y
    BY <1>1, OrderLaws
  <1> HIDE DEF n, R
  <1>5. 1 \in 1..n /\ n \in 1..n
    BY <1>1, <1>2
  <1>6. ASSUME NEW x, IsEnd(t, o, BWD, x) PROVE R(x) = 1
    <2>1. PICK y \in A : R(y) = 1
      BY <1>1, <1>5
    <2>2. x \in A /\ ~Ahead(t, o, FWD, y, x)
      BY <1>3, <1>6 DEF IsEnd
    <2>3. ~Ahead(t, o, FWD, x, y)
      <3>1. R(x) \in 1..n /\ ~(R(x) < R(y))
        BY <1>1, <2>1, <2>2
      <3> QED BY <1>1, <2>1, <2>2, <3>1
    <2> QED BY <1>4, <2>1, <2>2, <2>3
  <1>7. ASSUME NEW x, IsEnd(t, o, FWD, x) PROVE R(x) = n
    <2>1. PICK y \in A : R(y) = n
      BY <1>1, <1>5
    <2>2. x \in A /\ ~Ahead(t, o, FWD, x, y)
      BY <1>7 DEF IsEnd
    <2>3. ~Ahead(t, o, FWD, y, x)
      <3>1. R(x) \in 1..n /\ ~(R(y) < R(x))
        BY <1>1, <2>1, <2>2
      <3> QED BY <1>1, <2>1, <2>2, <3>1
    <2> QED BY <1>4, <2>1, <2>2, <2>3
  <1>8. ASSUME NEW x, NEW y, NextTo(t, o, FWD, x, y) PROVE R(y) = R(x) + 1
    <2>1. x \in A /\ y \in A /\ Ahead(t, o, FWD, x, y)
          /\ \A r \in A : ~(Ahead(t, o, FWD, x, r) /\ Ahead(t, o, FWD, r, y))
      BY <1>8 DEF NextTo
    <2>2. R(x) \in 1..n /\ R(y) \in 1..n /\ R(x) < R(y)
      BY <1>1, <2>1
    <2>3. R(x) + 1 \in 1..n
      BY <1>1, <2>2
    <2>4. PICK z \in A : R(z) = R(x) + 1
      BY <1>1, <2>3
    <2>5. ~(R(z) < R(x)) /\ R(z) # R(x) /\ ~(R(y) < R(z))
      BY <1>1, <2>2, <2>4
    <2>6. ~Ahead(t, o, FWD, z, x) /\ z # x /\ ~Ahead(t, o, FWD, y, z)
      BY <1>1, <2>1, <2>4, <2>5
    <2>7. z = y
      BY <1>4, <2>1, <2>4, <2>6
    <2> QED BY <2>4, <2>7
  <1>9. ASSUME NEW x, NEW y, NextTo(t, o, BWD, x, y) PROVE R(y) = R(x) - 1
    <2>1. NextTo(t, o, FWD, y, x)
      BY <1>3, <1>9 DEF NextTo
    <2>2. R(x) = R(y) + 1
      BY <1>8, <2>1
    <2>3. R(y) \in 1..n
      BY <1>1, <2>1 DEF NextTo
    <2> QED BY <1>1, <2>2, <2>3
  <1> QED BY <1>1, <1>2, <1>5, <1>6, <1>7, <1>8, <1>9 DEF n, R

(* The least and the greatest numbers of an interval, and the neighbours of one. *)
LEMMA FirstAndLast ==
    ASSUME NEW n \in Nat \ {0}
    PROVE  C!First(1..n) = 1 /\ C!Last(1..n) = n
  <1>1. 1 \in 1..n /\ \A y \in 1..n : 1 <= y
    OBVIOUS
  <1>2. n \in 1..n /\ \A y \in 1..n : y <= n
    OBVIOUS
  <1>3. ASSUME NEW x \in 1..n, \A y \in 1..n : x <= y PROVE x = 1
    BY <1>1, <1>3
  <1>4. ASSUME NEW x \in 1..n, \A y \in 1..n : y <= x PROVE x = n
    BY <1>2, <1>4
  <1>5. C!First(1..n) = 1
    BY <1>1, <1>3 DEF C!First
  <1>6. C!Last(1..n) = n
    BY <1>2, <1>4 DEF C!Last
  <1> QED BY <1>5, <1>6

LEMMA NextNumbers ==
    ASSUME NEW n \in Nat, NEW p \in 1..n, NEW S, S = {x \in 1..n : x > p}
    PROVE  /\ p = n => S = {}
           /\ p + 1 \in 1..n => S # {} /\ C!First(S) = p + 1
  <1>1. ASSUME p + 1 \in 1..n PROVE S # {} /\ C!First(S) = p + 1
    <2>1. p + 1 \in S /\ \A y \in S : p + 1 <= y
      BY <1>1
    <2>2. ASSUME NEW x \in S, \A y \in S : x <= y PROVE x = p + 1
      BY <2>1, <2>2
    <2> QED BY <2>1, <2>2 DEF C!First
  <1> QED BY <1>1

LEMMA PreviousNumbers ==
    ASSUME NEW n \in Nat, NEW p \in 1..n, NEW S, S = {x \in 1..n : x < p}
    PROVE  /\ p = 1 => S = {}
           /\ p - 1 \in 1..n => S # {} /\ C!Last(S) = p - 1
  <1>1. ASSUME p - 1 \in 1..n PROVE S # {} /\ C!Last(S) = p - 1
    <2>1. p - 1 \in S /\ \A y \in S : y <= p - 1
      BY <1>1
    <2>2. ASSUME NEW x \in S, \A y \in S : y <= x PROVE x = p - 1
      BY <2>1, <2>2
    <2> QED BY <2>1, <2>2 DEF C!Last
  <1> QED BY <1>1

(* The cursor: its place, and the number of records it moves over. *)
Size == Cardinality(Shown)
Spot == IF app.sees.eof THEN 0 ELSE Place(app.sees.recno)

LEMMA SpotIs ==
    ASSUME Walks
    PROVE  /\ Shown = Rows(table) /\ Size = Cardinality(Rows(table))
           /\ \A x : Place(x) = RankOf(table, order, x)
  <1>1. Shown = Rows(table)
    BY DEF Walks, Shown, Rows
  <1> QED BY <1>1 DEF Size, Place, RankOf, Rank, Ahead

(* What the application sees when a call returns. *)
LEMMA ReturnIs ==
    ASSUME IInv, Walks, IInv', Walks', Next, todo # <<>>, todo' = <<>>
    PROVE  /\ Outcome(app.call, wa', app.sees, table, order)
           /\ Stage(app.call, wa, app.sees, todo, table, order, setDeleted)
           /\ table' = table /\ order' = order /\ app.call \in Frame /\ app.sees.eof \in BOOLEAN
           /\ app'.sees.eof \in BOOLEAN /\ (app'.sees.eof <=> wa'.fEof)
           /\ ~wa'.fEof => app'.sees.recno = Here(wa')
           /\ Shown' = Shown /\ Size' = Size
           /\ Spot' = IF wa'.fEof THEN 0 ELSE RankOf(table, order, Here(wa'))
  <1>1. Step
    <2>1. ~Calling
      BY DEF Calling, CallFlush, CallAppend, CallDelete, CallRecall, RecCount, KeyCount, CallSkip,
             CallGoTo, CallGo, CallSeek, PutValue, SetOrder, SetFilter, SetScope, Resets, Sets,
             Call, Begin, Idle
    <2>2. ~Other
      BY DEF Other, OtherInserts, OtherDeletes
    <2> QED BY <2>1, <2>2 DEF Next
  <1>2. /\ Landed /\ Goes(wa', todo') /\ table' = table
    BY <1>1, StepLands
  <1>3. order' = order /\ app' = [call |-> Ready, sees |-> Sees(wa')]
    BY <1>2 DEF Goes
  <1>4. Outcome(app.call, wa', app.sees, table, order) /\ Still(wa', table, setDeleted)
    BY <1>2 DEF Landed, Lands
  <1>5. Stage(app.call, wa, app.sees, todo, table, order, setDeleted) /\ app.call \in Frame
        /\ app.sees.eof \in BOOLEAN
    BY WalkIs DEF Walks
  <1>6. app'.sees = Sees(wa') /\ ~wa'.isInsert
    BY <1>3, <1>4 DEF Still
  <1>7. /\ app'.sees.eof \in BOOLEAN /\ (app'.sees.eof <=> wa'.fEof)
        /\ ~wa'.fEof => app'.sees.recno = Here(wa')
    <2>1. app'.sees.eof = (wa'.fEof /\ ~(wa'.isInsert /\ wa'.hot)) /\ app'.sees.recno = Current(wa')
      BY <1>6 DEF Sees
    <2>2. ~(wa'.isInsert /\ wa'.hot)
      BY <1>6, Zenon
    <2>3. app'.sees.eof = (wa'.fEof /\ TRUE)
      BY <2>1, <2>2, Zenon
    <2>4. app'.sees.eof \in BOOLEAN /\ (app'.sees.eof <=> wa'.fEof)
      BY <2>3, Zenon
    <2>5. ~wa'.fEof => Current(wa') = Here(wa')
      BY <1>6 DEF Current
    <2> QED BY <2>1, <2>4, <2>5
  <1>8. Shown = Rows(table)
    BY SpotIs
  <1>9. Shown' = Rows(table')
    BY DEF Walks, Shown, Rows
  <1>10. \A x : Place(x)' = RankOf(table, order, x)
    BY <1>2, <1>3, <1>9 DEF Place, RankOf, Rank, Ahead
  <1>11. Spot' = IF wa'.fEof THEN 0 ELSE RankOf(table, order, Here(wa'))
    BY <1>7, <1>10 DEF Spot
  <1>12. Shown' = Shown /\ Size' = Size
    BY <1>2, <1>8, <1>9 DEF Size
  <1> QED BY <1>2, <1>3, <1>4, <1>5, <1>7, <1>11, <1>12

(* The cursor's own actions, in terms of its place. *)
LEMMA CursorAt ==
    ASSUME NEW p, Spot' = p, app'.sees.eof = FALSE
    PROVE  C!At(p)
  <1>1. (IF app.sees.eof THEN 0 ELSE Place(app.sees.recno))' = p
    BY DEF Spot
  <1> QED BY <1>1 DEF C!At

LEMMA CursorLost ==
    ASSUME app'.sees.eof = TRUE
    PROVE  C!Lost
  BY DEF C!Lost

LEMMA Opposite ==
    ASSUME NEW d \in Dir
    PROVE  /\ d = FWD \/ d = BWD
           /\ d = FWD => -d = BWD
           /\ d = BWD => -d = FWD
           /\ FWD # BWD
  BY DEF Dir, FWD, BWD

(* A call that returns was in progress, and what the cursor sees of it. *)
LEMMA ReturnAt ==
    ASSUME IInv, Walks, IInv', Walks', Next, NEW op, Returns(op), op # "ready"
    PROVE  /\ Outcome(app.call, wa', app.sees, table, order)
           /\ Stage(app.call, wa, app.sees, todo, table, order, setDeleted)
           /\ app.call.op = op /\ app.call.d \in Dir /\ todo' = <<>> /\ todo # <<>>
           /\ app.sees.eof \in BOOLEAN /\ table \in [Rec -> Row] /\ Rows(table) # {}
           /\ Size = Cardinality(Rows(table)) /\ UNCHANGED (1..Cardinality(Shown))
           /\ app.sees.eof = FALSE => Spot = RankOf(table, order, app.sees.recno)
           /\ wa'.fEof => C!Lost
           /\ ~wa'.fEof => /\ C!At(RankOf(table, order, Here(wa')))
                           /\ app'.sees.eof = FALSE /\ app'.sees.recno = Here(wa')
  <1>1. app.call.op = op /\ todo' = <<>>
    BY DEF Returns
  <1>2. todo # <<>>
    BY <1>1 DEF Walks, Ready, Do
  <1>3. /\ Outcome(app.call, wa', app.sees, table, order)
        /\ Stage(app.call, wa, app.sees, todo, table, order, setDeleted)
        /\ app.sees.eof \in BOOLEAN
        /\ app'.sees.eof \in BOOLEAN /\ (app'.sees.eof <=> wa'.fEof)
        /\ ~wa'.fEof => app'.sees.recno = Here(wa')
        /\ Shown' = Shown
        /\ Spot' = IF wa'.fEof THEN 0 ELSE RankOf(table, order, Here(wa'))
    BY <1>1, <1>2, ReturnIs
  <1>4. app.call.d \in Dir /\ table \in [Rec -> Row] /\ Suits(table)
    BY <1>2, WalkIs
  <1>5. Rows(table) # {}
    BY <1>4 DEF Suits
  <1>6. Size = Cardinality(Rows(table)) /\ \A x : Place(x) = RankOf(table, order, x)
    BY SpotIs
  <1>7. app.sees.eof = FALSE => Spot = RankOf(table, order, app.sees.recno)
    BY <1>6 DEF Spot
  <1>8. wa'.fEof => C!Lost
    BY <1>3, CursorLost
  <1>9. ASSUME ~wa'.fEof
        PROVE  /\ C!At(RankOf(table, order, Here(wa')))
               /\ app'.sees.eof = FALSE /\ app'.sees.recno = Here(wa')
    <2>1. app'.sees.eof = FALSE /\ app'.sees.recno = Here(wa')
          /\ Spot' = RankOf(table, order, Here(wa'))
      BY <1>3, <1>9
    <2> QED BY <2>1, CursorAt
  <1>10. UNCHANGED (1..Cardinality(Shown))
    BY <1>3
  <1> QED BY <1>1, <1>2, <1>3, <1>4, <1>5, <1>6, <1>7, <1>8, <1>9, <1>10

(* GO TOP and GO BOTTOM. *)
LEMMA GoReturns ==
    ASSUME IInv, Walks, IInv', Walks', Next, Returns("go")
    PROVE  IF app.call.d = FWD THEN C!GoTop ELSE C!GoBottom
  <1> DEFINE n == Cardinality(Rows(table))
             d == app.call.d
  <1>1. /\ Outcome(app.call, wa', app.sees, table, order)
        /\ app.call.op = "go" /\ d \in Dir /\ table \in [Rec -> Row] /\ Rows(table) # {}
        /\ Size = n /\ UNCHANGED (1..Cardinality(Shown))
        /\ ~wa'.fEof => C!At(RankOf(table, order, Here(wa')))
    BY ReturnAt
  <1>2. ~wa'.fEof /\ IsEnd(table, order, -d, Here(wa'))
    BY <1>1 DEF Outcome, OnRow
  <1>3. /\ n \in Nat \ {0} /\ 1..n # {}
        /\ \A x : IsEnd(table, order, BWD, x) => RankOf(table, order, x) = 1
        /\ \A x : IsEnd(table, order, FWD, x) => RankOf(table, order, x) = n
    BY <1>1, PlacesAre
  <1>4. 1..Cardinality(Shown) = 1..n
    BY <1>1 DEF Size
  <1> HIDE DEF n, d
  <1>5. C!First(1..n) = 1 /\ C!Last(1..n) = n
    BY <1>3, FirstAndLast
  <1>6. CASE d = FWD
    <2>1. RankOf(table, order, Here(wa')) = 1
      BY <1>1, <1>2, <1>3, <1>6, Opposite
    <2>2. C!At(C!First(1..n))
      BY <1>1, <1>2, <1>5, <2>1
    <2> QED BY <1>1, <1>3, <1>4, <1>6, <2>2 DEF C!GoTop, d
  <1>7. CASE d = BWD
    <2>1. RankOf(table, order, Here(wa')) = n
      BY <1>1, <1>2, <1>3, <1>7, Opposite
    <2>2. C!At(C!Last(1..n))
      BY <1>1, <1>2, <1>5, <2>1
    <2>3. d # FWD
      BY <1>7, <1>1, Opposite
    <2> QED BY <1>1, <1>3, <1>4, <2>2, <2>3 DEF C!GoBottom, d
  <1> QED BY <1>1, <1>6, <1>7, Opposite

(* GO TO: to a row, or to no record. *)
LEMMA GoToReturns ==
    ASSUME IInv, Walks, IInv', Walks', Next, Returns("goto")
    PROVE  C!GoTo(IF table[app.call.n] = NoRow THEN 0 ELSE Place(app.call.n))
  <1> DEFINE c == app.call
             size == Cardinality(Rows(table))
             p == IF table[c.n] = NoRow THEN 0 ELSE Place(c.n)
  <1>1. /\ Outcome(c, wa', app.sees, table, order)
        /\ Stage(c, wa, app.sees, todo, table, order, setDeleted)
        /\ c.op = "goto" /\ table \in [Rec -> Row] /\ Rows(table) # {}
        /\ Size = size /\ UNCHANGED (1..Cardinality(Shown))
        /\ wa'.fEof => C!Lost
        /\ ~wa'.fEof => C!At(RankOf(table, order, Here(wa')))
    BY ReturnAt
  <1>2. c.n \in Rec
    BY <1>1 DEF Stage, Rawing, Bottoming, Passing, Topping, Topped, AtTop, Asked, Go, Do
  <1>3. IF c.n \in Rows(table) THEN OnRow(wa', table) /\ Here(wa') = c.n ELSE wa'.fEof
    BY <1>1 DEF Outcome
  <1>4. /\ size \in Nat \ {0}
        /\ \A x \in Rows(table) : RankOf(table, order, x) \in 1..size
    BY <1>1, PlacesAre
  <1>5. 1..Cardinality(Shown) = 1..size
    BY <1>1 DEF Size
  <1>6. Place(c.n) = RankOf(table, order, c.n)
    BY SpotIs
  <1>7. c.n \in Rows(table) <=> table[c.n] # NoRow
    BY <1>1, <1>2, RowIs, Bounds DEF Row
  <1> HIDE DEF size, c
  <1>8. CASE c.n \in Rows(table)
    <2>1. p = RankOf(table, order, c.n) /\ p \in 1..size
      BY <1>4, <1>6, <1>7, <1>8
    <2>2. ~wa'.fEof /\ Here(wa') = c.n
      BY <1>3, <1>8 DEF OnRow
    <2>3. C!At(p)
      BY <1>1, <2>1, <2>2
    <2> HIDE DEF p
    <2>4. C!GoTo(p)
      BY <1>1, <1>5, <2>1, <2>3 DEF C!GoTo
    <2> QED BY <2>4 DEF p, c
  <1>9. CASE c.n \notin Rows(table)
    <2>1. p = 0 /\ p \notin 1..size
      BY <1>4, <1>7, <1>9
    <2>2. C!Lost
      BY <1>1, <1>3, <1>9
    <2> HIDE DEF p
    <2>3. C!GoTo(p)
      BY <1>1, <1>5, <2>1, <2>2 DEF C!GoTo
    <2> QED BY <2>3 DEF p, c
  <1> QED BY <1>8, <1>9

(* SKIP and SKIP -1. *)
LEMMA SkipReturns ==
    ASSUME IInv, Walks, IInv', Walks', Next, Returns("skip")
    PROVE  IF app.call.d = FWD THEN C!SkipForward \/ C!SkipAtEof
           ELSE C!SkipBackward \/ C!SkipFromEof
  <1> DEFINE d == app.call.d
             n == Cardinality(Rows(table))
             r == app.sees.recno
             here == Here(wa')
             R(x) == RankOf(table, order, x)
             at == IF app.sees.eof THEN 0 ELSE Place(app.sees.recno)
             after == {x \in 1..Cardinality(Shown) : x > at}
             before == {x \in 1..Cardinality(Shown) : x < at}
  <1>1. /\ Outcome(app.call, wa', app.sees, table, order)
        /\ app.call.op = "skip" /\ d \in Dir /\ table \in [Rec -> Row] /\ Rows(table) # {}
        /\ Size = n /\ UNCHANGED (1..Cardinality(Shown)) /\ app.sees.eof \in BOOLEAN
        /\ app.sees.eof = FALSE => Spot = R(r)
        /\ wa'.fEof => C!Lost
        /\ ~wa'.fEof => C!At(R(here))
    BY ReturnAt
  <1>2. Moved(wa', table, order, d, app.sees)
    BY <1>1 DEF Outcome
  <1>3. /\ n \in Nat \ {0} /\ 1..n # {}
        /\ \A x \in Rows(table) : R(x) \in 1..n
        /\ \A x : IsEnd(table, order, BWD, x) => R(x) = 1
        /\ \A x : IsEnd(table, order, FWD, x) => R(x) = n
        /\ \A x, y : NextTo(table, order, FWD, x, y) => R(y) = R(x) + 1
        /\ \A x, y : NextTo(table, order, BWD, x, y) => R(y) = R(x) - 1
    BY <1>1, PlacesAre
  <1>4. 1..Cardinality(Shown) = 1..n
    BY <1>1 DEF Size
  <1>5. app.sees.eof = FALSE => at = R(r)
    BY <1>1 DEF Spot
  <1>6. (d = FWD \/ d = BWD) /\ FWD # BWD
    BY <1>1, Opposite
  <1>7. OnRow(wa', table) => here \in Rows(table) /\ C!At(R(here))
    BY <1>1 DEF OnRow
  <1>8. after = {x \in 1..n : x > at} /\ before = {x \in 1..n : x < at}
    BY <1>4
  <1>9. ASSUME at \in 1..n
        PROVE  /\ at = n => after = {}
               /\ at + 1 \in 1..n => after # {} /\ C!First(after) = at + 1
               /\ at = 1 => before = {}
               /\ at - 1 \in 1..n => before # {} /\ C!Last(before) = at - 1
    <2> HIDE DEF n, at, after, before
    <2> QED BY <1>3, <1>8, <1>9, NextNumbers, PreviousNumbers
  <1>10. C!After(at) = after /\ C!Before(at) = before
    BY DEF C!After, C!Before
  <1> HIDE DEF n, R, here, r, d
  <1>11. CASE app.sees.eof /\ d = FWD
    <2>1. C!Lost
      BY <1>1, <1>2, <1>11 DEF Moved
    <2>2. C!SkipAtEof
      BY <1>1, <1>11, <2>1 DEF C!SkipAtEof, C!Lost, C!vars
    <2> QED BY <1>11, <2>2 DEF d
  <1>12. CASE app.sees.eof /\ d = BWD
    <2>1. OnRow(wa', table) /\ IsEnd(table, order, FWD, here)
      BY <1>2, <1>6, <1>12 DEF Moved, here
    <2>2. C!At(n)
      BY <1>3, <1>7, <2>1
    <2>3. C!Last(1..n) = n
      BY <1>3, FirstAndLast
    <2>4. C!SkipFromEof
      BY <1>1, <1>3, <1>4, <1>12, <2>2, <2>3 DEF C!SkipFromEof, C!GoBottom
    <2> QED BY <1>6, <1>12, <2>4 DEF d
  <1>13. CASE ~app.sees.eof /\ d = FWD
    <2>1. /\ at = R(r) /\ app.sees.eof = FALSE
          /\ \/ OnRow(wa', table) /\ NextTo(table, order, FWD, r, here)
             \/ IsEnd(table, order, FWD, r) /\ wa'.fEof
      BY <1>1, <1>2, <1>5, <1>13 DEF Moved, here, r
    <2>2. r \in Rows(table) /\ at \in 1..n
      BY <1>3, <2>1 DEF NextTo, IsEnd
    <2>3. IF after # {} THEN C!At(C!First(after)) ELSE C!Lost
      <3>1. CASE OnRow(wa', table) /\ NextTo(table, order, FWD, r, here)
        <4>1. R(here) = at + 1 /\ R(here) \in 1..n /\ C!At(R(here))
          BY <1>3, <1>7, <2>1, <3>1
        <4> HIDE DEF at, after, before
        <4> QED BY <1>9, <2>2, <4>1
      <3>2. CASE IsEnd(table, order, FWD, r) /\ wa'.fEof
        <4>1. at = n /\ C!Lost
          BY <1>1, <1>3, <2>1, <3>2
        <4> HIDE DEF at, after, before
        <4> QED BY <1>9, <2>2, <4>1
      <3> QED BY <2>1, <3>1, <3>2
    <2> HIDE DEF after, before
    <2>4. C!SkipForward
      BY <1>1, <1>10, <2>1, <2>3 DEF C!SkipForward
    <2> QED BY <1>13, <2>4 DEF d
  <1>14. CASE ~app.sees.eof /\ d = BWD
    <2>1. /\ at = R(r) /\ app.sees.eof = FALSE
          /\ \/ OnRow(wa', table) /\ NextTo(table, order, BWD, r, here)
             \/ IsEnd(table, order, BWD, r) /\ OnRow(wa', table) /\ here = r
      BY <1>1, <1>2, <1>5, <1>6, <1>14 DEF Moved, here, r
    <2>2. r \in Rows(table) /\ at \in 1..n
      BY <1>3, <2>1 DEF NextTo, IsEnd
    <2>3. C!At(IF before # {} THEN C!Last(before) ELSE at)
      <3>1. CASE OnRow(wa', table) /\ NextTo(table, order, BWD, r, here)
        <4>1. R(here) = at - 1 /\ R(here) \in 1..n /\ C!At(R(here))
          BY <1>3, <1>7, <2>1, <3>1
        <4> HIDE DEF at, after, before
        <4> QED BY <1>9, <2>2, <4>1
      <3>2. CASE IsEnd(table, order, BWD, r) /\ OnRow(wa', table) /\ here = r
        <4>1. at = 1 /\ C!At(at)
          BY <1>3, <1>7, <2>1, <3>2
        <4> HIDE DEF at, after, before
        <4> QED BY <1>9, <2>2, <4>1
      <3> QED BY <2>1, <3>1, <3>2
    <2> HIDE DEF after, before
    <2>4. C!SkipBackward
      BY <1>1, <1>10, <2>1, <2>3 DEF C!SkipBackward
    <2> QED BY <1>6, <1>14, <2>4 DEF d
  <1> QED BY <1>1, <1>6, <1>11, <1>12, <1>13, <1>14

(* SEEK. *)
LEMMA SeekReturns ==
    ASSUME IInv, Walks, IInv', Walks', Next, Returns("seek")
    PROVE  LET A == {r \in Shown : table[r] = app.call.n}
               sees == app'.sees
           IN IF A = {} THEN app.call.b \/ sees.eof
              ELSE /\ ~sees.eof /\ sees.recno \in A
                   /\ \A r \in A : ~Ahead(table, order, app.call.d, r, sees.recno)
  <1> DEFINE c == app.call
             sees == app'.sees
             A == {r \in Shown : table[r] = c.n}
             here == Here(wa')
  <1>1. /\ Outcome(c, wa', app.sees, table, order) /\ c.op = "seek"
        /\ todo' = <<>> /\ todo # <<>>
        /\ ~wa'.fEof => app'.sees.eof = FALSE /\ app'.sees.recno = here
    BY ReturnAt
  <1>2. app'.sees.eof <=> wa'.fEof
    BY <1>1, ReturnIs
  <1>3. A = Keyed(table, c.n)
    BY SpotIs DEF Keyed
  <1>4. Found(wa', table, order, c) \/ (wa'.fEof /\ Keyed(table, c.n) = {})
    BY <1>1 DEF Outcome
  <1> HIDE DEF A, c, here
  <1>5. CASE wa'.fEof /\ A = {}
    <2>1. A = {} /\ sees.eof
      BY <1>2, <1>5
    <2> QED BY <2>1 DEF A, c
  <1>6. CASE ~(wa'.fEof /\ A = {})
    <2>1. /\ OnRow(wa', table)
          /\ IF A = {} THEN c.b
             ELSE here \in A /\ \A r \in A : ~Ahead(table, order, c.d, r, here)
      BY <1>3, <1>4, <1>6 DEF Found, here
    <2>2. ~sees.eof /\ sees.recno = here
      BY <1>1, <2>1 DEF OnRow
    <2>3. IF A = {} THEN c.b \/ sees.eof
          ELSE /\ ~sees.eof /\ sees.recno \in A
               /\ \A r \in A : ~Ahead(table, order, c.d, r, sees.recno)
      BY <2>1, <2>2
    <2> QED BY <2>3 DEF A, c
  <1> QED BY <1>5, <1>6

-----------------------------------------------------------------------------

(* While the application browses a table nobody changes, the list holds       *)
(* consecutive records of the order in the direction of the area: a SKIP in   *)
(* the list passes what the server would have passed, however the lists were  *)
(* asked for and whichever ends were remembered and forgotten on the way.     *)
THEOREM ListStaysRun ==
    ASSUME Browsing, StartsSuit
    PROVE  Spec => []ListIsRun
  <1>1. ASSUME Walks PROVE ListIsRun
    <2>1. SUFFICES ASSUME Idle,
                          NEW i \in DOMAIN wa.list, i + 1 \in DOMAIN wa.list
                   PROVE  NextTo(table, order, wa.dir, wa.list[i], wa.list[i + 1])
                          /\ Meeting(table, filter) = Rows(table)
      BY DEF ListIsRun, NextTo
    <2>2. Strung(wa, table, order) /\ filter = Val
      BY <1>1, <2>1 DEF Walks, Idle
    <2>3. Run(table, order, wa.dir, wa.list)
      BY <2>2 DEF Strung
    <2> QED BY <2>1, <2>2, <2>3 DEF Run, Rows
  <1> QED BY <1>1, Walking, PTL

(* lBofAt and lEofAt, which make GO TOP, GO BOTTOM and the SKIP past an end   *)
(* answer without the server, are the ends of the order when they are known.  *)
THEOREM EndsHold ==
    ASSUME Browsing, StartsSuit
    PROVE  Spec => []EndsAreEnds
  <1>1. ASSUME Walks PROVE EndsAreEnds
    <2>1. SUFFICES ASSUME Idle, NEW d \in Dir, wa.ends[d] # 0
                   PROVE  IsEnd(table, order, d, wa.ends[d])
                          /\ Meeting(table, filter) = Rows(table)
      BY DEF EndsAreEnds, IsEnd
    <2>2. Strung(wa, table, order) /\ filter = Val
      BY <1>1, <2>1 DEF Walks, Idle
    <2> QED BY <2>1, <2>2 DEF Strung, Rows
  <1> QED BY <1>1, Walking, PTL

(* GO TOP, GO BOTTOM, GO TO, SKIP and SKIP -1 of a work area, each made of    *)
(* several steps over lists, pool and remembered ends, together do what the   *)
(* call does on a cursor over the records in their order.                     *)
THEOREM ListMovesAsCursor ==
    ASSUME Browsing, StartsSuit
    PROVE  Spec => ImplementsCursor
  <1>1. ASSUME IInv, Walks, IInv', Walks', [Next]_vars
        PROVE  [ /\ Returns("go") => IF app.call.d = FWD THEN C!GoTop ELSE C!GoBottom
                 /\ Returns("goto") =>
                        C!GoTo(IF table[app.call.n] = NoRow THEN 0 ELSE Place(app.call.n))
                 /\ Returns("skip") /\ app.call.n = 1 =>
                        IF app.call.d = FWD THEN C!SkipForward \/ C!SkipAtEof
                        ELSE C!SkipBackward \/ C!SkipFromEof ]_vars
    BY <1>1, GoReturns, GoToReturns, SkipReturns
  <1> QED BY <1>1, Invariance, Walking, PTL DEF Spec, ImplementsCursor

(* SEEK stands on the first record of the order with the key (the last with   *)
(* FINDLAST), and answers EOF() when no record has it, unless it is soft.     *)
THEOREM SeekFindsFirst ==
    ASSUME Browsing, StartsSuit
    PROVE  Spec => SeekFindsKey
  <1>1. ASSUME IInv, Walks, IInv', Walks', [Next]_vars
        PROVE  [ Returns("seek") =>
                   LET A == {r \in Shown : table[r] = app.call.n}
                       sees == app'.sees
                   IN IF A = {} THEN app.call.b \/ sees.eof
                      ELSE /\ ~sees.eof /\ sees.recno \in A
                           /\ \A r \in A : ~Ahead(table, order, app.call.d, r, sees.recno) ]_vars
    BY <1>1, SeekReturns
  <1> QED BY <1>1, Invariance, Walking, PTL DEF Spec, SeekFindsKey
=============================================================================
