-------------------------- MODULE PageCacheProofs --------------------------
(***************************************************************************)
(* Proofs about PageCache, for rings, pages and tables of any size, with   *)
(* or without DELETE, marks, GO TO, SKIP -1 and sibling areas:             *)
(*   - the work area stays within its types: every slot that becomes       *)
(*     current holds a record, every edge of the window is a slot          *)
(*     (TypeCorrect);                                                      *)
(*   - a remembered end is the end (EndsStayEnds).                         *)
(* For a table that loses no rows, as long as the window does not become   *)
(* the whole ring:                                                         *)
(*   - the window holds consecutive rows, whichever way its pages came in  *)
(*     and around the ring (WindowStaysComplete);                          *)
(*   - the area moves as a cursor on the table does (CacheMovesAsCursor).  *)
(***************************************************************************)
EXTENDS PageCache, FiniteSetTheorems, FunctionTheorems, TLAPS

-----------------------------------------------------------------------------
(* Rows of a page *)

Dir == {FWD, BWD}

LEMMA Directions ==
    ASSUME NEW dir \in Dir, NEW x \in Int
    PROVE  dir * x \in Int /\ \A y \in Int : dir * x = dir * y => x = y
  <1>1. CASE dir = 1
    BY <1>1
  <1>2. CASE dir = -1
    <2>1. \A y \in Int : -1 * y = -y
      OBVIOUS
    <2> QED BY <1>2, <2>1
  <1> QED BY <1>1, <1>2 DEF Dir, FWD, BWD

(* The members of A not after x, walking in direction dir. *)
UpTo(A, dir, x) == {y \in A : dir * y <= dir * x}

(* Each number up to the size of a finite set of integers is the rank of a  *)
(* member: the ranks are all different, and as many as the members.         *)
LEMMA RanksAreAll ==
    ASSUME NEW A \in SUBSET Int, IsFiniteSet(A), NEW dir \in Dir
    PROVE  /\ Cardinality(A) \in Nat
           /\ \A i \in 1..Cardinality(A) : \E x \in A : Cardinality(UpTo(A, dir, x)) = i
  <1> DEFINE N == Cardinality(A)
             h == [x \in A |-> Cardinality(UpTo(A, dir, x))]
  <1>1. N \in Nat
    BY FS_CardinalityType
  <1>2. \A x \in A : /\ UpTo(A, dir, x) \in SUBSET A /\ IsFiniteSet(UpTo(A, dir, x))
                     /\ Cardinality(UpTo(A, dir, x)) \in 1..N
    <2> TAKE x \in A
    <2>1. UpTo(A, dir, x) \in SUBSET A /\ x \in UpTo(A, dir, x)
      BY DEF UpTo, Dir, FWD, BWD
    <2>2. IsFiniteSet(UpTo(A, dir, x)) /\ Cardinality(UpTo(A, dir, x)) <= N
      BY <2>1, FS_Subset
    <2>3. Cardinality(UpTo(A, dir, x)) \in Nat
      BY <2>2, FS_CardinalityType
    <2>4. Cardinality(UpTo(A, dir, x)) # 0
      BY <2>1, <2>2, FS_EmptySet
    <2> QED BY <1>1, <2>1, <2>2, <2>3, <2>4
  <1>3. ASSUME NEW x \in A, NEW y \in A, dir * x < dir * y
        PROVE  Cardinality(UpTo(A, dir, x)) # Cardinality(UpTo(A, dir, y))
    <2>1. UpTo(A, dir, x) \in SUBSET UpTo(A, dir, y) /\ y \notin UpTo(A, dir, x)
          /\ y \in UpTo(A, dir, y)
      <3>1. \A z \in A : dir * z \in Int
        BY Directions
      <3> HIDE DEF N, h
      <3>2. dir * x < dir * y
        BY <1>3
      <3>3. \A z \in A : dir * z <= dir * x => dir * z <= dir * y
        BY <3>1, <3>2
      <3>4. ~(dir * y <= dir * x) /\ dir * y <= dir * y
        BY <3>1, <3>2
      <3> QED BY <3>3, <3>4 DEF UpTo
    <2>2. IsFiniteSet(UpTo(A, dir, y)) /\ UpTo(A, dir, x) # UpTo(A, dir, y)
      BY <1>2, <2>1
    <2> HIDE DEF N, h
    <2> QED BY <2>1, <2>2, FS_Subset
  <1>4. h \in Injection(A, 1..N)
    <2>1. h \in [A -> 1..N]
      <3> HIDE DEF N
      <3> QED BY <1>2
    <2>2. ASSUME NEW x \in A, NEW y \in A, h[x] = h[y] PROVE x = y
      <3> HIDE DEF N
      <3>1. ~(dir * x < dir * y) /\ ~(dir * y < dir * x)
        BY <1>3, <2>2
      <3> QED BY <3>1 DEF Dir, FWD, BWD
    <2> HIDE DEF h
    <2> QED BY <2>1, <2>2 DEF Injection, IsInjective
  <1>5. IsFiniteSet(1..N) /\ Cardinality(1..N) = N
    BY <1>1, FS_Interval
  <1>6. h \in Surjection(A, 1..N)
    <2> HIDE DEF h
    <2> QED BY <1>4, <1>5, FS_Injection
  <1>7. \A i \in 1..N : \E x \in A : h[x] = i
    <2> HIDE DEF h
    <2> QED BY <1>6 DEF Surjection
  <1> QED BY <1>1, <1>7

(* x is the first, the last of A in direction dir. *)
FirstOf(A, dir, x) == x \in A /\ \A y \in A : dir * x <= dir * y
LastOf(A, dir, x) == x \in A /\ \A y \in A : dir * y <= dir * x

(* A page has the rows asked for; a page with fewer than k rows has them all, *)
(* and its last row is the last.                                              *)
LEMMA PageFacts ==
    ASSUME NEW S \in SUBSET Rec, NEW r \in Int, NEW dir \in Dir, NEW k \in Nat \ {0},
           NEW A, A = {x \in S : dir * x >= dir * r},
           NEW P, P = RowsFrom(S, r, dir, k)
    PROVE  /\ P \in Seq(A) /\ Len(P) <= k
           /\ P = <<>> => A = {}
           /\ P # <<>> => FirstOf(A, dir, P[1])
           /\ P # <<>> /\ Len(P) < k => LastOf(A, dir, P[Len(P)])
  <1> DEFINE N == Cardinality(A)
             n == IF N < k THEN N ELSE k
             row(i) == CHOOSE x \in A : Cardinality(UpTo(A, dir, x)) = i
  <1>1. A \in SUBSET Int /\ IsFiniteSet(A) /\ A \in SUBSET (1..MaxRec)
    <2>1. A \in SUBSET (1..MaxRec)
      BY DEF Rec
    <2>2. MaxRec \in Nat
      BY RingAssumption
    <2>3. IsFiniteSet(1..MaxRec)
      BY <2>2, FS_Interval
    <2>4. IsFiniteSet(A)
      BY <2>1, <2>3, FS_Subset
    <2> QED BY <2>1, <2>4
  <1>2. N \in Nat /\ \A i \in 1..N : \E x \in A : Cardinality(UpTo(A, dir, x)) = i
    <2> HIDE DEF row
    <2> QED BY <1>1, RanksAreAll
  <1>3. P = [i \in 1..n |-> row(i)]
    BY DEF RowsFrom, UpTo
  <1>4. n \in Nat /\ n <= N /\ n <= k /\ (n < k => n = N)
    <2> HIDE DEF N
    <2> QED BY <1>2
  <1> HIDE DEF n
  <1>5. \A i \in 1..n : row(i) \in A /\ Cardinality(UpTo(A, dir, row(i))) = i
    <2> TAKE i \in 1..n
    <2>1. i \in 1..N
      <3> HIDE DEF N
      <3> QED BY <1>2, <1>4
    <2> HIDE DEF N
    <2> QED BY <1>2, <2>1
  <1>6. P \in Seq(A) /\ Len(P) = n
    <2> HIDE DEF row
    <2>1. P \in [1..n -> A]
      BY <1>3, <1>5
    <2> QED BY <1>3, <1>4, <2>1
  <1>7. n = 0 <=> P = <<>>
    BY <1>6
  <1>8. ASSUME P = <<>> PROVE A = {}
    <2>1. N = 0
      <3> HIDE DEF N
      <3> QED BY <1>4, <1>7, <1>8
    <2> QED BY <1>1, <2>1, FS_EmptySet
  <1>9. ASSUME P # <<>> PROVE FirstOf(A, dir, P[1])
    <2>1. P[1] \in A /\ Cardinality(UpTo(A, dir, P[1])) = 1
      <3>1. 1 \in 1..n
        BY <1>4, <1>7, <1>9
      <3> HIDE DEF row
      <3> QED BY <1>3, <1>5, <3>1
    <2>2. ASSUME NEW y \in A, ~(dir * P[1] <= dir * y) PROVE FALSE
      <3> DEFINE U == UpTo(A, dir, P[1])
      <3>1. y \in U /\ P[1] \in U /\ y # P[1] /\ U \in SUBSET A
        <4>1. dir * y \in Int /\ dir * P[1] \in Int
          BY <1>1, <2>1, Directions
        <4> QED BY <2>1, <2>2, <4>1 DEF UpTo
      <3>2. IsFiniteSet(U)
        <4> HIDE DEF U
        <4> QED BY <1>1, <3>1, FS_Subset
      <3>3. \E z : U = {z}
        <4> QED BY <2>1, <3>2, FS_Singleton
      <3> QED BY <3>1, <3>3
    <2> QED BY <2>1, <2>2 DEF FirstOf
  <1>10. ASSUME P # <<>>, n < k PROVE LastOf(A, dir, P[n])
    <2>1. P[n] \in A /\ Cardinality(UpTo(A, dir, P[n])) = N
      <3>1. n \in 1..n /\ n = N
        BY <1>4, <1>7, <1>10
      <3> HIDE DEF row, N
      <3> QED BY <1>3, <1>5, <3>1
    <2>2. UpTo(A, dir, P[n]) \in SUBSET A
      BY DEF UpTo
    <2>3. UpTo(A, dir, P[n]) = A
      <3> QED BY <1>1, <2>1, <2>2, FS_Subset
    <2> QED BY <2>1, <2>3 DEF UpTo, LastOf
  <1> QED BY <1>4, <1>6, <1>8, <1>9, <1>10

-----------------------------------------------------------------------------
(* The ring *)

LEMMA RingFacts ==
    /\ Ring \in Nat /\ Ring >= 5 /\ MaxRec \in Nat /\ Slot = 1..Ring /\ Rec = 1..MaxRec
    /\ FetchSize \in 1..(Ring - 4) /\ PageSizes \subseteq 1..(Ring - 4)
    /\ Nil \notin 0..(MaxRec + 1) /\ Sizes \subseteq 0..MaxRec /\ GoTos \subseteq 0..MaxRec
  BY RingAssumption DEF Slot, Rec

(* A slot number that is less than a ring beyond the ring is taken back to it. *)
LEMMA Fixed ==
    ASSUME NEW s \in Int, 1 - Ring <= s, s <= 2 * Ring
    PROVE  Fix(s) \in Slot
  BY RingFacts DEF Fix

LEMMA NextFixed ==
    ASSUME NEW s \in 0..Ring, NEW dir \in Dir, NEW k \in 0..(Ring - 1)
    PROVE  Fix(s + dir * k) \in Slot
  <1>1. CASE dir = 1
    BY <1>1, Fixed, RingFacts
  <1>2. CASE dir = -1
    BY <1>2, Fixed, RingFacts
  <1> QED BY <1>1, <1>2 DEF Dir, FWD, BWD

LEMMA Distances ==
    ASSUME NEW o \in Int, NEW s \in Int, NEW dir \in Dir
    PROVE  /\ Distance(o, s, dir) \in 0..(Ring - 1)
           /\ Distance(o, o, dir) = 0
  <1>1. dir * (s - o) \in Int /\ dir * (o - o) = 0
    BY Directions DEF Dir, FWD, BWD
  <1>2. \A x \in Int : x % Ring \in 0..(Ring - 1)
    BY RingFacts
  <1>3. 0 % Ring = 0
    BY RingFacts
  <1> QED BY <1>1, <1>2, <1>3 DEF Distance

(* Of some slots one is the nearest, walking in a direction. *)
LEMMA NearestIs ==
    ASSUME NEW hits \in SUBSET Slot, hits # {}, NEW from \in Int, NEW dir \in Dir
    PROVE  /\ Nearest(hits, from, dir) \in hits
           /\ \A t \in hits : Distance(from, Nearest(hits, from, dir), dir) <= Distance(from, t, dir)
  <1> DEFINE D == {Distance(from, s, dir) : s \in hits}
  <1>1. D \in SUBSET (0..(Ring - 1)) /\ D # {}
    <2>1. \A s \in hits : Distance(from, s, dir) \in 0..(Ring - 1)
      BY Distances, RingFacts
    <2> QED BY <2>1
  <1> HIDE DEF D
  <1>2. D \in SUBSET Int /\ IsFiniteSet(D)
    <2>1. IsFiniteSet(0..(Ring - 1))
      BY RingFacts, FS_Interval
    <2>2. IsFiniteSet(D)
      BY <1>1, <2>1, FS_Subset
    <2> QED BY <1>1, <2>2, RingFacts
  <1>3. Cardinality(D) \in Nat /\ Cardinality(D) # 0
    BY <1>1, <1>2, FS_CardinalityType, FS_EmptySet
  <1>4. PICK d \in D : Cardinality(UpTo(D, FWD, d)) = 1
    <2>1. FWD \in Dir
      BY DEF Dir
    <2> QED BY <1>2, <1>3, <2>1, RanksAreAll
  <1>5. \A e \in D : d <= e
    <2> SUFFICES ASSUME NEW e \in D, e < d PROVE FALSE
      BY <1>2
    <2>1. e \in UpTo(D, FWD, d) /\ d \in UpTo(D, FWD, d) /\ UpTo(D, FWD, d) \in SUBSET D
      BY <1>2 DEF UpTo, FWD
    <2>2. IsFiniteSet(UpTo(D, FWD, d))
      BY <1>2, <2>1, FS_Subset
    <2>3. \E z : UpTo(D, FWD, d) = {z}
      BY <1>4, <2>2, FS_Singleton
    <2> QED BY <1>2, <2>1, <2>3
  <1>6. \E s \in hits : \A t \in hits : Distance(from, s, dir) <= Distance(from, t, dir)
    BY <1>5 DEF D
  <1> QED BY <1>6 DEF Nearest

LEMMA NearestIsHit ==
    ASSUME NEW hits \in SUBSET Slot, NEW from \in Int, NEW dir \in Dir
    PROVE  Nearest(hits, from, dir) \in hits \/ (hits = {} /\ Nearest(hits, from, dir) = 0)
  <1>1. CASE hits = {}
    BY <1>1 DEF Nearest
  <1>2. CASE hits # {}
    BY <1>2, NearestIs
  <1> QED BY <1>1, <1>2

(* A search answers a slot with a row, or 0. *)
LEMMA SearchFinds ==
    ASSUME NEW a \in Area, NEW dir \in Dir, NEW past \in BOOLEAN
    PROVE  Search(a, dir, past) # 0 =>
               Search(a, dir, past) \in Slot /\ a.aCache[Search(a, dir, past)] # Nil
  <1>1. CASE a.pos = 0
    BY <1>1 DEF Search
  <1>2. CASE a.pos # 0
    <2> DEFINE from == Start(a, dir, past)
               hits == {s \in Ahead(a, from, dir) : a.aCache[s] # Nil}
    <2>1. from \in Int
      <3>1. a.pos \in 0..Ring /\ Fix(a.pos + dir) \in Int
        <4>1. a.pos \in 0..Ring /\ a.pos + dir \in Int /\ Ring \in Int
          BY RingFacts DEF Area, Dir, FWD, BWD
        <4> QED BY <4>1 DEF Fix
      <3> QED BY <3>1, RingFacts DEF Start
    <2>2. hits \in SUBSET Slot
      BY DEF Ahead
    <2>3. Search(a, dir, past) = Nearest(hits, from, dir)
      BY <1>2 DEF Search
    <2>4. Nearest(hits, from, dir) \in hits \/ Nearest(hits, from, dir) = 0
      <3> HIDE DEF hits, from
      <3> QED BY <2>1, <2>2, NearestIsHit
    <2> QED BY <2>2, <2>3, <2>4
  <1> QED BY <1>1, <1>2

-----------------------------------------------------------------------------
(* The work area *)

(* What the calls keep of an area a on a table of rows T: it is of its type,   *)
(* its window has both edges and a current slot or none of them, it is not on  *)
(* a row it has deleted, and the ends it remembers are the ends.               *)
Shape(a) == (a.pos = 0 <=> a.end = 0) /\ (a.begin = 0 <=> a.end = 0)

Ends(a, T) ==
    /\ a.bofAt \in T => \A r \in T : a.bofAt <= r
    /\ a.eofAt \in T => \A r \in T : a.eofAt >= r

Good(a, T) ==
    /\ a \in Area /\ Shape(a) /\ Ends(a, T)
    /\ a.deleted => a.recno \notin T
    /\ ~a.hot /\ ~a.isInsert

(* The rows are some of those with numbers given so far. *)
Rows(T, n) == n \in 0..MaxRec /\ T \in SUBSET (1..n)

LEMMA RowsFacts ==
    ASSUME NEW T, NEW n, Rows(T, n)
    PROVE  n \in Int /\ n >= 0 /\ n <= MaxRec /\ T \in SUBSET Rec /\ T \in SUBSET Int
           /\ n + 1 \notin T /\ 0 \notin T /\ MaxRec + 1 \notin T
  BY RingFacts DEF Rows

(* Flags are of no importance. *)
LEMMA Flags ==
    ASSUME NEW T, NEW a, Good(a, T),
           NEW x \in BOOLEAN, NEW y \in BOOLEAN
    PROVE  /\ Good([a EXCEPT !.bof = x], T)
           /\ Good([a EXCEPT !.bof = x, !.eof = y], T)
           /\ Good([a EXCEPT !.bof = x, !.fBof = y], T)
           /\ Good([a EXCEPT !.fBof = x], T)
           /\ Good([a EXCEPT !.fEof = x], T)
           /\ Good([a EXCEPT !.wasdel = x], T)
  <1>1. Good([a EXCEPT !.bof = x], T)
    <2> DEFINE b == [a EXCEPT !.bof = x]
    <2>1. b \in Area
      BY DEF Good, Area
    <2>2. b.pos = a.pos /\ b.begin = a.begin /\ b.end = a.end /\ b.bofAt = a.bofAt /\ b.eofAt = a.eofAt
          /\ b.deleted = a.deleted /\ b.recno = a.recno /\ b.hot = a.hot /\ b.isInsert = a.isInsert
      BY DEF Good, Area
    <2> HIDE DEF b
    <2>3. Good(b, T)
      BY <2>1, <2>2 DEF Good, Shape, Ends
    <2> QED BY <2>3 DEF b
  <1>2. Good([a EXCEPT !.bof = x, !.eof = y], T)
    <2> DEFINE b == [a EXCEPT !.bof = x, !.eof = y]
    <2>1. b \in Area
      BY DEF Good, Area
    <2>2. b.pos = a.pos /\ b.begin = a.begin /\ b.end = a.end /\ b.bofAt = a.bofAt /\ b.eofAt = a.eofAt
          /\ b.deleted = a.deleted /\ b.recno = a.recno /\ b.hot = a.hot /\ b.isInsert = a.isInsert
      BY DEF Good, Area
    <2> HIDE DEF b
    <2>3. Good(b, T)
      BY <2>1, <2>2 DEF Good, Shape, Ends
    <2> QED BY <2>3 DEF b
  <1>3. Good([a EXCEPT !.bof = x, !.fBof = y], T)
    <2> DEFINE b == [a EXCEPT !.bof = x, !.fBof = y]
    <2>1. b \in Area
      BY DEF Good, Area
    <2>2. b.pos = a.pos /\ b.begin = a.begin /\ b.end = a.end /\ b.bofAt = a.bofAt /\ b.eofAt = a.eofAt
          /\ b.deleted = a.deleted /\ b.recno = a.recno /\ b.hot = a.hot /\ b.isInsert = a.isInsert
      BY DEF Good, Area
    <2> HIDE DEF b
    <2>3. Good(b, T)
      BY <2>1, <2>2 DEF Good, Shape, Ends
    <2> QED BY <2>3 DEF b
  <1>4. Good([a EXCEPT !.fBof = x], T)
    <2> DEFINE b == [a EXCEPT !.fBof = x]
    <2>1. b \in Area
      BY DEF Good, Area
    <2>2. b.pos = a.pos /\ b.begin = a.begin /\ b.end = a.end /\ b.bofAt = a.bofAt /\ b.eofAt = a.eofAt
          /\ b.deleted = a.deleted /\ b.recno = a.recno /\ b.hot = a.hot /\ b.isInsert = a.isInsert
      BY DEF Good, Area
    <2> HIDE DEF b
    <2>3. Good(b, T)
      BY <2>1, <2>2 DEF Good, Shape, Ends
    <2> QED BY <2>3 DEF b
  <1>5. Good([a EXCEPT !.fEof = x], T)
    <2> DEFINE b == [a EXCEPT !.fEof = x]
    <2>1. b \in Area
      BY DEF Good, Area
    <2>2. b.pos = a.pos /\ b.begin = a.begin /\ b.end = a.end /\ b.bofAt = a.bofAt /\ b.eofAt = a.eofAt
          /\ b.deleted = a.deleted /\ b.recno = a.recno /\ b.hot = a.hot /\ b.isInsert = a.isInsert
      BY DEF Good, Area
    <2> HIDE DEF b
    <2>3. Good(b, T)
      BY <2>1, <2>2 DEF Good, Shape, Ends
    <2> QED BY <2>3 DEF b
  <1>6. Good([a EXCEPT !.wasdel = x], T)
    <2> DEFINE b == [a EXCEPT !.wasdel = x]
    <2>1. b \in Area
      BY DEF Good, Area
    <2>2. b.pos = a.pos /\ b.begin = a.begin /\ b.end = a.end /\ b.bofAt = a.bofAt /\ b.eofAt = a.eofAt
          /\ b.deleted = a.deleted /\ b.recno = a.recno /\ b.hot = a.hot /\ b.isInsert = a.isInsert
      BY DEF Good, Area
    <2> HIDE DEF b
    <2>3. Good(b, T)
      BY <2>1, <2>2 DEF Good, Shape, Ends
    <2> QED BY <2>3 DEF b
  <1> QED BY <1>1, <1>2, <1>3, <1>4, <1>5, <1>6

LEMMA Synced ==
    ASSUME NEW T, NEW a, Good(a, T)
    PROVE  Good(SyncFlags(a), T)
  BY DEF Good, Area, Shape, Ends, SyncFlags

LEMMA ConcludedGood ==
    ASSUME NEW T, NEW a, Good(a, T), NEW dir \in Dir
    PROVE  Good(Concluded(a, dir), T)
  <1> DEFINE c == IF dir = FWD THEN [a EXCEPT !.fBof = FALSE] ELSE [a EXCEPT !.fEof = FALSE]
  <1>1. Good(c, T)
    BY Flags
  <1> HIDE DEF c
  <1>2. Good([c EXCEPT !.bof = c.fBof, !.eof = c.fEof, !.wasdel = FALSE], T)
    BY <1>1 DEF Good, Area, Shape, Ends
  <1> QED BY <1>2 DEF Concluded, c

LEMMA Cleaned ==
    ASSUME NEW T, NEW n, Rows(T, n), NEW a, Good(a, T)
    PROVE  Good(CleanBuffer(a, n), T)
  <1>1. n + 1 \in 0..(MaxRec + 1)
    BY RowsFacts, RingFacts
  <1> QED BY <1>1 DEF Good, Area, Shape, Ends, CleanBuffer

LEMMA CurrentSet ==
    ASSUME NEW T, NEW a, Good(a, T), a.end # 0,
           NEW s \in Slot, a.aCache[s] # Nil
    PROVE  /\ Good(SetCurrent(a, s), T)
           /\ SetCurrent(a, s).recno = a.aCache[s]
  <1>1. a.aCache[s] \in 0..(MaxRec + 1) /\ s \in 0..Ring /\ s # 0
    BY RingFacts DEF Good, Area
  <1> QED BY <1>1 DEF Good, Area, Shape, Ends, SetCurrent

LEMMA WindowEmptied ==
    ASSUME NEW T, NEW a, Good(a, T)
    PROVE  Good(EmptyWindow(a), T)
  <1>1. 0 \in 0..Ring
    BY RingFacts
  <1> QED BY <1>1 DEF Good, Area, Shape, Ends, EmptyWindow

LEMMA Raised ==
    ASSUME NEW T, NEW n, Rows(T, n), NEW a, Good(a, T)
    PROVE  Good(RaiseEof(a, n), T) /\ Good(RaiseBof(a), T)
  BY Flags, Cleaned DEF RaiseEof, RaiseBof

-----------------------------------------------------------------------------
(* Pages *)

(* The window is not empty. *)
Standing(a) == a.pos \in Slot /\ a.begin \in Slot /\ a.end \in Slot

LEMMA MovedGood ==
    ASSUME NEW T, NEW n, Rows(T, n), NEW a, Good(a, T),
           NEW dir \in Dir, NEW f \in 1..(Ring - 4), NEW pushed \in BOOLEAN
    PROVE  LET w == Moved(a, dir, f, pushed)
           IN /\ Good(w, T) /\ Standing(w) /\ w.wasdel = a.wasdel
              /\ a.pos = 0 => w.pos = IF dir = FWD THEN 1 ELSE Ring
  <1> DEFINE reach  == a.pos + dir * f
             single == a.begin = a.end
             first  == IF dir = FWD THEN 1 ELSE Ring
             forget == ~single /\ (pushed \/ reach \notin Slot)
             Other(edge) == IF pushed THEN Fix(reach + 2 * dir)
                            ELSE IF edge = 0 THEN first ELSE edge
             begin == IF dir = FWD THEN Other(a.begin) ELSE Fix(reach)
             end   == IF dir = FWD THEN Fix(reach) ELSE Other(a.end)
             eofAt == IF single \/ forget THEN 0 ELSE a.eofAt
             bofAt == IF forget THEN 0 ELSE a.bofAt
             pos   == IF a.pos = 0 THEN first ELSE a.pos
             w == [a EXCEPT !.begin = begin, !.end = end, !.eofAt = eofAt, !.bofAt = bofAt,
                            !.pos = pos]
  <1>1. /\ a.pos \in 0..Ring /\ a.begin \in 0..Ring /\ a.end \in 0..Ring
        /\ a.bofAt \in 0..MaxRec + 1 /\ a.eofAt \in 0..MaxRec + 1
    BY DEF Good, Area
  <1>2. Fix(reach) \in Slot /\ Fix(reach + 2 * dir) \in Slot
    <2>1. /\ a.pos \in Int /\ a.pos >= 0 /\ a.pos <= Ring /\ f \in Int
          /\ f >= 1 /\ f <= Ring - 4 /\ Ring \in Int /\ Ring >= 5
      BY <1>1, RingFacts
    <2>2. ASSUME dir = 1
          PROVE  /\ reach = a.pos + f /\ reach + 2 * dir = a.pos + f + 2
      BY <2>1, <2>2
    <2>3. ASSUME dir = -1
          PROVE  /\ reach = a.pos - f /\ reach + 2 * dir = a.pos - f - 2
      BY <2>1, <2>3
    <2> HIDE DEF reach
    <2>4. dir = 1 \/ dir = -1
      BY DEF Dir, FWD, BWD
    <2>5. \A x \in {reach, reach + 2 * dir} : x \in Int /\ 1 - Ring <= x /\ x <= 2 * Ring
      BY <2>1, <2>2, <2>3, <2>4
    <2> QED BY <2>5, Fixed
  <1>3. first \in Slot
    BY RingFacts
  <1> HIDE DEF first, reach
  <1>4. \A edge \in 0..Ring : Other(edge) \in Slot
    BY <1>2, <1>3, RingFacts
  <1> HIDE DEF Other
  <1>5. begin \in Slot /\ end \in Slot /\ pos \in Slot
    <2>1. begin \in Slot /\ end \in Slot
      BY <1>1, <1>2, <1>4
    <2>2. a.pos # 0 => a.pos \in Slot
      BY <1>1, RingFacts
    <2> QED BY <1>3, <2>1, <2>2
  <1>6. bofAt \in {0, a.bofAt} /\ eofAt \in {0, a.eofAt}
    OBVIOUS
  <1> HIDE DEF begin, end, eofAt, bofAt
  <1>7. a.pos = 0 => pos = first
    OBVIOUS
  <1> HIDE DEF pos
  <1>8. Moved(a, dir, f, pushed) = w
    BY DEF Moved, first, reach, Other, begin, end, eofAt, bofAt, pos
  <1>9. Good(w, T) /\ w.pos = pos /\ w.begin = begin /\ w.end = end /\ w.wasdel = a.wasdel
    <2>1. /\ begin \in 0..Ring /\ begin # 0 /\ end \in 0..Ring /\ end # 0
          /\ pos \in 0..Ring /\ pos # 0
          /\ eofAt \in 0..MaxRec + 1 /\ bofAt \in 0..MaxRec + 1
      BY <1>1, <1>5, <1>6, RingFacts
    <2>2. 0 \notin T
      BY RowsFacts
    <2> QED BY <1>6, <2>1, <2>2 DEF Good, Area, Shape, Ends
  <1> QED BY <1>5, <1>7, <1>8, <1>9 DEF first, Standing

LEMMA WindowGood ==
    ASSUME NEW T, NEW n, Rows(T, n), NEW a, Good(a, T),
           NEW dir \in Dir, NEW f \in 1..(Ring - 4)
    PROVE  /\ Good(Window(a, dir, f), T) /\ Standing(Window(a, dir, f))
           /\ Window(a, dir, f).wasdel = a.wasdel
           /\ a.pos = 0 => Window(a, dir, f).pos = IF dir = FWD THEN 1 ELSE Ring
  <1> DEFINE reach == a.pos + dir * f
             edge  == IF a.begin < a.end THEN Fix(reach) ELSE reach
             meets == IF dir = FWD THEN edge >= a.begin - 2 ELSE edge <= a.end + 2
             pushed == a.begin # a.end /\ (a.begin < a.end => reach \notin Slot) /\ meets
  <1>1. Window(a, dir, f) = Moved(a, dir, f, pushed)
    BY DEF Window
  <1>2. pushed \in BOOLEAN
    OBVIOUS
  <1> HIDE DEF pushed
  <1> QED BY <1>1, <1>2, MovedGood

(* The rows of a page come from the table, and a short one ends with its last. *)
Page(page, T, dir, f) ==
    /\ page \in Seq(T) /\ page # <<>>
    /\ Len(page) <= f + 1
    /\ Len(page) <= f => LastOf(T, dir, page[Len(page)])

LEMMA EndFound ==
    ASSUME NEW T, NEW n, Rows(T, n), NEW a, Good(a, T), a.end # 0, NEW dir \in Dir,
           NEW r, LastOf(T, dir, r), NEW s \in Slot
    PROVE  /\ Good(EndKnown(a, dir, r, s), T)
           /\ EndKnown(a, dir, r, s).end # 0 /\ EndKnown(a, dir, r, s).pos = a.pos
           /\ EndKnown(a, dir, r, s).aCache = a.aCache
  <1>1. s \in 0..Ring /\ s # 0 /\ r \in T /\ r \in 0..MaxRec + 1 /\ T \in SUBSET Int
    BY RingFacts, RowsFacts DEF LastOf
  <1>2. CASE dir = FWD
    <2>1. \A y \in T : y <= r
      BY <1>1, <1>2 DEF LastOf, FWD
    <2> QED BY <1>1, <1>2, <2>1 DEF Good, Area, Shape, Ends, EndKnown
  <1>3. CASE dir = BWD
    <2>1. \A y \in T : r <= y
      BY <1>1, <1>3 DEF LastOf, BWD
    <2>2. EndKnown(a, dir, r, s) = [a EXCEPT !.bofAt = r, !.begin = s]
      BY <1>3 DEF EndKnown, FWD, BWD
    <2> QED BY <1>1, <2>1, <2>2 DEF Good, Area, Shape, Ends
  <1> QED BY <1>2, <1>3 DEF Dir

LEMMA ArrivedGood ==
    ASSUME NEW T, NEW a, Good(a, T), a.end # 0
    PROVE  /\ Good(Arrived(a), T)
           /\ a.aCache[a.pos] # Nil => Arrived(a).recno = a.aCache[a.pos]
  <1>1. a.pos \in Slot
    BY RingFacts DEF Good, Area, Shape
  <1>2. CASE a.aCache[a.pos] = Nil
    BY <1>2 DEF Arrived
  <1>3. CASE a.aCache[a.pos] # Nil
    <2>1. Arrived(a) = SetCurrent(a, a.pos)
      BY <1>3 DEF Arrived
    <2>2. Good(SetCurrent(a, a.pos), T) /\ SetCurrent(a, a.pos).recno = a.aCache[a.pos]
      <3> DEFINE s == a.pos
      <3> HIDE DEF s
      <3>1. s \in Slot /\ a.aCache[s] # Nil
        BY <1>1, <1>3 DEF s
      <3>2. Good(SetCurrent(a, s), T) /\ SetCurrent(a, s).recno = a.aCache[s]
        BY <3>1, CurrentSet
      <3> QED BY <3>2 DEF s
    <2> QED BY <2>1, <2>2
  <1> QED BY <1>2, <1>3

LEMMA StoredFrom ==
    ASSUME NEW T, NEW n, Rows(T, n), NEW w, Good(w, T), Standing(w), NEW dir \in Dir,
           NEW f \in 1..(Ring - 4), NEW page, Page(page, T, dir, f),
           NEW from \in Slot, NEW here
    PROVE  /\ Good(StoreFrom(w, from, dir, f, here, page), T)
           /\ from = w.pos /\ here = w.pos => StoreFrom(w, from, dir, f, here, page).recno = page[1]
  <1> DEFINE cache == Filled(w.aCache, from, here, dir, page)
             b == [w EXCEPT !.aCache = cache]
             e == EndKnown(b, dir, page[Len(page)], Fix(from + dir * (Len(page) - 1)))
  <1>1. Len(page) \in 1..(f + 1) /\ \A i \in 1..Len(page) : page[i] \in T /\ page[i] \in 0..MaxRec
    <2>1. T \in SUBSET (0..MaxRec)
      BY RowsFacts, RingFacts
    <2>2. page \in Seq(T) /\ Len(page) # 0 /\ Len(page) <= f + 1
      BY DEF Page
    <2>3. Len(page) \in Nat /\ \A i \in 1..Len(page) : page[i] \in T
      BY <2>2
    <2>4. Len(page) \in 1..(f + 1)
      BY <2>2, <2>3, RingFacts
    <2> QED BY <2>1, <2>3, <2>4
  <1>2. cache \in [Slot -> 0..MaxRec \cup {Nil}]
    <2> SUFFICES ASSUME NEW s \in Slot
                 PROVE  (IF Distance(from, s, dir) + 1 \in 2..Len(page)
                         THEN page[Distance(from, s, dir) + 1]
                         ELSE IF s = here THEN page[1] ELSE w.aCache[s]) \in 0..MaxRec \cup {Nil}
      BY DEF Filled
    <2>1. w.aCache[s] \in 0..MaxRec \cup {Nil}
      BY DEF Good, Area
    <2>2. \A i \in 2..Len(page) : page[i] \in 0..MaxRec
      BY <1>1
    <2> QED BY <1>1, <2>1, <2>2
  <1>3. ASSUME from = w.pos, here = w.pos PROVE cache[w.pos] = page[1] /\ page[1] # Nil
    <2>1. Distance(from, w.pos, dir) = 0
      BY <1>3, Distances, RingFacts
    <2>2. w.pos \in Slot /\ 0 + 1 \notin 2..Len(page)
      BY <1>1 DEF Standing
    <2>3. page[1] # Nil
      BY <1>1, RingFacts
    <2> QED BY <1>3, <2>1, <2>2, <2>3 DEF Filled
  <1> HIDE DEF cache
  <1>4. Good(b, T) /\ b.end # 0 /\ b.pos = w.pos /\ b.aCache = cache
    <2>1. w.end # 0
      BY RingFacts DEF Standing
    <2>2. w \in Area /\ b \in Area
      BY <1>2 DEF Good, Area
    <2> QED BY <2>1, <2>2 DEF Good, Area, Shape, Ends
  <1> HIDE DEF b
  <1>5. CASE Len(page) > f
    <2>1. StoreFrom(w, from, dir, f, here, page) = Arrived(b)
      BY <1>5 DEF StoreFrom, b, cache
    <2> QED BY <1>3, <1>4, <2>1, ArrivedGood
  <1>6. CASE ~(Len(page) > f)
    <2>1. StoreFrom(w, from, dir, f, here, page) = Arrived(e)
      BY <1>6 DEF StoreFrom, b, cache
    <2>2. Fix(from + dir * (Len(page) - 1)) \in Slot
      <3>1. from \in 0..Ring /\ Len(page) - 1 \in 0..(Ring - 1)
        BY <1>1, RingFacts
      <3> QED BY <3>1, NextFixed
    <2>3. LastOf(T, dir, page[Len(page)])
      BY <1>1, <1>6 DEF Page
    <2> HIDE DEF e
    <2>4. Good(e, T) /\ e.end # 0 /\ e.pos = w.pos /\ e.aCache = cache
      BY <1>4, <2>2, <2>3, EndFound DEF e
    <2> QED BY <1>3, <2>1, <2>4, ArrivedGood
  <1> QED BY <1>5, <1>6

LEMMA Stored ==
    ASSUME NEW T, NEW n, Rows(T, n), NEW a, Good(a, T), NEW dir \in Dir,
           NEW f \in 1..(Ring - 4), NEW page, Page(page, T, dir, f), NEW here
    PROVE  /\ Good(Store(a, dir, f, here, page), T)
           /\ a.end = 0 /\ here = (IF dir = FWD THEN 1 ELSE Ring)
                => Store(a, dir, f, here, page).recno = page[1]
  <1> DEFINE w == Window(a, dir, f)
             from == IF a.end = 0 THEN w.pos ELSE Fix(w.pos + dir)
  <1>1. Store(a, dir, f, here, page) = StoreFrom(w, from, dir, f, here, page)
    BY DEF Store, StoreIn
  <1>2. Good(w, T) /\ Standing(w) /\ (a.end = 0 => w.pos = IF dir = FWD THEN 1 ELSE Ring)
    <2>1. a.end = 0 => a.pos = 0
      BY DEF Good, Shape
    <2> QED BY <2>1, WindowGood
  <1> HIDE DEF w
  <1>3. from \in Slot /\ (a.end = 0 => from = w.pos)
    <2>1. w.pos \in 0..Ring /\ w.pos \in Slot
      BY <1>2, RingFacts DEF Standing
    <2>2. Fix(w.pos + dir * 1) \in Slot
      <3>1. 1 \in 0..(Ring - 1)
        BY RingFacts
      <3> QED BY <2>1, <3>1, NextFixed
    <2>3. w.pos + dir * 1 = w.pos + dir
      BY DEF Dir, FWD, BWD
    <2> QED BY <2>1, <2>2, <2>3
  <1> HIDE DEF from
  <1> QED BY <1>1, <1>2, <1>3, StoredFrom

(* A page from the current record on: when it has no other row than the       *)
(* current one, that one is the last.                                         *)
LEMMA PageRest ==
    ASSUME NEW T, NEW n, Rows(T, n), NEW r \in Int, NEW dir \in Dir,
           NEW k \in Nat, k > 0, NEW rows, rows = RowsFrom(T, r, dir, k)
    PROVE  /\ rows \in Seq(T) /\ Len(rows) <= k
           /\ rows = <<>> => r \notin T
           /\ Len(rows) = 1 /\ k > 1 /\ r \in T => LastOf(T, dir, r)
           /\ rows # <<>> /\ Len(rows) < k => LastOf(T, dir, rows[Len(rows)])
  <1> DEFINE A == {x \in T : dir * x >= dir * r}
  <1>1. T \in SUBSET Rec /\ T \in SUBSET Int
    BY RowsFacts
  <1>2. /\ dir * r \in Int /\ (\A x \in T : dir * x \in Int)
        /\ \A x \in T : dir * x = dir * r => x = r
    BY <1>1, Directions
  <1>3. A \in SUBSET T /\ (r \in T => r \in A)
    BY <1>2
  <1>4. /\ rows \in Seq(A) /\ Len(rows) <= k
        /\ rows = <<>> => A = {}
        /\ rows # <<>> => FirstOf(A, dir, rows[1])
        /\ rows # <<>> /\ Len(rows) < k => LastOf(A, dir, rows[Len(rows)])
    <2> HIDE DEF A
    <2>1. A = {x \in T : dir * x >= dir * r} /\ k \in Nat \ {0}
      BY DEF A
    <2> QED BY <1>1, <2>1, PageFacts
  <1>5. ASSUME NEW x, LastOf(A, dir, x) PROVE LastOf(T, dir, x)
    <2>1. x \in A /\ x \in T /\ dir * x >= dir * r
      BY <1>5 DEF LastOf
    <2>2. ASSUME NEW y \in T, y \notin A PROVE dir * y <= dir * x
      BY <1>2, <2>1, <2>2
    <2> QED BY <1>5, <2>1, <2>2 DEF LastOf
  <1>6. ASSUME Len(rows) = 1, k > 1, r \in T PROVE LastOf(T, dir, r)
    <2> HIDE DEF A
    <2>1. rows # <<>> /\ LastOf(A, dir, rows[1]) /\ FirstOf(A, dir, rows[1])
      BY <1>4, <1>6
    <2>2. dir * r <= dir * rows[1] /\ dir * rows[1] <= dir * r /\ rows[1] \in T
      BY <1>3, <1>6, <2>1 DEF LastOf, FirstOf
    <2>3. dir * rows[1] = dir * r
      BY <1>2, <2>2
    <2>4. rows[1] = r
      BY <1>2, <2>2, <2>3
    <2> QED BY <1>5, <2>1, <2>4
  <1> HIDE DEF A
  <1>7. rows \in Seq(T)
    BY <1>3, <1>4
  <1> QED BY <1>3, <1>4, <1>5, <1>6, <1>7

LEMMA PageReadGood ==
    ASSUME NEW T, NEW n, Rows(T, n), NEW a, Good(a, T), NEW dir \in Dir, NEW f \in PageSizes
    PROVE  Good(ReadPage(a, T, n, dir, f), T)
  <1> DEFINE kept == a.wasdel /\ ~UseDeleteds
             k == IF kept THEN f + 1 ELSE f + 2
             rows == RowsFrom(T, a.recno, dir, k)
             page == IF kept THEN rows ELSE Tail(rows)
  <1>1. /\ f \in 1..(Ring - 4) /\ f \in Nat /\ f > 0 /\ k \in Nat /\ k > 1
        /\ a.recno \in Int /\ a.recno \in 0..(MaxRec + 1)
    BY RingFacts DEF Good, Area
  <1>2. ReadPage(a, T, n, dir, f) = PageRead(a, n, dir, f, kept, rows)
    BY DEF ReadPage
  <1>3. kept \in BOOLEAN
    OBVIOUS
  <1> HIDE DEF kept
  <1>4. k = (IF kept THEN f + 1 ELSE f + 2)
    OBVIOUS
  <1> HIDE DEF k
  <1>5. /\ rows \in Seq(T) /\ Len(rows) <= k
        /\ rows = <<>> => a.recno \notin T
        /\ Len(rows) = 1 /\ a.recno \in T => LastOf(T, dir, a.recno)
        /\ rows # <<>> /\ Len(rows) < k => LastOf(T, dir, rows[Len(rows)])
    <2> DEFINE r == a.recno
    <2> HIDE DEF rows, r
    <2>1. r \in Int /\ k \in Nat /\ k > 0 /\ k > 1
      BY <1>1 DEF r
    <2>2. rows = RowsFrom(T, r, dir, k)
      BY DEF rows, r
    <2>3. /\ rows \in Seq(T) /\ Len(rows) <= k
          /\ rows = <<>> => r \notin T
          /\ Len(rows) = 1 /\ r \in T => LastOf(T, dir, r)
          /\ rows # <<>> /\ Len(rows) < k => LastOf(T, dir, rows[Len(rows)])
      BY <2>1, <2>2, PageRest
    <2> QED BY <2>3 DEF r
  <1> HIDE DEF rows
  <1>6. CASE Len(rows) > (IF kept THEN 0 ELSE 1)
    <2>1. PageRead(a, n, dir, f, kept, rows) = Store(a, dir, f, Fix(a.pos + dir), page)
      BY <1>6 DEF PageRead
    <2>2. Page(page, T, dir, f)
      <3>1. CASE kept
        BY <1>1, <1>4, <1>5, <1>6, <3>1 DEF Page
      <3>2. CASE ~kept
        <4>1. Len(rows) \in Nat /\ Len(rows) > 1 /\ page = Tail(rows)
          BY <1>5, <1>6, <3>2
        <4>2. Tail(rows) \in Seq(T) /\ Len(Tail(rows)) = Len(rows) - 1 /\ rows # <<>>
              /\ Tail(rows)[Len(rows) - 1] = rows[Len(rows)]
          BY <1>5, <4>1
        <4>3. Tail(rows) # <<>> /\ Len(Tail(rows)) <= f + 1
          BY <1>1, <1>4, <1>5, <3>2, <4>1, <4>2
        <4>4. Len(Tail(rows)) <= f => Len(rows) < k
          BY <1>1, <1>4, <3>2, <4>1, <4>2
        <4> QED BY <1>5, <4>1, <4>2, <4>3, <4>4 DEF Page
      <3> QED BY <3>1, <3>2
    <2> HIDE DEF page
    <2> QED BY <1>1, <1>2, <2>1, <2>2, Stored
  <1>7. CASE ~(Len(rows) > (IF kept THEN 0 ELSE 1))
    <2>1. CASE ~kept /\ rows = <<>>
      BY <1>2, <1>7, <2>1 DEF PageRead
    <2>2. CASE kept \/ rows # <<>>
      <3>1. a.recno \in T => LastOf(T, dir, a.recno)
        <4>1. rows = <<>> \/ Len(rows) = 1
          <5>1. Len(rows) \in Nat /\ (Len(rows) = 0 => rows = <<>>)
            BY <1>5
          <5>2. Len(rows) <= 1
            BY <1>7, <5>1
          <5>3. \A m \in Nat : m <= 1 => m = 0 \/ m = 1
            OBVIOUS
          <5> QED BY <5>1, <5>2, <5>3, Zenon
        <4> QED BY <1>5, <4>1
      <3>2. CASE dir = FWD
        <4> DEFINE b == [a EXCEPT !.eofAt = a.recno]
        <4>1. a.recno \in T => \A y \in T : y <= a.recno
          BY <3>1, <3>2, RowsFacts DEF LastOf, FWD
        <4>2. Good(b, T)
          BY <1>1, <4>1 DEF Good, Area, Shape, Ends
        <4>3. PageRead(a, n, dir, f, kept, rows) = CleanBuffer(b, n)
          BY <1>7, <2>2, <3>2 DEF PageRead
        <4> HIDE DEF b
        <4> QED BY <1>2, <4>2, <4>3, Cleaned
      <3>3. CASE dir = BWD
        <4> DEFINE b == [a EXCEPT !.bofAt = a.recno]
        <4>1. a.recno \in T => \A y \in T : a.recno <= y
          BY <3>1, <3>3, RowsFacts DEF LastOf, BWD
        <4>2. Good(b, T)
          BY <1>1, <4>1 DEF Good, Area, Shape, Ends
        <4>3. dir # FWD
          BY <3>3 DEF FWD, BWD
        <4>4. PageRead(a, n, dir, f, kept, rows) = b
          BY <1>7, <2>2, <4>3 DEF PageRead
        <4> QED BY <1>2, <4>2, <4>4
      <3> QED BY <3>2, <3>3 DEF Dir
    <2> QED BY <2>1, <2>2
  <1> QED BY <1>6, <1>7

-----------------------------------------------------------------------------
(* GO TOP, GO BOTTOM, GO TO *)

LEMMA EndReached ==
    ASSUME NEW T, NEW n, Rows(T, n), NEW a, Good(a, T), NEW dir \in Dir
    PROVE  Good(GoEnd(a, T, n, dir), T)
  <1> DEFINE r == IF dir = FWD THEN 0 ELSE MaxRec + 1
             here == IF dir = FWD THEN 1 ELSE Ring
             page == RowsFrom(T, r, dir, FetchSize + 1)
             e == EmptyWindow(a)
             w == Store(e, dir, FetchSize, here, page)
  <1>1. r \in Int /\ FetchSize \in 1..(Ring - 4) /\ FetchSize + 1 \in Nat \ {0}
    BY RingFacts
  <1>2. T = {x \in T : dir * x >= dir * r}
    <2>1. T \in SUBSET (1..MaxRec)
      BY RowsFacts, RingFacts
    <2>2. CASE dir = 1
      <3>1. r = 0 /\ dir * r = 0 /\ \A x \in T : dir * x = x /\ x >= 0
        BY <2>1, <2>2, RingFacts DEF FWD
      <3> QED BY <3>1
    <2>3. CASE dir = -1
      <3>1. dir * r = -(MaxRec + 1)
        BY <2>3, RingFacts DEF FWD
      <3>2. ASSUME NEW x \in T PROVE dir * x >= dir * r
        <4>1. x \in Int /\ x <= MaxRec /\ MaxRec \in Int
          BY <2>1, RingFacts
        <4>2. dir * x = -x
          BY <2>3, <4>1
        <4> QED BY <3>1, <4>1, <4>2
      <3> QED BY <3>2
    <2> QED BY <2>2, <2>3 DEF Dir, FWD, BWD
  <1> HIDE DEF r
  <1>3. /\ page \in Seq(T) /\ Len(page) <= FetchSize + 1
        /\ page = <<>> => T = {}
        /\ page # <<>> => FirstOf(T, dir, page[1])
        /\ page # <<>> /\ Len(page) < FetchSize + 1 => LastOf(T, dir, page[Len(page)])
    <2>1. T \in SUBSET Rec
      BY RowsFacts
    <2> DEFINE A == T
               k == FetchSize + 1
    <2> HIDE DEF page, A, k
    <2>2. page = RowsFrom(T, r, dir, k) /\ k \in Nat \ {0}
      BY <1>1 DEF page, k
    <2>3. A = {x \in T : dir * x >= dir * r}
      BY <1>2 DEF A
    <2>4. /\ page \in Seq(A) /\ Len(page) <= k
          /\ page = <<>> => A = {}
          /\ page # <<>> => FirstOf(A, dir, page[1])
          /\ page # <<>> /\ Len(page) < k => LastOf(A, dir, page[Len(page)])
      BY <1>1, <2>1, <2>2, <2>3, PageFacts
    <2> QED BY <2>4 DEF A, k
  <1> HIDE DEF page
  <1>4. Good(e, T) /\ e.end = 0
    <2>1. Good(e, T)
      BY WindowEmptied
    <2> QED BY <2>1 DEF EmptyWindow, Good, Area
  <1> HIDE DEF e
  <1>5. CASE page = <<>>
    <2>1. GoEnd(a, T, n, dir) = NoRecord(e, n, dir)
      BY <1>5 DEF GoEnd, page, r, e
    <2>2. T = {}
      BY <1>3, <1>5
    <2>3. e.recno \in 0..(MaxRec + 1)
      BY <1>4 DEF Good, Area
    <2>4. Good([e EXCEPT !.eofAt = e.recno], T) /\ Good([e EXCEPT !.bofAt = e.recno], T)
      BY <1>4, <2>2, <2>3 DEF Good, Area, Shape, Ends
    <2> DEFINE b == IF dir = FWD THEN CleanBuffer([e EXCEPT !.eofAt = e.recno], n)
                    ELSE [e EXCEPT !.bofAt = e.recno]
    <2>5. Good(b, T)
      BY <2>4, Cleaned
    <2>6. NoRecord(e, n, dir) = [b EXCEPT !.bof = TRUE, !.eof = TRUE]
      BY DEF NoRecord
    <2> HIDE DEF b
    <2>7. Good([b EXCEPT !.bof = TRUE, !.eof = TRUE], T)
      BY <2>5, Flags
    <2> QED BY <2>1, <2>6, <2>7
  <1>6. CASE page # <<>>
    <2>1. GoEnd(a, T, n, dir) = AtEnd(w, dir)
      BY <1>6 DEF GoEnd, page, r, e
    <2>2. Page(page, T, dir, FetchSize)
      <3>1. Len(page) \in Nat
        BY <1>3
      <3>2. Len(page) <= FetchSize => Len(page) < FetchSize + 1
        BY <1>1, <3>1
      <3> QED BY <1>3, <1>6, <3>2 DEF Page
    <2>3. Good(w, T) /\ w.recno = page[1]
      BY <1>1, <1>4, <2>2, Stored
    <2> HIDE DEF w
    <2>4. w.recno \in T /\ FirstOf(T, dir, w.recno) /\ w.recno \in 0..(MaxRec + 1)
      BY <1>3, <1>6, <2>3 DEF FirstOf, Good, Area
    <2>5. CASE dir = FWD
      <3>1. \A y \in T : w.recno <= y
        BY <2>4, <2>5, RowsFacts DEF FirstOf, FWD
      <3>2. AtEnd(w, dir) = [w EXCEPT !.bofAt = w.recno, !.bof = FALSE, !.eof = FALSE]
        BY <2>5 DEF AtEnd
      <3>3. Good([w EXCEPT !.bofAt = w.recno, !.bof = FALSE, !.eof = FALSE], T)
        BY <2>3, <2>4, <3>1 DEF Good, Area, Shape, Ends
      <3> QED BY <2>1, <3>2, <3>3
    <2>6. CASE dir = BWD
      <3>1. \A y \in T : y <= w.recno
        BY <2>4, <2>6, RowsFacts DEF FirstOf, BWD
      <3>2. dir # FWD
        BY <2>6 DEF FWD, BWD
      <3>3. AtEnd(w, dir) = [w EXCEPT !.eofAt = w.recno, !.bof = FALSE, !.eof = FALSE]
        BY <3>2 DEF AtEnd
      <3>4. Good([w EXCEPT !.eofAt = w.recno, !.bof = FALSE, !.eof = FALSE], T)
        BY <2>3, <2>4, <3>1 DEF Good, Area, Shape, Ends
      <3> QED BY <2>1, <3>3, <3>4
    <2> QED BY <2>5, <2>6 DEF Dir
  <1> QED BY <1>5, <1>6

LEMMA RecordReached ==
    ASSUME NEW T, NEW n, Rows(T, n), NEW a, Good(a, T), NEW r \in 0..(MaxRec + 1)
    PROVE  Good(GoRecord(a, T, n, r), T)
  <1> DEFINE stays == r = a.recno /\ ~a.isInsert /\ ~(a.bof /\ a.eof)
             cached == a.begin > 0 /\ a.bofAt > 0 /\ a.aCache[a.begin] = r
             c == CleanBuffer(a, n)
             d == CleanBuffer(EmptyWindow(a), n)
             s == SetCurrent(a, a.begin)
  <1>1. CASE stays
    <2>1. GoRecord(a, T, n, r) = [a EXCEPT !.bof = FALSE]
      BY <1>1 DEF GoRecord
    <2> QED BY <2>1, Flags
  <1>2. CASE ~stays /\ r = 0
    <2>1. Good(c, T)
      BY Cleaned
    <2>2. GoRecord(a, T, n, r) = [c EXCEPT !.bof = TRUE]
      BY <1>2 DEF GoRecord
    <2> HIDE DEF c
    <2> QED BY <2>1, <2>2, Flags
  <1>3. CASE ~stays /\ r # 0 /\ cached
    <2> DEFINE b == a.begin
    <2>1. b \in Slot /\ a.end # 0
      BY <1>3, RingFacts DEF Good, Area, Shape
    <2>2. a.aCache[b] # Nil
      BY <1>3, RingFacts
    <2>3. s = SetCurrent(a, b)
      OBVIOUS
    <2>4. GoRecord(a, T, n, r) = [s EXCEPT !.bof = FALSE, !.eof = FALSE]
      BY <1>3 DEF GoRecord
    <2> HIDE DEF b, s
    <2>5. Good(s, T)
      BY <2>1, <2>2, <2>3, CurrentSet
    <2> QED BY <2>4, <2>5, Flags
  <1>4. CASE ~stays /\ r # 0 /\ ~cached /\ r \in T
    <2> DEFINE b == [a EXCEPT !.pos = 1, !.begin = 1, !.end = 1, !.aCache[1] = r,
                              !.recno = r, !.deleted = FALSE, !.bof = FALSE, !.eof = FALSE]
    <2>1. GoRecord(a, T, n, r) = b
      BY <1>4 DEF GoRecord
    <2>2. r \in 0..MaxRec /\ 1 \in Slot /\ 1 \in 0..Ring
      BY <1>4, RowsFacts, RingFacts
    <2>3. b \in Area
      <3>1. a \in Area /\ a.aCache \in [Slot -> 0..MaxRec \cup {Nil}]
        BY DEF Good, Area
      <3>2. [a.aCache EXCEPT ![1] = r] \in [Slot -> 0..MaxRec \cup {Nil}]
        BY <2>2, <3>1
      <3> QED BY <2>2, <3>1, <3>2 DEF Area
    <2>4. Good(b, T)
      BY <2>2, <2>3 DEF Good, Area, Shape, Ends
    <2> QED BY <2>1, <2>4
  <1>5. CASE ~stays /\ r # 0 /\ ~cached /\ r \notin T
    <2>1. Good(d, T)
      BY WindowEmptied, Cleaned
    <2>2. GoRecord(a, T, n, r) = [d EXCEPT !.bof = TRUE]
      BY <1>5 DEF GoRecord
    <2> HIDE DEF d
    <2> QED BY <2>1, <2>2, Flags
  <1> QED BY <1>1, <1>2, <1>3, <1>4, <1>5

LEMMA RecordSynced ==
    ASSUME NEW T, NEW n, Rows(T, n), NEW a, Good(a, T), NEW r \in 0..(MaxRec + 1)
    PROVE  Good(SyncFlags(GoRecord([a EXCEPT !.wasdel = FALSE], T, n, r)), T)
  <1> DEFINE b == [a EXCEPT !.wasdel = FALSE]
             g == GoRecord(b, T, n, r)
  <1>1. Good(b, T)
    BY Flags
  <1> HIDE DEF b
  <1>2. Good(g, T)
    BY <1>1, RecordReached
  <1> HIDE DEF g
  <1>3. Good(SyncFlags(g), T)
    BY <1>2, Synced
  <1> QED BY <1>3 DEF g, b

LEMMA EndSynced ==
    ASSUME NEW T, NEW n, Rows(T, n), NEW a, Good(a, T), NEW dir \in Dir
    PROVE  Good(SyncFlags(GoEnd([a EXCEPT !.wasdel = FALSE], T, n, dir)), T)
  <1> DEFINE b == [a EXCEPT !.wasdel = FALSE]
             g == GoEnd(b, T, n, dir)
  <1>1. Good(b, T)
    BY Flags
  <1> HIDE DEF b
  <1>2. Good(g, T)
    BY <1>1, EndReached
  <1> HIDE DEF g
  <1>3. Good(SyncFlags(g), T)
    BY <1>2, Synced
  <1> QED BY <1>3 DEF g, b

LEMMA GoesToEnds ==
    ASSUME NEW T, NEW n, Rows(T, n), NEW a, Good(a, T)
    PROVE  Good(GoTopOf(a, T, n), T) /\ Good(GoBottomOf(a, T, n), T)
  <1> DEFINE b == [a EXCEPT !.wasdel = FALSE]
  <1>1. a.bofAt \in 0..(MaxRec + 1) /\ a.eofAt \in 0..(MaxRec + 1) /\ FWD \in Dir /\ BWD \in Dir
    BY DEF Good, Area, Dir
  <1>2. /\ Good(SyncFlags(GoRecord(b, T, n, a.bofAt)), T)
        /\ Good(SyncFlags(GoRecord(b, T, n, a.eofAt)), T)
    BY <1>1, RecordSynced
  <1>3. /\ Good(SyncFlags(GoEnd(b, T, n, FWD)), T)
        /\ Good(SyncFlags(GoEnd(b, T, n, BWD)), T)
    BY <1>1, EndSynced
  <1> HIDE DEF b
  <1>4. /\ GoTopOf(a, T, n) = SyncFlags(IF a.bofAt # 0 THEN GoRecord(b, T, n, a.bofAt)
                                        ELSE GoEnd(b, T, n, FWD))
        /\ GoBottomOf(a, T, n) = SyncFlags(IF a.eofAt # 0 THEN GoRecord(b, T, n, a.eofAt)
                                           ELSE GoEnd(b, T, n, BWD))
    BY DEF GoTopOf, GoBottomOf, b
  <1> QED BY <1>2, <1>3, <1>4

-----------------------------------------------------------------------------
(* SKIP *)

LEMMA FoundGood ==
    ASSUME NEW T, NEW a, Good(a, T), NEW dir \in Dir, NEW past \in BOOLEAN,
           NEW s, s = Search(a, dir, past), s # 0
    PROVE  Good(SetCurrent(a, s), T)
  <1>1. a \in Area /\ a.end # 0
    <2>1. a.pos # 0
      BY DEF Search
    <2> QED BY <2>1 DEF Good, Shape
  <1>2. s \in Slot /\ a.aCache[s] # Nil
    BY <1>1, SearchFinds
  <1> QED BY <1>1, <1>2, CurrentSet

LEMMA ForwardToGood ==
    ASSUME NEW T, NEW a, Good(a, T), NEW past \in BOOLEAN,
           NEW s, s = Search(a, FWD, past), s # 0
    PROVE  Good(ForwardTo(a, s), T)
  <1> DEFINE c == SetCurrent(a, s)
  <1>1. Good(c, T)
    BY FoundGood DEF Dir
  <1>2. ForwardTo(a, s) = [c EXCEPT !.fBof = FALSE]
    BY DEF ForwardTo
  <1> HIDE DEF c
  <1>3. Good([c EXCEPT !.fBof = FALSE], T)
    BY <1>1, Flags
  <1> QED BY <1>2, <1>3

LEMMA ForwardGood ==
    ASSUME NEW T, NEW n, Rows(T, n), NEW a, Good(a, T), NEW f \in PageSizes
    PROVE  Good(SkipRawForward(a, T, n, f), T)
  <1> DEFINE s == Search(a, FWD, TRUE)
             p == ReadPage(a, T, n, FWD, f)
             past == a.pos # 0
             t == Search(p, FWD, past)
  <1>1. s # 0 => Good(ForwardTo(a, s), T)
    BY ForwardToGood
  <1>2. Good(p, T)
    BY PageReadGood DEF Dir
  <1>3. past \in BOOLEAN
    OBVIOUS
  <1> HIDE DEF p, past
  <1>4. Good(ForwardInPage(p, n, past), T)
    <2>1. t # 0 => Good(ForwardTo(p, t), T)
      BY <1>2, <1>3, ForwardToGood
    <2>2. Good(RaiseEof(p, n), T)
      BY <1>2, Raised
    <2> QED BY <2>1, <2>2 DEF ForwardInPage
  <1>5. Good(RaiseEof(a, n), T)
    BY Raised
  <1> HIDE DEF s
  <1> QED BY <1>1, <1>4, <1>5 DEF SkipRawForward, s, p, past

LEMMA BofOnNext ==
    ASSUME NEW T, NEW n, Rows(T, n), NEW a, Good(a, T),
           NEW s, s = Search(a, FWD, TRUE), s # 0
    PROVE  Good(RaiseBof(SetCurrent(a, s)), T)
  <1> DEFINE c == SetCurrent(a, s)
  <1>1. Good(c, T)
    BY FoundGood DEF Dir
  <1> HIDE DEF c
  <1>2. Good(RaiseBof(c), T)
    BY <1>1, Raised
  <1> QED BY <1>2 DEF c

LEMMA NextGood ==
    ASSUME NEW T, NEW n, Rows(T, n), NEW a, Good(a, T), NEW f \in PageSizes
    PROVE  Good(NextOf(a, T, n, f), T)
  <1> DEFINE s == Search(a, FWD, TRUE)
             p == ReadPage(a, T, n, FWD, f)
             t == Search(p, FWD, TRUE)
  <1>1. s # 0 => Good(RaiseBof(SetCurrent(a, s)), T)
    BY BofOnNext
  <1>2. Good(p, T)
    BY PageReadGood DEF Dir
  <1> HIDE DEF p
  <1>3. Good(NextInPage(p, n), T)
    <2>1. t # 0 => Good(RaiseBof(SetCurrent(p, t)), T)
      BY <1>2, BofOnNext
    <2> DEFINE q == RaiseBof(p)
    <2>2. Good(q, T)
      BY <1>2, Raised
    <2> HIDE DEF q
    <2>3. Good(RaiseEof(q, n), T)
      BY <2>2, Raised
    <2> QED BY <2>1, <2>3 DEF NextInPage, q
  <1> HIDE DEF s
  <1> QED BY <1>1, <1>3 DEF NextOf, s, p

LEMMA DeletedGood ==
    ASSUME NEW T, NEW n, Rows(T, n), NEW a, Good(a, T), NEW f \in PageSizes
    PROVE  Good(SkipRawDeleted(a, T, n, f), T)
  <1> DEFINE s == Search(a, BWD, TRUE)
             p == ReadPage(a, T, n, BWD, f)
             t == Search(p, BWD, TRUE)
  <1>1. s # 0 => Good(SetCurrent(a, s), T)
    BY FoundGood DEF Dir
  <1>2. Good(p, T)
    BY PageReadGood DEF Dir
  <1> HIDE DEF p
  <1>3. Good(DeletedInPage(p, T, n, f), T)
    <2>1. t # 0 => Good(SetCurrent(p, t), T)
      BY <1>2, FoundGood DEF Dir
    <2>2. Good(NextOf(p, T, n, f), T)
      BY <1>2, NextGood
    <2> QED BY <2>1, <2>2 DEF DeletedInPage
  <1>4. Good(NextOf(a, T, n, f), T) /\ Good(GoBottomOf(a, T, n), T)
    BY NextGood, GoesToEnds
  <1> HIDE DEF s
  <1> QED BY <1>1, <1>3, <1>4 DEF SkipRawDeleted, s, p

LEMMA BackwardGood ==
    ASSUME NEW T, NEW n, Rows(T, n), NEW a, Good(a, T), NEW f \in PageSizes
    PROVE  Good(SkipRawBackward(a, T, n, f), T)
  <1> DEFINE s == Search(a, BWD, TRUE)
             p == ReadPage(a, T, n, BWD, f)
             past == a.pos # 0
             t == Search(p, BWD, past)
             back == SyncFlags(GoRecord([a EXCEPT !.wasdel = FALSE], T, n, a.eofAt))
  <1>1. s # 0 => Good(SetCurrent(a, s), T)
    BY FoundGood DEF Dir
  <1>2. Good(p, T)
    BY PageReadGood DEF Dir
  <1>3. past \in BOOLEAN
    OBVIOUS
  <1> HIDE DEF p, past
  <1>4. Good(BackwardInPage(p, past), T)
    <2>1. t # 0 => Good(SetCurrent(p, t), T)
      BY <1>2, <1>3, FoundGood DEF Dir
    <2>2. Good(RaiseBof(p), T)
      BY <1>2, Raised
    <2> QED BY <2>1, <2>2 DEF BackwardInPage
  <1>5. Good(RaiseBof(a), T) /\ Good(GoBottomOf(a, T, n), T)
    BY Raised, GoesToEnds
  <1>6. Good(back, T)
    <2>1. a.eofAt \in 0..(MaxRec + 1)
      BY DEF Good, Area
    <2> QED BY <2>1, RecordSynced
  <1> HIDE DEF s, back
  <1> QED BY <1>1, <1>4, <1>5, <1>6 DEF SkipRawBackward, s, p, past, back

LEMMA SkipGood ==
    ASSUME NEW T, NEW n, Rows(T, n), NEW a, Good(a, T), NEW dir \in Dir, NEW f \in PageSizes
    PROVE  Good(SkipOf(a, T, n, dir, f), T)
  <1> DEFINE k == SkipRaw(a, T, n, dir, f)
  <1>1. Good(k, T)
    BY GoesToEnds, Synced, ForwardGood, DeletedGood, BackwardGood DEF SkipRaw
  <1> HIDE DEF k
  <1>2. Good(Concluded(k, dir), T)
    BY <1>1, ConcludedGood
  <1> QED BY <1>2 DEF SkipOf, k

-----------------------------------------------------------------------------
(* The invariant *)

Settled(a) == [a EXCEPT !.hot = FALSE, !.isInsert = FALSE]

(* The pending edit of an area is on a record, and a pending APPEND has a number *)
(* to take; only a table that loses no rows has marks.                           *)
IInv ==
    /\ Rows(table, last)
    /\ marked \subseteq table
    /\ marked # {} => UseDeleteds /\ hnDeleted
    /\ Good(Settled(wa), table) /\ wa \in Area
    /\ wa.isInsert => wa.hot
    /\ wa.hot => ~wa.deleted /\ wa.recno \in Rec
    /\ Pending => last < MaxRec

LEMMA GoodFits ==
    ASSUME NEW T, NEW a, Good(a, T)
    PROVE  a \in Area /\ ~a.hot /\ ~a.isInsert /\ Good(Settled(a), T)
  <1>1. Settled(a) = a
    BY DEF Good, Area, Settled
  <1> QED BY <1>1 DEF Good

(* The pending edit is written to the table the area has then. *)
LEMMA ColdGood ==
    ASSUME IInv
    PROVE  Rows(Table, RCount) /\ table \in SUBSET Table /\ Good(Cold, Table)
  <1>1. CASE ~wa.hot
    <2>1. Table = table /\ RCount = last /\ Cold = wa
      BY <1>1 DEF Table, RCount, Pending, Cold
    <2>2. wa \in Area /\ ~wa.isInsert /\ Good(Settled(wa), table)
      BY <1>1 DEF IInv
    <2>3. Settled(wa) = wa
      BY <1>1, <2>2 DEF Area, Settled
    <2> QED BY <2>1, <2>2, <2>3 DEF IInv
  <1>2. CASE wa.hot
    <2> DEFINE single == Pending \/ wa.end = 0
               pos == IF single THEN 1 ELSE wa.pos
               b == [wa EXCEPT !.hot = FALSE, !.isInsert = FALSE, !.bofAt = 0, !.eofAt = 0,
                               !.bof = FALSE, !.eof = FALSE,
                               !.begin = IF single THEN 1 ELSE @, !.end = IF single THEN 1 ELSE @,
                               !.pos = IF single THEN 1 ELSE @]
               c == [b EXCEPT !.aCache[b.pos] = b.recno]
    <2>1. Rows(Table, RCount) /\ table \in SUBSET Table
      <3>1. CASE Pending
        BY <3>1, RingFacts DEF IInv, Rows, Table, RCount
      <3>2. CASE ~Pending
        BY <3>2 DEF IInv, Table, RCount
      <3> QED BY <3>1, <3>2
    <2>2. wa \in Area /\ ~wa.deleted /\ wa.recno \in Rec /\ Shape(wa)
      BY <1>2 DEF IInv, Good, Shape, Area, Settled
    <2>3. Cold = c
      BY <1>2, <2>2 DEF Cold, Written
    <2>4. pos \in Slot /\ pos \in 0..Ring /\ pos # 0 /\ 1 \in 0..Ring
      BY <2>2, RingFacts DEF Shape, Area
    <2>5. /\ b \in Area /\ Shape(b) /\ b.pos = pos /\ b.recno = wa.recno
          /\ b.bofAt = 0 /\ b.eofAt = 0 /\ ~b.deleted /\ ~b.hot /\ ~b.isInsert
      <3>1. 0 \in 0..(MaxRec + 1)
        BY RingFacts
      <3> HIDE DEF single
      <3>2. CASE single
        BY <2>2, <2>4, <3>1, <3>2 DEF Area, Shape
      <3>3. CASE ~single
        <4>1. wa.end # 0
          BY <3>3 DEF single
        <4> QED BY <2>2, <2>4, <3>1, <3>3, <4>1 DEF Area, Shape
      <3> QED BY <3>2, <3>3
    <2> HIDE DEF b, pos
    <2>6. c \in Area
      <3>1. wa.recno \in 0..MaxRec
        BY <2>2, RingFacts
      <3>2. b.aCache \in [Slot -> 0..MaxRec \cup {Nil}]
        BY <2>5 DEF Area
      <3>3. [b.aCache EXCEPT ![b.pos] = b.recno] \in [Slot -> 0..MaxRec \cup {Nil}]
        BY <2>4, <2>5, <3>1, <3>2
      <3> QED BY <2>5, <3>3 DEF Area
    <2>7. 0 \notin Table
      BY <2>1, RowsFacts
    <2>8. Good(c, Table)
      BY <2>5, <2>6, <2>7 DEF Good, Area, Shape, Ends
    <2> QED BY <2>1, <2>3, <2>8
  <1> QED BY <1>1, <1>2

(* The operations that write the pending edit and leave a good area. *)
LEMMA BecomesKeeps ==
    ASSUME IInv, NEW a, Good(a, Table), Becomes(a)
    PROVE  IInv'
  <1>1. Rows(Table, RCount) /\ table \in SUBSET Table
    BY ColdGood
  <1>2. a \in Area /\ ~a.hot /\ ~a.isInsert /\ Good(Settled(a), Table)
    BY GoodFits
  <1>3. table' = Table /\ last' = RCount /\ wa' = a /\ marked' = marked
    BY DEF Becomes
  <1> QED BY <1>1, <1>2, <1>3 DEF IInv, Pending

LEMMA InitKeeps == Init => IInv
  <1> SUFFICES ASSUME NEW n \in Sizes, table = 1..n, marked = {}, last = n,
                      wa = GoTopOf(Opened, 1..n, n)
               PROVE  IInv
    BY DEF Init
  <1>1. Rows(1..n, n)
    BY RingFacts DEF Rows
  <1>2. Good(Opened, 1..n)
    <2>1. 0 \in 0..Ring /\ 0 \in 0..MaxRec /\ 0 \in 0..(MaxRec + 1) /\ 0 \notin 1..n
      BY <1>1, RingFacts, RowsFacts
    <2>2. Opened \in Area
      BY <2>1 DEF Opened, Area
    <2> QED BY <2>1, <2>2 DEF Opened, Good, Shape, Ends
  <1>3. Good(wa, 1..n)
    BY <1>1, <1>2, GoesToEnds
  <1>4. wa \in Area /\ ~wa.hot /\ ~wa.isInsert /\ Good(Settled(wa), 1..n)
    BY <1>3, GoodFits
  <1> QED BY <1>1, <1>4 DEF IInv, Pending

LEMMA GoTopKeeps == IInv /\ GoTop => IInv'
  BY ColdGood, GoesToEnds, BecomesKeeps DEF GoTop

LEMMA GoBottomKeeps == IInv /\ GoBottom => IInv'
  BY ColdGood, GoesToEnds, BecomesKeeps DEF GoBottom

LEMMA GoToKeeps ==
    ASSUME IInv, NEW r \in GoTos, GoTo(r)
    PROVE  IInv'
  <1>1. r \in 0..(MaxRec + 1)
    BY RingFacts
  <1>2. Rows(Table, RCount) /\ Good(Cold, Table)
    BY ColdGood
  <1>3. Good(SyncFlags(GoRecord([Cold EXCEPT !.wasdel = FALSE], Table, RCount, r)), Table)
    BY <1>1, <1>2, RecordSynced
  <1> QED BY <1>3, BecomesKeeps DEF GoTo

LEMMA SkipKeeps ==
    ASSUME IInv, NEW dir \in Dir, NEW f \in PageSizes, Skip(dir, f)
    PROVE  IInv'
  <1>1. Good(SkipOf(Cold, Table, RCount, dir, f), Table)
    BY ColdGood, SkipGood
  <1> QED BY <1>1, BecomesKeeps DEF Skip

LEMMA AppendKeeps == IInv /\ AppendRecord => IInv'
  <1> SUFFICES ASSUME IInv, AppendRecord PROVE IInv'
    OBVIOUS
  <1> DEFINE y == SyncFlags(Cold)
             b == [y EXCEPT !.wasdel = FALSE, !.hot = TRUE, !.isInsert = TRUE, !.bof = TRUE]
             c == [y EXCEPT !.wasdel = FALSE, !.bof = TRUE]
             d == CleanBuffer(c, RCount)
  <1>1. Rows(Table, RCount) /\ table \in SUBSET Table /\ Good(Cold, Table)
    BY ColdGood
  <1>2. Good(y, Table)
    BY <1>1, Synced
  <1> HIDE DEF y
  <1>3. Good(c, Table)
    BY <1>2 DEF Good, Area, Shape, Ends
  <1>4. Good(d, Table)
    <2> HIDE DEF c
    <2> QED BY <1>1, <1>3, Cleaned
  <1>5. wa' = [d EXCEPT !.hot = TRUE, !.isInsert = TRUE]
    <2>1. y \in Area
      BY <1>2 DEF Good
    <2>2. wa' = CleanBuffer(b, RCount)
      BY DEF AppendRecord, Becomes, y
    <2> QED BY <2>1, <2>2 DEF CleanBuffer, Area
  <1>6. d.recno = RCount + 1 /\ ~d.deleted
    BY <1>3 DEF CleanBuffer, Good, Area
  <1> HIDE DEF d
  <1>7. /\ wa' \in Area /\ wa'.hot /\ wa'.recno = RCount + 1 /\ ~wa'.deleted
        /\ Settled(wa') = d
    BY <1>4, <1>5, <1>6 DEF Good, Area, Settled
  <1>8. table' = Table /\ last' = RCount /\ marked' = marked /\ RCount < MaxRec
    BY DEF AppendRecord, Becomes
  <1>9. RCount + 1 \in Rec
    BY <1>1, <1>8, RowsFacts, RingFacts
  <1> QED BY <1>1, <1>4, <1>7, <1>8, <1>9 DEF IInv

LEMMA ReplaceKeeps == IInv /\ Replace => IInv'
  <1> SUFFICES ASSUME IInv, Replace PROVE IInv'
    OBVIOUS
  <1>1. wa' = [wa EXCEPT !.hot = TRUE] /\ UNCHANGED <<table, marked, last>> /\ wa.recno \in table
    BY DEF Replace
  <1>2. wa \in Area /\ Good(wa, table) /\ Rows(table, last)
    <2>1. wa \in Area /\ ~wa.hot /\ ~wa.isInsert /\ Good(Settled(wa), table)
      BY DEF IInv, Replace
    <2>2. Settled(wa) = wa
      BY <2>1 DEF Area, Settled
    <2> QED BY <2>1, <2>2 DEF IInv
  <1>3. ~wa.deleted /\ wa.recno \in Rec
    BY <1>1, <1>2, RowsFacts DEF Good
  <1>4. /\ wa' \in Area /\ wa'.recno = wa.recno /\ wa'.deleted = wa.deleted
        /\ wa'.hot /\ ~wa'.isInsert /\ Settled(wa') = wa
    BY <1>1, <1>2 DEF Good, Area, Settled
  <1> QED BY <1>1, <1>2, <1>3, <1>4 DEF IInv, Pending

LEMMA DeleteMarkedKeeps == IInv /\ DeleteMarked => IInv'
  <1> SUFFICES ASSUME IInv, DeleteMarked PROVE IInv'
    OBVIOUS
  <1> DEFINE b == [Cold EXCEPT !.wasdel = TRUE]
  <1>1. Rows(Table, RCount) /\ table \in SUBSET Table /\ Good(Cold, Table)
    BY ColdGood
  <1>2. Good(b, Table)
    BY <1>1, Flags
  <1>3. /\ table' = Table /\ last' = RCount /\ wa' = b /\ UseDeleteds /\ hnDeleted
        /\ marked' \subseteq Table
    BY <1>1 DEF DeleteMarked, IInv
  <1> HIDE DEF b
  <1>4. b \in Area /\ ~b.hot /\ ~b.isInsert /\ Good(Settled(b), Table)
    BY <1>2, GoodFits
  <1> QED BY <1>1, <1>3, <1>4 DEF IInv, Pending

LEMMA RecallKeeps == IInv /\ Recall => IInv'
  <1> SUFFICES ASSUME IInv, Recall PROVE IInv'
    OBVIOUS
  <1>1. Rows(Table, RCount) /\ table \in SUBSET Table /\ Good(Cold, Table)
    BY ColdGood
  <1>2. /\ table' = Table /\ last' = RCount /\ wa' = Cold /\ UseDeleteds /\ hnDeleted
        /\ marked' \subseteq Table
    BY <1>1 DEF Recall, IInv
  <1>3. Cold \in Area /\ ~Cold.hot /\ ~Cold.isInsert /\ Good(Settled(Cold), Table)
    BY <1>1, GoodFits
  <1> QED BY <1>1, <1>2, <1>3 DEF IInv, Pending

LEMMA DeleteRowKeeps == IInv /\ DeleteRow => IInv'
  <1> SUFFICES ASSUME IInv, DeleteRow PROVE IInv'
    OBVIOUS
  <1> DEFINE c == Cold
             T == Table \ {c.recno}
             b == [c EXCEPT !.deleted = TRUE, !.wasdel = TRUE,
                            !.eofAt = IF c.recno \in {c.eofAt, c.bofAt} THEN 0 ELSE @,
                            !.aCache = [s \in Slot |-> IF s = c.pos THEN Nil ELSE @[s]]]
  <1>1. Rows(Table, RCount) /\ table \in SUBSET Table /\ Good(c, Table)
    BY ColdGood
  <1>2. table' = T /\ last' = RCount /\ marked' = {} /\ wa' = b
    BY DEF DeleteRow, IInv
  <1>3. Rows(T, RCount)
    BY <1>1 DEF Rows
  <1> HIDE DEF c
  <1>4. b \in Area
    <2>1. c \in Area /\ c.aCache \in [Slot -> 0..MaxRec \cup {Nil}] /\ c.eofAt \in 0..MaxRec + 1
      BY <1>1 DEF Good, Area
    <2>2. [s \in Slot |-> IF s = c.pos THEN Nil ELSE c.aCache[s]] \in [Slot -> 0..MaxRec \cup {Nil}]
      BY <2>1
    <2>3. 0 \in 0..MaxRec + 1
      BY RingFacts
    <2> QED BY <2>1, <2>2, <2>3 DEF Area
  <1>5. 0 \notin T
    BY <1>3, RowsFacts
  <1>6. Good(b, T)
    <2>1. /\ b.pos = c.pos /\ b.begin = c.begin /\ b.end = c.end /\ b.bofAt = c.bofAt
          /\ b.eofAt \in {0, c.eofAt} /\ b.recno = c.recno
          /\ b.hot = c.hot /\ b.isInsert = c.isInsert
      BY <1>1 DEF Good, Area
    <2> HIDE DEF b
    <2> QED BY <1>1, <1>4, <1>5, <2>1 DEF Good, Shape, Ends
  <1> HIDE DEF b, T
  <1>7. b \in Area /\ ~b.hot /\ ~b.isInsert /\ Good(Settled(b), T)
    BY <1>6, GoodFits
  <1> QED BY <1>2, <1>3, <1>7 DEF IInv, Pending

LEMMA SiblingKeeps == IInv /\ SiblingWrites => IInv'
  <1> SUFFICES ASSUME IInv, SiblingWrites PROVE IInv'
    OBVIOUS
  <1> DEFINE b == [EmptyWindow(wa) EXCEPT !.bofAt = 0, !.eofAt = 0]
  <1>1. wa' = b /\ UNCHANGED <<table, marked, last>>
    BY DEF SiblingWrites
  <1>2. 0 \in 0..Ring /\ 0 \in 0..(MaxRec + 1) /\ wa \in Area /\ Good(Settled(wa), table)
        /\ 0 \notin table
    BY RingFacts, RowsFacts DEF IInv
  <1>3. b \in Area
    BY <1>2 DEF Area, EmptyWindow
  <1>4. Good(Settled(b), table)
    <2>1. /\ b.pos = 0 /\ b.begin = 0 /\ b.end = 0 /\ b.bofAt = 0 /\ b.eofAt = 0
          /\ b.deleted = wa.deleted /\ b.recno = wa.recno
      BY <1>2 DEF Area, EmptyWindow
    <2>2. wa.deleted => wa.recno \notin table
      BY <1>2 DEF Good, Area, Settled
    <2> HIDE DEF b
    <2>3. Settled(b) \in Area
      BY <1>3 DEF Area, Settled
    <2> QED BY <1>2, <1>3, <2>1, <2>2, <2>3 DEF Good, Area, Shape, Ends, Settled
  <1>5. /\ b.hot = wa.hot /\ b.isInsert = wa.isInsert
        /\ b.deleted = wa.deleted /\ b.recno = wa.recno
    BY <1>2 DEF Area, EmptyWindow
  <1> HIDE DEF b
  <1> QED BY <1>1, <1>3, <1>4, <1>5 DEF IInv, Pending

LEMMA NextKeeps == IInv /\ [Next]_vars => IInv'
  <1> SUFFICES ASSUME IInv, [Next]_vars PROVE IInv'
    OBVIOUS
  <1>1. CASE GoTop \/ GoBottom \/ AppendRecord \/ Replace
    BY <1>1, GoTopKeeps, GoBottomKeeps, AppendKeeps, ReplaceKeeps
  <1>2. CASE DeleteMarked \/ Recall \/ DeleteRow \/ SiblingWrites
    BY <1>2, DeleteMarkedKeeps, RecallKeeps, DeleteRowKeeps, SiblingKeeps
  <1>3. CASE \E r \in GoTos : GoTo(r)
    BY <1>3, GoToKeeps
  <1>4. CASE \E f \in PageSizes : Skip(FWD, f) \/ (Backward /\ Skip(BWD, f))
    BY <1>4, SkipKeeps DEF Dir
  <1>5. CASE UNCHANGED vars
    BY <1>5 DEF vars, IInv, Pending
  <1> QED BY <1>1, <1>2, <1>3, <1>4, <1>5 DEF Next

-----------------------------------------------------------------------------
(* Theorems *)

(* Whatever is called, in whatever order, and however a page falls into the    *)
(* ring: the window has both its edges or none, the area is not on a row it    *)
(* deleted, and a pending edit has a record to go to.                          *)
THEOREM Invariance == Spec => []IInv
  <1>1. Init => IInv
    BY InitKeeps
  <1>2. IInv /\ [Next]_vars => IInv'
    BY NextKeeps
  <1> QED BY <1>1, <1>2, PTL DEF Spec

(* The work area keeps its types: NPOSCACHE and the edges of the window are     *)
(* slots of the ring, and no emptied slot is taken for a record (sqlrdd2.prg    *)
(* UpdateCache, SkipRawCache).                                                  *)
THEOREM TypeCorrect == Spec => []TypeOK
  <1>1. IInv => TypeOK
    <2> SUFFICES ASSUME IInv PROVE TypeOK
      OBVIOUS
    <2>1. Rows(table, last) /\ marked \subseteq table /\ wa \in Area
      BY DEF IInv
    <2> QED BY <2>1, RowsFacts, RingFacts DEF TypeOK, Rows
  <1> QED BY <1>1, Invariance, PTL

(* A record remembered in BOF_AT or EOF_AT is the first or the last while it    *)
(* exists, so SKIP and GO TOP may answer without asking the server (ReadPage,   *)
(* WriteBuffer, sqlDeleteRec).                                                  *)
THEOREM EndsStayEnds == Spec => []EndsAreEnds
  <1>1. IInv => EndsAreEnds
    BY DEF IInv, Good, Ends, EndsAreEnds, Settled, Area
  <1> QED BY <1>1, Invariance, PTL
-----------------------------------------------------------------------------
(* The slots of a window that holds consecutive records *)

(* Where a walk from slot o in direction dir starts and the slot s it ends at. *)
LEMMA DistanceIs ==
    ASSUME NEW o \in Slot, NEW s \in Slot
    PROVE  /\ Distance(o, s, FWD) = IF s >= o THEN s - o ELSE s - o + Ring
           /\ Distance(o, s, BWD) = IF s <= o THEN o - s ELSE o - s + Ring
  <1>1. \A x \in Int : 0 <= x /\ x < Ring => x % Ring = x
    BY RingFacts
  <1>2. \A x \in Int : -Ring < x /\ x < 0 => x % Ring = x + Ring
    BY RingFacts
  <1>3. FWD * (s - o) = s - o /\ BWD * (s - o) = o - s
    BY RingFacts DEF FWD, BWD
  <1>4. o \in Int /\ s \in Int /\ 1 <= o /\ o <= Ring /\ 1 <= s /\ s <= Ring
    BY RingFacts
  <1> QED BY <1>1, <1>2, <1>3, <1>4, RingFacts DEF Distance

(* The edges of the window: where a walk in direction dir comes from and goes to. *)
Far(a, dir) == IF dir = FWD THEN a.begin ELSE a.end
Near(a, dir) == IF dir = FWD THEN a.end ELSE a.begin

(* The window holds consecutive records of 1..n, and does not take the whole ring. *)
Arc(a, n, dir) ==
    LET o == Far(a, dir)
        t == Near(a, dir)
    IN /\ o \in Slot /\ t \in Slot /\ a.pos \in Slot
       /\ Distance(o, a.pos, dir) <= Distance(o, t, dir)
       /\ Distance(o, t, dir) <= Ring - 2
       /\ a.aCache[o] \in 1..n /\ a.aCache[t] \in 1..n
       /\ \A s \in Slot : Distance(o, s, dir) <= Distance(o, t, dir) =>
              a.aCache[s] = a.aCache[o] + dir * Distance(o, s, dir)

LEMMA ArcTurned ==
    ASSUME NEW a, NEW n \in Nat
    PROVE  Arc(a, n, FWD) <=> Arc(a, n, BWD)
  <1> DEFINE b == a.begin
             e == a.end
  <1>1. ASSUME b \in Slot, e \in Slot
        PROVE  /\ Distance(b, e, FWD) = Distance(e, b, BWD)
               /\ \A s \in Slot : Distance(b, s, FWD) <= Distance(b, e, FWD) <=>
                                  Distance(e, s, BWD) <= Distance(e, b, BWD)
               /\ \A s \in Slot : Distance(b, s, FWD) <= Distance(b, e, FWD) =>
                                  Distance(b, s, FWD) = Distance(b, e, FWD) - Distance(e, s, BWD)
    <2> HIDE DEF b, e
    <2>1. b \in 1..Ring /\ e \in 1..Ring
      BY <1>1, RingFacts
    <2>2. /\ Distance(b, e, FWD) = IF e >= b THEN e - b ELSE e - b + Ring
          /\ Distance(e, b, BWD) = IF b <= e THEN e - b ELSE e - b + Ring
      BY <1>1, DistanceIs
    <2>3. ASSUME NEW s \in Slot
          PROVE  /\ Distance(b, s, FWD) <= Distance(b, e, FWD) <=>
                        Distance(e, s, BWD) <= Distance(e, b, BWD)
                 /\ Distance(b, s, FWD) <= Distance(b, e, FWD) =>
                        Distance(b, s, FWD) = Distance(b, e, FWD) - Distance(e, s, BWD)
      <3>1. /\ Distance(b, s, FWD) = IF s >= b THEN s - b ELSE s - b + Ring
            /\ Distance(e, s, BWD) = IF s <= e THEN e - s ELSE e - s + Ring
        BY <1>1, DistanceIs
      <3>2. s \in 1..Ring
        BY RingFacts
      <3> QED BY <2>1, <2>2, <3>1, <3>2, RingFacts
    <2> QED BY <2>1, <2>2, <2>3, RingFacts
  <1>2. \A o, s \in Slot, d \in Dir : Distance(o, s, d) \in Int
    BY Distances, RingFacts
  <1>3. FWD \in Dir /\ BWD \in Dir /\ FWD = 1 /\ BWD = -1
    BY DEF Dir, FWD, BWD
  <1>4. ASSUME Arc(a, n, FWD) PROVE Arc(a, n, BWD)
    <2>1. /\ b \in Slot /\ e \in Slot /\ a.pos \in Slot
          /\ Distance(b, a.pos, FWD) <= Distance(b, e, FWD) /\ Distance(b, e, FWD) <= Ring - 2
          /\ a.aCache[b] \in 1..n /\ a.aCache[e] \in 1..n
      BY <1>4 DEF Arc, Far, Near
    <2>2. \A s \in Slot : Distance(b, s, FWD) <= Distance(b, e, FWD) =>
              a.aCache[s] = a.aCache[b] + Distance(b, s, FWD)
      <3>1. \A s \in Slot : FWD * Distance(b, s, FWD) = Distance(b, s, FWD)
        BY <1>2, <1>3, <2>1
      <3> QED BY <1>4, <3>1 DEF Arc, Far, Near
    <2>3. \A s \in Slot : Distance(e, s, BWD) <= Distance(e, b, BWD) =>
              a.aCache[s] = a.aCache[e] - Distance(e, s, BWD)
      <3> SUFFICES ASSUME NEW s \in Slot, Distance(e, s, BWD) <= Distance(e, b, BWD)
                   PROVE  a.aCache[s] = a.aCache[e] - Distance(e, s, BWD)
        OBVIOUS
      <3>1. a.aCache[s] = a.aCache[b] + Distance(b, s, FWD)
        BY <1>1, <2>1, <2>2
      <3>2. a.aCache[e] = a.aCache[b] + Distance(b, e, FWD)
        BY <1>2, <1>3, <2>1, <2>2
      <3>3. /\ Distance(b, s, FWD) = Distance(b, e, FWD) - Distance(e, s, BWD)
            /\ Distance(b, e, FWD) \in Int /\ Distance(e, s, BWD) \in Int
        BY <1>1, <1>2, <1>3, <2>1
      <3> HIDE DEF b, e
      <3> QED BY <2>1, <3>1, <3>2, <3>3
    <2>4. \A s \in Slot : BWD * Distance(e, s, BWD) = -Distance(e, s, BWD)
      BY <1>2, <1>3, <2>1
    <2>5. \A s \in Slot : Distance(e, s, BWD) <= Distance(e, b, BWD) =>
              a.aCache[s] = a.aCache[e] + BWD * Distance(e, s, BWD)
      <3>1. \A s \in Slot : Distance(e, s, BWD) \in Int
        BY <1>2, <1>3, <2>1
      <3> HIDE DEF b, e
      <3> QED BY <2>1, <2>3, <2>4, <3>1
    <2>6. Distance(e, a.pos, BWD) <= Distance(e, b, BWD) /\ Distance(e, b, BWD) <= Ring - 2
      BY <1>1, <2>1
    <2> QED BY <1>3, <2>1, <2>5, <2>6 DEF Arc, Far, Near
  <1>5. ASSUME Arc(a, n, BWD) PROVE Arc(a, n, FWD)
    <2>1. /\ b \in Slot /\ e \in Slot /\ a.pos \in Slot
          /\ Distance(e, a.pos, BWD) <= Distance(e, b, BWD) /\ Distance(e, b, BWD) <= Ring - 2
          /\ a.aCache[b] \in 1..n /\ a.aCache[e] \in 1..n
      BY <1>3, <1>5 DEF Arc, Far, Near
    <2>2. \A s \in Slot : Distance(e, s, BWD) <= Distance(e, b, BWD) =>
              a.aCache[s] = a.aCache[e] - Distance(e, s, BWD)
      <3>1. \A s \in Slot : BWD * Distance(e, s, BWD) = -Distance(e, s, BWD)
        BY <1>2, <1>3, <2>1
      <3>2. \A s \in Slot : Distance(e, s, BWD) <= Distance(e, b, BWD) =>
              a.aCache[s] = a.aCache[e] + BWD * Distance(e, s, BWD)
        BY <1>3, <1>5 DEF Arc, Far, Near
      <3>3. \A s \in Slot : Distance(e, s, BWD) \in Int
        BY <1>2, <1>3, <2>1
      <3> HIDE DEF b, e
      <3> QED BY <2>1, <3>1, <3>2, <3>3
    <2>3. \A s \in Slot : Distance(b, s, FWD) <= Distance(b, e, FWD) =>
              a.aCache[s] = a.aCache[b] + Distance(b, s, FWD)
      <3> SUFFICES ASSUME NEW s \in Slot, Distance(b, s, FWD) <= Distance(b, e, FWD)
                   PROVE  a.aCache[s] = a.aCache[b] + Distance(b, s, FWD)
        OBVIOUS
      <3>1. a.aCache[s] = a.aCache[e] - Distance(e, s, BWD)
        BY <1>1, <2>1, <2>2
      <3>2. a.aCache[b] = a.aCache[e] - Distance(e, b, BWD)
        BY <1>2, <1>3, <2>1, <2>2
      <3>3. /\ Distance(b, s, FWD) = Distance(e, b, BWD) - Distance(e, s, BWD)
            /\ Distance(e, b, BWD) \in Int /\ Distance(e, s, BWD) \in Int
        BY <1>1, <1>2, <1>3, <2>1
      <3> HIDE DEF b, e
      <3> QED BY <2>1, <3>1, <3>2, <3>3
    <2>4. \A s \in Slot : FWD * Distance(b, s, FWD) = Distance(b, s, FWD)
      BY <1>2, <1>3, <2>1
    <2>5. Distance(b, a.pos, FWD) <= Distance(b, e, FWD) /\ Distance(b, e, FWD) <= Ring - 2
      BY <1>1, <2>1
    <2> QED BY <2>1, <2>3, <2>4, <2>5 DEF Arc, Far, Near
  <1> QED BY <1>4, <1>5

-----------------------------------------------------------------------------
(* Searching the window *)

LEMMA InArc ==
    ASSUME NEW a, a.begin \in Slot, a.end \in Slot, NEW s \in Slot, NEW dir \in Dir
    PROVE  InRange(a, s) <=> Distance(Far(a, dir), s, dir) <= Distance(Far(a, dir), Near(a, dir), dir)
  <1> DEFINE b == a.begin
             e == a.end
  <1>1. InRange(a, s) <=> IF b <= e THEN s >= b /\ s <= e ELSE s >= b \/ s <= e
    BY RingFacts DEF InRange
  <1>2. /\ Distance(b, s, FWD) = IF s >= b THEN s - b ELSE s - b + Ring
        /\ Distance(b, e, FWD) = IF e >= b THEN e - b ELSE e - b + Ring
        /\ Distance(e, s, BWD) = IF s <= e THEN e - s ELSE e - s + Ring
        /\ Distance(e, b, BWD) = IF b <= e THEN e - b ELSE e - b + Ring
    BY DistanceIs
  <1>3. b \in 1..Ring /\ e \in 1..Ring /\ s \in 1..Ring
    BY RingFacts
  <1>4. Far(a, FWD) = b /\ Near(a, FWD) = e /\ Far(a, BWD) = e /\ Near(a, BWD) = b
    BY DEF Far, Near, FWD, BWD
  <1> HIDE DEF b, e
  <1>5. CASE dir = FWD
    BY <1>1, <1>2, <1>3, <1>4, <1>5, RingFacts
  <1>6. CASE dir = BWD
    BY <1>1, <1>2, <1>3, <1>4, <1>6, RingFacts
  <1> QED BY <1>5, <1>6 DEF Dir

(* The slot past s, and how far it is. *)
LEMMA StepOn ==
    ASSUME NEW s \in Slot, NEW dir \in Dir
    PROVE  /\ Fix(s + dir) \in Slot
           /\ \A o \in Slot : Distance(o, s, dir) <= Ring - 2 =>
                  Distance(o, Fix(s + dir), dir) = Distance(o, s, dir) + 1
           /\ Distance(s, Fix(s + dir), dir) = 1
  <1> DEFINE p == Fix(s + dir)
  <1>1. p = IF dir = FWD THEN (IF s = Ring THEN 1 ELSE s + 1) ELSE IF s = 1 THEN Ring ELSE s - 1
    BY RingFacts DEF Fix, Dir, FWD, BWD
  <1> HIDE DEF p
  <1>2. p \in Slot
    BY <1>1, RingFacts
  <1>3. p \in 1..Ring /\ s \in 1..Ring /\ BWD # FWD
    BY <1>2, RingFacts DEF FWD, BWD
  <1>4. ASSUME NEW o \in Slot, Distance(o, s, dir) <= Ring - 2
        PROVE  Distance(o, p, dir) = Distance(o, s, dir) + 1
    <2>1. /\ Distance(o, p, FWD) = IF p >= o THEN p - o ELSE p - o + Ring
          /\ Distance(o, p, BWD) = IF p <= o THEN o - p ELSE o - p + Ring
          /\ Distance(o, s, FWD) = IF s >= o THEN s - o ELSE s - o + Ring
          /\ Distance(o, s, BWD) = IF s <= o THEN o - s ELSE o - s + Ring
      BY <1>2, DistanceIs
    <2>2. o \in 1..Ring
      BY RingFacts
    <2>3. CASE dir = FWD
      BY <1>1, <1>3, <1>4, <2>1, <2>2, <2>3, RingFacts
    <2>4. CASE dir = BWD
      BY <1>1, <1>3, <1>4, <2>1, <2>2, <2>4, RingFacts
    <2> QED BY <2>3, <2>4 DEF Dir
  <1>5. Distance(s, p, dir) = 1
    <2>1. /\ Distance(s, p, FWD) = IF p >= s THEN p - s ELSE p - s + Ring
          /\ Distance(s, p, BWD) = IF p <= s THEN s - p ELSE s - p + Ring
      BY <1>2, DistanceIs
    <2>2. CASE dir = FWD
      BY <1>1, <1>3, <2>1, <2>2, RingFacts
    <2>3. CASE dir = BWD
      BY <1>1, <1>3, <2>1, <2>3, RingFacts
    <2> QED BY <2>2, <2>3 DEF Dir
  <1> QED BY <1>2, <1>4, <1>5 DEF p

(* In a window without emptied slots a search finds the slot past the current *)
(* one, and nothing at the edge.                                              *)
LEMMA SearchIs ==
    ASSUME NEW a, NEW n \in 0..MaxRec, NEW dir \in Dir, Arc(a, n, dir)
    PROVE  /\ a.pos = Near(a, dir) => Search(a, dir, TRUE) = 0
           /\ a.pos # Near(a, dir) =>
                 /\ Search(a, dir, TRUE) = Fix(a.pos + dir)
                 /\ Fix(a.pos + dir) \in Slot
                 /\ a.aCache[Fix(a.pos + dir)] = a.aCache[a.pos] + dir
                 /\ a.aCache[Fix(a.pos + dir)] \in Int
  <1> DEFINE o == Far(a, dir)
             t == Near(a, dir)
             from == Fix(a.pos + dir)
             p == a.pos
             hits == {s \in Ahead(a, from, dir) : a.aCache[s] # Nil}
  <1>1. /\ o \in Slot /\ t \in Slot /\ p \in Slot /\ a.begin \in Slot /\ a.end \in Slot
        /\ Distance(o, p, dir) <= Distance(o, t, dir) /\ Distance(o, t, dir) <= Ring - 2
        /\ a.aCache[o] \in 1..n /\ a.aCache[t] \in 1..n
    BY DEF Arc, Far, Near
  <1>2. \A s \in Slot : Distance(o, s, dir) <= Distance(o, t, dir) =>
              a.aCache[s] = a.aCache[o] + dir * Distance(o, s, dir)
    BY DEF Arc
  <1>3. \A s \in Slot : /\ Distance(o, s, dir) \in Int /\ Distance(from, s, dir) \in Nat
                       /\ Distance(o, s, dir) >= 0
    <2>1. from \in Slot
      BY <1>1, StepOn
    <2> HIDE DEF o, from
    <2>2. \A x, s \in Slot : Distance(x, s, dir) \in Nat
      BY Distances, RingFacts
    <2> QED BY <1>1, <2>1, <2>2
  <1>4. /\ from \in Slot /\ Distance(o, from, dir) = Distance(o, p, dir) + 1
    <2>1. Distance(o, p, dir) <= Ring - 2
      <3>1. Distance(o, p, dir) \in Int /\ Distance(o, t, dir) \in Int
        BY <1>1, <1>3
      <3> HIDE DEF o, p, t
      <3> QED BY <1>1, <3>1, RingFacts
    <2> QED BY <1>1, <2>1, StepOn
  <1>5. Search(a, dir, TRUE) = Nearest(hits, from, dir)
    <2>1. p # 0
      BY <1>1, RingFacts
    <2> QED BY <2>1 DEF Search, Start
  <1>6. Distance(from, from, dir) = 0 /\ Fix(from + dir * 0) = from
    <2>1. from \in Int /\ from + dir * 0 = from
      BY <1>4, RingFacts DEF Dir, FWD, BWD
    <2>2. Fix(from) = from
      <3> HIDE DEF from
      <3> QED BY <1>4, RingFacts DEF Fix
    <2> QED BY <2>1, <2>2, Distances
  <1>7. InRange(a, from) <=> Distance(o, from, dir) <= Distance(o, t, dir)
    BY <1>1, <1>4, InArc
  <1>8. ASSUME p = t PROVE Search(a, dir, TRUE) = 0
    <2>1. ~InRange(a, from)
      BY <1>1, <1>3, <1>4, <1>7, <1>8
    <2>2. hits = {}
      <3> SUFFICES ASSUME NEW s \in hits PROVE FALSE
        OBVIOUS
      <3>1. s \in Slot /\ \A d \in 0..Distance(from, s, dir) : InRange(a, Fix(from + dir * d))
        BY DEF Ahead
      <3>2. 0 \in 0..Distance(from, s, dir)
        BY <1>3, <3>1
      <3> QED BY <1>6, <2>1, <3>1, <3>2
    <2> QED BY <1>5, <2>2 DEF Nearest
  <1>9. ASSUME p # t
        PROVE  /\ Search(a, dir, TRUE) = from
               /\ a.aCache[from] = a.aCache[p] + dir /\ a.aCache[from] \in Int
    <2>1. Distance(o, p, dir) # Distance(o, t, dir)
      <3> HIDE DEF o, t, p
      <3>1. o \in 1..Ring /\ p \in 1..Ring /\ t \in 1..Ring
        BY <1>1, RingFacts
      <3>2. /\ Distance(o, p, FWD) = IF p >= o THEN p - o ELSE p - o + Ring
            /\ Distance(o, p, BWD) = IF p <= o THEN o - p ELSE o - p + Ring
            /\ Distance(o, t, FWD) = IF t >= o THEN t - o ELSE t - o + Ring
            /\ Distance(o, t, BWD) = IF t <= o THEN o - t ELSE o - t + Ring
        BY <1>1, DistanceIs
      <3>3. CASE dir = FWD
        BY <1>9, <3>1, <3>2, <3>3, RingFacts
      <3>4. CASE dir = BWD
        BY <1>9, <3>1, <3>2, <3>4, RingFacts
      <3> QED BY <3>3, <3>4 DEF Dir
    <2>2. Distance(o, from, dir) <= Distance(o, t, dir) /\ InRange(a, from)
      BY <1>1, <1>3, <1>4, <1>7, <2>1
    <2>3. a.aCache[from] = a.aCache[p] + dir /\ a.aCache[from] \in Int
      <3>1. /\ a.aCache[p] = a.aCache[o] + dir * Distance(o, p, dir)
            /\ a.aCache[from] = a.aCache[o] + dir * Distance(o, from, dir)
        BY <1>1, <1>2, <1>4, <2>2
      <3>2. a.aCache[o] \in Int /\ Distance(o, p, dir) \in Int
        <4>1. a.aCache[o] \in Int
          BY <1>1
        <4> QED BY <1>1, <1>3, <4>1
      <3> DEFINE c == a.aCache[o]
                 x == Distance(o, p, dir)
      <3> HIDE DEF c, x
      <3>3. c + dir * (x + 1) = c + dir * x + dir /\ c + dir * (x + 1) \in Int
        BY <3>2 DEF Dir, FWD, BWD, c, x
      <3> QED BY <1>4, <3>1, <3>3 DEF c, x
    <2>4. from \in hits
      <3>1. \A d \in 0..Distance(from, from, dir) : InRange(a, Fix(from + dir * d))
        BY <1>6, <2>2
      <3>2. a.aCache[from] # Nil
        <4>1. a.aCache[from] \in Rec
          <5>1. a.aCache[t] = a.aCache[o] + dir * Distance(o, t, dir)
            BY <1>1, <1>2, <1>3
          <5>2. a.aCache[from] = a.aCache[o] + dir * Distance(o, from, dir)
            BY <1>2, <1>4, <2>2
          <5>3. /\ 0 <= Distance(o, from, dir) /\ Distance(o, from, dir) <= Distance(o, t, dir)
                /\ Distance(o, from, dir) \in Int /\ Distance(o, t, dir) \in Int
            BY <1>1, <1>3, <1>4, <2>2
          <5> DEFINE x == a.aCache[o]
                     y == a.aCache[t]
                     z == a.aCache[from]
                     g == Distance(o, from, dir)
                     h == Distance(o, t, dir)
          <5>4. x \in 1..n /\ y \in 1..n /\ n \in Int /\ n <= MaxRec
            BY <1>1, RingFacts
          <5>5. y = x + dir * h /\ z = x + dir * g /\ 0 <= g /\ g <= h /\ g \in Int /\ h \in Int
            BY <5>1, <5>2, <5>3
          <5> HIDE DEF x, y, z, g, h
          <5>6. CASE dir = 1
            BY <5>4, <5>5, <5>6, RingFacts DEF z
          <5>7. CASE dir = -1
            BY <5>4, <5>5, <5>7, RingFacts DEF z
          <5> QED BY <5>6, <5>7 DEF Dir, FWD, BWD
        <4> QED BY <4>1, RingFacts
      <3> QED BY <1>4, <3>1, <3>2 DEF Ahead
    <2>5. hits \in SUBSET Slot
      BY DEF Ahead
    <2>6. \A s \in hits : Distance(from, s, dir) = 0 => s = from
      <3> SUFFICES ASSUME NEW s \in hits, Distance(from, s, dir) = 0 PROVE s = from
        OBVIOUS
      <3>1. s \in Slot
        BY <2>5
      <3> HIDE DEF hits, from
      <3>2. /\ Distance(from, s, FWD) = IF s >= from THEN s - from ELSE s - from + Ring
            /\ Distance(from, s, BWD) = IF s <= from THEN from - s ELSE from - s + Ring
        BY <1>4, <3>1, DistanceIs
      <3>3. from \in 1..Ring /\ s \in 1..Ring
        BY <1>4, <3>1, RingFacts
      <3>4. CASE dir = FWD
        BY <3>2, <3>3, <3>4, RingFacts
      <3>5. CASE dir = BWD
        BY <3>2, <3>3, <3>5, RingFacts
      <3> QED BY <3>4, <3>5 DEF Dir
    <2>7. Nearest(hits, from, dir) = from
      <3> DEFINE Best(s) == \A u \in hits : Distance(from, s, dir) <= Distance(from, u, dir)
      <3>1. \A u \in hits : Distance(from, u, dir) \in Nat
        BY <1>3, <2>5
      <3>2. Best(from)
        BY <1>6, <3>1
      <3>3. \A s \in hits : Best(s) => s = from
        BY <1>6, <2>4, <2>6, <3>1
      <3>4. Nearest(hits, from, dir) = CHOOSE s \in hits : Best(s)
        BY <2>4 DEF Nearest
      <3> HIDE DEF hits, from, Best
      <3> QED BY <2>4, <3>2, <3>3, <3>4
    <2> QED BY <1>5, <2>3, <2>7
  <1> QED BY <1>4, <1>8, <1>9

-----------------------------------------------------------------------------
(* A page of a table without gaps *)

(* The first and the last record in a direction. *)
StartOf(n, dir) == IF dir = FWD THEN 1 ELSE n
EndOf(n, dir) == IF dir = FWD THEN n ELSE 1

(* A page from q on is a page from record r on. *)
SameSide(n, dir, q, r) == \A x \in 1..n : dir * x >= dir * q <=> dir * x >= dir * r

(* The rows of a page from record r on, k of them if the table has as many. *)
RowsAre(P, n, dir, r, k) ==
    /\ P \in Seq(1..n) /\ Len(P) \in Nat \ {0} /\ Len(P) <= k
    /\ Len(P) = 1 /\ k > 1 => r = EndOf(n, dir)
    /\ Len(P) < k => r + dir * (Len(P) - 1) = EndOf(n, dir)
    /\ \A i \in 1..Len(P) : P[i] = r + dir * (i - 1)

LEMMA RowsOnward ==
    ASSUME NEW n \in 1..MaxRec, NEW r \in 1..n, NEW dir \in Dir, NEW k \in Nat \ {0},
           NEW q \in Int, SameSide(n, dir, q, r),
           NEW P, P = RowsFrom(1..n, q, dir, k)
    PROVE  RowsAre(P, n, dir, r, k)
  <1>1. n \in Int /\ r \in Int /\ 1 <= r /\ r <= n
    BY RingFacts
  <1> DEFINE lo == IF dir = FWD THEN r ELSE 1
             hi == IF dir = FWD THEN n ELSE r
             S == 1..n
  <1>2. \A x \in S : dir * x >= dir * q <=> x \in lo..hi
    <2>0. \A x \in 1..n : dir * x >= dir * q <=> dir * x >= dir * r
      BY DEF SameSide
    <2>1. CASE dir = FWD
      <3>1. \A x \in 1..n : dir * x >= dir * r <=> x >= r
        BY <1>1, <2>1 DEF FWD
      <3> QED BY <1>1, <2>0, <2>1, <3>1
    <2>2. CASE dir = BWD
      <3>1. \A x \in 1..n : dir * x >= dir * r <=> x <= r
        BY <1>1, <2>2 DEF BWD
      <3>2. dir # FWD
        BY <2>2 DEF FWD, BWD
      <3> QED BY <1>1, <2>0, <3>1, <3>2
    <2> QED BY <2>1, <2>2 DEF Dir
  <1>3. lo \in Int /\ hi \in Int /\ lo <= hi /\ lo..hi \subseteq S
    BY <1>1
  <1> DEFINE L == Len(P)
             step(i) == IF dir = FWD THEN lo + i - 1 ELSE hi + 1 - i
  <1> HIDE DEF S, lo, hi
  <1>4. /\ P \in Seq(lo..hi) /\ L \in Nat \ {0}
        /\ L = IF hi - lo + 1 < k THEN hi - lo + 1 ELSE k
        /\ \A i \in 1..L : P[i] = step(i)
    <2> DEFINE A == {x \in S : dir * x >= dir * q}
               N == hi - lo + 1
               m == IF N < k THEN N ELSE k
               Rank(x) == Cardinality({y \in A : dir * y <= dir * x})
               at(i) == IF dir = FWD THEN lo + i - 1 ELSE hi + 1 - i
    <2>1. A = lo..hi
      BY <1>2, <1>3
    <2>2. Cardinality(A) = N /\ N \in Nat \ {0}
      <3>1. Cardinality(lo..hi) = N
        BY <1>3, FS_Interval
      <3> HIDE DEF A
      <3>2. Cardinality(A) = N
        BY <2>1, <3>1
      <3> QED BY <1>3, <3>2
    <2>3. \A x \in A : Rank(x) = IF dir = FWD THEN x - lo + 1 ELSE hi - x + 1
      <3> SUFFICES ASSUME NEW x \in A PROVE Rank(x) = IF dir = FWD THEN x - lo + 1 ELSE hi - x + 1
        OBVIOUS
      <3>1. x \in lo..hi
        BY <2>1
      <3>2. CASE dir = FWD
        <4>1. \A y \in lo..hi : dir * y <= dir * x <=> y <= x
          BY <3>1, <3>2 DEF FWD
        <4>2. {y \in A : dir * y <= dir * x} = lo..x
          BY <1>3, <2>1, <3>1, <4>1
        <4>3. Cardinality(lo..x) = x - lo + 1
          BY <1>3, <3>1, FS_Interval
        <4> QED BY <3>2, <4>2, <4>3
      <3>3. CASE dir = BWD
        <4>1. \A y \in lo..hi : dir * y <= dir * x <=> y >= x
          BY <3>1, <3>3 DEF BWD
        <4>2. {y \in A : dir * y <= dir * x} = x..hi
          BY <1>3, <2>1, <3>1, <4>1
        <4>3. Cardinality(x..hi) = hi - x + 1
          BY <1>3, <3>1, FS_Interval
        <4>4. dir # FWD
          BY <3>3 DEF FWD, BWD
        <4>5. Rank(x) = Cardinality(x..hi)
          BY <4>2
        <4> HIDE DEF Rank
        <4> QED BY <4>3, <4>4, <4>5
      <3> QED BY <3>2, <3>3 DEF Dir
    <2>4. m \in Nat \ {0} /\ m <= N
      BY <2>2
    <2>0. P = RowsFrom(S, q, dir, k)
      BY DEF S
    <2>5. P = [i \in 1..m |-> CHOOSE x \in A : Rank(x) = i]
      BY <2>0, <2>2 DEF RowsFrom
    <2> HIDE DEF A, Rank
    <2>6. \A i \in 1..m : at(i) \in A /\ (CHOOSE x \in A : Rank(x) = i) = at(i)
      <3> SUFFICES ASSUME NEW i \in 1..m PROVE at(i) \in A /\ (CHOOSE x \in A : Rank(x) = i) = at(i)
        OBVIOUS
      <3>1. at(i) \in A
        BY <1>3, <2>1, <2>4
      <3>2. \A x \in A : Rank(x) = i <=> x = at(i)
        <4> SUFFICES ASSUME NEW x \in A PROVE Rank(x) = i <=> x = at(i)
          OBVIOUS
        <4>1. Rank(x) = IF dir = FWD THEN x - lo + 1 ELSE hi - x + 1
          BY <2>3
        <4>2. x \in Int /\ i \in Int
          BY <1>3, <2>1, <2>4
        <4> HIDE DEF lo, hi
        <4> QED BY <1>3, <4>1, <4>2
      <3> QED BY <3>1, <3>2
    <2> HIDE DEF m
    <2>7. P = [i \in 1..m |-> at(i)]
      BY <2>5, <2>6
    <2>8. P \in Seq(lo..hi) /\ Len(P) = m
      <3>1. P \in [1..m -> lo..hi]
        BY <2>1, <2>6, <2>7
      <3> QED BY <1>3, <2>4, <2>7, <3>1
    <2>9. /\ P \in Seq(lo..hi) /\ Len(P) \in Nat \ {0}
          /\ Len(P) = IF hi - lo + 1 < k THEN hi - lo + 1 ELSE k
          /\ \A i \in 1..Len(P) : P[i] = at(i)
      BY <2>4, <2>7, <2>8 DEF m
    <2> QED BY <2>9 DEF L, step
  <1>5. P \in Seq(1..n)
    <2>1. P \in Seq(S)
      BY <1>3, <1>4
    <2> QED BY <2>1 DEF S
  <1> HIDE DEF L, step
  <1>6. \A i \in Int : step(i) = r + dir * (i - 1)
    <2>1. CASE dir = FWD
      <3>1. \A i \in Int : dir * (i - 1) = i - 1
        BY <2>1 DEF FWD
      <3> QED BY <1>1, <2>1, <3>1 DEF step, lo
    <2>2. CASE dir = BWD
      <3>1. \A i \in Int : dir * (i - 1) = 1 - i
        BY <2>2 DEF BWD
      <3>2. dir # FWD
        BY <2>2 DEF FWD, BWD
      <3> QED BY <1>1, <3>1, <3>2 DEF step, hi
    <2> QED BY <2>1, <2>2 DEF Dir
  <1>7. \A i \in 1..L : P[i] = r + dir * (i - 1)
    <2> TAKE i \in 1..L
    <2>1. P[i] = step(i) /\ i \in Int
      BY <1>4
    <2> QED BY <1>6, <2>1
  <1>8. L < k => step(L) = IF dir = FWD THEN n ELSE 1
    BY <1>1, <1>3, <1>4 DEF step, lo, hi
  <1>9. L = 1 /\ k > 1 => r = IF dir = FWD THEN n ELSE 1
    BY <1>1, <1>3, <1>4 DEF lo, hi
  <1>10. L <= k /\ L \in Int
    BY <1>3, <1>4
  <1>11. L < k => r + dir * (L - 1) = IF dir = FWD THEN n ELSE 1
    BY <1>6, <1>8, <1>10
  <1>12. L \in Nat \ {0}
    BY <1>4
  <1> QED BY <1>5, <1>7, <1>9, <1>10, <1>11, <1>12 DEF L, RowsAre, EndOf

-----------------------------------------------------------------------------
(* What a page makes of the window *)

SameFlags(b, a) ==
    /\ b.bof = a.bof /\ b.eof = a.eof /\ b.fBof = a.fBof /\ b.fEof = a.fEof
    /\ b.wasdel = a.wasdel /\ b.hot = a.hot /\ b.isInsert = a.isInsert

(* The slots after the page was stored in them from slot `from` on. *)
Stocked(cache, from, dir, page) ==
    [s \in Slot |-> IF Distance(from, s, dir) < Len(page) THEN page[Distance(from, s, dir) + 1]
                   ELSE cache[s]]

LEMMA FilledIs ==
    ASSUME NEW from \in Slot, NEW dir \in Dir, NEW cache, NEW page, Len(page) \in Nat \ {0}
    PROVE  Filled(cache, from, from, dir, page) = Stocked(cache, from, dir, page)
  <1> SUFFICES ASSUME NEW s \in Slot
               PROVE  (LET i == Distance(from, s, dir) + 1
                       IN IF i \in 2..Len(page) THEN page[i] ELSE IF s = from THEN page[1] ELSE cache[s])
                      = IF Distance(from, s, dir) < Len(page) THEN page[Distance(from, s, dir) + 1]
                        ELSE cache[s]
    BY DEF Filled, Stocked
  <1> DEFINE d == Distance(from, s, dir)
  <1>1. d \in Int /\ d >= 0 /\ (d = 0 <=> s = from)
    <2>1. /\ Distance(from, s, FWD) = IF s >= from THEN s - from ELSE s - from + Ring
          /\ Distance(from, s, BWD) = IF s <= from THEN from - s ELSE from - s + Ring
      BY DistanceIs
    <2>2. from \in 1..Ring /\ s \in 1..Ring
      BY RingFacts
    <2>3. CASE dir = FWD
      BY <2>1, <2>2, <2>3, RingFacts
    <2>4. CASE dir = BWD
      BY <2>1, <2>2, <2>4, RingFacts
    <2> QED BY <2>3, <2>4 DEF Dir
  <1> HIDE DEF d
  <1>2. CASE d = 0
    BY <1>1, <1>2 DEF d
  <1>3. CASE d # 0
    BY <1>1, <1>3 DEF d
  <1> QED BY <1>2, <1>3

(* What storing a page that ends the table or not makes of the window. *)
StoredAs(b, w, dir, f, from, page) ==
    /\ b.aCache = Stocked(w.aCache, from, dir, page) /\ b.pos = w.pos
    /\ b.recno = b.aCache[w.pos] /\ b.deleted = FALSE
    /\ SameFlags(b, w)
    /\ Far(b, dir) = Far(w, dir)
    /\ Near(b, dir) = IF Len(page) > f THEN Near(w, dir) ELSE Fix(from + dir * (Len(page) - 1))
    /\ b.bofAt = IF Len(page) > f \/ dir = FWD THEN w.bofAt ELSE page[Len(page)]
    /\ b.eofAt = IF Len(page) > f \/ dir = BWD THEN w.eofAt ELSE page[Len(page)]

LEMMA StoredFromIs ==
    ASSUME NEW w \in Area, w.pos \in Slot, NEW dir \in Dir, NEW f \in Nat,
           NEW from \in Slot, NEW page, Len(page) \in Nat \ {0},
           Stocked(w.aCache, from, dir, page)[w.pos] # Nil,
           NEW b, b = StoreFrom(w, from, dir, f, from, page)
    PROVE  StoredAs(b, w, dir, f, from, page)
  <1> DEFINE F == Stocked(w.aCache, from, dir, page)
  <1> DEFINE L == Len(page)
             g == Fix(from + dir * (L - 1))
             v == [w EXCEPT !.aCache = Filled(@, from, from, dir, page)]
             c == IF L > f THEN v ELSE EndKnown(v, dir, page[L], g)
  <1>1. b = Arrived(c)
    BY DEF StoreFrom
  <1>2. /\ v.aCache = F /\ v.pos = w.pos /\ v.begin = w.begin /\ v.end = w.end
        /\ v.bofAt = w.bofAt /\ v.eofAt = w.eofAt /\ SameFlags(v, w)
    BY FilledIs DEF Area, SameFlags
  <1>4. v = [ aCache |-> F, pos |-> w.pos, begin |-> w.begin, end |-> w.end,
              bofAt |-> w.bofAt, eofAt |-> w.eofAt, recno |-> w.recno, bof |-> w.bof, eof |-> w.eof,
              fBof |-> w.fBof, fEof |-> w.fEof, deleted |-> w.deleted, wasdel |-> w.wasdel,
              hot |-> w.hot, isInsert |-> w.isInsert ]
    BY FilledIs DEF Area
  <1> HIDE DEF v, g
  <1>5. CASE L > f
    <2>1. c = v
      BY <1>5
    <2> HIDE DEF c
    <2>2. b = [v EXCEPT !.pos = v.pos, !.recno = v.aCache[v.pos], !.deleted = FALSE]
      BY <1>1, <1>2, <2>1 DEF Arrived, SetCurrent
    <2>3. /\ b.aCache = F /\ b.pos = w.pos /\ b.recno = F[w.pos] /\ b.deleted = FALSE
          /\ b.begin = w.begin /\ b.end = w.end /\ b.bofAt = w.bofAt /\ b.eofAt = w.eofAt
          /\ SameFlags(b, w)
      BY <1>4, <2>2 DEF SameFlags
    <2> QED BY <1>5, <2>3 DEF Far, Near, StoredAs
  <1>6. CASE ~(L > f) /\ dir = FWD
    <2>1. c = [v EXCEPT !.eofAt = page[L], !.end = g]
      BY <1>6 DEF EndKnown
    <2> HIDE DEF c
    <2>2. c.aCache = F /\ c.pos = w.pos
      BY <1>4, <2>1
    <2>3. b = [c EXCEPT !.pos = c.pos, !.recno = c.aCache[c.pos], !.deleted = FALSE]
      BY <1>1, <2>2 DEF Arrived, SetCurrent
    <2>4. FWD # BWD
      BY DEF FWD, BWD
    <2>5. /\ b.aCache = F /\ b.pos = w.pos /\ b.recno = F[w.pos] /\ b.deleted = FALSE
          /\ b.begin = w.begin /\ b.end = g /\ b.bofAt = w.bofAt /\ b.eofAt = page[L]
          /\ SameFlags(b, w)
      BY <1>4, <2>1, <2>3 DEF SameFlags
    <2> QED BY <1>6, <2>4, <2>5 DEF Far, Near, g, StoredAs
  <1>7. CASE ~(L > f) /\ dir = BWD
    <2>1. FWD # BWD
      BY DEF FWD, BWD
    <2>2. c = [v EXCEPT !.bofAt = page[L], !.begin = g]
      BY <1>7, <2>1 DEF EndKnown
    <2> HIDE DEF c
    <2>3. c.aCache = F /\ c.pos = w.pos
      BY <1>4, <2>2
    <2>4. b = [c EXCEPT !.pos = c.pos, !.recno = c.aCache[c.pos], !.deleted = FALSE]
      BY <1>1, <2>3 DEF Arrived, SetCurrent
    <2>5. /\ b.aCache = F /\ b.pos = w.pos /\ b.recno = F[w.pos] /\ b.deleted = FALSE
          /\ b.begin = g /\ b.end = w.end /\ b.bofAt = page[L] /\ b.eofAt = w.eofAt
          /\ SameFlags(b, w)
      BY <1>4, <2>2, <2>4 DEF SameFlags
    <2> QED BY <1>7, <2>1, <2>5 DEF Far, Near, g, StoredAs
  <1> QED BY <1>5, <1>6, <1>7 DEF Dir

(* Whether a page in direction dir pushes the far edge of the window (see Window). *)
Pushes(a, dir, f) ==
    LET reach == a.pos + dir * f
        edge  == IF a.begin < a.end THEN Fix(reach) ELSE reach
    IN a.begin # a.end /\ (a.begin < a.end => reach \notin Slot)
       /\ IF dir = FWD THEN edge >= a.begin - 2 ELSE edge <= a.end + 2

(* In numbers: a window from o to t of a ring of R slots, of which a page of L    *)
(* rows is put past t.  The rows it keeps are not overwritten, and the new ones *)
(* follow them.                                                                *)
On(R, x) == IF x > R THEN x - R ELSE x
Gone(R, x, y) == IF y >= x THEN y - x ELSE y - x + R

Meet(R, o, t, f) ==
    /\ o # t /\ (o < t => t + f > R)
    /\ (IF o < t THEN On(R, t + f) ELSE t + f) >= o - 2

Fit(R, o, t, L, k, o2, t2) ==
    /\ o2 \in 1..R /\ t2 \in 1..R
    /\ Gone(R, o2, t2) = Gone(R, o2, t) + k /\ Gone(R, o2, t2) <= R - 2
    /\ Gone(R, o, o2) <= Gone(R, o, t)
    /\ \A s \in 1..R : Gone(R, o2, s) <= Gone(R, o2, t2) =>
          IF Gone(R, o2, s) <= Gone(R, o2, t)
          THEN /\ Gone(R, o, s) <= Gone(R, o, t)
               /\ Gone(R, o, s) = Gone(R, o, o2) + Gone(R, o2, s)
               /\ Gone(R, On(R, t + 1), s) >= L
          ELSE /\ Gone(R, On(R, t + 1), s) < L
               /\ Gone(R, o2, s) = Gone(R, o2, t) + 1 + Gone(R, On(R, t + 1), s)

LEMMA PagesFit ==
    ASSUME NEW R \in Nat, R >= 5, NEW o \in 1..R, NEW t \in 1..R, Gone(R, o, t) <= R - 2,
           NEW f \in 1..(R - 4), NEW L \in 1..(f + 1),
           NEW k, k = (IF L > f THEN f ELSE L),
           NEW o2, o2 = (IF Meet(R, o, t, f) THEN On(R, t + f + 2) ELSE o),
           NEW t2, t2 = On(R, t + k), ~(o2 = 1 /\ t2 = R)
    PROVE  Fit(R, o, t, L, k, o2, t2)
  <1>1. k \in 1..f /\ k <= L
    OBVIOUS
  <1>2. CASE Meet(R, o, t, f)
    <2>1. o # t /\ (o < t => t + f > R) /\ (IF o < t THEN On(R, t + f) ELSE t + f) >= o - 2
      BY <1>2 DEF Meet
    <2>2. o2 = On(R, t + f + 2)
      BY <1>2
    <2>3. CASE o < t
      BY <1>1, <2>1, <2>2, <2>3 DEF On, Gone, Fit
    <2>4. CASE o > t
      BY <1>1, <2>1, <2>2, <2>4 DEF On, Gone, Fit
    <2> QED BY <2>1, <2>3, <2>4
  <1>3. CASE ~Meet(R, o, t, f)
    <2>1. o2 = o
      BY <1>3
    <2>2. CASE o = t
      BY <1>1, <2>1, <2>2 DEF On, Gone, Fit
    <2>3. CASE o < t /\ t + f <= R
      BY <1>1, <2>1, <2>3 DEF On, Gone, Fit
    <2>4. CASE o < t /\ t + f > R
      <3>1. On(R, t + f) < o - 2
        BY <1>3, <2>4 DEF On, Meet
      <3> QED BY <1>1, <2>1, <2>4, <3>1 DEF On, Gone, Fit
    <2>5. CASE o > t
      <3>1. t + f < o - 2
        BY <1>3, <2>5 DEF Meet
      <3> QED BY <1>1, <2>1, <2>5, <3>1 DEF On, Gone, Fit
    <2> QED BY <2>2, <2>3, <2>4, <2>5
  <1> QED BY <1>1, <1>2, <1>3
(* The same of the slots of the cache, in either direction. *)
LEMMA Geometry ==
    ASSUME NEW a, NEW dir \in Dir, NEW o \in Slot, o = Far(a, dir), NEW t \in Slot, t = Near(a, dir),
           a.pos = t, Distance(o, t, dir) <= Ring - 2,
           NEW f \in 1..(Ring - 4), NEW L \in 1..(f + 1), NEW k, k = (IF L > f THEN f ELSE L),
           NEW o2, o2 = (IF Pushes(a, dir, f) THEN Fix(t + dir * f + 2 * dir) ELSE o),
           NEW t2, t2 = Fix(t + dir * k),
           ~(o2 = (IF dir = FWD THEN 1 ELSE Ring) /\ t2 = (IF dir = FWD THEN Ring ELSE 1)),
           NEW from, from = Fix(t + dir)
    PROVE  /\ o2 \in Slot /\ t2 \in Slot
           /\ Distance(o2, t2, dir) = Distance(o2, t, dir) + k
           /\ Distance(o2, t2, dir) <= Ring - 2
           /\ Distance(o, o2, dir) <= Distance(o, t, dir)
           /\ \A s \in Slot : Distance(o2, s, dir) <= Distance(o2, t2, dir) =>
                 IF Distance(o2, s, dir) <= Distance(o2, t, dir)
                 THEN /\ Distance(o, s, dir) <= Distance(o, t, dir)
                      /\ Distance(o, s, dir) = Distance(o, o2, dir) + Distance(o2, s, dir)
                      /\ Distance(from, s, dir) >= L
                 ELSE /\ Distance(from, s, dir) < L
                      /\ Distance(o2, s, dir) = Distance(o2, t, dir) + 1 + Distance(from, s, dir)
  <1>1. /\ Ring \in Nat /\ Ring >= 5 /\ o \in 1..Ring /\ t \in 1..Ring
        /\ o \in Int /\ t \in Int /\ f \in Int /\ L \in Int /\ k \in Int /\ k \in 1..f
    BY RingFacts
  <1>2. FWD = 1 /\ BWD = -1 /\ BWD # FWD
    BY DEF FWD, BWD
  <1> DEFINE R == Ring
  <1>3. CASE dir = FWD
    <2> DEFINE pushed == Meet(R, o, t, f)
    <2>1. dir * f = f /\ dir * k = k /\ 2 * dir = 2
      BY <1>1, <1>2, <1>3
    <2>2. \A x \in Int : x >= 1 => Fix(x) = On(R, x)
      BY <1>1 DEF Fix, On
    <2>3. Pushes(a, dir, f) <=> pushed
      <3>1. a.begin = o /\ a.end = t
        BY <1>3 DEF Far, Near
      <3>2. Fix(t + f) = On(R, t + f) /\ (t + f \notin Slot <=> t + f > R)
        BY <1>1, <2>2, RingFacts
      <3> QED BY <1>1, <1>3, <2>1, <3>1, <3>2 DEF Pushes, Meet
    <2>4. o2 = (IF pushed THEN On(R, t + f + 2) ELSE o)
      <3>1. Fix(t + f + 2) = On(R, t + f + 2)
        BY <1>1, <2>2
      <3> QED BY <1>1, <2>1, <2>3, <3>1
    <2>5. t2 = On(R, t + k) /\ from = On(R, t + 1)
      BY <1>1, <1>2, <1>3, <2>1, <2>2
    <2>6. \A x, y \in Slot : Distance(x, y, dir) = Gone(R, x, y)
      BY <1>3, DistanceIs DEF Gone
    <2>7. ~(o2 = 1 /\ t2 = R)
      BY <1>3
    <2>8. Gone(R, o, t) <= R - 2
      BY <2>6
    <2> HIDE DEF R
    <2>9. /\ R \in Nat /\ R >= 5 /\ o \in 1..R /\ t \in 1..R /\ f \in 1..(R - 4)
          /\ Slot = 1..R
      BY <1>1, RingFacts DEF R
    <2>11. Fit(R, o, t, L, k, o2, t2)
      BY <2>4, <2>5, <2>7, <2>8, <2>9, PagesFit
    <2>12. /\ o2 \in 1..R /\ t2 \in 1..R
          /\ Gone(R, o2, t2) = Gone(R, o2, t) + k /\ Gone(R, o2, t2) <= R - 2
          /\ Gone(R, o, o2) <= Gone(R, o, t)
          /\ \A s \in 1..R : Gone(R, o2, s) <= Gone(R, o2, t2) =>
                IF Gone(R, o2, s) <= Gone(R, o2, t)
                THEN /\ Gone(R, o, s) <= Gone(R, o, t)
                     /\ Gone(R, o, s) = Gone(R, o, o2) + Gone(R, o2, s)
                     /\ Gone(R, On(R, t + 1), s) >= L
                ELSE /\ Gone(R, On(R, t + 1), s) < L
                     /\ Gone(R, o2, s) = Gone(R, o2, t) + 1 + Gone(R, On(R, t + 1), s)
      BY <2>11, <2>9 DEF Fit
    <2>13. o2 \in Slot /\ t2 \in Slot /\ from \in Slot
      <3>1. from \in Slot
        BY <2>5, <2>9 DEF On
      <3> QED BY <2>9, <2>12, <3>1
    <2>14. R = Ring
      BY DEF R
    <2>15. /\ Distance(o2, t2, dir) = Gone(R, o2, t2) /\ Distance(o2, t, dir) = Gone(R, o2, t)
           /\ Distance(o, o2, dir) = Gone(R, o, o2) /\ Distance(o, t, dir) = Gone(R, o, t)
      BY <2>6, <2>13
    <2>16. ASSUME NEW s \in Slot, Distance(o2, s, dir) <= Distance(o2, t2, dir)
           PROVE  IF Distance(o2, s, dir) <= Distance(o2, t, dir)
                  THEN /\ Distance(o, s, dir) <= Distance(o, t, dir)
                       /\ Distance(o, s, dir) = Distance(o, o2, dir) + Distance(o2, s, dir)
                       /\ Distance(from, s, dir) >= L
                  ELSE /\ Distance(from, s, dir) < L
                       /\ Distance(o2, s, dir) = Distance(o2, t, dir) + 1 + Distance(from, s, dir)
      <3>1. /\ Distance(o2, s, dir) = Gone(R, o2, s) /\ Distance(o, s, dir) = Gone(R, o, s)
            /\ Distance(from, s, dir) = Gone(R, On(R, t + 1), s)
        BY <2>5, <2>6, <2>13
      <3>2. s \in 1..R
        BY <2>9
      <3> QED BY <2>12, <2>15, <2>16, <3>1, <3>2
    <2> QED BY <2>12, <2>13, <2>14, <2>15, <2>16
  <1>4. CASE dir = BWD
    <2> DEFINE m(x) == R + 1 - x
               mo == m(o)
               mt == m(t)
               mo2 == m(o2)
               mt2 == m(t2)
               pushed == Meet(R, mo, mt, f)
    <2>0. dir # FWD
      BY <1>2, <1>4
    <2>1. dir * f = -f /\ dir * k = -k /\ 2 * dir = -2
      BY <1>1, <1>2, <1>4
    <2>2. \A x \in Int : x >= 1 => Fix(R + 1 - x) = R + 1 - On(R, x)
      BY <1>1 DEF Fix, On
    <2>3. mo \in 1..R /\ mt \in 1..R
      BY <1>1
    <2>4. /\ t - f = R + 1 - (mt + f) /\ t - k = R + 1 - (mt + k) /\ t - 1 = R + 1 - (mt + 1)
          /\ t - f - 2 = R + 1 - (mt + f + 2)
      BY <1>1
    <2>5. /\ Fix(t - f) = R + 1 - On(R, mt + f) /\ Fix(t - k) = R + 1 - On(R, mt + k)
          /\ Fix(t - 1) = R + 1 - On(R, mt + 1) /\ Fix(t - f - 2) = R + 1 - On(R, mt + f + 2)
      <3>1. /\ mt + f \in Int /\ mt + f >= 1 /\ mt + k \in Int /\ mt + k >= 1
            /\ mt + 1 \in Int /\ mt + 1 >= 1 /\ mt + f + 2 \in Int /\ mt + f + 2 >= 1
        BY <1>1, <2>3
      <3> HIDE DEF mt
      <3> QED BY <2>2, <2>4, <3>1
    <2>6. Pushes(a, dir, f) <=> pushed
      <3>1. a.begin = t /\ a.end = o
        BY <2>0 DEF Far, Near
      <3> DEFINE e == IF t < o THEN Fix(t - f) ELSE t - f
      <3>2. Pushes(a, dir, f) <=> (t # o /\ (t < o => t - f \notin Slot) /\ e <= o + 2)
        <4>1. t + dir * f = t - f
          BY <1>1, <2>1
        <4> QED BY <2>0, <3>1, <4>1 DEF Pushes
      <3>3. /\ t # o <=> mo # mt
            /\ t < o <=> mo < mt
            /\ t - f \notin Slot <=> mt + f > R
        <4>1. t # o <=> mo # mt
          BY <1>1
        <4>2. t < o <=> mo < mt
          BY <1>1
        <4>3. t - f \notin Slot <=> t - f < 1
          BY <1>1, RingFacts
        <4>4. t - f < 1 <=> mt + f > R
          BY <1>1
        <4> QED BY <4>1, <4>2, <4>3, <4>4
      <3>4. On(R, mt + f) \in Int
        BY <1>1 DEF On
      <3>5. e <= o + 2 <=> (IF mo < mt THEN On(R, mt + f) ELSE mt + f) >= mo - 2
        <4> DEFINE x == On(R, mt + f)
        <4>1. Fix(t - f) = R + 1 - x /\ x \in Int
          BY <2>5, <3>4
        <4> HIDE DEF x
        <4> QED BY <1>1, <4>1 DEF x
      <3> QED BY <3>2, <3>3, <3>5 DEF Meet
    <2>7. /\ On(R, mt + f + 2) \in Int /\ On(R, mt + k) \in Int /\ On(R, mt + 1) \in Int
          /\ On(R, mt + 1) \in 1..R
      BY <1>1 DEF On
    <2>8. o2 = IF pushed THEN R + 1 - On(R, mt + f + 2) ELSE o
      <3>1. t + dir * f + 2 * dir = t - f - 2
        BY <1>1, <2>1
      <3> HIDE DEF pushed, mt
      <3> QED BY <2>5, <2>6, <3>1
    <2>9. mo2 = IF pushed THEN On(R, mt + f + 2) ELSE mo
      <3> HIDE DEF pushed, mt
      <3> QED BY <1>1, <2>7, <2>8
    <2>10. mt2 = On(R, mt + k)
      <3>1. t2 = R + 1 - On(R, mt + k)
        <4>1. t + dir * k = t - k
          BY <1>1, <2>1
        <4> HIDE DEF mt
        <4> QED BY <2>5, <4>1
      <3> HIDE DEF mt
      <3> QED BY <1>1, <2>7, <3>1
    <2>11. from = R + 1 - On(R, mt + 1)
      <3>1. t + dir = t - 1
        BY <1>1, <1>2, <1>4
      <3> HIDE DEF mt
      <3> QED BY <2>5, <3>1
    <2>12. \A x, y \in Slot : Distance(x, y, dir) = Gone(R, m(x), m(y))
      <3> SUFFICES ASSUME NEW x \in Slot, NEW y \in Slot PROVE Distance(x, y, dir) = Gone(R, m(x), m(y))
        OBVIOUS
      <3>1. Distance(x, y, BWD) = IF y <= x THEN x - y ELSE x - y + Ring
        BY DistanceIs
      <3>2. x \in 1..Ring /\ y \in 1..Ring
        BY RingFacts
      <3> QED BY <1>1, <1>4, <3>1, <3>2 DEF Gone
    <2>13. o2 \in Int /\ t2 \in Int
      <3>1. t2 = R + 1 - On(R, mt + k)
        <4>1. t + dir * k = t - k
          BY <1>1, <2>1
        <4> HIDE DEF mt
        <4> QED BY <2>5, <4>1
      <3> HIDE DEF pushed, mt
      <3> QED BY <1>1, <2>7, <2>8, <3>1
    <2>14. ~(mo2 = 1 /\ mt2 = R)
      BY <1>1, <2>0, <2>13
    <2>15. Gone(R, mo, mt) <= R - 2
      BY <2>12
    <2>18. R \in Nat /\ R >= 5 /\ f \in 1..(R - 4) /\ Slot = 1..R /\ R = Ring
      BY <1>1, RingFacts
    <2> HIDE DEF mo, mt, mo2, mt2, R
    <2>17. Fit(R, mo, mt, L, k, mo2, mt2)
      BY <2>3, <2>9, <2>10, <2>14, <2>15, <2>18, PagesFit
    <2>19. /\ mo2 \in 1..R /\ mt2 \in 1..R
           /\ Gone(R, mo2, mt2) = Gone(R, mo2, mt) + k /\ Gone(R, mo2, mt2) <= R - 2
           /\ Gone(R, mo, mo2) <= Gone(R, mo, mt)
           /\ \A s \in 1..R : Gone(R, mo2, s) <= Gone(R, mo2, mt2) =>
                 IF Gone(R, mo2, s) <= Gone(R, mo2, mt)
                 THEN /\ Gone(R, mo, s) <= Gone(R, mo, mt)
                      /\ Gone(R, mo, s) = Gone(R, mo, mo2) + Gone(R, mo2, s)
                      /\ Gone(R, On(R, mt + 1), s) >= L
                 ELSE /\ Gone(R, On(R, mt + 1), s) < L
                      /\ Gone(R, mo2, s) = Gone(R, mo2, mt) + 1 + Gone(R, On(R, mt + 1), s)
      BY <2>17 DEF Fit
    <2>20. o2 \in Slot /\ t2 \in Slot /\ from \in Slot
      <3>1. o2 \in 1..R /\ t2 \in 1..R
        <4>1. mo2 = R + 1 - o2 /\ mt2 = R + 1 - t2
          BY DEF mo2, mt2
        <4>2. mo2 \in 1..R /\ mt2 \in 1..R
          BY <2>19
        <4>3. R \in Int
          BY <2>18
        <4>4. \A x, y \in Int : y = R + 1 - x /\ y \in 1..R => x \in 1..R
          BY <4>3
        <4> QED BY <2>13, <4>1, <4>2, <4>4
      <3>2. from \in 1..R
        BY <2>7, <2>11, <2>18
      <3> QED BY <2>18, <3>1, <3>2
    <2>21. m(from) = On(R, mt + 1)
      BY <2>7, <2>11, <2>18
    <2>22. /\ Distance(o2, t2, dir) = Gone(R, mo2, mt2) /\ Distance(o2, t, dir) = Gone(R, mo2, mt)
           /\ Distance(o, o2, dir) = Gone(R, mo, mo2) /\ Distance(o, t, dir) = Gone(R, mo, mt)
      BY <2>12, <2>20 DEF mo, mt, mo2, mt2
    <2>23. ASSUME NEW s \in Slot, Distance(o2, s, dir) <= Distance(o2, t2, dir)
           PROVE  IF Distance(o2, s, dir) <= Distance(o2, t, dir)
                  THEN /\ Distance(o, s, dir) <= Distance(o, t, dir)
                       /\ Distance(o, s, dir) = Distance(o, o2, dir) + Distance(o2, s, dir)
                       /\ Distance(from, s, dir) >= L
                  ELSE /\ Distance(from, s, dir) < L
                       /\ Distance(o2, s, dir) = Distance(o2, t, dir) + 1 + Distance(from, s, dir)
      <3> DEFINE ms == m(s)
      <3>1. /\ Distance(o2, s, dir) = Gone(R, mo2, ms) /\ Distance(o, s, dir) = Gone(R, mo, ms)
            /\ Distance(from, s, dir) = Gone(R, On(R, mt + 1), ms)
        BY <2>12, <2>20, <2>21 DEF mo, mo2
      <3>2. ms \in 1..R
        BY <2>18
      <3> HIDE DEF ms
      <3> QED BY <2>19, <2>22, <2>23, <3>1, <3>2
    <2> QED BY <2>18, <2>19, <2>20, <2>22, <2>23
  <1> QED BY <1>3, <1>4 DEF Dir

LEMMA WindowIs ==
    ASSUME NEW a \in Area, a.pos \in Slot, a.begin \in Slot, a.end \in Slot,
           NEW dir \in Dir, NEW f \in 1..(Ring - 4), NEW w, w = Window(a, dir, f)
    PROVE  /\ w.aCache = a.aCache /\ w.pos = a.pos /\ w.recno = a.recno /\ w.deleted = a.deleted
           /\ SameFlags(w, a)
           /\ Near(w, dir) = Fix(a.pos + dir * f)
           /\ Far(w, dir) = IF Pushes(a, dir, f) THEN Fix(a.pos + dir * f + 2 * dir) ELSE Far(a, dir)
           /\ w.bofAt \in {0, a.bofAt} /\ w.eofAt \in {0, a.eofAt}
           /\ Pushes(a, dir, f) => w.bofAt = 0
  <1> DEFINE reach  == a.pos + dir * f
             pushed == Pushes(a, dir, f)
             single == a.begin = a.end
             first  == IF dir = FWD THEN 1 ELSE Ring
             forget == ~single /\ (pushed \/ reach \notin Slot)
             Other(edge) == IF pushed THEN Fix(reach + 2 * dir)
                            ELSE IF edge = 0 THEN first ELSE edge
             begin == IF dir = FWD THEN Other(a.begin) ELSE Fix(reach)
             end   == IF dir = FWD THEN Fix(reach) ELSE Other(a.end)
             eofAt == IF single \/ forget THEN 0 ELSE a.eofAt
             bofAt == IF forget THEN 0 ELSE a.bofAt
             pos   == IF a.pos = 0 THEN first ELSE a.pos
  <1>1. w = Moved(a, dir, f, pushed)
    BY DEF Window, Pushes
  <1>2. w = [a EXCEPT !.begin = begin, !.end = end, !.eofAt = eofAt, !.bofAt = bofAt, !.pos = pos]
    BY <1>1 DEF Moved
  <1>3. pos = a.pos /\ a.begin # 0 /\ a.end # 0 /\ bofAt \in {0, a.bofAt} /\ eofAt \in {0, a.eofAt}
    BY RingFacts
  <1>a. pushed => bofAt = 0
    BY DEF Pushes
  <1>4. \A edge : edge # 0 => Other(edge) = IF pushed THEN Fix(reach + 2 * dir) ELSE edge
    OBVIOUS
  <1>5. FWD # BWD
    BY DEF FWD, BWD
  <1> DEFINE far == IF pushed THEN Fix(reach + 2 * dir) ELSE Far(a, dir)
             near == Fix(reach)
  <1>6. /\ (IF dir = FWD THEN end ELSE begin) = near
        /\ (IF dir = FWD THEN begin ELSE end) = far
    <2> HIDE DEF pushed, reach, Other, first
    <2> QED BY <1>3, <1>4 DEF Far
  <1> HIDE DEF begin, end, eofAt, bofAt, pos, pushed, far, near
  <1>7. /\ w.aCache = a.aCache /\ w.pos = a.pos /\ w.recno = a.recno /\ w.deleted = a.deleted
        /\ SameFlags(w, a) /\ w.begin = begin /\ w.end = end /\ w.bofAt = bofAt /\ w.eofAt = eofAt
    BY <1>2, <1>3 DEF Area, SameFlags
  <1>8. Near(w, dir) = near /\ Far(w, dir) = far
    BY <1>6, <1>7 DEF Near, Far
  <1> QED BY <1>3, <1>a, <1>7, <1>8 DEF far, near, pushed

(* A number taken in a direction. *)
LEMMA Signed ==
    ASSUME NEW dir \in Dir, NEW x \in Int
    PROVE  dir * x = (IF dir = FWD THEN x ELSE -x) /\ dir * x \in Int
  <1>1. CASE dir = FWD
    BY <1>1 DEF FWD
  <1>2. CASE dir = BWD
    BY <1>2 DEF FWD, BWD
  <1> QED BY <1>1, <1>2 DEF Dir

(* The rows of a page past record r, without r itself. *)
NewRows(page, n, dir, r, f) ==
    /\ Len(page) \in 1..(f + 1)
    /\ \A i \in 1..Len(page) : page[i] = r + dir * i /\ page[i] \in 1..n
    /\ Len(page) <= f => page[Len(page)] = EndOf(n, dir)

(* The area after such a page was stored, on record r. *)
PageAdded(b, a, n, dir, r) ==
    /\ Arc(b, n, dir) /\ b.pos = a.pos /\ b.pos # Near(b, dir)
    /\ b.aCache[b.pos] = r /\ b.recno = r /\ b.deleted = FALSE /\ SameFlags(b, a)
    /\ b.bofAt \in {0, 1, a.bofAt} /\ b.eofAt \in {0, n, a.eofAt}

(* A page past the near edge of the window leaves it a window of consecutive *)
(* records, on the same one.                                                 *)
LEMMA PageStored ==
    ASSUME NEW n \in 1..MaxRec, NEW a, Good(a, 1..n), NEW dir \in Dir, Arc(a, n, dir),
           a.pos = Near(a, dir), NEW f \in 1..(Ring - 4), NEW page,
           NewRows(page, n, dir, a.aCache[a.pos], f),
           NEW b, b = Store(a, dir, f, Fix(a.pos + dir), page), ~(b.begin = 1 /\ b.end = Ring)
    PROVE  PageAdded(b, a, n, dir, a.aCache[a.pos])
  <1> DEFINE L == Len(page)
             r == a.aCache[a.pos]
  <1>0. /\ L \in 1..(f + 1)
        /\ \A i \in 1..L : page[i] = r + dir * i /\ page[i] \in 1..n
        /\ L <= f => page[L] = IF dir = FWD THEN n ELSE 1
    BY DEF NewRows, EndOf
  <1> DEFINE o == Far(a, dir)
             t == Near(a, dir)
             k == IF L > f THEN f ELSE L
             o2 == IF Pushes(a, dir, f) THEN Fix(t + dir * f + 2 * dir) ELSE o
             t2 == Fix(t + dir * k)
             from == Fix(t + dir)
             F == Stocked(a.aCache, from, dir, page)
             w == Window(a, dir, f)
  <1>1. /\ o \in Slot /\ t \in Slot /\ a.pos = t /\ a.begin \in Slot /\ a.end \in Slot
        /\ Distance(o, t, dir) <= Ring - 2
        /\ a.aCache[o] \in 1..n /\ a.aCache[t] \in 1..n
        /\ \A s \in Slot : Distance(o, s, dir) <= Distance(o, t, dir) =>
              a.aCache[s] = a.aCache[o] + dir * Distance(o, s, dir)
    BY DEF Arc, Far, Near
  <1>2. a \in Area
    BY DEF Good
  <1>3. /\ from \in Slot
        /\ \A x, y \in Slot : Distance(x, y, dir) \in Nat
    <2>1. from \in Slot
      BY <1>1, StepOn
    <2>2. \A x, y \in Slot : Distance(x, y, dir) \in Nat
      <3> TAKE x, y \in Slot
      <3>1. x \in Int /\ y \in Int
        BY RingFacts
      <3>2. Distance(x, y, dir) \in 0..(Ring - 1)
        BY <3>1, Distances
      <3> QED BY <3>2, RingFacts
    <2> QED BY <2>1, <2>2
  <1>4. /\ w.aCache = a.aCache /\ w.pos = a.pos /\ w.recno = a.recno /\ w.deleted = a.deleted
        /\ SameFlags(w, a) /\ Near(w, dir) = Fix(t + dir * f) /\ Far(w, dir) = o2
        /\ w.bofAt \in {0, a.bofAt} /\ w.eofAt \in {0, a.eofAt}
    BY <1>1, <1>2, WindowIs
  <1>5. w \in Area
    <2>1. Rows(1..n, n)
      BY RingFacts DEF Rows
    <2> QED BY <2>1, WindowGood DEF Good
  <1>6. b = StoreFrom(w, from, dir, f, from, page)
    <2>1. a.end # 0 /\ w.pos = t
      BY <1>1, <1>4, RingFacts
    <2> HIDE DEF w
    <2> QED BY <1>1, <2>1 DEF Store, StoreIn, w
  <1> HIDE DEF w
  <1>7. k \in 1..f /\ k \in Int /\ f \in Nat /\ (L > f => k = f) /\ (~(L > f) => k = L)
    <2> HIDE DEF L
    <2> QED BY <1>0, RingFacts
  <1>8. F[t] = a.aCache[t]
    <2>1. Distance(from, t, dir) >= L
      <3>1. /\ Distance(from, t, FWD) = IF t >= from THEN t - from ELSE t - from + Ring
            /\ Distance(from, t, BWD) = IF t <= from THEN from - t ELSE from - t + Ring
        BY <1>1, <1>3, DistanceIs
      <3>2. from = IF dir = FWD THEN (IF t = Ring THEN 1 ELSE t + 1) ELSE IF t = 1 THEN Ring ELSE t - 1
        <4> DEFINE u == t
        <4>1. u \in 1..Ring /\ from = Fix(u + dir) /\ dir \in {1, -1}
          BY <1>1, RingFacts DEF Dir, FWD, BWD
        <4> HIDE DEF u, from
        <4> QED BY <4>1, RingFacts DEF Fix, FWD, u
      <3>3. t \in 1..Ring /\ from \in 1..Ring /\ L <= Ring - 3 /\ L \in Int /\ BWD # FWD
        BY <1>0, <1>1, <1>3, RingFacts DEF FWD, BWD
      <3> HIDE DEF t, from
      <3>4. CASE dir = FWD
        BY <3>1, <3>2, <3>3, <3>4, RingFacts
      <3>5. CASE dir = BWD
        BY <3>1, <3>2, <3>3, <3>5, RingFacts
      <3> QED BY <3>4, <3>5 DEF Dir
    <2>2. Distance(from, t, dir) \in Nat /\ L \in Nat
      BY <1>0, <1>1, <1>3
    <2> HIDE DEF t, from
    <2> QED BY <1>1, <2>1, <2>2 DEF Stocked
  <1>9. /\ b.aCache = F /\ b.pos = t /\ b.recno = F[t] /\ b.deleted = FALSE
        /\ SameFlags(b, w) /\ Far(b, dir) = o2
        /\ Near(b, dir) = IF L > f THEN Near(w, dir) ELSE Fix(from + dir * (L - 1))
        /\ b.bofAt = IF L > f \/ dir = FWD THEN w.bofAt ELSE page[L]
        /\ b.eofAt = IF L > f \/ dir = BWD THEN w.eofAt ELSE page[L]
    <2>1. w.pos \in Slot /\ w.pos = t /\ w.aCache = a.aCache
      BY <1>1, <1>4
    <2>2. F[w.pos] # Nil
      <3>1. a.aCache[t] \in 0..(MaxRec + 1) /\ Nil \notin 0..(MaxRec + 1)
        <4>1. a.aCache[t] \in 1..n
          BY <1>1
        <4>2. 1..n \subseteq 0..(MaxRec + 1) /\ Nil \notin 0..(MaxRec + 1)
          BY RingFacts
        <4> QED BY <4>1, <4>2
      <3> HIDE DEF F
      <3>2. F[w.pos] = a.aCache[t]
        BY <1>8, <2>1
      <3> QED BY <3>1, <3>2
    <2>3. F = Stocked(w.aCache, from, dir, page)
      BY <2>1
    <2>4. Len(page) \in Nat \ {0} /\ f \in Nat
      BY <1>0, <1>7
    <2> HIDE DEF F, from, t, o2
    <2>5. StoredAs(b, w, dir, f, from, page)
      BY <1>3, <1>5, <1>6, <2>1, <2>2, <2>3, <2>4, StoredFromIs
    <2> QED BY <1>4, <2>1, <2>3, <2>5 DEF StoredAs
  <1>10. Near(b, dir) = t2
    <2>1. CASE L > f
      BY <1>4, <1>7, <1>9, <2>1
    <2>2. CASE ~(L > f)
      <3>1. Fix(from + dir * (L - 1)) = Fix(t + dir * L)
        <4>1. t \in 1..Ring /\ L \in 1..(Ring - 4) /\ Ring \in Nat /\ Ring >= 5
          BY <1>0, <1>1, <2>2, RingFacts
        <4> HIDE DEF t, L
        <4>2. CASE dir = FWD
          <5>1. dir * (L - 1) = L - 1 /\ dir * L = L /\ from = Fix(t + 1)
            BY <4>1, <4>2 DEF FWD
          <5>2. Fix(Fix(t + 1) + (L - 1)) = Fix(t + L)
            BY <4>1 DEF Fix
          <5> HIDE DEF from
          <5> QED BY <5>1, <5>2
        <4>3. CASE dir = BWD
          <5>1. dir * (L - 1) = 1 - L /\ dir * L = -L /\ from = Fix(t - 1)
            BY <4>1, <4>3 DEF BWD
          <5>2. Fix(Fix(t - 1) + (1 - L)) = Fix(t + (-L))
            BY <4>1 DEF Fix
          <5> HIDE DEF from
          <5> QED BY <5>1, <5>2
        <4> QED BY <4>2, <4>3 DEF Dir
      <3> QED BY <1>7, <1>9, <2>2, <3>1
    <2> QED BY <2>1, <2>2
  <1>11. ~(o2 = (IF dir = FWD THEN 1 ELSE Ring) /\ t2 = (IF dir = FWD THEN Ring ELSE 1))
    <2> HIDE DEF o2, t2
    <2> QED BY <1>9, <1>10 DEF Far, Near
  <1> DEFINE H == a.aCache
  <1>12. H[o] \in Int /\ H[t] \in Int /\ n \in Nat /\ dir \in {1, -1}
    BY <1>1, RingFacts DEF Dir, FWD, BWD
  <1>13. /\ b.aCache = F
         /\ \A s \in Slot : F[s] = IF Distance(from, s, dir) < L THEN page[Distance(from, s, dir) + 1]
                                   ELSE H[s]
    BY <1>9 DEF Stocked
  <1>14. r = H[t]
    BY <1>1
  <1>15. /\ o2 \in Slot /\ t2 \in Slot
         /\ Distance(o2, t2, dir) = Distance(o2, t, dir) + k
         /\ Distance(o2, t2, dir) <= Ring - 2
         /\ Distance(o, o2, dir) <= Distance(o, t, dir)
         /\ \A s \in Slot : Distance(o2, s, dir) <= Distance(o2, t2, dir) =>
               IF Distance(o2, s, dir) <= Distance(o2, t, dir)
               THEN /\ Distance(o, s, dir) <= Distance(o, t, dir)
                    /\ Distance(o, s, dir) = Distance(o, o2, dir) + Distance(o2, s, dir)
                    /\ Distance(from, s, dir) >= L
               ELSE /\ Distance(from, s, dir) < L
                    /\ Distance(o2, s, dir) = Distance(o2, t, dir) + 1 + Distance(from, s, dir)
    <2>1. o = Far(a, dir) /\ t = Near(a, dir)
      OBVIOUS
    <2>2. k = (IF L > f THEN f ELSE L) /\ t2 = Fix(t + dir * k) /\ from = Fix(t + dir)
      OBVIOUS
    <2>3. o2 = IF Pushes(a, dir, f) THEN Fix(t + dir * f + 2 * dir) ELSE o
      OBVIOUS
    <2>4. L \in 1..(f + 1)
      BY <1>0
    <2> HIDE DEF o, t, k, o2, t2, from, L
    <2> QED BY <1>1, <1>11, <2>1, <2>2, <2>3, <2>4, Geometry
  <1> HIDE DEF o, t, k, o2, t2, from, F, H, L, r
  <1>17. /\ Distance(o2, t, dir) \in Nat /\ Distance(o2, t2, dir) \in Nat /\ k \in Nat /\ k >= 1
         /\ Distance(o, o2, dir) \in Nat /\ Distance(o, t, dir) \in Nat /\ Distance(o2, o2, dir) = 0
    <2>1. Distance(o2, o2, dir) = 0
      BY <1>15, Distances, RingFacts
    <2> QED BY <1>1, <1>3, <1>7, <1>15, <2>1
  <1>18. ASSUME NEW s \in Slot, Distance(o2, s, dir) <= Distance(o2, t, dir)
         PROVE  /\ F[s] = H[s] /\ H[s] = H[o] + dir * Distance(o, s, dir)
                /\ Distance(o, s, dir) = Distance(o, o2, dir) + Distance(o2, s, dir)
                /\ Distance(o, s, dir) <= Distance(o, t, dir)
    <2>1. Distance(o2, s, dir) \in Nat /\ Distance(from, s, dir) \in Nat
      BY <1>3, <1>15
    <2>2. Distance(o2, s, dir) <= Distance(o2, t2, dir)
      BY <1>15, <1>17, <1>18, <2>1
    <2>3. /\ Distance(o, s, dir) <= Distance(o, t, dir)
          /\ Distance(o, s, dir) = Distance(o, o2, dir) + Distance(o2, s, dir)
          /\ Distance(from, s, dir) >= L
      BY <1>15, <1>18, <2>2
    <2>4. F[s] = H[s]
      BY <1>0, <1>13, <2>1, <2>3
    <2>5. H[s] = H[o] + dir * Distance(o, s, dir)
      BY <1>1, <2>3 DEF H
    <2> QED BY <2>3, <2>4, <2>5
  <1>19. /\ F[o2] = H[o] + dir * Distance(o, o2, dir) /\ F[o2] \in Int
         /\ F[t] = F[o2] + dir * Distance(o2, t, dir) /\ F[t] = H[t]
    <2>1. F[o2] = H[o] + dir * Distance(o, o2, dir)
      BY <1>15, <1>17, <1>18
    <2>2. /\ F[t] = H[t] /\ H[t] = H[o] + dir * Distance(o, t, dir)
          /\ Distance(o, t, dir) = Distance(o, o2, dir) + Distance(o2, t, dir)
      BY <1>1, <1>17, <1>18
    <2> DEFINE x == Distance(o, o2, dir)
               y == Distance(o2, t, dir)
               c == H[o]
    <2>3. x \in Int /\ y \in Int /\ c \in Int
      BY <1>12, <1>17
    <2>4. H[t] = c + dir * (x + y) /\ F[o2] = c + dir * x
      BY <2>1, <2>2
    <2> HIDE DEF x, y, c
    <2>5. H[t] = F[o2] + dir * y /\ F[o2] \in Int
      <3>1. dir * x = (IF dir = FWD THEN x ELSE -x) /\ dir * y = (IF dir = FWD THEN y ELSE -y)
        BY <2>3, Signed
      <3>2. x + y \in Int
        BY <2>3
      <3>3. dir * (x + y) = (IF dir = FWD THEN x + y ELSE -(x + y))
        BY <3>2, Signed
      <3> QED BY <2>3, <2>4, <3>1, <3>3
    <2> QED BY <2>1, <2>2, <2>5 DEF y
  <1>20. ASSUME NEW s \in Slot, Distance(o2, s, dir) <= Distance(o2, t2, dir)
         PROVE  F[s] = F[o2] + dir * Distance(o2, s, dir)
    <2>1. Distance(o2, s, dir) \in Nat /\ Distance(from, s, dir) \in Nat /\ Distance(o, s, dir) \in Nat
      BY <1>1, <1>3, <1>15
    <2>2. CASE Distance(o2, s, dir) <= Distance(o2, t, dir)
      <3>1. /\ F[s] = H[o] + dir * Distance(o, s, dir)
            /\ Distance(o, s, dir) = Distance(o, o2, dir) + Distance(o2, s, dir)
        BY <1>18, <2>2
      <3> DEFINE x == Distance(o, o2, dir)
                 y == Distance(o2, s, dir)
                 c == H[o]
      <3>2. x \in Int /\ y \in Int /\ c \in Int
        BY <1>12, <1>17, <2>1
      <3>3. F[s] = c + dir * (x + y) /\ F[o2] = c + dir * x
        BY <1>19, <3>1
      <3> HIDE DEF x, y, c
      <3>4. F[s] = F[o2] + dir * y
        <4>1. dir * x = (IF dir = FWD THEN x ELSE -x) /\ dir * y = (IF dir = FWD THEN y ELSE -y)
          BY <3>2, Signed
        <4>2. x + y \in Int
          BY <3>2
        <4>3. dir * (x + y) = (IF dir = FWD THEN x + y ELSE -(x + y))
          BY <4>2, Signed
        <4> QED BY <3>2, <3>3, <4>1, <4>3
      <3> QED BY <3>4 DEF y
    <2>3. CASE ~(Distance(o2, s, dir) <= Distance(o2, t, dir))
      <3>1. /\ Distance(from, s, dir) < L
            /\ Distance(o2, s, dir) = Distance(o2, t, dir) + 1 + Distance(from, s, dir)
        BY <1>15, <1>20, <2>3
      <3> DEFINE x == Distance(o2, t, dir)
                 i == Distance(from, s, dir)
      <3>2. F[s] = page[i + 1] /\ i + 1 \in 1..L /\ i \in Int /\ x \in Int
        BY <1>0, <1>13, <1>17, <2>1, <3>1
      <3>3. F[s] = H[t] + dir * (i + 1)
        BY <1>0, <1>14, <3>2
      <3>4. H[t] = F[o2] + dir * x /\ F[o2] \in Int /\ Distance(o2, s, dir) = x + (i + 1)
        BY <1>17, <1>19, <2>1, <3>1
      <3> HIDE DEF x, i
      <3> DEFINE j == i + 1
      <3>5. j \in Int /\ x + j \in Int /\ F[s] = H[t] + dir * j /\ Distance(o2, s, dir) = x + j
        BY <3>2, <3>3, <3>4
      <3> HIDE DEF j
      <3>6. dir * x = (IF dir = FWD THEN x ELSE -x) /\ dir * j = (IF dir = FWD THEN j ELSE -j)
        BY <3>2, <3>5, Signed
      <3>7. dir * (x + j) = (IF dir = FWD THEN x + j ELSE -(x + j))
        BY <3>5, Signed
      <3> QED BY <3>2, <3>4, <3>5, <3>6, <3>7
    <2> QED BY <2>2, <2>3
  <1>21. F[o2] \in 1..n
    <2> DEFINE x == Distance(o, o2, dir)
               y == Distance(o2, t, dir)
               c == H[o]
               e == F[o2]
               h == H[t]
    <2>1. /\ e = c + dir * x /\ h = e + dir * y /\ x >= 0 /\ y >= 0 /\ x \in Int /\ y \in Int
          /\ c \in 1..n /\ h \in 1..n /\ e \in Int
      BY <1>1, <1>17, <1>19 DEF H
    <2> HIDE DEF x, y, c, e, h
    <2>2. dir * x = (IF dir = FWD THEN x ELSE -x) /\ dir * y = (IF dir = FWD THEN y ELSE -y)
      BY <2>1, Signed
    <2>4. e \in 1..n
      BY <1>12, <2>1, <2>2
    <2> QED BY <2>4 DEF e
  <1>22. F[t2] \in 1..n /\ t # t2
    <2>1. ~(Distance(o2, t2, dir) <= Distance(o2, t, dir))
      BY <1>15, <1>17
    <2>2. Distance(from, t2, dir) < L /\ Distance(from, t2, dir) \in Nat
      BY <1>3, <1>15, <1>17, <2>1
    <2>3. F[t2] = page[Distance(from, t2, dir) + 1] /\ Distance(from, t2, dir) + 1 \in 1..L
      BY <1>0, <1>13, <1>15, <2>2
    <2>4. Distance(o2, t, dir) <= Distance(o2, t, dir)
      BY <1>17
    <2> QED BY <1>0, <2>1, <2>3, <2>4
  <1>23. Arc(b, n, dir)
    <2>1. Distance(o2, t, dir) <= Distance(o2, t2, dir)
      BY <1>15, <1>17
    <2> QED BY <1>1, <1>9, <1>10, <1>15, <1>20, <1>21, <1>22, <2>1 DEF Arc
  <1>24. b.bofAt \in {0, 1, a.bofAt} /\ b.eofAt \in {0, n, a.eofAt}
    <2>1. FWD # BWD
      BY DEF FWD, BWD
    <2>2. CASE dir = FWD
      <3>1. L > f \/ L <= f
        BY <1>0
      <3> QED BY <1>0, <1>4, <1>9, <2>1, <2>2, <3>1
    <2>3. CASE dir = BWD
      <3>1. L > f \/ L <= f
        BY <1>0
      <3> QED BY <1>0, <1>4, <1>9, <2>1, <2>3, <3>1
    <2> QED BY <2>2, <2>3 DEF Dir
  <1>25. SameFlags(b, a)
    BY <1>4, <1>9 DEF SameFlags
  <1> QED BY <1>1, <1>9, <1>10, <1>14, <1>19, <1>22, <1>23, <1>24, <1>25 DEF PageAdded, r

(* What a page past the near edge makes of the area, on a record that is not the end. *)
LEMMA ReadPageIs ==
    ASSUME NEW n \in 1..MaxRec, NEW a, Good(a, 1..n), NEW dir \in Dir, Arc(a, n, dir),
           a.pos = Near(a, dir), a.recno = a.aCache[a.pos], ~(a.wasdel /\ ~UseDeleteds),
           NEW f \in PageSizes, NEW b, b = ReadPage(a, 1..n, n, dir, f)
    PROVE  /\ a.recno = EndOf(n, dir) =>
                 b = IF dir = FWD THEN CleanBuffer([a EXCEPT !.eofAt = a.recno], n)
                     ELSE [a EXCEPT !.bofAt = a.recno]
           /\ a.recno # EndOf(n, dir) /\ ~(b.begin = 1 /\ b.end = Ring) =>
                 PageAdded(b, a, n, dir, a.recno)
  <1> DEFINE r == a.recno
             kept == a.wasdel /\ ~UseDeleteds
             rows == RowsFrom(1..n, r, dir, f + 2)
             N == Len(rows)
             page == Tail(rows)
             L == N - 1
  <1>1. ~kept
    OBVIOUS
  <1>2. b = PageRead(a, n, dir, f, FALSE, rows)
    BY <1>1 DEF ReadPage
  <1>3. f \in 1..(Ring - 4) /\ f \in Nat /\ f + 2 \in Nat \ {0} /\ f + 2 > 1
    BY RingFacts
  <1>4. r \in 1..n /\ n \in Nat /\ r \in Int
    <2>1. a.aCache[Near(a, dir)] \in 1..n
      BY DEF Arc
    <2> QED BY <2>1, RingFacts
  <1> HIDE DEF r
  <1>5. /\ rows \in Seq(1..n) /\ N \in Nat \ {0} /\ N <= f + 2
        /\ N = 1 /\ f + 2 > 1 => r = IF dir = FWD THEN n ELSE 1
        /\ N < f + 2 => r + dir * (N - 1) = IF dir = FWD THEN n ELSE 1
        /\ \A i \in 1..N : rows[i] = r + dir * (i - 1)
    <2>1. SameSide(n, dir, r, r)
      BY DEF SameSide
    <2> DEFINE k == f + 2
    <2> HIDE DEF k, rows
    <2>2. rows = RowsFrom(1..n, r, dir, k) /\ k \in Nat \ {0}
      BY <1>3 DEF k, rows
    <2>3. RowsAre(rows, n, dir, r, k)
      BY <1>4, <2>1, <2>2, RowsOnward
    <2> QED BY <2>3 DEF k, RowsAre, EndOf
  <1> HIDE DEF rows
  <1>12. N \in Nat /\ N >= 1 /\ (N # 1 => N > 1 /\ 2 \in 1..N) /\ (rows = <<>> => N = 0)
    <2>1. N \in Nat \ {0} /\ (rows = <<>> => N = 0)
      BY <1>5
    <2> HIDE DEF N
    <2> QED BY <2>1
  <1>6. N = 1 <=> r = EndOf(n, dir)
    <2>1. N = 1 => r = EndOf(n, dir)
      BY <1>3, <1>5 DEF EndOf
    <2>2. ASSUME N # 1, r = EndOf(n, dir) PROVE FALSE
      <3>1. 2 \in 1..N
        BY <1>12, <2>2
      <3>2. rows[2] = r + dir * (2 - 1) /\ rows[2] \in 1..n
        BY <1>5, <3>1
      <3>3. CASE dir = FWD
        BY <1>4, <2>2, <3>2, <3>3 DEF EndOf, FWD
      <3>4. CASE dir = BWD
        BY <1>4, <2>2, <3>2, <3>4 DEF EndOf, FWD, BWD
      <3> QED BY <3>3, <3>4 DEF Dir
    <2> QED BY <2>1, <2>2
  <1>7. CASE N = 1
    <2>1. ~(Len(rows) > 1) /\ rows # <<>>
      BY <1>12, <1>7
    <2>2. b = IF dir = FWD THEN CleanBuffer([a EXCEPT !.eofAt = a.recno], n)
              ELSE [a EXCEPT !.bofAt = a.recno]
      BY <1>2, <2>1 DEF PageRead
    <2> QED BY <1>6, <1>7, <2>2 DEF r
  <1>8. CASE N # 1
    <2>1. N > 1 /\ rows # <<>>
      BY <1>12, <1>8
    <2>2. b = Store(a, dir, f, Fix(a.pos + dir), page)
      BY <1>2, <2>1 DEF PageRead
    <2>3. /\ Len(page) = L /\ L \in 1..(f + 1)
          /\ \A i \in 1..L : page[i] = rows[i + 1] /\ i + 1 \in 1..N
      BY <1>3, <1>5, <2>1
    <2> HIDE DEF page
    <2>4. \A i \in 1..L : page[i] = r + dir * i /\ page[i] \in 1..n
      <3> TAKE i \in 1..L
      <3>1. i + 1 \in 1..N /\ page[i] = rows[i + 1] /\ (i + 1) - 1 = i
        BY <2>3
      <3>2. rows[i + 1] = r + dir * ((i + 1) - 1) /\ rows[i + 1] \in 1..n
        BY <1>5, <3>1
      <3> QED BY <3>1, <3>2
    <2>5. L <= f => page[L] = IF dir = FWD THEN n ELSE 1
      <3>1. L <= f => N < f + 2
        BY <1>3, <1>5
      <3>2. L \in 1..L /\ L = N - 1
        BY <2>3
      <3> QED BY <1>5, <2>4, <3>1, <3>2
    <2> HIDE DEF L
    <2>6. L = Len(page) /\ L \in 1..(f + 1)
      BY <2>3
    <2>7. r = a.aCache[a.pos]
      BY DEF r
    <2>8. NewRows(page, n, dir, r, f)
      BY <2>4, <2>5, <2>6 DEF NewRows, EndOf
    <2>9. ~(b.begin = 1 /\ b.end = Ring) => PageAdded(b, a, n, dir, r)
      BY <1>3, <2>2, <2>7, <2>8, PageStored
    <2> QED BY <1>6, <1>8, <2>9 DEF r
  <1> QED BY <1>7, <1>8

(* A window of the first page in a direction, on its first record. *)
EndWindow(b, a, n, dir) ==
    /\ Arc(b, n, dir) /\ b.recno = StartOf(n, dir) /\ b.aCache[b.pos] = b.recno
    /\ b.deleted = FALSE /\ b.bof = FALSE /\ b.eof = FALSE
    /\ b.fBof = a.fBof /\ b.fEof = a.fEof /\ b.wasdel = a.wasdel
    /\ b.hot = a.hot /\ b.isInsert = a.isInsert
    /\ b.bofAt \in {0, 1, a.bofAt} /\ b.eofAt \in {0, n}

(* A page from the end of the table on, in an empty window. *)
LEMMA GoEndIs ==
    ASSUME NEW n \in 1..MaxRec, NEW a, Good(a, 1..n), NEW dir \in Dir,
           NEW b, b = GoEnd(a, 1..n, n, dir)
    PROVE  EndWindow(b, a, n, dir)
  <1> DEFINE r == IF dir = FWD THEN 1 ELSE n
             q == IF dir = FWD THEN 0 ELSE MaxRec + 1
             k == FetchSize + 1
             f == FetchSize
             page == RowsFrom(1..n, q, dir, k)
             L == Len(page)
             first == IF dir = FWD THEN 1 ELSE Ring
             e == EmptyWindow(a)
             w == Window(e, dir, f)
             near == IF dir = FWD THEN f ELSE Ring - f
             c == Store(e, dir, f, first, page)
             F == Stocked(a.aCache, first, dir, page)
  <1>1. /\ f \in 1..(Ring - 4) /\ f \in Nat /\ f \in Int /\ k \in Nat \ {0} /\ k > 1
        /\ n \in Int /\ n >= 1 /\ n <= MaxRec /\ MaxRec \in Int /\ r \in 1..n /\ q \in Int
        /\ FWD # BWD /\ first \in Slot /\ dir \in {1, -1}
    BY RingFacts DEF FWD, BWD, Dir
  <1>2. /\ page \in Seq(1..n) /\ L \in Nat \ {0} /\ L <= k
        /\ L < k => r + dir * (L - 1) = IF dir = FWD THEN n ELSE 1
        /\ \A i \in 1..L : page[i] = r + dir * (i - 1)
    <2>1. SameSide(n, dir, q, r)
      <3>1. CASE dir = FWD
        BY <1>1, <3>1 DEF FWD, SameSide
      <3>2. CASE dir = BWD
        BY <1>1, <3>2 DEF BWD, SameSide
      <3> QED BY <3>1, <3>2 DEF Dir
    <2> HIDE DEF r, q, k, page
    <2>2. page = RowsFrom(1..n, q, dir, k)
      BY DEF page
    <2>3. RowsAre(page, n, dir, r, k)
      BY <1>1, <2>1, <2>2, RowsOnward
    <2> QED BY <2>3 DEF RowsAre, EndOf
  <1> HIDE DEF page
  <1>3. page # <<>> /\ page[1] = r /\ page[1] \in 1..n
    <2>1. 1 \in 1..L
      BY <1>2
    <2>2. dir * (1 - 1) = 0
      BY <1>1
    <2> HIDE DEF r
    <2> QED BY <1>1, <1>2, <2>1, <2>2
  <1>4. b = AtEnd(c, dir)
    BY <1>3 DEF GoEnd, page
  <1>5. e = [a EXCEPT !.pos = 0, !.begin = 0, !.end = 0] /\ a \in Area
    BY DEF EmptyWindow, Good
  <1> HIDE DEF e
  <1>6. /\ w.aCache = a.aCache /\ w.pos = first /\ SameFlags(w, a)
        /\ Near(w, dir) = near /\ Far(w, dir) = first
        /\ w.bofAt \in {0, a.bofAt} /\ w.eofAt = 0
    <2>1. w = Moved(e, dir, f, FALSE)
      <3>1. e.begin = e.end
        BY <1>5 DEF Area
      <3> QED BY <3>1 DEF Window
    <2>2. e.pos = 0 /\ e.begin = 0 /\ e.end = 0 /\ e.bofAt = a.bofAt /\ e.aCache = a.aCache
          /\ SameFlags(e, a)
      BY <1>5 DEF Area, SameFlags
    <2> DEFINE begin == IF dir = FWD THEN first ELSE Fix(0 + dir * f)
               end == IF dir = FWD THEN Fix(0 + dir * f) ELSE first
    <2>3. w = [e EXCEPT !.begin = begin, !.end = end, !.eofAt = 0, !.bofAt = a.bofAt, !.pos = first]
      BY <1>5, <2>1, <2>2 DEF Moved, Area
    <2>4. Fix(0 + dir * f) = near
      <3>1. CASE dir = FWD
        <4>1. 0 + dir * f = f
          BY <1>1, <3>1 DEF FWD
        <4> QED BY <1>1, <3>1, <4>1, RingFacts DEF Fix
      <3>2. CASE dir = BWD
        <4>1. 0 + dir * f = -f
          BY <1>1, <3>2 DEF BWD
        <4> QED BY <1>1, <3>2, <4>1, RingFacts DEF Fix
      <3> QED BY <3>1, <3>2 DEF Dir
    <2> HIDE DEF w, first, near
    <2>5. /\ w.aCache = a.aCache /\ w.pos = first /\ SameFlags(w, a)
          /\ w.begin = begin /\ w.end = end /\ w.bofAt = a.bofAt /\ w.eofAt = 0
      BY <1>5, <2>3 DEF Area, SameFlags
    <2> QED BY <2>4, <2>5 DEF Near, Far
  <1>7. w \in Area
    <2>1. Rows(1..n, n)
      BY RingFacts DEF Rows
    <2>2. Good(e, 1..n)
      BY <2>1, WindowEmptied DEF e
    <2> QED BY <1>1, <2>1, <2>2, WindowGood DEF Good
  <1>8. c = StoreFrom(w, first, dir, f, first, page)
    <2>1. e.end = 0
      BY <1>5 DEF Area
    <2> HIDE DEF first
    <2> QED BY <1>6, <2>1 DEF Store, StoreIn
  <1> HIDE DEF w, c
  <1>9. F[first] = r
    <2>1. Distance(first, first, dir) = 0
      <3> HIDE DEF first
      <3> QED BY <1>1, Distances, RingFacts
    <2>2. 0 < L /\ 0 + 1 = 1
      BY <1>2
    <2> HIDE DEF first
    <2> QED BY <1>1, <1>3, <2>1, <2>2 DEF Stocked
  <1> HIDE DEF F, first
  <1>10. StoredAs(c, w, dir, f, first, page)
    <2>1. w.pos \in Slot /\ F = Stocked(w.aCache, first, dir, page)
      BY <1>1, <1>6 DEF F
    <2>2. F[w.pos] # Nil
      <3>1. r \in 0..(MaxRec + 1)
        BY <1>1
      <3> HIDE DEF r
      <3> QED BY <1>6, <1>9, <3>1, RingFacts
    <2>3. Len(page) \in Nat \ {0}
      BY <1>2
    <2> QED BY <1>1, <1>7, <1>8, <2>1, <2>2, <2>3, StoredFromIs
  <1> DEFINE t == IF L > f THEN near ELSE Fix(first + dir * (L - 1))
  <1>11. /\ c.aCache = F /\ c.pos = first /\ c.recno = F[first] /\ c.deleted = FALSE
         /\ SameFlags(c, a) /\ Far(c, dir) = first /\ Near(c, dir) = t
         /\ c.bofAt \in {0, 1, a.bofAt} /\ c.eofAt \in {0, n}
    <2>1. /\ c.aCache = F /\ c.pos = first /\ c.recno = F[first] /\ c.deleted = FALSE
          /\ SameFlags(c, a) /\ Far(c, dir) = first /\ Near(c, dir) = t
          /\ c.bofAt = IF L > f \/ dir = FWD THEN w.bofAt ELSE page[L]
          /\ c.eofAt = IF L > f \/ dir = BWD THEN w.eofAt ELSE page[L]
      BY <1>6, <1>10 DEF StoredAs, SameFlags, F
    <2>2. ~(L > f) => page[L] = IF dir = FWD THEN n ELSE 1
      <3>1. ~(L > f) => L < k
        BY <1>1, <1>2
      <3>2. L \in 1..L
        BY <1>2
      <3> HIDE DEF r, k, L
      <3> QED BY <1>2, <3>1, <3>2
    <2>3. CASE dir = FWD
      BY <1>1, <1>6, <2>1, <2>2, <2>3
    <2>4. CASE dir = BWD
      BY <1>1, <1>6, <2>1, <2>2, <2>4
    <2> QED BY <2>1, <2>3, <2>4 DEF Dir
  <1>12. t \in Slot /\ Distance(first, t, dir) <= Ring - 2 /\ Distance(first, t, dir) < L
         /\ 0 <= Distance(first, t, dir)
    <2>1. /\ L \in 1..(f + 1) /\ f \in 1..(Ring - 4) /\ Ring \in Int /\ Ring >= 5
      BY <1>1, <1>2, RingFacts
    <2>2. CASE dir = FWD
      <3>1. dir * (L - 1) = L - 1
        BY <2>1, <2>2 DEF FWD
      <3>2. t = (IF L > f THEN f ELSE L) /\ first = 1
        <4>1. first = 1 /\ near = f
          BY <2>2 DEF first
        <4> HIDE DEF L
        <4> QED BY <2>1, <3>1, <4>1 DEF Fix
      <3>3. t \in Slot /\ t \in 1..Ring
        <4> HIDE DEF L
        <4> QED BY <2>1, <3>2, RingFacts
      <3>4. Distance(first, t, FWD) = IF t >= first THEN t - first ELSE t - first + Ring
        <4> HIDE DEF t
        <4> QED BY <1>1, <3>3, DistanceIs
      <3> HIDE DEF t, L
      <3> QED BY <2>1, <2>2, <3>2, <3>3, <3>4
    <2>3. CASE dir = BWD
      <3>1. dir * (L - 1) = 1 - L
        BY <2>1, <2>3 DEF BWD
      <3>2. t = (IF L > f THEN Ring - f ELSE Ring + 1 - L) /\ first = Ring
        <4>1. first = Ring /\ near = Ring - f
          BY <1>1, <2>3 DEF first
        <4> HIDE DEF L
        <4> QED BY <2>1, <3>1, <4>1 DEF Fix
      <3>3. t \in Slot /\ t \in 1..Ring
        <4> HIDE DEF L
        <4> QED BY <2>1, <3>2, RingFacts
      <3>4. Distance(first, t, BWD) = IF t <= first THEN first - t ELSE first - t + Ring
        <4> HIDE DEF t
        <4> QED BY <1>1, <3>3, DistanceIs
      <3> HIDE DEF t, L
      <3> QED BY <2>1, <2>3, <3>2, <3>3, <3>4
    <2> QED BY <2>2, <2>3 DEF Dir
  <1> HIDE DEF t
  <1>13. ASSUME NEW s \in Slot, Distance(first, s, dir) <= Distance(first, t, dir)
         PROVE  F[s] = F[first] + dir * Distance(first, s, dir) /\ F[s] \in 1..n
    <2> DEFINE d == Distance(first, s, dir)
    <2>1. d \in 0..(Ring - 1) /\ Distance(first, t, dir) \in 0..(Ring - 1)
      <3>1. first \in Int /\ t \in Int /\ s \in Int
        BY <1>1, <1>12, RingFacts
      <3> QED BY <3>1, Distances
    <2>2. d < L /\ d \in Int
      BY <1>2, <1>13, <2>1, <1>12
    <2>3. F[s] = page[d + 1]
      BY <2>2 DEF F, Stocked
    <2>4. d + 1 \in 1..L /\ (d + 1) - 1 = d
      BY <1>2, <2>1, <2>2
    <2> HIDE DEF d
    <2>5. page[d + 1] = r + dir * ((d + 1) - 1) /\ page[d + 1] \in 1..n
      <3> HIDE DEF r
      <3> QED BY <1>2, <2>4
    <2>6. F[s] = F[first] + dir * d /\ F[s] \in 1..n
      <3> HIDE DEF r
      <3> QED BY <1>9, <2>3, <2>4, <2>5
    <2> QED BY <2>6 DEF d
  <1>14. /\ b.begin = c.begin /\ b.end = c.end /\ b.pos = c.pos /\ b.aCache = c.aCache
         /\ b.recno = c.recno /\ b.deleted = c.deleted /\ b.bof = FALSE /\ b.eof = FALSE
         /\ b.fBof = c.fBof /\ b.fEof = c.fEof /\ b.wasdel = c.wasdel
         /\ b.hot = c.hot /\ b.isInsert = c.isInsert
         /\ b.bofAt = (IF dir = FWD THEN c.recno ELSE c.bofAt)
         /\ b.eofAt = (IF dir = FWD THEN c.eofAt ELSE c.recno)
    <2>1. Rows(1..n, n) /\ Good(e, 1..n)
      <3>1. Rows(1..n, n)
        BY RingFacts DEF Rows
      <3> QED BY <3>1, WindowEmptied DEF e
    <2>2. Page(page, 1..n, dir, f)
      <3>1. L <= f => LastOf(1..n, dir, page[L])
        <4> SUFFICES ASSUME L <= f PROVE LastOf(1..n, dir, page[L])
          OBVIOUS
        <4>1. L < k /\ L \in 1..L
          BY <1>1, <1>2
        <4>2. page[L] = IF dir = FWD THEN n ELSE 1
          <5> HIDE DEF r, k, L
          <5> QED BY <1>2, <4>1
        <4> HIDE DEF L
        <4>3. CASE dir = FWD
          BY <1>1, <4>2, <4>3 DEF LastOf, FWD
        <4>4. CASE dir = BWD
          BY <1>1, <4>2, <4>4 DEF LastOf, BWD, FWD
        <4> QED BY <4>3, <4>4 DEF Dir
      <3> QED BY <1>2, <1>3, <3>1 DEF Page
    <2>3. c \in Area
      BY <1>1, <2>1, <2>2, Stored DEF c, Good
    <2> QED BY <1>4, <2>3 DEF AtEnd, Area
  <1>15. Distance(first, first, dir) = 0
    BY <1>1, Distances, RingFacts
  <1>16. Far(b, dir) = first /\ Near(b, dir) = t
    BY <1>11, <1>14 DEF Far, Near
  <1>17. F[first] = r /\ F[first] \in 1..n /\ F[t] \in 1..n
    <2>1. Distance(first, t, dir) <= Distance(first, t, dir)
      <3>1. Distance(first, t, dir) \in 0..(Ring - 1)
        BY <1>1, <1>12, Distances, RingFacts
      <3> QED BY <3>1, RingFacts
    <2> QED BY <1>1, <1>9, <1>12, <1>13, <2>1
  <1>18. Arc(b, n, dir)
    BY <1>1, <1>11, <1>12, <1>13, <1>14, <1>15, <1>16, <1>17 DEF Arc
  <1>19. r = StartOf(n, dir)
    BY DEF StartOf
  <1>20. b.recno = r /\ b.aCache[b.pos] = r
    BY <1>9, <1>11, <1>14
  <1>21. b.bofAt \in {0, 1, a.bofAt} /\ b.eofAt \in {0, n}
    <2>1. c.recno = IF dir = FWD THEN 1 ELSE n
      BY <1>9, <1>11
    <2>2. CASE dir = FWD
      BY <1>11, <1>14, <2>1, <2>2
    <2>3. CASE dir # FWD
      BY <1>11, <1>14, <2>1, <2>3
    <2> QED BY <2>2, <2>3
  <1> QED BY <1>11, <1>14, <1>18, <1>19, <1>20, <1>21 DEF SameFlags, EndWindow

-----------------------------------------------------------------------------
(* Where the operations go *)

SameWindow(b, a) ==
    b.begin = a.begin /\ b.end = a.end /\ b.pos = a.pos /\ b.aCache = a.aCache

LEMMA ArcSame ==
    ASSUME NEW a, NEW b, SameWindow(b, a), NEW n, NEW dir
    PROVE  Arc(b, n, dir) <=> Arc(a, n, dir)
  BY DEF SameWindow, Arc, Far, Near

LEMMA ArcHolds ==
    ASSUME NEW n \in Nat, NEW a, NEW dir \in Dir, Arc(a, n, dir), NEW s \in Slot,
           Distance(Far(a, dir), s, dir) <= Distance(Far(a, dir), Near(a, dir), dir)
    PROVE  a.aCache[s] \in 1..n
  <1> DEFINE o == Far(a, dir)
             t == Near(a, dir)
             x == Distance(o, s, dir)
             y == Distance(o, t, dir)
             c == a.aCache[o]
             e == a.aCache[s]
             h == a.aCache[t]
  <1>1. o \in Slot /\ t \in Slot /\ c \in 1..n /\ h \in 1..n
    BY DEF Arc
  <1>2. x \in Nat /\ y \in Nat /\ x <= y
    <2>1. o \in Int /\ s \in Int /\ t \in Int
      BY <1>1, RingFacts
    <2>2. x \in 0..(Ring - 1) /\ y \in 0..(Ring - 1)
      <3> HIDE DEF o, t
      <3> QED BY <2>1, Distances
    <2> QED BY <2>2, RingFacts
  <1>3. e = c + dir * x /\ h = c + dir * y
    BY <1>1, <1>2 DEF Arc
  <1> HIDE DEF o, t, x, y, c, e, h
  <1>4. dir * x = (IF dir = FWD THEN x ELSE -x)
    BY <1>2, Signed
  <1>5. dir * y = (IF dir = FWD THEN y ELSE -y)
    BY <1>2, Signed
  <1>6. e \in 1..n
    BY <1>1, <1>2, <1>3, <1>4, <1>5
  <1> QED BY <1>6 DEF e

(* A search past the current slot finds slot s, with the next record. *)
StepsTo(a, n, dir, s) ==
    /\ Search(a, dir, TRUE) = s /\ s \in Slot /\ s # 0
    /\ a.aCache[s] = a.aCache[a.pos] + dir /\ a.aCache[s] \in 1..n
    /\ Arc(SetCurrent(a, s), n, dir)

(* It does when the current slot is not the near edge. *)
LEMMA StepIs ==
    ASSUME NEW n \in 0..MaxRec, NEW a, a \in Area, NEW dir \in Dir, Arc(a, n, dir),
           a.pos # Near(a, dir), NEW s, s = Fix(a.pos + dir)
    PROVE  StepsTo(a, n, dir, s)
  <1> DEFINE o == Far(a, dir)
             t == Near(a, dir)
             p == a.pos
  <1>1. /\ Search(a, dir, TRUE) = s /\ s \in Slot
        /\ a.aCache[s] = a.aCache[a.pos] + dir
    BY SearchIs
  <1>2. /\ o \in Slot /\ t \in Slot /\ p \in Slot
        /\ Distance(o, p, dir) <= Distance(o, t, dir) /\ Distance(o, t, dir) <= Ring - 2
    BY DEF Arc
  <1>3. p # t
    OBVIOUS
  <1>4. Distance(o, p, dir) \in Nat /\ Distance(o, t, dir) \in Nat /\ Ring \in Nat
    <2>1. o \in Int /\ p \in Int /\ t \in Int
      BY <1>2, RingFacts
    <2>2. Distance(o, p, dir) \in 0..(Ring - 1) /\ Distance(o, t, dir) \in 0..(Ring - 1)
      <3> HIDE DEF o, t, p
      <3> QED BY <2>1, Distances
    <2> QED BY <2>2, RingFacts
  <1>5. Distance(o, s, dir) = Distance(o, p, dir) + 1
    <2>1. Distance(o, p, dir) <= Ring - 2
      <3> HIDE DEF o, t, p
      <3> QED BY <1>2, <1>4
    <2> QED BY <1>2, <2>1, StepOn
  <1>6. Distance(o, p, dir) # Distance(o, t, dir)
    <2> HIDE DEF o, t, p
    <2>1. o \in 1..Ring /\ p \in 1..Ring /\ t \in 1..Ring
      BY <1>2, RingFacts
    <2>2. /\ Distance(o, p, FWD) = IF p >= o THEN p - o ELSE p - o + Ring
          /\ Distance(o, p, BWD) = IF p <= o THEN o - p ELSE o - p + Ring
          /\ Distance(o, t, FWD) = IF t >= o THEN t - o ELSE t - o + Ring
          /\ Distance(o, t, BWD) = IF t <= o THEN o - t ELSE o - t + Ring
      BY <1>2, DistanceIs
    <2>3. CASE dir = FWD
      BY <1>3, <2>1, <2>2, <2>3, RingFacts
    <2>4. CASE dir = BWD
      BY <1>3, <2>1, <2>2, <2>4, RingFacts
    <2> QED BY <2>3, <2>4 DEF Dir
  <1>7. Distance(o, s, dir) <= Distance(o, t, dir)
    BY <1>2, <1>4, <1>5, <1>6
  <1>8. a.aCache[s] \in 1..n
    <2>1. n \in Nat
      BY RingFacts
    <2> QED BY <1>1, <1>7, <2>1, ArcHolds
  <1>9. Arc(SetCurrent(a, s), n, dir)
    <2> DEFINE b == SetCurrent(a, s)
    <2>1. b.begin = a.begin /\ b.end = a.end /\ b.pos = s /\ b.aCache = a.aCache
      BY DEF SetCurrent, Area
    <2> HIDE DEF b
    <2>2. Far(b, dir) = o /\ Near(b, dir) = t
      BY <2>1 DEF Far, Near
    <2>3. Arc(b, n, dir)
      BY <1>1, <1>7, <2>1, <2>2 DEF Arc
    <2> QED BY <2>3 DEF b
  <1>10. s # 0
    BY <1>1, RingFacts
  <1> QED BY <1>1, <1>8, <1>9, <1>10 DEF StepsTo

(* The window is one of the table, and the remembered ends are the ends. *)
Steady(a, n) ==
    /\ a.pos # 0 => Arc(a, n, FWD)
    /\ a.deleted = FALSE /\ a.bofAt \in {0, 1} /\ a.eofAt \in {0, n}

(* The area is on record r, at EOF. *)
Stands(a, n, r) == Steady(a, n) /\ a.pos # 0 /\ a.recno = r /\ a.aCache[a.pos] = r
Off(a, n) == Steady(a, n) /\ a.recno = n + 1

(* The area between two operations, with no edit pending. *)
Walk(a, n) ==
    /\ Good(a, 1..n)
    /\ a.wasdel => UseDeleteds
    /\ IF a.eof THEN Off(a, n) /\ a.fEof
       ELSE Stands(a, n, a.recno) /\ (a.fEof => a.recno = n)

LEMMA StandsOn ==
    ASSUME NEW n \in 1..MaxRec, NEW a, NEW r, Stands(a, n, r)
    PROVE  /\ Arc(a, n, FWD) /\ Arc(a, n, BWD) /\ r \in 1..n
           /\ a.pos \in Slot /\ a.aCache[a.pos] = r /\ a.recno = r /\ r # Nil
  <1>1. Arc(a, n, FWD) /\ n \in Nat /\ FWD \in Dir
    BY RingFacts DEF Stands, Steady, Dir
  <1>2. Arc(a, n, BWD)
    BY <1>1, ArcTurned
  <1>3. a.pos \in Slot /\ a.aCache[a.pos] \in 1..n
    <2>1. Distance(Far(a, FWD), a.pos, FWD) <= Distance(Far(a, FWD), Near(a, FWD), FWD) /\ a.pos \in Slot
      BY <1>1 DEF Arc
    <2> QED BY <1>1, <2>1, ArcHolds
  <1> QED BY <1>1, <1>2, <1>3, RingFacts DEF Stands

LEMMA SteadySame ==
    ASSUME NEW n, NEW a, Steady(a, n), NEW b, SameWindow(b, a), b.deleted = FALSE,
           b.bofAt \in {0, 1}, b.eofAt \in {0, n}
    PROVE  Steady(b, n)
  <1>1. a.pos = b.pos
    BY DEF SameWindow
  <1>2. Arc(b, n, FWD) <=> Arc(a, n, FWD)
    BY ArcSame
  <1> QED BY <1>1, <1>2 DEF Steady

LEMMA TurnedBack ==
    ASSUME NEW n \in 1..MaxRec, NEW a, NEW dir \in Dir, Arc(a, n, dir), a.deleted = FALSE,
           a.bofAt \in {0, 1}, a.eofAt \in {0, n}
    PROVE  Steady(a, n) /\ a.pos # 0
  <1>1. Arc(a, n, FWD)
    BY ArcTurned, RingFacts DEF Dir
  <1>2. a.pos # 0
    BY <1>1, RingFacts DEF Arc
  <1> QED BY <1>1, <1>2 DEF Steady

(* GO TO finds the record, or there is none. *)
LEMMA GoRecordIs ==
    ASSUME NEW n \in 1..MaxRec, NEW a, Walk(a, n), NEW r \in 0..(MaxRec + 1),
           NEW b, b = SyncFlags(GoRecord([a EXCEPT !.wasdel = FALSE], 1..n, n, r))
    PROVE  Walk(b, n) /\ IF r \in 1..n THEN ~b.eof /\ b.recno = r ELSE b.eof
  <1> DEFINE c == [a EXCEPT !.wasdel = FALSE]
             g == GoRecord(c, 1..n, n, r)
             cached == c.begin > 0 /\ c.bofAt > 0 /\ c.aCache[c.begin] = r
             T == 1..n
  <1>1. Good(b, T) /\ a \in Area /\ Good(a, T)
    <2>1. Rows(T, n)
      BY RingFacts DEF Rows
    <2> QED BY <2>1, RecordSynced DEF Walk, Good
  <1>11. Good(b, 1..n)
    BY <1>1
  <1>2. /\ c \in Area /\ SameWindow(c, a) /\ c.recno = a.recno /\ c.deleted = a.deleted
        /\ c.bofAt = a.bofAt /\ c.eofAt = a.eofAt /\ c.bof = a.bof /\ c.eof = a.eof
        /\ c.wasdel = FALSE /\ c.hot = a.hot /\ c.isInsert = a.isInsert /\ ~a.isInsert
    BY <1>1 DEF Area, SameWindow, Good
  <1>3. Steady(a, n) /\ n \in Int /\ n >= 1 /\ n <= MaxRec /\ MaxRec \in Int /\ T \in SUBSET Int
    BY RingFacts DEF Walk, Off, Stands
  <1>4. Steady(c, n)
    BY <1>2, <1>3, SteadySame DEF Steady
  <1> HIDE DEF c, g, T
  <1>5. b = [g EXCEPT !.fBof = g.bof, !.fEof = g.eof]
    BY DEF SyncFlags, c, g, T
  <1>6. CASE r = c.recno /\ ~c.isInsert /\ ~(c.bof /\ c.eof)
    <2>1. g = [c EXCEPT !.bof = FALSE]
      BY <1>6 DEF GoRecord, g, T
    <2>2. /\ SameWindow(b, c) /\ b.recno = c.recno /\ b.deleted = c.deleted
          /\ b.bofAt = c.bofAt /\ b.eofAt = c.eofAt /\ b.eof = c.eof /\ b.fEof = c.eof
          /\ b.wasdel = FALSE
      BY <1>2, <1>5, <2>1 DEF SameWindow, Area
    <2>3. Steady(b, n)
      BY <1>4, <2>2, SteadySame DEF Steady
    <2>4. CASE a.eof
      <3>1. a.recno = n + 1
        BY <2>4 DEF Walk, Off
      <3>2. b.recno = n + 1 /\ b.recno = r /\ r \notin 1..n
        BY <1>2, <1>3, <1>6, <2>2, <3>1
      <3>3. b.eof /\ b.fEof
        BY <1>2, <2>2, <2>4
      <3> QED BY <1>11, <2>2, <2>3, <3>2, <3>3 DEF Walk, Off
    <2>5. CASE ~a.eof
      <3>1. Stands(a, n, a.recno)
        BY <2>5 DEF Walk
      <3>2. a.recno \in 1..n
        BY <3>1, StandsOn
      <3>3. Stands(b, n, r)
        BY <1>2, <1>6, <2>2, <2>3, <3>1 DEF Stands, SameWindow
      <3> QED BY <1>11, <1>2, <1>6, <2>2, <2>5, <3>2, <3>3 DEF Walk, Stands
    <2> QED BY <2>4, <2>5
  <1>7. CASE ~(r = c.recno /\ ~c.isInsert /\ ~(c.bof /\ c.eof)) /\ r = 0
    <2>1. g = [CleanBuffer(c, n) EXCEPT !.bof = TRUE]
      BY <1>7 DEF GoRecord, g, T
    <2>2. /\ SameWindow(b, c) /\ b.recno = n + 1 /\ b.deleted = FALSE
          /\ b.bofAt = c.bofAt /\ b.eofAt = c.eofAt /\ b.eof = TRUE /\ b.fEof = TRUE
          /\ b.wasdel = FALSE
      BY <1>2, <1>5, <2>1 DEF SameWindow, Area, CleanBuffer
    <2>3. Steady(b, n)
      BY <1>4, <2>2, SteadySame DEF Steady
    <2> QED BY <1>11, <1>7, <2>2, <2>3 DEF Walk, Off
  <1>8. CASE ~(r = c.recno /\ ~c.isInsert /\ ~(c.bof /\ c.eof)) /\ r # 0 /\ cached
    <2>1. g = [SetCurrent(c, c.begin) EXCEPT !.bof = FALSE, !.eof = FALSE]
      BY <1>8 DEF GoRecord, g, T
    <2>2. c.pos # 0 /\ c.begin # 0
      BY <1>1, <1>2, <1>8 DEF Good, Shape, SameWindow, Area
    <2>3. Arc(c, n, FWD)
      BY <1>4, <2>2 DEF Steady
    <2>4. /\ b.begin = c.begin /\ b.end = c.end /\ b.aCache = c.aCache /\ b.pos = c.begin
          /\ b.recno = r /\ b.deleted = FALSE /\ b.bofAt = c.bofAt /\ b.eofAt = c.eofAt
          /\ b.eof = FALSE /\ b.fEof = FALSE /\ b.wasdel = FALSE
      <3>1. c.aCache[c.begin] = r
        BY <1>8 DEF cached
      <3>2. SetCurrent(c, c.begin) = [c EXCEPT !.pos = c.begin, !.recno = r, !.deleted = FALSE]
        BY <3>1 DEF SetCurrent
      <3>3. g = [c EXCEPT !.pos = c.begin, !.recno = r, !.deleted = FALSE,
                          !.bof = FALSE, !.eof = FALSE]
        BY <2>1, <3>2
      <3>4. b = [c EXCEPT !.pos = c.begin, !.recno = r, !.deleted = FALSE,
                          !.bof = FALSE, !.eof = FALSE, !.fBof = FALSE, !.fEof = FALSE]
        BY <1>2, <1>5, <3>3 DEF Area
      <3> QED BY <1>2, <3>4 DEF Area
    <2>5. Arc(b, n, FWD) /\ r \in 1..n
      <3> DEFINE o == c.begin
                 t == c.end
      <3>1. /\ o \in Slot /\ t \in Slot /\ c.aCache[o] \in 1..n /\ c.aCache[t] \in 1..n
            /\ Distance(o, t, FWD) <= Ring - 2
            /\ \A s \in Slot : Distance(o, s, FWD) <= Distance(o, t, FWD) =>
                  c.aCache[s] = c.aCache[o] + FWD * Distance(o, s, FWD)
        BY <2>3 DEF Arc, Far, Near
      <3>2. Distance(o, o, FWD) <= Distance(o, t, FWD)
        <4>1. o \in Int /\ t \in Int /\ FWD \in Dir
          BY <3>1, RingFacts DEF Dir
        <4>2. Distance(o, o, FWD) = 0 /\ Distance(o, t, FWD) \in 0..(Ring - 1)
          <5> HIDE DEF o, t
          <5> QED BY <4>1, Distances
        <4> QED BY <4>2, RingFacts
      <3> QED BY <1>8, <2>4, <3>1, <3>2 DEF Arc, Far, Near
    <2>6. Steady(b, n) /\ b.pos # 0
      BY <1>4, <2>2, <2>4, <2>5 DEF Steady
    <2>7. b.aCache[b.pos] = r
      BY <1>8, <2>4
    <2> QED BY <1>11, <2>4, <2>5, <2>6, <2>7 DEF Walk, Stands
  <1>9. CASE ~(r = c.recno /\ ~c.isInsert /\ ~(c.bof /\ c.eof)) /\ r # 0 /\ ~cached /\ r \in T
    <2>1. g = [c EXCEPT !.pos = 1, !.begin = 1, !.end = 1, !.aCache[1] = r,
                        !.recno = r, !.deleted = FALSE, !.bof = FALSE, !.eof = FALSE]
      BY <1>9 DEF GoRecord, g, T
    <2>2. /\ b.begin = 1 /\ b.end = 1 /\ b.pos = 1 /\ b.aCache = [c.aCache EXCEPT ![1] = r]
          /\ b.recno = r /\ b.deleted = FALSE /\ b.bofAt = c.bofAt /\ b.eofAt = c.eofAt
          /\ b.eof = FALSE /\ b.fEof = FALSE /\ b.wasdel = FALSE
      BY <1>2, <1>5, <2>1 DEF Area
    <2>3. 1 \in Slot /\ b.aCache[1] = r /\ r \in 1..n
      <3>1. 1 \in Slot
        BY RingFacts
      <3>2. c.aCache \in [Slot -> 0..MaxRec \cup {Nil}]
        BY <1>2 DEF Area
      <3> QED BY <1>9, <2>2, <3>1, <3>2 DEF T
    <2>4. Distance(1, 1, FWD) = 0 /\ 0 <= Ring - 2 /\ r + FWD * 0 = r /\ 0 <= 0
      BY <2>3, Distances, RingFacts DEF Dir, FWD
    <2>5. \A s \in Slot : Distance(1, s, FWD) <= 0 => s = 1
      <3> TAKE s \in Slot
      <3>1. Distance(1, s, FWD) = IF s >= 1 THEN s - 1 ELSE s - 1 + Ring
        BY <2>3, DistanceIs
      <3>2. s \in 1..Ring
        BY RingFacts
      <3> QED BY <3>1, <3>2
    <2>6. Arc(b, n, FWD)
      <3>1. Far(b, FWD) = 1 /\ Near(b, FWD) = 1
        BY <2>2 DEF Far, Near
      <3>2. \A s \in Slot : Distance(1, s, FWD) <= Distance(1, 1, FWD) =>
                b.aCache[s] = b.aCache[1] + FWD * Distance(1, s, FWD)
        BY <2>3, <2>4, <2>5
      <3> HIDE <1>5
      <3> QED BY <2>2, <2>3, <2>4, <3>1, <3>2 DEF Arc
    <2>7. Steady(b, n) /\ b.pos # 0
      BY <1>4, <2>2, <2>6 DEF Steady
    <2> QED BY <1>11, <2>2, <2>3, <2>7 DEF Walk, Stands
  <1>10. CASE ~(r = c.recno /\ ~c.isInsert /\ ~(c.bof /\ c.eof)) /\ r # 0 /\ ~cached /\ r \notin T
    <2>1. g = [CleanBuffer(EmptyWindow(c), n) EXCEPT !.bof = TRUE]
      BY <1>10 DEF GoRecord, g, T
    <2>2. /\ b.pos = 0 /\ b.recno = n + 1 /\ b.deleted = FALSE
          /\ b.bofAt = c.bofAt /\ b.eofAt = c.eofAt /\ b.eof = TRUE /\ b.fEof = TRUE
          /\ b.wasdel = FALSE
      BY <1>2, <1>5, <2>1 DEF Area, CleanBuffer, EmptyWindow
    <2>3. Steady(b, n)
      BY <1>4, <2>2 DEF Steady
    <2> QED BY <1>11, <1>10, <2>2, <2>3 DEF Walk, Off, T
  <1> QED BY <1>6, <1>7, <1>8, <1>9, <1>10

(* GO TOP and GO BOTTOM go to the first and the last record. *)
LEMMA GoEndSyncedIs ==
    ASSUME NEW n \in 1..MaxRec, NEW a, Good(a, 1..n), a.bofAt \in {0, 1},
           NEW dir \in Dir,
           NEW b, b = SyncFlags(GoEnd([a EXCEPT !.wasdel = FALSE], 1..n, n, dir))
    PROVE  Walk(b, n) /\ ~b.eof /\ b.recno = StartOf(n, dir)
  <1> DEFINE c == [a EXCEPT !.wasdel = FALSE]
             g == GoEnd(c, 1..n, n, dir)
             T == 1..n
  <1>0. Good(a, T) /\ a.bofAt \in {0, 1}
    OBVIOUS
  <1>1. Rows(T, n)
    BY RingFacts DEF Rows
  <1>2. Good(b, T)
    BY <1>0, <1>1, EndSynced
  <1>3. Good(c, T) /\ c.bofAt = a.bofAt /\ c.wasdel = FALSE
    <2>1. a \in Area /\ c = [a EXCEPT !.wasdel = FALSE]
      BY <1>0 DEF Good
    <2> HIDE DEF c, T
    <2>2. Good(c, T)
      BY <1>0, <2>1, Flags
    <2> QED BY <2>1, <2>2 DEF Area
  <1>4. /\ Arc(g, n, dir) /\ g.recno = StartOf(n, dir) /\ g.aCache[g.pos] = g.recno
        /\ g.deleted = FALSE /\ g.bof = FALSE /\ g.eof = FALSE /\ g.wasdel = FALSE
        /\ g.bofAt \in {0, 1, c.bofAt} /\ g.eofAt \in {0, n}
    <2> HIDE DEF c, g
    <2>1. EndWindow(g, c, n, dir)
      <3>1. g = GoEnd(c, 1..n, n, dir) /\ Good(c, 1..n)
        BY <1>3 DEF g
      <3> QED BY <3>1, GoEndIs
    <2> QED BY <1>3, <2>1 DEF EndWindow
  <1>5. g \in Area
    BY <1>1, <1>3, EndReached DEF Good
  <1>6. b = [g EXCEPT !.fBof = g.bof, !.fEof = g.eof]
    BY DEF SyncFlags
  <1> HIDE DEF g, c
  <1>7. /\ SameWindow(b, g) /\ b.recno = g.recno /\ b.deleted = FALSE /\ b.wasdel = FALSE
        /\ b.bofAt = g.bofAt /\ b.eofAt = g.eofAt /\ b.eof = FALSE /\ b.fEof = FALSE
    BY <1>4, <1>5, <1>6 DEF SameWindow, Area
  <1>8. Steady(g, n) /\ g.pos # 0
    BY <1>0, <1>3, <1>4, TurnedBack
  <1>9. Steady(b, n)
    BY <1>7, <1>8, SteadySame DEF Steady
  <1>10. Stands(b, n, b.recno)
    BY <1>4, <1>7, <1>8, <1>9 DEF Stands, SameWindow
  <1> QED BY <1>2, <1>4, <1>7, <1>10 DEF Walk

LEMMA GoesIs ==
    ASSUME NEW n \in 1..MaxRec, NEW a, Walk(a, n)
    PROVE  /\ Walk(GoTopOf(a, 1..n, n), n) /\ ~GoTopOf(a, 1..n, n).eof
           /\ GoTopOf(a, 1..n, n).recno = 1
           /\ Walk(GoBottomOf(a, 1..n, n), n) /\ ~GoBottomOf(a, 1..n, n).eof
           /\ GoBottomOf(a, 1..n, n).recno = n
  <1> DEFINE t == GoTopOf(a, 1..n, n)
             b == GoBottomOf(a, 1..n, n)
  <1>1. a \in Area /\ Good(a, 1..n) /\ a.bofAt \in {0, 1} /\ a.eofAt \in {0, n} /\ 1 \in 1..n /\ n \in 1..n /\ 1..n \subseteq 0..(MaxRec + 1)
    BY RingFacts DEF Walk, Off, Stands, Steady, Good
  <1>2. /\ [a EXCEPT !.wasdel = FALSE].bofAt = a.bofAt
        /\ [a EXCEPT !.wasdel = FALSE].eofAt = a.eofAt
    BY <1>1 DEF Area
  <1>3. Walk(t, n) /\ ~t.eof /\ t.recno = 1
    <2>1. CASE a.bofAt # 0
      <3>1. t = SyncFlags(GoRecord([a EXCEPT !.wasdel = FALSE], 1..n, n, 1))
        BY <1>1, <1>2, <2>1 DEF GoTopOf
      <3> QED BY <1>1, <3>1, GoRecordIs
    <2>2. CASE a.bofAt = 0
      <3>1. t = SyncFlags(GoEnd([a EXCEPT !.wasdel = FALSE], 1..n, n, FWD))
        BY <2>2 DEF GoTopOf
      <3>2. StartOf(n, FWD) = 1 /\ FWD \in Dir
        BY DEF StartOf, FWD, Dir
      <3> QED BY <1>1, <3>1, <3>2, GoEndSyncedIs
    <2> QED BY <2>1, <2>2
  <1>4. Walk(b, n) /\ ~b.eof /\ b.recno = n
    <2>1. CASE a.eofAt # 0
      <3>1. b = SyncFlags(GoRecord([a EXCEPT !.wasdel = FALSE], 1..n, n, n))
        BY <1>1, <1>2, <2>1 DEF GoBottomOf
      <3> QED BY <1>1, <3>1, GoRecordIs
    <2>2. CASE a.eofAt = 0
      <3>1. b = SyncFlags(GoEnd([a EXCEPT !.wasdel = FALSE], 1..n, n, BWD))
        BY <2>2 DEF GoBottomOf
      <3>2. StartOf(n, BWD) = n /\ BWD \in Dir
        BY DEF StartOf, FWD, BWD, Dir
      <3> QED BY <1>1, <3>1, <3>2, GoEndSyncedIs
    <2> QED BY <2>1, <2>2
  <1> QED BY <1>3, <1>4

-----------------------------------------------------------------------------
(* SKIP *)

SameRest(b, a) ==
    /\ SameWindow(b, a) /\ b.recno = a.recno /\ b.deleted = a.deleted
    /\ b.bofAt = a.bofAt /\ b.eofAt = a.eofAt

LEMMA ConcludedIs ==
    ASSUME NEW c \in Area, NEW dir \in Dir, NEW b, b = Concluded(c, dir)
    PROVE  /\ SameRest(b, c) /\ b.wasdel = FALSE
           /\ dir = FWD => b.eof = c.fEof /\ b.fEof = c.fEof
           /\ dir = BWD => b.eof = FALSE /\ b.fEof = FALSE
  <1>1. CASE dir = FWD
    <2> DEFINE d == [c EXCEPT !.fBof = FALSE]
    <2>1. b = [d EXCEPT !.bof = d.fBof, !.eof = d.fEof, !.wasdel = FALSE]
      BY <1>1 DEF Concluded
    <2>2. FWD # BWD
      BY DEF FWD, BWD
    <2> QED BY <1>1, <2>1, <2>2 DEF SameRest, SameWindow, Area
  <1>2. CASE dir = BWD
    <2> DEFINE d == [c EXCEPT !.fEof = FALSE]
    <2>2. FWD # BWD
      BY DEF FWD, BWD
    <2>1. b = [d EXCEPT !.bof = d.fBof, !.eof = d.fEof, !.wasdel = FALSE]
      BY <1>2, <2>2 DEF Concluded
    <2> QED BY <1>2, <2>1, <2>2 DEF SameRest, SameWindow, Area
  <1> QED BY <1>1, <1>2 DEF Dir

LEMMA StandsSame ==
    ASSUME NEW n, NEW r, NEW a, NEW b, SameRest(b, a), Stands(a, n, r)
    PROVE  Stands(b, n, r)
  <1>1. /\ SameWindow(b, a) /\ b.recno = r /\ b.deleted = FALSE
        /\ b.bofAt \in {0, 1} /\ b.eofAt \in {0, n} /\ Steady(a, n)
    BY DEF SameRest, Stands, Steady
  <1>2. Steady(b, n)
    BY <1>1, SteadySame
  <1> QED BY <1>1, <1>2 DEF Stands, SameWindow

LEMMA OffSame ==
    ASSUME NEW n, NEW a, NEW b, SameRest(b, a), Off(a, n)
    PROVE  Off(b, n)
  <1>1. /\ SameWindow(b, a) /\ b.recno = n + 1 /\ b.deleted = FALSE
        /\ b.bofAt \in {0, 1} /\ b.eofAt \in {0, n} /\ Steady(a, n)
    BY DEF SameRest, Off, Steady
  <1>2. Steady(b, n)
    BY <1>1, SteadySame
  <1> QED BY <1>1, <1>2 DEF Off

(* What a SKIP on record r of n comes to, before the flags are concluded. *)
Onward(c, n, r) ==
    IF r = n THEN Off(c, n) /\ c.fEof ELSE Stands(c, n, r + 1) /\ ~c.fEof

(* The record the search ahead finds becomes current. *)
LEMMA SteppedIs ==
    ASSUME NEW n \in 1..MaxRec, NEW a \in Area, NEW r, Stands(a, n, r), NEW dir \in Dir,
           a.pos # Near(a, dir)
    PROVE  /\ Search(a, dir, TRUE) # 0
           /\ Stands(SetCurrent(a, Search(a, dir, TRUE)), n, r + dir) /\ r + dir \in 1..n
           /\ SetCurrent(a, Search(a, dir, TRUE)).fEof = a.fEof
           /\ SetCurrent(a, Search(a, dir, TRUE)) \in Area
  <1> DEFINE s == Fix(a.pos + dir)
             b == SetCurrent(a, s)
  <1>1. Arc(a, n, dir) /\ a.aCache[a.pos] = r /\ n \in 0..MaxRec
    BY StandsOn, RingFacts DEF Dir
  <1>2. /\ Search(a, dir, TRUE) = s /\ s \in Slot /\ s # 0
        /\ a.aCache[s] = r + dir /\ a.aCache[s] \in 1..n
        /\ Arc(b, n, dir)
    <2>1. s = Fix(a.pos + dir)
      OBVIOUS
    <2> HIDE DEF s
    <2>2. StepsTo(a, n, dir, s)
      BY <1>1, <2>1, StepIs
    <2> QED BY <1>1, <2>2 DEF StepsTo
  <1> HIDE DEF s
  <1>3. /\ b.deleted = FALSE /\ b.bofAt = a.bofAt /\ b.eofAt = a.eofAt /\ b.recno = r + dir
        /\ b.aCache = a.aCache /\ b.pos = s /\ b.fEof = a.fEof
    BY <1>2 DEF SetCurrent, Area
  <1>4. b \in Area
    <2>1. /\ a.aCache[s] \in 0..(MaxRec + 1) /\ s \in 0..Ring
      BY <1>2, RingFacts
    <2> QED BY <2>1 DEF SetCurrent, Area
  <1> HIDE DEF b
  <1>5. Steady(b, n) /\ b.pos # 0
    <2>1. b.bofAt \in {0, 1} /\ b.eofAt \in {0, n}
      BY <1>3 DEF Stands, Steady
    <2> QED BY <1>2, <1>3, <2>1, TurnedBack
  <1>6. Stands(b, n, r + dir)
    BY <1>2, <1>3, <1>5 DEF Stands
  <1> QED BY <1>2, <1>3, <1>4, <1>6 DEF b

LEMMA NoneAhead ==
    ASSUME NEW n \in 1..MaxRec, NEW a, NEW dir \in Dir, NEW r, Stands(a, n, r),
           a.pos = Near(a, dir)
    PROVE  Search(a, dir, TRUE) = 0
  <1>1. Arc(a, n, dir) /\ n \in 0..MaxRec
    BY StandsOn, RingFacts DEF Dir
  <1> QED BY <1>1, SearchIs

(* A page that is read past the edge of the window brings the next record. *)
LEMMA PageBringsNext ==
    ASSUME NEW n \in 1..MaxRec, NEW a, Walk(a, n), ~a.eof, NEW dir \in Dir,
           a.pos = Near(a, dir), a.recno # EndOf(n, dir), NEW f \in PageSizes,
           NEW p, p = ReadPage(a, 1..n, n, dir, f), ~(p.begin = 1 /\ p.end = Ring)
    PROVE  /\ p \in Area /\ Stands(p, n, a.recno) /\ p.pos # Near(p, dir)
           /\ p.fEof = a.fEof
  <1>1. /\ Good(a, 1..n) /\ Stands(a, n, a.recno) /\ ~(a.wasdel /\ ~UseDeleteds)
    BY DEF Walk
  <1>2. Arc(a, n, dir) /\ a.recno = a.aCache[a.pos]
    BY <1>1, StandsOn DEF Dir
  <1>3. PageAdded(p, a, n, dir, a.recno)
    BY <1>1, <1>2, ReadPageIs
  <1>4. p \in Area
    <2>1. Rows(1..n, n)
      BY RingFacts DEF Rows
    <2> QED BY <1>1, <2>1, PageReadGood DEF Good
  <1>5. p.bofAt \in {0, 1} /\ p.eofAt \in {0, n}
    BY <1>1, <1>3 DEF PageAdded, Stands, Steady
  <1>6. Steady(p, n) /\ p.pos # 0
    BY <1>3, <1>5, TurnedBack DEF PageAdded
  <1> QED BY <1>3, <1>4, <1>6 DEF PageAdded, Stands, SameFlags

LEMMA SkipRawForwardIs ==
    ASSUME NEW n \in 1..MaxRec, NEW a, Walk(a, n), ~a.eof, NEW f \in PageSizes,
           NEW c, c = SkipRawForward(a, 1..n, n, f), ~(c.begin = 1 /\ c.end = Ring)
    PROVE  Onward(c, n, a.recno)
  <1> DEFINE r == a.recno
             s == Search(a, FWD, TRUE)
             p == ReadPage(a, 1..n, n, FWD, f)
  <1>1. /\ Good(a, 1..n) /\ a \in Area /\ Stands(a, n, r) /\ (a.fEof => r = n)
        /\ ~(a.wasdel /\ ~UseDeleteds) /\ FWD \in Dir /\ FWD = 1
    BY DEF Walk, Good, Dir, FWD
  <1>2. /\ r \in 1..n /\ Arc(a, n, FWD) /\ a.recno = a.aCache[a.pos] /\ a.pos # 0 /\ a.eofAt \in {0, n}
        /\ a.bofAt \in {0, 1} /\ n \in Nat /\ r # 0 /\ Steady(a, n)
    <2>1. r \in 1..n /\ Arc(a, n, FWD) /\ r = a.aCache[a.pos]
      BY <1>1, StandsOn
    <2>2. a.pos # 0 /\ a.eofAt \in {0, n} /\ a.bofAt \in {0, 1} /\ Steady(a, n)
      BY <1>1 DEF Stands, Steady
    <2> QED BY <2>1, <2>2, RingFacts
  <1>3. CASE a.eofAt = r
    <2>1. r = n
      BY <1>2, <1>3
    <2>2. c = RaiseEof(a, n)
      BY <1>3 DEF SkipRawForward
    <2>3. SameWindow(c, a) /\ c.deleted = FALSE /\ c.bofAt = a.bofAt /\ c.eofAt = a.eofAt
          /\ c.recno = n + 1 /\ c.fEof = TRUE
      BY <1>1, <2>2 DEF RaiseEof, CleanBuffer, SameWindow, Area
    <2>4. Steady(c, n)
      BY <1>2, <2>3, SteadySame
    <2> QED BY <2>1, <2>3, <2>4 DEF Onward, Off
  <1>4. CASE a.eofAt # r /\ a.pos # Near(a, FWD)
    <2>1. s # 0 /\ Stands(SetCurrent(a, s), n, r + 1) /\ r + 1 \in 1..n
          /\ SetCurrent(a, s).fEof = a.fEof /\ SetCurrent(a, s) \in Area
      BY <1>1, <1>4, SteppedIs
    <2>2. c = [SetCurrent(a, s) EXCEPT !.fBof = FALSE]
      BY <1>4, <2>1 DEF SkipRawForward, ForwardTo
    <2>3. SameRest(c, SetCurrent(a, s)) /\ c.fEof = a.fEof
      BY <2>1, <2>2 DEF Area, SameRest, SameWindow
    <2>4. r # n
      BY <1>2, <2>1
    <2>5. Stands(c, n, r + 1)
      BY <2>1, <2>3, StandsSame
    <2> QED BY <1>1, <2>3, <2>4, <2>5 DEF Onward
  <1>5. CASE a.eofAt # r /\ a.pos = Near(a, FWD)
    <2>1. s = 0
      BY <1>1, <1>5, NoneAhead
    <2>2. c = ForwardInPage(p, n, TRUE)
      BY <1>2, <1>5, <2>1 DEF SkipRawForward
    <2> DEFINE u == Search(p, FWD, TRUE)
    <2>3. CASE r = n
      <3>1. p = CleanBuffer([a EXCEPT !.eofAt = a.recno], n)
        <4>1. a.recno = EndOf(n, FWD)
          BY <2>3 DEF EndOf
        <4> QED BY <1>1, <1>2, <1>5, <4>1, ReadPageIs
      <3>2. /\ SameWindow(p, a) /\ p.deleted = FALSE /\ p.bofAt = a.bofAt /\ p.eofAt = n
            /\ p.recno = n + 1 /\ p \in Area
        <4>1. n + 1 \in 0..(MaxRec + 1) /\ n \in 0..(MaxRec + 1)
          BY RingFacts
        <4>2. a.recno = n /\ a \in Area
          BY <1>1, <1>2, <2>3
        <4>3. p = [a EXCEPT !.eofAt = n, !.recno = n + 1, !.eof = TRUE, !.deleted = FALSE]
          BY <3>1, <4>2 DEF CleanBuffer
        <4> HIDE DEF p
        <4> QED BY <4>1, <4>2, <4>3 DEF SameWindow, Area
      <3> HIDE DEF p
      <3>3. u = 0
        <4>1. Arc(p, n, FWD) /\ p.pos = Near(p, FWD) /\ n \in 0..MaxRec
          BY <1>2, <1>5, <3>2, ArcSame, RingFacts DEF SameWindow, Near
        <4> QED BY <1>1, <4>1, SearchIs
      <3>4. c = RaiseEof(p, n)
        BY <2>2, <3>3 DEF ForwardInPage
      <3>5. /\ SameWindow(c, a) /\ c.deleted = FALSE /\ c.bofAt = a.bofAt /\ c.eofAt = n
            /\ c.recno = n + 1 /\ c.fEof = TRUE
        BY <3>2, <3>4 DEF RaiseEof, CleanBuffer, SameWindow, Area
      <3>6. Steady(c, n)
        BY <1>2, <3>5, SteadySame
      <3> QED BY <2>3, <3>5, <3>6 DEF Onward, Off
    <2>4. CASE r # n
      <3>1. ForwardInPage(p, n, TRUE) = IF u # 0 THEN ForwardTo(p, u) ELSE RaiseEof(p, n)
        BY DEF ForwardInPage
      <3>2. p \in Area
        <4>1. Rows(1..n, n)
          BY RingFacts DEF Rows
        <4> QED BY <1>1, <4>1, PageReadGood DEF Good
      <3> HIDE DEF p, u
      <3>3. c.begin = p.begin /\ c.end = p.end
        <4>1. /\ ForwardTo(p, u).begin = p.begin /\ ForwardTo(p, u).end = p.end
              /\ RaiseEof(p, n).begin = p.begin /\ RaiseEof(p, n).end = p.end
          BY <3>2 DEF ForwardTo, SetCurrent, RaiseEof, CleanBuffer, Area
        <4> QED BY <2>2, <3>1, <4>1
      <3>4. ~(p.begin = 1 /\ p.end = Ring)
        BY <3>3
      <3>5. Stands(p, n, r) /\ p.pos # Near(p, FWD) /\ p.fEof = a.fEof
        <4>1. a.recno # EndOf(n, FWD) /\ a.pos = Near(a, FWD)
          BY <1>5, <2>4 DEF EndOf
        <4>2. p = ReadPage(a, 1..n, n, FWD, f)
          BY DEF p
        <4> QED BY <1>1, <3>4, <4>1, <4>2, PageBringsNext
      <3>6. u # 0 /\ Stands(SetCurrent(p, u), n, r + 1)
            /\ SetCurrent(p, u).fEof = p.fEof /\ SetCurrent(p, u) \in Area
        BY <1>1, <3>2, <3>5, SteppedIs DEF u
      <3>7. c = [SetCurrent(p, u) EXCEPT !.fBof = FALSE]
        BY <2>2, <3>1, <3>6 DEF ForwardTo
      <3>8. SameRest(c, SetCurrent(p, u)) /\ c.fEof = a.fEof
        BY <3>5, <3>6, <3>7 DEF Area, SameRest, SameWindow
      <3>9. Stands(c, n, r + 1)
        BY <3>6, <3>8, StandsSame
      <3> QED BY <1>1, <2>4, <3>8, <3>9 DEF Onward
    <2> QED BY <2>3, <2>4
  <1> QED BY <1>3, <1>4, <1>5

LEMMA SkipForwardIs ==
    ASSUME NEW n \in 1..MaxRec, NEW a, Walk(a, n), NEW f \in PageSizes,
           NEW b, b = SkipOf(a, 1..n, n, FWD, f), ~(b.begin = 1 /\ b.end = Ring)
    PROVE  /\ Walk(b, n)
           /\ IF a.eof \/ a.recno = n THEN b.eof ELSE ~b.eof /\ b.recno = a.recno + 1
  <1> DEFINE c == SkipRaw(a, 1..n, n, FWD, f)
  <1>1. Good(a, 1..n) /\ a \in Area /\ FWD \in Dir /\ FWD # BWD /\ Rows(1..n, n) /\ n \in Nat
    BY RingFacts DEF Walk, Good, Dir, Rows, FWD, BWD
  <1>2. Good(b, 1..n)
    BY <1>1, SkipGood
  <1>3. CASE a.eof
    <2>1. Off(a, n) /\ a.fEof
      BY <1>3 DEF Walk
    <2>2. c = a \/ c = SyncFlags(a)
      <3>1. CASE a.bof
        BY <1>1, <1>3, <3>1 DEF SkipRaw
      <3>2. CASE ~a.bof
        BY <1>3, <3>2 DEF SkipRaw, SkipRawForward
      <3> QED BY <3>1, <3>2
    <2>3. SameRest(c, a) /\ c.fEof /\ c \in Area
      <3>1. SameRest(a, a) /\ SameRest(SyncFlags(a), a) /\ SyncFlags(a).fEof = a.eof /\ SyncFlags(a) \in Area
        BY <1>1 DEF SyncFlags, SameRest, SameWindow, Area
      <3> HIDE DEF c
      <3> QED BY <1>1, <1>3, <2>1, <2>2, <3>1
    <2>4. b = Concluded(c, FWD)
      BY DEF SkipOf
    <2> HIDE DEF c
    <2>5. SameRest(b, c) /\ b.wasdel = FALSE /\ b.eof = c.fEof /\ b.fEof = c.fEof
      BY <1>1, <2>3, <2>4, ConcludedIs
    <2>6. Off(b, n)
      <3>1. Off(c, n)
        BY <2>1, <2>3, OffSame
      <3> QED BY <2>5, <3>1, OffSame
    <2> QED BY <1>2, <1>3, <2>3, <2>5, <2>6 DEF Walk
  <1>4. CASE ~a.eof
    <2>1. c = SkipRawForward(a, 1..n, n, f)
      BY <1>4 DEF SkipRaw
    <2>2. b = Concluded(c, FWD)
      BY DEF SkipOf
    <2> HIDE DEF c
    <2>3. c \in Area
      BY <1>1, <2>1, ForwardGood DEF Good
    <2>4. SameRest(b, c) /\ b.wasdel = FALSE /\ b.eof = c.fEof /\ b.fEof = c.fEof
      BY <1>1, <2>2, <2>3, ConcludedIs
    <2>5. ~(c.begin = 1 /\ c.end = Ring)
      BY <2>4 DEF SameRest, SameWindow
    <2>6. Onward(c, n, a.recno)
      BY <1>4, <2>1, <2>5, SkipRawForwardIs
    <2>7. CASE a.recno = n
      <3>1. Off(b, n) /\ c.fEof
        BY <2>4, <2>6, <2>7, OffSame DEF Onward
      <3> QED BY <1>2, <2>4, <2>7, <3>1 DEF Walk
    <2>8. CASE a.recno # n
      <3>1. Stands(b, n, a.recno + 1) /\ ~c.fEof
        BY <2>4, <2>6, <2>8, StandsSame DEF Onward
      <3>2. b.recno = a.recno + 1
        BY <3>1 DEF Stands
      <3> QED BY <1>2, <1>4, <2>4, <2>8, <3>1, <3>2 DEF Walk
    <2> QED BY <2>7, <2>8
  <1> QED BY <1>3, <1>4

LEMMA SkipRawBackwardIs ==
    ASSUME NEW n \in 1..MaxRec, NEW a, Walk(a, n), ~(a.bof /\ a.eof), NEW f \in PageSizes,
           NEW c, c = SkipRawBackward(a, 1..n, n, f), ~(c.begin = 1 /\ c.end = Ring)
    PROVE  Stands(c, n, IF a.eof THEN n ELSE IF a.bof \/ a.recno = 1 THEN a.recno ELSE a.recno - 1)
  <1> DEFINE r == a.recno
             s == Search(a, BWD, TRUE)
             p == ReadPage(a, 1..n, n, BWD, f)
  <1>1. /\ Good(a, 1..n) /\ a \in Area /\ ~(a.wasdel /\ ~UseDeleteds)
        /\ BWD \in Dir /\ BWD = -1 /\ BWD # FWD /\ n \in Nat /\ n >= 1 /\ n <= MaxRec /\ Rows(1..n, n)
    BY RingFacts DEF Walk, Good, Dir, FWD, BWD, Rows
  <1>2. CASE a.bof
    <2>1. c = a /\ ~a.eof
      BY <1>2 DEF SkipRawBackward
    <2> QED BY <1>2, <2>1 DEF Walk
  <1>3. CASE ~a.bof /\ a.eof
    <2>1. Off(a, n)
      BY <1>3 DEF Walk
    <2>2. a.bofAt # a.recno /\ a.eofAt # a.recno
      BY <1>1, <2>1 DEF Off, Steady
    <2>3. c = GoBottomOf(a, 1..n, n)
      BY <1>3, <2>2 DEF SkipRawBackward
    <2>4. Walk(c, n) /\ ~c.eof /\ c.recno = n
      BY <2>3, GoesIs
    <2> QED BY <1>3, <2>4 DEF Walk
  <1>4. CASE ~a.bof /\ ~a.eof
    <2>1. Stands(a, n, r)
      BY <1>4 DEF Walk
    <2>2. r \in 1..n /\ Arc(a, n, BWD) /\ r = a.aCache[a.pos]
      BY <2>1, StandsOn
    <2>3. a.pos # 0 /\ a.eofAt \in {0, n} /\ a.bofAt \in {0, 1} /\ Steady(a, n)
      BY <2>1 DEF Stands, Steady
    <2>4. ASSUME NEW x \in Area, Stands(x, n, 1)
          PROVE  Stands(RaiseBof(x), n, 1) /\ RaiseBof(x).begin = x.begin /\ RaiseBof(x).end = x.end
      <3>1. SameRest(RaiseBof(x), x)
        BY DEF RaiseBof, SameRest, SameWindow, Area
      <3> QED BY <2>4, <3>1, StandsSame DEF SameRest, SameWindow
    <2>5. CASE a.bofAt = r
      <3>1. c = RaiseBof(a) /\ r = 1
        BY <1>4, <2>2, <2>3, <2>5 DEF SkipRawBackward
      <3> QED BY <1>1, <1>4, <2>1, <2>4, <3>1
    <2>6. CASE a.bofAt # r /\ a.pos # Near(a, BWD)
      <3>1. s # 0 /\ Stands(SetCurrent(a, s), n, r + BWD) /\ r + BWD \in 1..n
        BY <1>1, <2>1, <2>6, SteppedIs
      <3>2. c = SetCurrent(a, s)
        BY <1>4, <2>6, <3>1 DEF SkipRawBackward
      <3>3. r + BWD = r - 1 /\ r # 1
        BY <1>1, <2>2, <3>1
      <3> QED BY <1>4, <3>1, <3>2, <3>3
    <2>7. CASE a.bofAt # r /\ a.pos = Near(a, BWD)
      <3>1. s = 0
        BY <1>1, <2>1, <2>7, NoneAhead
      <3>2. c = BackwardInPage(p, TRUE)
        BY <1>4, <2>3, <2>7, <3>1 DEF SkipRawBackward
      <3> DEFINE u == Search(p, BWD, TRUE)
      <3>3. BackwardInPage(p, TRUE) = IF u # 0 THEN SetCurrent(p, u) ELSE RaiseBof(p)
        BY DEF BackwardInPage
      <3>4. p \in Area
        BY <1>1, PageReadGood DEF Good
      <3>5. CASE r = 1
        <4>1. p = [a EXCEPT !.bofAt = a.recno]
          <5>1. a.recno = EndOf(n, BWD)
            BY <1>1, <3>5 DEF EndOf
          <5> QED BY <1>1, <2>2, <2>7, <5>1, ReadPageIs
        <4> HIDE DEF p
        <4>2. SameWindow(p, a) /\ p.deleted = FALSE /\ p.bofAt = 1 /\ p.eofAt = a.eofAt /\ p.recno = 1
          BY <1>1, <2>3, <3>5, <4>1 DEF SameWindow, Area, Steady
        <4>3. Steady(p, n)
          BY <2>3, <4>2, SteadySame
        <4>4. Stands(p, n, 1)
          BY <2>2, <2>3, <3>5, <4>2, <4>3 DEF Stands, SameWindow
        <4>5. p.pos = Near(p, BWD)
          BY <2>7, <4>2 DEF Near, SameWindow
        <4>6. u = 0
          BY <1>1, <4>4, <4>5, NoneAhead
        <4>7. c = RaiseBof(p)
          BY <3>2, <3>3, <4>6
        <4> QED BY <1>4, <2>4, <3>4, <3>5, <4>4, <4>7
      <3>6. CASE r # 1
        <4> HIDE DEF u
        <4>1. p = ReadPage(a, 1..n, n, BWD, f)
          OBVIOUS
        <4> HIDE DEF p
        <4>2. c.begin = p.begin /\ c.end = p.end
          <5>1. /\ SetCurrent(p, u).begin = p.begin /\ SetCurrent(p, u).end = p.end
                /\ RaiseBof(p).begin = p.begin /\ RaiseBof(p).end = p.end
            BY <3>4 DEF SetCurrent, RaiseBof, Area
          <5> QED BY <3>2, <3>3, <5>1
        <4>3. ~(p.begin = 1 /\ p.end = Ring)
          BY <4>2
        <4>4. Stands(p, n, r) /\ p.pos # Near(p, BWD)
          <5>1. a.recno # EndOf(n, BWD) /\ a.pos = Near(a, BWD)
            BY <1>1, <2>7, <3>6 DEF EndOf
          <5> QED BY <1>1, <1>4, <4>1, <4>3, <5>1, PageBringsNext
        <4>5. u # 0 /\ Stands(SetCurrent(p, u), n, r + BWD)
          BY <1>1, <3>4, <4>4, SteppedIs DEF u
        <4>6. c = SetCurrent(p, u) /\ r + BWD = r - 1
          BY <1>1, <2>2, <3>2, <3>3, <4>5
        <4> QED BY <1>4, <3>6, <4>5, <4>6
      <3> QED BY <3>5, <3>6
    <2> QED BY <2>5, <2>6, <2>7
  <1> QED BY <1>2, <1>3, <1>4

LEMMA SkipBackwardIs ==
    ASSUME NEW n \in 1..MaxRec, NEW a, Walk(a, n), NEW f \in PageSizes,
           NEW b, b = SkipOf(a, 1..n, n, BWD, f), ~(b.begin = 1 /\ b.end = Ring)
    PROVE  /\ Walk(b, n) /\ ~b.eof
           /\ b.recno = IF a.eof THEN n ELSE IF a.bof \/ a.recno = 1 THEN a.recno ELSE a.recno - 1
  <1> DEFINE c == SkipRaw(a, 1..n, n, BWD, f)
             r == IF a.eof THEN n ELSE IF a.bof \/ a.recno = 1 THEN a.recno ELSE a.recno - 1
  <1>1. Good(a, 1..n) /\ a \in Area /\ BWD \in Dir /\ FWD # BWD /\ Rows(1..n, n)
    BY RingFacts DEF Walk, Good, Dir, Rows, FWD, BWD
  <1>2. Good(b, 1..n)
    BY <1>1, SkipGood
  <1>3. b = Concluded(c, BWD)
    BY DEF SkipOf
  <1>4. c \in Area /\ (~(c.begin = 1 /\ c.end = Ring) => Stands(c, n, r))
    <2>1. CASE a.bof /\ a.eof
      <3>1. c = GoBottomOf(a, 1..n, n)
        BY <2>1 DEF SkipRaw
      <3> HIDE DEF c
      <3>2. Walk(c, n) /\ ~c.eof /\ c.recno = n
        BY <3>1, GoesIs
      <3> QED BY <2>1, <3>2 DEF Walk, Good
    <2>2. CASE ~(a.bof /\ a.eof)
      <3>1. a.pos # 0 => a.aCache[a.pos] # Nil
        <4> SUFFICES ASSUME a.pos # 0 PROVE a.aCache[a.pos] # Nil
          OBVIOUS
        <4>1. Arc(a, n, FWD) /\ n \in Nat /\ FWD \in Dir
          BY RingFacts DEF Walk, Off, Stands, Steady, Dir
        <4>2. a.pos \in Slot /\ Distance(Far(a, FWD), a.pos, FWD) <= Distance(Far(a, FWD), Near(a, FWD), FWD)
          BY <4>1 DEF Arc
        <4>3. a.aCache[a.pos] \in 1..n
          BY <4>1, <4>2, ArcHolds
        <4> QED BY <4>3, RingFacts
      <3>2. c = SkipRawBackward(a, 1..n, n, f)
        BY <1>1, <2>2, <3>1 DEF SkipRaw
      <3> HIDE DEF c
      <3>3. c \in Area
        BY <1>1, <3>2, BackwardGood DEF Good
      <3>4. ~(c.begin = 1 /\ c.end = Ring) => Stands(c, n, r)
        BY <2>2, <3>2, SkipRawBackwardIs
      <3> QED BY <3>3, <3>4
    <2> QED BY <2>1, <2>2
  <1> HIDE DEF c, r
  <1>5. SameRest(b, c) /\ b.wasdel = FALSE /\ b.eof = FALSE /\ b.fEof = FALSE
    BY <1>1, <1>3, <1>4, ConcludedIs
  <1>6. Stands(c, n, r)
    BY <1>4, <1>5 DEF SameRest, SameWindow
  <1>7. Stands(b, n, r)
    BY <1>5, <1>6, StandsSame
  <1>8. b.recno = r
    BY <1>7 DEF Stands
  <1> QED BY <1>2, <1>5, <1>7, <1>8 DEF Walk, r

-----------------------------------------------------------------------------
(* The invariant of a table that loses no rows *)

(* A pending APPEND that has been inserted leaves a window of one row. *)
LEMMA InsertedIs ==
    ASSUME NEW n \in 1..MaxRec, NEW c, Good(c, 1..n), c.wasdel = FALSE, c.eof = FALSE,
           c.begin = 1, c.end = 1, c.pos = 1, c.aCache[1] = n, c.recno = n,
           c.deleted = FALSE, c.bofAt = 0, c.eofAt = 0
    PROVE  Walk(c, n)
  <1>1. 1 \in Slot /\ Slot = 1..Ring /\ Ring >= 5 /\ Ring \in Nat
    BY RingFacts
  <1>2. Distance(1, 1, FWD) = 0
    BY <1>1, DistanceIs
  <1>3. \A s \in Slot : Distance(1, s, FWD) <= 0 => s = 1
    <2> SUFFICES ASSUME NEW s \in Slot, Distance(1, s, FWD) <= 0 PROVE s = 1
      OBVIOUS
    <2>1. Distance(1, s, FWD) = IF s >= 1 THEN s - 1 ELSE s - 1 + Ring
      BY <1>1, DistanceIs
    <2> QED BY <1>1, <2>1
  <1>4. Far(c, FWD) = 1 /\ Near(c, FWD) = 1 /\ FWD * 0 = 0
    BY DEF Far, Near, FWD
  <1>5. Arc(c, n, FWD)
    <2>1. n + FWD * 0 = n /\ n \in 1..n /\ 0 <= Ring - 2
      BY <1>1, <1>4, RingFacts
    <2> QED BY <1>1, <1>2, <1>3, <1>4, <2>1 DEF Arc
  <1> QED BY <1>1, <1>5 DEF Walk, Stands, Steady

(* The write of an edited record leaves it where it is and forgets the ends. *)
LEMMA RewrittenIs ==
    ASSUME NEW n \in 1..MaxRec, NEW a, Walk(a, n), a.eof = FALSE,
           NEW c, c = [a EXCEPT !.bofAt = 0, !.eofAt = 0, !.bof = FALSE, !.eof = FALSE]
    PROVE  Walk(c, n)
  <1>1. a \in Area /\ Good(a, 1..n) /\ Stands(a, n, a.recno) /\ (a.fEof => a.recno = n)
        /\ (a.wasdel => UseDeleteds) /\ Steady(a, n)
    BY DEF Walk, Good, Stands
  <1>2. /\ SameWindow(c, a) /\ c.recno = a.recno /\ c.fEof = a.fEof /\ c.wasdel = a.wasdel
        /\ c.deleted = FALSE /\ c.bofAt = 0 /\ c.eofAt = 0 /\ c.eof = FALSE
        /\ c.hot = a.hot /\ c.isInsert = a.isInsert
    BY <1>1 DEF Area, SameWindow, Steady
  <1>3. Good(c, 1..n)
    <2>1. 0 \in 0..(MaxRec + 1) /\ 0 \notin 1..n
      BY RingFacts
    <2>2. c \in Area
      BY <1>1, <2>1 DEF Area
    <2>3. Shape(c)
      BY <1>1, <1>2 DEF Good, Shape, SameWindow
    <2> QED BY <1>1, <1>2, <2>1, <2>2, <2>3 DEF Good, Ends
  <1>4. Steady(c, n)
    BY <1>1, <1>2, SteadySame
  <1>5. Stands(c, n, c.recno)
    BY <1>1, <1>2, <1>4 DEF Stands, SameWindow
  <1> QED BY <1>1, <1>2, <1>3, <1>5 DEF Walk

LEMMA MarkedIs ==
    ASSUME NEW n \in 1..MaxRec, NEW a, Walk(a, n), UseDeleteds,
           NEW c, c = [a EXCEPT !.wasdel = TRUE]
    PROVE  Walk(c, n)
  <1>1. a \in Area /\ Good(a, 1..n)
    BY DEF Walk, Good
  <1>2. /\ SameRest(c, a) /\ c.eof = a.eof /\ c.fEof = a.fEof
    BY <1>1 DEF Area, SameRest, SameWindow
  <1>3. Good(c, 1..n)
    BY <1>1, Flags, RingFacts DEF Rows
  <1>4. CASE a.eof
    BY <1>2, <1>3, <1>4, OffSame DEF Walk
  <1>5. CASE ~a.eof
    <2>1. Stands(c, n, a.recno)
      BY <1>2, <1>5, StandsSame DEF Walk
    <2> QED BY <1>2, <1>3, <1>5, <2>1 DEF Walk, SameRest
  <1> QED BY <1>4, <1>5

(* The rows are 1..last, and the area walks on them once its edit is written; *)
(* an edit is of the record it is on, or of the one it appends.               *)
WInv ==
    /\ IInv
    /\ table = 1..last /\ last # 0
    /\ Walk(Cold, RCount)
    /\ wa.pos # 0 => Arc(wa, last, FWD)
    /\ Pending => wa.recno = last + 1
    /\ wa.hot => Pending \/ wa.eof = FALSE

(* Where no row is lost: DELETE marks, or there is none, and no other area writes. *)
RowsStay == ((UseDeleteds /\ hnDeleted) \/ MaxDel = 0) /\ ~Siblings /\ 0 \notin Sizes

(* The window has become the whole ring. *)
FullRing == wa.begin = 1 /\ wa.end = Ring

LEMMA TableIs ==
    ASSUME WInv
    PROVE  /\ Table = 1..RCount /\ RCount \in 1..MaxRec /\ last \in 1..MaxRec
           /\ Walk(Cold, RCount) /\ Cold \in Area /\ ~Cold.hot /\ ~Cold.isInsert
           /\ RCount = IF Pending THEN last + 1 ELSE last
  <1>1. last \in 1..MaxRec
    BY RingFacts DEF WInv, IInv, Rows
  <1>2. RCount = IF Pending THEN last + 1 ELSE last
    BY DEF RCount
  <1>3. RCount \in 1..MaxRec
    BY <1>1, <1>2, RingFacts DEF WInv, IInv
  <1>4. Table = 1..RCount
    <2>1. table = 1..last
      BY DEF WInv
    <2>2. CASE Pending
      <3>1. (1..last) \cup {last + 1} = 1..(last + 1)
        BY <1>1
      <3> QED BY <1>2, <2>1, <2>2, <3>1 DEF Table
    <2>3. CASE ~Pending
      BY <1>2, <2>1, <2>3 DEF Table
    <2> QED BY <2>2, <2>3
  <1>5. Cold \in Area /\ ~Cold.hot /\ ~Cold.isInsert
    BY DEF WInv, Walk, Good
  <1> QED BY <1>1, <1>2, <1>3, <1>4, <1>5 DEF WInv

(* What the application sees of the area is what the write of the edit leaves. *)
LEMMA SeenIs ==
    ASSUME WInv
    PROVE  /\ Cold.recno = wa.recno /\ (OnRecord <=> ~Cold.eof)
           /\ OnRecord => wa.recno \in 1..RCount
           /\ ~wa.hot => Cold = wa
  <1>1. CASE ~wa.hot
    <2>1. Cold = wa /\ ~Pending
      BY <1>1 DEF Cold, Pending
    <2> QED BY <2>1, StandsOn, TableIs DEF OnRecord, Walk
  <1>2. CASE wa.hot
    <2>1. wa \in Area /\ Cold = Written
      BY <1>2 DEF WInv, IInv, Cold
    <2>2. Cold.recno = wa.recno /\ ~Cold.eof
      BY <2>1 DEF Written, Area
    <2>3. OnRecord
      BY <1>2 DEF WInv, OnRecord
    <2>4. wa.recno \in 1..RCount
      BY <2>2, StandsOn, TableIs DEF Walk
    <2> QED BY <1>2, <2>2, <2>3, <2>4
  <1> QED BY <1>1, <1>2

(* The operations that leave the area on the rows there are. *)
LEMMA BecomesWalk ==
    ASSUME WInv, NEW a, Walk(a, RCount), table' = Table, last' = RCount, wa' = a, IInv'
    PROVE  WInv' /\ Table' = Table /\ RCount' = RCount /\ (OnRecord' <=> ~a.eof)
  <1>1. a \in Area /\ ~a.hot /\ ~a.isInsert /\ (a.pos # 0 => Arc(a, RCount, FWD))
        /\ a.eof \in BOOLEAN
    BY DEF Walk, Good, Off, Stands, Steady, Area
  <1>2. ~Pending'
    BY <1>1 DEF Pending
  <1>3. Cold' = a /\ Table' = Table /\ RCount' = RCount
    BY <1>1, <1>2 DEF Cold, Table, RCount
  <1>4. table' = 1..last' /\ last' # 0
    BY TableIs
  <1>5. Walk(Cold, RCount)' /\ (wa.pos # 0 => Arc(wa, last, FWD))'
    BY <1>1, <1>3
  <1>6. ~wa'.hot
    BY <1>1
  <1>7. OnRecord' <=> ~a.eof
    BY <1>2 DEF OnRecord
  <1> QED BY <1>2, <1>3, <1>4, <1>5, <1>6, <1>7 DEF WInv

LEMMA InitWalks == RowsStay /\ Init => WInv /\ wa.recno = 1 /\ wa.eof = FALSE
  <1> SUFFICES ASSUME RowsStay, NEW n \in Sizes, table = 1..n, marked = {}, last = n,
                      wa = GoTopOf(Opened, 1..n, n)
               PROVE  WInv /\ wa.recno = 1 /\ wa.eof = FALSE
    BY DEF Init
  <1>1. n \in 1..MaxRec
    BY RingFacts DEF RowsStay
  <1>2. Good(Opened, 1..n) /\ Opened.bofAt = 0
    <2>1. 0 \in 0..Ring /\ 0 \in 0..MaxRec /\ 0 \in 0..(MaxRec + 1) /\ 0 \notin 1..n
      BY <1>1, RingFacts
    <2>2. Opened \in Area
      BY <2>1 DEF Opened, Area
    <2> QED BY <2>1, <2>2 DEF Opened, Good, Shape, Ends
  <1>3. wa = SyncFlags(GoEnd([Opened EXCEPT !.wasdel = FALSE], 1..n, n, FWD))
    BY <1>2 DEF GoTopOf
  <1>4. Walk(wa, n) /\ ~wa.eof /\ wa.recno = 1
    <2>1. FWD \in Dir /\ StartOf(n, FWD) = 1
      BY DEF Dir, StartOf
    <2> QED BY <1>1, <1>2, <1>3, <2>1, GoEndSyncedIs
  <1>5. IInv
    <2>1. Init
      BY DEF Init
    <2> QED BY <2>1, InitKeeps
  <1>6. wa \in Area /\ ~wa.hot /\ ~wa.isInsert /\ (wa.pos # 0 => Arc(wa, n, FWD))
    BY <1>4 DEF Walk, Good, Stands, Steady
  <1>7. ~Pending /\ Cold = wa /\ RCount = n
    BY <1>6 DEF Pending, Cold, RCount
  <1>8. wa.eof = FALSE
    BY <1>4, <1>6 DEF Area
  <1> QED BY <1>1, <1>4, <1>5, <1>6, <1>7, <1>8 DEF WInv

-----------------------------------------------------------------------------
(* Each operation keeps the invariant, and moves as the cursor does *)

(* The cursor of the abstract specification, on the rows 1..n. *)
LEMMA CursorSteps ==
    ASSUME NEW n \in Nat, n >= 1, Table = 1..n
    PROVE  /\ C!First(Table) = 1 /\ C!Last(Table) = n
           /\ \A r \in 1..n :
                 /\ r # n => C!After(r) # {} /\ C!First(C!After(r)) = r + 1
                 /\ r = n => C!After(r) = {}
                 /\ r # 1 => C!Before(r) # {} /\ C!Last(C!Before(r)) = r - 1
                 /\ r = 1 => C!Before(r) = {}
  <1>1. C!First(Table) = 1
    <2>1. \A x \in 1..n : (\A y \in 1..n : x <= y) <=> x = 1
      OBVIOUS
    <2>2. 1 \in 1..n
      OBVIOUS
    <2> QED BY <2>1, <2>2 DEF C!First
  <1>2. C!Last(Table) = n
    <2>1. \A x \in 1..n : (\A y \in 1..n : y <= x) <=> x = n
      OBVIOUS
    <2>2. n \in 1..n
      OBVIOUS
    <2> QED BY <2>1, <2>2 DEF C!Last
  <1>3. ASSUME NEW r \in 1..n
        PROVE  /\ r # n => C!After(r) # {} /\ C!First(C!After(r)) = r + 1
               /\ r = n => C!After(r) = {}
               /\ r # 1 => C!Before(r) # {} /\ C!Last(C!Before(r)) = r - 1
               /\ r = 1 => C!Before(r) = {}
    <2> DEFINE A == {x \in 1..n : x > r}
               B == {x \in 1..n : x < r}
    <2>1. C!After(r) = A /\ C!Before(r) = B
      BY DEF C!After, C!Before
    <2>2. ASSUME r # n PROVE A # {} /\ C!First(A) = r + 1
      <3>1. r + 1 \in A
        BY <2>2
      <3>2. \A x \in A : (\A y \in A : x <= y) <=> x = r + 1
        BY <3>1
      <3> HIDE DEF A
      <3> QED BY <3>1, <3>2 DEF C!First
    <2>3. ASSUME r # 1 PROVE B # {} /\ C!Last(B) = r - 1
      <3>1. r - 1 \in B
        BY <2>3
      <3>2. \A x \in B : (\A y \in B : y <= x) <=> x = r - 1
        BY <3>1
      <3> HIDE DEF B
      <3> QED BY <3>1, <3>2 DEF C!Last
    <2>4. (r = n => A = {}) /\ (r = 1 => B = {})
      OBVIOUS
    <2> HIDE DEF A, B
    <2> QED BY <2>1, <2>2, <2>3, <2>4
  <1> QED BY <1>1, <1>2, <1>3

(* The area lands on record r, or at EOF, with the rows as they were. *)
LandsOn(r) == WInv' /\ Table' = Table /\ RCount' = RCount /\ OnRecord' /\ wa'.recno = r
LandsOff == WInv' /\ Table' = Table /\ RCount' = RCount /\ ~OnRecord'

LEMMA LandedIs ==
    ASSUME NEW r
    PROVE  /\ LandsOn(r) => C!At(r) /\ UNCHANGED Table
           /\ LandsOff => C!Lost /\ UNCHANGED Table
  <1>1. LandsOn(r) => C!At(r) /\ UNCHANGED Table
    BY DEF LandsOn, C!At
  <1>2. LandsOff => C!Lost /\ UNCHANGED Table
    BY DEF LandsOff, C!Lost
  <1> QED BY <1>1, <1>2

LEMMA GoTopLands ==
    ASSUME WInv, GoTop
    PROVE  LandsOn(1) /\ C!GoTop
  <1> DEFINE a == GoTopOf(Cold, Table, RCount)
  <1>1. Walk(a, RCount) /\ ~a.eof /\ a.recno = 1
    BY TableIs, GoesIs
  <1>2. table' = Table /\ last' = RCount /\ wa' = a /\ IInv'
    BY GoTopKeeps DEF GoTop, Becomes, WInv
  <1> HIDE DEF a
  <1>3. LandsOn(1)
    BY <1>1, <1>2, BecomesWalk DEF LandsOn
  <1>4. Table # {} /\ C!First(Table) = 1
    BY TableIs, CursorSteps
  <1> QED BY <1>3, <1>4, LandedIs DEF C!GoTop

LEMMA GoBottomLands ==
    ASSUME WInv, GoBottom
    PROVE  LandsOn(RCount) /\ C!GoBottom
  <1> DEFINE a == GoBottomOf(Cold, Table, RCount)
  <1>1. Walk(a, RCount) /\ ~a.eof /\ a.recno = RCount
    BY TableIs, GoesIs
  <1>2. table' = Table /\ last' = RCount /\ wa' = a /\ IInv'
    BY GoBottomKeeps DEF GoBottom, Becomes, WInv
  <1> HIDE DEF a
  <1>3. LandsOn(RCount)
    BY <1>1, <1>2, BecomesWalk DEF LandsOn
  <1>4. Table # {} /\ C!Last(Table) = RCount
    BY TableIs, CursorSteps
  <1> QED BY <1>3, <1>4, LandedIs DEF C!GoBottom

LEMMA GoToLands ==
    ASSUME WInv, NEW r \in GoTos, GoTo(r)
    PROVE  WInv' /\ C!GoTo(r)
  <1> DEFINE a == SyncFlags(GoRecord([Cold EXCEPT !.wasdel = FALSE], Table, RCount, r))
  <1>1. Walk(a, RCount) /\ IF r \in 1..RCount THEN ~a.eof /\ a.recno = r ELSE a.eof
    <2>1. r \in 0..(MaxRec + 1)
      BY RingFacts
    <2> QED BY <2>1, TableIs, GoRecordIs
  <1>2. table' = Table /\ last' = RCount /\ wa' = a /\ IInv'
    BY GoToKeeps DEF GoTo, Becomes, WInv
  <1> HIDE DEF a
  <1>3. WInv' /\ Table' = Table /\ RCount' = RCount /\ (OnRecord' <=> ~a.eof)
    BY <1>1, <1>2, BecomesWalk
  <1>4. IF r \in Table THEN LandsOn(r) ELSE LandsOff
    BY <1>1, <1>2, <1>3, TableIs DEF LandsOn, LandsOff
  <1> QED BY <1>3, <1>4, LandedIs DEF C!GoTo

LEMMA SkipForwardLands ==
    ASSUME WInv, NEW f \in PageSizes, Skip(FWD, f), ~FullRing'
    PROVE  /\ IF ~OnRecord \/ wa.recno = RCount THEN LandsOff ELSE LandsOn(wa.recno + 1)
           /\ C!SkipForward \/ C!SkipAtEof
  <1> DEFINE a == SkipOf(Cold, Table, RCount, FWD, f)
  <1>1. table' = Table /\ last' = RCount /\ wa' = a /\ IInv'
    BY SkipKeeps DEF Skip, Becomes, WInv, Dir
  <1>2. /\ Walk(a, RCount)
        /\ IF Cold.eof \/ Cold.recno = RCount THEN a.eof ELSE ~a.eof /\ a.recno = Cold.recno + 1
    <2>1. ~(a.begin = 1 /\ a.end = Ring)
      BY <1>1 DEF FullRing
    <2>2. a = SkipOf(Cold, 1..RCount, RCount, FWD, f) /\ RCount \in 1..MaxRec /\ Walk(Cold, RCount)
      BY TableIs
    <2> HIDE DEF a
    <2> QED BY <2>1, <2>2, SkipForwardIs
  <1> HIDE DEF a
  <1>3. WInv' /\ Table' = Table /\ RCount' = RCount /\ (OnRecord' <=> ~a.eof)
    BY <1>1, <1>2, BecomesWalk
  <1>4. IF ~OnRecord \/ wa.recno = RCount THEN LandsOff ELSE LandsOn(wa.recno + 1)
    BY <1>1, <1>2, <1>3, SeenIs DEF LandsOn, LandsOff
  <1>5. C!SkipForward \/ C!SkipAtEof
    <2>1. CASE ~OnRecord
      <3>1. LandsOff
        BY <1>4, <2>1
      <3> QED BY <2>1, <3>1, LandedIs DEF C!SkipAtEof, C!vars, C!Lost
    <2>2. CASE OnRecord
      <3>1. wa.recno \in 1..RCount
        BY <2>2, SeenIs
      <3>2. CASE wa.recno = RCount
        <4>1. LandsOff /\ C!After(wa.recno) = {}
          BY <1>4, <2>2, <3>1, <3>2, TableIs, CursorSteps
        <4> QED BY <2>2, <4>1, LandedIs DEF C!SkipForward
      <3>3. CASE wa.recno # RCount
        <4>1. LandsOn(wa.recno + 1)
          BY <1>4, <2>2, <3>3
        <4>2. C!After(wa.recno) # {} /\ C!First(C!After(wa.recno)) = wa.recno + 1
          BY <3>1, <3>3, TableIs, CursorSteps
        <4> QED BY <2>2, <4>1, <4>2, LandedIs DEF C!SkipForward
      <3> QED BY <3>2, <3>3
    <2> QED BY <2>1, <2>2
  <1> QED BY <1>4, <1>5

LEMMA SkipBackwardLands ==
    ASSUME WInv, NEW f \in PageSizes, Skip(BWD, f), ~FullRing'
    PROVE  /\ LandsOn(IF ~OnRecord THEN RCount
                      ELSE IF Cold.bof \/ wa.recno = 1 THEN wa.recno ELSE wa.recno - 1)
           /\ (Cold.bof => Cold.eof) => C!SkipBackward \/ C!SkipFromEof
  <1> DEFINE a == SkipOf(Cold, Table, RCount, BWD, f)
             r == IF ~OnRecord THEN RCount
                  ELSE IF Cold.bof \/ wa.recno = 1 THEN wa.recno ELSE wa.recno - 1
  <1>1. table' = Table /\ last' = RCount /\ wa' = a /\ IInv'
    BY SkipKeeps DEF Skip, Becomes, WInv, Dir
  <1>2. Walk(a, RCount) /\ ~a.eof /\ a.recno = r
    <2>1. ~(a.begin = 1 /\ a.end = Ring)
      BY <1>1 DEF FullRing
    <2>2. a = SkipOf(Cold, 1..RCount, RCount, BWD, f) /\ RCount \in 1..MaxRec /\ Walk(Cold, RCount)
      BY TableIs
    <2> HIDE DEF a
    <2>3. /\ Walk(a, RCount) /\ ~a.eof
          /\ a.recno = IF Cold.eof THEN RCount
                       ELSE IF Cold.bof \/ Cold.recno = 1 THEN Cold.recno ELSE Cold.recno - 1
      BY <2>1, <2>2, SkipBackwardIs
    <2> QED BY <2>3, SeenIs
  <1> HIDE DEF a
  <1>3. WInv' /\ Table' = Table /\ RCount' = RCount /\ (OnRecord' <=> ~a.eof)
    BY <1>1, <1>2, BecomesWalk
  <1>4. LandsOn(r)
    BY <1>1, <1>2, <1>3 DEF LandsOn
  <1>5. ASSUME Cold.bof => Cold.eof PROVE C!SkipBackward \/ C!SkipFromEof
    <2>1. CASE ~OnRecord
      <3>1. LandsOn(RCount) /\ Table # {} /\ C!Last(Table) = RCount
        BY <1>4, <2>1, TableIs, CursorSteps
      <3> QED BY <2>1, <3>1, LandedIs DEF C!SkipFromEof, C!GoBottom
    <2>2. CASE OnRecord
      <3>1. wa.recno \in 1..RCount /\ ~Cold.bof
        BY <1>5, <2>2, SeenIs
      <3>2. CASE wa.recno = 1
        <4>1. LandsOn(wa.recno) /\ C!Before(wa.recno) = {}
          BY <1>4, <2>2, <3>1, <3>2, TableIs, CursorSteps
        <4> QED BY <2>2, <4>1, LandedIs DEF C!SkipBackward
      <3>3. CASE wa.recno # 1
        <4>1. LandsOn(wa.recno - 1)
          BY <1>4, <2>2, <3>1, <3>3
        <4>2. C!Before(wa.recno) # {} /\ C!Last(C!Before(wa.recno)) = wa.recno - 1
          BY <3>1, <3>3, TableIs, CursorSteps
        <4> QED BY <2>2, <4>1, <4>2, LandedIs DEF C!SkipBackward
      <3> QED BY <3>2, <3>3
    <2> QED BY <2>1, <2>2
  <1> QED BY <1>4, <1>5

LEMMA AppendLands ==
    ASSUME WInv, AppendRecord
    PROVE  WInv' /\ C!Append(RCount + 1)
  <1> DEFINE n == RCount + 1
             y == SyncFlags(Cold)
             c == [y EXCEPT !.wasdel = FALSE, !.hot = TRUE, !.isInsert = TRUE, !.bof = TRUE]
             a == CleanBuffer(c, RCount)
  <1>1. table' = Table /\ last' = RCount /\ wa' = a /\ IInv' /\ RCount < MaxRec
    BY AppendKeeps DEF AppendRecord, Becomes, WInv
  <1>2. Cold \in Area /\ Walk(Cold, RCount) /\ Table = 1..RCount /\ RCount \in 1..MaxRec
    BY TableIs
  <1>3. n \in 1..MaxRec
    BY <1>1, <1>2, RingFacts
  <1>4. a = [Cold EXCEPT !.fBof = Cold.bof, !.fEof = Cold.eof, !.wasdel = FALSE, !.hot = TRUE,
                         !.isInsert = TRUE, !.bof = TRUE, !.recno = n, !.eof = TRUE,
                         !.deleted = FALSE]
    <2>1. y = [Cold EXCEPT !.fBof = Cold.bof, !.fEof = Cold.eof]
      BY DEF SyncFlags
    <2> QED BY <1>2, <2>1 DEF CleanBuffer, Area
  <1>5. /\ SameWindow(a, Cold) /\ a.recno = n /\ a.hot = TRUE /\ a.isInsert = TRUE
        /\ a.deleted = FALSE /\ a.wasdel = FALSE /\ a \in Area
    <2>1. n \in 0..(MaxRec + 1)
      BY <1>3, RingFacts
    <2>2. /\ SameWindow(a, Cold) /\ a.recno = n /\ a.hot = TRUE /\ a.isInsert = TRUE
          /\ a.deleted = FALSE /\ a.wasdel = FALSE
      <3> HIDE DEF a
      <3> QED BY <1>2, <1>4 DEF Area, SameWindow
    <2>3. a \in Area
      <3> HIDE DEF a, n
      <3> QED BY <1>2, <1>4, <2>1 DEF Area
    <2> QED BY <2>2, <2>3
  <1>6. a.pos # 0 => Arc(a, RCount, FWD)
    <2>1. Cold.pos # 0 => Arc(Cold, RCount, FWD)
      BY <1>2 DEF Walk, Off, Stands, Steady
    <2> QED BY <1>5, <2>1, ArcSame DEF SameWindow
  <1> DEFINE w == [a EXCEPT !.hot = FALSE, !.isInsert = FALSE, !.bofAt = 0, !.eofAt = 0,
                            !.bof = FALSE, !.eof = FALSE, !.begin = 1, !.end = 1, !.pos = 1,
                            !.aCache[1] = n]
  <1> HIDE DEF a
  <1>7. Pending' /\ Table' = 1..n /\ RCount' = n
    <2>1. Pending'
      BY <1>1, <1>5 DEF Pending
    <2>2. (1..RCount) \cup {n} = 1..n
      BY <1>2
    <2> QED BY <1>1, <1>2, <2>1, <2>2 DEF Table, RCount
  <1>8. Cold' = w
    <2>1. Cold' = Written'
      BY <1>1, <1>5 DEF Cold
    <2>2. Written' = w
      BY <1>1, <1>5, <1>7 DEF Written, Area
    <2> QED BY <2>1, <2>2
  <1>9. Walk(w, n)
    <2>1. /\ 1 \in Slot /\ 1 \in 0..Ring /\ 0 \in 0..(MaxRec + 1) /\ n \in 0..MaxRec
          /\ 0 \notin 1..n
      BY <1>3, RingFacts
    <2>2. a.aCache \in [Slot -> 0..MaxRec \cup {Nil}]
      BY <1>5 DEF Area
    <2>3. [a.aCache EXCEPT ![1] = n] \in [Slot -> 0..MaxRec \cup {Nil}]
      BY <2>1, <2>2
    <2>4. /\ w \in Area
          /\ w.begin = 1 /\ w.end = 1 /\ w.pos = 1 /\ w.recno = n
          /\ w.aCache = [a.aCache EXCEPT ![1] = n] /\ w.wasdel = FALSE /\ w.eof = FALSE
          /\ w.deleted = FALSE /\ w.bofAt = 0 /\ w.eofAt = 0
          /\ w.hot = FALSE /\ w.isInsert = FALSE
      BY <1>5, <2>1, <2>3 DEF Area
    <2>5. w.aCache[1] = n
      BY <2>1, <2>2, <2>4
    <2> HIDE DEF w
    <2>6. Good(w, 1..n)
      BY <2>1, <2>4 DEF Good, Shape, Ends
    <2> QED BY <1>3, <2>4, <2>5, <2>6, InsertedIs
  <1> HIDE DEF w
  <1>10. WInv'
    <2>1. table' = 1..last' /\ last' # 0
      BY <1>1, <1>2
    <2>2. Walk(Cold, RCount)'
      BY <1>7, <1>8, <1>9
    <2>3. (wa.pos # 0 => Arc(wa, last, FWD))'
      BY <1>1, <1>6
    <2>4. wa'.recno = last' + 1
      BY <1>1, <1>5
    <2> QED BY <1>1, <1>7, <2>1, <2>2, <2>3, <2>4 DEF WInv
  <1>11. C!Append(RCount + 1)
    <2>1. n \in Rec \ Table /\ Table' = Table \cup {n}
      BY <1>2, <1>3, <1>7, RingFacts
    <2>2. OnRecord' /\ wa'.recno = n
      BY <1>1, <1>5, <1>7 DEF OnRecord
    <2> QED BY <2>1, <2>2 DEF C!Append, C!At
  <1> QED BY <1>10, <1>11

LEMMA ReplaceStays ==
    ASSUME WInv, Replace
    PROVE  WInv' /\ UNCHANGED C!vars
  <1> DEFINE c == [wa EXCEPT !.bofAt = 0, !.eofAt = 0, !.bof = FALSE, !.eof = FALSE]
             h == [wa EXCEPT !.hot = TRUE]
  <1>1. /\ wa' = h /\ UNCHANGED <<table, marked, last>> /\ ~wa.eof /\ ~wa.hot
        /\ wa \in Area /\ ~wa.isInsert /\ ~Pending /\ IInv'
    BY ReplaceKeeps DEF Replace, WInv, IInv, Pending
  <1>2. Walk(wa, last) /\ Table = table /\ RCount = last /\ last \in 1..MaxRec
    <2>1. Cold = wa /\ RCount = last /\ Table = table
      BY <1>1 DEF Cold, RCount, Table
    <2> QED BY <2>1, TableIs
  <1>3. /\ h.hot = TRUE /\ h.isInsert = FALSE /\ SameWindow(h, wa) /\ h.recno = wa.recno
        /\ h.eof = wa.eof /\ h.deleted = wa.deleted /\ h.pos = wa.pos
    BY <1>1 DEF Area, SameWindow
  <1>4. wa.deleted = FALSE /\ wa.pos # 0 /\ wa.end # 0 /\ wa.aCache[wa.pos] = wa.recno
        /\ wa.pos \in Slot /\ wa.eof = FALSE
    <2>1. Stands(wa, last, wa.recno) /\ Shape(wa)
      BY <1>1, <1>2 DEF Walk, Good
    <2> QED BY <1>1, <1>2, <2>1, StandsOn DEF Stands, Steady, Shape, Area
  <1> HIDE DEF h
  <1>5. Cold' = c
    <2>1. Cold' = Written' /\ ~Pending'
      BY <1>1, <1>3, <1>4 DEF Cold, Pending
    <2>2. Written' = [h EXCEPT !.hot = FALSE, !.isInsert = FALSE, !.bofAt = 0, !.eofAt = 0,
                               !.bof = FALSE, !.eof = FALSE, !.aCache[h.pos] = h.recno]
      <3>1. h.end # 0 /\ h \in Area
        BY <1>1, <1>4 DEF h, Area
      <3> DEFINE b == [h EXCEPT !.hot = FALSE, !.isInsert = FALSE, !.bofAt = 0, !.eofAt = 0,
                                !.bof = FALSE, !.eof = FALSE]
      <3>2. Written' = [b EXCEPT !.aCache[b.pos] = b.recno]
        <4>1. [h EXCEPT !.hot = FALSE, !.isInsert = FALSE, !.bofAt = 0, !.eofAt = 0,
                        !.bof = FALSE, !.eof = FALSE,
                        !.begin = h.begin, !.end = h.end, !.pos = h.pos] = b
          BY <3>1 DEF Area
        <4> QED BY <1>1, <2>1, <3>1, <4>1 DEF Written
      <3> QED BY <3>1, <3>2 DEF Area
    <2>3. [wa.aCache EXCEPT ![wa.pos] = wa.recno] = wa.aCache
      <3>1. wa.aCache \in [Slot -> 0..MaxRec \cup {Nil}]
        BY <1>1 DEF Area
      <3> QED BY <1>4, <3>1
    <2> QED BY <1>1, <1>4, <2>1, <2>2, <2>3 DEF h, Area
  <1>6. Walk(c, last)
    BY <1>2, <1>4, RewrittenIs
  <1>7. ~Pending' /\ Table' = Table /\ RCount' = RCount
    BY <1>1, <1>2, <1>3 DEF Pending, Table, RCount
  <1> HIDE DEF c
  <1>8. WInv'
    <2>1. table' = 1..last' /\ last' # 0
      BY <1>1 DEF WInv
    <2>2. Walk(Cold, RCount)'
      BY <1>2, <1>5, <1>6, <1>7
    <2>3. (wa.pos # 0 => Arc(wa, last, FWD))'
      <3>1. wa.pos # 0 => Arc(wa, last, FWD)
        BY DEF WInv
      <3>2. Arc(h, last, FWD) <=> Arc(wa, last, FWD)
        BY <1>3, ArcSame
      <3> QED BY <1>1, <1>3, <3>1, <3>2
    <2>4. wa'.eof = FALSE
      BY <1>1, <1>3, <1>4
    <2> QED BY <1>1, <1>7, <2>1, <2>2, <2>3, <2>4 DEF WInv
  <1>9. OnRecord /\ OnRecord' /\ wa'.recno = wa.recno
    BY <1>1, <1>3 DEF OnRecord
  <1> QED BY <1>7, <1>8, <1>9 DEF C!vars

(* The cursor stays when the area keeps its record. *)
LEMMA StaysPut ==
    ASSUME WInv, NEW a, Walk(a, RCount), table' = Table, last' = RCount, wa' = a, IInv',
           a.recno = Cold.recno, a.eof = Cold.eof
    PROVE  WInv' /\ UNCHANGED C!vars
  <1>1. WInv' /\ Table' = Table /\ RCount' = RCount /\ (OnRecord' <=> ~a.eof)
    BY BecomesWalk
  <1>2. wa'.recno = wa.recno /\ (OnRecord' <=> OnRecord)
    BY <1>1, SeenIs
  <1>3. (IF OnRecord THEN wa.recno ELSE 0)' = IF OnRecord THEN wa.recno ELSE 0
    BY <1>2
  <1>4. (~OnRecord)' = ~OnRecord
    BY <1>2
  <1> QED BY <1>1, <1>3, <1>4 DEF C!vars

LEMMA MarkStays ==
    ASSUME WInv, DeleteMarked
    PROVE  WInv' /\ UNCHANGED C!vars
  <1> DEFINE a == [Cold EXCEPT !.wasdel = TRUE]
  <1>1. table' = Table /\ last' = RCount /\ wa' = a /\ UseDeleteds /\ IInv'
    BY DeleteMarkedKeeps DEF DeleteMarked, WInv
  <1>2. a.recno = Cold.recno /\ a.eof = Cold.eof
    BY TableIs DEF Area
  <1>3. Walk(a, RCount)
    BY <1>1, TableIs, MarkedIs
  <1> HIDE DEF a
  <1> QED BY <1>1, <1>2, <1>3, StaysPut

LEMMA RecallStays ==
    ASSUME WInv, Recall
    PROVE  WInv' /\ UNCHANGED C!vars
  <1>1. table' = Table /\ last' = RCount /\ wa' = Cold /\ IInv'
    BY RecallKeeps DEF Recall, WInv
  <1> QED BY <1>1, TableIs, StaysPut

LEMMA RowsAreKept ==
    ASSUME WInv, RowsStay
    PROVE  ~DeleteRow /\ ~SiblingWrites
  <1>1. ~SiblingWrites
    BY DEF RowsStay, SiblingWrites
  <1>2. ASSUME DeleteRow PROVE FALSE
    <2>1. MaxDel = 0 /\ Cardinality(Table) > RCount - MaxDel
      BY <1>2 DEF DeleteRow, RowsStay
    <2>2. RCount \in Nat /\ Table = 1..RCount
      BY TableIs, RingFacts
    <2>3. Cardinality(1..RCount) = RCount
      BY <2>2, FS_Interval
    <2> QED BY <2>1, <2>2, <2>3
  <1> QED BY <1>1, <1>2

LEMMA NextWalks ==
    ASSUME WInv, RowsStay, ~FullRing', [Next]_vars
    PROVE  WInv'
  <1>1. CASE GoTop \/ GoBottom \/ AppendRecord \/ Replace
    BY <1>1, GoTopLands, GoBottomLands, AppendLands, ReplaceStays DEF LandsOn
  <1>2. CASE DeleteMarked \/ Recall \/ DeleteRow \/ SiblingWrites
    BY <1>2, MarkStays, RecallStays, RowsAreKept
  <1>3. CASE \E r \in GoTos : GoTo(r)
    BY <1>3, GoToLands
  <1>4. ASSUME NEW f \in PageSizes, Skip(FWD, f) \/ (Backward /\ Skip(BWD, f))
        PROVE  WInv'
    <2>1. CASE Skip(FWD, f)
      BY <2>1, SkipForwardLands DEF LandsOn, LandsOff
    <2>2. CASE Skip(BWD, f)
      BY <2>2, SkipBackwardLands DEF LandsOn
    <2> QED BY <1>4, <2>1, <2>2
  <1>5. CASE UNCHANGED vars
    <2>1. IInv'
      BY NextKeeps DEF WInv
    <2>2. wa' = wa /\ last' = last /\ table' = table
      BY <1>5 DEF vars
    <2>3. Cold' = Cold /\ RCount' = RCount /\ (Pending' <=> Pending)
      BY <2>2 DEF Cold, Written, RCount, Pending
    <2> QED BY <2>1, <2>2, <2>3 DEF WInv
  <1> QED BY <1>1, <1>2, <1>3, <1>4, <1>5 DEF Next

-----------------------------------------------------------------------------
(* The window and the cursor *)

(* The k-th slot of the window holds the k-th record from the first on. *)
LEMMA InWindowIs ==
    ASSUME WInv, NEW k \in 1..Length
    PROVE  InWindow(k) = wa.aCache[wa.begin] + (k - 1) /\ wa.aCache[wa.begin] \in 1..last
  <1> DEFINE b == wa.begin
             e == wa.end
             s == Fix(b + k - 1)
  <1>1. wa.end # 0
    BY DEF Length
  <1>2. wa.pos # 0
    <2>1. wa \in Area /\ Shape(Settled(wa))
      BY DEF WInv, IInv, Good
    <2> QED BY <1>1, <2>1 DEF Shape, Settled, Area
  <1>3. Arc(wa, last, FWD)
    BY <1>2 DEF WInv
  <1>4. /\ b \in Slot /\ e \in Slot /\ wa.aCache[b] \in 1..last
        /\ \A x \in Slot : Distance(b, x, FWD) <= Distance(b, e, FWD) =>
               wa.aCache[x] = wa.aCache[b] + FWD * Distance(b, x, FWD)
    BY <1>3 DEF Arc, Far, Near
  <1>5. Distance(b, e, FWD) \in 0..(Ring - 1) /\ k \in 1..(Distance(b, e, FWD) + 1)
    <2>1. b \in Int /\ e \in Int
      BY <1>4, RingFacts
    <2>2. Distance(b, e, FWD) \in 0..(Ring - 1)
      BY <2>1, Distances DEF Dir
    <2> QED BY <1>1, <2>2 DEF Length
  <1>6. s \in Slot /\ Distance(b, s, FWD) = k - 1
    <2> HIDE DEF b, e
    <2>1. b \in 1..Ring /\ k \in 1..Ring /\ Ring \in Nat /\ b + k - 1 \in Int
      BY <1>4, <1>5, RingFacts
    <2>2. s = IF b + k - 1 > Ring THEN b + k - 1 - Ring ELSE b + k - 1
      BY <2>1 DEF Fix
    <2>3. s \in Slot
      BY <2>1, <2>2, RingFacts
    <2>4. Distance(b, s, FWD) = IF s >= b THEN s - b ELSE s - b + Ring
      BY <1>4, <2>3, DistanceIs
    <2> QED BY <2>1, <2>2, <2>3, <2>4
  <1>7. k - 1 <= Distance(b, e, FWD) /\ FWD * (k - 1) = k - 1
    BY <1>5, RingFacts DEF FWD
  <1> QED BY <1>4, <1>6, <1>7 DEF InWindow

LEMMA WindowIsWhole == WInv => WindowHasAllRows
  <1> SUFFICES ASSUME WInv, NEW j \in 1..Length, NEW k \in 1..Length, j < k
               PROVE  /\ InWindow(j) < InWindow(k)
                      /\ \A r \in table : InWindow(j) < r /\ r < InWindow(k) =>
                             \E i \in j..k : InWindow(i) = r
    BY DEF WindowHasAllRows
  <1> DEFINE c == wa.aCache[wa.begin]
  <1>1. Length \in Nat
    <2>1. CASE wa.end = 0
      BY <2>1 DEF Length
    <2>2. CASE wa.end # 0
      <3>1. wa.begin \in Int /\ wa.end \in Int
        BY RingFacts DEF WInv, IInv, Area
      <3>2. Distance(wa.begin, wa.end, FWD) \in 0..(Ring - 1)
        BY <3>1, Distances DEF Dir
      <3> QED BY <2>2, <3>2, RingFacts DEF Length
    <2> QED BY <2>1, <2>2
  <1>2. c \in Int /\ \A i \in 1..Length : InWindow(i) = c + (i - 1)
    BY InWindowIs, TableIs, RingFacts
  <1>3. table \in SUBSET Int
    BY TableIs, RingFacts DEF WInv
  <1> HIDE DEF c
  <1>4. InWindow(j) = c + (j - 1) /\ InWindow(k) = c + (k - 1)
    BY <1>2
  <1>5. InWindow(j) < InWindow(k)
    BY <1>1, <1>2, <1>4
  <1>6. ASSUME NEW r \in table, InWindow(j) < r, r < InWindow(k)
        PROVE  \E i \in j..k : InWindow(i) = r
    <2> DEFINE i == r - c + 1
    <2>1. i \in j..k /\ i \in 1..Length /\ c + (i - 1) = r
      BY <1>1, <1>2, <1>3, <1>4, <1>6
    <2> HIDE DEF i
    <2>2. InWindow(i) = r
      BY <1>2, <2>1
    <2> QED BY <2>1, <2>2
  <1> QED BY <1>5, <1>6

(* As long as the window is not made the whole ring, and the rows stay: it holds *)
(* the rows between its first and its last in their order, whichever way pages   *)
(* came in and went around the ring (sqlrdd2.prg UpdateCache), for every ring,   *)
(* page, table and sequence of calls.                                            *)
THEOREM WindowStaysComplete ==
    ASSUME RowsStay
    PROVE  Spec /\ []~FullRing => []WindowHasAllRows
  <1>1. Init => WInv
    BY InitWalks
  <1>2. WInv /\ ~FullRing' /\ [Next]_vars => WInv'
    BY NextWalks
  <1>3. WInv => WindowHasAllRows
    BY WindowIsWhole
  <1> QED BY <1>1, <1>2, <1>3, PTL DEF Spec

(* Under the same conditions the area with its cache moves as the cursor on the  *)
(* table does: GO TOP, GO BOTTOM, GO TO and SKIP either way land on the record,  *)
(* or at EOF(), that the table alone would give, an APPEND adds one, and writes  *)
(* and marks move nothing (sqlSkip, sqlGoTo, WriteBuffer).                       *)
THEOREM CacheMovesAsCursor ==
    ASSUME RowsStay
    PROVE  Spec /\ []~FullRing => ImplementsCursor
  <1>1. Init => WInv /\ C!Init
    <2> SUFFICES ASSUME Init PROVE WInv /\ C!Init
      OBVIOUS
    <2>1. WInv /\ wa.recno = 1 /\ wa.eof = FALSE
      BY InitWalks
    <2>2. OnRecord
      BY <2>1 DEF OnRecord
    <2>3. C!First(Table) = 1 /\ Table # {} /\ Table \in SUBSET Rec
      BY <2>1, TableIs, CursorSteps, RingFacts
    <2> QED BY <2>1, <2>2, <2>3 DEF C!Init
  <1>2. WInv /\ ~FullRing' /\ [Next]_vars => WInv'
    BY NextWalks
  <1>3. WInv /\ ~FullRing' =>
           [ /\ GoTop => C!GoTop
             /\ GoBottom => C!GoBottom
             /\ \A r \in GoTos : GoTo(r) => C!GoTo(r)
             /\ \A f \in PageSizes :
                   /\ Skip(FWD, f) => C!SkipForward \/ C!SkipAtEof
                   /\ Skip(BWD, f) /\ (Cold.bof => Cold.eof) => C!SkipBackward \/ C!SkipFromEof
             /\ AppendRecord => C!Append(RCount + 1)
             /\ Replace \/ DeleteMarked \/ Recall => UNCHANGED C!vars ]_vars
    <2> SUFFICES ASSUME WInv, ~FullRing'
                 PROVE  /\ GoTop => C!GoTop
                        /\ GoBottom => C!GoBottom
                        /\ \A r \in GoTos : GoTo(r) => C!GoTo(r)
                        /\ \A f \in PageSizes :
                              /\ Skip(FWD, f) => C!SkipForward \/ C!SkipAtEof
                              /\ Skip(BWD, f) /\ (Cold.bof => Cold.eof) =>
                                     C!SkipBackward \/ C!SkipFromEof
                        /\ AppendRecord => C!Append(RCount + 1)
                        /\ Replace \/ DeleteMarked \/ Recall => UNCHANGED C!vars
      OBVIOUS
    <2>1. GoTop => C!GoTop
      BY GoTopLands
    <2>2. GoBottom => C!GoBottom
      BY GoBottomLands
    <2>3. \A r \in GoTos : GoTo(r) => C!GoTo(r)
      BY GoToLands
    <2>4. \A f \in PageSizes : Skip(FWD, f) => C!SkipForward \/ C!SkipAtEof
      BY SkipForwardLands
    <2>5. \A f \in PageSizes :
             Skip(BWD, f) /\ (Cold.bof => Cold.eof) => C!SkipBackward \/ C!SkipFromEof
      BY SkipBackwardLands
    <2>6. AppendRecord => C!Append(RCount + 1)
      BY AppendLands
    <2>7. Replace \/ DeleteMarked \/ Recall => UNCHANGED C!vars
      BY ReplaceStays, MarkStays, RecallStays
    <2> QED BY <2>1, <2>2, <2>3, <2>4, <2>5, <2>6, <2>7
  <1> QED BY <1>1, <1>2, <1>3, PTL DEF Spec, ImplementsCursor

-----------------------------------------------------------------------------

(* SKIP after a DELETE, in a table whose rows are really removed.  The window has *)
(* holes then, and Arc does not hold of it; what lasts is that the rows past the  *)
(* current record are ahead of it, in their order and with none left out (Trail). *)

(* Slot i of the window, what it holds, the place of the current slot, and of *)
(* the last one.                                                               *)
Nth(a, i) == Fix(a.begin + i)
Item(a, i) == a.aCache[Nth(a, i)]
At(a) == Distance(a.begin, a.pos, FWD)
Reach(a) == Distance(a.begin, a.end, FWD)

(* The numbers of the slots from slot o on. *)
LEMMA Turns ==
    ASSUME NEW o \in Slot
    PROVE  /\ \A i \in 0..(Ring - 1) : Fix(o + i) \in Slot /\ Distance(o, Fix(o + i), FWD) = i
           /\ \A s \in Slot : Distance(o, s, FWD) \in 0..(Ring - 1) /\ Fix(o + Distance(o, s, FWD)) = s
           /\ \A i, k \in 0..Ring : i + k <= Ring => Fix(Fix(o + i) + k) = Fix(o + (i + k))
  <1>1. o \in 1..Ring
    BY RingFacts
  <1>2. ASSUME NEW i \in 0..(Ring - 1) PROVE Fix(o + i) \in Slot /\ Distance(o, Fix(o + i), FWD) = i
    <2> DEFINE s == Fix(o + i)
    <2>1. s = IF o + i > Ring THEN o + i - Ring ELSE o + i
      BY <1>1, RingFacts DEF Fix
    <2> HIDE DEF s
    <2>2. s \in 1..Ring
      BY <1>1, <2>1, RingFacts
    <2>3. s \in Slot /\ Distance(o, s, FWD) = IF s >= o THEN s - o ELSE s - o + Ring
      BY <2>2, DistanceIs, RingFacts
    <2>4. Distance(o, s, FWD) = i
      BY <1>1, <2>1, <2>2, <2>3, RingFacts
    <2> QED BY <2>3, <2>4 DEF s
  <1>3. ASSUME NEW s \in Slot
        PROVE  Distance(o, s, FWD) \in 0..(Ring - 1) /\ Fix(o + Distance(o, s, FWD)) = s
    <2> DEFINE d == Distance(o, s, FWD)
    <2>1. d = (IF s >= o THEN s - o ELSE s - o + Ring) /\ s \in 1..Ring
      BY DistanceIs, RingFacts
    <2> HIDE DEF d
    <2>2. d \in 0..(Ring - 1) /\ (o + d = s \/ o + d = s + Ring)
      BY <1>1, <2>1, RingFacts
    <2>3. Fix(o + d) = s
      BY <1>1, <2>1, <2>2, RingFacts DEF Fix
    <2> QED BY <2>2, <2>3 DEF d
  <1>4. ASSUME NEW i \in 0..Ring, NEW k \in 0..Ring, i + k <= Ring
        PROVE  Fix(Fix(o + i) + k) = Fix(o + (i + k))
    <2> DEFINE s == Fix(o + i)
    <2>1. s = IF o + i > Ring THEN o + i - Ring ELSE o + i
      BY <1>1, RingFacts DEF Fix
    <2> HIDE DEF s
    <2>2. s \in 1..Ring /\ i \in Int /\ k \in Int /\ Ring \in Int
      BY <1>1, <2>1, RingFacts
    <2>3. Fix(s + k) = IF s + k > Ring THEN s + k - Ring ELSE s + k
      BY <2>2 DEF Fix
    <2>4. Fix(o + (i + k)) = IF o + (i + k) > Ring THEN o + (i + k) - Ring ELSE o + (i + k)
      BY <1>1, <2>2 DEF Fix
    <2>5. Fix(s + k) = Fix(o + (i + k))
      BY <1>1, <1>4, <2>1, <2>2, <2>3, <2>4
    <2> QED BY <2>5 DEF s
  <1> QED BY <1>2, <1>3, <1>4

(* The current slot is in the window, which does not take the whole ring. *)
Span(a) ==
    /\ a.pos \in Slot /\ a.begin \in Slot /\ a.end \in Slot
    /\ At(a) <= Reach(a) /\ Reach(a) <= Ring - 2

(* The slots of a window by their places. *)
LEMMA Places ==
    ASSUME NEW a, Span(a)
    PROVE  /\ At(a) \in 0..Reach(a) /\ Reach(a) \in 0..(Ring - 2)
           /\ Nth(a, At(a)) = a.pos /\ Nth(a, Reach(a)) = a.end /\ Nth(a, 0) = a.begin
           /\ \A i \in 0..(Ring - 1) : Nth(a, i) \in Slot
           /\ \A i, j \in 0..(Ring - 1) : Nth(a, i) = Nth(a, j) => i = j
           /\ \A s \in Slot : \E i \in 0..(Ring - 1) : s = Nth(a, i)
  <1>1. a.begin \in Slot /\ a.pos \in Slot /\ a.end \in Slot /\ At(a) <= Reach(a) /\ Reach(a) <= Ring - 2
    BY DEF Span
  <1>2. /\ \A i \in 0..(Ring - 1) : Nth(a, i) \in Slot /\ Distance(a.begin, Nth(a, i), FWD) = i
        /\ \A s \in Slot : Distance(a.begin, s, FWD) \in 0..(Ring - 1)
                           /\ Nth(a, Distance(a.begin, s, FWD)) = s
    BY <1>1, Turns DEF Nth
  <1>3. At(a) \in 0..(Ring - 1) /\ Reach(a) \in 0..(Ring - 1)
        /\ Nth(a, At(a)) = a.pos /\ Nth(a, Reach(a)) = a.end
    BY <1>1, <1>2 DEF At, Reach
  <1>4. Nth(a, 0) = a.begin
    BY <1>1, RingFacts DEF Nth, Fix
  <1>5. At(a) \in 0..Reach(a) /\ Reach(a) \in 0..(Ring - 2)
    BY <1>1, <1>3, RingFacts
  <1>6. \A i, j \in 0..(Ring - 1) : Nth(a, i) = Nth(a, j) => i = j
    BY <1>2
  <1> QED BY <1>2, <1>3, <1>4, <1>5, <1>6

(* s is the first slot of the window from place k on that is not empty, or 0. *)
FirstIs(a, k, s) ==
    \/ s = 0 /\ \A j \in k..Reach(a) : Item(a, j) = Nil
    \/ \E j \in k..Reach(a) : /\ s = Nth(a, j) /\ Item(a, j) # Nil
                              /\ \A i \in k..(j - 1) : Item(a, i) = Nil

(* A search forward finds it. *)
LEMMA SearchForward ==
    ASSUME NEW a, Span(a), NEW past \in BOOLEAN,
           NEW k, k = IF past THEN At(a) + 1 ELSE At(a)
    PROVE  FirstIs(a, k, Search(a, FWD, past))
  <1> DEFINE from == Start(a, FWD, past)
             L == Reach(a)
             hits == {s \in Ahead(a, from, FWD) : a.aCache[s] # Nil}
  <1>1. /\ At(a) \in 0..L /\ L \in 0..(Ring - 2) /\ Nth(a, At(a)) = a.pos
        /\ \A i \in 0..(Ring - 1) : Nth(a, i) \in Slot
        /\ a.begin \in Slot /\ a.end \in Slot /\ a.pos \in Slot
    BY Places DEF Span
  <1>2. k \in 0..(L + 1) /\ k \in 0..(Ring - 1)
    <2>1. k = At(a) \/ k = At(a) + 1
      OBVIOUS
    <2>2. At(a) \in 0..L /\ L \in 0..(Ring - 2) /\ Ring \in Nat
      BY <1>1, RingFacts
    <2> HIDE DEF L, from, hits
    <2>3. \A m, l \in Int : 0 <= m /\ m <= l /\ l <= Ring - 2
             => {m, m + 1} \subseteq 0..(l + 1) /\ {m, m + 1} \subseteq 0..(Ring - 1)
      BY <2>2
    <2>4. At(a) \in Int /\ L \in Int /\ 0 <= At(a) /\ At(a) <= L /\ L <= Ring - 2
      BY <2>2
    <2> QED BY <2>1, <2>3, <2>4
  <1>a. k \in Int /\ L \in Int /\ Ring \in Int /\ 0 <= k /\ k <= L + 1 /\ 0 <= L /\ L <= Ring - 2
    BY <1>1, <1>2, RingFacts
  <1>3. from = Nth(a, k) /\ from \in Slot
    <2>1. past => from = Fix(Fix(a.begin + At(a)) + 1)
      BY <1>1 DEF Start, FWD, Nth
    <2>2. Fix(Fix(a.begin + At(a)) + 1) = Fix(a.begin + (At(a) + 1))
      <3>1. At(a) \in 0..Ring /\ 1 \in 0..Ring /\ At(a) + 1 <= Ring
        <4>1. At(a) \in 0..L /\ L \in 0..(Ring - 2)
          BY <1>1
        <4> HIDE DEF L, from, hits
        <4> QED BY <4>1, RingFacts
      <3> QED BY <1>1, <3>1, Turns
    <2>3. from = Nth(a, k)
      BY <1>1, <2>1, <2>2 DEF Start, Nth
    <2> QED BY <1>1, <1>2, <2>3
  <1> HIDE DEF from, L
  <1>4. \A d \in 0..Ring : k + d <= Ring => Fix(from + FWD * d) = Nth(a, k + d)
    <2> TAKE d \in 0..Ring
    <2>1. FWD * d = d /\ k \in 0..Ring
      BY <1>2, RingFacts DEF FWD
    <2>2. k + d <= Ring => Fix(Fix(a.begin + k) + d) = Fix(a.begin + (k + d))
      BY <1>1, <2>1, Turns
    <2> QED BY <1>3, <2>1, <2>2 DEF Nth
  <1>5. \A i \in 0..(Ring - 1) : InRange(a, Nth(a, i)) <=> i <= L
    <2> TAKE i \in 0..(Ring - 1)
    <2>1. Distance(a.begin, Nth(a, i), FWD) = i
      BY <1>1, Turns DEF Nth
    <2>2. Far(a, FWD) = a.begin /\ Near(a, FWD) = a.end /\ FWD \in Dir
      BY DEF Far, Near, Dir
    <2> QED BY <1>1, <2>1, <2>2, InArc DEF Reach, L
  <1>6. \A s \in Slot : Distance(from, s, FWD) \in 0..(Ring - 1)
                        /\ Fix(from + Distance(from, s, FWD)) = s
    BY <1>3, Turns
  <1>7. \A j \in k..L : Distance(from, Nth(a, j), FWD) = j - k
    <2> TAKE j \in k..L
    <2>1. j - k \in 0..(Ring - 1) /\ j - k \in 0..Ring /\ k + (j - k) = j /\ j <= Ring
      BY <1>a
    <2>2. Fix(from + (j - k)) = Nth(a, j)
      <3>1. FWD * (j - k) = j - k
        BY <2>1 DEF FWD
      <3> QED BY <1>4, <2>1, <3>1
    <2>3. Distance(from, Fix(from + (j - k)), FWD) = j - k
      BY <1>3, <2>1, Turns
    <2> QED BY <2>2, <2>3
  <1>8. \A j \in k..L : Nth(a, j) \in Ahead(a, from, FWD)
    <2> TAKE j \in k..L
    <2>1. j \in 0..(Ring - 1) /\ j \in Int /\ j <= L
      BY <1>a
    <2>3. Nth(a, j) \in Slot /\ Distance(from, Nth(a, j), FWD) = j - k
      BY <1>1, <1>7, <2>1
    <2>2. ASSUME NEW d \in 0..(j - k) PROVE InRange(a, Fix(from + FWD * d))
      <3>1. d \in 0..Ring /\ k + d <= Ring /\ k + d \in 0..(Ring - 1) /\ k + d <= L
        BY <1>a, <2>1
      <3>2. Fix(from + FWD * d) = Nth(a, k + d)
        BY <1>4, <3>1
      <3> QED BY <1>5, <3>1, <3>2
    <2> QED BY <2>2, <2>3 DEF Ahead
  <1>9. \A s \in Ahead(a, from, FWD) : \E j \in k..L : s = Nth(a, j)
    <2> TAKE s \in Ahead(a, from, FWD)
    <2> DEFINE D == Distance(from, s, FWD)
    <2>1. s \in Slot /\ \A d \in 0..D : InRange(a, Fix(from + FWD * d))
      BY DEF Ahead
    <2>2. D \in 0..(Ring - 1) /\ Fix(from + D) = s
      BY <1>6, <2>1
    <2> HIDE DEF D
    <2>3. CASE k + D <= L
      <3>1. D \in 0..Ring /\ k + D <= Ring /\ k + D \in k..L /\ FWD * D = D
        BY <1>a, <2>2, <2>3 DEF FWD
      <3>2. Fix(from + FWD * D) = Nth(a, k + D)
        BY <1>4, <3>1
      <3> QED BY <2>2, <3>1, <3>2
    <2>4. CASE ~(k + D <= L)
      <3> DEFINE d == L + 1 - k
      <3>1. d \in 0..D /\ d \in 0..Ring /\ k + d = L + 1 /\ L + 1 <= Ring /\ L + 1 \in 0..(Ring - 1)
        BY <1>a, <2>2, <2>4
      <3>2. Fix(from + FWD * d) = Nth(a, L + 1) /\ InRange(a, Fix(from + FWD * d))
        <4> HIDE DEF d
        <4> QED BY <1>4, <2>1, <3>1
      <3>3. L + 1 <= L
        BY <1>5, <3>1, <3>2
      <3> QED BY <1>1, <3>3, RingFacts
    <2> QED BY <2>3, <2>4
  <1>10. Search(a, FWD, past) = Nearest(hits, from, FWD)
    BY <1>1, RingFacts DEF Search, from
  <1>11. hits \in SUBSET Slot /\ from \in Int /\ FWD \in Dir
    BY <1>3, RingFacts DEF Ahead, Dir
  <1>12. CASE hits = {}
    <2>1. \A j \in k..L : Item(a, j) = Nil
      BY <1>8, <1>12 DEF Item
    <2> QED BY <1>10, <1>12, <2>1 DEF FirstIs, Nearest, L
  <1>13. CASE hits # {}
    <2> DEFINE s == Nearest(hits, from, FWD)
    <2>1. s \in hits /\ \A t \in hits : Distance(from, s, FWD) <= Distance(from, t, FWD)
      <3> HIDE DEF hits
      <3> QED BY <1>11, <1>13, NearestIs
    <2> HIDE DEF s
    <2>2. PICK j \in k..L : s = Nth(a, j)
      BY <1>9, <2>1
    <2>3. Item(a, j) # Nil /\ j \in Int
      BY <2>1, <2>2 DEF Item
    <2>4. ASSUME NEW i \in k..(j - 1), Item(a, i) # Nil PROVE FALSE
      <3>1. i \in k..L /\ i < j
        BY <1>1, <1>2, <2>3
      <3>2. Nth(a, i) \in hits
        BY <1>8, <2>4, <3>1 DEF Item
      <3>3. j - k <= i - k
        BY <1>7, <2>1, <2>2, <3>1, <3>2
      <3> QED BY <1>2, <2>3, <3>1, <3>3
    <2>5. FirstIs(a, k, s)
      BY <2>2, <2>3, <2>4 DEF FirstIs, L
    <2> QED BY <1>10, <2>5 DEF s
  <1> QED BY <1>12, <1>13 DEF L

(* What a page makes of the window: one slot at least stays outside it, unless *)
(* it becomes the whole ring, and its first slot changes only when BOF_AT is    *)
(* forgotten.                                                                  *)
LEMMA WindowGrows ==
    ASSUME NEW a \in Area, Span(a), NEW f \in 1..(Ring - 4), NEW w, w = Window(a, FWD, f)
    PROVE  /\ w.pos = a.pos /\ w.begin \in Slot /\ w.end = Fix(a.pos + f) /\ w.end \in Slot
           /\ At(w) \in 0..(Ring - 2) /\ Reach(w) = At(w) + f /\ Reach(w) <= Ring - 1
           /\ Reach(w) = Ring - 1 => w.begin = 1 /\ w.end = Ring
           /\ w.bofAt \in {0, a.bofAt}
           /\ w.bofAt # 0 => w.begin = a.begin /\ At(w) = At(a)
           /\ w.aCache = a.aCache /\ w.recno = a.recno /\ w.deleted = a.deleted /\ SameFlags(w, a)
  <1> DEFINE p == a.pos
             b == a.begin
             e == a.end
             reach == p + f
  <1>1. a.pos \in Slot /\ a.begin \in Slot /\ a.end \in Slot
        /\ Distance(b, p, FWD) <= Distance(b, e, FWD)
    BY DEF Span, At, Reach
  <1>2. /\ w.aCache = a.aCache /\ w.pos = a.pos /\ w.recno = a.recno /\ w.deleted = a.deleted
        /\ SameFlags(w, a) /\ w.bofAt \in {0, a.bofAt}
        /\ w.end = Fix(reach)
        /\ w.begin = IF Pushes(a, FWD, f) THEN Fix(reach + 2) ELSE b
        /\ Pushes(a, FWD, f) => w.bofAt = 0
    <2>1. FWD \in Dir /\ a.pos + FWD * f = reach /\ 2 * FWD = 2 /\ FWD # BWD
      BY <1>1, RingFacts DEF Dir, FWD, BWD
    <2> HIDE DEF reach
    <2>2. Near(w, FWD) = w.end /\ Far(w, FWD) = w.begin /\ Far(a, FWD) = b
      BY <2>1 DEF Near, Far
    <2> QED BY <1>1, <2>1, <2>2, WindowIs
  <1>3. Pushes(a, FWD, f) <=> /\ b # e
                              /\ b < e => reach \notin Slot
                              /\ (IF b < e THEN Fix(reach) ELSE reach) >= b - 2
    <2>1. a.pos + FWD * f = reach
      BY <1>1, RingFacts DEF FWD
    <2> HIDE DEF reach
    <2> QED BY <2>1 DEF Pushes
  <1>4. /\ p \in 1..Ring /\ b \in 1..Ring /\ e \in 1..Ring /\ Ring \in Nat /\ Ring >= 5
        /\ f \in 1..(Ring - 4) /\ Slot = 1..Ring
    BY <1>1, RingFacts
  <1>5. /\ Distance(b, p, FWD) = IF p >= b THEN p - b ELSE p - b + Ring
        /\ Distance(b, e, FWD) = IF e >= b THEN e - b ELSE e - b + Ring
    BY <1>1, DistanceIs
  <1> HIDE DEF p, b, e
  <1>6. Fix(reach) = (IF reach > Ring THEN reach - Ring ELSE reach) /\ reach = p + f /\ reach >= 2
    BY <1>4 DEF Fix
  <1>7. Fix(reach + 2) = IF reach + 2 > Ring THEN reach + 2 - Ring ELSE reach + 2
    BY <1>4 DEF Fix
  <1> HIDE DEF reach
  <1>8. w.begin \in 1..Ring /\ w.end \in 1..Ring /\ w.pos = p
    BY SMTT(30), <1>2, <1>4, <1>6, <1>7 DEF p
  <1>9. Distance(w.begin, p, FWD) = IF p >= w.begin THEN p - w.begin ELSE p - w.begin + Ring
    BY <1>4, <1>8, DistanceIs
  <1> DEFINE m == Distance(w.begin, p, FWD)
  <1>10. /\ m \in 0..(Ring - 2) /\ m + f <= Ring - 1
         /\ m + f = Ring - 1 => w.begin = 1 /\ w.end = Ring
    <2> HIDE DEF m
    <2>1. m = IF p >= w.begin THEN p - w.begin ELSE p - w.begin + Ring
      BY <1>9 DEF m
    <2>2. CASE Pushes(a, FWD, f)
      <3>1. w.begin = IF reach + 2 > Ring THEN reach + 2 - Ring ELSE reach + 2
        BY <1>2, <1>7, <2>2
      <3> QED BY <1>4, <1>6, <2>1, <3>1
    <2>3. CASE ~Pushes(a, FWD, f)
      <3>1. w.begin = b /\ (IF p >= b THEN p - b ELSE p - b + Ring) <= (IF e >= b THEN e - b ELSE e - b + Ring)
        BY <1>1, <1>2, <1>5, <2>3
      <3>2. \/ b = e
            \/ b < e /\ reach <= Ring
            \/ b < e /\ reach > Ring /\ reach - Ring < b - 2
            \/ b > e /\ reach < b - 2
        BY <1>3, <1>4, <1>6, <2>3
      <3>3. w.end = IF reach > Ring THEN reach - Ring ELSE reach
        BY <1>2, <1>6
      <3> QED BY <1>4, <1>6, <2>1, <3>1, <3>2, <3>3
    <2> QED BY <2>2, <2>3
  <1>11. Distance(w.begin, w.end, FWD) = m + f
    <2>1. w.begin \in Slot /\ p \in Slot /\ m \in 0..Ring /\ f \in 0..Ring /\ m + f <= Ring
          /\ m + f \in 0..(Ring - 1)
      <3> HIDE DEF m
      <3> QED BY <1>4, <1>8, <1>10
    <2>2. Fix(w.begin + m) = p
      BY <2>1, Turns
    <2>3. Fix(Fix(w.begin + m) + f) = Fix(w.begin + (m + f))
      <3> HIDE DEF m
      <3> QED BY <2>1, Turns
    <2>4. Distance(w.begin, Fix(w.begin + (m + f)), FWD) = m + f
      <3> HIDE DEF m
      <3> QED BY <2>1, Turns
    <2> QED BY <1>2, <2>2, <2>3, <2>4 DEF reach
  <1>12. At(w) = m /\ Reach(w) = m + f
    BY <1>8, <1>11 DEF At, Reach
  <1>13. w.bofAt # 0 => w.begin = a.begin /\ At(w) = At(a)
    BY <1>2, <1>8 DEF At, b, p
  <1> HIDE DEF m
  <1> QED BY <1>2, <1>4, <1>8, <1>10, <1>12, <1>13 DEF p, reach

(* A member that comes before another has a lower rank. *)
LEMMA RanksInOrder ==
    ASSUME NEW A \in SUBSET Int, IsFiniteSet(A), NEW dir \in Dir, NEW x \in A, NEW y \in A
    PROVE  /\ Cardinality(UpTo(A, dir, x)) \in 1..Cardinality(A)
           /\ dir * x < dir * y <=> Cardinality(UpTo(A, dir, x)) < Cardinality(UpTo(A, dir, y))
           /\ Cardinality(UpTo(A, dir, x)) = Cardinality(UpTo(A, dir, y)) => x = y
  <1>1. \A z \in A : dir * z \in Int
    BY Directions
  <1>2. \A z \in A : /\ UpTo(A, dir, z) \in SUBSET A /\ z \in UpTo(A, dir, z)
                     /\ IsFiniteSet(UpTo(A, dir, z))
                     /\ Cardinality(UpTo(A, dir, z)) \in 1..Cardinality(A)
    <2> TAKE z \in A
    <2>1. UpTo(A, dir, z) \in SUBSET A /\ z \in UpTo(A, dir, z)
      BY <1>1 DEF UpTo
    <2>2. IsFiniteSet(UpTo(A, dir, z)) /\ Cardinality(UpTo(A, dir, z)) <= Cardinality(A)
      BY <2>1, FS_Subset
    <2>3. Cardinality(UpTo(A, dir, z)) \in Nat /\ Cardinality(A) \in Nat
      BY <2>2, FS_CardinalityType
    <2>4. Cardinality(UpTo(A, dir, z)) # 0
      BY <2>1, <2>2, FS_EmptySet
    <2> QED BY <2>1, <2>2, <2>3, <2>4
  <1>3. ASSUME NEW v \in A, NEW w \in A, dir * v < dir * w
        PROVE  Cardinality(UpTo(A, dir, v)) < Cardinality(UpTo(A, dir, w))
    <2>1. \A z \in A : dir * z <= dir * v => dir * z <= dir * w
      BY <1>1, <1>3
    <2>2. ~(dir * w <= dir * v)
      BY <1>1, <1>3
    <2>3. UpTo(A, dir, v) \in SUBSET UpTo(A, dir, w) /\ UpTo(A, dir, v) # UpTo(A, dir, w)
      BY <1>2, <2>1, <2>2 DEF UpTo
    <2>4. /\ Cardinality(UpTo(A, dir, v)) <= Cardinality(UpTo(A, dir, w))
          /\ Cardinality(UpTo(A, dir, v)) # Cardinality(UpTo(A, dir, w))
      BY <1>2, <2>3, FS_Subset
    <2> QED BY <1>2, <2>4
  <1>4. dir * x < dir * y \/ dir * y < dir * x \/ x = y
    <2>1. dir * x < dir * y \/ dir * y < dir * x \/ dir * x = dir * y
      BY <1>1
    <2> QED BY <2>1, Directions
  <1>5. /\ Cardinality(UpTo(A, dir, x)) \in Int /\ Cardinality(UpTo(A, dir, y)) \in Int
        /\ dir * x \in Int /\ dir * y \in Int
    BY <1>1, <1>2
  <1> QED BY <1>2, <1>3, <1>4, <1>5

(* A page has rows in their order, and none is left out between them or before *)
(* the first; a page that is not full has all the rows.                        *)
InOrder(P, A, dir, k) ==
    /\ P \in Seq(A) /\ Len(P) <= k
    /\ \A i, j \in 1..Len(P) : i < j => dir * P[i] < dir * P[j]
    /\ \A i \in 1..Len(P), x \in A : dir * x < dir * P[i] => \E j \in 1..(i - 1) : P[j] = x
    /\ Len(P) < k => \A x \in A : \E j \in 1..Len(P) : P[j] = x
    /\ P = <<>> => A = {}

LEMMA PageInOrder ==
    ASSUME NEW S \in SUBSET Rec, NEW r \in Int, NEW dir \in Dir, NEW k \in Nat \ {0},
           NEW A, A = {x \in S : dir * x >= dir * r},
           NEW P, P = RowsFrom(S, r, dir, k)
    PROVE  InOrder(P, A, dir, k)
  <1> DEFINE N == Cardinality(A)
             n == IF N < k THEN N ELSE k
             R(x) == Cardinality(UpTo(A, dir, x))
             row(i) == CHOOSE x \in A : R(x) = i
  <1>1. A \in SUBSET Int /\ IsFiniteSet(A)
    <2>1. A \in SUBSET (1..MaxRec) /\ MaxRec \in Nat
      BY RingFacts
    <2>2. IsFiniteSet(1..MaxRec)
      BY <2>1, FS_Interval
    <2> QED BY <2>1, <2>2, FS_Subset
  <1>2. N \in Nat /\ \A i \in 1..N : \E x \in A : R(x) = i
    <2> HIDE DEF row
    <2> QED BY <1>1, RanksAreAll
  <1>3. P = [i \in 1..n |-> row(i)]
    BY DEF RowsFrom, UpTo
  <1>4. \A x, y \in A : R(x) \in 1..N /\ (dir * x < dir * y <=> R(x) < R(y)) /\ (R(x) = R(y) => x = y)
    <2> HIDE DEF row
    <2> QED BY <1>1, RanksInOrder
  <1>5. \A i \in 1..N : (CHOOSE x \in A : R(x) = i) \in A /\ R(CHOOSE x \in A : R(x) = i) = i
    <2> HIDE DEF R, N
    <2> QED BY <1>2
  <1> HIDE DEF R, N
  <1>6. n \in Nat /\ n <= N /\ n <= k /\ (n < k => n = N)
    BY <1>2
  <1> HIDE DEF n
  <1>7. \A i \in 1..n : row(i) \in A /\ R(row(i)) = i
    BY <1>2, <1>5, <1>6
  <1> HIDE DEF row
  <1>8. P \in Seq(A) /\ Len(P) = n /\ \A i \in 1..n : P[i] \in A /\ R(P[i]) = i
    <2>1. P \in [1..n -> A]
      BY <1>3, <1>7
    <2>2. \A i \in 1..n : P[i] = row(i)
      BY <1>3
    <2>3. P \in Seq(A) /\ Len(P) = n
      BY <1>3, <1>6, <2>1
    <2> QED BY <1>7, <2>2, <2>3
  <1>9. \A i, j \in 1..n : i < j => dir * P[i] < dir * P[j]
    BY <1>4, <1>8
  <1>10. ASSUME NEW x \in A, R(x) <= n PROVE R(x) \in 1..n /\ P[R(x)] = x
    <2>1. R(x) \in 1..n
      BY <1>2, <1>4, <1>6, <1>10
    <2> QED BY <1>4, <1>8, <2>1
  <1>11. ASSUME NEW i \in 1..n, NEW x \in A, dir * x < dir * P[i] PROVE \E j \in 1..(i - 1) : P[j] = x
    <2>1. P[i] \in A /\ R(P[i]) = i /\ R(x) \in 1..N
      BY <1>4, <1>8
    <2>2. R(x) < i
      BY <1>4, <1>11, <2>1
    <2>3. R(x) \in 1..(i - 1) /\ R(x) <= n
      BY <1>2, <1>6, <2>1, <2>2
    <2> QED BY <1>10, <2>3
  <1>12. ASSUME n < k, NEW x \in A PROVE \E j \in 1..n : P[j] = x
    BY <1>2, <1>4, <1>6, <1>10, <1>12
  <1>13. P = <<>> => A = {}
    <2>1. P = <<>> => n = 0
      BY <1>8
    <2>2. n = 0 => n < k
      BY <1>6
    <2> QED BY <1>12, <2>1, <2>2
  <1> QED BY <1>6, <1>8, <1>9, <1>11, <1>12, <1>13 DEF InOrder

(* A page has the rows past record q, in their order, and none is left out. *)
Past(P, T, q) ==
    /\ P \in Seq(T)
    /\ \A i, j \in 1..Len(P) : i < j => P[i] < P[j]
    /\ \A i \in 1..Len(P) : q < P[i]
    /\ \A i \in 1..Len(P), x \in T : q < x /\ x < P[i] => \E j \in 1..(i - 1) : P[j] = x

(* The rows from record r on: all of them when the row of r was deleted, all *)
(* but the first otherwise.                                                  *)
LEMMA PagePast ==
    ASSUME NEW T \in SUBSET Rec, NEW r \in Int, NEW k \in Nat \ {0},
           NEW P, P = RowsFrom(T, r, FWD, k)
    PROVE  /\ P \in Seq(T) /\ Len(P) <= k
           /\ r \notin T => Past(P, T, r)
           /\ P = <<>> => \A x \in T : x < r
           /\ P # <<>> => /\ Past(Tail(P), T, P[1]) /\ r <= P[1] /\ P[1] \in T
                          /\ r \in T => P[1] = r
           /\ Len(P) = 1 /\ k > 1 => \A x \in T : x <= P[1]
  <1> DEFINE A == {x \in T : FWD * x >= FWD * r}
  <1>1. \A x \in T : x \in Int /\ FWD * x = x
    BY RingFacts DEF FWD
  <1>2. FWD * r = r
    BY DEF FWD
  <1>3. \A x : x \in A <=> x \in T /\ x >= r
    BY <1>1, <1>2
  <1>4. InOrder(P, A, FWD, k)
    <2> HIDE DEF A
    <2>1. FWD \in Dir /\ A = {x \in T : FWD * x >= FWD * r}
      BY DEF Dir, A
    <2> QED BY <2>1, PageInOrder
  <1> HIDE DEF A
  <1> DEFINE N == Len(P)
  <1>5. P \in Seq(A) /\ N \in Nat /\ N <= k /\ \A i \in 1..N : P[i] \in A /\ P[i] \in T /\ P[i] \in Int /\ P[i] >= r
    <2>1. P \in Seq(A) /\ N <= k
      BY <1>4 DEF InOrder
    <2>2. N \in Nat /\ \A i \in 1..N : P[i] \in A
      BY <2>1
    <2> QED BY <1>1, <1>3, <2>1, <2>2
  <1>6. \A i, j \in 1..N : i < j => P[i] < P[j]
    BY <1>1, <1>4, <1>5 DEF InOrder
  <1>7. \A i \in 1..N, x \in T : x >= r /\ x < P[i] => \E j \in 1..(i - 1) : P[j] = x
    BY <1>1, <1>3, <1>4, <1>5 DEF InOrder
  <1>8. N < k => \A x \in T : x >= r => \E j \in 1..N : P[j] = x
    BY <1>3, <1>4 DEF InOrder
  <1>9. P = <<>> => \A x \in T : x < r
    BY <1>1, <1>3, <1>4 DEF InOrder
  <1>10. P \in Seq(T)
    <2>1. A \in SUBSET T
      BY <1>3
    <2> QED BY <1>5, <2>1
  <1>11. ASSUME r \notin T PROVE Past(P, T, r)
    <2>1. \A i \in 1..N : r < P[i]
      BY <1>5, <1>11
    <2>2. \A i \in 1..N, x \in T : r < x /\ x < P[i] => \E j \in 1..(i - 1) : P[j] = x
      BY <1>1, <1>7
    <2> QED BY <1>6, <1>10, <2>1, <2>2 DEF Past
  <1>12. ASSUME P # <<>>
         PROVE  /\ Past(Tail(P), T, P[1]) /\ r <= P[1] /\ P[1] \in T
                /\ r \in T => P[1] = r
    <2> DEFINE Q == Tail(P)
    <2>1. N >= 1 /\ 1 \in 1..N
      BY <1>5, <1>12
    <2>2. Q \in Seq(T) /\ Len(Q) = N - 1 /\ \A i \in 1..(N - 1) : Q[i] = P[i + 1]
      BY <1>10, <1>12, <2>1
    <2> HIDE DEF Q
    <2>3. \A i \in 1..(N - 1) : i + 1 \in 1..N /\ 1 < i + 1
      BY <1>5
    <2>4. \A i, j \in 1..(N - 1) : i < j => Q[i] < Q[j]
      <3> TAKE i, j \in 1..(N - 1)
      <3>1. i < j => i + 1 < j + 1
        BY <1>5
      <3> QED BY <1>6, <2>2, <2>3, <3>1
    <2>5. \A i \in 1..(N - 1) : P[1] < Q[i]
      BY <1>6, <2>1, <2>2, <2>3
    <2>6. ASSUME NEW i \in 1..(N - 1), NEW x \in T, P[1] < x, x < Q[i] PROVE \E j \in 1..(i - 1) : Q[j] = x
      <3>1. x >= r /\ x < P[i + 1] /\ x \in Int /\ i + 1 \in 1..N
        BY <1>1, <1>5, <2>1, <2>2, <2>3, <2>6
      <3>2. PICK j \in 1..((i + 1) - 1) : P[j] = x
        BY <1>7, <3>1
      <3>3. j # 1 /\ j \in Int /\ N \in Int
        BY <1>5, <2>1, <2>6, <3>1, <3>2
      <3>4. j - 1 \in 1..(i - 1) /\ j - 1 \in 1..(N - 1) /\ (j - 1) + 1 = j
        BY <3>2, <3>3
      <3>5. Q[j - 1] = x
        BY <2>2, <3>2, <3>4
      <3> QED BY <3>4, <3>5
    <2>7. Past(Q, T, P[1])
      BY <2>2, <2>4, <2>5, <2>6 DEF Past
    <2>8. r \in T => P[1] = r
      <3>1. r \in T /\ r < P[1] => \E j \in 1..(1 - 1) : P[j] = r
        BY <1>7, <2>1
      <3> QED BY <1>5, <2>1, <3>1
    <2> QED BY <1>5, <2>1, <2>7, <2>8 DEF Q
  <1>13. ASSUME N = 1, k > 1, NEW x \in T PROVE x <= P[1]
    <2>1. P[1] \in Int /\ P[1] >= r /\ x \in Int
      BY <1>1, <1>5, <1>13
    <2>2. x >= r => x = P[1]
      BY <1>8, <1>13
    <2> QED BY <2>1, <2>2
  <1> QED BY <1>5, <1>9, <1>10, <1>11, <1>12, <1>13

(* Slots of a window that starts in slot o: those of a page laid from place m on. *)
LEMMA LaidFrom ==
    ASSUME NEW o \in Slot, NEW m \in 1..(Ring - 1), NEW L \in 1..(Ring - m)
    PROVE  /\ \A i \in 0..(m - 1) : Distance(Fix(o + m), Fix(o + i), FWD) >= L
           /\ \A i \in m..(m + L - 1) : Distance(Fix(o + m), Fix(o + i), FWD) = i - m
  <1>1. m \in Int /\ L \in Int /\ Ring \in Int /\ 1 <= m /\ 1 <= L /\ m + L <= Ring
    BY RingFacts
  <1>2. Fix(o + m) \in Slot
    BY <1>1, Turns
  <1>3. ASSUME NEW i \in 0..(m - 1) PROVE Distance(Fix(o + m), Fix(o + i), FWD) >= L
    <2> DEFINE s == Fix(o + m)
               d == Ring - m + i
    <2>1. d \in 0..(Ring - 1) /\ m \in 0..Ring /\ i \in 0..(Ring - 1) /\ d >= L /\ d \in Int
      BY <1>1
    <2>2. s \in Slot /\ Fix(o + i) \in Slot /\ s = (IF o + m > Ring THEN o + m - Ring ELSE o + m)
          /\ Fix(o + i) = (IF o + i > Ring THEN o + i - Ring ELSE o + i)
      <3>1. s \in Slot /\ Fix(o + i) \in Slot
        BY <1>2, <2>1, Turns
      <3>2. o \in Int /\ i \in Int
        BY <2>1, RingFacts
      <3> QED BY <1>1, <3>1, <3>2, RingFacts DEF Fix
    <2> DEFINE t == Fix(o + i)
    <2>3. Distance(s, t, FWD) = IF t >= s THEN t - s ELSE t - s + Ring
      BY <2>2, DistanceIs
    <2>4. o \in 1..Ring /\ s \in 1..Ring /\ t \in 1..Ring
      BY <2>2, RingFacts
    <2> HIDE DEF s, t
    <2>5. Distance(s, t, FWD) = d
      BY <1>1, <2>2, <2>3, <2>4 DEF t
    <2> QED BY <2>1, <2>5 DEF s, t
  <1>4. ASSUME NEW i \in m..(m + L - 1) PROVE Distance(Fix(o + m), Fix(o + i), FWD) = i - m
    <2>1. m \in 0..Ring /\ i - m \in 0..Ring /\ m + (i - m) = i /\ i <= Ring /\ i - m \in 0..(Ring - 1)
      BY <1>1
    <2>2. Fix(Fix(o + m) + (i - m)) = Fix(o + i)
      BY <2>1, Turns
    <2> DEFINE s == Fix(o + m)
    <2> HIDE DEF s
    <2>3. s \in Slot
      BY <1>2 DEF s
    <2>4. Distance(s, Fix(s + (i - m)), FWD) = i - m
      BY <2>1, <2>3, Turns
    <2> QED BY <2>2, <2>4 DEF s
  <1> QED BY <1>3, <1>4

(* What storing a page makes of an area, whether or not the current slot is empty. *)
StoredOn(b, w, F, f, from, page) ==
    /\ b.aCache = F /\ b.pos = w.pos /\ b.begin = w.begin /\ b.bofAt = w.bofAt
    /\ b.end = IF Len(page) > f THEN w.end ELSE Fix(from + (Len(page) - 1))
    /\ b.recno = IF F[w.pos] = Nil THEN w.recno ELSE F[w.pos]
    /\ b.deleted = IF F[w.pos] = Nil THEN w.deleted ELSE FALSE
    /\ SameFlags(b, w)

LEMMA StoredForward ==
    ASSUME NEW w \in Area, w.pos \in Slot, NEW f \in Nat,
           NEW from \in Slot, NEW page, Len(page) \in Nat \ {0},
           NEW F, F = Stocked(w.aCache, from, FWD, page),
           NEW b, b = StoreFrom(w, from, FWD, f, from, page)
    PROVE  StoredOn(b, w, F, f, from, page)
  <1> DEFINE L == Len(page)
             g == Fix(from + FWD * (L - 1))
             v == [w EXCEPT !.aCache = Filled(@, from, from, FWD, page)]
             c == IF L > f THEN v ELSE EndKnown(v, FWD, page[L], g)
  <1>1. b = Arrived(c)
    BY DEF StoreFrom
  <1>2. FWD \in Dir /\ Filled(w.aCache, from, from, FWD, page) = F
    BY FilledIs DEF Dir
  <1>3. g = Fix(from + (L - 1))
    BY DEF FWD
  <1>4. c = [w EXCEPT !.aCache = F, !.eofAt = IF L > f THEN w.eofAt ELSE page[L],
                      !.end = IF L > f THEN w.end ELSE Fix(from + (L - 1))]
    <2>1. v = [w EXCEPT !.aCache = F]
      BY <1>2
    <2> HIDE DEF v, g
    <2>2. c = IF L > f THEN v ELSE [v EXCEPT !.eofAt = page[L], !.end = g]
      BY DEF EndKnown
    <2> QED BY <1>3, <2>1, <2>2 DEF Area
  <1> HIDE DEF c
  <1>5. c.aCache = F /\ c.pos = w.pos
    BY <1>4 DEF Area
  <1>6. CASE F[w.pos] = Nil
    <2>1. b = c
      BY <1>1, <1>5, <1>6 DEF Arrived
    <2> QED BY <1>4, <1>6, <2>1 DEF Area, SameFlags, StoredOn
  <1>7. CASE F[w.pos] # Nil
    <2>1. b = [c EXCEPT !.pos = c.pos, !.recno = c.aCache[c.pos], !.deleted = FALSE]
      BY <1>1, <1>5, <1>7 DEF Arrived, SetCurrent
    <2> QED BY <1>4, <1>5, <1>7, <2>1 DEF Area, SameFlags, StoredOn
  <1> QED BY <1>6, <1>7

(* A page is laid past the current slot of the window, whose slots up to it are *)
(* kept.                                                                        *)
Laid(b, a, page, c) ==
    /\ Span(b) /\ Reach(b) = At(b) + c /\ b.pos = a.pos
    /\ \A i \in 1..c : Item(b, At(b) + i) = page[i]
    /\ \A i \in 0..At(b) : Nth(b, i) \in Slot /\ Item(b, i) = a.aCache[Nth(b, i)]
    /\ b.recno = IF a.aCache[a.pos] = Nil THEN a.recno ELSE a.aCache[a.pos]
    /\ b.deleted = IF a.aCache[a.pos] = Nil THEN a.deleted ELSE FALSE
    /\ SameFlags(b, a)
    /\ b.bofAt \in {0, a.bofAt}
    /\ b.bofAt # 0 => b.begin = a.begin /\ At(b) = At(a)

LEMMA PageLaid ==
    ASSUME NEW T, NEW n, Rows(T, n), NEW a, Good(a, T), Span(a), NEW f \in 1..(Ring - 4),
           NEW page, Len(page) \in 1..(f + 1),
           NEW c, c = (IF Len(page) > f THEN f ELSE Len(page)),
           NEW b, b = Store(a, FWD, f, Fix(a.pos + FWD), page), ~(b.begin = 1 /\ b.end = Ring)
    PROVE  Laid(b, a, page, c)
  <1> DEFINE L == Len(page)
             w == Window(a, FWD, f)
             from == Fix(a.pos + 1)
             F == Stocked(a.aCache, from, FWD, page)
  <1>1. a \in Area /\ a.pos \in Slot /\ FWD \in Dir
    BY DEF Good, Span, Dir
  <1>2. /\ w.pos = a.pos /\ w.begin \in Slot /\ w.end = Fix(a.pos + f) /\ w.end \in Slot
        /\ At(w) \in 0..(Ring - 2) /\ Reach(w) = At(w) + f /\ Reach(w) <= Ring - 1
        /\ Reach(w) = Ring - 1 => w.begin = 1 /\ w.end = Ring
        /\ w.bofAt \in {0, a.bofAt}
        /\ w.bofAt # 0 => w.begin = a.begin /\ At(w) = At(a)
        /\ w.aCache = a.aCache /\ w.recno = a.recno /\ w.deleted = a.deleted /\ SameFlags(w, a)
    BY <1>1, WindowGrows
  <1>3. w \in Area
    BY <1>1, WindowGood DEF Good
  <1>4. b = StoreFrom(w, from, FWD, f, from, page)
    <2>1. a.end # 0 /\ Fix(a.pos + FWD) = from
      BY RingFacts DEF Span, FWD
    <2> HIDE DEF w, from
    <2>2. b = StoreIn(w, FALSE, FWD, f, from, page)
      BY <2>1 DEF Store, w
    <2> QED BY <1>2, <2>1, <2>2 DEF StoreIn
  <1>5. from \in Slot
    <2>1. from = Fix(a.pos + FWD)
      BY DEF FWD
    <2> HIDE DEF from
    <2> QED BY <1>1, <2>1, StepOn
  <1> HIDE DEF w
  <1>6. /\ b.aCache = F /\ b.pos = w.pos /\ b.begin = w.begin /\ b.bofAt = w.bofAt
        /\ b.end = IF L > f THEN w.end ELSE Fix(from + (L - 1))
        /\ b.recno = IF F[w.pos] = Nil THEN w.recno ELSE F[w.pos]
        /\ b.deleted = IF F[w.pos] = Nil THEN w.deleted ELSE FALSE
        /\ SameFlags(b, w)
    <2>1. w.pos \in Slot /\ F = Stocked(w.aCache, from, FWD, page) /\ f \in Nat /\ Len(page) \in Nat \ {0}
      BY <1>1, <1>2, RingFacts
    <2> HIDE DEF F, from
    <2>2. StoredOn(b, w, F, f, from, page)
      BY <1>3, <1>4, <1>5, <2>1, StoredForward
    <2> QED BY <2>2 DEF StoredOn
  <1> DEFINE o == w.begin
             m == At(w) + 1
  <1>7. /\ o \in Slot /\ m \in 1..(Ring - 1) /\ f \in Nat /\ f >= 1 /\ L \in Int /\ 1 <= L /\ L <= f + 1
        /\ Ring \in Int /\ At(w) \in Int /\ c \in 1..f /\ c \in Int /\ c <= L
    BY <1>2, RingFacts
  <1>8. At(b) = At(w)
    BY <1>6 DEF At
  <1>9. w.pos = Fix(o + At(w)) /\ from = Fix(o + m)
    <2>1. Fix(o + At(w)) = w.pos
      BY <1>1, <1>2, Turns DEF At
    <2>2. At(w) \in 0..Ring /\ 1 \in 0..Ring /\ At(w) + 1 <= Ring
      BY <1>7
    <2>3. Fix(Fix(o + At(w)) + 1) = Fix(o + (At(w) + 1))
      BY <1>7, <2>2, Turns
    <2> QED BY <1>2, <2>1, <2>3
  <1>10. b.end = Fix(w.pos + c)
    <2>1. CASE L > f
      BY <1>2, <1>6, <2>1
    <2>2. CASE ~(L > f)
      <3>1. 1 \in 0..Ring /\ L - 1 \in 0..Ring /\ 1 + (L - 1) <= Ring /\ 1 + (L - 1) = L
        BY <1>7, <2>2, RingFacts
      <3>2. Fix(Fix(a.pos + 1) + (L - 1)) = Fix(a.pos + (1 + (L - 1)))
        <4> HIDE DEF L
        <4> QED BY <1>1, <3>1, Turns
      <3> QED BY <1>2, <1>6, <2>2, <3>1, <3>2
    <2> QED BY <2>1, <2>2
  <1>11. At(w) + c <= Ring - 1 /\ At(w) + c \in 0..(Ring - 1)
    BY <1>2, <1>7
  <1>12. b.end = Fix(o + (At(w) + c)) /\ Reach(b) = At(w) + c /\ b.end \in Slot
    <2>1. At(w) \in 0..Ring /\ c \in 0..Ring /\ At(w) + c <= Ring
      BY <1>2, <1>7, <1>11
    <2>2. Fix(Fix(o + At(w)) + c) = Fix(o + (At(w) + c))
      BY <1>7, <2>1, Turns
    <2>3. b.end = Fix(o + (At(w) + c))
      BY <1>9, <1>10, <2>2
    <2>4. Distance(o, Fix(o + (At(w) + c)), FWD) = At(w) + c /\ Fix(o + (At(w) + c)) \in Slot
      BY <1>7, <1>11, Turns
    <2> QED BY <1>6, <2>3, <2>4 DEF Reach
  <1>13. Reach(b) <= Ring - 2
    <2> SUFFICES ASSUME At(w) + c = Ring - 1 PROVE FALSE
      BY <1>7, <1>11, <1>12
    <2>1. c = f /\ Reach(w) = Ring - 1
      BY <1>2, <1>7
    <2>2. b.end = w.end
      BY <1>2, <1>10, <2>1
    <2> QED BY <1>2, <1>6, <2>1, <2>2
  <1>14. L <= c + 1 /\ L \in 1..(Ring - m)
    BY <1>7, <1>12, <1>13
  <1> HIDE DEF L, m, o
  <1>15. /\ \A i \in 0..(m - 1) : Distance(from, Fix(o + i), FWD) >= L
         /\ \A i \in m..(m + L - 1) : Distance(from, Fix(o + i), FWD) = i - m
    BY <1>7, <1>9, <1>14, LaidFrom
  <1>16. \A i \in 0..(Ring - 1) : Nth(b, i) = Fix(o + i) /\ Fix(o + i) \in Slot
    BY <1>6, <1>7, Turns DEF Nth, o
  <1>17. m = At(w) + 1 /\ m \in Int
    BY <1>7 DEF m
  <1>18. ASSUME NEW i \in 0..At(w) PROVE Nth(b, i) \in Slot /\ Item(b, i) = a.aCache[Nth(b, i)]
    <2>1. i \in 0..(m - 1) /\ i \in 0..(Ring - 1)
      BY <1>7, <1>17
    <2>2. Distance(from, Nth(b, i), FWD) >= L /\ Nth(b, i) \in Slot
      BY <1>15, <1>16, <2>1
    <2>3. Distance(from, Nth(b, i), FWD) \in Int
      BY <1>5, <2>2, Turns
    <2>4. ~(Distance(from, Nth(b, i), FWD) < Len(page))
      BY <1>7, <2>2, <2>3 DEF L
    <2> QED BY <1>6, <2>2, <2>4 DEF Item, Stocked
  <1>19. ASSUME NEW i \in 1..c PROVE Item(b, At(w) + i) = page[i]
    <2>1. At(w) + i \in m..(m + L - 1) /\ At(w) + i \in 0..(Ring - 1) /\ (At(w) + i) - m = i - 1
      BY SMTT(30), <1>7, <1>11, <1>17
    <2>2. Distance(from, Nth(b, At(w) + i), FWD) = i - 1 /\ Nth(b, At(w) + i) \in Slot
      BY <1>15, <1>16, <2>1
    <2>3. i - 1 < Len(page) /\ (i - 1) + 1 = i
      BY <1>7 DEF L
    <2> QED BY <1>6, <2>2, <2>3 DEF Item, Stocked
  <1>20. F[w.pos] = a.aCache[a.pos]
    <2>1. At(w) \in 0..At(w) /\ Nth(b, At(w)) = w.pos
      BY <1>2, <1>7, <1>9, <1>16
    <2> QED BY <1>2, <1>6, <1>18, <2>1 DEF Item
  <1>21. Span(b)
    BY <1>1, <1>2, <1>6, <1>7, <1>8, <1>12, <1>13 DEF Span, o
  <1>22. SameFlags(b, a)
    BY <1>2, <1>6 DEF SameFlags
  <1>23. b.bofAt # 0 => b.begin = a.begin /\ At(b) = At(a)
    BY <1>2, <1>6, <1>8
  <1> QED BY <1>2, <1>6, <1>8, <1>12, <1>18, <1>19, <1>20, <1>21, <1>22, <1>23 DEF Laid

(* The window of the first page read into an empty one. *)
LEMMA FirstWindow ==
    ASSUME NEW T, NEW a, Good(a, T), a.end = 0, NEW f \in 1..(Ring - 4), NEW dir \in Dir,
           NEW w, w = Window(a, dir, f)
    PROVE  /\ w.aCache = a.aCache /\ w.recno = a.recno /\ SameFlags(w, a) /\ w.bofAt = a.bofAt
           /\ w.pos = (IF dir = FWD THEN 1 ELSE Ring)
           /\ w.begin = (IF dir = FWD THEN 1 ELSE Ring - f)
           /\ w.end = (IF dir = FWD THEN f ELSE Ring)
  <1>1. a \in Area /\ a.pos = 0 /\ a.begin = 0 /\ f \in 1..Ring /\ Ring \in Int
    BY RingFacts DEF Good, Shape
  <1>2. w = Moved(a, dir, f, FALSE)
    BY <1>1 DEF Window
  <1>3. CASE dir = FWD
    <2>1. Fix(0 + dir * f) = f
      BY <1>1, <1>3 DEF Fix, FWD
    <2>2. w = [a EXCEPT !.begin = 1, !.end = Fix(0 + dir * f), !.eofAt = 0, !.bofAt = a.bofAt, !.pos = 1]
      BY <1>1, <1>2, <1>3 DEF Moved, Area
    <2> QED BY <1>1, <1>3, <2>1, <2>2 DEF Area, SameFlags
  <1>4. CASE dir # FWD
    <2>1. dir = -1 /\ 0 + dir * f = -f
      BY <1>1, <1>4 DEF Dir, FWD, BWD
    <2>2. Fix(0 + dir * f) = Ring - f
      <3> DEFINE x == 0 + dir * f
      <3>1. x = -f
        BY <2>1
      <3> HIDE DEF x
      <3>2. Fix(x) = Ring - f
        BY <1>1, <3>1 DEF Fix
      <3> QED BY <3>2 DEF x
    <2>3. w = [a EXCEPT !.begin = Fix(0 + dir * f), !.end = Ring, !.eofAt = 0, !.bofAt = a.bofAt, !.pos = Ring]
      BY <1>1, <1>2, <1>4 DEF Moved, Area
    <2> QED BY <1>1, <1>4, <2>2, <2>3 DEF Area, SameFlags
  <1> QED BY <1>3, <1>4

Opens(b, a, page) ==
    /\ Span(b) /\ b.recno = page[1] /\ b.deleted = FALSE /\ SameFlags(b, a)
    /\ Item(b, At(b)) = page[1]

LEMMA OpenedForward ==
    ASSUME NEW T, NEW n, Rows(T, n), NEW a, Good(a, T), a.end = 0, NEW f \in 1..(Ring - 4),
           NEW page \in Seq(T), Len(page) \in 1..(f + 1),
           NEW c, c = (IF Len(page) > f THEN f ELSE Len(page)),
           NEW b, b = Store(a, FWD, f, 1, page)
    PROVE  /\ Opens(b, a, page) /\ b.bofAt = a.bofAt /\ b.begin = 1
           /\ At(b) = 0 /\ Reach(b) = c - 1
           /\ \A i \in 0..(c - 1) : Item(b, i) = page[i + 1]
  <1> DEFINE w == Window(a, FWD, f)
             L == Len(page)
             F == Stocked(a.aCache, 1, FWD, page)
  <1>1. /\ w.aCache = a.aCache /\ w.recno = a.recno /\ SameFlags(w, a) /\ w.bofAt = a.bofAt
        /\ w.pos = 1 /\ w.begin = 1 /\ w.end = f
    <2>1. FWD \in Dir
      BY DEF Dir
    <2> QED BY <2>1, FirstWindow
  <1>2. w \in Area
    <2>1. FWD \in Dir
      BY DEF Dir
    <2> QED BY <2>1, WindowGood DEF Good
  <1>3. b = StoreFrom(w, 1, FWD, f, 1, page)
    BY <1>1 DEF Store, StoreIn
  <1> HIDE DEF w
  <1>4. 1 \in Slot /\ f \in Nat /\ f >= 1 /\ L \in Nat \ {0} /\ L <= f + 1 /\ Ring \in Int /\ f <= Ring - 4
    BY RingFacts
  <1>5. /\ b.aCache = F /\ b.pos = 1 /\ b.begin = 1 /\ b.bofAt = a.bofAt
        /\ b.end = IF L > f THEN f ELSE Fix(1 + (L - 1))
        /\ b.recno = IF F[1] = Nil THEN w.recno ELSE F[1]
        /\ b.deleted = IF F[1] = Nil THEN w.deleted ELSE FALSE
        /\ SameFlags(b, w)
    <2>1. F = Stocked(w.aCache, 1, FWD, page) /\ w.pos \in Slot
      BY <1>1, <1>4
    <2> HIDE DEF F
    <2>2. StoredOn(b, w, F, f, 1, page)
      BY <1>2, <1>3, <1>4, <2>1, StoredForward
    <2> QED BY <1>1, <2>2 DEF StoredOn
  <1>6. c \in 1..f /\ c <= L /\ c \in Int /\ c \in Slot
    BY <1>4, RingFacts
  <1>7. b.end = c
    <2>1. 1 + (L - 1) = L
      BY <1>4
    <2>2. ~(L > f) => Fix(L) = L
      BY <1>4, RingFacts DEF Fix
    <2> QED BY <1>4, <1>5, <2>1, <2>2
  <1> HIDE DEF L
  <1>8. At(b) = 0 /\ Reach(b) = c - 1
    <2>1. Distance(1, 1, FWD) = 0 /\ Distance(1, c, FWD) = c - 1
      <3>1. c >= 1
        BY <1>6
      <3> QED BY <1>4, <1>6, <3>1, DistanceIs
    <2> QED BY <1>5, <1>7, <2>1 DEF At, Reach
  <1>9. ASSUME NEW i \in 0..(c - 1) PROVE Nth(b, i) \in Slot /\ Item(b, i) = page[i + 1]
    <2>1. i \in 0..(Ring - 1) /\ i < L
      BY <1>4, <1>6
    <2>2. Nth(b, i) = Fix(1 + i) /\ Fix(1 + i) \in Slot /\ Distance(1, Fix(1 + i), FWD) = i
      BY <1>4, <1>5, <2>1, Turns DEF Nth
    <2>3. F[Fix(1 + i)] = page[i + 1]
      BY <2>1, <2>2 DEF Stocked, L
    <2> QED BY <1>5, <2>2, <2>3 DEF Item
  <1>10. Nth(b, 0) = 1 /\ Item(b, 0) = page[1] /\ F[1] = page[1]
    <2>1. 0 \in 0..(c - 1) /\ 0 + 1 = 1
      BY <1>6
    <2>2. Nth(b, 0) = 1
      BY <1>4, <1>5 DEF Nth, Fix
    <2> QED BY <1>5, <1>9, <2>1, <2>2 DEF Item
  <1>11. page[1] # Nil
    <2>1. 1 \in 1..Len(page)
      BY <1>4 DEF L
    <2>2. page[1] \in T
      BY <2>1
    <2> QED BY <2>2, RowsFacts, RingFacts
  <1>12. Span(b)
    BY <1>4, <1>5, <1>6, <1>7, <1>8 DEF Span
  <1>13. SameFlags(b, a) /\ b.recno = page[1] /\ b.deleted = FALSE
    BY <1>1, <1>5, <1>10, <1>11 DEF SameFlags
  <1> QED BY <1>5, <1>8, <1>9, <1>10, <1>12, <1>13 DEF Opens

LEMMA OpenedBackward ==
    ASSUME NEW T, NEW n, Rows(T, n), NEW a, Good(a, T), a.end = 0, NEW f \in 1..(Ring - 4),
           NEW page \in Seq(T), Len(page) \in 1..(f + 1), NEW L, L = Len(page),
           NEW b, b = Store(a, BWD, f, Ring, page)
    PROVE  /\ Opens(b, a, page) /\ b.bofAt = (IF L > f THEN a.bofAt ELSE page[L])
           /\ At(b) = L - 1 /\ Reach(b) = L - 1
           /\ \A i \in 0..(L - 1) : Item(b, i) = page[L - i]
  <1> DEFINE w == Window(a, BWD, f)
             F == Stocked(a.aCache, Ring, BWD, page)
  <1>0. BWD \in Dir /\ BWD # FWD
    BY DEF Dir, FWD, BWD
  <1>1. /\ w.aCache = a.aCache /\ w.recno = a.recno /\ SameFlags(w, a) /\ w.bofAt = a.bofAt
        /\ w.pos = Ring /\ w.begin = Ring - f /\ w.end = Ring
    BY <1>0, FirstWindow
  <1>2. w \in Area
    BY <1>0, WindowGood DEF Good
  <1>3. b = StoreFrom(w, Ring, BWD, f, Ring, page)
    BY <1>1 DEF Store, StoreIn
  <1> HIDE DEF w
  <1>4. Ring \in Slot /\ f \in Nat /\ f >= 1 /\ L \in Nat \ {0} /\ L <= f + 1 /\ Ring \in Int /\ f <= Ring - 4
    BY RingFacts
  <1>5. F[Ring] = page[1] /\ page[1] # Nil
    <2>1. Distance(Ring, Ring, BWD) = 0
      BY <1>0, <1>4, Distances
    <2>2. F[Ring] = page[0 + 1]
      BY <1>4, <2>1 DEF Stocked
    <2>3. page[1] \in T
      BY <1>4
    <2> QED BY <2>2, <2>3, RowsFacts, RingFacts
  <1>6. StoredAs(b, w, BWD, f, Ring, page) /\ F = Stocked(w.aCache, Ring, BWD, page)
    <2>1. F = Stocked(w.aCache, Ring, BWD, page) /\ w.pos \in Slot
      BY <1>1, <1>4
    <2> HIDE DEF F
    <2> QED BY <1>0, <1>1, <1>2, <1>3, <1>4, <1>5, <2>1, StoredFromIs
  <1>7. /\ b.aCache = F /\ b.pos = Ring /\ b.end = Ring /\ b.recno = page[1] /\ b.deleted = FALSE
        /\ SameFlags(b, w)
        /\ b.begin = (IF L > f THEN Ring - f ELSE Fix(Ring + BWD * (L - 1)))
        /\ b.bofAt = (IF L > f THEN a.bofAt ELSE page[L])
    <2> HIDE DEF F
    <2> QED BY <1>0, <1>1, <1>5, <1>6 DEF StoredAs, Far, Near
  <1>8. b.begin = Ring + 1 - L /\ Ring + 1 - L \in Slot
    <2>1. Ring + BWD * (L - 1) = Ring + 1 - L
      BY <1>4 DEF BWD
    <2>2. ~(L > f) => Fix(Ring + 1 - L) = Ring + 1 - L
      BY <1>4 DEF Fix
    <2> QED BY <1>4, <1>7, <2>1, <2>2, RingFacts
  <1> DEFINE o == Ring + 1 - L
  <1>9. At(b) = L - 1 /\ Reach(b) = L - 1
    <2>1. Distance(o, Ring, FWD) = L - 1
      <3>1. Distance(o, Ring, FWD) = IF Ring >= o THEN Ring - o ELSE Ring - o + Ring
        BY <1>4, <1>8, DistanceIs
      <3> QED BY <1>4, <3>1
    <2> QED BY <1>7, <1>8, <2>1 DEF At, Reach
  <1>10. ASSUME NEW i \in 0..(L - 1) PROVE Item(b, i) = page[L - i]
    <2> DEFINE s == o + i
               d == (L - 1) - i
    <2>1. s \in Slot /\ Nth(b, i) = s
      <3>1. s \in 1..Ring
        BY <1>4, RingFacts
      <3>2. Fix(s) = s
        <4> HIDE DEF s
        <4> QED BY <1>4, <3>1 DEF Fix
      <3> QED BY <1>8, <3>1, <3>2, RingFacts DEF Nth
    <2>2. Distance(Ring, s, BWD) = IF s <= Ring THEN Ring - s ELSE Ring - s + Ring
      <3> HIDE DEF s
      <3> QED BY <1>4, <2>1, DistanceIs
    <2>3. Distance(Ring, s, BWD) = d /\ d < L /\ d + 1 = L - i
      BY <1>4, <2>2
    <2> HIDE DEF s, d
    <2>4. F[s] = page[d + 1]
      BY <2>1, <2>3 DEF Stocked
    <2> QED BY <1>7, <2>1, <2>3, <2>4 DEF Item
  <1>11. Span(b)
    BY <1>4, <1>7, <1>8, <1>9 DEF Span
  <1>12. Item(b, At(b)) = page[1]
    <2>1. L - 1 \in 0..(L - 1) /\ L - (L - 1) = 1
      BY <1>4
    <2> QED BY <1>9, <1>10, <2>1
  <1>13. SameFlags(b, a)
    BY <1>1, <1>7 DEF SameFlags
  <1> QED BY <1>7, <1>9, <1>10, <1>11, <1>12, <1>13 DEF Opens

(* From place k on the window has the rows past record r, in their order; none *)
(* is left out before a row that it has.                                       *)
Onwards(a, T, k, r) ==
    \A j \in k..Reach(a) : Item(a, j) # Nil =>
        /\ Item(a, j) \in T /\ r < Item(a, j)
        /\ \A x \in T : r < x /\ x < Item(a, j) => \E i \in k..(j - 1) : Item(a, i) = x
        /\ \A i \in k..(j - 1) : Item(a, i) # Nil => Item(a, i) < Item(a, j)

(* The slot of the current record has it, or is empty when its row was deleted. *)
Here(a, T) == a.aCache[a.pos] = IF a.recno \in T THEN a.recno ELSE Nil

(* The rows from h to the current record are between the places of both. *)
Behind(a, T, h) ==
    /\ h <= a.recno
    /\ \A x \in T : h < x /\ x <= a.recno => \E i \in 1..At(a) : Item(a, i) = x
    /\ \A i \in 1..At(a) : Item(a, i) # Nil => Item(a, i) <= a.recno

(* A window whose first record GO TOP goes to has all the rows from it on. *)
Whole(a, T) ==
    LET h == Item(a, 0)
    IN a.bofAt # 0 /\ h # Nil => h \in T /\ Onwards(a, T, 1, h) /\ (~a.eof => Behind(a, T, h))

Trail(a, T) ==
    /\ a.pos # 0 => Span(a) /\ Whole(a, T)
    /\ a.pos # 0 /\ ~a.eof =>
          /\ Here(a, T) /\ Onwards(a, T, At(a) + 1, a.recno)
          /\ a.recno \in T \/ a.wasdel \/ a.bofAt = 0 \/ Item(a, 0) = Nil
    /\ IF a.eof THEN a.fEof ELSE a.recno \in Rec /\ (a.fEof => \A x \in T : x <= a.recno)
    /\ a.wasdel => a.deleted /\ ~a.eof /\ a.recno \notin T /\ a.eofAt # a.recno
    /\ a.bofAt # 0 => \A x \in T : a.bofAt <= x

LEMMA OnwardsSame ==
    ASSUME NEW a, NEW b, Reach(b) = Reach(a), \A i : Item(b, i) = Item(a, i)
    PROVE  \A T, k, r : Onwards(b, T, k, r) <=> Onwards(a, T, k, r)
  BY DEF Onwards

(* They depend on the window and, some of them, on the record. *)
LEMMA WindowSame ==
    ASSUME NEW a, NEW b, SameWindow(b, a)
    PROVE  /\ At(b) = At(a) /\ Reach(b) = Reach(a) /\ \A i : Item(b, i) = Item(a, i) /\ Nth(b, i) = Nth(a, i)
           /\ Span(b) <=> Span(a)
           /\ \A T, k, r : Onwards(b, T, k, r) <=> Onwards(a, T, k, r)
           /\ \A T, h : b.recno = a.recno => (Here(b, T) <=> Here(a, T)) /\ (Behind(b, T, h) <=> Behind(a, T, h))
  <1>1. b.begin = a.begin /\ b.end = a.end /\ b.pos = a.pos /\ b.aCache = a.aCache
    BY DEF SameWindow
  <1>2. At(b) = At(a) /\ Reach(b) = Reach(a) /\ \A i : Item(b, i) = Item(a, i) /\ Nth(b, i) = Nth(a, i)
    BY <1>1 DEF At, Reach, Item, Nth
  <1>3. Span(b) <=> Span(a)
    BY <1>1, <1>2 DEF Span
  <1>4. \A T, k, r : Onwards(b, T, k, r) <=> Onwards(a, T, k, r)
    BY <1>2, OnwardsSame
  <1>5. \A T, h : b.recno = a.recno => (Here(b, T) <=> Here(a, T)) /\ (Behind(b, T, h) <=> Behind(a, T, h))
    BY <1>1, <1>2 DEF Here, Behind
  <1> QED BY <1>2, <1>3, <1>4, <1>5

(* The first row ahead is the next one past q, and what is ahead of it goes on. *)
LEMMA NextAhead ==
    ASSUME NEW T \in SUBSET Rec, NEW a, Span(a), NEW q \in Int, Onwards(a, T, At(a) + 1, q),
           NEW j \in (At(a) + 1)..Reach(a), Item(a, j) # Nil,
           \A i \in (At(a) + 1)..(j - 1) : Item(a, i) = Nil,
           NEW v, v = Item(a, j)
    PROVE  /\ v \in T /\ q < v /\ \A x \in T : q < x => v <= x
           /\ Onwards(a, T, j + 1, v)
  <1> DEFINE k == At(a) + 1
  <1>1. \A x \in T : x \in Int /\ x # Nil
    BY RingFacts
  <1>2. At(a) \in Int /\ j \in Int /\ Reach(a) \in Int /\ k <= j /\ k \in Int
    <2>1. At(a) \in 0..Reach(a) /\ Reach(a) \in 0..(Ring - 2)
      BY Places
    <2> QED BY <2>1
  <1>3. v \in T /\ q < v /\ \A x \in T : q < x /\ x < v => \E i \in k..(j - 1) : Item(a, i) = x
    BY DEF Onwards
  <1>4. \A x \in T : q < x => v <= x
    BY <1>1, <1>3
  <1>5. ASSUME NEW m \in (j + 1)..Reach(a), Item(a, m) # Nil
        PROVE  /\ Item(a, m) \in T /\ v < Item(a, m)
               /\ \A x \in T : v < x /\ x < Item(a, m) => \E i \in (j + 1)..(m - 1) : Item(a, i) = x
               /\ \A i \in (j + 1)..(m - 1) : Item(a, i) # Nil => Item(a, i) < Item(a, m)
    <2>1. m \in k..Reach(a) /\ j \in k..(m - 1) /\ m \in Int
      BY <1>2
    <2>2. /\ Item(a, m) \in T
          /\ \A x \in T : q < x /\ x < Item(a, m) => \E i \in k..(m - 1) : Item(a, i) = x
          /\ \A i \in k..(m - 1) : Item(a, i) # Nil => Item(a, i) < Item(a, m)
      BY <1>5, <2>1 DEF Onwards
    <2>3. ASSUME NEW x \in T, v < x, x < Item(a, m) PROVE \E i \in (j + 1)..(m - 1) : Item(a, i) = x
      <3>1. q < x
        BY <1>1, <1>3, <2>3
      <3>2. PICK i \in k..(m - 1) : Item(a, i) = x
        BY <2>2, <2>3, <3>1
      <3>3. i \in Int /\ i # j /\ ~(i \in k..(j - 1))
        BY <1>1, <1>2, <2>1, <2>3, <3>2
      <3>4. i \in (j + 1)..(m - 1)
        BY <1>2, <2>1, <3>2, <3>3
      <3> QED BY <3>2, <3>4
    <2>4. \A i \in (j + 1)..(m - 1) : i \in k..(m - 1)
      BY <1>2, <2>1
    <2> QED BY <2>1, <2>2, <2>3, <2>4
  <1> QED BY <1>3, <1>4, <1>5 DEF Onwards

(* The window from its first record on stays whole when that row becomes current. *)
LEMMA WholeAhead ==
    ASSUME NEW T \in SUBSET Rec, NEW a, Span(a), ~a.eof, a.recno \in Int,
           Onwards(a, T, At(a) + 1, a.recno), Whole(a, T),
           NEW j \in (At(a) + 1)..Reach(a), Item(a, j) # Nil,
           \A i \in (At(a) + 1)..(j - 1) : Item(a, i) = Nil,
           NEW b, b.recno = Item(a, j), At(b) = j, Reach(b) = Reach(a), b.bofAt = a.bofAt,
           \A i : Item(b, i) = Item(a, i)
    PROVE  Whole(b, T)
  <1> DEFINE h == Item(a, 0)
             v == Item(a, j)
             r == a.recno
  <1> SUFFICES ASSUME a.bofAt # 0, h # Nil
               PROVE  h \in T /\ Onwards(b, T, 1, h) /\ Behind(b, T, h)
    BY DEF Whole
  <1>1. h \in T /\ Onwards(a, T, 1, h) /\ Behind(a, T, h)
    BY DEF Whole
  <1>2. \A x \in T : x \in Int /\ x # Nil
    BY RingFacts
  <1>3. v \in T /\ r < v /\ \A x \in T : r < x => v <= x
    BY ZenonT(90), NextAhead
  <1>4. At(a) \in Int /\ At(a) >= 0 /\ j \in Int /\ At(a) < j /\ j <= Reach(a) /\ Reach(a) \in Int
    <2>1. At(a) \in 0..Reach(a) /\ Reach(a) \in 0..(Ring - 2)
      BY Places
    <2> QED BY <2>1
  <1>5. Onwards(b, T, 1, h)
    BY <1>1 DEF Onwards
  <1>6. h <= v
    BY <1>1, <1>2, <1>3 DEF Behind
  <1>7. ASSUME NEW x \in T, h < x, x <= v PROVE \E i \in 1..j : Item(a, i) = x
    <2>1. CASE x <= r
      <3>1. PICK i \in 1..At(a) : Item(a, i) = x
        BY <1>1, <1>7, <2>1 DEF Behind
      <3>2. i \in 1..j
        BY <1>4
      <3> QED BY <3>1, <3>2
    <2>2. CASE ~(x <= r)
      <3>1. x = v
        BY <1>2, <1>3, <1>7, <2>2
      <3>2. j \in 1..j
        BY <1>4
      <3> QED BY <3>1, <3>2
    <2> QED BY <2>1, <2>2
  <1>8. ASSUME NEW i \in 1..j, Item(a, i) # Nil PROVE Item(a, i) <= v
    <2>1. CASE i \in 1..At(a)
      <3>1. Item(a, i) <= r
        BY <1>1, <1>8, <2>1 DEF Behind
      <3>2. Item(a, i) \in T
        <4>1. i \in 1..Reach(a)
          BY <1>4
        <4> QED BY <1>1, <1>8, <4>1 DEF Onwards
      <3> QED BY <1>2, <1>3, <3>1, <3>2
    <2>2. CASE i = j
      <3>1. v \in Int /\ Item(a, i) = v
        BY <1>2, <1>3, <2>2
      <3> QED BY <3>1
    <2>3. CASE i \in (At(a) + 1)..(j - 1)
      BY <1>8, <2>3
    <2> QED BY <1>4, <2>1, <2>2, <2>3
  <1> QED BY <1>1, <1>5, <1>6, <1>7, <1>8 DEF Behind

(* What a page adds to the window. *)
LEMMA PageOnwards ==
    ASSUME NEW T \in SUBSET Rec, NEW b, NEW m \in Nat, NEW c \in Nat, Reach(b) = m + c,
           NEW P, c <= Len(P), \A i \in 1..c : Item(b, m + i) = P[i],
           NEW q \in Int, Past(P, T, q)
    PROVE  Onwards(b, T, m + 1, q)
  <1>1. /\ P \in Seq(T) /\ Len(P) \in Nat
        /\ \A i, j \in 1..Len(P) : i < j => P[i] < P[j]
        /\ \A i \in 1..Len(P) : q < P[i] /\ P[i] \in T
        /\ \A i \in 1..Len(P), x \in T : q < x /\ x < P[i] => \E j \in 1..(i - 1) : P[j] = x
    BY DEF Past
  <1> SUFFICES ASSUME NEW j \in (m + 1)..Reach(b), Item(b, j) # Nil
               PROVE  /\ Item(b, j) \in T /\ q < Item(b, j)
                      /\ \A x \in T : q < x /\ x < Item(b, j) => \E i \in (m + 1)..(j - 1) : Item(b, i) = x
                      /\ \A i \in (m + 1)..(j - 1) : Item(b, i) # Nil => Item(b, i) < Item(b, j)
    BY DEF Onwards
  <1> DEFINE d == j - m
  <1>2. d \in 1..c /\ d \in 1..Len(P) /\ m + d = j /\ d \in Int /\ m \in Int /\ j \in Int
    BY <1>1
  <1> HIDE DEF d
  <1>3. Item(b, j) = P[d]
    BY <1>2
  <1>4. ASSUME NEW x \in T, q < x, x < P[d] PROVE \E i \in (m + 1)..(j - 1) : Item(b, i) = x
    <2>1. PICK i \in 1..(d - 1) : P[i] = x
      BY <1>1, <1>2, <1>4
    <2>2. i \in 1..c /\ m + i \in (m + 1)..(j - 1)
      BY <1>2
    <2>3. Item(b, m + i) = x
      BY <2>1, <2>2
    <2> QED BY <2>2, <2>3
  <1>5. ASSUME NEW i \in (m + 1)..(j - 1) PROVE Item(b, i) < P[d]
    <2>1. i - m \in 1..c /\ i - m \in 1..Len(P) /\ i - m < d /\ m + (i - m) = i
      BY <1>1, <1>2
    <2>2. Item(b, m + (i - m)) = P[i - m]
      BY <2>1
    <2>3. Item(b, i) = P[i - m]
      BY <2>1, <2>2
    <2>4. P[i - m] < P[d]
      BY <1>1, <1>2, <2>1
    <2> QED BY <2>3, <2>4
  <1> QED BY <1>1, <1>2, <1>3, <1>4, <1>5

LEMMA OpensOnwards ==
    ASSUME NEW T \in SUBSET Rec, NEW b, NEW c \in Nat \ {0}, Reach(b) = c - 1,
           NEW P, c <= Len(P), \A i \in 0..(c - 1) : Item(b, i) = P[i + 1],
           NEW q \in Int, Past(P, T, q)
    PROVE  Onwards(b, T, 1, P[1]) /\ P[1] \in T
  <1>1. /\ P \in Seq(T) /\ Len(P) \in Nat
        /\ \A i, j \in 1..Len(P) : i < j => P[i] < P[j]
        /\ \A i \in 1..Len(P) : q < P[i] /\ P[i] \in T /\ P[i] \in Int
        /\ \A i \in 1..Len(P), x \in T : q < x /\ x < P[i] => \E j \in 1..(i - 1) : P[j] = x
    <2>1. \A x \in T : x \in Int
      BY RingFacts
    <2>2. P \in Seq(T) /\ Len(P) \in Nat /\ \A i \in 1..Len(P) : P[i] \in T
      BY DEF Past
    <2> QED BY <2>1, <2>2 DEF Past
  <1>2. 1 \in 1..Len(P) /\ c \in Int
    BY <1>1
  <1> SUFFICES ASSUME NEW j \in 1..Reach(b)
               PROVE  /\ Item(b, j) \in T /\ P[1] < Item(b, j)
                      /\ \A x \in T : P[1] < x /\ x < Item(b, j) => \E i \in 1..(j - 1) : Item(b, i) = x
                      /\ \A i \in 1..(j - 1) : Item(b, i) # Nil => Item(b, i) < Item(b, j)
    BY <1>1, <1>2 DEF Onwards
  <1>3. j \in 0..(c - 1) /\ j + 1 \in 1..Len(P) /\ 1 < j + 1 /\ Item(b, j) = P[j + 1] /\ j \in Int
    BY <1>1, <1>2
  <1>4. ASSUME NEW x \in T, P[1] < x, x < P[j + 1] PROVE \E i \in 1..(j - 1) : Item(b, i) = x
    <2>0. x \in Int /\ q < x
      BY <1>1, <1>2, <1>4, RingFacts
    <2>1. PICK i \in 1..((j + 1) - 1) : P[i] = x
      BY <1>1, <1>3, <1>4, <2>0
    <2>2. i # 1 /\ i \in Int
      BY <1>1, <1>2, <1>4, <2>0, <2>1
    <2>3. i - 1 \in 1..(j - 1) /\ i - 1 \in 0..(c - 1) /\ (i - 1) + 1 = i
      BY <1>3, <2>1, <2>2
    <2>4. Item(b, i - 1) = P[(i - 1) + 1]
      BY <2>3
    <2> QED BY <2>1, <2>3, <2>4
  <1>5. ASSUME NEW i \in 1..(j - 1) PROVE Item(b, i) < P[j + 1]
    <2>1. i \in 0..(c - 1) /\ i + 1 \in 1..Len(P) /\ i + 1 < j + 1
      BY <1>1, <1>3
    <2> QED BY <1>1, <1>3, <2>1
  <1> QED BY <1>1, <1>2, <1>3, <1>4, <1>5

(* A page read past the current record, or past the row after a deleted one *)
(* (q), leaves the trail: its first row is ahead.                            *)
Goes(b, a, T, q) ==
    /\ Span(b) /\ Onwards(b, T, At(b) + 1, q) /\ b.recno = a.recno /\ SameFlags(b, a)
    /\ b.bofAt \in {0, a.bofAt}
    /\ q = a.recno => Whole(b, T)
    /\ q # a.recno => b.bofAt = 0 \/ Item(b, 0) = Nil
    /\ At(b) + 1 \in (At(b) + 1)..Reach(b) /\ Item(b, At(b) + 1) # Nil

LEMMA PageGoesOn ==
    ASSUME NEW T, NEW n, Rows(T, n), NEW a, Good(a, T), Trail(a, T), a.pos # 0, ~a.eof,
           NEW f \in 1..(Ring - 4), NEW page, Len(page) \in 1..(f + 1),
           NEW q \in Int, a.recno <= q, Past(page, T, q),
           q = a.recno \/ a.bofAt = 0 \/ Item(a, 0) = Nil,
           NEW b, b = Store(a, FWD, f, Fix(a.pos + FWD), page), ~(b.begin = 1 /\ b.end = Ring)
    PROVE  Goes(b, a, T, q)
  <1> DEFINE c == IF Len(page) > f THEN f ELSE Len(page)
             r == a.recno
  <1>1. Span(a) /\ Whole(a, T) /\ Here(a, T) /\ r \in Rec /\ T \in SUBSET Rec
    BY RowsFacts DEF Trail
  <1>2. c \in 1..f /\ c <= Len(page) /\ c \in Nat /\ c >= 1
    BY RingFacts
  <1>3. Laid(b, a, page, c)
    <2> HIDE DEF c
    <2>1. c = IF Len(page) > f THEN f ELSE Len(page)
      BY DEF c
    <2> QED BY <1>1, <2>1, PageLaid
  <1> HIDE DEF c
  <1>4. /\ Span(b) /\ Reach(b) = At(b) + c /\ b.pos = a.pos
        /\ \A i \in 1..c : Item(b, At(b) + i) = page[i]
        /\ \A i \in 0..At(b) : Nth(b, i) \in Slot /\ Item(b, i) = a.aCache[Nth(b, i)]
        /\ SameFlags(b, a)
        /\ b.bofAt \in {0, a.bofAt}
        /\ b.bofAt # 0 => b.begin = a.begin /\ At(b) = At(a)
    BY <1>3 DEF Laid
  <1>5. b.recno = r
    <2>1. b.recno = IF a.aCache[a.pos] = Nil THEN r ELSE a.aCache[a.pos]
      BY <1>3 DEF Laid
    <2> QED BY <1>1, <2>1 DEF Here
  <1>6. At(b) \in Nat /\ At(b) \in Int
    <2>1. At(b) \in 0..Reach(b) /\ Reach(b) \in 0..(Ring - 2)
      BY <1>4, Places
    <2> QED BY <2>1
  <1>7. Onwards(b, T, At(b) + 1, q)
    BY <1>1, <1>2, <1>4, <1>6, PageOnwards
  <1>8. \A x \in T : x \in Int /\ x # Nil
    BY <1>1, RingFacts
  <1>9. /\ page \in Seq(T) /\ Len(page) \in Nat
        /\ \A i \in 1..Len(page) : q < page[i] /\ page[i] \in T
        /\ \A i, j \in 1..Len(page) : i < j => page[i] < page[j]
        /\ \A i \in 1..Len(page), x \in T : q < x /\ x < page[i] => \E j \in 1..(i - 1) : page[j] = x
    BY DEF Past
  <1>10. At(b) + 1 \in (At(b) + 1)..Reach(b) /\ Item(b, At(b) + 1) # Nil
    <2>1. 1 \in 1..c /\ 1 \in 1..Len(page)
      BY <1>2
    <2> QED BY <1>2, <1>4, <1>6, <1>8, <1>9, <2>1
  <1>11. ASSUME b.bofAt # 0
         PROVE  /\ a.bofAt # 0 /\ At(b) = At(a)
                /\ \A i \in 0..At(b) : Item(b, i) = Item(a, i)
    <2>1. b.begin = a.begin /\ At(b) = At(a) /\ a.bofAt # 0
      BY <1>4, <1>11
    <2>2. \A i \in 0..At(b) : Item(b, i) = Item(a, i)
      BY <1>4, <2>1 DEF Item, Nth
    <2> QED BY <2>1, <2>2
  <1>12. 0 \in 0..At(b)
    BY <1>6
  <1>13. ASSUME q = r, b.bofAt # 0, NEW h, h = Item(b, 0), h # Nil
         PROVE  h \in T /\ Onwards(b, T, 1, h) /\ Behind(b, T, h)
    <2>1. h = Item(a, 0) /\ a.bofAt # 0 /\ At(b) = At(a) /\ \A i \in 0..At(b) : Item(b, i) = Item(a, i)
      BY <1>11, <1>12, <1>13
    <2>2. h \in T /\ Onwards(a, T, 1, h) /\ Behind(a, T, h)
      BY <1>1, <1>13, <2>1 DEF Whole
    <2>3. \A i \in 1..At(b) : i \in 0..At(b) /\ i \in Int
      BY <1>6
    <2>4. Behind(b, T, h)
      <3>1. h <= r /\ (\A x \in T : h < x /\ x <= r => \E i \in 1..At(b) : Item(a, i) = x)
            /\ \A i \in 1..At(b) : Item(a, i) # Nil => Item(a, i) <= r
        BY <2>1, <2>2 DEF Behind
      <3>2. \A i \in 1..At(b) : Item(b, i) = Item(a, i)
        BY <2>1, <2>3
      <3> QED BY <1>5, <3>1, <3>2 DEF Behind
    <2>5. At(a) <= Reach(a) /\ Reach(a) \in Int
      <3>1. At(a) \in 0..Reach(a) /\ Reach(a) \in 0..(Ring - 2)
        BY <1>1, Places
      <3> QED BY <3>1
    <2>6. ASSUME NEW j \in 1..Reach(b), Item(b, j) # Nil
          PROVE  /\ Item(b, j) \in T /\ h < Item(b, j)
                 /\ \A x \in T : h < x /\ x < Item(b, j) => \E i \in 1..(j - 1) : Item(b, i) = x
                 /\ \A i \in 1..(j - 1) : Item(b, i) # Nil => Item(b, i) < Item(b, j)
      <3>1. CASE j \in 1..At(b)
        <4>1. j \in 1..Reach(a) /\ Item(b, j) = Item(a, j) /\ j \in Int
          BY <1>6, <2>1, <2>3, <2>5, <3>1
        <4>2. \A i \in 1..(j - 1) : Item(b, i) = Item(a, i)
          <5>1. \A i \in 1..(j - 1) : i \in 0..At(b)
            BY <1>6, <3>1
          <5> QED BY <2>1, <5>1
        <4> QED BY <2>2, <2>6, <4>1, <4>2 DEF Onwards
      <3>2. CASE j \notin 1..At(b)
        <4> DEFINE d == j - At(b)
        <4>1. d \in 1..c /\ d \in 1..Len(page) /\ At(b) + d = j /\ d \in Int /\ j \in Int
          BY <1>2, <1>4, <1>6, <1>9, <3>2
        <4> HIDE DEF d
        <4> DEFINE v == page[d]
        <4>2. Item(b, j) = v /\ v \in T /\ r < v /\ v \in Int
          <5>1. Item(b, At(b) + d) = page[d]
            BY <1>4, <4>1
          <5> QED BY <1>8, <1>9, <1>13, <4>1, <5>1
        <4>3. h < v /\ h \in Int /\ r \in Int
          <5>1. h <= r /\ h \in Int /\ r \in Int
            BY <1>1, <1>8, <2>2, RingFacts DEF Behind
          <5> QED BY <4>2, <5>1
        <4>4. ASSUME NEW x \in T, h < x, x < v PROVE \E i \in 1..(j - 1) : Item(b, i) = x
          <5>1. CASE x <= r
            <6>1. PICK i \in 1..At(b) : Item(b, i) = x
              BY <1>5, <2>4, <4>4, <5>1 DEF Behind
            <6>2. i \in 1..(j - 1)
              BY <1>6, <4>1
            <6> QED BY <6>1, <6>2
          <5>2. CASE ~(x <= r)
            <6>1. q < x
              BY <1>8, <1>13, <4>3, <5>2
            <6>2. PICK i \in 1..(d - 1) : page[i] = x
              BY <1>9, <4>1, <4>4, <6>1
            <6>3. i \in 1..c /\ At(b) + i \in 1..(j - 1)
              BY <1>2, <1>6, <4>1
            <6>4. Item(b, At(b) + i) = x
              BY <1>4, <6>2, <6>3
            <6> QED BY <6>3, <6>4
          <5> QED BY <5>1, <5>2
        <4>5. ASSUME NEW i \in 1..(j - 1), Item(b, i) # Nil PROVE Item(b, i) < v
          <5>1. CASE i \in 1..At(b)
            <6>1. Item(b, i) <= r
              BY <1>5, <2>4, <4>5, <5>1 DEF Behind
            <6>2. Item(b, i) \in Int
              <7>1. Item(b, i) = Item(a, i) /\ i \in 1..Reach(a)
                BY <1>6, <2>1, <2>3, <2>5, <5>1
              <7> QED BY <1>8, <2>2, <4>5, <7>1 DEF Onwards
            <6> QED BY <4>2, <4>3, <6>1, <6>2
          <5>2. CASE i \notin 1..At(b)
            <6>1. i - At(b) \in 1..c /\ i - At(b) \in 1..Len(page) /\ i - At(b) < d /\ At(b) + (i - At(b)) = i
              BY <1>2, <1>6, <4>1, <5>2
            <6>2. Item(b, At(b) + (i - At(b))) = page[i - At(b)]
              BY <1>4, <6>1
            <6> QED BY <1>9, <4>1, <6>1, <6>2
          <5> QED BY <5>1, <5>2
        <4> QED BY <4>2, <4>3, <4>4, <4>5
      <3> QED BY <3>1, <3>2
    <2> QED BY <2>2, <2>4, <2>6 DEF Onwards
  <1>14. q = r => Whole(b, T)
    BY <1>13 DEF Whole
  <1>15. q # r => b.bofAt = 0 \/ Item(b, 0) = Nil
    BY <1>11, <1>12
  <1> QED BY <1>4, <1>5, <1>7, <1>10, <1>14, <1>15 DEF Goes

(* The area stands on a row of the table, with the rows past it ahead. *)
Stood(a, T) ==
    /\ Span(a) /\ Whole(a, T) /\ Here(a, T) /\ Onwards(a, T, At(a) + 1, a.recno)
    /\ a.recno \in T

(* v is the row that follows q. *)
NextOne(v, T, q) == v \in T /\ q < v /\ \A x \in T : q < x => v <= x

(* The row a search finds ahead becomes the current one. *)
LEMMA Lands ==
    ASSUME NEW T \in SUBSET Rec, NEW a \in Area, Span(a), NEW q \in Int,
           Onwards(a, T, At(a) + 1, q),
           (Whole(a, T) /\ q = a.recno /\ ~a.eof) \/ a.bofAt = 0 \/ Item(a, 0) = Nil,
           NEW s, s = Search(a, FWD, TRUE), s # 0, NEW b, b = SetCurrent(a, s)
    PROVE  Stood(b, T) /\ NextOne(b.recno, T, q)
  <1>1. FirstIs(a, At(a) + 1, s)
    BY SearchForward
  <1>2. PICK j \in (At(a) + 1)..Reach(a) : /\ s = Nth(a, j) /\ Item(a, j) # Nil
                                          /\ \A i \in (At(a) + 1)..(j - 1) : Item(a, i) = Nil
    BY <1>1 DEF FirstIs
  <1>3. /\ At(a) \in 0..Reach(a) /\ Reach(a) \in 0..(Ring - 2) /\ a.begin \in Slot /\ a.end \in Slot
    BY Places DEF Span
  <1>4. j \in 0..(Ring - 1) /\ j \in Int /\ j <= Reach(a) /\ Reach(a) \in Int /\ At(a) \in Int
    BY <1>3, RingFacts
  <1>5. b.begin = a.begin /\ b.end = a.end /\ b.pos = s /\ b.aCache = a.aCache
        /\ b.recno = Item(a, j) /\ b.bofAt = a.bofAt
    BY <1>2 DEF SetCurrent, Area, Item
  <1>6. At(b) = j /\ s \in Slot
    <2>1. s = Fix(a.begin + j)
      BY <1>2 DEF Nth
    <2>2. Fix(a.begin + j) \in Slot /\ Distance(a.begin, Fix(a.begin + j), FWD) = j
      BY <1>3, <1>4, Turns
    <2> QED BY <1>5, <2>1, <2>2 DEF At
  <1>7. Reach(b) = Reach(a) /\ \A i : Item(b, i) = Item(a, i)
    BY <1>5 DEF Reach, Item, Nth
  <1>8. Span(b)
    BY <1>3, <1>4, <1>5, <1>6, <1>7, RingFacts DEF Span
  <1> DEFINE v == Item(a, j)
  <1>9. v \in T /\ q < v /\ (\A x \in T : q < x => v <= x) /\ Onwards(a, T, j + 1, v)
    BY <1>2, NextAhead
  <1>10. Onwards(b, T, At(b) + 1, b.recno)
    <2>1. b.recno = v
      BY <1>5
    <2> HIDE DEF v
    <2>2. \A k, r : Onwards(b, T, k, r) <=> Onwards(a, T, k, r)
      BY <1>7, OnwardsSame
    <2> QED BY <1>6, <1>9, <2>1, <2>2
  <1>11. Here(b, T)
    BY <1>2, <1>5, <1>9 DEF Here, Item
  <1>12. Whole(b, T)
    <2>1. CASE Whole(a, T) /\ q = a.recno /\ ~a.eof
      BY <1>2, <1>5, <1>6, <1>7, <2>1, WholeAhead
    <2>2. CASE a.bofAt = 0 \/ Item(a, 0) = Nil
      BY <1>5, <1>7, <2>2 DEF Whole
    <2> QED BY <2>1, <2>2
  <1> QED BY <1>5, <1>8, <1>9, <1>10, <1>11, <1>12 DEF Stood, NextOne

(* The first page read into an empty window. *)
LEMMA OpensStood ==
    ASSUME NEW T, NEW n, Rows(T, n), NEW a, Good(a, T), a.end = 0, NEW f \in 1..(Ring - 4),
           NEW page, Len(page) \in 1..(f + 1), NEW q \in Int, Past(page, T, q),
           NEW b, b = Store(a, FWD, f, 1, page)
    PROVE  /\ Stood(b, T) /\ NextOne(b.recno, T, q) /\ b.recno = page[1]
           /\ SameFlags(b, a) /\ b.bofAt = a.bofAt /\ At(b) = 0 /\ Item(b, 0) = b.recno
  <1> DEFINE c == IF Len(page) > f THEN f ELSE Len(page)
  <1>1. T \in SUBSET Rec /\ page \in Seq(T) /\ Len(page) \in Nat /\ 1 \in 1..Len(page)
        /\ \A x \in T : x \in Int /\ x # Nil
    BY RowsFacts, RingFacts DEF Past
  <1>2. c \in Nat \ {0} /\ c <= Len(page)
    BY <1>1, RingFacts
  <1>3. /\ Opens(b, a, page) /\ b.bofAt = a.bofAt /\ b.begin = 1
        /\ At(b) = 0 /\ Reach(b) = c - 1
        /\ \A i \in 0..(c - 1) : Item(b, i) = page[i + 1]
    BY SMTT(30), <1>1, OpenedForward
  <1> HIDE DEF c
  <1>4. Onwards(b, T, 1, page[1]) /\ page[1] \in T
    BY <1>1, <1>2, <1>3, OpensOnwards
  <1>5. Span(b) /\ b.recno = page[1] /\ SameFlags(b, a) /\ Item(b, 0) = page[1]
    BY <1>3 DEF Opens
  <1>6. NextOne(page[1], T, q)
    <2>1. q < page[1] /\ \A x \in T : q < x /\ x < page[1] => \E j \in 1..(1 - 1) : page[j] = x
      BY <1>1 DEF Past
    <2>2. \A x \in T : q < x => page[1] <= x
      BY <1>1, <1>4, <2>1
    <2> QED BY <1>4, <2>1, <2>2 DEF NextOne
  <1>7. Here(b, T)
    <2>1. Nth(b, 0) = b.pos
      BY <1>3, <1>5, Places
    <2> QED BY <1>4, <1>5, <2>1 DEF Here, Item
  <1>8. Whole(b, T)
    <2>1. Behind(b, T, page[1])
      <3>1. \A x \in T : ~(page[1] < x /\ x <= page[1])
        BY <1>1, <1>4
      <3>2. page[1] <= page[1]
        BY <1>1, <1>4
      <3> QED BY <1>3, <1>5, <3>1, <3>2 DEF Behind
    <2> QED BY <1>4, <1>5, <2>1 DEF Whole
  <1> QED BY <1>3, <1>4, <1>5, <1>6, <1>7, <1>8 DEF Stood

(* At EOF() only the window matters. *)
LEMMA EofTrails ==
    ASSUME NEW T, NEW a, Trail(a, T), NEW b, SameWindow(b, a), b.bofAt = a.bofAt,
           b.eof, b.fEof, ~b.wasdel
    PROVE  Trail(b, T)
  <1>1. b.pos = a.pos
    BY DEF SameWindow
  <1>2. a.pos # 0 => Span(b) /\ Whole(b, T)
    BY WindowSame DEF Trail, Whole
  <1> QED BY <1>1, <1>2 DEF Trail

LEMMA Lost ==
    ASSUME NEW T, NEW n, NEW a, Trail(a, T), NEW c \in Area, SameWindow(c, a), c.bofAt = a.bofAt,
           RaiseEof(c, n) \in Area, NEW b, b = Concluded(RaiseEof(c, n), FWD)
    PROVE  Trail(b, T) /\ b.eof
  <1> DEFINE e == RaiseEof(c, n)
  <1>1. e.fEof = TRUE /\ SameWindow(e, c) /\ e.bofAt = c.bofAt
    BY DEF RaiseEof, CleanBuffer, Area, SameWindow
  <1> HIDE DEF e
  <1>2. FWD \in Dir /\ e \in Area /\ b = Concluded(e, FWD)
    BY DEF Dir, e
  <1>3. SameRest(b, e) /\ b.wasdel = FALSE /\ b.eof = TRUE /\ b.fEof = TRUE
    BY <1>1, <1>2, ConcludedIs
  <1>4. SameWindow(b, a) /\ b.bofAt = a.bofAt
    BY <1>1, <1>3 DEF SameRest, SameWindow
  <1> QED BY <1>3, <1>4, EofTrails

(* A SKIP that has found a row. *)
LEMMA Found ==
    ASSUME NEW T \in SUBSET Rec, NEW a, NEW c \in Area, Stood(c, T), c.eof = FALSE, c.fEof = FALSE,
           c.bofAt # 0 => \A x \in T : c.bofAt <= x,
           NEW b, b = Concluded([c EXCEPT !.fBof = FALSE], FWD)
    PROVE  Trail(b, T) /\ b.eof = FALSE /\ b.recno = c.recno /\ b.begin = c.begin /\ b.end = c.end
  <1> DEFINE e == [c EXCEPT !.fBof = FALSE]
  <1>1. e \in Area /\ SameRest(e, c) /\ e.eof = FALSE /\ e.fEof = FALSE
    BY DEF SameRest, SameWindow, Area
  <1> HIDE DEF e
  <1>2. FWD \in Dir /\ b = Concluded(e, FWD)
    BY DEF Dir, e
  <1>3. SameRest(b, e) /\ b.wasdel = FALSE /\ b.eof = FALSE /\ b.fEof = FALSE
    BY <1>1, <1>2, ConcludedIs
  <1>4. SameWindow(b, c) /\ b.recno = c.recno /\ b.bofAt = c.bofAt
    BY <1>1, <1>3 DEF SameRest, SameWindow
  <1>5. Span(b) /\ Here(b, T) /\ Onwards(b, T, At(b) + 1, b.recno) /\ Whole(b, T)
    BY <1>3, <1>4, WindowSame DEF Stood, Whole
  <1>6. b.recno \in T /\ b.recno \in Rec
    BY <1>4 DEF Stood
  <1> QED BY <1>3, <1>4, <1>5, <1>6 DEF Trail, SameWindow

(* A search depends on the window only, and finds nothing at the end of one. *)
LEMMA SearchSame ==
    ASSUME NEW a, NEW b, SameWindow(b, a), NEW past \in BOOLEAN
    PROVE  Search(b, FWD, past) = Search(a, FWD, past)
  <1>1. b.begin = a.begin /\ b.end = a.end /\ b.pos = a.pos /\ b.aCache = a.aCache
    BY DEF SameWindow
  <1>2. \A s : InRange(b, s) <=> InRange(a, s)
    BY <1>1 DEF InRange
  <1>3. \A from : Ahead(b, from, FWD) = Ahead(a, from, FWD)
    BY <1>2 DEF Ahead
  <1>4. Start(b, FWD, past) = Start(a, FWD, past)
    BY <1>1 DEF Start
  <1> QED BY <1>1, <1>3, <1>4 DEF Search

(* A SKIP leaves the window as the page did. *)
LEMMA SkipKeepsWindow ==
    ASSUME NEW T, NEW n, Rows(T, n), NEW p, Good(p, T), NEW past \in BOOLEAN,
           NEW c, c = ForwardInPage(p, n, past), NEW b, b = Concluded(c, FWD)
    PROVE  c \in Area /\ b.begin = p.begin /\ b.end = p.end
  <1> DEFINE s == Search(p, FWD, past)
  <1>1. p \in Area
    BY DEF Good
  <1>2. c = IF s # 0 THEN ForwardTo(p, s) ELSE RaiseEof(p, n)
    BY DEF ForwardInPage
  <1> HIDE DEF s
  <1>3. c \in Area /\ c.begin = p.begin /\ c.end = p.end
    <2>1. CASE s # 0
      <3>1. c = ForwardTo(p, s)
        BY <1>2, <2>1
      <3>2. Good(ForwardTo(p, s), T)
        BY <2>1, ForwardToGood DEF s
      <3>3. ForwardTo(p, s).begin = p.begin /\ ForwardTo(p, s).end = p.end
        BY <1>1 DEF ForwardTo, SetCurrent, Area
      <3> QED BY <3>1, <3>2, <3>3 DEF Good
    <2>2. CASE s = 0
      <3>1. c = RaiseEof(p, n)
        BY <1>2, <2>2
      <3>2. Good(RaiseEof(p, n), T)
        BY Raised
      <3>3. RaiseEof(p, n).begin = p.begin /\ RaiseEof(p, n).end = p.end
        BY <1>1 DEF RaiseEof, CleanBuffer, Area
      <3> QED BY <3>1, <3>2, <3>3 DEF Good
    <2> QED BY <2>1, <2>2
  <1>4. SameRest(b, c)
    BY <1>3, ConcludedIs DEF Dir
  <1> QED BY <1>3, <1>4 DEF SameRest, SameWindow

(* A page was stored: the SKIP goes to its first row. *)
LEMMA StoredSkips ==
    ASSUME NEW T, NEW n, Rows(T, n), NEW a, Good(a, T), Trail(a, T), ~a.eof,
           NEW f \in 1..(Ring - 4), NEW page, Len(page) \in 1..(f + 1),
           NEW q \in Int, a.recno <= q, Past(page, T, q),
           q = a.recno \/ a.pos = 0 \/ a.bofAt = 0 \/ Item(a, 0) = Nil,
           NEW p, p = Store(a, FWD, f, Fix(a.pos + FWD), page), Good(p, T),
           NEW b, b = Concluded(ForwardInPage(p, n, a.pos # 0), FWD), ~(b.begin = 1 /\ b.end = Ring)
    PROVE  Trail(b, T) /\ b.eof = FALSE /\ NextOne(b.recno, T, q)
  <1> DEFINE past == a.pos # 0
             s == Search(p, FWD, past)
             d == SetCurrent(p, s)
  <1>1. T \in SUBSET Rec /\ (\A x \in T : x \in Int /\ x # Nil) /\ a.recno \in Rec /\ a.recno \in Int
        /\ page[1] \in T /\ q < page[1] /\ p \in Area
        /\ (a.bofAt # 0 => \A x \in T : a.bofAt <= x) /\ a.eof = FALSE /\ a \in Area
    <2>1. 1 \in 1..Len(page)
      BY RingFacts
    <2>2. page[1] \in T /\ q < page[1]
      BY <2>1 DEF Past
    <2>3. a.recno \in Rec /\ (a.bofAt # 0 => \A x \in T : a.bofAt <= x)
      BY DEF Trail
    <2>4. p \in Area /\ a \in Area /\ a.eof = FALSE
      BY DEF Good, Area
    <2> QED BY <2>2, <2>3, <2>4, RowsFacts, RingFacts
  <1>2. a.fEof = FALSE
    <2>1. a.fEof => page[1] <= a.recno
      BY <1>1 DEF Trail
    <2>2. ~(page[1] <= a.recno)
      BY <1>1
    <2>3. a.fEof \in BOOLEAN
      BY <1>1 DEF Area
    <2> QED BY <2>1, <2>2, <2>3
  <1>3. b.begin = p.begin /\ b.end = p.end
    <2> DEFINE c == ForwardInPage(p, n, past)
    <2>1. past \in BOOLEAN /\ c = ForwardInPage(p, n, past) /\ b = Concluded(c, FWD)
      BY DEF past
    <2> HIDE DEF c, past
    <2> QED BY <2>1, SkipKeepsWindow
  <1>4. /\ s # 0 /\ Stood(d, T) /\ NextOne(d.recno, T, q) /\ SameFlags(p, a)
        /\ p.bofAt \in {0, a.bofAt} /\ Good(d, T)
    <2>1. CASE a.pos # 0
      <3>1. Goes(p, a, T, q)
        BY <1>3, <2>1, PageGoesOn
      <3>2. /\ Span(p) /\ Onwards(p, T, At(p) + 1, q) /\ p.recno = a.recno /\ SameFlags(p, a)
            /\ p.bofAt \in {0, a.bofAt} /\ p.eof = FALSE
            /\ At(p) + 1 \in (At(p) + 1)..Reach(p) /\ Item(p, At(p) + 1) # Nil
        BY <1>1, <3>1 DEF Goes, SameFlags
      <3>3. s = Search(p, FWD, TRUE)
        BY <2>1
      <3> HIDE DEF s
      <3>4. s # 0
        <4>1. FirstIs(p, At(p) + 1, s)
          BY <3>2, <3>3, SearchForward
        <4>2. \A j \in (At(p) + 1)..Reach(p) : Nth(p, j) # 0
          <5>1. At(p) \in 0..Reach(p) /\ Reach(p) \in 0..(Ring - 2) /\ \A i \in 0..(Ring - 1) : Nth(p, i) \in Slot
            BY <3>2, Places
          <5>2. \A j \in (At(p) + 1)..Reach(p) : j \in 0..(Ring - 1)
            BY <5>1, RingFacts
          <5> QED BY <5>1, <5>2, RingFacts
        <4> QED BY <3>2, <4>1, <4>2 DEF FirstIs
      <3>5. (Whole(p, T) /\ q = p.recno /\ ~p.eof) \/ p.bofAt = 0 \/ Item(p, 0) = Nil
        BY <3>1, <3>2 DEF Goes
      <3>6. Stood(d, T) /\ NextOne(d.recno, T, q)
        BY <1>1, <3>2, <3>3, <3>4, <3>5, Lands
      <3>7. Good(d, T)
        BY <3>3, <3>4, FoundGood DEF Dir
      <3> QED BY <3>2, <3>4, <3>6, <3>7
    <2>2. CASE a.pos = 0
      <3>1. a.end = 0 /\ Fix(a.pos + FWD) = 1
        BY <2>2, RingFacts DEF Good, Shape, Fix, FWD
      <3>2. /\ Stood(p, T) /\ NextOne(p.recno, T, q)
            /\ SameFlags(p, a) /\ p.bofAt = a.bofAt /\ At(p) = 0 /\ Item(p, 0) = p.recno
        BY <3>1, OpensStood
      <3>3. Span(p) /\ p.recno \in T /\ Item(p, 0) # Nil /\ Nth(p, 0) = p.pos /\ p.pos \in Slot
            /\ Reach(p) \in 0..(Ring - 2)
        BY <1>1, <3>2, Places DEF Stood, Span
      <3>4. FirstIs(p, 0, Search(p, FWD, FALSE))
        BY <3>2, <3>3, SearchForward
      <3>5. Search(p, FWD, FALSE) = p.pos
        <4>1. 0 \in 0..Reach(p)
          BY <3>3
        <4>2. ASSUME NEW j \in 0..Reach(p), \A i \in 0..(j - 1) : Item(p, i) = Nil PROVE j = 0
          <5>1. j \in Nat
            BY <3>3
          <5>2. j # 0 => 0 \in 0..(j - 1)
            BY <5>1
          <5> QED BY <3>3, <4>2, <5>2
        <4> QED BY <3>3, <3>4, <4>1, <4>2 DEF FirstIs
      <3>10. s = Search(p, FWD, FALSE)
        <4>1. past = FALSE
          BY <2>2
        <4> QED BY <4>1 DEF s
      <3> HIDE DEF s
      <3>11. p.pos # 0
        BY <3>3, RingFacts
      <3>6. s = p.pos /\ s # 0
        BY <3>5, <3>10, <3>11
      <3>7. SameWindow(d, p) /\ d.recno = p.recno /\ d.bofAt = p.bofAt /\ d.eof = p.eof
        <4>1. p.aCache[p.pos] = p.recno
          BY <3>2, <3>3 DEF Item
        <4> QED BY <1>1, <3>6, <4>1 DEF SetCurrent, SameWindow, Area
      <3>8. Stood(d, T)
        BY <3>2, <3>7, WindowSame DEF Stood, Whole
      <3>9. Good(d, T)
        <4>1. s = Search(p, FWD, past)
          BY DEF s
        <4> HIDE DEF past
        <4>2. past \in BOOLEAN
          BY DEF past
        <4> QED BY <3>6, <4>1, <4>2, FoundGood DEF Dir
      <3> QED BY <3>2, <3>6, <3>7, <3>8, <3>9
    <2> QED BY <2>1, <2>2
  <1>5. b = Concluded([d EXCEPT !.fBof = FALSE], FWD)
    BY <1>4 DEF ForwardInPage, ForwardTo
  <1>6. d.eof = FALSE /\ d.fEof = FALSE /\ d.bofAt = p.bofAt /\ d \in Area
    <2>1. d.eof = p.eof /\ d.fEof = p.fEof /\ d.bofAt = p.bofAt
      BY <1>1 DEF SetCurrent, Area
    <2> QED BY <1>1, <1>2, <1>4, <2>1 DEF SameFlags, Good
  <1>7. d.bofAt # 0 => \A x \in T : d.bofAt <= x
    BY <1>1, <1>4, <1>6
  <1> HIDE DEF d
  <1>8. Trail(b, T) /\ b.eof = FALSE /\ b.recno = d.recno
    BY ZenonT(90), <1>1, <1>4, <1>5, <1>6, <1>7, Found
  <1> QED BY <1>4, <1>8

(* From a record that was deleted the SKIP goes to the next row, or to EOF(). *)
LeavesFor(b, r, T) ==
    IF \E x \in T : r < x THEN ~b.eof /\ NextOne(b.recno, T, r) ELSE b.eof

(* A page that has the current record first. *)
LEMMA PageSame ==
    ASSUME NEW T \in SUBSET Rec, NEW r \in Int, NEW k \in Nat \ {0},
           NEW P, P = RowsFrom(T, r, FWD, k), P # <<>>, r \in T
    PROVE  P[1] = r
  BY ZenonT(90), PagePast

(* The record that a page is read past of: the current one, or the row that *)
(* is dropped in its place.                                                  *)
LEMMA PagePassed ==
    ASSUME NEW T, NEW n, Rows(T, n), NEW a, Good(a, T), Trail(a, T), ~a.eof, NEW f \in PageSizes,
           NEW rows, rows = RowsFrom(T, a.recno, FWD, IF a.wasdel THEN f + 1 ELSE f + 2),
           Len(rows) > (IF a.wasdel THEN 0 ELSE 1),
           NEW page, page = IF a.wasdel THEN rows ELSE Tail(rows)
    PROVE  \E q \in Int : /\ a.recno <= q /\ Past(page, T, q) /\ Len(page) \in 1..(f + 1)
                          /\ q = a.recno \/ a.pos = 0 \/ a.bofAt = 0 \/ Item(a, 0) = Nil
                          /\ a.wasdel => q = a.recno
  <1>1. T \in SUBSET Rec /\ a.recno \in Int /\ f \in Nat \ {0} /\ (\A x \in T : x \in Int)
        /\ a.eof = FALSE /\ a.wasdel \in BOOLEAN
    BY RowsFacts, RingFacts DEF Good, Area
  <1>2. CASE a.wasdel
    <2> DEFINE k == f + 1
               r == a.recno
    <2>1. k \in Nat \ {0} /\ rows = RowsFrom(T, r, FWD, k) /\ r \in Int /\ T \in SUBSET Rec
      BY <1>1, <1>2
    <2>20. k = f + 1 /\ r = a.recno
      OBVIOUS
    <2> HIDE DEF k, r
    <2>2. rows \in Seq(T) /\ Len(rows) <= k /\ (r \notin T => Past(rows, T, r))
      BY <2>1, PagePast
    <2>3. a.recno \notin T
      BY <1>2 DEF Trail
    <2>4. Len(rows) \in Nat /\ Len(rows) > 0
      BY <1>2, <2>2
    <2>6. Len(rows) \in 1..(f + 1)
      BY <1>1, <2>1, <2>20, <2>2, <2>4
    <2>5. page = rows /\ Len(page) \in 1..(f + 1)
      BY <1>2, <2>6
    <2> QED BY <1>1, <1>2, <2>20, <2>2, <2>3, <2>5
  <1>3. CASE ~a.wasdel
    <2> DEFINE k == f + 2
               r == a.recno
    <2>1. k \in Nat \ {0} /\ rows = RowsFrom(T, r, FWD, k) /\ r \in Int /\ T \in SUBSET Rec
      BY <1>1, <1>3
    <2>20. k = f + 2 /\ r = a.recno
      OBVIOUS
    <2> HIDE DEF k, r
    <2>2. /\ rows \in Seq(T) /\ Len(rows) <= k
          /\ rows # <<>> => /\ Past(Tail(rows), T, rows[1]) /\ r <= rows[1] /\ rows[1] \in T
                            /\ r \in T => rows[1] = r
      <3>1. rows \in Seq(T) /\ Len(rows) <= k
        BY <2>1, PagePast
      <3>2. rows # <<>> => Past(Tail(rows), T, rows[1])
        BY <2>1, PagePast
      <3>3. rows # <<>> => r <= rows[1] /\ rows[1] \in T
        BY ZenonT(90), <2>1, PagePast
      <3>4. ASSUME r \in T, rows # <<>> PROVE rows[1] = r
        BY <2>1, <3>4, PageSame
      <3> QED BY <3>1, <3>2, <3>3, <3>4
    <2>3. Len(rows) \in Nat /\ Len(rows) > 1 /\ rows # <<>>
      BY <1>3, <2>2
    <2>4. page = Tail(rows) /\ Len(page) = Len(rows) - 1
      BY <1>3, <2>2, <2>3
    <2>10. Len(rows) - 1 \in 1..(f + 1)
      BY <1>1, <2>1, <2>20, <2>2, <2>3
    <2>5. Len(page) \in 1..(f + 1)
      BY <2>4, <2>10
    <2>6. rows[1] \in Int /\ a.recno <= rows[1] /\ Past(page, T, rows[1])
      BY <1>1, <2>1, <2>20, <2>2, <2>3, <2>4
    <2>7. a.recno \in T => rows[1] = a.recno
      BY <2>1, <2>2, <2>20, <2>3
    <2>8. a.recno \notin T => a.pos = 0 \/ a.bofAt = 0 \/ Item(a, 0) = Nil
      BY <1>1, <1>3 DEF Trail
    <2>9. rows[1] = a.recno \/ a.pos = 0 \/ a.bofAt = 0 \/ Item(a, 0) = Nil
      BY <2>7, <2>8
    <2> QED BY <1>3, <2>5, <2>6, <2>9
  <1> QED BY <1>2, <1>3

(* A page without rows leaves the window as it was. *)
LEMMA NoPage ==
    ASSUME NEW T, NEW n, Rows(T, n), NEW a, Good(a, T), NEW f \in PageSizes, ~UseDeleteds,
           NEW rows, rows = RowsFrom(T, a.recno, FWD, IF a.wasdel THEN f + 1 ELSE f + 2),
           ~(Len(rows) > (IF a.wasdel THEN 0 ELSE 1)),
           NEW p, p = ReadPage(a, T, n, FWD, f)
    PROVE  SameWindow(p, a) /\ p.bofAt = a.bofAt /\ (a.wasdel => \A x \in T : x < a.recno)
  <1>1. T \in SUBSET Rec /\ a.recno \in Int /\ f \in Nat \ {0} /\ a.wasdel \in BOOLEAN /\ a \in Area
    BY RowsFacts, RingFacts DEF Good, Area
  <1>2. SameWindow(p, a) /\ p.bofAt = a.bofAt
    <2>1. p = a \/ p = CleanBuffer([a EXCEPT !.eofAt = a.recno], n)
      BY <1>1 DEF ReadPage, PageRead
    <2>2. SameWindow(a, a) /\ SameWindow(CleanBuffer([a EXCEPT !.eofAt = a.recno], n), a)
          /\ CleanBuffer([a EXCEPT !.eofAt = a.recno], n).bofAt = a.bofAt
      BY <1>1 DEF SameWindow, CleanBuffer, Area
    <2> QED BY <2>1, <2>2
  <1>3. ASSUME a.wasdel PROVE \A x \in T : x < a.recno
    <2> DEFINE k == f + 1
               r == a.recno
    <2>1. k \in Nat \ {0} /\ rows = RowsFrom(T, r, FWD, k) /\ r \in Int /\ T \in SUBSET Rec
      BY <1>1, <1>3
    <2>20. k = f + 1 /\ r = a.recno
      OBVIOUS
    <2> HIDE DEF k, r
    <2>2. rows \in Seq(T) /\ (rows = <<>> => \A x \in T : x < r)
      BY <2>1, PagePast
    <2>4. Len(rows) = 0
      BY <1>3, <2>2
    <2>3. rows = <<>>
      BY <2>2, <2>4
    <2> QED BY <2>1, <2>2, <2>20, <2>3
  <1> QED BY <1>2, <1>3

(* SKIP. *)
LEMMA SkipTrails ==
    ASSUME NEW T, NEW n, Rows(T, n), NEW a, Good(a, T), Trail(a, T), ~UseDeleteds,
           NEW f \in PageSizes, NEW b, b = SkipOf(a, T, n, FWD, f), ~(b.begin = 1 /\ b.end = Ring)
    PROVE  Trail(b, T) /\ (a.wasdel => LeavesFor(b, a.recno, T))
  <1> DEFINE s == Search(a, FWD, TRUE)
             k == SkipRaw(a, T, n, FWD, f)
             p == ReadPage(a, T, n, FWD, f)
             kept == a.wasdel
             rows == RowsFrom(T, a.recno, FWD, IF a.wasdel THEN f + 1 ELSE f + 2)
  <1>1. /\ T \in SUBSET Rec /\ (\A x \in T : x \in Int) /\ a.recno \in Int /\ a \in Area
        /\ a.eof \in BOOLEAN /\ a.wasdel \in BOOLEAN /\ a.fEof \in BOOLEAN /\ f \in 1..(Ring - 4)
    BY RowsFacts, RingFacts DEF Good, Area
  <1>2. b = Concluded(k, FWD)
    BY DEF SkipOf
  <1>3. FWD \in Dir /\ FWD # BWD
    BY DEF Dir, FWD, BWD
  <1>4. CASE a.eof
    <2>1. k = a \/ k = SyncFlags(a)
      BY <1>3, <1>4 DEF SkipRaw, SkipRawForward
    <2>2. a.fEof /\ ~a.wasdel
      BY <1>4 DEF Trail
    <2>3. SameWindow(k, a) /\ k.bofAt = a.bofAt /\ k \in Area /\ k.fEof = TRUE
      <3>1. /\ SameWindow(a, a) /\ SameWindow(SyncFlags(a), a) /\ SyncFlags(a).bofAt = a.bofAt
            /\ SyncFlags(a) \in Area /\ SyncFlags(a).fEof = a.eof
        BY <1>1 DEF SameWindow, SyncFlags, Area
      <3> HIDE DEF k
      <3> QED BY <1>1, <1>4, <2>1, <2>2, <3>1
    <2> HIDE DEF k
    <2>4. SameRest(b, k) /\ b.wasdel = FALSE /\ b.eof = TRUE /\ b.fEof = TRUE
      BY <1>2, <1>3, <2>3, ConcludedIs
    <2>5. SameWindow(b, a) /\ b.bofAt = a.bofAt
      BY <2>3, <2>4 DEF SameRest, SameWindow
    <2>6. Trail(b, T)
      BY <2>4, <2>5, EofTrails
    <2> QED BY <2>2, <2>6
  <1>5. ASSUME ~a.eof
        PROVE  k = IF a.eofAt = a.recno THEN RaiseEof(a, n)
                   ELSE IF s # 0 THEN ForwardTo(a, s)
                   ELSE ForwardInPage(p, n, a.pos # 0)
    BY <1>3, <1>5 DEF SkipRaw, SkipRawForward
  <1> HIDE DEF s, k
  <1>6. CASE ~a.eof /\ a.eofAt = a.recno
    <2>1. b = Concluded(RaiseEof(a, n), FWD)
      BY <1>2, <1>5, <1>6
    <2>2. RaiseEof(a, n) \in Area
      BY Raised DEF Good
    <2>3. SameWindow(a, a) /\ ~a.wasdel
      BY <1>6 DEF SameWindow, Trail
    <2> QED BY <1>1, <2>1, <2>2, <2>3, Lost
  <1>7. CASE ~a.eof /\ a.eofAt # a.recno /\ s # 0
    <2> DEFINE d == SetCurrent(a, s)
    <2>1. a.pos # 0
      BY <1>7 DEF s, Search
    <2>2. Span(a) /\ Whole(a, T) /\ Onwards(a, T, At(a) + 1, a.recno)
      BY <1>7, <2>1 DEF Trail
    <2>3. Stood(d, T) /\ NextOne(d.recno, T, a.recno)
      BY <1>1, <1>7, <2>2, Lands DEF s
    <2>4. ~a.fEof
      <3>1. d.recno \in T /\ a.recno < d.recno
        BY <2>3 DEF NextOne
      <3>2. a.fEof => d.recno <= a.recno
        BY <1>7, <3>1 DEF Trail
      <3>3. ~(d.recno <= a.recno)
        BY <1>1, <3>1
      <3> QED BY <3>2, <3>3
    <2>5. d \in Area
      <3>1. Good(d, T)
        BY <1>3, <1>7, FoundGood DEF s
      <3> QED BY <3>1 DEF Good
    <2>6. d.eof = FALSE /\ d.fEof = FALSE /\ d.bofAt = a.bofAt
      BY <1>1, <1>7, <2>4 DEF SetCurrent, Area
    <2>7. a.bofAt # 0 => \A x \in T : a.bofAt <= x
      BY DEF Trail
    <2>8. b = Concluded([d EXCEPT !.fBof = FALSE], FWD)
      BY <1>2, <1>5, <1>7 DEF ForwardTo
    <2> HIDE DEF d
    <2>9. Trail(b, T) /\ b.eof = FALSE /\ b.recno = d.recno
      BY <1>1, <2>3, <2>5, <2>6, <2>7, <2>8, Found
    <2> QED BY <2>3, <2>9 DEF LeavesFor, NextOne
  <1>8. CASE ~a.eof /\ a.eofAt # a.recno /\ s = 0 /\ Len(rows) > (IF a.wasdel THEN 0 ELSE 1)
    <2> DEFINE page == IF a.wasdel THEN rows ELSE Tail(rows)
    <2>1. b = Concluded(ForwardInPage(p, n, a.pos # 0), FWD)
      BY <1>2, <1>5, <1>8
    <2>2. p = Store(a, FWD, f, Fix(a.pos + FWD), page)
      BY <1>1, <1>8 DEF ReadPage, PageRead
    <2>3. Good(p, T)
      BY <1>3, PageReadGood
    <2> HIDE DEF p, rows
    <2>6. page = IF a.wasdel THEN rows ELSE Tail(rows)
      OBVIOUS
    <2>4. PICK q \in Int : /\ a.recno <= q /\ Past(page, T, q) /\ Len(page) \in 1..(f + 1)
                           /\ q = a.recno \/ a.pos = 0 \/ a.bofAt = 0 \/ Item(a, 0) = Nil
                           /\ a.wasdel => q = a.recno
      <3>1. rows = RowsFrom(T, a.recno, FWD, IF a.wasdel THEN f + 1 ELSE f + 2)
        BY DEF rows
      <3> HIDE DEF page
      <3>2. ~a.eof /\ Len(rows) > (IF a.wasdel THEN 0 ELSE 1)
        BY <1>8
      <3> QED BY <2>6, <3>1, <3>2, PagePassed
    <2> HIDE DEF page
    <2>5. Trail(b, T) /\ b.eof = FALSE /\ NextOne(b.recno, T, q)
      <3>1. ~a.eof /\ f \in 1..(Ring - 4)
        BY <1>1, <1>8
      <3>2. p = Store(a, FWD, f, Fix(a.pos + FWD), page) /\ Good(p, T)
            /\ b = Concluded(ForwardInPage(p, n, a.pos # 0), FWD)
        BY <2>1, <2>2, <2>3
      <3>3. a.recno <= q /\ Past(page, T, q) /\ Len(page) \in 1..(f + 1)
            /\ (q = a.recno \/ a.pos = 0 \/ a.bofAt = 0 \/ Item(a, 0) = Nil)
        BY <2>4
      <3> QED BY <3>1, <3>2, <3>3, StoredSkips
    <2>7. ASSUME a.wasdel PROVE LeavesFor(b, a.recno, T)
      <3>1. NextOne(b.recno, T, a.recno)
        BY <2>4, <2>5, <2>7
      <3> QED BY <2>5, <3>1 DEF LeavesFor, NextOne
    <2> QED BY <2>5, <2>7
  <1>9. CASE ~a.eof /\ a.eofAt # a.recno /\ s = 0 /\ ~(Len(rows) > (IF a.wasdel THEN 0 ELSE 1))
    <2>1. k = ForwardInPage(p, n, a.pos # 0)
      BY <1>5, <1>9
    <2>2. Good(p, T)
      BY <1>3, PageReadGood
    <2>3. SameWindow(p, a) /\ p.bofAt = a.bofAt /\ (a.wasdel => \A x \in T : x < a.recno)
      BY <1>9, NoPage DEF rows
    <2> HIDE DEF p
    <2>4. Search(p, FWD, a.pos # 0) = 0
      <3>1. CASE a.pos = 0
        BY <2>3, <3>1 DEF Search, SameWindow
      <3>2. CASE a.pos # 0
        <4>1. Search(p, FWD, TRUE) = s
          <5>1. TRUE \in BOOLEAN
            OBVIOUS
          <5> QED BY <2>3, <5>1, SearchSame DEF s
        <4> QED BY <1>9, <3>2, <4>1
      <3> QED BY <3>1, <3>2
    <2>5. b = Concluded(RaiseEof(p, n), FWD)
      BY <1>2, <2>1, <2>4 DEF ForwardInPage
    <2>6. RaiseEof(p, n) \in Area /\ p \in Area
      BY <2>2, Raised DEF Good
    <2>7. Trail(b, T) /\ b.eof
      BY <2>3, <2>5, <2>6, Lost
    <2>8. a.wasdel => ~\E x \in T : a.recno < x
      BY <1>1, <2>3
    <2> QED BY <2>7, <2>8 DEF LeavesFor
  <1> QED BY <1>4, <1>6, <1>7, <1>8, <1>9

(* A window of the current record alone. *)
LEMMA Alone ==
    ASSUME NEW T \in SUBSET Rec, NEW b, b.pos = 1, b.begin = 1, b.end = 1,
           b.aCache[1] = b.recno, b.recno \in T
    PROVE  Stood(b, T)
  <1>1. 1 \in Slot /\ b.recno \in Int /\ b.recno # Nil
    <2>1. \A x \in T : x \in Int /\ x # Nil
      BY RingFacts
    <2>2. 1 \in Slot
      BY RingFacts
    <2> QED BY <2>1, <2>2
  <1>2. At(b) = 0 /\ Reach(b) = 0 /\ Item(b, 0) = b.recno
    <2>1. Distance(1, 1, FWD) = 0
      BY <1>1, DistanceIs, RingFacts
    <2>2. Fix(1 + 0) = 1
      BY RingFacts DEF Fix
    <2> QED BY <2>1, <2>2 DEF At, Reach, Item, Nth
  <1>3. Span(b)
    BY <1>1, <1>2, RingFacts DEF Span
  <1>4. \A x : Onwards(b, T, 1, x)
    BY <1>2 DEF Onwards
  <1>5. Here(b, T)
    BY DEF Here
  <1>6. Behind(b, T, b.recno)
    <2>1. \A x \in T : x \in Int
      BY RingFacts
    <2>2. \A x \in T : ~(b.recno < x /\ x <= b.recno)
      BY <1>1, <2>1
    <2>3. \A i \in 1..At(b) : FALSE
      BY <1>2
    <2>4. b.recno <= b.recno
      BY <1>1
    <2> QED BY <2>2, <2>3, <2>4 DEF Behind
  <1>7. Whole(b, T)
    BY <1>2, <1>4, <1>6 DEF Whole
  <1>8. Onwards(b, T, At(b) + 1, b.recno)
    BY <1>2, <1>4
  <1> QED BY <1>3, <1>5, <1>7, <1>8 DEF Stood

(* The first slot of the window becomes the current one. *)
LEMMA Headed ==
    ASSUME NEW T \in SUBSET Rec, NEW a, Span(a), Whole(a, T), a.bofAt # 0, Item(a, 0) # Nil,
           NEW b, b.begin = a.begin, b.end = a.end, b.aCache = a.aCache, b.pos = a.begin,
           b.recno = Item(a, 0)
    PROVE  Stood(b, T)
  <1> DEFINE h == Item(a, 0)
  <1>1. h \in T /\ Onwards(a, T, 1, h) /\ h \in Int
    <2>1. h \in T /\ Onwards(a, T, 1, h)
      BY DEF Whole
    <2>2. \A x \in T : x \in Int
      BY RingFacts
    <2> QED BY <2>1, <2>2
  <1>2. a.begin \in Slot /\ a.end \in Slot /\ Reach(a) \in 0..(Ring - 2) /\ Nth(a, 0) = a.begin
    BY Places DEF Span
  <1>3. At(b) = 0
    <2>1. Distance(a.begin, a.begin, FWD) = 0
      BY <1>2, DistanceIs, RingFacts
    <2> QED BY <2>1 DEF At
  <1>4. Reach(b) = Reach(a) /\ \A i : Item(b, i) = Item(a, i)
    BY DEF Reach, Item, Nth
  <1>5. Span(b)
    BY <1>2, <1>3, <1>4 DEF Span
  <1>6. Onwards(b, T, 1, h)
    BY <1>1, <1>4, OnwardsSame
  <1>7. Here(b, T)
    <2>1. b.aCache[b.pos] = h
      BY <1>2 DEF Item
    <2> QED BY <1>1, <2>1 DEF Here
  <1>8. Behind(b, T, h)
    <2>1. \A x \in T : x \in Int
      BY RingFacts
    <2>2. \A x \in T : ~(h < x /\ x <= h)
      BY <1>1, <2>1
    <2>3. \A i \in 1..At(b) : FALSE
      BY <1>3
    <2>4. h <= h
      BY <1>1
    <2> QED BY <2>2, <2>3, <2>4 DEF Behind
  <1>9. Whole(b, T)
    BY <1>1, <1>4, <1>6, <1>8 DEF Whole
  <1>10. Onwards(b, T, At(b) + 1, b.recno) /\ b.recno \in T
    BY <1>1, <1>3, <1>6
  <1> QED BY <1>5, <1>7, <1>9, <1>10 DEF Stood

(* On a row found by GO TOP, GO BOTTOM or GO TO. *)
LEMMA StoodTrails ==
    ASSUME NEW T \in SUBSET Rec, NEW b, Stood(b, T), b.eof = FALSE, b.fEof = FALSE, b.wasdel = FALSE,
           b.bofAt # 0 => \A x \in T : b.bofAt <= x
    PROVE  Trail(b, T)
  BY DEF Stood, Trail

(* Off the records, with no window. *)
LEMMA EmptyTrails ==
    ASSUME NEW T \in SUBSET Rec, NEW b, b.pos = 0, b.eof = TRUE, b.fEof = TRUE, b.wasdel = FALSE,
           b.bofAt # 0 => \A x \in T : b.bofAt <= x
    PROVE  Trail(b, T)
  BY DEF Trail

(* GO TO a record, the deleted one that is still current excepted. *)
LEMMA RecordTrails ==
    ASSUME NEW T, NEW n, Rows(T, n), NEW a, Good(a, T), Trail(a, T), NEW r \in 0..(MaxRec + 1),
           a.pos # 0 /\ ~a.eof /\ r = a.recno => a.recno \in T \/ a.bofAt = 0 \/ Item(a, 0) = Nil,
           NEW b, b = SyncFlags(GoRecord([a EXCEPT !.wasdel = FALSE], T, n, r))
    PROVE  Trail(b, T)
  <1> DEFINE z == [a EXCEPT !.wasdel = FALSE]
             g == GoRecord(z, T, n, r)
             stays == r = z.recno /\ ~z.isInsert /\ ~(z.bof /\ z.eof)
             cached == z.begin > 0 /\ z.bofAt > 0 /\ z.aCache[z.begin] = r
  <1>1. /\ T \in SUBSET Rec /\ a \in Area /\ a.eof \in BOOLEAN /\ z \in Area
        /\ (a.bofAt # 0 => \A x \in T : a.bofAt <= x)
        /\ r # Nil /\ r \in Int
    <2>1. T \in SUBSET Rec
      BY RowsFacts
    <2>2. a \in Area
      BY DEF Good
    <2>3. a.bofAt # 0 => \A x \in T : a.bofAt <= x
      BY DEF Trail
    <2>4. r # Nil /\ r \in Int
      BY RingFacts
    <2>5. a.eof \in BOOLEAN /\ z \in Area
      BY <2>2 DEF Area
    <2> QED BY <2>1, <2>2, <2>3, <2>4, <2>5
  <1>2. /\ SameWindow(z, a) /\ z.bofAt = a.bofAt /\ z.recno = a.recno /\ z.eof = a.eof
        /\ z.wasdel = FALSE
    BY <1>1 DEF SameWindow, Area
  <1> HIDE DEF z
  <1>3. CASE stays
    <2>1. g = [z EXCEPT !.bof = FALSE]
      BY <1>3 DEF GoRecord
    <2>2. SameWindow(b, a) /\ b.bofAt = a.bofAt /\ b.recno = a.recno
          /\ b.eof = a.eof /\ b.fEof = a.eof /\ b.wasdel = FALSE
      <3>1. b = SyncFlags([z EXCEPT !.bof = FALSE])
        BY <2>1 DEF z
      <3> QED BY <1>1, <1>2, <3>1 DEF SyncFlags, SameWindow, Area
    <2>3. CASE a.eof
      BY <1>1, <2>2, <2>3, EofTrails
    <2>4. CASE ~a.eof
      <3>1. b.pos = a.pos /\ r = a.recno
        BY <1>2, <1>3, <2>2 DEF SameWindow
      <3>2. b.eof = FALSE /\ b.fEof = FALSE /\ a.recno \in Rec
        BY <1>1, <2>2, <2>4 DEF Trail
      <3>3. ASSUME a.pos # 0
            PROVE  /\ Span(b) /\ Whole(b, T) /\ Here(b, T) /\ Onwards(b, T, At(b) + 1, b.recno)
                   /\ b.recno \in T \/ b.bofAt = 0 \/ Item(b, 0) = Nil
        <4>1. Span(a) /\ Whole(a, T) /\ Here(a, T) /\ Onwards(a, T, At(a) + 1, a.recno)
          BY <2>4, <3>3 DEF Trail
        <4>2. a.recno \in T \/ a.bofAt = 0 \/ Item(a, 0) = Nil
          BY <2>4, <3>1, <3>3
        <4> QED BY <2>2, <2>4, <4>1, <4>2, WindowSame DEF Whole
      <3> QED BY <1>1, <2>2, <3>1, <3>2, <3>3 DEF Trail
    <2> QED BY <2>3, <2>4
  <1>4. CASE ~stays /\ r = 0
    <2>1. b = SyncFlags([CleanBuffer(z, n) EXCEPT !.bof = TRUE])
      BY <1>4 DEF GoRecord, z
    <2>2. SameWindow(b, a) /\ b.bofAt = a.bofAt /\ b.eof = TRUE /\ b.fEof = TRUE /\ b.wasdel = FALSE
      BY <1>1, <1>2, <2>1 DEF SyncFlags, CleanBuffer, SameWindow, Area
    <2> QED BY <2>2, EofTrails
  <1>5. CASE ~stays /\ r # 0 /\ cached
    <2>1. b = SyncFlags([SetCurrent(z, z.begin) EXCEPT !.bof = FALSE, !.eof = FALSE])
      BY <1>5 DEF GoRecord, z
    <2>2. /\ b.begin = a.begin /\ b.end = a.end /\ b.aCache = a.aCache /\ b.pos = a.begin
          /\ b.recno = r /\ b.eof = FALSE /\ b.fEof = FALSE /\ b.wasdel = FALSE /\ b.bofAt = a.bofAt
      <3> DEFINE d == SetCurrent(z, z.begin)
      <3>1. d.begin = z.begin /\ d.end = z.end /\ d.aCache = z.aCache /\ d.pos = z.begin
            /\ d.recno = z.aCache[z.begin] /\ d.wasdel = FALSE /\ d.bofAt = z.bofAt
            /\ DOMAIN d = DOMAIN z
        BY <1>1, <1>2 DEF SetCurrent, Area
      <3>2. b = SyncFlags([d EXCEPT !.bof = FALSE, !.eof = FALSE])
        BY <2>1
      <3> HIDE DEF d
      <3>3. /\ b.begin = d.begin /\ b.end = d.end /\ b.aCache = d.aCache /\ b.pos = d.pos
            /\ b.recno = d.recno /\ b.eof = FALSE /\ b.fEof = FALSE /\ b.wasdel = d.wasdel
            /\ b.bofAt = d.bofAt
        BY <1>1, <3>1, <3>2 DEF SyncFlags, Area
      <3> QED BY <1>2, <1>5, <3>1, <3>3 DEF SameWindow
    <2>3. a.begin # 0 /\ a.bofAt # 0 /\ a.aCache[a.begin] = r
      BY <1>1, <1>2, <1>5 DEF SameWindow
    <2>4. a.pos # 0
      BY <2>3 DEF Good, Shape
    <2>5. Span(a) /\ Whole(a, T)
      BY <2>4 DEF Trail
    <2>6. Item(a, 0) = r
      BY <2>3, <2>5, Places DEF Item
    <2>7. Stood(b, T)
      BY <1>1, <2>2, <2>3, <2>5, <2>6, Headed
    <2> QED BY <1>1, <2>2, <2>7, StoodTrails
  <1>6. CASE ~stays /\ r # 0 /\ ~cached /\ r \in T
    <2>1. b = SyncFlags([z EXCEPT !.pos = 1, !.begin = 1, !.end = 1, !.aCache[1] = r,
                                  !.recno = r, !.deleted = FALSE, !.bof = FALSE, !.eof = FALSE])
      BY <1>6 DEF GoRecord, z
    <2>2. /\ b.pos = 1 /\ b.begin = 1 /\ b.end = 1 /\ b.recno = r /\ b.aCache[1] = r
          /\ b.eof = FALSE /\ b.fEof = FALSE /\ b.wasdel = FALSE /\ b.bofAt = a.bofAt
      <3>1. 1 \in Slot /\ z.aCache \in [Slot -> 0..MaxRec \cup {Nil}]
        BY SMTT(30), <1>1, RingFacts DEF Area
      <3> DEFINE F == [z.aCache EXCEPT ![1] = r]
                 d == [z EXCEPT !.pos = 1, !.begin = 1, !.end = 1, !.aCache = F,
                                !.recno = r, !.deleted = FALSE, !.bof = FALSE, !.eof = FALSE]
      <3>2. F[1] = r
        BY <3>1
      <3>3. b = SyncFlags(d)
        BY <2>1
      <3> HIDE DEF F
      <3>4. /\ d.pos = 1 /\ d.begin = 1 /\ d.end = 1 /\ d.recno = r /\ d.aCache = F
            /\ d.eof = FALSE /\ d.bof = FALSE /\ d.wasdel = z.wasdel /\ d.bofAt = z.bofAt
            /\ DOMAIN d = DOMAIN z
        BY <1>1 DEF Area
      <3> HIDE DEF d
      <3>5. /\ b.pos = d.pos /\ b.begin = d.begin /\ b.end = d.end /\ b.recno = d.recno /\ b.aCache = d.aCache
            /\ b.eof = d.eof /\ b.fEof = d.eof /\ b.wasdel = d.wasdel /\ b.bofAt = d.bofAt
        BY <1>1, <3>3, <3>4 DEF SyncFlags, Area
      <3> QED BY <1>2, <3>2, <3>4, <3>5
    <2>3. Stood(b, T)
      BY <1>1, <1>6, <2>2, Alone
    <2> QED BY <1>1, <2>2, <2>3, StoodTrails
  <1>7. CASE ~stays /\ r # 0 /\ ~cached /\ r \notin T
    <2>1. b = SyncFlags([CleanBuffer(EmptyWindow(z), n) EXCEPT !.bof = TRUE])
      BY <1>7 DEF GoRecord, z
    <2>2. b.pos = 0 /\ b.eof = TRUE /\ b.fEof = TRUE /\ b.wasdel = FALSE /\ b.bofAt = a.bofAt
      BY <1>1, <1>2, <2>1 DEF SyncFlags, CleanBuffer, EmptyWindow, Area
    <2> QED BY <1>1, <2>2, EmptyTrails
  <1> QED BY <1>3, <1>4, <1>5, <1>6, <1>7

(* A window with the current record in its first slot. *)
LEMMA HeadWhole ==
    ASSUME NEW T \in SUBSET Rec, NEW b, At(b) = 0, Item(b, 0) = b.recno, b.recno \in T,
           Onwards(b, T, 1, b.recno)
    PROVE  Whole(b, T)
  <1>1. \A x \in T : x \in Int
    BY RingFacts
  <1>2. \A x \in T : ~(b.recno < x /\ x <= b.recno)
    BY <1>1
  <1>3. b.recno <= b.recno
    BY <1>1
  <1>4. \A i \in 1..At(b) : FALSE
    OBVIOUS
  <1>5. Behind(b, T, b.recno)
    BY <1>2, <1>3, <1>4 DEF Behind
  <1> QED BY <1>5 DEF Whole

(* The page of GO TOP. *)
LEMMA TopTrails ==
    ASSUME NEW T, NEW n, Rows(T, n), NEW a, Good(a, T), a.end = 0, a.wasdel = FALSE,
           NEW page, page = RowsFrom(T, 0, FWD, FetchSize + 1), page # <<>>,
           NEW b, b = SyncFlags(AtEnd(Store(a, FWD, FetchSize, 1, page), FWD))
    PROVE  Trail(b, T)
  <1> DEFINE s == Store(a, FWD, FetchSize, 1, page)
             f == FetchSize
             k == f + 1
             zero == 0
  <1>1. T \in SUBSET Rec /\ (\A x \in T : x \in Int /\ 0 < x) /\ 0 \notin T /\ f \in 1..(Ring - 4)
    BY RowsFacts, RingFacts
  <1>2. k \in Nat \ {0} /\ page = RowsFrom(T, zero, FWD, k) /\ zero \in Int /\ zero \notin T
    BY <1>1, RingFacts
  <1> HIDE DEF zero
  <1>3. page \in Seq(T) /\ Len(page) <= k /\ Past(page, T, zero)
    <2> HIDE DEF k
    <2> QED BY <1>1, <1>2, PagePast
  <1>4. Len(page) \in 1..(f + 1)
    <2>1. Len(page) \in Nat
      BY <1>3
    <2>2. Len(page) # 0
      BY <1>3
    <2> QED BY <1>1, <1>3, <2>1, <2>2, RingFacts
  <1> HIDE DEF s
  <1>5. /\ Stood(s, T) /\ NextOne(s.recno, T, zero) /\ SameFlags(s, a)
        /\ At(s) = 0 /\ Item(s, 0) = s.recno /\ s \in Area
    <2> HIDE DEF k, f
    <2>1. s = Store(a, FWD, f, 1, page)
      BY DEF s, f
    <2>2. Stood(s, T) /\ NextOne(s.recno, T, zero) /\ SameFlags(s, a) /\ At(s) = 0 /\ Item(s, 0) = s.recno
      BY <1>1, <1>2, <1>3, <1>4, <2>1, OpensStood
    <2>3. Page(page, T, FWD, f)
      <3>1. page # <<>> /\ page \in Seq(T) /\ Len(page) <= f + 1
        BY <1>3 DEF k
      <3>2. ASSUME Len(page) <= f PROVE LastOf(T, FWD, page[Len(page)])
        <4> DEFINE A == {x \in T : FWD * x >= FWD * 0}
        <4>1. T = A /\ FWD \in Dir /\ 0 \in Int /\ k \in Nat \ {0}
          BY <1>1, <1>2 DEF FWD, Dir
        <4>2. InOrder(page, A, FWD, k)
          BY <1>1, <1>2, <4>1, PageInOrder DEF zero
        <4>3. \A x \in T : \E j \in 1..Len(page) : page[j] = x
          BY <1>3, <3>2, <4>1, <4>2, <1>1, RingFacts DEF InOrder, k
        <4>4. \A i, j \in 1..Len(page) : i < j => page[i] < page[j]
          BY <1>3 DEF Past
        <4>5. Len(page) \in 1..Len(page) /\ Len(page) \in Nat /\ page[Len(page)] \in T
          BY <1>3, <1>4
        <4>6. \A j \in 1..Len(page) : FWD * page[j] <= FWD * page[Len(page)]
          <5> SUFFICES ASSUME NEW j \in 1..Len(page) PROVE FWD * page[j] <= FWD * page[Len(page)]
            OBVIOUS
          <5>1. page[j] \in Int /\ page[Len(page)] \in Int
            BY <1>1, <1>3
          <5>2. page[j] <= page[Len(page)]
            <6>1. CASE j = Len(page)
              BY <5>1, <6>1
            <6>2. CASE j < Len(page)
              BY <4>4, <4>5, <5>1, <6>2
            <6> QED BY <4>5, <6>1, <6>2
          <5> QED BY <5>1, <5>2 DEF FWD
        <4> QED BY <4>3, <4>5, <4>6 DEF LastOf
      <3> QED BY <3>1, <3>2 DEF Page
    <2>4. Good(s, T)
      BY <1>1, <2>1, <2>3, Stored DEF Dir
    <2> QED BY <2>2, <2>4 DEF Good
  <1>6. b = SyncFlags([s EXCEPT !.bofAt = s.recno, !.bof = FALSE, !.eof = FALSE])
    BY DEF AtEnd, s
  <1>7. /\ SameWindow(b, s) /\ b.recno = s.recno /\ b.bofAt = s.recno
        /\ b.eof = FALSE /\ b.fEof = FALSE /\ b.wasdel = FALSE
    BY <1>5, <1>6 DEF SyncFlags, SameWindow, SameFlags, Area
  <1>8. /\ Span(b) /\ Here(b, T) /\ Onwards(b, T, At(b) + 1, b.recno) /\ b.recno \in T
        /\ At(b) = 0 /\ Item(b, 0) = b.recno
    BY <1>5, <1>7, WindowSame DEF Stood
  <1>9. Whole(b, T)
    BY <1>1, <1>8, HeadWhole
  <1>10. \A x \in T : b.bofAt <= x
    BY <1>1, <1>5, <1>7 DEF NextOne, zero
  <1> QED BY <1>1, <1>7, <1>8, <1>9, <1>10, StoodTrails DEF Stood

(* The page of GO BOTTOM: the last rows of the table, from the last one down. *)
Down(P, T, k) ==
    /\ P \in Seq(T) /\ Len(P) <= k
    /\ \A i, j \in 1..Len(P) : i < j => P[j] < P[i]
    /\ \A i \in 1..Len(P), x \in T : P[i] < x => \E j \in 1..(i - 1) : P[j] = x
    /\ Len(P) < k => \A x \in T : \E j \in 1..Len(P) : P[j] = x

LEMMA PageDown ==
    ASSUME NEW T \in SUBSET Rec, NEW k \in Nat \ {0},
           NEW P, P = RowsFrom(T, MaxRec + 1, BWD, k)
    PROVE  /\ P = <<>> => T = {}
           /\ P # <<>> => Down(P, T, k) /\ Page(P, T, BWD, k - 1)
  <1> DEFINE r == MaxRec + 1
             A == {x \in T : BWD * x >= BWD * r}
  <1>1. (\A x \in T : x \in Int /\ x < r) /\ r \in Int /\ BWD \in Dir /\ BWD = -1
    BY RingFacts DEF BWD, Dir
  <1>2. A = T
    BY <1>1
  <1> HIDE DEF A, r
  <1>3. P = RowsFrom(T, r, BWD, k)
    BY DEF r
  <1>4. InOrder(P, A, BWD, k)
    BY <1>1, <1>3, PageInOrder DEF A
  <1>5. InOrder(P, T, BWD, k)
    BY <1>2, <1>4
  <1>6. CASE P = <<>>
    BY <1>5, <1>6 DEF InOrder
  <1>7. CASE P # <<>>
    <2>1. /\ P \in Seq(A) /\ Len(P) <= k
          /\ P # <<>> /\ Len(P) < k => LastOf(A, BWD, P[Len(P)])
      <3>1. A = {x \in T : BWD * x >= BWD * r}
        BY DEF A
      <3> QED BY SMTT(30), <1>1, <1>3, <3>1, PageFacts
    <2>2. Len(P) \in Nat /\ P \in Seq(T) /\ \A i \in 1..Len(P) : P[i] \in T /\ P[i] \in Int
      BY <1>1, <1>2, <2>1
    <2>3. Page(P, T, BWD, k - 1)
      <3>1. Len(P) <= (k - 1) + 1 /\ (Len(P) <= k - 1 => Len(P) < k)
        BY <2>1, <2>2
      <3> QED BY <1>2, <1>7, <2>1, <2>2, <3>1 DEF Page
    <2>4. \A x, y \in Int : BWD * x < BWD * y <=> y < x
      BY <1>1
    <2>5. \A i, j \in 1..Len(P) : i < j => P[j] < P[i]
      BY <1>5, <2>2, <2>4 DEF InOrder
    <2>6. \A i \in 1..Len(P), x \in T : P[i] < x => \E j \in 1..(i - 1) : P[j] = x
      <3> SUFFICES ASSUME NEW i \in 1..Len(P), NEW x \in T, P[i] < x
                   PROVE  \E j \in 1..(i - 1) : P[j] = x
        OBVIOUS
      <3>1. P[i] \in Int /\ x \in Int
        BY <1>1, <2>2
      <3>2. BWD * x < BWD * P[i]
        BY <2>4, <3>1
      <3>3. \A l \in 1..Len(P), y \in T : BWD * y < BWD * P[l] => \E j \in 1..(l - 1) : P[j] = y
        BY <1>5 DEF InOrder
      <3> QED BY <3>2, <3>3
    <2>7. Len(P) < k => \A x \in T : \E j \in 1..Len(P) : P[j] = x
      BY <1>5 DEF InOrder
    <2> QED BY <1>7, <2>1, <2>2, <2>3, <2>5, <2>6, <2>7 DEF Down
  <1> QED BY <1>6, <1>7

(* It fills the window from its end, and the window has all the rows from its *)
(* first one on.                                                              *)
LEMMA BottomWhole ==
    ASSUME NEW T \in SUBSET Rec, NEW k, NEW page, Down(page, T, k),
           NEW L, L = Len(page), L # 0, NEW b, At(b) = L - 1, Reach(b) = L - 1,
           \A i \in 0..(L - 1) : Item(b, i) = page[L - i], b.recno = page[1]
    PROVE  Whole(b, T) /\ Onwards(b, T, At(b) + 1, b.recno) /\ b.recno \in T /\ Item(b, At(b)) = b.recno
  <1> DEFINE h == page[L]
  <1>1. /\ L \in Nat \ {0} /\ (\A i \in 1..L : page[i] \in T /\ page[i] \in Int)
        /\ (\A i, j \in 1..L : i < j => page[j] < page[i])
        /\ (\A i \in 1..L, x \in T : page[i] < x => \E j \in 1..(i - 1) : page[j] = x)
        /\ (\A x \in T : x \in Int)
    <2>1. page \in Seq(T) /\ L \in Nat
      BY DEF Down
    <2>2. \A x \in T : x \in Int
      BY RingFacts
    <2> QED BY <2>1, <2>2 DEF Down
  <1>2. 1 \in 1..L /\ L \in 1..L /\ \A i \in 0..(L - 1) : L - i \in 1..L
    BY <1>1
  <1>3. Item(b, 0) = h /\ h \in T /\ h \in Int
    <2>1. 0 \in 0..(L - 1) /\ L - 0 = L
      BY <1>1
    <2> QED BY <1>1, <1>2, <2>1
  <1>4. \A j \in 1..(L - 1) : Item(b, j) = page[L - j] /\ L - j \in 1..L /\ j \in Int
    BY <1>1
  <1>5. ASSUME NEW x \in T, h < x PROVE \E i \in 1..(L - 1) : Item(b, i) = x /\ page[L - i] = x
    <2>1. PICK m \in 1..(L - 1) : page[m] = x
      BY <1>1, <1>2, <1>5
    <2>2. L - m \in 1..(L - 1) /\ L - (L - m) = m
      BY <1>1
    <2> QED BY <1>4, <2>1, <2>2
  <1>6. Onwards(b, T, 1, h)
    <2> SUFFICES ASSUME NEW j \in 1..(L - 1)
                 PROVE  /\ Item(b, j) \in T /\ h < Item(b, j)
                        /\ \A x \in T : h < x /\ x < Item(b, j) => \E i \in 1..(j - 1) : Item(b, i) = x
                        /\ \A i \in 1..(j - 1) : Item(b, i) # Nil => Item(b, i) < Item(b, j)
      BY DEF Onwards
    <2>1. Item(b, j) = page[L - j] /\ L - j \in 1..L /\ L - j < L /\ j \in Int
      BY <1>1, <1>4
    <2>2. Item(b, j) \in T /\ h < Item(b, j)
      BY <1>1, <1>2, <2>1
    <2>3. ASSUME NEW x \in T, h < x, x < Item(b, j) PROVE \E i \in 1..(j - 1) : Item(b, i) = x
      <3>1. PICK i \in 1..(L - 1) : Item(b, i) = x /\ page[L - i] = x
        BY <1>5, <2>3
      <3>2. L - i \in 1..L /\ i \in Int
        BY <1>4
      <3>3. ~(L - i < L - j) /\ L - i # L - j
        <4>1. page[L - i] < page[L - j]
          BY <2>1, <2>3, <3>1
        <4>2. page[L - i] \in Int /\ page[L - j] \in Int
          BY <1>1, <2>1, <3>2
        <4>3. L - i < L - j => page[L - j] < page[L - i]
          BY <1>1, <2>1, <3>2
        <4> QED BY SMTT(30), <4>1, <4>2, <4>3
      <3>5. i \in 1..(L - 1) /\ j \in 1..(L - 1) /\ L \in Int
        BY <1>1, <3>1
      <3>6. L \in Int /\ i \in Int /\ j \in Int /\ 1 <= i
        BY <3>5
      <3>8. \A l, u, v \in Int : ~(l - u < l - v) /\ l - u # l - v => u < v
        OBVIOUS
      <3>7. i < j
        BY <3>3, <3>6, <3>8
      <3>4. i \in 1..(j - 1)
        BY <3>6, <3>7
      <3> QED BY <3>1, <3>4
    <2>4. ASSUME NEW i \in 1..(j - 1) PROVE Item(b, i) < Item(b, j)
      <3>1. i \in 1..(L - 1) /\ L - j < L - i
        BY <1>1, <2>1
      <3> QED BY ZenonT(90), <1>1, <1>4, <2>1, <3>1
    <2> QED BY <2>2, <2>3, <2>4
  <1>7. Behind(b, T, h)
    <2>1. h <= b.recno
      <3>1. CASE L = 1
        BY <1>3, <3>1
      <3>2. CASE L # 1
        <4>1. 1 < L
          BY <1>1, <3>2
        <4> QED BY <1>1, <1>2, <4>1
      <3> QED BY <3>1, <3>2
    <2>2. \A x \in T : h < x /\ x <= b.recno => \E i \in 1..At(b) : Item(b, i) = x
      BY <1>5
    <2>3. ASSUME NEW i \in 1..At(b) PROVE Item(b, i) <= b.recno
      <3>1. Item(b, i) = page[L - i] /\ L - i \in 1..L
        BY <1>4
      <3>2. CASE L - i = 1
        BY <1>1, <1>2, <3>1, <3>2
      <3>3. CASE 1 < L - i
        BY <1>1, <1>2, <3>1, <3>3
      <3> QED BY <1>1, <3>1, <3>2, <3>3
    <2> QED BY <2>1, <2>2, <2>3 DEF Behind
  <1>8. Whole(b, T)
    BY <1>3, <1>6, <1>7 DEF Whole
  <1>9. Onwards(b, T, At(b) + 1, b.recno)
    <2>1. \A j \in (At(b) + 1)..Reach(b) : FALSE
      BY <1>1
    <2> QED BY <2>1 DEF Onwards
  <1>10. Item(b, At(b)) = b.recno
    <2>1. L - 1 \in 0..(L - 1) /\ L - (L - 1) = 1
      BY <1>1
    <2> QED BY <2>1
  <1> QED BY <1>1, <1>2, <1>8, <1>9, <1>10

LEMMA BottomTrails ==
    ASSUME NEW T, NEW n, Rows(T, n), NEW a, Good(a, T), a.end = 0, a.wasdel = FALSE,
           a.bofAt # 0 => \A x \in T : a.bofAt <= x,
           NEW page, page = RowsFrom(T, MaxRec + 1, BWD, FetchSize + 1), page # <<>>,
           NEW b, b = SyncFlags(AtEnd(Store(a, BWD, FetchSize, Ring, page), BWD))
    PROVE  Trail(b, T)
  <1> DEFINE s == Store(a, BWD, FetchSize, Ring, page)
             f == FetchSize
             k == f + 1
             L == Len(page)
  <1>1. T \in SUBSET Rec /\ (\A x \in T : x \in Int) /\ f \in 1..(Ring - 4) /\ f \in Nat
    BY RowsFacts, RingFacts
  <1>2. k \in Nat \ {0} /\ page = RowsFrom(T, MaxRec + 1, BWD, k) /\ k - 1 = f
    BY <1>1, RingFacts
  <1>3. Down(page, T, k) /\ Page(page, T, BWD, f)
    <2> HIDE DEF k, f
    <2>1. Down(page, T, k) /\ Page(page, T, BWD, k - 1)
      BY <1>1, <1>2, PageDown
    <2> QED BY <1>2, <2>1
  <1>4. page \in Seq(T) /\ L \in 1..(f + 1) /\ L \in Nat /\ L # 0 /\ L = Len(page)
    <2>1. page \in Seq(T) /\ L <= k
      BY <1>3 DEF Down
    <2>2. L \in Nat
      BY <2>1
    <2>3. L # 0
      BY <2>1
    <2> QED BY <1>1, <2>1, <2>2, <2>3, RingFacts
  <1> HIDE DEF s, L
  <1>5. Good(s, T) /\ s \in Area
    <2>1. Good(s, T)
      BY <1>1, <1>3, Stored DEF Dir, s
    <2> QED BY <2>1 DEF Good
  <1>6. /\ Opens(s, a, page) /\ s.bofAt = (IF L > f THEN a.bofAt ELSE page[L])
        /\ At(s) = L - 1 /\ Reach(s) = L - 1
        /\ \A i \in 0..(L - 1) : Item(s, i) = page[L - i]
    <2>1. f \in 1..(Ring - 4) /\ page \in Seq(T) /\ Len(page) \in 1..(f + 1) /\ L = Len(page)
          /\ s = Store(a, BWD, f, Ring, page)
      BY <1>1, <1>4 DEF s
    <2> HIDE DEF f
    <2> QED BY SMTT(30), <2>1, OpenedBackward
  <1>7. Span(s) /\ s.recno = page[1] /\ SameFlags(s, a)
    BY <1>6 DEF Opens
  <1>9. s.bofAt # 0 => \A x \in T : s.bofAt <= x
    <2>1. CASE L > f
      BY <1>6, <2>1
    <2>2. CASE ~(L > f)
      <3>1. L < k
        BY <1>1, <1>4, <2>2
      <3>2. /\ \A x \in T : \E j \in 1..L : page[j] = x
            /\ \A i, j \in 1..L : i < j => page[j] < page[i]
        <4>1. \A i, j \in 1..Len(page) : i < j => page[j] < page[i]
          BY <1>3 DEF Down
        <4>2. \A x \in T : \E j \in 1..Len(page) : page[j] = x
          BY <1>3, <1>4, <3>1 DEF Down
        <4> QED BY <1>4, <4>1, <4>2
      <3>3. ASSUME NEW x \in T PROVE page[L] <= x
        <4>1. PICK j \in 1..L : page[j] = x
          BY <3>2
        <4>2. CASE j = L
          BY <1>1, <4>1, <4>2
        <4>3. CASE j # L
          <5>1. j < L /\ L \in 1..L
            BY <1>4, <4>3
          <5>2. page[L] < page[j] /\ page[L] \in Int
            BY <1>1, <1>4, <3>2, <5>1
          <5> QED BY <1>1, <4>1, <5>2
        <4> QED BY <4>2, <4>3
      <3> QED BY <1>6, <2>2, <3>3
    <2> QED BY <2>1, <2>2
  <1>8. b = SyncFlags([s EXCEPT !.eofAt = s.recno, !.bof = FALSE, !.eof = FALSE])
    BY DEF AtEnd, s, FWD, BWD
  <1>10. /\ SameWindow(b, s) /\ b.recno = s.recno /\ b.bofAt = s.bofAt
         /\ b.eof = FALSE /\ b.fEof = FALSE /\ b.wasdel = FALSE
    BY <1>5, <1>7, <1>8 DEF SyncFlags, SameWindow, SameFlags, Area
  <1>11. Whole(b, T) /\ Onwards(b, T, At(b) + 1, b.recno) /\ b.recno \in T /\ Item(b, At(b)) = b.recno
    <2>1. At(b) = At(s) /\ Reach(b) = Reach(s) /\ \A i : Item(b, i) = Item(s, i)
      BY <1>10, WindowSame
    <2>2. T \in SUBSET Rec /\ Down(page, T, k) /\ L = Len(page) /\ L # 0
      BY <1>1, <1>3, <1>4
    <2>3. At(b) = L - 1 /\ Reach(b) = L - 1 /\ b.recno = page[1]
      BY <1>6, <1>7, <1>10, <2>1
    <2>4. \A i \in 0..(L - 1) : Item(b, i) = page[L - i]
      BY <1>6, <2>1
    <2> HIDE DEF k
    <2>5. ASSUME NEW P, NEW c, Down(P, T, k), Len(P) # 0, At(c) = Len(P) - 1, Reach(c) = Len(P) - 1, c.recno = P[1],
                 \A i \in 0..(Len(P) - 1) : Item(c, i) = P[Len(P) - i]
          PROVE Whole(c, T) /\ Onwards(c, T, At(c) + 1, c.recno) /\ c.recno \in T /\ Item(c, At(c)) = c.recno
      BY <1>1, <2>5, BottomWhole
    <2>6. Down(page, T, k) /\ Len(page) # 0 /\ At(b) = Len(page) - 1 /\ Reach(b) = Len(page) - 1 /\ b.recno = page[1]
          /\ \A i \in 0..(Len(page) - 1) : Item(b, i) = page[Len(page) - i]
      BY <2>2, <2>3, <2>4
    <2> QED BY <2>5, <2>6
  <1>12. Span(b)
    BY <1>7, <1>10, WindowSame
  <1>13. Here(b, T)
    <2>1. b.aCache[b.pos] = b.recno
      BY <1>11, <1>12, Places DEF Item
    <2> QED BY <1>11, <2>1 DEF Here
  <1>14. Stood(b, T)
    BY <1>11, <1>12, <1>13 DEF Stood
  <1> QED BY <1>1, <1>9, <1>10, <1>14, StoodTrails

(* GO TOP and GO BOTTOM with a page read. *)
LEMMA EndTrails ==
    ASSUME NEW T, NEW n, Rows(T, n), NEW a, Good(a, T), a.wasdel = FALSE,
           a.bofAt # 0 => \A x \in T : a.bofAt <= x,
           NEW dir \in Dir, NEW b, b = SyncFlags(GoEnd(a, T, n, dir))
    PROVE  Trail(b, T)
  <1> DEFINE e == EmptyWindow(a)
             r == IF dir = FWD THEN 0 ELSE MaxRec + 1
             page == RowsFrom(T, r, dir, FetchSize + 1)
  <1>1. T \in SUBSET Rec /\ a \in Area /\ (\A x \in T : 0 < x) /\ FWD # BWD /\ 0 \in Int
        /\ FetchSize + 1 \in Nat \ {0}
    <2>1. a \in Area /\ FWD # BWD
      BY DEF Good, FWD, BWD
    <2>2. FetchSize + 1 \in Nat \ {0} /\ 0 \in Int /\ T \in SUBSET Rec
      BY RowsFacts, RingFacts
    <2>3. \A x \in T : 0 < x
      BY <2>2, RingFacts
    <2> QED BY <2>1, <2>2, <2>3
  <1>2. Good(e, T) /\ e.end = 0 /\ e.pos = 0 /\ e.wasdel = FALSE /\ e.bofAt = a.bofAt /\ e \in Area
    <2>1. Good(e, T)
      BY WindowEmptied
    <2> QED BY <1>1, <2>1 DEF EmptyWindow, Area, Good
  <1> HIDE DEF e
  <1>3. CASE page = <<>>
    <2>1. GoEnd(a, T, n, dir) = NoRecord(e, n, dir)
      BY <1>3 DEF GoEnd, e
    <2>2. T = {}
      <3>1. CASE dir = FWD
        <4> DEFINE k == FetchSize + 1
                   zero == 0
        <4>1. page = RowsFrom(T, zero, FWD, k) /\ zero \in Int /\ k \in Nat \ {0}
          BY <1>1, <3>1
        <4> HIDE DEF k, zero, page
        <4>2. \A x \in T : x < zero
          BY <1>1, <1>3, <4>1, PagePast
        <4>3. \A x \in T : x \in Int
          BY <1>1, RingFacts
        <4> QED BY <1>1, <4>2, <4>3 DEF zero
      <3>2. CASE dir = BWD
        <4> DEFINE k == FetchSize + 1
        <4>1. page = RowsFrom(T, MaxRec + 1, BWD, k) /\ k \in Nat \ {0}
          BY <1>1, <3>2
        <4> HIDE DEF k, page
        <4> QED BY <1>1, <1>3, <4>1, PageDown
      <3> QED BY <3>1, <3>2 DEF Dir
    <2>3. b.pos = 0 /\ b.eof = TRUE /\ b.fEof = TRUE /\ b.wasdel = FALSE
      <3> DEFINE c == IF dir = FWD THEN CleanBuffer([e EXCEPT !.eofAt = e.recno], n)
                      ELSE [e EXCEPT !.bofAt = e.recno]
      <3>1. c.pos = 0 /\ c.wasdel = FALSE /\ DOMAIN c = DOMAIN e
        BY <1>2 DEF CleanBuffer, Area
      <3>2. b = SyncFlags([c EXCEPT !.bof = TRUE, !.eof = TRUE])
        BY <2>1 DEF NoRecord
      <3> HIDE DEF c
      <3> QED BY <1>2, <3>1, <3>2 DEF SyncFlags, Area
    <2>4. \A x \in T : b.bofAt <= x
      BY <2>2
    <2> QED BY <1>1, <2>3, <2>4, EmptyTrails
  <1>4. CASE page # <<>> /\ dir = FWD
    <2>1. GoEnd(a, T, n, dir) = AtEnd(Store(e, FWD, FetchSize, 1, page), FWD)
      BY <1>4 DEF GoEnd, e
    <2>2. page = RowsFrom(T, 0, FWD, FetchSize + 1)
      BY <1>4
    <2>3. b = SyncFlags(AtEnd(Store(e, FWD, FetchSize, 1, page), FWD))
      BY <2>1
    <2> HIDE DEF page
    <2> QED BY <1>2, <1>4, <2>2, <2>3, TopTrails
  <1>5. CASE page # <<>> /\ dir = BWD
    <2>1. GoEnd(a, T, n, dir) = AtEnd(Store(e, BWD, FetchSize, Ring, page), BWD)
      BY <1>1, <1>5 DEF GoEnd, e
    <2>2. page = RowsFrom(T, MaxRec + 1, BWD, FetchSize + 1)
      BY <1>1, <1>5
    <2>3. b = SyncFlags(AtEnd(Store(e, BWD, FetchSize, Ring, page), BWD))
      BY <2>1
    <2> HIDE DEF page
    <2> QED BY <1>2, <1>5, <2>2, <2>3, BottomTrails
  <1> QED BY <1>3, <1>4, <1>5 DEF Dir

LEMMA GoTopTrails ==
    ASSUME NEW T, NEW n, Rows(T, n), NEW a, Good(a, T), Trail(a, T)
    PROVE  Trail(GoTopOf(a, T, n), T) /\ Trail(GoBottomOf(a, T, n), T)
  <1> DEFINE z == [a EXCEPT !.wasdel = FALSE]
  <1>1. /\ a \in Area /\ (a.bofAt # 0 => \A x \in T : a.bofAt <= x) /\ (\A x \in T : x \in Int)
        /\ a.bofAt \in 0..(MaxRec + 1) /\ a.eofAt \in 0..(MaxRec + 1)
    <2>1. a \in Area
      BY DEF Good
    <2>2. \A x \in T : x \in Int
      BY RowsFacts
    <2>3. a.bofAt # 0 => \A x \in T : a.bofAt <= x
      BY DEF Trail
    <2> QED BY <2>1, <2>2, <2>3 DEF Area
  <1>2. Good(z, T) /\ z.wasdel = FALSE /\ z.bofAt = a.bofAt
    <2>1. Good(z, T)
      BY Flags
    <2> QED BY <1>1, <2>1 DEF Area
  <1>3. Trail(SyncFlags(GoEnd(z, T, n, FWD)), T) /\ Trail(SyncFlags(GoEnd(z, T, n, BWD)), T)
    <2> HIDE DEF z
    <2>1. FWD \in Dir /\ BWD \in Dir
      BY DEF Dir
    <2> QED BY <1>1, <1>2, <2>1, EndTrails
  <1>4. ASSUME a.bofAt # 0 PROVE Trail(SyncFlags(GoRecord(z, T, n, a.bofAt)), T)
    <2>1. ASSUME a.pos # 0, ~a.eof, a.bofAt = a.recno
          PROVE  a.recno \in T \/ a.bofAt = 0 \/ Item(a, 0) = Nil
      <3> SUFFICES ASSUME Item(a, 0) # Nil PROVE a.recno \in T
        OBVIOUS
      <3>1. Item(a, 0) \in T /\ Item(a, 0) <= a.recno
        BY <1>4, <2>1 DEF Trail, Whole, Behind
      <3>2. a.recno <= Item(a, 0) /\ a.recno \in Int /\ Item(a, 0) \in Int
        BY <1>1, <1>4, <2>1, <3>1, RingFacts
      <3>3. Item(a, 0) = a.recno
        BY <3>1, <3>2
      <3> QED BY <3>1, <3>3
    <2> DEFINE r == a.bofAt
    <2>2. /\ r \in 0..(MaxRec + 1) /\ z = [a EXCEPT !.wasdel = FALSE]
          /\ a.pos # 0 /\ ~a.eof /\ r = a.recno => a.recno \in T \/ a.bofAt = 0 \/ Item(a, 0) = Nil
      BY <1>1, <2>1
    <2> HIDE DEF r
    <2>3. Trail(SyncFlags(GoRecord([a EXCEPT !.wasdel = FALSE], T, n, r)), T)
      BY <2>2, RecordTrails
    <2> QED BY <2>3 DEF r
  <1>5. ASSUME a.eofAt # 0 PROVE Trail(SyncFlags(GoRecord(z, T, n, a.eofAt)), T)
    <2>1. ASSUME a.pos # 0, ~a.eof, a.eofAt = a.recno
          PROVE  a.recno \in T \/ a.bofAt = 0 \/ Item(a, 0) = Nil
      BY <2>1 DEF Trail
    <2> DEFINE r == a.eofAt
    <2>2. /\ r \in 0..(MaxRec + 1)
          /\ a.pos # 0 /\ ~a.eof /\ r = a.recno => a.recno \in T \/ a.bofAt = 0 \/ Item(a, 0) = Nil
      BY <1>1, <2>1
    <2> HIDE DEF r
    <2>3. Trail(SyncFlags(GoRecord([a EXCEPT !.wasdel = FALSE], T, n, r)), T)
      BY <2>2, RecordTrails
    <2> QED BY <2>3 DEF r
  <1> HIDE DEF z
  <1>6. GoTopOf(a, T, n) = SyncFlags(IF a.bofAt # 0 THEN GoRecord(z, T, n, a.bofAt) ELSE GoEnd(z, T, n, FWD))
    BY DEF GoTopOf, z
  <1>7. GoBottomOf(a, T, n) = SyncFlags(IF a.eofAt # 0 THEN GoRecord(z, T, n, a.eofAt) ELSE GoEnd(z, T, n, BWD))
    BY DEF GoBottomOf, z
  <1>8. Trail(GoTopOf(a, T, n), T)
    <2>1. CASE a.bofAt # 0
      BY <1>4, <1>6, <2>1
    <2>2. CASE a.bofAt = 0
      BY <1>3, <1>6, <2>2
    <2> QED BY <2>1, <2>2
  <1>9. Trail(GoBottomOf(a, T, n), T)
    <2>1. CASE a.eofAt # 0
      BY <1>5, <1>7, <2>1
    <2>2. CASE a.eofAt = 0
      BY <1>3, <1>7, <2>2
    <2> QED BY <2>1, <2>2
  <1> QED BY <1>8, <1>9

(* The invariant of the proof. *)
DInv == IInv /\ Trail(Cold, Table)

(* The operations that write the pending edit first. *)
LEMMA BecomesTrails ==
    ASSUME IInv, NEW b, Good(b, Table), Trail(b, Table), Becomes(b)
    PROVE  DInv'
  <1>1. IInv'
    BY BecomesKeeps
  <1>2. ~b.hot /\ ~b.isInsert
    BY DEF Good
  <1>3. wa' = b /\ table' = Table
    BY DEF Becomes
  <1>4. Cold' = b /\ Table' = Table
    BY <1>2, <1>3 DEF Cold, Table, Pending
  <1>5. Trail(Cold, Table)'
    BY <1>4
  <1> QED BY <1>1, <1>5 DEF DInv

LEMMA InitTrails == Init => DInv
  <1> SUFFICES ASSUME NEW n \in Sizes, table = 1..n, marked = {}, last = n,
                      wa = GoTopOf(Opened, 1..n, n)
               PROVE  DInv
    BY DEF Init
  <1>1. IInv
    BY InitKeeps DEF Init
  <1>2. Rows(1..n, n)
    BY RingFacts DEF Rows
  <1>3. Good(Opened, 1..n)
    <2>1. 0 \in 0..Ring /\ 0 \in 0..MaxRec /\ 0 \in 0..(MaxRec + 1) /\ 0 \notin 1..n
      BY <1>2, RingFacts, RowsFacts
    <2>2. Opened \in Area
      BY <2>1 DEF Opened, Area
    <2> QED BY <2>1, <2>2 DEF Opened, Good, Shape, Ends
  <1> DEFINE o == [Opened EXCEPT !.wasdel = FALSE]
  <1>4. Opened.bofAt = 0 /\ o.wasdel = FALSE /\ o.bofAt = 0 /\ FWD \in Dir /\ Good(o, 1..n)
    <2>1. Opened.bofAt = 0 /\ o.wasdel = FALSE /\ o.bofAt = 0
      BY DEF Opened
    <2>2. Good(o, 1..n)
      BY <1>3, Flags
    <2> QED BY <2>1, <2>2 DEF Dir
  <1>5. wa = SyncFlags(GoEnd(o, 1..n, n, FWD))
    BY <1>4 DEF GoTopOf
  <1> HIDE DEF o
  <1>6. Trail(wa, 1..n)
    <2> DEFINE T == 1..n
    <2>1. Rows(T, n) /\ Good(o, T) /\ wa = SyncFlags(GoEnd(o, T, n, FWD)) /\ o.wasdel = FALSE /\ o.bofAt = 0
      BY <1>2, <1>4, <1>5
    <2> HIDE DEF T
    <2>2. Trail(wa, T)
      BY <1>4, <2>1, EndTrails
    <2> QED BY <2>2 DEF T
  <1>7. ~wa.hot /\ ~wa.isInsert
    <2>1. Good(wa, 1..n)
      BY <1>2, <1>3, GoesToEnds
    <2> QED BY <2>1 DEF Good
  <1>8. Cold = wa /\ Table = 1..n
    BY <1>7 DEF Cold, Table, Pending
  <1> QED BY <1>1, <1>6, <1>8 DEF DInv

LEMMA EndsTrail == DInv /\ (GoTop \/ GoBottom) => DInv'
  <1> SUFFICES ASSUME DInv, GoTop \/ GoBottom PROVE DInv'
    OBVIOUS
  <1> DEFINE t == GoTopOf(Cold, Table, RCount)
             b == GoBottomOf(Cold, Table, RCount)
  <1>1. IInv /\ Rows(Table, RCount) /\ Good(Cold, Table) /\ Trail(Cold, Table)
    BY ColdGood DEF DInv
  <1>2. Good(t, Table) /\ Good(b, Table)
    BY <1>1, GoesToEnds
  <1>3. Trail(t, Table) /\ Trail(b, Table)
    BY <1>1, GoTopTrails
  <1>4. Becomes(t) \/ Becomes(b)
    BY DEF GoTop, GoBottom
  <1> HIDE DEF t, b
  <1> QED BY <1>1, <1>2, <1>3, <1>4, BecomesTrails

(* GO TO the record that was just deleted, which keeps it current. *)
GoesToDeleted == \E r \in GoTos : GoTo(r) /\ Cold.deleted /\ r = Cold.recno

(* DELETE at EOF(), which empties the slot of a row that stays in the table. *)
DeletesAtEof == DeleteRow /\ Cold.eof

LEMMA GoToTrails ==
    ASSUME DInv, ~GoesToDeleted, NEW r \in GoTos, GoTo(r)
    PROVE  DInv'
  <1> DEFINE b == SyncFlags(GoRecord([Cold EXCEPT !.wasdel = FALSE], Table, RCount, r))
  <1>1. IInv /\ Rows(Table, RCount) /\ Good(Cold, Table) /\ Trail(Cold, Table) /\ r \in 0..(MaxRec + 1)
    BY ColdGood, RingFacts DEF DInv
  <1>2. Good(b, Table)
    BY <1>1, RecordSynced
  <1>3. Cold.pos # 0 /\ ~Cold.eof /\ r = Cold.recno
           => Cold.recno \in Table \/ Cold.bofAt = 0 \/ Item(Cold, 0) = Nil
    <2>1. r = Cold.recno => ~Cold.deleted
      BY DEF GoesToDeleted
    <2>2. r = Cold.recno => ~Cold.wasdel
      BY <1>1, <2>1 DEF Trail
    <2> QED BY <1>1, <2>2 DEF Trail
  <1>4. Trail(b, Table)
    <2> DEFINE a == Cold
               T == Table
               n == RCount
    <2>1. /\ Rows(T, n) /\ Good(a, T) /\ Trail(a, T) /\ r \in 0..(MaxRec + 1)
          /\ a.pos # 0 /\ ~a.eof /\ r = a.recno => a.recno \in T \/ a.bofAt = 0 \/ Item(a, 0) = Nil
          /\ b = SyncFlags(GoRecord([a EXCEPT !.wasdel = FALSE], T, n, r))
      BY <1>1, <1>3
    <2> HIDE DEF a, T, n, b
    <2>2. Trail(b, T)
      BY <2>1, RecordTrails
    <2> QED BY <2>2 DEF T
  <1>5. Becomes(b)
    BY DEF GoTo
  <1> HIDE DEF b
  <1> QED BY <1>1, <1>2, <1>4, <1>5, BecomesTrails

LEMMA SkipTrailsOn ==
    ASSUME DInv, ~UseDeleteds, ~FullRing', NEW f \in PageSizes, Skip(FWD, f)
    PROVE  DInv' /\ (Cold.wasdel => LeavesFor(wa', Cold.recno, Table))
  <1> DEFINE b == SkipOf(Cold, Table, RCount, FWD, f)
  <1>1. IInv /\ Rows(Table, RCount) /\ Good(Cold, Table) /\ Trail(Cold, Table) /\ FWD \in Dir
    BY ColdGood DEF DInv, Dir
  <1>2. Good(b, Table)
    BY <1>1, SkipGood
  <1>3. wa' = b /\ Becomes(b)
    BY DEF Skip, Becomes
  <1>4. ~(b.begin = 1 /\ b.end = Ring)
    BY <1>3 DEF FullRing
  <1>5. Trail(b, Table) /\ (Cold.wasdel => LeavesFor(b, Cold.recno, Table))
    <2> DEFINE a == Cold
               T == Table
               n == RCount
    <2>1. Rows(T, n) /\ Good(a, T) /\ Trail(a, T) /\ b = SkipOf(a, T, n, FWD, f)
      BY <1>1
    <2> HIDE DEF a, T, n, b
    <2>2. Trail(b, T) /\ (a.wasdel => LeavesFor(b, a.recno, T))
      BY <1>4, <2>1, SkipTrails
    <2> QED BY <2>2 DEF a, T
  <1> HIDE DEF b
  <1> QED BY <1>1, <1>2, <1>3, <1>5, BecomesTrails

(* The pending edit of w written, in its slot (k = 0) or in a window of its own. *)
WriteOf(w, k) ==
    LET single == k = 1
        b == [w EXCEPT !.hot = FALSE, !.isInsert = FALSE, !.bofAt = 0, !.eofAt = 0,
                       !.bof = FALSE, !.eof = FALSE,
                       !.begin = IF single THEN 1 ELSE @, !.end = IF single THEN 1 ELSE @,
                       !.pos = IF single THEN 1 ELSE @]
    IN [b EXCEPT !.aCache[b.pos] = b.recno]

LEMMA EditTrails ==
    ASSUME NEW T \in SUBSET Rec, NEW w \in Area, w.recno \in T, w.wasdel = FALSE,
           w.fEof => \A x \in T : x <= w.recno,
           NEW k \in {0, 1},
           k = 1 \/ (w.pos # 0 /\ Span(w) /\ Here(w, T) /\ Onwards(w, T, At(w) + 1, w.recno)),
           NEW c, c = WriteOf(w, k)
    PROVE  Trail(c, T)
  <1> DEFINE single == k = 1
             p == IF single THEN 1 ELSE w.pos
             F == [w.aCache EXCEPT ![p] = w.recno]
             b == [w EXCEPT !.hot = FALSE, !.isInsert = FALSE, !.bofAt = 0, !.eofAt = 0,
                            !.bof = FALSE, !.eof = FALSE,
                            !.begin = IF single THEN 1 ELSE @, !.end = IF single THEN 1 ELSE @,
                            !.pos = IF single THEN 1 ELSE @]
  <1>1. /\ b.pos = p /\ b.begin = (IF single THEN 1 ELSE w.begin) /\ b.end = (IF single THEN 1 ELSE w.end)
        /\ b.recno = w.recno /\ b.bofAt = 0 /\ b.eof = FALSE /\ b.fEof = w.fEof /\ b.wasdel = w.wasdel
        /\ b.aCache = w.aCache /\ DOMAIN b = DOMAIN w
    BY DEF Area
  <1>2. c = [b EXCEPT !.aCache[b.pos] = b.recno]
    BY DEF WriteOf
  <1> HIDE DEF b
  <1>3. /\ c.pos = p /\ c.begin = (IF single THEN 1 ELSE w.begin) /\ c.end = (IF single THEN 1 ELSE w.end)
        /\ c.recno = w.recno /\ c.bofAt = 0 /\ c.eof = FALSE /\ c.fEof = w.fEof /\ c.wasdel = FALSE
        /\ c.aCache = F
    BY <1>1, <1>2 DEF Area
  <1>4. w.recno \in Rec /\ w.aCache \in [Slot -> 0..MaxRec \cup {Nil}] /\ 1 \in Slot
    BY RingFacts DEF Area
  <1>5. CASE single
    <2>1. c.pos = 1 /\ c.begin = 1 /\ c.end = 1 /\ c.aCache[1] = c.recno /\ c.recno \in T
      BY <1>3, <1>4, <1>5
    <2>2. Stood(c, T)
      BY <2>1, Alone
    <2> QED BY <1>3, <1>4, <2>2 DEF Trail, Stood
  <1>6. CASE ~single
    <2>1. w.aCache[w.pos] = w.recno /\ w.pos \in Slot
      BY <1>6 DEF Here, Span
    <2>2. F = w.aCache
      BY <1>4, <1>6, <2>1
    <2>3. SameWindow(c, w)
      BY <1>3, <1>6, <2>2 DEF SameWindow
    <2>4. Span(c) /\ Here(c, T) /\ Onwards(c, T, At(c) + 1, c.recno)
      <3>1. /\ At(c) = At(w) /\ (Span(c) <=> Span(w))
            /\ \A k1, r : Onwards(c, T, k1, r) <=> Onwards(w, T, k1, r)
            /\ Here(c, T) <=> Here(w, T)
        BY <1>3, <2>3, WindowSame
      <3> QED BY <1>3, <1>6, <3>1
    <2>5. Whole(c, T)
      BY <1>3 DEF Whole
    <2> QED BY <1>3, <1>4, <2>4, <2>5 DEF Trail
  <1> QED BY <1>5, <1>6

LEMMA AppendTrails == DInv /\ AppendRecord => DInv'
  <1> SUFFICES ASSUME DInv, AppendRecord PROVE DInv'
    OBVIOUS
  <1> DEFINE y == SyncFlags(Cold)
             z == [y EXCEPT !.wasdel = FALSE, !.hot = TRUE, !.isInsert = TRUE, !.bof = TRUE]
             T == Table \cup {RCount + 1}
  <1>1. IInv /\ Rows(Table, RCount) /\ Good(Cold, Table)
    BY ColdGood DEF DInv
  <1>2. IInv'
    BY <1>1, AppendKeeps
  <1>3. table' = Table /\ last' = RCount /\ wa' = CleanBuffer(z, RCount) /\ RCount < MaxRec
    BY DEF AppendRecord, Becomes
  <1>4. Cold \in Area
    BY <1>1 DEF Good
  <1>5. y \in Area
    BY <1>4 DEF SyncFlags, Area
  <1> HIDE DEF y
  <1>6. /\ wa'.recno = RCount + 1 /\ wa'.hot = TRUE /\ wa'.isInsert = TRUE
        /\ wa'.wasdel = FALSE /\ wa'.deleted = FALSE
    BY <1>3, <1>5 DEF CleanBuffer, Area
  <1>7. wa' \in Area
    BY <1>2 DEF IInv
  <1>8. Pending' /\ Table' = T
    BY <1>3, <1>6 DEF Pending, Table
  <1>9. Cold' = WriteOf(wa', 1)
    <2>1. Cold' = Written'
      BY <1>6 DEF Cold
    <2>2. Written' = WriteOf(wa', 1)
      BY <1>8 DEF Written, WriteOf
    <2> QED BY <2>1, <2>2
  <1>10. T \in SUBSET Rec /\ \A x \in T : x <= RCount + 1
    <2>1. RCount \in Nat /\ Table \in SUBSET (1..RCount) /\ MaxRec \in Nat /\ Rec = 1..MaxRec
      BY <1>1, RingFacts DEF Rows
    <2> QED BY <1>3, <2>1
  <1>11. Trail(WriteOf(wa', 1), T)
    <2> DEFINE w == wa'
    <2>1. w \in Area /\ w.recno = RCount + 1 /\ w.recno \in T /\ w.wasdel = FALSE /\ \A x \in T : x <= w.recno
      BY <1>6, <1>7, <1>10
    <2> DEFINE one == 1
               c == WriteOf(w, one)
    <2>2. c = WriteOf(w, one) /\ one = 1
      OBVIOUS
    <2> HIDE DEF w, T, c, one
    <2>3. Trail(c, T)
      BY <1>10, <2>1, <2>2, EditTrails
    <2> QED BY <2>3 DEF w, c, one
  <1> QED BY <1>2, <1>8, <1>9, <1>11 DEF DInv

LEMMA ReplaceTrails == DInv /\ Replace => DInv'
  <1> SUFFICES ASSUME DInv, Replace PROVE DInv'
    OBVIOUS
  <1> DEFINE w == [wa EXCEPT !.hot = TRUE]
  <1>1. IInv /\ wa \in Area /\ Rows(table, last)
    BY DEF DInv, IInv
  <1>2. IInv'
    BY <1>1, ReplaceKeeps
  <1>3. /\ wa' = w /\ table' = table /\ last' = last /\ wa.recno \in table /\ wa.eof = FALSE
        /\ wa.hot = FALSE /\ wa.isInsert = FALSE
    BY <1>1 DEF Replace, IInv, Area
  <1>4. Cold = wa /\ Table = table /\ ~Pending
    BY <1>3 DEF Cold, Table, Pending
  <1>5. w.recno = wa.recno /\ w.hot = TRUE /\ w.isInsert = FALSE /\ w.wasdel = wa.wasdel /\ w.deleted = wa.deleted
        /\ w.fEof = wa.fEof /\ w.end = wa.end /\ w.pos = wa.pos /\ SameWindow(w, wa) /\ w \in Area
    BY <1>1, <1>3 DEF SameWindow, Area
  <1>6. wa.deleted = FALSE /\ wa.wasdel = FALSE
    <2>1. Trail(wa, table)
      BY <1>4 DEF DInv
    <2>2. wa.wasdel => wa.recno \notin table
      BY <2>1 DEF Trail
    <2>3. Good(wa, table)
      <3>1. Good(Cold, Table)
        BY <1>1, ColdGood
      <3> QED BY <1>4, <3>1
    <2>4. wa.deleted => wa.recno \notin table
      BY <2>3 DEF Good
    <2> QED BY <1>1, <1>3, <2>2, <2>4 DEF Area
  <1> HIDE DEF w
  <1>7. ~Pending' /\ Table' = table
    BY <1>3, <1>5 DEF Pending, Table
  <1> DEFINE single == IF wa.end = 0 THEN 1 ELSE 0
  <1>8. Cold' = WriteOf(w, single)
    <2>1. Cold' = Written'
      BY <1>3, <1>5, <1>6 DEF Cold
    <2>2. Written' = WriteOf(w, single)
      <3>1. single = 1 <=> (Pending \/ wa.end = 0)'
        BY <1>3, <1>5, <1>7
      <3> HIDE DEF single
      <3> QED BY <1>3, <3>1 DEF Written, WriteOf
    <2> QED BY <2>1, <2>2
  <1>9. Trail(WriteOf(w, single), table)
    <2>1. table \in SUBSET Rec
      BY <1>1, RowsFacts
    <2>2. Trail(wa, table)
      BY <1>4 DEF DInv
    <2>3. w.fEof => \A x \in table : x <= w.recno
      BY <1>3, <1>5, <2>2 DEF Trail
    <2>4. ASSUME single # 1
          PROVE  w.pos # 0 /\ Span(w) /\ Here(w, table) /\ Onwards(w, table, At(w) + 1, w.recno)
      <3>1. wa.pos # 0
        <4>1. Good(Cold, Table)
          BY <1>1, ColdGood
        <4> QED BY <1>4, <2>4, <4>1 DEF Good, Shape
      <3>2. Span(wa) /\ Here(wa, table) /\ Onwards(wa, table, At(wa) + 1, wa.recno)
        BY <1>3, <2>2, <3>1 DEF Trail
      <3>3. /\ At(w) = At(wa) /\ (Span(w) <=> Span(wa))
            /\ \A k, r : Onwards(w, table, k, r) <=> Onwards(wa, table, k, r)
            /\ Here(w, table) <=> Here(wa, table)
        BY <1>5, WindowSame
      <3> QED BY <1>5, <3>1, <3>2, <3>3
    <2>5. single \in {0, 1} /\ w \in Area /\ w.recno \in table /\ w.wasdel = FALSE
      BY <1>3, <1>5, <1>6
    <2> HIDE DEF single
    <2> DEFINE c == WriteOf(w, single)
               T == table
    <2>6. /\ c = WriteOf(w, single) /\ T \in SUBSET Rec /\ w.recno \in T
          /\ w.fEof => \A x \in T : x <= w.recno
          /\ single = 1 \/ (w.pos # 0 /\ Span(w) /\ Here(w, T) /\ Onwards(w, T, At(w) + 1, w.recno))
      BY <2>1, <2>3, <2>4, <2>5
    <2> HIDE DEF c, T
    <2>7. Trail(c, T)
      BY <2>5, <2>6, EditTrails
    <2> QED BY <2>7 DEF c, T
  <1> QED BY <1>2, <1>7, <1>8, <1>9 DEF DInv

LEMMA SiblingTrails == DInv /\ SiblingWrites => DInv'
  <1> SUFFICES ASSUME DInv, SiblingWrites PROVE DInv'
    OBVIOUS
  <1> DEFINE w == [EmptyWindow(wa) EXCEPT !.bofAt = 0, !.eofAt = 0]
  <1>1. IInv /\ wa \in Area /\ Rows(Table, RCount) /\ Good(Cold, Table) /\ Trail(Cold, Table)
    BY ColdGood DEF DInv, IInv
  <1>2. IInv'
    BY <1>1, SiblingKeeps
  <1>3. wa' = w /\ table' = table /\ last' = last
    BY DEF SiblingWrites
  <1>4. /\ w.pos = 0 /\ w.begin = 0 /\ w.end = 0 /\ w.bofAt = 0 /\ w.eofAt = 0
        /\ w.recno = wa.recno /\ w.eof = wa.eof /\ w.fEof = wa.fEof /\ w.wasdel = wa.wasdel
        /\ w.deleted = wa.deleted /\ w.hot = wa.hot /\ w.isInsert = wa.isInsert
    BY <1>1 DEF EmptyWindow, Area
  <1>5. w \in Area
    BY <1>2, <1>3 DEF IInv
  <1> HIDE DEF w
  <1>6. Pending' = Pending /\ Table' = Table
    BY <1>3, <1>4 DEF Pending, Table
  <1>7. CASE ~wa.hot
    <2>1. Cold = wa /\ Cold' = w
      BY <1>3, <1>4, <1>7 DEF Cold
    <2>2. Trail(w, Table)
      <3>1. Trail(wa, Table)
        BY <1>1, <2>1
      <3>2. w.wasdel => w.deleted /\ ~w.eof /\ w.recno \notin Table
        BY <1>4, <3>1 DEF Trail
      <3>3. IF w.eof THEN w.fEof ELSE w.recno \in Rec /\ (w.fEof => \A x \in Table : x <= w.recno)
        BY <1>4, <3>1 DEF Trail
      <3>4. w.wasdel => w.eofAt # w.recno
        BY <1>4, <3>2, <3>3, RingFacts
      <3> QED BY <1>4, <3>2, <3>3, <3>4 DEF Trail
    <2> QED BY <1>2, <1>6, <2>1, <2>2 DEF DInv
  <1>8. CASE wa.hot
    <2>1. ~wa.deleted /\ wa.recno \in Rec
      BY <1>1, <1>8 DEF IInv
    <2>2. Cold = Written /\ Cold' = WriteOf(w, 1)
      <3>1. Cold = Written /\ Cold' = Written'
        BY <1>3, <1>4, <1>8, <2>1 DEF Cold
      <3>2. Written' = WriteOf(w, 1)
        BY <1>3, <1>4 DEF Written, WriteOf
      <3> QED BY <3>1, <3>2
    <2> DEFINE s == Pending \/ wa.end = 0
               p == IF s THEN 1 ELSE wa.pos
               b == [wa EXCEPT !.hot = FALSE, !.isInsert = FALSE, !.bofAt = 0, !.eofAt = 0,
                               !.bof = FALSE, !.eof = FALSE,
                               !.begin = IF s THEN 1 ELSE @, !.end = IF s THEN 1 ELSE @,
                               !.pos = IF s THEN 1 ELSE @]
    <2>3. /\ Cold.recno = wa.recno /\ Cold.eof = FALSE /\ Cold.wasdel = wa.wasdel /\ Cold.fEof = wa.fEof
          /\ Cold.pos = p /\ Cold.aCache = [wa.aCache EXCEPT ![p] = wa.recno]
      <3>1. b.pos = p /\ b.recno = wa.recno /\ b.eof = FALSE /\ b.wasdel = wa.wasdel /\ b.fEof = wa.fEof
            /\ b.aCache = wa.aCache /\ DOMAIN b = DOMAIN wa
        BY <1>1 DEF Area
      <3>2. Cold = [b EXCEPT !.aCache[b.pos] = b.recno]
        BY <2>2 DEF Written
      <3> HIDE DEF b, p
      <3> QED BY <1>1, <3>1, <3>2 DEF Area
    <2>4. p # 0
      <3>1. CASE s
        BY <3>1
      <3>2. CASE ~s
        <4>1. wa.end # 0
          BY <3>2
        <4>2. Good(Settled(wa), table)
          BY <1>1 DEF IInv
        <4>3. wa.pos = 0 <=> wa.end = 0
          BY <1>1, <4>2 DEF Good, Shape, Settled, Area
        <4> QED BY <3>2, <4>1, <4>3
      <3> QED BY <3>1, <3>2
    <2> HIDE DEF p
    <2>5. p \in Slot
      <3>1. Cold.pos # 0 => Cold.pos \in Slot
        BY <1>1 DEF Trail, Span
      <3> QED BY <2>3, <2>4, <3>1
    <2>6. wa.recno \in Table
      <3>1. Here(Cold, Table)
        BY <1>1, <2>3, <2>4 DEF Trail
      <3>2. Cold.aCache[Cold.pos] = wa.recno
        BY <1>1, <2>3, <2>5 DEF Area
      <3>3. wa.recno # Nil
        BY <2>1, RingFacts
      <3> QED BY <2>3, <3>1, <3>2, <3>3 DEF Here
    <2>7. wa.wasdel = FALSE /\ (wa.fEof => \A x \in Table : x <= wa.recno)
      <3>1. ~wa.wasdel
        BY <1>1, <2>3, <2>6 DEF Trail
      <3>2. wa.fEof => \A x \in Table : x <= wa.recno
        BY <1>1, <2>3 DEF Trail
      <3> QED BY <1>1, <3>1, <3>2 DEF Area
    <2>8. Table \in SUBSET Rec
      BY <1>1, RowsFacts
    <2>9. w.recno \in Table /\ w.wasdel = FALSE /\ (w.fEof => \A x \in Table : x <= w.recno)
      BY <1>4, <2>6, <2>7
    <2>10. Trail(WriteOf(w, 1), Table)
      <3> DEFINE one == 1
                 c == WriteOf(w, one)
                 T == Table
      <3>1. c = WriteOf(w, one) /\ one = 1 /\ T \in SUBSET Rec /\ w \in Area
            /\ w.recno \in T /\ w.wasdel = FALSE /\ (w.fEof => \A x \in T : x <= w.recno)
        BY <1>5, <2>8, <2>9
      <3> HIDE DEF c, one, T
      <3>2. Trail(c, T)
        BY <3>1, EditTrails
      <3> QED BY <3>2 DEF c, one, T
    <2> QED BY <1>2, <1>6, <2>2, <2>10 DEF DInv
  <1> QED BY <1>7, <1>8

(* The slot of a row that is deleted is emptied. *)
LEMMA DropOnwards ==
    ASSUME NEW T \in SUBSET Rec, NEW c, Span(c), NEW r, NEW d \in Int,
           NEW k \in Nat, Onwards(c, T, k, r),
           Item(c, At(c)) = IF d \in T THEN d ELSE Nil,
           \A j \in k..Reach(c) : Item(c, j) = d => j = At(c),
           NEW b, Reach(b) = Reach(c), Item(b, At(c)) = Nil,
           \A j \in 0..Reach(c) : j # At(c) => Item(b, j) = Item(c, j)
    PROVE  Onwards(b, T \ {d}, k, r)
  <1>1. At(c) \in 0..Reach(c) /\ Reach(c) \in 0..(Ring - 2) /\ \A x \in T : x \in Int /\ x # Nil
    <2>1. At(c) \in 0..Reach(c) /\ Reach(c) \in 0..(Ring - 2)
      BY Places
    <2> QED BY <2>1, RingFacts
  <1>2. \A j \in k..Reach(c) : j \in 0..Reach(c)
    BY <1>1
  <1> SUFFICES ASSUME NEW j \in k..Reach(c), Item(b, j) # Nil
               PROVE  /\ Item(b, j) \in T \ {d} /\ r < Item(b, j)
                      /\ \A x \in T \ {d} : r < x /\ x < Item(b, j) => \E i \in k..(j - 1) : Item(b, i) = x
                      /\ \A i \in k..(j - 1) : Item(b, i) # Nil => Item(b, i) < Item(b, j)
    BY DEF Onwards
  <1>3. j # At(c) /\ Item(b, j) = Item(c, j) /\ Item(c, j) # d
    BY <1>2
  <1>4. /\ Item(c, j) \in T /\ r < Item(c, j)
        /\ \A x \in T : r < x /\ x < Item(c, j) => \E i \in k..(j - 1) : Item(c, i) = x
        /\ \A i \in k..(j - 1) : Item(c, i) # Nil => Item(c, i) < Item(c, j)
    BY <1>3 DEF Onwards
  <1>5. \A i \in k..(j - 1) : i \in 0..Reach(c)
    BY <1>1
  <1>6. ASSUME NEW x \in T \ {d}, r < x, x < Item(b, j)
        PROVE  \E i \in k..(j - 1) : Item(b, i) = x
    <2>1. PICK i \in k..(j - 1) : Item(c, i) = x
      BY <1>3, <1>4, <1>6
    <2>2. i # At(c)
      BY <1>1, <2>1
    <2> QED BY <1>5, <2>1, <2>2
  <1>7. ASSUME NEW i \in k..(j - 1), Item(b, i) # Nil PROVE Item(b, i) < Item(b, j)
    <2>1. i # At(c)
      BY <1>7
    <2>2. Item(b, i) = Item(c, i)
      BY <1>5, <2>1
    <2> QED BY <1>3, <1>4, <1>7, <2>2
  <1> QED BY <1>3, <1>4, <1>6, <1>7

(* What DELETE leaves of the area. *)
LEMMA DropTrails ==
    ASSUME NEW T \in SUBSET Rec, NEW c \in Area, Trail(c, T), c.eof = FALSE,
           NEW b, b.begin = c.begin, b.end = c.end, b.pos = c.pos, b.recno = c.recno,
           b.bofAt = c.bofAt, b.eof = FALSE, b.fEof = c.fEof, b.deleted = TRUE,
           b.wasdel = TRUE, b.eofAt # b.recno,
           b.aCache = [s \in Slot |-> IF s = c.pos THEN Nil ELSE c.aCache[s]]
    PROVE  Trail(b, T \ {c.recno})
  <1> DEFINE d == c.recno
             U == T \ {d}
             h == Item(c, 0)
  <1>1. /\ d \in Rec /\ d \in Int /\ d # Nil /\ (\A x \in T : x \in Int /\ x # Nil)
        /\ (c.fEof => \A x \in T : x <= d) /\ (c.bofAt # 0 => \A x \in T : c.bofAt <= x)
    <2>1. d \in Rec /\ (c.fEof => \A x \in T : x <= d) /\ (c.bofAt # 0 => \A x \in T : c.bofAt <= x)
      BY DEF Trail
    <2> QED BY <2>1, RingFacts
  <1>2. ASSUME c.pos # 0
        PROVE  /\ Span(b) /\ Whole(b, U) /\ Here(b, U) /\ Onwards(b, U, At(b) + 1, d)
    <2>1. Span(c) /\ Whole(c, T) /\ Here(c, T) /\ Onwards(c, T, At(c) + 1, d)
      BY <1>2 DEF Trail
    <2>2. /\ At(c) \in 0..Reach(c) /\ Reach(c) \in 0..(Ring - 2) /\ Nth(c, At(c)) = c.pos
          /\ (\A i \in 0..(Ring - 1) : Nth(c, i) \in Slot)
          /\ (\A i, j \in 0..(Ring - 1) : Nth(c, i) = Nth(c, j) => i = j)
          /\ c.pos \in Slot
      BY <2>1, Places DEF Span
    <2>3. At(b) = At(c) /\ Reach(b) = Reach(c) /\ \A i : Nth(b, i) = Nth(c, i)
      BY DEF At, Reach, Nth
    <2>4. Span(b)
      BY <2>1, <2>3 DEF Span
    <2>5. Item(c, At(c)) = IF d \in T THEN d ELSE Nil
      BY <2>1, <2>2 DEF Here, Item
    <2>6. Item(b, At(c)) = Nil
      BY <2>2, <2>3 DEF Item
    <2>7. \A j \in 0..Reach(c) : j # At(c) => Item(b, j) = Item(c, j)
      <3> SUFFICES ASSUME NEW j \in 0..Reach(c), j # At(c) PROVE Item(b, j) = Item(c, j)
        OBVIOUS
      <3>1. j \in 0..(Ring - 1) /\ At(c) \in 0..(Ring - 1)
        BY <2>2, RingFacts
      <3>2. Nth(c, j) # c.pos /\ Nth(c, j) \in Slot
        BY <2>2, <3>1
      <3> QED BY <2>3, <3>2 DEF Item
    <2>8. Onwards(b, U, At(b) + 1, d)
      <3> DEFINE k == At(c) + 1
      <3>1. \A j \in k..Reach(c) : Item(c, j) # d
        <4> SUFFICES ASSUME NEW j \in k..Reach(c), Item(c, j) = d PROVE FALSE
          OBVIOUS
        <4>1. d < Item(c, j)
          BY <1>1, <2>1 DEF Onwards
        <4> QED BY <1>1, <4>1
      <3>2. k \in Nat /\ Onwards(c, T, k, d)
        BY <2>1, <2>2
      <3> HIDE DEF k
      <3>3. Onwards(b, U, k, d)
        BY <1>1, <2>1, <2>3, <2>5, <2>6, <2>7, <3>1, <3>2, DropOnwards
      <3> QED BY <2>3, <3>3 DEF k
    <2>9. Here(b, U)
      <3>1. b.aCache[b.pos] = Nil
        BY <2>2
      <3> QED BY <3>1 DEF Here
    <2>10. Whole(b, U)
      <3> SUFFICES ASSUME b.bofAt # 0, Item(b, 0) # Nil
                   PROVE  Item(b, 0) \in U /\ Onwards(b, U, 1, Item(b, 0)) /\ Behind(b, U, Item(b, 0))
        BY DEF Whole
      <3>1. At(c) # 0 /\ 0 \in 0..Reach(c) /\ At(c) \in 1..Reach(c) /\ At(c) \in Int /\ Reach(c) \in Int
        BY <2>2, <2>6
      <3>2. Item(b, 0) = h
        BY <2>7, <3>1
      <3>3. h \in T /\ Onwards(c, T, 1, h) /\ Behind(c, T, h)
        BY <3>2, <2>1 DEF Whole
      <3>4. d \in T => h < d
        <4>1. d \in T => Item(c, At(c)) = d /\ d # Nil
          BY <1>1, <2>5
        <4> QED BY <3>1, <3>3, <4>1 DEF Onwards
      <3>5. h \in U
        BY <1>1, <3>3, <3>4
      <3>6. \A j \in 1..Reach(c) : Item(c, j) = d => j = At(c)
        <4> SUFFICES ASSUME NEW j \in 1..Reach(c), Item(c, j) = d, j # At(c) PROVE FALSE
          OBVIOUS
        <4>1. d \in T /\ Item(c, At(c)) = d
          <5>1. Item(c, j) \in T
            BY <1>1, <3>3 DEF Onwards
          <5> QED BY <2>5, <5>1
        <4>2. CASE j < At(c)
          <5>1. j \in 1..(At(c) - 1)
            BY <3>1, <4>2
          <5>2. Item(c, j) < Item(c, At(c))
            BY <1>1, <3>1, <3>3, <4>1, <5>1 DEF Onwards
          <5> QED BY <1>1, <4>1, <5>2
        <4>3. CASE At(c) < j
          <5>1. At(c) \in 1..(j - 1)
            BY <3>1, <4>3
          <5>2. Item(c, At(c)) < Item(c, j)
            BY <1>1, <3>3, <4>1, <5>1 DEF Onwards
          <5> QED BY <1>1, <4>1, <5>2
        <4> QED BY <3>1, <4>2, <4>3
      <3>7. Onwards(b, U, 1, h)
        <4> DEFINE k == 1
        <4>1. k \in Nat /\ Onwards(c, T, k, h) /\ \A j \in k..Reach(c) : Item(c, j) = d => j = At(c)
          BY <3>3, <3>6
        <4> HIDE DEF k
        <4>2. Onwards(b, U, k, h)
          BY <1>1, <2>1, <2>3, <2>5, <2>6, <2>7, <4>1, DropOnwards
        <4> QED BY <4>2 DEF k
      <3>8. Behind(b, U, h)
        <4>1. h <= d
          BY <3>3 DEF Behind
        <4>2. ASSUME NEW x \in U, h < x, x <= d PROVE \E i \in 1..At(c) : Item(b, i) = x
          <5>1. PICK i \in 1..At(c) : Item(c, i) = x
            BY <3>3, <4>2 DEF Behind
          <5>2. i # At(c)
            BY <1>1, <2>5, <5>1
          <5>3. i \in 0..Reach(c)
            BY <3>1
          <5> QED BY <2>7, <5>1, <5>2, <5>3
        <4>3. ASSUME NEW i \in 1..At(c), Item(b, i) # Nil PROVE Item(b, i) <= d
          <5>1. i # At(c) /\ i \in 0..Reach(c)
            BY <2>6, <3>1, <4>3
          <5>2. Item(b, i) = Item(c, i)
            BY <2>7, <5>1
          <5> QED BY <3>3, <4>3, <5>2 DEF Behind
        <4> QED BY <2>3, <4>1, <4>2, <4>3 DEF Behind
      <3> QED BY <3>2, <3>5, <3>7, <3>8
    <2> QED BY <2>4, <2>8, <2>9, <2>10
  <1>3. b.fEof => \A x \in U : x <= d
    BY <1>1
  <1>4. b.bofAt # 0 => \A x \in U : b.bofAt <= x
    BY <1>1
  <1> HIDE DEF U
  <1>5. Trail(b, U)
    <2>1. d \notin U
      BY DEF U
    <2> QED BY <1>1, <1>2, <1>3, <1>4, <2>1 DEF Trail
  <1> QED BY <1>5 DEF U

LEMMA DeleteTrails == DInv /\ DeleteRow /\ ~DeletesAtEof => DInv'
  <1> SUFFICES ASSUME DInv, DeleteRow, ~DeletesAtEof PROVE DInv'
    OBVIOUS
  <1> DEFINE c == Cold
             T == Table
             F == [s \in Slot |-> IF s = c.pos THEN Nil ELSE c.aCache[s]]
             b == [c EXCEPT !.deleted = TRUE, !.wasdel = TRUE,
                            !.eofAt = IF c.recno \in {c.eofAt, c.bofAt} THEN 0 ELSE @,
                            !.aCache = F]
  <1>1. IInv /\ Rows(T, RCount) /\ Good(c, T) /\ Trail(c, T)
    BY ColdGood DEF DInv
  <1>2. IInv'
    BY <1>1, DeleteRowKeeps
  <1>3. table' = T \ {c.recno} /\ last' = RCount /\ wa' = b /\ c.eof = FALSE /\ c \in Area
    BY <1>1 DEF DeleteRow, DeletesAtEof, Good, Area
  <1>4. c.hot = FALSE /\ c.isInsert = FALSE
    BY <1>1, <1>3 DEF Good, Area
  <1>5. T \in SUBSET Rec
    BY <1>1, RowsFacts
  <1> HIDE DEF c, T, F
  <1>6. /\ b.begin = c.begin /\ b.end = c.end /\ b.pos = c.pos /\ b.recno = c.recno
        /\ b.bofAt = c.bofAt /\ b.eof = FALSE /\ b.fEof = c.fEof /\ b.deleted = TRUE
        /\ b.wasdel = TRUE /\ b.aCache = F /\ b.hot = FALSE /\ b.isInsert = FALSE
        /\ b.eofAt = IF c.recno \in {c.eofAt, c.bofAt} THEN 0 ELSE c.eofAt
    BY <1>3, <1>4 DEF Area
  <1> HIDE DEF b
  <1>7. b.eofAt # b.recno
    <2>1. c.recno # 0
      <3>1. c.recno \in Rec
        BY <1>1, <1>3 DEF Trail
      <3> QED BY <3>1, RingFacts
    <2> QED BY <1>6, <2>1
  <1>8. Trail(b, T \ {c.recno})
    BY <1>1, <1>3, <1>5, <1>6, <1>7, DropTrails DEF F
  <1>9. Cold' = b /\ Table' = T \ {c.recno}
    BY <1>3, <1>6 DEF Cold, Table, Pending
  <1> QED BY <1>2, <1>8, <1>9 DEF DInv

LEMMA NextTrails ==
    ASSUME ~Backward, ~UseDeleteds, DInv, ~FullRing', ~GoesToDeleted, ~DeletesAtEof,
           [Next]_vars
    PROVE  DInv'
  <1>1. CASE GoTop \/ GoBottom \/ AppendRecord \/ Replace
    BY <1>1, EndsTrail, AppendTrails, ReplaceTrails
  <1>2. CASE DeleteMarked \/ Recall \/ DeleteRow \/ SiblingWrites
    BY <1>2, DeleteTrails, SiblingTrails DEF DeleteMarked, Recall
  <1>3. CASE \E r \in GoTos : GoTo(r)
    BY <1>3, GoToTrails
  <1>4. CASE \E f \in PageSizes : Skip(FWD, f) \/ (Backward /\ Skip(BWD, f))
    BY <1>4, SkipTrailsOn
  <1>5. CASE UNCHANGED vars
    <2>1. IInv'
      BY NextKeeps DEF DInv
    <2>2. Cold' = Cold /\ Table' = Table
      BY <1>5 DEF vars, Cold, Written, Table, Pending
    <2> QED BY <2>1, <2>2 DEF DInv
  <1> QED BY <1>1, <1>2, <1>3, <1>4, <1>5 DEF Next

(* A SKIP right after a DELETE of the row goes to the row that followed it, and  *)
(* to EOF() only if there is none, whatever pages fell where in the ring and     *)
(* wherever the deleted row was in the window (ReadPage, SkipRawCache). The      *)
(* rows are deleted, not marked; SKIP -1 is not called, the window does not take *)
(* the whole ring, GO TO is not called with the deleted record, which would keep *)
(* it current and forget that it was deleted (sqlGoTo), and DELETE is not called *)
(* at EOF(): after a GO TO 0 it takes a row out of the middle of the window.     *)
THEOREM SkipGoesPastDeleted ==
    ASSUME ~Backward, ~UseDeleteds
    PROVE  Spec /\ []~FullRing /\ [][~GoesToDeleted /\ ~DeletesAtEof]_vars => SkipLeavesDeleted
  <1>1. Init => DInv
    BY InitTrails
  <1>2. DInv /\ ~FullRing' /\ [Next]_vars /\ [~GoesToDeleted /\ ~DeletesAtEof]_vars => DInv'
    <2> SUFFICES ASSUME DInv, ~FullRing', [Next]_vars, [~GoesToDeleted /\ ~DeletesAtEof]_vars
                 PROVE  DInv'
      OBVIOUS
    <2>1. CASE ~GoesToDeleted /\ ~DeletesAtEof
      BY <2>1, NextTrails
    <2>2. CASE UNCHANGED vars
      <3>1. IInv'
        BY NextKeeps DEF DInv
      <3>2. Cold' = Cold /\ Table' = Table
        BY <2>2 DEF vars, Cold, Written, Table, Pending
      <3> QED BY <3>1, <3>2 DEF DInv
    <2> QED BY <2>1, <2>2
  <1>3. DInv /\ ~FullRing' =>
          [\A f \in PageSizes :
             Skip(FWD, f) /\ Cold.wasdel /\ Cold.deleted =>
                LET Beyond == {x \in table : x > Cold.recno}
                IN IF Beyond = {} THEN wa'.eof
                   ELSE wa'.recno \in Beyond /\ ~wa'.eof /\ \A x \in Beyond : wa'.recno <= x]_vars
    <2> SUFFICES ASSUME DInv, ~FullRing', NEW f \in PageSizes, Skip(FWD, f), Cold.wasdel, Cold.deleted
                 PROVE  LET Beyond == {x \in table : x > Cold.recno}
                        IN IF Beyond = {} THEN wa'.eof
                           ELSE wa'.recno \in Beyond /\ ~wa'.eof /\ \A x \in Beyond : wa'.recno <= x
      OBVIOUS
    <2> DEFINE r == Cold.recno
               Beyond == {x \in table : x > r}
    <2>1. LeavesFor(wa', r, Table)
      BY SkipTrailsOn
    <2>2. Table = table
      <3>1. ~wa.hot
        <4>1. ASSUME wa.hot PROVE FALSE
          <5>1. wa.deleted = FALSE /\ wa \in Area
            BY <4>1 DEF DInv, IInv, Area
          <5>2. Cold = Written
            BY <4>1, <5>1 DEF Cold
          <5>3. Written.deleted = wa.deleted
            BY <5>1 DEF Written, Area
          <5> QED BY <5>1, <5>2, <5>3
        <4> QED BY <4>1
      <3> QED BY <3>1 DEF Table, Pending
    <2>3. r \in Int /\ \A x \in table : x \in Int
      <3>1. Good(Cold, Table) /\ Rows(Table, RCount)
        BY ColdGood DEF DInv
      <3>2. Cold.recno \in 0..(MaxRec + 1)
        BY <3>1 DEF Good, Area
      <3> QED BY <2>2, <3>1, <3>2, RowsFacts, RingFacts
    <2> HIDE DEF r
    <2>4. CASE Beyond = {}
      <3>1. ~\E x \in Table : r < x
        BY <2>2, <2>3, <2>4
      <3> QED BY <2>1, <2>4, <3>1 DEF LeavesFor, r
    <2>5. CASE Beyond # {}
      <3>1. \E x \in Table : r < x
        BY <2>2, <2>3, <2>5
      <3>2. ~wa'.eof /\ NextOne(wa'.recno, Table, r)
        BY <2>1, <3>1 DEF LeavesFor
      <3>3. wa'.recno \in Beyond /\ \A x \in Beyond : wa'.recno <= x
        BY <2>2, <2>3, <3>2 DEF NextOne
      <3> QED BY <2>5, <3>2, <3>3 DEF r
    <2> QED BY <2>4, <2>5
  <1> QED BY <1>1, <1>2, <1>3, PTL DEF Spec, SkipLeavesDeleted

=============================================================================
