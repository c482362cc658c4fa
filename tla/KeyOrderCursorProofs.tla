------------------------ MODULE KeyOrderCursorProofs ------------------------
(***************************************************************************)
(* Proofs that the statements of KeyOrder move a cursor, for any columns,  *)
(* orders, tables, filters, scopes, keys and sizes of pages:               *)
(*   - GO TOP, GO BOTTOM and SKIP are those of Cursor over the records the *)
(*     filter and the scope let pass (AreaMovesAsCursor);                  *)
(*   - SEEK finds the first record that has the key, or, with SOFTSEEK,    *)
(*     the first one after it (SeekFindsFirst).                            *)
(* The cursor's table is 1..N, so a record is mapped to its rank among     *)
(* those that pass: one more for the neighbour, 1 and N for the ends.      *)
(***************************************************************************)
EXTENDS KeyOrderProofs

-----------------------------------------------------------------------------
(* Ranks *)

(* The members of V that are not after r. *)
UpTo(V, F, up, r) == {x \in V : ~Sorted(F, up, r, x)}
Rank(V, F, up, r) == Cardinality(UpTo(V, F, up, r))

LEMMA RowsAreSorted ==
    ASSUME NEW T \in Tables, NEW F \in KeyFields, NEW up \in BOOLEAN,
           NEW x \in T, NEW y \in T, NEW z \in T
    PROVE  /\ ~Sorted(F, up, x, x)
           /\ Sorted(F, up, x, y) /\ Sorted(F, up, y, z) => Sorted(F, up, x, z)
           /\ ~(Sorted(F, up, x, y) /\ Sorted(F, up, y, x))
           /\ x # y => Sorted(F, up, x, y) \/ Sorted(F, up, y, x)
           /\ Sorted(F, ~up, x, y) <=> Sorted(F, up, y, x)
  <1>1. RowOK(x) /\ RowOK(y) /\ RowOK(z) /\ Len(F) \in Nat
    BY TableAssumption DEF KeyFields
  <1>2. /\ Key(F, x) \in [1..Len(F) -> Val] /\ Key(F, y) \in [1..Len(F) -> Val]
        /\ Key(F, z) \in [1..Len(F) -> Val]
    BY <1>1, KeyOfRow
  <1>3. x # y => Key(F, x) # Key(F, y)
    BY KeysDiffer
  <1> DEFINE a == Key(F, x)  b == Key(F, y)  c == Key(F, z)
  <1>4. /\ ~Precedes(a, a) /\ (Precedes(a, b) /\ Precedes(b, c) => Precedes(a, c))
        /\ (Precedes(c, b) /\ Precedes(b, a) => Precedes(c, a))
        /\ ~(Precedes(a, b) /\ Precedes(b, a))
        /\ x # y => Precedes(a, b) \/ Precedes(b, a)
    BY <1>1, <1>2, <1>3, PrecedesOrders
  <1> QED BY <1>4 DEF Sorted

LEMMA NeverBothWays ==
    ASSUME NEW T \in Tables, NEW F \in KeyFields, NEW up \in BOOLEAN, NEW x \in T, NEW y \in T
    PROVE  ~Sorted(F, up, x, x) /\ ~(Sorted(F, up, x, y) /\ Sorted(F, up, y, x))
  BY RowsAreSorted

(* The rank of a member is a number up to the size. *)
LEMMA RankFits ==
    ASSUME NEW T \in Tables, NEW F \in KeyFields, NEW up \in BOOLEAN,
           NEW V \in SUBSET T, NEW r \in V
    PROVE  /\ Cardinality(V) \in Nat /\ IsFiniteSet(UpTo(V, F, up, r))
           /\ Rank(V, F, up, r) \in 1..Cardinality(V)
  <1> DEFINE U == UpTo(V, F, up, r)
  <1>1. IsFiniteSet(V)
    BY TableAssumption, FS_Subset
  <1>2. U \in SUBSET V /\ r \in U
    BY RowsAreSorted DEF UpTo
  <1> HIDE DEF U
  <1>3. IsFiniteSet(U) /\ Cardinality(U) <= Cardinality(V)
    BY <1>1, <1>2, FS_Subset
  <1>4. Cardinality(V) \in Nat /\ Cardinality(U) \in Nat
    BY <1>1, <1>3, FS_CardinalityType
  <1>5. Cardinality(U) # 0
    BY <1>2, <1>3, FS_EmptySet
  <1> QED BY <1>3, <1>4, <1>5 DEF U, Rank

(* The first member has rank 1, the last as many as there are. *)
LEMMA RankOfFirst ==
    ASSUME NEW T \in Tables, NEW F \in KeyFields, NEW up \in BOOLEAN,
           NEW V \in SUBSET T, NEW f \in V, \A y \in V \ {f} : Sorted(F, up, f, y)
    PROVE  Rank(V, F, up, f) = 1
  <1>1. UpTo(V, F, up, f) = {f}
    BY RowsAreSorted DEF UpTo
  <1> QED BY <1>1, FS_Singleton DEF Rank

LEMMA RankOfLast ==
    ASSUME NEW T \in Tables, NEW F \in KeyFields, NEW up \in BOOLEAN,
           NEW V \in SUBSET T, NEW f \in V, \A y \in V \ {f} : Sorted(F, ~up, f, y)
    PROVE  Rank(V, F, up, f) = Cardinality(V)
  <1>1. \A y \in V : ~Sorted(F, up, f, y)
    <2> TAKE y \in V
    <2>1. f \in T /\ y \in T
      OBVIOUS
    <2>2. CASE y = f
      BY <2>1, <2>2, RowsAreSorted
    <2>3. CASE y # f
      BY <2>1, <2>3, RowsAreSorted
    <2> QED BY <2>2, <2>3
  <1>2. UpTo(V, F, up, f) = V
    BY <1>1 DEF UpTo
  <1> QED BY <1>2 DEF Rank

(* The neighbour has the next rank; a member without one has the last. *)
LEMMA RankOfNext ==
    ASSUME NEW T \in Tables, NEW F \in KeyFields, NEW up \in BOOLEAN,
           NEW V \in SUBSET T, NEW r \in V, NEW f \in V, Sorted(F, up, r, f),
           \A y \in V \ {f} : Sorted(F, up, r, y) => Sorted(F, up, f, y)
    PROVE  Rank(V, F, up, f) = Rank(V, F, up, r) + 1
  <1>1. f \notin UpTo(V, F, up, r)
    BY DEF UpTo
  <1>2. UpTo(V, F, up, f) = UpTo(V, F, up, r) \cup {f}
    <2>1. ASSUME NEW y \in V, y # f
          PROVE  Sorted(F, up, f, y) <=> Sorted(F, up, r, y)
      <3>1. r \in T /\ f \in T /\ y \in T
        OBVIOUS
      <3>2. Sorted(F, up, f, y) => Sorted(F, up, r, y)
        BY <3>1, RowsAreSorted
      <3> QED BY <2>1, <3>2
    <2>2. ~Sorted(F, up, f, f)
      BY RowsAreSorted
    <2> QED BY <2>1, <2>2 DEF UpTo
  <1>3. IsFiniteSet(UpTo(V, F, up, r))
    BY RankFits
  <1> QED BY <1>1, <1>2, <1>3, FS_AddElement DEF Rank

-----------------------------------------------------------------------------
(* The records that pass *)

(* A key of a scope is at most two columns of its order, and no row has a NULL *)
(* in them ("3-key SET SCOPE not allowed").                                    *)
KeyFits(o, key, T) ==
    /\ Len(key) \in 0..2 /\ Len(key) <= Len(Fields[o])
    /\ \A i \in 1..Len(key) : \A r \in T : r[Fields[o][i]] # Null

ScopesFit ==
    \A o \in Order \ {0} : \A key \in Tops[o] \cup Bottoms[o] : \A T \in Tables : KeyFits(o, key, T)

ScopeInv ==
    \A o \in Order : KeyFits(o, scope[o].top, table) /\ KeyFits(o, scope[o].bottom, table)

LEMMA EmptyKeyFits ==
    ASSUME NEW o \in Order, NEW T
    PROVE  KeyFits(o, <<>>, T)
  <1>1. Len(Fields[o]) \in Nat
    BY FieldsOfOrder DEF KeyFields
  <1> QED BY <1>1 DEF KeyFits

LEMMA StepScope ==
    ASSUME ScopesFit, TypeInv, ScopeInv, [Next]_vars
    PROVE  ScopeInv'
  <1> USE DEF conditions
  <1>1. table' = table
    BY DEF Next, vars, GoTop, GoBottom, SkipForward, SkipBackward, Seek, SetOrder, OrdDescend,
           SetFilter, RemoveFilter, FilterStatus, SetScope
  <1>2. ASSUME scope' = scope PROVE ScopeInv'
    BY <1>1, <1>2 DEF ScopeInv
  <1>3. ASSUME NEW o \in Order \ {0}, NEW type \in {"top", "bottom", "both"},
               NEW key \in Tops[o] \cup Bottoms[o] \cup {<<>>}, SetScope(type, key)
        PROVE  ScopeInv'
    <2>1. order \in Order \ {0} /\ table \in Tables /\ scope \in [Order -> Scopes]
      BY <1>3 DEF SetScope, TypeInv
    <2>2. key \in Tops[order] \cup Bottoms[order] \cup {<<>>}
      BY <1>3 DEF SetScope, ScopeKeys
    <2>3. KeyFits(order, key, table)
      <3>1. CASE key = <<>>
        BY <2>1, <3>1, EmptyKeyFits
      <3>2. CASE key # <<>>
        BY <2>1, <2>2, <3>2 DEF ScopesFit
      <3> QED BY <3>1, <3>2
    <2> DEFINE s == Scoped(type, key)
    <2>4. scope' = [scope EXCEPT ![order] = s]
      BY <1>3 DEF SetScope
    <2>5. s.top \in {key, scope[order].top} /\ s.bottom \in {key, scope[order].bottom}
      <3>1. scope[order] \in Scopes
        BY <2>1
      <3>2. CASE type = "top"
        BY <3>1, <3>2 DEF Scoped, Scopes
      <3>3. CASE type = "bottom"
        BY <3>1, <3>3 DEF Scoped, Scopes
      <3>4. CASE type = "both"
        BY <3>1, <3>4 DEF Scoped, Scopes
      <3> QED BY <1>3, <3>2, <3>3, <3>4
    <2>6. KeyFits(order, s.top, table) /\ KeyFits(order, s.bottom, table)
      <3> HIDE DEF s
      <3> QED BY <2>1, <2>3, <2>5 DEF ScopeInv
    <2> HIDE DEF s
    <2>7. \A o2 \in Order : scope'[o2] = IF o2 = order THEN s ELSE scope[o2]
      BY <2>1, <2>4
    <2> QED BY <1>1, <2>6, <2>7 DEF ScopeInv
  <1>4. CASE UNCHANGED scope
    BY <1>2, <1>4
  <1>5. CASE ~UNCHANGED scope
    BY <1>3, <1>5 DEF Next, vars, GoTop, GoBottom, SkipForward, SkipBackward, Seek, SetOrder,
           OrdDescend, SetFilter, RemoveFilter, FilterStatus
  <1> QED BY <1>4, <1>5

LEMMA ScopesHold ==
    ASSUME ScopesFit
    PROVE  Spec => []ScopeInv
  <1>1. Init => ScopeInv
    BY EmptyKeyFits DEF Init, ScopeInv, NoScope
  <1>2. TypeInv /\ ScopeInv /\ [Next]_vars => ScopeInv'
    BY StepScope
  <1> QED BY <1>1, <1>2, InitTypes, StepTypes, PTL DEF Spec

(* What the clauses of filter and scope let pass is what the application asked for. *)
LEMMA PassingIsVisible ==
    ASSUME TypeInv, ScopeInv
    PROVE  Passing(order, Restrictions(order)) = Visible
  <1> DEFINE F == Fields[order]
  <1>1. table \in Tables /\ order \in Order /\ F \in KeyFields /\ scope[order] \in Scopes
    BY FieldsOfOrder DEF TypeInv
  <1>2. CASE lDisableFlts
    <2>1. Restrictions(order) = [filter |-> AllRecnos, scope |-> NoScope]
      BY <1>2 DEF Restrictions
    <2>2. \A r \in table : r["recno"] \in AllRecnos
      BY <1>1 DEF AllRecnos
    <2>3. \A r : InScope(F, NoScope, r)
      BY DEF InScope, NoScope
    <2> QED BY <1>2, <2>1, <2>2, <2>3 DEF Passing, Visible
  <1>3. CASE ~lDisableFlts
    <2>1. Restrictions(order) = [filter |-> filter, scope |-> scope[order]]
      BY <1>3 DEF Restrictions
    <2>2. \A r \in table : InScope(F, scope[order], r) <=> Within(F, scope[order], r)
      <3> TAKE r \in table
      <3> DEFINE s == scope[order]
      <3>1. RowOK(r) /\ s \in Scopes
        BY <1>1, TableAssumption
      <3>2. KeyFits(order, s.top, table) /\ KeyFits(order, s.bottom, table)
        BY <1>1 DEF ScopeInv
      <3>3. /\ Len(s.top) \in 0..2 /\ Len(s.bottom) \in 0..2
            /\ Len(s.top) <= Len(F) /\ Len(s.bottom) <= Len(F)
        BY <3>2 DEF KeyFits
      <3>4. \A i \in 1..Len(F) : i <= Len(s.top) \/ i <= Len(s.bottom) => r[F[i]] # Null
        <4> TAKE i \in 1..Len(F)
        <4>1. i <= Len(s.top) => i \in 1..Len(s.top)
          BY <3>3
        <4>2. i <= Len(s.bottom) => i \in 1..Len(s.bottom)
          BY <3>3
        <4> QED BY <3>2, <4>1, <4>2 DEF KeyFits
      <3> HIDE DEF s, F
      <3>5. InScope(F, s, r) <=> Within(F, s, r)
        BY <1>1, <3>1, <3>3, <3>4, ScopeIsInterval
      <3> QED BY <3>5 DEF s
    <2> QED BY <1>3, <2>1, <2>2 DEF Passing, Visible
  <1> QED BY <1>2, <1>3

-----------------------------------------------------------------------------
(* The moves *)

(* The ends and neighbours of the cursor's table 1..n. *)
LEMMA CursorEnds ==
    ASSUME NEW n \in Nat \ {0}
    PROVE  1..n # {} /\ C!First(1..n) = 1 /\ C!Last(1..n) = n
  <1>1. 1 \in 1..n /\ \A y \in 1..n : 1 <= y
    OBVIOUS
  <1>2. n \in 1..n /\ \A y \in 1..n : y <= n
    OBVIOUS
  <1>3. ASSUME NEW x \in 1..n, \A y \in 1..n : x <= y PROVE x = 1
    BY <1>1, <1>3
  <1>4. ASSUME NEW x \in 1..n, \A y \in 1..n : y <= x PROVE x = n
    BY <1>2, <1>4
  <1>5. C!First(1..n) = 1
    BY <1>1, <1>3 DEF C!First
  <1>6. C!Last(1..n) = n
    BY <1>2, <1>4 DEF C!Last
  <1> QED BY <1>1, <1>5, <1>6

LEMMA CursorNext ==
    ASSUME NEW n \in Nat, NEW p \in 1..n, NEW S, S = {x \in 1..n : x > p}
    PROVE  /\ p = n => S = {}
           /\ p < n => S # {} /\ C!First(S) = p + 1
  <1>1. ASSUME p < n PROVE S # {} /\ C!First(S) = p + 1
    <2>1. p + 1 \in S /\ \A y \in S : p + 1 <= y
      BY <1>1
    <2>2. ASSUME NEW x \in S, \A y \in S : x <= y PROVE x = p + 1
      BY <2>1, <2>2
    <2> QED BY <2>1, <2>2 DEF C!First
  <1> QED BY <1>1

LEMMA CursorPrevious ==
    ASSUME NEW n \in Nat, NEW p \in 1..n, NEW S, S = {x \in 1..n : x < p}
    PROVE  /\ p = 1 => S = {}
           /\ p > 1 => S # {} /\ C!Last(S) = p - 1
  <1>1. ASSUME p > 1 PROVE S # {} /\ C!Last(S) = p - 1
    <2>1. p - 1 \in S /\ \A y \in S : y <= p - 1
      BY <1>1
    <2>2. ASSUME NEW x \in S, \A y \in S : y <= x PROVE x = p - 1
      BY <2>1, <2>2
    <2> QED BY <2>1, <2>2 DEF C!Last
  <1> QED BY <1>1

(* Where the cursor is. *)
N == Cardinality(Visible)
Here == IF at = NoRow THEN 0 ELSE Place(at)

LEMMA PlaceIsRank ==
    ASSUME NEW r
    PROVE  Place(r) = Rank(Visible, Fields[order], ~reverse, r)
  BY DEF Place, Ahead, Rank, UpTo

LEMMA PlaceThen ==
    ASSUME UNCHANGED <<table, conditions>>
    PROVE  /\ Visible' = Visible
           /\ Here' = IF at' = NoRow THEN 0 ELSE Place(at')
  BY DEF Visible, Within, Here, Place, Ahead, conditions

(* GO TOP and GO BOTTOM stand on the record of rank 1 and of the last rank. *)
LEMMA EndHasRank ==
    ASSUME TypeInv, ScopeInv, NEW fwd \in BOOLEAN
    PROVE  /\ Visible = {} => EndOf(fwd) = NoRow
           /\ Visible # {} => /\ EndOf(fwd) \in Visible /\ EndOf(fwd) # NoRow
                              /\ Place(EndOf(fwd)) = IF fwd THEN 1 ELSE N
  <1> DEFINE F == Fields[order]
             f == First(F, fwd # reverse, Visible)
  <1>1. F \in KeyFields /\ table \in Tables /\ reverse \in BOOLEAN
    BY FieldsOfOrder DEF TypeInv
  <1>2. EndOf(fwd) = IF Visible = {} THEN NoRow ELSE f
    BY PassingIsVisible DEF EndOf
  <1>3. ASSUME Visible # {}
        PROVE  f \in Visible /\ f # NoRow /\ Place(f) = IF fwd THEN 1 ELSE N
    <2>1. Visible \in SUBSET table
      BY DEF Visible
    <2>2. f \in Visible /\ \A y \in Visible \ {f} : Sorted(F, fwd # reverse, f, y)
      <3> HIDE DEF F
      <3> QED BY <1>1, <1>3, <2>1, FirstIsFirst
    <2>3. f # NoRow
      BY <1>1, <2>1, <2>2, TableAssumption
    <2> HIDE DEF f, F
    <2>4. CASE fwd
      <3>1. (fwd # reverse) = (~reverse) /\ (~reverse) \in BOOLEAN
        BY <1>1, <2>4
      <3>2. Rank(Visible, F, ~reverse, f) = 1
        BY <1>1, <2>1, <2>2, <3>1, RankOfFirst
      <3> QED BY <2>2, <2>3, <2>4, <3>2, PlaceIsRank DEF F
    <2>5. CASE ~fwd
      <3>1. (fwd # reverse) = (~(~reverse)) /\ (~reverse) \in BOOLEAN
        BY <1>1, <2>5
      <3>2. Rank(Visible, F, ~reverse, f) = Cardinality(Visible)
        BY <1>1, <2>1, <2>2, <3>1, RankOfLast
      <3> QED BY <2>2, <2>3, <2>5, <3>2, PlaceIsRank DEF F, N
    <2> QED BY <2>4, <2>5
  <1> HIDE DEF f
  <1> QED BY <1>2, <1>3

LEMMA SizeOfVisible ==
    ASSUME TypeInv
    PROVE  N \in Nat /\ (N = 0 <=> Visible = {})
  <1>1. IsFiniteSet(table) /\ Visible \in SUBSET table
    BY TableAssumption DEF TypeInv, Visible
  <1>2. IsFiniteSet(Visible)
    BY <1>1, FS_Subset
  <1> QED BY <1>2, FS_CardinalityType, FS_EmptySet DEF N

LEMMA EndIsCursors ==
    ASSUME TypeInv, ScopeInv, UNCHANGED <<table, conditions>>, NEW fwd \in BOOLEAN, at' = EndOf(fwd)
    PROVE  IF fwd THEN C!GoTop ELSE C!GoBottom
  <1>1. Visible' = Visible /\ Here' = IF at' = NoRow THEN 0 ELSE Place(at')
    BY PlaceThen
  <1>2. Cardinality(Visible)' = N /\ N \in Nat /\ (N = 0 <=> Visible = {})
    BY <1>1, SizeOfVisible DEF N
  <1>3. CASE Visible = {}
    <2>1. 1..N = {} /\ at' = NoRow /\ Here' = 0
      BY <1>1, <1>2, <1>3, EndHasRank
    <2> QED BY <1>2, <2>1 DEF C!GoTop, C!GoBottom, C!Lost, Here, N
  <1>4. CASE Visible # {}
    <2>1. at' # NoRow /\ Here' = IF fwd THEN 1 ELSE N
      BY <1>1, <1>4, EndHasRank
    <2>2. 1..N # {} /\ C!First(1..N) = 1 /\ C!Last(1..N) = N
      BY <1>2, <1>4, CursorEnds
    <2> QED BY <1>2, <2>1, <2>2 DEF C!GoTop, C!GoBottom, C!At, Here, N
  <1> QED BY <1>3, <1>4

(* A SKIP to the first record of Others moves the cursor by one. *)
LEMMA NextIsCursors ==
    ASSUME TypeInv, UNCHANGED <<table, conditions>>, at \in Visible, at # NoRow,
           NEW A, A = {r \in Visible : Sorted(Fields[order], ~reverse, at, r)},
           at' = IF A = {} THEN NoRow ELSE First(Fields[order], ~reverse, A)
    PROVE  C!SkipForward
  <1> DEFINE F == Fields[order]
             up == ~reverse
             p == Place(at)
  <1>1. F \in KeyFields /\ table \in Tables /\ up \in BOOLEAN /\ Visible \in SUBSET table
    BY FieldsOfOrder DEF TypeInv, Visible
  <1>2. Visible' = Visible /\ Here' = (IF at' = NoRow THEN 0 ELSE Place(at')) /\ Here = p
    BY PlaceThen DEF Here
  <1>3. Cardinality(Visible)' = N /\ N \in Nat
    BY <1>2, SizeOfVisible DEF N
  <1>4. p \in 1..N /\ p = Rank(Visible, F, up, at)
    <2>1. p = Rank(Visible, F, up, at)
      BY PlaceIsRank
    <2> HIDE DEF p, F, up
    <2> QED BY <1>1, <2>1, RankFits DEF N
  <1> DEFINE S == {x \in 1..N : x > p}
  <1>5. C!After(Here) = S
    BY <1>2 DEF C!After, N
  <1>6. C!SkipForward <=> /\ at # NoRow
                          /\ IF S # {} THEN Here' = C!First(S) /\ at' # NoRow
                             ELSE Here' = 0 /\ at' = NoRow
    <2>1. (at = NoRow)' <=> at' = NoRow
      OBVIOUS
    <2> HIDE DEF S, p
    <2> QED BY <1>3, <1>5, <2>1 DEF C!SkipForward, C!At, C!Lost, N, Here
  <1> HIDE DEF F, up, p, S
  <1>7. CASE A = {}
    <2>1. \A y \in Visible \ {at} : Sorted(F, ~up, at, y)
      <3> TAKE y \in Visible \ {at}
      <3>1. y \in table /\ at \in table /\ y # at /\ ~Sorted(F, up, at, y)
        BY <1>1, <1>7 DEF F, up
      <3> QED BY <1>1, <3>1, RowsAreSorted
    <2>2. p = N
      BY <1>1, <1>4, <2>1, RankOfLast DEF N
    <2>3. S = {}
      BY <1>3, <1>4, <2>2, CursorNext DEF S
    <2> QED BY <1>2, <1>6, <1>7, <2>3
  <1>8. CASE A # {}
    <2> DEFINE f == First(F, up, A)
    <2>1. A \in SUBSET table
      BY <1>1
    <2>2. f \in A /\ \A y \in A \ {f} : Sorted(F, up, f, y)
      BY <1>1, <1>8, <2>1, FirstIsFirst
    <2>3. at' = f
      BY <1>8 DEF F, up
    <2> HIDE DEF f
    <2>4. f \in Visible /\ Sorted(F, up, at, f) /\ \A y \in Visible \ {f} : Sorted(F, up, at, y) => Sorted(F, up, f, y)
      BY <2>2 DEF F, up
    <2>5. f # NoRow
      BY <1>1, <2>4, TableAssumption
    <2>6. Rank(Visible, F, up, f) = p + 1 /\ Rank(Visible, F, up, f) \in 1..N
      BY <1>1, <1>4, <2>4, RankOfNext, RankFits DEF N
    <2>7. Here' = p + 1
      BY <1>2, <2>3, <2>5, <2>6, PlaceIsRank DEF F, up
    <2>8. S # {} /\ C!First(S) = p + 1
      BY <1>3, <1>4, <2>6, CursorNext DEF S
    <2> QED BY <1>6, <2>3, <2>5, <2>7, <2>8
  <1> QED BY <1>7, <1>8

LEMMA PreviousIsCursors ==
    ASSUME TypeInv, UNCHANGED <<table, conditions>>, at \in Visible, at # NoRow,
           NEW A, A = {r \in Visible : Sorted(Fields[order], reverse, at, r)},
           at' = IF A = {} THEN at ELSE First(Fields[order], reverse, A)
    PROVE  C!SkipBackward
  <1> DEFINE F == Fields[order]
             up == ~reverse
             p == Place(at)
  <1>1. F \in KeyFields /\ table \in Tables /\ up \in BOOLEAN /\ Visible \in SUBSET table
    BY FieldsOfOrder DEF TypeInv, Visible
  <1>2. Visible' = Visible /\ Here' = (IF at' = NoRow THEN 0 ELSE Place(at')) /\ Here = p
    BY PlaceThen DEF Here
  <1>3. Cardinality(Visible)' = N /\ N \in Nat
    BY <1>2, SizeOfVisible DEF N
  <1>4. p \in 1..N /\ p = Rank(Visible, F, up, at)
    <2>1. p = Rank(Visible, F, up, at)
      BY PlaceIsRank
    <2> HIDE DEF p, F, up
    <2> QED BY <1>1, <2>1, RankFits DEF N
  <1> DEFINE S == {x \in 1..N : x < p}
  <1>5. C!Before(Here) = S
    BY <1>2 DEF C!Before, N
  <1>6. C!SkipBackward <=> at # NoRow /\ at' # NoRow /\ Here' = IF S # {} THEN C!Last(S) ELSE p
    <2>1. (at = NoRow)' <=> at' = NoRow
      OBVIOUS
    <2> HIDE DEF S, p
    <2> QED BY <1>2, <1>3, <1>5, <2>1 DEF C!SkipBackward, C!At, N, Here
  <1>7. A = {r \in Visible : Sorted(F, up, r, at)}
    <2>1. \A r \in Visible : Sorted(F, reverse, at, r) <=> Sorted(F, up, r, at)
      BY DEF Sorted
    <2> HIDE DEF F, up
    <2> QED BY <2>1 DEF F
  <1>8. reverse = (~up) /\ reverse \in BOOLEAN
    BY DEF TypeInv
  <1> HIDE DEF F, up, p, S
  <1>9. CASE A = {}
    <2>1. \A y \in Visible \ {at} : Sorted(F, up, at, y)
      <3> TAKE y \in Visible \ {at}
      <3>1. y \in table /\ at \in table /\ y # at /\ ~Sorted(F, up, y, at)
        BY <1>1, <1>7, <1>9
      <3> QED BY <1>1, <3>1, RowsAreSorted
    <2>2. p = 1
      BY <1>1, <1>4, <2>1, RankOfFirst
    <2>3. S = {}
      BY <1>3, <1>4, <2>2, CursorPrevious DEF S
    <2> QED BY <1>2, <1>6, <1>9, <2>3 DEF p
  <1>10. CASE A # {}
    <2> DEFINE f == First(F, reverse, A)
    <2>1. A \in SUBSET table
      BY <1>1
    <2>2. f \in A /\ \A y \in A \ {f} : Sorted(F, reverse, f, y)
      BY <1>1, <1>8, <1>10, <2>1, FirstIsFirst
    <2>3. at' = f
      BY <1>10 DEF F
    <2> HIDE DEF f
    <2>4. f \in Visible /\ Sorted(F, up, f, at)
      BY <1>7, <2>2
    <2>5. \A y \in Visible \ {at} : Sorted(F, up, f, y) => Sorted(F, up, at, y)
      <3> SUFFICES ASSUME NEW y \in Visible, y # at, Sorted(F, up, f, y), ~Sorted(F, up, at, y)
                   PROVE  FALSE
        OBVIOUS
      <3>1. y \in table /\ at \in table /\ f \in table
        BY <1>1, <2>4
      <3>2. Sorted(F, up, y, at) /\ y # f
        BY <1>1, <3>1, RowsAreSorted
      <3>3. Sorted(F, ~up, f, y)
        BY <1>7, <1>8, <2>2, <3>2
      <3>4. Sorted(F, up, y, f)
        BY <1>1, <3>1, <3>3, RowsAreSorted
      <3> QED BY <1>1, <3>1, <3>4, RowsAreSorted
    <2>6. f # NoRow
      BY <1>1, <2>4, TableAssumption
    <2>7. p = Rank(Visible, F, up, f) + 1 /\ Rank(Visible, F, up, f) \in 1..N
      BY <1>1, <1>4, <2>4, <2>5, RankOfNext, RankFits DEF N
    <2>8. Here' = p - 1 /\ p > 1
      BY <1>2, <1>4, <2>3, <2>6, <2>7, PlaceIsRank DEF F, up
    <2>9. S # {} /\ C!Last(S) = p - 1
      BY <1>3, <1>4, <2>8, CursorPrevious DEF S
    <2> QED BY <1>6, <2>3, <2>6, <2>8, <2>9
  <1> QED BY <1>9, <1>10

(* In any order, either way, under every filter and every scope of one or two   *)
(* columns, GO TOP, GO BOTTOM and SKIP of the first engine do what they do on   *)
(* the records the application asked for (FirstFetch, ReadPage, sqlSkipRaw).    *)
THEOREM AreaMovesAsCursor ==
    ASSUME ~EmptyDates, ~StaleFilters, ScopesFit
    PROVE  Spec => MovesAsCursor
  <1> DEFINE Step == /\ GoTop => C!GoTop
                     /\ GoBottom => C!GoBottom
                     /\ SkipForward => C!SkipForward \/ C!SkipAtEof
                     /\ SkipBackward /\ ~bof => C!SkipBackward \/ C!SkipFromEof
             Skips == /\ SkipForward /\ at # NoRow =>
                            at' = IF Others(~reverse) = {} THEN NoRow
                                  ELSE First(Fields[order], ~reverse, Others(~reverse))
                      /\ SkipBackward /\ at # NoRow /\ ~bof =>
                            IF Others(reverse) = {} THEN bof' /\ at' = at
                            ELSE ~bof' /\ at' = First(Fields[order], reverse, Others(reverse))
  <1>1. ASSUME TypeInv, ScopeInv, Skips PROVE Step
    <2> HIDE DEF Skips
    <2>1. GoTop => C!GoTop
      <3>1. GoTop => UNCHANGED <<table, conditions>> /\ at' = EndOf(TRUE)
        BY DEF GoTop, StandOn
      <3> QED BY <1>1, <3>1, EndIsCursors
    <2>2. GoBottom => C!GoBottom
      <3>1. GoBottom => UNCHANGED <<table, conditions>> /\ at' = EndOf(FALSE)
        BY DEF GoBottom, StandOn
      <3> QED BY <1>1, <3>1, EndIsCursors
    <2>3. \A up \in BOOLEAN : Others(up) = {r \in Visible : Sorted(Fields[order], up, at, r)}
      BY <1>1, PassingIsVisible DEF Others
    <2>4. reverse \in BOOLEAN /\ (~reverse) \in BOOLEAN
      BY <1>1 DEF TypeInv
    <2>5. SkipForward \/ SkipBackward => UNCHANGED <<table, conditions>>
      BY DEF SkipForward, SkipBackward
    <2>6. SkipForward \/ SkipBackward => at = NoRow \/ at \in Visible
      BY <1>1, PassingIsVisible DEF SkipForward, SkipBackward, MaySkip
    <2>7. ASSUME SkipForward PROVE C!SkipForward \/ C!SkipAtEof
      <3>1. CASE at = NoRow
        <4>1. at' = at /\ Here' = Here /\ Visible' = Visible
          <5>1. at' = at
            BY <2>7, <3>1 DEF SkipForward
          <5> QED BY <2>5, <2>7, <3>1, <5>1, PlaceThen DEF Here
        <4> QED BY <3>1, <4>1 DEF C!SkipAtEof, C!vars, Here
      <3>2. CASE at # NoRow
        <4> DEFINE A == Others(~reverse)
        <4>1. A = {r \in Visible : Sorted(Fields[order], ~reverse, at, r)}
          BY <2>3, <2>4
        <4>2. at' = IF A = {} THEN NoRow ELSE First(Fields[order], ~reverse, A)
          BY <1>1, <2>7, <3>2 DEF Skips
        <4> HIDE DEF A
        <4> QED BY <1>1, <2>5, <2>6, <2>7, <3>2, <4>1, <4>2, NextIsCursors
      <3> QED BY <3>1, <3>2
    <2>8. ASSUME SkipBackward, ~bof PROVE C!SkipBackward \/ C!SkipFromEof
      <3>1. CASE at = NoRow
        <4>1. at' = EndOf(FALSE)
          BY <2>8, <3>1 DEF SkipBackward
        <4>2. C!GoBottom
          BY <1>1, <2>5, <2>8, <4>1, EndIsCursors
        <4> QED BY <3>1, <4>2 DEF C!SkipFromEof
      <3>2. CASE at # NoRow
        <4> DEFINE A == Others(reverse)
        <4>1. A = {r \in Visible : Sorted(Fields[order], reverse, at, r)}
          BY <2>3, <2>4
        <4>2. at' = IF A = {} THEN at ELSE First(Fields[order], reverse, A)
          BY <1>1, <2>8, <3>2 DEF Skips
        <4> HIDE DEF A
        <4> QED BY <1>1, <2>5, <2>6, <2>8, <3>2, <4>1, <4>2, PreviousIsCursors
      <3> QED BY <3>1, <3>2
    <2> QED BY <2>1, <2>2, <2>7, <2>8
  <1>2. TypeInv /\ ScopeInv /\ [Skips]_vars => [Step]_vars
    BY <1>1
  <1>3. Spec => []TypeInv /\ []ScopeInv /\ [][Skips]_vars
    BY TypesHold, ScopesHold, SkipIsExact DEF SkipsToNeighbour
  <1> QED BY <1>2, <1>3, PTL DEF MovesAsCursor

-----------------------------------------------------------------------------
(* SEEK *)

(* The parts of the key of a row as an application sees them: NULL is empty. *)
PartOf(F, key, r) == [i \in DOMAIN key |-> Shown(r[F[i]])]

(* A key has at least one part and no more than its order has columns.  In a   *)
(* column that may be NULL no negative number is sought, and a 0 is sought in  *)
(* a numeric column that may not be NULL only where no row is negative: the    *)
(* comparisons take a 0 for the least value.                                   *)
SeekFits(o, key) ==
    /\ Len(key) \in 1..Len(Fields[o])
    /\ \A i \in 1..Len(key) :
          /\ Fields[o][i] \in Nullable => key[i] >= 0
          /\ Fields[o][i] \in Numeric \ Nullable /\ key[i] = 0 =>
                \A T \in Tables : \A r \in T : r[Fields[o][i]] >= 0

SeeksFit == \A o \in Order \ {0} : \A key \in Seeks[o] : SeekFits(o, key)

LEMMA ShownValues ==
    ASSUME NEW k \in Column, NEW v, NEW w, ValueOK(k, v), ValueOK(k, w)
    PROVE  /\ Shown(v) \in Int
           /\ Shown(v) = Shown(w) <=> v = w
           /\ Lower(Shown(v), Shown(w)) <=> Lower(v, w)
  <1>1. Null \notin Int
    BY ColumnAssumption
  <1>2. CASE k \in Nullable
    <2>1. (v = Null \/ (v \in Int /\ v > 0)) /\ (w = Null \/ (w \in Int /\ w > 0))
      BY <1>2 DEF ValueOK
    <2>2. CASE v = Null
      BY <1>1, <2>1, <2>2 DEF Shown, Lower
    <2>3. CASE v # Null
      BY <1>1, <2>1, <2>3 DEF Shown, Lower
    <2> QED BY <2>2, <2>3
  <1>3. CASE k \notin Nullable
    BY <1>1, <1>3 DEF Shown, ValueOK, Lower
  <1> QED BY <1>2, <1>3

(* The comparisons of SEEK and of the Postgres clause are those of the shown values. *)
LEMMA SeekComparisons ==
    ASSUME NEW k \in Column, NEW v, ValueOK(k, v), NEW x \in Int,
           k \in Nullable => x >= 0,
           k \in Numeric \ Nullable /\ x = 0 => v >= 0
    PROVE  /\ SeekSide("weak", k, v, Quoted(k, x)) <=> ~Lower(Shown(v), x)
           /\ SeekSide("strict", k, v, Quoted(k, x)) <=> Lower(x, Shown(v))
           /\ v = Quoted(k, x) <=> Shown(v) = x
  <1>1. Null \notin Int
    BY ColumnAssumption
  <1>2. CASE k \in Nullable
    <2>1. CASE x = 0
      <3>1. Quoted(k, x) = Null
        BY <1>2, <2>1 DEF Quoted
      <3> QED BY <1>1, <1>2, <2>1, <3>1 DEF Shown, ValueOK, Lower, SeekSide
    <2>2. CASE x # 0
      <3>1. Quoted(k, x) = x /\ x > 0
        BY <1>1, <1>2, <2>2 DEF Quoted
      <3> QED BY <1>1, <1>2, <3>1 DEF Shown, ValueOK, Lower, SeekSide
    <2> QED BY <2>1, <2>2
  <1>3. CASE k \notin Nullable
    <2>1. Quoted(k, x) = x /\ v \in Int /\ Shown(v) = v
      BY <1>1, <1>3 DEF Quoted, Shown, ValueOK
    <2> QED BY <1>1, <1>3, <2>1 DEF Lower, SeekSide
  <1> QED BY <1>2, <1>3

LEMMA LiteralComparisons ==
    ASSUME NEW up \in BOOLEAN, NEW k \in Column, NEW v, ValueOK(k, v), v # Null, NEW x \in Int,
           up \/ Quoted(k, x) # Null
    PROVE  /\ Literal(up, "weak", v, Quoted(k, x)) <=> ~Less(up, Shown(v), x)
           /\ Literal(up, "strict", v, Quoted(k, x)) <=> Less(up, x, Shown(v))
           /\ Literal(up, "equal", v, Quoted(k, x)) <=> Shown(v) = x
  <1>1. Null \notin Int /\ Shown(v) = v /\ v \in Int
    BY ColumnAssumption DEF ValueOK, Shown
  <1>2. CASE Quoted(k, x) = Null
    <2>1. k \in Nullable /\ x = 0 /\ v > 0 /\ up
      BY <1>1, <1>2 DEF Quoted, ValueOK
    <2> QED BY <1>1, <1>2, <2>1 DEF Literal, Less, Lower
  <1>3. CASE Quoted(k, x) # Null
    <2>1. Quoted(k, x) = x
      BY <1>3 DEF Quoted
    <2>2. CASE up
      BY <1>1, <2>1, <2>2 DEF Literal, Less, Lower, Compares
    <2>3. CASE ~up
      BY <1>1, <2>1, <2>3 DEF Literal, Less, Lower, Compares
    <2> QED BY <2>2, <2>3
  <1> QED BY <1>2, <1>3

LEMMA QuotedComparison ==
    ASSUME NEW k \in Column, NEW v, ValueOK(k, v), v # Null, NEW x \in Int
    PROVE  (Quoted(k, x) # Null /\ v = Quoted(k, x)) <=> Shown(v) = x
  <1>1. Null \notin Int /\ Shown(v) = v /\ v \in Int
    BY ColumnAssumption DEF ValueOK, Shown
  <1>2. CASE Quoted(k, x) = Null
    <2>1. k \in Nullable /\ x = 0 /\ v > 0
      BY <1>1, <1>2 DEF Quoted, ValueOK
    <2> QED BY <1>1, <1>2, <2>1
  <1>3. CASE Quoted(k, x) # Null
    <2>1. Quoted(k, x) = x
      BY <1>3 DEF Quoted
    <2> QED BY <1>1, <1>3, <2>1
  <1> QED BY <1>2, <1>3

(* The clause of a soft SEEK, over the parts b of the key of a row. *)
SoftClause(n, a, b) ==
    \E j \in 0..(n - 1) : \A i \in 1..(n - j) :
        IF j > 0 /\ i = n - j THEN Lower(a[i], b[i]) ELSE ~Lower(b[i], a[i])

LEMMA SoftClauseIsRest ==
    ASSUME NEW n \in Nat \ {0}, NEW a \in [1..n -> Val], NEW b \in [1..n -> Val]
    PROVE  SoftClause(n, a, b) <=> ~Precedes(b, a)
  <1>1. DOMAIN a = 1..n /\ DOMAIN b = 1..n
    OBVIOUS
  <1>2. ASSUME SoftClause(n, a, b), Precedes(b, a) PROVE FALSE
    <2>1. PICK i \in 1..n : Lower(b[i], a[i]) /\ \A l \in 1..(i - 1) : b[l] = a[l]
      BY <1>1, <1>2 DEF Precedes
    <2>2. PICK j \in 0..(n - 1) : \A l \in 1..(n - j) :
              IF j > 0 /\ l = n - j THEN Lower(a[l], b[l]) ELSE ~Lower(b[l], a[l])
      BY <1>2 DEF SoftClause
    <2>3. CASE i <= n - j
      <3>1. i \in 1..(n - j) /\ a[i] \in Val /\ b[i] \in Val
        BY <2>3
      <3>2. ~(Lower(a[i], b[i]) /\ Lower(b[i], a[i]))
        BY <3>1, LowerOrders
      <3> QED BY <2>1, <2>2, <3>1, <3>2
    <2>4. CASE i > n - j
      <3>1. n - j \in 1..(n - j) /\ n - j \in 1..(i - 1) /\ j > 0 /\ n - j \in 1..n
        BY <2>4
      <3>2. Lower(a[n - j], b[n - j]) /\ b[n - j] = a[n - j] /\ a[n - j] \in Val
        BY <2>1, <2>2, <3>1
      <3> QED BY <3>2, LowerOrders
    <2> QED BY <2>3, <2>4
  <1>3. ASSUME ~Precedes(b, a) PROVE SoftClause(n, a, b)
    <2>1. CASE a = b
      <3>1. \A i \in 1..n : ~Lower(b[i], a[i])
        BY <2>1, LowerOrders
      <3>2. 0 \in 0..(n - 1) /\ 1..(n - 0) = 1..n /\ ~(0 > 0)
        OBVIOUS
      <3> QED BY <3>1, <3>2 DEF SoftClause
    <2>2. CASE a # b
      <3>1. Precedes(a, b)
        BY <1>3, <2>2, PrecedesOrders
      <3>2. PICK m \in 1..n : Lower(a[m], b[m]) /\ \A l \in 1..(m - 1) : a[l] = b[l]
        BY <1>1, <3>1 DEF Precedes
      <3>3. n - m \in 0..(n - 1) /\ n - (n - m) = m
        OBVIOUS
      <3>4. ASSUME NEW i \in 1..m
            PROVE  IF n - m > 0 /\ i = m THEN Lower(a[i], b[i]) ELSE ~Lower(b[i], a[i])
        <4>1. i \in 1..n /\ a[i] \in Val /\ b[i] \in Val
          OBVIOUS
        <4>2. CASE i = m
          BY <3>2, <4>1, <4>2, LowerOrders
        <4>3. CASE i # m
          <5>1. a[i] = b[i]
            BY <3>2, <4>3
          <5> QED BY <4>1, <4>3, <5>1, LowerOrders
        <4> QED BY <4>2, <4>3
      <3> QED BY <3>3, <3>4 DEF SoftClause
    <2> QED BY <2>1, <2>2
  <1> QED BY <1>2, <1>3

LEMMA WhereIsClause ==
    ASSUME NEW up \in BOOLEAN, NEW n \in Nat \ {0}, NEW F, NEW r,
           NEW Q, DOMAIN Q = 1..n, Len(Q) = n,
           NEW a \in [1..n -> Val], NEW b \in [1..n -> Val],
           \A i \in 1..n :
               /\ Holds(up, "weak", F[i], r[F[i]], Q[i]) <=> ~Less(up, b[i], a[i])
               /\ Holds(up, "strict", F[i], r[F[i]], Q[i]) <=> Less(up, a[i], b[i])
               /\ Holds(up, "equal", F[i], r[F[i]], Q[i]) <=> b[i] = a[i]
    PROVE  Where(up, F, Q, r) <=> ~(IF up THEN Precedes(b, a) ELSE Precedes(a, b))
  <1> DEFINE H(role, i) == Holds(up, role, F[i], r[F[i]], Q[i])
  <1>1. Where(up, F, Q, r) <=>
          \/ \A i \in 1..n : H("weak", i)
          \/ \E j \in 1..(n - 1) : \A i \in 1..j :
                H(IF i = j THEN "strict" ELSE IF i = j - 1 THEN "equal" ELSE "weak", i)
    BY DEF Where
  <1>2. ASSUME NEW j \in 1..(n - 1), NEW i \in 1..j
        PROVE  H(IF i = j THEN "strict" ELSE IF i = j - 1 THEN "equal" ELSE "weak", i)
                 <=> IF i = j THEN Less(up, a[i], b[i])
                     ELSE IF i = j - 1 THEN b[i] = a[i] ELSE ~Less(up, b[i], a[i])
    <2>1. i \in 1..n
      OBVIOUS
    <2> QED BY <2>1
  <1>3. \A i \in 1..n : H("weak", i) <=> ~Less(up, b[i], a[i])
    OBVIOUS
  <1> HIDE DEF H
  <1>4. Where(up, F, Q, r) <=> Clause(up, n, a, b)
    <2>1. (\A i \in 1..n : H("weak", i)) <=> \A i \in 1..n : ~Less(up, b[i], a[i])
      BY <1>3
    <2> DEFINE P(j) == \A i \in 1..j : H(IF i = j THEN "strict" ELSE IF i = j - 1 THEN "equal" ELSE "weak", i)
               R(j) == \A i \in 1..j : IF i = j THEN Less(up, a[i], b[i])
                                        ELSE IF i = j - 1 THEN b[i] = a[i] ELSE ~Less(up, b[i], a[i])
    <2>2. \A j \in 1..(n - 1) : P(j) <=> R(j)
      BY <1>2
    <2>3. /\ Where(up, F, Q, r) <=> (\A i \in 1..n : H("weak", i)) \/ \E j \in 1..(n - 1) : P(j)
          /\ Clause(up, n, a, b) <=> (\A i \in 1..n : ~Less(up, b[i], a[i])) \/ \E j \in 1..(n - 1) : R(j)
      BY <1>1 DEF Clause
    <2> HIDE DEF P, R
    <2> QED BY <2>1, <2>2, <2>3
  <1>5. Clause(up, n, a, b) <=> ~Earlier(up, n, b, a)
    BY ClauseIsRest
  <1>6. DOMAIN a = 1..n /\ DOMAIN b = 1..n
    OBVIOUS
  <1>7. Earlier(up, n, b, a) <=> IF up THEN Precedes(b, a) ELSE Precedes(a, b)
    <2>1. CASE up
      BY <1>6, <2>1 DEF Precedes, Earlier, Less
    <2>2. CASE ~up
      <3>1. \A i \in 1..n : (\A j \in 1..(i - 1) : a[j] = b[j]) <=> (\A j \in 1..(i - 1) : b[j] = a[j])
        OBVIOUS
      <3> QED BY <1>6, <2>2, <3>1 DEF Precedes, Earlier, Less
    <2> QED BY <2>1, <2>2
  <1> QED BY <1>4, <1>5, <1>7

LEMMA PartsOfRow ==
    ASSUME TypeInv, NEW F, F = Fields[order], NEW key \in Seq(Int), SeekFits(order, key),
           NEW r \in table, NEW b, b = PartOf(F, key, r), NEW n, n = Len(key)
    PROVE  /\ n \in Nat \ {0} /\ DOMAIN key = 1..n
           /\ key \in [1..n -> Int] /\ key \in [1..n -> Val]
           /\ b \in [1..n -> Int] /\ b \in [1..n -> Val]
           /\ \A i \in 1..n : /\ i \in 1..Len(F) /\ F[i] \in Column /\ ValueOK(F[i], r[F[i]])
                              /\ b[i] = Shown(r[F[i]]) /\ key[i] \in Int
                              /\ F[i] \in Nullable => key[i] >= 0
                              /\ F[i] \in Numeric \ Nullable /\ key[i] = 0 => r[F[i]] >= 0
  <1>1. F \in KeyFields /\ Len(F) \in Nat /\ table \in Tables /\ RowOK(r)
    BY FieldsOfOrder, TableAssumption DEF TypeInv, KeyFields
  <1>2. n \in 1..Len(F) /\ n \in Nat \ {0}
    BY <1>1 DEF SeekFits
  <1>3. DOMAIN key = 1..n /\ key \in [1..n -> Int] /\ key \in [1..n -> Val]
    BY DEF Val
  <1>4. ASSUME NEW i \in 1..n
        PROVE  /\ i \in 1..Len(F) /\ F[i] \in Column /\ ValueOK(F[i], r[F[i]])
               /\ key[i] \in Int
               /\ F[i] \in Nullable => key[i] >= 0
               /\ F[i] \in Numeric \ Nullable /\ key[i] = 0 => r[F[i]] >= 0
    <2>1. i \in 1..Len(F) /\ key[i] \in Int
      BY <1>1, <1>2, <1>3
    <2>2. F[i] \in Column
      BY <1>1, <2>1, KeyOfRow
    <2>3. ValueOK(F[i], r[F[i]])
      BY <1>1, <2>2, ValuesOK
    <2> QED BY <1>1, <2>1, <2>2, <2>3 DEF SeekFits
  <1>5. b = [i \in 1..n |-> Shown(r[F[i]])]
    BY <1>3 DEF PartOf
  <1>6. \A i \in 1..n : Shown(r[F[i]]) \in Int
    <2> TAKE i \in 1..n
    <2> QED BY <1>4, ShownValues
  <1>7. b \in [1..n -> Int] /\ b \in [1..n -> Val]
    BY <1>5, <1>6 DEF Val
  <1> QED BY <1>2, <1>3, <1>4, <1>5, <1>7

(* The rows the statement of SEEK selects. *)
Selected(F, Q, soft, r) ==
    IF backend = "POSTGR" THEN SeekClausePgs(F, Q, soft, r) ELSE SeekClause(F, Q, soft, r)

QuotedParts(F, key) == [i \in DOMAIN key |-> Quoted(F[i], key[i])]

LEMMA SoftSelects ==
    ASSUME TypeInv, NullInv, ~reverse, NEW F, F = Fields[order],
           NEW key \in Seq(Int), SeekFits(order, key), NEW r \in table
    PROVE  Selected(F, QuotedParts(F, key), TRUE, r) <=> ~Precedes(PartOf(F, key, r), key)
  <1> DEFINE b == PartOf(F, key, r)
             n == Len(key)
             Q == QuotedParts(F, key)
             up == ~reverse
  <1>1. /\ n \in Nat \ {0} /\ DOMAIN key = 1..n
        /\ key \in [1..n -> Val] /\ b \in [1..n -> Val]
        /\ \A i \in 1..n : /\ i \in 1..Len(F) /\ F[i] \in Column /\ ValueOK(F[i], r[F[i]])
                           /\ b[i] = Shown(r[F[i]]) /\ key[i] \in Int
                           /\ F[i] \in Nullable => key[i] >= 0
                           /\ F[i] \in Numeric \ Nullable /\ key[i] = 0 => r[F[i]] >= 0
    <2> HIDE DEF b, n
    <2> QED BY PartsOfRow DEF b, n
  <1>2. DOMAIN Q = 1..n /\ Len(Q) = n /\ \A i \in 1..n : Q[i] = Quoted(F[i], key[i])
    <2> HIDE DEF n
    <2> QED BY <1>1 DEF QuotedParts
  <1>3. up = TRUE /\ up \in BOOLEAN
    OBVIOUS
  <1> HIDE DEF b, n, Q, up
  <1>4. CASE backend = "POSTGR"
    <2>1. Selected(F, Q, TRUE, r) <=> Where(TRUE, F, Q, r)
      BY <1>3, <1>4 DEF Selected, SeekClausePgs
    <2>2. \A i \in 1..n :
               /\ Holds(up, "weak", F[i], r[F[i]], Q[i]) <=> ~Less(up, b[i], key[i])
               /\ Holds(up, "strict", F[i], r[F[i]], Q[i]) <=> Less(up, key[i], b[i])
               /\ Holds(up, "equal", F[i], r[F[i]], Q[i]) <=> b[i] = key[i]
      <3> TAKE i \in 1..n
      <3> DEFINE k == F[i]
                 v == r[k]
                 x == key[i]
      <3>1. k \in Column /\ ValueOK(k, v) /\ v # Null /\ x \in Int /\ b[i] = Shown(v) /\ Q[i] = Quoted(k, x)
        BY <1>1, <1>2, <1>4 DEF NullInv
      <3> HIDE DEF k, v, x
      <3>2. /\ Literal(up, "weak", v, Quoted(k, x)) <=> ~Less(up, Shown(v), x)
            /\ Literal(up, "strict", v, Quoted(k, x)) <=> Less(up, x, Shown(v))
            /\ Literal(up, "equal", v, Quoted(k, x)) <=> Shown(v) = x
        BY <1>3, <3>1, LiteralComparisons
      <3> QED BY <1>4, <3>1, <3>2 DEF Holds, k, v, x
    <2>3. n \in Nat \ {0} /\ key \in [1..n -> Val] /\ b \in [1..n -> Val]
          /\ DOMAIN Q = 1..n /\ Len(Q) = n
      BY <1>1, <1>2
    <2>4. Where(up, F, Q, r) <=> ~(IF up THEN Precedes(b, key) ELSE Precedes(key, b))
      BY <1>3, <2>2, <2>3, WhereIsClause
    <2> QED BY <1>3, <2>1, <2>4 DEF b, Q
  <1>5. CASE backend # "POSTGR"
    <2>1. Selected(F, Q, TRUE, r) <=>
            \E j \in 0..(n - 1) : \A i \in 1..(n - j) :
                SeekSide(IF j > 0 /\ i = n - j THEN "strict" ELSE "weak", F[i], r[F[i]], Q[i])
      BY <1>2, <1>5 DEF Selected, SeekClause
    <2>2. ASSUME NEW i \in 1..n
          PROVE  /\ SeekSide("weak", F[i], r[F[i]], Q[i]) <=> ~Lower(b[i], key[i])
                 /\ SeekSide("strict", F[i], r[F[i]], Q[i]) <=> Lower(key[i], b[i])
      <3> DEFINE k == F[i]
                 v == r[k]
                 x == key[i]
      <3>1. /\ k \in Column /\ ValueOK(k, v) /\ x \in Int /\ b[i] = Shown(v) /\ Q[i] = Quoted(k, x)
            /\ k \in Nullable => x >= 0
            /\ k \in Numeric \ Nullable /\ x = 0 => v >= 0
        BY <1>1, <1>2
      <3> HIDE DEF k, v, x
      <3>2. /\ SeekSide("weak", k, v, Quoted(k, x)) <=> ~Lower(Shown(v), x)
            /\ SeekSide("strict", k, v, Quoted(k, x)) <=> Lower(x, Shown(v))
        BY <3>1, SeekComparisons
      <3> QED BY <3>1, <3>2 DEF k, v, x
    <2>3. ASSUME NEW j \in 0..(n - 1), NEW i \in 1..(n - j)
          PROVE  SeekSide(IF j > 0 /\ i = n - j THEN "strict" ELSE "weak", F[i], r[F[i]], Q[i])
                   <=> IF j > 0 /\ i = n - j THEN Lower(key[i], b[i]) ELSE ~Lower(b[i], key[i])
      <3>1. i \in 1..n
        BY <1>1
      <3> QED BY <2>2, <3>1
    <2>4. Selected(F, Q, TRUE, r) <=> SoftClause(n, key, b)
      BY <2>1, <2>3 DEF SoftClause
    <2>5. SoftClause(n, key, b) <=> ~Precedes(b, key)
      BY <1>1, SoftClauseIsRest
    <2> QED BY <2>4, <2>5 DEF b, Q
  <1> QED BY <1>4, <1>5

LEMMA HardSelects ==
    ASSUME TypeInv, NullInv, backend # "POSTGR" \/ ~reverse, NEW F, F = Fields[order],
           NEW key \in Seq(Int), SeekFits(order, key), NEW r \in table
    PROVE  Selected(F, QuotedParts(F, key), FALSE, r) <=> PartOf(F, key, r) = key
  <1> DEFINE b == PartOf(F, key, r)
             n == Len(key)
             Q == QuotedParts(F, key)
  <1>1. /\ n \in Nat \ {0} /\ DOMAIN key = 1..n
        /\ key \in [1..n -> Val] /\ b \in [1..n -> Val]
        /\ \A i \in 1..n : /\ i \in 1..Len(F) /\ F[i] \in Column /\ ValueOK(F[i], r[F[i]])
                           /\ b[i] = Shown(r[F[i]]) /\ key[i] \in Int
                           /\ F[i] \in Nullable => key[i] >= 0
                           /\ F[i] \in Numeric \ Nullable /\ key[i] = 0 => r[F[i]] >= 0
    <2> HIDE DEF b, n
    <2> QED BY PartsOfRow DEF b, n
  <1>2. DOMAIN Q = 1..n /\ \A i \in 1..n : Q[i] = Quoted(F[i], key[i])
    <2> HIDE DEF n
    <2> QED BY <1>1 DEF QuotedParts
  <1>3. b = key <=> \A i \in 1..n : b[i] = key[i]
    <2> HIDE DEF b, n
    <2> QED BY <1>1
  <1> HIDE DEF b, n, Q
  <1>4. CASE backend = "POSTGR"
    <2>1. Selected(F, Q, FALSE, r) <=> \A i \in 1..n : Q[i] # Null /\ r[F[i]] = Q[i]
      BY <1>2, <1>4 DEF Selected, SeekClausePgs
    <2>2. \A i \in 1..n : Q[i] # Null /\ r[F[i]] = Q[i] <=> b[i] = key[i]
      <3> TAKE i \in 1..n
      <3> DEFINE k == F[i]
                 v == r[k]
                 x == key[i]
      <3>1. k \in Column /\ ValueOK(k, v) /\ v # Null /\ x \in Int /\ b[i] = Shown(v) /\ Q[i] = Quoted(k, x)
        BY <1>1, <1>2, <1>4 DEF NullInv
      <3> HIDE DEF k, v, x
      <3>2. Quoted(k, x) # Null /\ v = Quoted(k, x) <=> Shown(v) = x
        BY <3>1, QuotedComparison
      <3>3. Q[i] # Null /\ v = Q[i] <=> b[i] = x
        BY <3>1, <3>2
      <3> QED BY <3>3 DEF k, v, x
    <2> QED BY <1>3, <2>1, <2>2 DEF b, Q
  <1>5. CASE backend # "POSTGR"
    <2>1. Selected(F, Q, FALSE, r) <=> \A i \in 1..n : r[F[i]] = Q[i]
      BY <1>2, <1>5 DEF Selected, SeekClause
    <2>2. \A i \in 1..n : r[F[i]] = Q[i] <=> b[i] = key[i]
      <3> TAKE i \in 1..n
      <3> DEFINE k == F[i]
                 v == r[k]
                 x == key[i]
      <3>1. /\ k \in Column /\ ValueOK(k, v) /\ x \in Int /\ b[i] = Shown(v) /\ Q[i] = Quoted(k, x)
            /\ k \in Nullable => x >= 0
            /\ k \in Numeric \ Nullable /\ x = 0 => v >= 0
        BY <1>1, <1>2
      <3> HIDE DEF k, v, x
      <3>2. v = Quoted(k, x) <=> Shown(v) = x
        BY <3>1, SeekComparisons
      <3> QED BY <3>1, <3>2 DEF k, v, x
    <2> QED BY <1>3, <2>1, <2>2 DEF b, Q
  <1> QED BY <1>4, <1>5

(* On Postgres a SEEK of a descending order asks for the rows that are not after *)
(* the key; a row that has the key shows that no part of it is NULL.             *)
LEMMA DescendingSelects ==
    ASSUME TypeInv, NullInv, backend = "POSTGR", reverse, NEW F, F = Fields[order],
           NEW key \in Seq(Int), SeekFits(order, key), NEW r \in table,
           NEW a \in table, PartOf(F, key, a) = key
    PROVE  Selected(F, QuotedParts(F, key), FALSE, r) <=> ~Precedes(key, PartOf(F, key, r))
  <1> DEFINE b == PartOf(F, key, r)
             n == Len(key)
             Q == QuotedParts(F, key)
             up == ~reverse
  <1>1. /\ n \in Nat \ {0} /\ DOMAIN key = 1..n
        /\ key \in [1..n -> Val] /\ b \in [1..n -> Val]
        /\ \A i \in 1..n : /\ i \in 1..Len(F) /\ F[i] \in Column /\ ValueOK(F[i], r[F[i]])
                           /\ b[i] = Shown(r[F[i]]) /\ key[i] \in Int
    <2> HIDE DEF b, n
    <2> QED BY PartsOfRow DEF b, n
  <1>2. DOMAIN Q = 1..n /\ Len(Q) = n /\ \A i \in 1..n : Q[i] = Quoted(F[i], key[i])
    <2> HIDE DEF n
    <2> QED BY <1>1 DEF QuotedParts
  <1>3. \A i \in 1..n : ValueOK(F[i], a[F[i]]) /\ key[i] = Shown(a[F[i]])
    <2> HIDE DEF n
    <2> QED BY PartsOfRow DEF n
  <1>4. up = FALSE /\ up \in BOOLEAN
    OBVIOUS
  <1> HIDE DEF b, n, Q, up
  <1>5. \A i \in 1..n :
            /\ Holds(up, "weak", F[i], r[F[i]], Q[i]) <=> ~Less(up, b[i], key[i])
            /\ Holds(up, "strict", F[i], r[F[i]], Q[i]) <=> Less(up, key[i], b[i])
            /\ Holds(up, "equal", F[i], r[F[i]], Q[i]) <=> b[i] = key[i]
    <2> TAKE i \in 1..n
    <2> DEFINE k == F[i]
               v == r[k]
               x == key[i]
               w == a[k]
    <2>1. /\ k \in Column /\ ValueOK(k, v) /\ v # Null /\ x \in Int /\ b[i] = Shown(v)
          /\ Q[i] = Quoted(k, x) /\ ValueOK(k, w) /\ w # Null /\ x = Shown(w)
      BY <1>1, <1>2, <1>3 DEF NullInv
    <2> HIDE DEF k, v, x, w
    <2>2. Quoted(k, x) # Null
      <3>1. Null \notin Int
        BY ColumnAssumption
      <3> QED BY <2>1, <3>1 DEF Quoted, Shown, ValueOK
    <2>3. /\ Literal(up, "weak", v, Quoted(k, x)) <=> ~Less(up, Shown(v), x)
          /\ Literal(up, "strict", v, Quoted(k, x)) <=> Less(up, x, Shown(v))
          /\ Literal(up, "equal", v, Quoted(k, x)) <=> Shown(v) = x
      BY <1>4, <2>1, <2>2, LiteralComparisons
    <2> QED BY <2>1, <2>3 DEF Holds, k, v, x
  <1>6. n \in Nat \ {0} /\ key \in [1..n -> Val] /\ b \in [1..n -> Val]
        /\ DOMAIN Q = 1..n /\ Len(Q) = n
    BY <1>1, <1>2
  <1>7. Where(up, F, Q, r) <=> ~(IF up THEN Precedes(b, key) ELSE Precedes(key, b))
    BY <1>4, <1>5, <1>6, WhereIsClause
  <1> QED BY <1>4, <1>7 DEF Selected, SeekClausePgs, b, Q

(* What is before in its parts is before in its whole key. *)
LEMMA PartsOrderRows ==
    ASSUME TypeInv, NEW F, F = Fields[order], NEW key \in Seq(Int), SeekFits(order, key),
           NEW x \in table, NEW y \in table, Precedes(PartOf(F, key, x), PartOf(F, key, y))
    PROVE  Precedes(Key(F, x), Key(F, y))
  <1> DEFINE n == Len(key)
             a == PartOf(F, key, x)
             b == PartOf(F, key, y)
  <1>1. /\ n \in Nat \ {0} /\ a \in [1..n -> Int]
        /\ \A i \in 1..n : i \in 1..Len(F) /\ F[i] \in Column
                           /\ ValueOK(F[i], x[F[i]]) /\ a[i] = Shown(x[F[i]])
    <2> HIDE DEF a, n
    <2> QED BY PartsOfRow DEF a, n
  <1>2. \A i \in 1..n : ValueOK(F[i], y[F[i]]) /\ b[i] = Shown(y[F[i]])
    <2> HIDE DEF b, n
    <2> QED BY PartsOfRow DEF b, n
  <1> HIDE DEF a, b, n
  <1>3. PICK i \in 1..n : Lower(a[i], b[i]) /\ \A j \in 1..(i - 1) : a[j] = b[j]
    BY <1>1 DEF Precedes, a, b
  <1>4. DOMAIN Key(F, x) = 1..Len(F) /\ \A j \in 1..Len(F) : Key(F, x)[j] = x[F[j]] /\ Key(F, y)[j] = y[F[j]]
    BY DEF Key
  <1>5. ASSUME NEW j \in 1..n
        PROVE  /\ a[j] = b[j] => x[F[j]] = y[F[j]]
               /\ Lower(a[j], b[j]) => Lower(x[F[j]], y[F[j]])
    <2> DEFINE k == F[j]
               v == x[k]
               w == y[k]
    <2>1. k \in Column /\ ValueOK(k, v) /\ ValueOK(k, w) /\ a[j] = Shown(v) /\ b[j] = Shown(w)
      BY <1>1, <1>2
    <2> HIDE DEF k, v, w
    <2>2. (Shown(v) = Shown(w) <=> v = w) /\ (Lower(Shown(v), Shown(w)) <=> Lower(v, w))
      BY <2>1, ShownValues
    <2> QED BY <2>1, <2>2 DEF k, v, w
  <1>6. Lower(Key(F, x)[i], Key(F, y)[i]) /\ i \in 1..Len(F)
    BY <1>1, <1>3, <1>4, <1>5
  <1>7. \A j \in 1..(i - 1) : Key(F, x)[j] = Key(F, y)[j]
    <2> TAKE j \in 1..(i - 1)
    <2>1. j \in 1..n /\ j \in 1..Len(F)
      BY <1>1
    <2> QED BY <1>3, <1>4, <1>5, <2>1
  <1> QED BY <1>4, <1>6, <1>7 DEF Precedes

(* The rows a SEEK selects, those that have its key, and those after it. *)
Chosen(key, soft) ==
    {r \in Visible : Selected(Fields[order], QuotedParts(Fields[order], key), soft, r)}
Having(key) == {r \in Visible : PartOf(Fields[order], key, r) = key}
Beyond(key) == {r \in Visible : Precedes(key, PartOf(Fields[order], key, r))}

(* If a row has the key, the first row selected is the first that has it. *)
LEMMA SeekMeets ==
    ASSUME TypeInv, NullInv, NEW key \in Seq(Int), SeekFits(order, key),
           NEW soft \in BOOLEAN, soft => ~reverse, Having(key) # {},
           NEW f, f = First(Fields[order], ~reverse, Chosen(key, soft))
    PROVE  /\ Chosen(key, soft) # {} /\ f \in Having(key)
           /\ \A r \in Having(key) : ~Sorted(Fields[order], ~reverse, r, f)
  <1> DEFINE F == Fields[order]
             V == Visible
             S == Chosen(key, soft)
             A == Having(key)
  <1>a. /\ F = Fields[order] /\ f = First(F, ~reverse, S) /\ V \in SUBSET table
        /\ S = {r \in V : Selected(F, QuotedParts(F, key), soft, r)}
        /\ A = {r \in V : PartOf(F, key, r) = key} /\ A # {}
    BY DEF Chosen, Having, Visible
  <1> HIDE DEF F, V, S, A
  <1> DEFINE up == ~reverse
  <1>1. F \in KeyFields /\ table \in Tables /\ up \in BOOLEAN
    BY <1>a, FieldsOfOrder DEF TypeInv
  <1>2. ASSUME NEW r \in V PROVE PartOf(F, key, r) \in [1..Len(key) -> Val] /\ key \in [1..Len(key) -> Val]
                                 /\ Len(key) \in Nat
    <2> DEFINE b == PartOf(F, key, r)
               n == Len(key)
    <2> HIDE DEF b, n
    <2>1. n \in Nat \ {0} /\ b \in [1..n -> Val] /\ key \in [1..n -> Val]
      BY <1>a, <1>2, PartsOfRow DEF b, n
    <2> QED BY <2>1 DEF b, n
  <1>3. PICK a \in A : TRUE
    BY <1>a
  <1>4. a \in V /\ a \in table /\ PartOf(F, key, a) = key
    BY <1>a, <1>3
  <1> HIDE DEF up
  <1>5. /\ A \subseteq S
        /\ \A r \in S \ A : IF up THEN Precedes(key, PartOf(F, key, r)) ELSE Precedes(PartOf(F, key, r), key)
    <2> SUFFICES ASSUME NEW r \in V
                 PROVE  /\ PartOf(F, key, r) = key => Selected(F, QuotedParts(F, key), soft, r)
                        /\ Selected(F, QuotedParts(F, key), soft, r) /\ PartOf(F, key, r) # key =>
                             IF up THEN Precedes(key, PartOf(F, key, r)) ELSE Precedes(PartOf(F, key, r), key)
      BY <1>a
    <2> DEFINE b == PartOf(F, key, r)
    <2> HIDE DEF b
    <2>1. ~Precedes(key, key) /\ (b # key => Precedes(key, b) \/ Precedes(b, key))
      BY <1>2, PrecedesOrders DEF b
    <2>2. CASE soft
      <3>1. up /\ ~reverse /\ soft = TRUE
        BY <2>2 DEF up
      <3>2. Selected(F, QuotedParts(F, key), TRUE, r) <=> ~Precedes(b, key)
        BY <1>a, <3>1, SoftSelects DEF b
      <3> QED BY <2>1, <3>1, <3>2 DEF b
    <2>3. CASE ~soft /\ (backend # "POSTGR" \/ ~reverse)
      <3>1. Selected(F, QuotedParts(F, key), FALSE, r) <=> b = key
        BY <1>a, <2>3, HardSelects DEF b
      <3>2. soft = FALSE
        BY <2>3
      <3> QED BY <3>1, <3>2 DEF b
    <2>4. CASE ~soft /\ backend = "POSTGR" /\ reverse
      <3>1. Selected(F, QuotedParts(F, key), FALSE, r) <=> ~Precedes(key, b)
        BY <1>a, <1>4, <2>4, DescendingSelects DEF b
      <3>2. soft = FALSE /\ ~up
        BY <2>4 DEF up
      <3> QED BY <2>1, <3>1, <3>2 DEF b
    <2> QED BY <2>2, <2>3, <2>4
  <1>6. S # {} /\ S \in SUBSET table /\ A \subseteq S
    BY <1>a, <1>3, <1>5
  <1>7. f \in S /\ \A y \in S \ {f} : Sorted(F, up, f, y)
    <2>1. f = First(F, up, S)
      BY <1>a DEF up
    <2> QED BY <1>1, <1>6, <2>1, FirstIsFirst
  <1>8. f \in A
    <2> SUFFICES ASSUME f \notin A PROVE FALSE
      OBVIOUS
    <2>1. a \in table /\ f \in table /\ Sorted(F, up, f, a)
      BY <1>3, <1>4, <1>6, <1>7
    <2>2. CASE up
      <3>1. Precedes(PartOf(F, key, a), PartOf(F, key, f))
        BY <1>4, <1>5, <1>7, <2>2
      <3>2. Precedes(Key(F, a), Key(F, f))
        BY <2>1, <3>1, <1>a, PartsOrderRows
      <3>3. Sorted(F, up, a, f)
        BY <2>2, <3>2 DEF Sorted
      <3> QED BY <1>1, <2>1, <3>3, RowsAreSorted
    <2>3. CASE ~up
      <3>1. Precedes(PartOf(F, key, f), PartOf(F, key, a))
        BY <1>4, <1>5, <1>7, <2>3
      <3>2. Precedes(Key(F, f), Key(F, a))
        BY <2>1, <3>1, <1>a, PartsOrderRows
      <3>3. Sorted(F, up, a, f)
        BY <2>3, <3>2 DEF Sorted
      <3> QED BY <1>1, <2>1, <3>3, RowsAreSorted
    <2> QED BY <2>2, <2>3
  <1>9. ASSUME NEW r \in A PROVE ~Sorted(F, up, r, f)
    <2>1. r \in table /\ f \in table /\ r \in S
      BY <1>6, <1>8
    <2> QED BY <1>1, <1>7, <2>1, RowsAreSorted
  <1> QED BY <1>6, <1>8, <1>9 DEF up, S, A, F

(* If none has it, a soft SEEK stands on the first of those after the key. *)
LEMMA SeekMisses ==
    ASSUME TypeInv, NullInv, NEW key \in Seq(Int), SeekFits(order, key), ~reverse, Having(key) = {},
           NEW f, f = First(Fields[order], ~reverse, Chosen(key, TRUE))
    PROVE  /\ Chosen(key, TRUE) = Beyond(key)
           /\ Beyond(key) # {} =>
                 f \in Beyond(key) /\ \A r \in Beyond(key) : ~Sorted(Fields[order], ~reverse, r, f)
  <1> DEFINE F == Fields[order]
             V == Visible
             S == Chosen(key, TRUE)
             B == Beyond(key)
  <1>a. /\ F = Fields[order] /\ f = First(F, ~reverse, S) /\ V \in SUBSET table
        /\ S = {r \in V : Selected(F, QuotedParts(F, key), TRUE, r)}
        /\ B = {r \in V : Precedes(key, PartOf(F, key, r))}
        /\ \A r \in V : PartOf(F, key, r) # key
    BY DEF Chosen, Having, Beyond, Visible
  <1> HIDE DEF F, V, S, B
  <1>1. ASSUME NEW r \in V
        PROVE  Selected(F, QuotedParts(F, key), TRUE, r) <=> Precedes(key, PartOf(F, key, r))
    <2> DEFINE b == PartOf(F, key, r)
               n == Len(key)
    <2> HIDE DEF b, n
    <2>1. n \in Nat \ {0} /\ b \in [1..n -> Val] /\ key \in [1..n -> Val]
      BY <1>1, <1>a, PartsOfRow DEF b, n
    <2>2. Selected(F, QuotedParts(F, key), TRUE, r) <=> ~Precedes(b, key)
      BY <1>a, SoftSelects DEF b
    <2>3. b # key
      BY <1>a DEF b
    <2>4. ~Precedes(b, key) <=> Precedes(key, b)
      BY <2>1, <2>3, PrecedesOrders
    <2> QED BY <2>2, <2>4 DEF b
  <1>2. S = B
    BY <1>1, <1>a
  <1>3. ASSUME B # {} PROVE f \in B /\ \A r \in B : ~Sorted(F, ~reverse, r, f)
    <2> DEFINE up == ~reverse
    <2>1. F \in KeyFields /\ table \in Tables /\ up \in BOOLEAN
      BY <1>a, FieldsOfOrder DEF TypeInv
    <2> HIDE DEF up
    <2>2. B \in SUBSET table
      BY <1>a
    <2>3. f \in B /\ \A y \in B \ {f} : Sorted(F, up, f, y)
      <3>1. f = First(F, up, B)
        BY <1>2, <1>a DEF up
      <3>2. F \in KeyFields /\ table \in Tables /\ up \in BOOLEAN /\ B # {}
        BY <1>3, <2>1
      <3>3. First(F, up, B) \in B /\ \A y \in B \ {First(F, up, B)} : Sorted(F, up, First(F, up, B), y)
        BY <2>2, <3>2, FirstIsFirst
      <3> QED BY <3>1, <3>3
    <2>4. ASSUME NEW r \in B PROVE ~Sorted(F, up, r, f)
      <3>1. r \in table /\ f \in table
        BY <2>2, <2>3
      <3>2. r # f => Sorted(F, up, f, r)
        BY <2>3
      <3>3. ~Sorted(F, up, f, f) /\ ~(Sorted(F, up, f, r) /\ Sorted(F, up, r, f))
        BY <2>1, <3>1, NeverBothWays
      <3> QED BY <3>2, <3>3
    <2> QED BY <2>3, <2>4 DEF up
  <1> QED BY <1>2, <1>3 DEF S, B, F

(* In any order, either way, under every filter and scope: SEEK finds the first *)
(* record whose key begins with the parts asked for, and FOUND() says so; when  *)
(* there is none, SOFTSEEK goes to the first record after the key (sqlSeek).    *)
THEOREM SeekFindsFirst ==
    ASSUME ~EmptyDates, ScopesFit, SeeksFit
    PROVE  Spec => SeekFinds
  <1> DEFINE Found(key, soft) ==
          UNCHANGED conditions /\ Seek(key, soft) =>
            LET F == Fields[order]
                Part(r) == [i \in DOMAIN key |-> Shown(r[F[i]])]
                A == {r \in Visible : Part(r) = key}
                B == {r \in Visible : Precedes(key, Part(r))}
                FirstOf(S) == at' \in S /\ \A r \in S : ~Ahead(r, at')
            IN IF A # {} THEN found' /\ FirstOf(A)
               ELSE IF soft /\ B # {} THEN FirstOf(B)
               ELSE at' = NoRow /\ ~found'
             Step == \A key \in UNION {Seeks[o] : o \in Order \ {0}}, soft \in BOOLEAN : Found(key, soft)
  <1>1. ASSUME TypeInv, NullInv, ScopeInv PROVE Step
    <2> SUFFICES ASSUME NEW key, NEW soft \in BOOLEAN, Seek(key, soft) PROVE Found(key, soft)
      BY SMTT(30)
    <2> DEFINE F == Fields[order]
               V == Visible
               S == Chosen(key, soft)
               A == Having(key)
               B == Beyond(key)
               f == First(F, ~reverse, S)
    <2>1. order \in Order \ {0} /\ key \in Seeks[order] /\ (soft => ~reverse)
      BY <1>1 DEF Seek, TypeInv
    <2>2. SeekFits(order, key) /\ key \in Seq(Int)
      BY <2>1, BoundAssumption DEF SeeksFit
    <2>3. V \in SUBSET table
      BY DEF Visible
    <2>4. /\ found' = (S # {} /\ Matches(F, key, soft, f))
          /\ at' = IF S # {} /\ (soft \/ Matches(F, key, soft, f)) THEN f ELSE NoRow
      <3>1. Passing(order, Restrictions(order)) = V
        BY <1>1, PassingIsVisible
      <3> QED BY <3>1 DEF Seek, Selected, QuotedParts, Chosen
    <2>5. Found(key, soft) <=>
             (UNCHANGED conditions /\ Seek(key, soft) =>
                IF A # {} THEN found' /\ at' \in A /\ \A r \in A : ~Sorted(F, ~reverse, r, at')
                ELSE IF soft /\ B # {} THEN at' \in B /\ \A r \in B : ~Sorted(F, ~reverse, r, at')
                ELSE at' = NoRow /\ ~found')
      BY DEF PartOf, Ahead, Having, Beyond
    <2>6. \A r \in V : PartOf(F, key, r) = key => Matches(F, key, soft, r)
      BY DEF PartOf, Matches
    <2>7. \A r \in V : ~soft /\ Matches(F, key, soft, r) => PartOf(F, key, r) = key
      <3> SUFFICES ASSUME NEW r \in V, ~soft, \A i \in DOMAIN key : Shown(r[F[i]]) = key[i]
                   PROVE  PartOf(F, key, r) = key
        BY DEF Matches
      <3>1. key = [i \in DOMAIN key |-> key[i]]
        BY <2>2
      <3> QED BY <3>1 DEF PartOf
    <2> HIDE DEF Found
    <2>8. CASE A # {}
      <3> HIDE DEF F, V
      <3>1. S # {} /\ f \in A /\ \A r \in A : ~Sorted(F, ~reverse, r, f)
        <4> HIDE DEF f
        <4>1. f = First(Fields[order], ~reverse, Chosen(key, soft))
          BY DEF f, F
        <4> QED BY <1>1, <2>1, <2>2, <2>8, <4>1, SeekMeets DEF F
      <3> HIDE DEF S, f
      <3>2. Matches(F, key, soft, f)
        <4>1. A = {r \in V : PartOf(F, key, r) = key}
          BY DEF Having, F, V
        <4> HIDE DEF A
        <4> QED BY <2>6, <3>1, <4>1
      <3>3. found' /\ at' = f
        BY <2>4, <3>1, <3>2
      <3> HIDE DEF A
      <3> QED BY <2>5, <2>8, <3>1, <3>3
    <2>9. CASE A = {} /\ soft
      <3> HIDE DEF F, V
      <3>1. S = B /\ (B # {} => f \in B /\ \A r \in B : ~Sorted(F, ~reverse, r, f))
        <4>1. ~reverse /\ soft = TRUE
          BY <2>1, <2>9
        <4> HIDE DEF f
        <4>2. f = First(Fields[order], ~reverse, Chosen(key, TRUE)) /\ Chosen(key, soft) = Chosen(key, TRUE)
          BY <4>1 DEF f, F
        <4> QED BY <1>1, <2>2, <2>9, <4>1, <4>2, SeekMisses DEF F
      <3> HIDE DEF S, f, A, B
      <3> QED BY <2>4, <2>5, <2>9, <3>1
    <2>10. CASE A = {} /\ ~soft
      <3>1. S # {} => ~Matches(F, key, soft, f)
        <4>1. S # {} => f \in V
          <5>1. S \in SUBSET table /\ table \in Tables /\ F \in KeyFields /\ (~reverse) \in BOOLEAN
            BY <1>1, <2>3, FieldsOfOrder DEF TypeInv, Chosen
          <5>2. S \subseteq V
            BY DEF Chosen
          <5> DEFINE up == ~reverse
          <5>3. f = First(F, up, S) /\ up \in BOOLEAN
            BY <5>1
          <5> HIDE DEF F, V, S, up, f
          <5>4. S \in SUBSET table /\ table \in Tables /\ F \in KeyFields
            BY <5>1
          <5>5. S # {} => First(F, up, S) \in S
            BY <5>3, <5>4, FirstIsFirst
          <5> QED BY <5>2, <5>3, <5>5
        <4>2. \A r \in V : PartOf(F, key, r) # key
          BY <2>10 DEF Having
        <4> HIDE DEF F, V, S, f, A
        <4> QED BY <2>7, <2>10, <4>1, <4>2
      <3> HIDE DEF F, V, S, f, A, B
      <3> QED BY <2>4, <2>5, <2>10, <3>1
    <2> QED BY <2>8, <2>9, <2>10
  <1>2. TypeInv /\ NullInv /\ ScopeInv => [Step]_vars
    BY <1>1
  <1>3. Spec => []TypeInv /\ []NullInv /\ []ScopeInv
    BY TypesHold, NoNulls, ScopesHold
  <1>4. SeekFinds <=> [][Step]_vars
    BY DEF SeekFinds
  <1> QED BY <1>2, <1>3, <1>4, PTL
=============================================================================
