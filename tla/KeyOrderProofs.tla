--------------------------- MODULE KeyOrderProofs ---------------------------
(***************************************************************************)
(* Proofs about KeyOrder, for any columns, orders, tables, filters, scopes *)
(* and sizes of pages:                                                     *)
(*   - the current record is a row of the table (TypeCorrect);             *)
(*   - the clauses kept have the restrictions of now (KeptStaysCurrent);   *)
(*   - the clause of a page is the rest of the order (PagesAreRest);       *)
(*   - SKIP goes to the neighbour among the rows that pass (SkipIsExact);  *)
(*   - the expression of a scope is an interval of keys (ScopeIsInterval). *)
(* The order of an index is the lexicographic order of the keys with NULL  *)
(* first.  It is total, so a finite set of rows has one first row; that    *)
(* the set has one is FiniteSetHasFirst, by counting predecessors.         *)
(***************************************************************************)
EXTENDS KeyOrder, FiniteSetTheorems, FunctionTheorems, TLAPS

-----------------------------------------------------------------------------
(* Orders *)

(* R orders the members of S, each two of them, strictly. *)
Orders(R, S) ==
    /\ \A x \in S : <<x, x>> \notin R
    /\ \A x, y, z \in S : <<x, y>> \in R /\ <<y, z>> \in R => <<x, z>> \in R
    /\ \A x, y \in S : x # y => <<x, y>> \in R \/ <<y, x>> \in R

(* A finite set has a first member: the numbers of members before each are  *)
(* as many as the members, and all different, so one of them is 0.          *)
LEMMA FiniteSetHasFirst ==
    ASSUME NEW R, NEW S, IsFiniteSet(S), S # {}, Orders(R, S)
    PROVE  \E x \in S : \A y \in S \ {x} : <<x, y>> \in R
  <1> DEFINE Before(x) == {y \in S : <<y, x>> \in R}
             N == Cardinality(S)
             h == [x \in S |-> Cardinality(Before(x))]
  <1>1. N \in Nat /\ N > 0
    BY FS_CardinalityType, FS_EmptySet
  <1>2. \A x \in S : /\ IsFiniteSet(Before(x)) /\ Cardinality(Before(x)) \in Nat
                     /\ Cardinality(Before(x)) < N
    <2> TAKE x \in S
    <2>1. Before(x) \in SUBSET S /\ Before(x) # S
      BY DEF Orders
    <2>2. /\ IsFiniteSet(Before(x)) /\ Cardinality(Before(x)) <= N
          /\ Cardinality(S) = Cardinality(Before(x)) => S = Before(x)
      BY <2>1, FS_Subset
    <2>3. Cardinality(Before(x)) \in Nat
      BY <2>2, FS_CardinalityType
    <2> QED BY <1>1, <2>1, <2>2, <2>3
  <1>3. \A x, y \in S : <<x, y>> \in R => Cardinality(Before(x)) # Cardinality(Before(y))
    <2> SUFFICES ASSUME NEW x \in S, NEW y \in S, <<x, y>> \in R
                 PROVE  Cardinality(Before(x)) # Cardinality(Before(y))
      OBVIOUS
    <2>1. Before(x) \in SUBSET Before(y) /\ Before(x) # Before(y)
      BY DEF Orders
    <2> QED BY <1>2, <2>1, FS_Subset
  <1>4. h \in Injection(S, 0..(N - 1))
    <2>1. \A x \in S : Cardinality(Before(x)) \in 0..(N - 1)
      <3> HIDE DEF Before, N
      <3> QED BY <1>1, <1>2
    <2>2. h \in [S -> 0..(N - 1)]
      <3> HIDE DEF Before, N
      <3> QED BY <2>1
    <2>3. ASSUME NEW x \in S, NEW y \in S, h[x] = h[y] PROVE x = y
      <3> HIDE DEF Before, N
      <3>1. h[x] = Cardinality(Before(x)) /\ h[y] = Cardinality(Before(y))
        OBVIOUS
      <3>2. <<x, y>> \notin R /\ <<y, x>> \notin R
        BY <1>3, <2>3, <3>1
      <3> QED BY <3>2 DEF Orders
    <2> QED BY <2>2, <2>3 DEF Injection, IsInjective
  <1>5. IsFiniteSet(0..(N - 1)) /\ Cardinality(0..(N - 1)) = N
    BY <1>1, FS_Interval
  <1>6. h \in Surjection(S, 0..(N - 1))
    <2> HIDE DEF h
    <2> QED BY <1>4, <1>5, FS_Injection
  <1>7. PICK x \in S : h[x] = 0
    <2>1. 0 \in 0..(N - 1)
      BY <1>1
    <2> HIDE DEF h
    <2> QED BY <1>6, <2>1 DEF Surjection
  <1>8. Before(x) = {}
    BY <1>2, <1>7, FS_EmptySet
  <1> QED BY <1>8 DEF Orders

Val == Int \cup {Null}

LEMMA LowerOrders ==
    ASSUME NEW u \in Val, NEW v \in Val, NEW w \in Val
    PROVE  /\ ~Lower(u, u)
           /\ Lower(u, v) /\ Lower(v, w) => Lower(u, w)
           /\ u # v => Lower(u, v) \/ Lower(v, u)
  BY ColumnAssumption DEF Val, Lower

(* Where two keys differ, they differ at a first part. *)
LEMMA FirstDifference ==
    ASSUME NEW n \in Nat, NEW u \in [1..n -> Val], NEW v \in [1..n -> Val], u # v
    PROVE  \E i \in 1..n : u[i] # v[i] /\ \A j \in 1..(i - 1) : u[j] = v[j]
  <1> DEFINE D == {i \in 1..n : u[i] # v[i]}
             R == {p \in Nat \X Nat : p[1] < p[2]}
  <1>1. D # {}
    OBVIOUS
  <1>2. IsFiniteSet(D)
    BY FS_Interval, FS_Subset
  <1>3. Orders(R, D)
    BY DEF Orders
  <1>4. PICK i \in D : \A j \in D \ {i} : <<i, j>> \in R
    <2> HIDE DEF D, R
    <2> QED BY <1>1, <1>2, <1>3, FiniteSetHasFirst
  <1>5. ASSUME NEW j \in 1..(i - 1), u[j] # v[j] PROVE FALSE
    <2>1. j \in D \ {i} /\ j < i
      BY <1>5
    <2>2. <<i, j>> \in R
      BY <1>4, <2>1
    <2> QED BY <2>1, <2>2
  <1> QED BY <1>4, <1>5

LEMMA PrecedesOrders ==
    ASSUME NEW n \in Nat, NEW u \in [1..n -> Val], NEW v \in [1..n -> Val], NEW w \in [1..n -> Val]
    PROVE  /\ ~Precedes(u, u)
           /\ Precedes(u, v) /\ Precedes(v, w) => Precedes(u, w)
           /\ u # v => Precedes(u, v) \/ Precedes(v, u)
  <1>1. ~Precedes(u, u)
    BY LowerOrders DEF Precedes
  <1>2. ASSUME Precedes(u, v), Precedes(v, w) PROVE Precedes(u, w)
    <2>1. PICK i \in 1..n : Lower(u[i], v[i]) /\ \A j \in 1..(i - 1) : u[j] = v[j]
      BY <1>2 DEF Precedes
    <2>2. PICK k \in 1..n : Lower(v[k], w[k]) /\ \A j \in 1..(k - 1) : v[j] = w[j]
      BY <1>2 DEF Precedes
    <2>3. CASE i < k
      <3>1. v[i] = w[i] /\ \A j \in 1..(i - 1) : v[j] = w[j]
        BY <2>2, <2>3
      <3> QED BY <2>1, <3>1 DEF Precedes
    <2>4. CASE k < i
      <3>1. u[k] = v[k] /\ \A j \in 1..(k - 1) : u[j] = v[j]
        BY <2>1, <2>4
      <3> QED BY <2>2, <3>1 DEF Precedes
    <2>5. CASE i = k
      <3>1. Lower(u[i], w[i])
        BY <2>1, <2>2, <2>5, LowerOrders
      <3> QED BY <2>1, <2>2, <2>5, <3>1 DEF Precedes
    <2> QED BY <2>3, <2>4, <2>5
  <1>3. ASSUME u # v PROVE Precedes(u, v) \/ Precedes(v, u)
    <2>1. PICK i \in 1..n : u[i] # v[i] /\ \A j \in 1..(i - 1) : u[j] = v[j]
      BY <1>3, FirstDifference
    <2>2. Lower(u[i], v[i]) \/ Lower(v[i], u[i])
      BY <2>1, LowerOrders
    <2> QED BY <2>1, <2>2 DEF Precedes
  <1> QED BY <1>1, <1>2, <1>3

-----------------------------------------------------------------------------
(* Rows in the order of a statement *)

KeyFields == {F \in Seq(Column) : Len(F) \in Nat \ {0} /\ F[Len(F)] = "recno"}

LEMMA FieldsOfOrder ==
    ASSUME NEW o \in Order
    PROVE  Fields[o] \in KeyFields
  <1>1. Fields[o] \in Seq(Column) /\ Len(Fields[o]) \in 1..10 /\ Fields[o][Len(Fields[o])] = "recno"
    BY ColumnAssumption
  <1>2. \A n \in 1..10 : n \in Nat \ {0}
    OBVIOUS
  <1> QED BY <1>1, <1>2 DEF KeyFields

LEMMA KeyOfRow ==
    ASSUME NEW F \in KeyFields, NEW x, RowOK(x)
    PROVE  /\ Key(F, x) \in [1..Len(F) -> Val]
           /\ \A i \in 1..Len(F) : F[i] \in Column /\ Key(F, x)[i] = x[F[i]] /\ x[F[i]] \in Val
  BY DEF KeyFields, RowOK, Val, Key

LEMMA KeysDiffer ==
    ASSUME NEW T \in Tables, NEW F \in KeyFields, NEW x \in T, NEW y \in T, x # y
    PROVE  Key(F, x) # Key(F, y)
  <1>1. x["recno"] # y["recno"] /\ RowOK(x) /\ RowOK(y)
    BY TableAssumption
  <1>2. Len(F) \in 1..Len(F) /\ F[Len(F)] = "recno"
    BY DEF KeyFields
  <1> QED BY <1>1, <1>2, KeyOfRow

(* First is a row: the rows of a table are finitely many, and sorted. *)
LEMMA FirstIsFirst ==
    ASSUME NEW T \in Tables, NEW F \in KeyFields, NEW up \in BOOLEAN,
           NEW S \in SUBSET T, S # {}
    PROVE  /\ First(F, up, S) \in S
           /\ \A y \in S \ {First(F, up, S)} : Sorted(F, up, First(F, up, S), y)
  <1> DEFINE R == {p \in S \X S : Sorted(F, up, p[1], p[2])}
  <1>1. IsFiniteSet(S)
    BY TableAssumption, FS_Subset
  <1>2. \A x \in S : RowOK(x)
    BY TableAssumption
  <1>3. Len(F) \in Nat /\ \A x \in S : Key(F, x) \in [1..Len(F) -> Val]
    BY <1>2, KeyOfRow DEF KeyFields
  <1>4. Orders(R, S)
    <2>1. ASSUME NEW x \in S PROVE ~Sorted(F, up, x, x)
      BY <1>3, PrecedesOrders DEF Sorted
    <2>2. ASSUME NEW x \in S, NEW y \in S, NEW z \in S, Sorted(F, up, x, y), Sorted(F, up, y, z)
          PROVE  Sorted(F, up, x, z)
      <3>1. CASE up
        BY <1>3, <2>2, <3>1, PrecedesOrders DEF Sorted
      <3>2. CASE ~up
        BY <1>3, <2>2, <3>2, PrecedesOrders DEF Sorted
      <3> QED BY <3>1, <3>2
    <2>3. ASSUME NEW x \in S, NEW y \in S, x # y
          PROVE  Sorted(F, up, x, y) \/ Sorted(F, up, y, x)
      <3>1. Key(F, x) # Key(F, y)
        BY <2>3, KeysDiffer
      <3> QED BY <1>3, <3>1, PrecedesOrders DEF Sorted
    <2> QED BY <2>1, <2>2, <2>3 DEF Orders
  <1>5. \E x \in S : \A y \in S \ {x} : <<x, y>> \in R
    <2> HIDE DEF R
    <2> QED BY <1>1, <1>4, FiniteSetHasFirst
  <1>6. \E x \in S : \A y \in S \ {x} : Sorted(F, up, x, y)
    BY <1>5
  <1> QED BY <1>6 DEF First

-----------------------------------------------------------------------------
(* The types of the variables *)

Scopes == [top: Seq(Int), bottom: Seq(Int), bar: BOOLEAN]

TypeInv ==
    /\ backend \in Backends /\ table \in Tables
    /\ at \in table \cup {NoRow} /\ bof \in BOOLEAN /\ found \in BOOLEAN
    /\ order \in Order /\ reverse \in BOOLEAN /\ descend \in [Order -> BOOLEAN]
    /\ filter \in SUBSET AllRecnos /\ lDisableFlts \in BOOLEAN /\ settled \in BOOLEAN
    /\ scope \in [Order -> Scopes]
    /\ kept \in [Order -> [BOOLEAN -> Restricted \cup {NIL}]]

LEMMA NoScopeIsScope == NoScope \in Scopes
  BY DEF NoScope, Scopes

LEMMA RestrictionsOK ==
    ASSUME TypeInv, NEW o \in Order
    PROVE  Restrictions(o) \in Restricted
  <1>1. [filter |-> AllRecnos, scope |-> NoScope] \in Restricted
    BY DEF Restricted
  <1>2. [filter |-> filter, scope |-> scope[o]] \in Restricted
    BY DEF TypeInv, Restricted, Scopes
  <1> QED BY <1>1, <1>2 DEF Restrictions

LEMMA PageRestrictionsOK ==
    ASSUME TypeInv, NEW up \in BOOLEAN
    PROVE  PageRestrictions(up) \in Restricted
  <1>1. kept[order][up] \in Restricted \cup {NIL}
    BY DEF TypeInv
  <1> QED BY <1>1, RestrictionsOK DEF PageRestrictions, TypeInv

LEMMA EndIsRow ==
    ASSUME TypeInv, NEW fwd \in BOOLEAN
    PROVE  EndOf(fwd) \in table \cup {NoRow}
  <1> DEFINE V == Passing(order, Restrictions(order))
  <1>1. V \in SUBSET table
    BY DEF Passing
  <1>2. Fields[order] \in KeyFields /\ table \in Tables /\ (fwd # reverse) \in BOOLEAN
    BY FieldsOfOrder DEF TypeInv
  <1>3. V # {} => First(Fields[order], fwd # reverse, V) \in V
    <2> HIDE DEF V
    <2> QED BY <1>1, <1>2, FirstIsFirst
  <1> QED BY <1>1, <1>3 DEF EndOf

(* The same after SET SCOPE, which answers with the record at the top. *)
LEMMA EndIsRowThen ==
    ASSUME table' \in Tables, order' \in Order, reverse' \in BOOLEAN
    PROVE  EndOf(TRUE)' \in table' \cup {NoRow}
  <1> DEFINE V == Passing(order, Restrictions(order))'
  <1>1. V \in SUBSET table'
    BY DEF Passing
  <1>2. Fields[order'] \in KeyFields /\ (TRUE # reverse') \in BOOLEAN
    BY FieldsOfOrder
  <1>3. V # {} => First(Fields[order'], TRUE # reverse', V) \in V
    <2> HIDE DEF V
    <2> QED BY <1>1, <1>2, FirstIsFirst
  <1> QED BY <1>1, <1>3 DEF EndOf

(* The next row of a page. *)
LEMMA PageFirstIsRow ==
    ASSUME TypeInv, NEW up \in BOOLEAN, ReadPage(up) # {}
    PROVE  First(Fields[order], up, ReadPage(up)) \in table
  <1>1. ReadPage(up) \in SUBSET table
    BY DEF ReadPage, Page, Passing
  <1>2. Fields[order] \in KeyFields /\ table \in Tables
    BY FieldsOfOrder DEF TypeInv
  <1> QED BY <1>1, <1>2, FirstIsFirst

LEMMA KeepsOK ==
    ASSUME TypeInv, NEW up \in BOOLEAN, Keeps(up)
    PROVE  kept' \in [Order -> [BOOLEAN -> Restricted \cup {NIL}]]
  <1>1. CASE UNCHANGED kept
    BY <1>1 DEF TypeInv
  <1>2. CASE kept' = [kept EXCEPT ![order][up] = PageRestrictions(up)]
    <2>1. PageRestrictions(up) \in Restricted \cup {NIL}
      BY PageRestrictionsOK
    <2> HIDE DEF PageRestrictions, Restricted
    <2> QED BY <1>2, <2>1 DEF TypeInv
  <1> QED BY <1>1, <1>2 DEF Keeps

LEMMA NothingKeptOK == NothingKept \in [Order -> [BOOLEAN -> Restricted \cup {NIL}]]
  BY DEF NothingKept

LEMMA InitTypes == Init => TypeInv
  <1> SUFFICES ASSUME Init PROVE TypeInv
    OBVIOUS
  <1>1. 0 \in Order /\ Fields[0] \in KeyFields
    BY ColumnAssumption, FieldsOfOrder
  <1>2. at \in table \cup {NoRow}
    <2>1. table \in Tables /\ table \in SUBSET table /\ TRUE \in BOOLEAN
      BY DEF Init
    <2>2. table # {} => First(Fields[0], TRUE, table) \in table
      BY <1>1, <2>1, FirstIsFirst
    <2> QED BY <2>2 DEF Init
  <1>3. scope \in [Order -> Scopes] /\ kept \in [Order -> [BOOLEAN -> Restricted \cup {NIL}]]
    BY NoScopeIsScope, NothingKeptOK DEF Init
  <1> QED BY <1>1, <1>2, <1>3 DEF Init, TypeInv

LEMMA StepTypes == TypeInv /\ [Next]_vars => TypeInv'
  <1> SUFFICES ASSUME TypeInv, [Next]_vars PROVE TypeInv'
    OBVIOUS
  <1> USE DEF conditions
  <1>1. CASE GoTop
    <2>1. EndOf(TRUE) \in table \cup {NoRow}
      BY EndIsRow
    <2> QED BY <1>1, <2>1 DEF GoTop, StandOn, TypeInv
  <1>2. CASE GoBottom
    <2>1. EndOf(FALSE) \in table \cup {NoRow}
      BY EndIsRow
    <2> QED BY <1>2, <2>1 DEF GoBottom, StandOn, TypeInv
  <1>3. CASE SkipForward
    <2>1. (~reverse) \in BOOLEAN
      OBVIOUS
    <2>2. at' \in table \cup {NoRow} /\ bof' \in BOOLEAN
      BY <1>3, <2>1, PageFirstIsRow DEF SkipForward, TypeInv
    <2>3. kept' \in [Order -> [BOOLEAN -> Restricted \cup {NIL}]]
      <3>1. UNCHANGED kept \/ Keeps(~reverse)
        BY <1>3 DEF SkipForward
      <3> QED BY <2>1, <3>1, KeepsOK DEF TypeInv
    <2> QED BY <1>3, <2>2, <2>3 DEF SkipForward, TypeInv
  <1>4. CASE SkipBackward
    <2>1. at' \in table \cup {NoRow} /\ bof' \in BOOLEAN
      <3>1. EndOf(FALSE) \in table \cup {NoRow}
        BY EndIsRow
      <3>2. reverse \in BOOLEAN
        BY DEF TypeInv
      <3> QED BY <1>4, <3>1, <3>2, PageFirstIsRow DEF SkipBackward, TypeInv
    <2>2. kept' \in [Order -> [BOOLEAN -> Restricted \cup {NIL}]]
      <3>1. UNCHANGED kept \/ Keeps(reverse)
        BY <1>4 DEF SkipBackward
      <3> QED BY <3>1, KeepsOK DEF TypeInv
    <2> QED BY <1>4, <2>1, <2>2 DEF SkipBackward, TypeInv
  <1>5. ASSUME NEW o \in Order \ {0}, NEW key \in Seeks[o], NEW soft \in BOOLEAN, Seek(key, soft)
        PROVE  TypeInv'
    <2> DEFINE F == Fields[order]
               Q == [i \in DOMAIN key |-> Quoted(F[i], key[i])]
               S == {r \in Passing(order, Restrictions(order)) :
                        IF backend = "POSTGR" THEN SeekClausePgs(F, Q, soft, r)
                        ELSE SeekClause(F, Q, soft, r)}
               M(r) == Matches(F, key, soft, r)
    <2>1. S \in SUBSET table
      BY DEF Passing
    <2>2. S # {} => First(F, ~reverse, S) \in table
      <3>1. F \in KeyFields /\ table \in Tables /\ (~reverse) \in BOOLEAN
        BY FieldsOfOrder DEF TypeInv
      <3> HIDE DEF S, F
      <3> QED BY <2>1, <3>1, FirstIsFirst
    <2>3. /\ found' = (S # {} /\ M(First(F, ~reverse, S)))
          /\ at' = IF S # {} /\ (soft \/ M(First(F, ~reverse, S))) THEN First(F, ~reverse, S) ELSE NoRow
          /\ bof' = FALSE /\ settled' = TRUE
          /\ UNCHANGED <<backend, table, conditions, kept>>
      BY <1>5 DEF Seek
    <2> HIDE DEF S, F, M
    <2> QED BY <2>2, <2>3 DEF TypeInv
  <1>6. ASSUME NEW o \in Order, SetOrder(o) PROVE TypeInv'
    BY <1>6 DEF SetOrder, TypeInv
  <1>7. ASSUME NEW b \in BOOLEAN, OrdDescend(b) PROVE TypeInv'
    <2>1. kept' \in [Order -> [BOOLEAN -> Restricted \cup {NIL}]]
      BY <1>7 DEF OrdDescend, TypeInv
    <2> QED BY <1>7, <2>1 DEF OrdDescend, TypeInv
  <1>8. ASSUME NEW b \in BOOLEAN, FilterStatus(b) PROVE TypeInv'
    BY <1>8 DEF FilterStatus, TypeInv
  <1>9. ASSUME NEW f \in Filters \cup {AllRecnos}, SetFilter(f) PROVE TypeInv'
    <2>1. f \in SUBSET AllRecnos
      BY BoundAssumption
    <2> QED BY <1>9, <2>1, NothingKeptOK DEF SetFilter, TypeInv
  <1>10. CASE RemoveFilter
    BY <1>10 DEF RemoveFilter, TypeInv
  <1>11. ASSUME NEW type \in {"top", "bottom", "both"}, NEW key, SetScope(type, key) PROVE TypeInv'
    <2>1. order \in Order \ {0}
      BY <1>11 DEF SetScope, TypeInv
    <2>2. key \in Seq(Int)
      <3>1. Tops \in [Order \ {0} -> SUBSET Seq(Int)] /\ Bottoms \in [Order \ {0} -> SUBSET Seq(Int)]
        BY BoundAssumption
      <3>2. Tops[order] \subseteq Seq(Int) /\ Bottoms[order] \subseteq Seq(Int)
        BY <2>1, <3>1
      <3>3. <<>> \in Seq(Int)
        OBVIOUS
      <3>4. ScopeKeys(type) \subseteq Seq(Int)
        BY <3>2 DEF ScopeKeys
      <3> QED BY <1>11, <3>3, <3>4 DEF SetScope
    <2>3. Scoped(type, key) \in Scopes
      <3>1. scope[order] \in Scopes
        BY DEF TypeInv
      <3> QED BY <2>2, <3>1 DEF Scoped, Scopes
    <2>4. scope' \in [Order -> Scopes]
      <3> HIDE DEF Scoped, Scopes
      <3> QED BY <1>11, <2>3 DEF SetScope, TypeInv
    <2>5. kept' \in [Order -> [BOOLEAN -> Restricted \cup {NIL}]]
      BY <1>11, NothingKeptOK DEF SetScope
    <2>6. UNCHANGED <<backend, table, order, reverse, descend, filter, lDisableFlts>>
      BY <1>11 DEF SetScope
    <2>7. at' \in table' \cup {NoRow} /\ bof' \in BOOLEAN /\ found' \in BOOLEAN /\ settled' \in BOOLEAN
      <3>1. EndOf(TRUE)' \in table' \cup {NoRow}
        BY <2>6, EndIsRowThen DEF TypeInv
      <3> QED BY <1>11, <3>1 DEF SetScope, StandOn
    <2> QED BY <2>4, <2>5, <2>6, <2>7 DEF TypeInv
  <1>12. CASE UNCHANGED vars
    BY <1>12 DEF vars, TypeInv
  <1> QED BY <1>1, <1>2, <1>3, <1>4, <1>5, <1>6, <1>7, <1>8, <1>9, <1>10, <1>11, <1>12 DEF Next

LEMMA TypesHold == Spec => []TypeInv
  BY InitTypes, StepTypes, PTL DEF Spec

(* The current record is always a row of the table, and what is kept of a     *)
(* clause is a filter and a scope: the first of finitely many rows exists.    *)
THEOREM TypeCorrect == Spec => []TypeOK
  <1>1. TypeInv => TypeOK
    <2> SUFFICES ASSUME TypeInv PROVE TypeOK
      OBVIOUS
    <2>1. \A o \in Order : [filter |-> filter, scope |-> scope[o]] \in Restricted
      BY DEF TypeInv, Restricted, Scopes
    <2>2. \A o \in Order : \A up \in BOOLEAN : kept[o][up] \in Restricted \cup {NIL}
      BY DEF TypeInv
    <2> QED BY <2>1, <2>2 DEF TypeInv, TypeOK
  <1> QED BY <1>1, TypesHold, PTL

-----------------------------------------------------------------------------
(* The clauses kept *)

(* While no filter is removed or disabled under a clause that has it (bound   *)
(* StaleFilters), the clauses kept have the restrictions of now.              *)
LEMMA StepKept ==
    ASSUME ~StaleFilters, TypeInv, KeptIsCurrent, [Next]_vars
    PROVE  KeptIsCurrent'
  <1> USE DEF conditions
  <1>1. ASSUME kept' = NothingKept PROVE KeptIsCurrent'
    BY <1>1 DEF KeptIsCurrent, NothingKept
  <1>2. ASSUME UNCHANGED <<kept, filter, lDisableFlts, scope>> PROVE KeptIsCurrent'
    BY <1>2 DEF KeptIsCurrent, Restrictions
  <1>3. ASSUME NEW up \in BOOLEAN, Keeps(up), UNCHANGED <<filter, lDisableFlts, scope>>
        PROVE  KeptIsCurrent'
    <2>1. \A o \in Order : Restrictions(o)' = Restrictions(o)
      BY <1>3 DEF Restrictions
    <2>2. PageRestrictions(up) = Restrictions(order)
      BY DEF KeptIsCurrent, PageRestrictions, TypeInv
    <2>3. CASE UNCHANGED kept
      BY <1>2, <1>3, <2>3
    <2>4. CASE kept' = [kept EXCEPT ![order][up] = Restrictions(order)]
      <3>1. kept \in [Order -> [BOOLEAN -> Restricted \cup {NIL}]]
        BY DEF TypeInv
      <3> HIDE DEF Restricted
      <3>2. ASSUME NEW o \in Order, NEW b \in BOOLEAN PROVE kept'[o][b] \in {NIL, Restrictions(o)}
        BY <2>4, <3>1 DEF KeptIsCurrent
      <3> QED BY <2>1, <3>2 DEF KeptIsCurrent
    <2> QED BY <1>3, <2>2, <2>3, <2>4 DEF Keeps
  <1>4. CASE GoTop \/ GoBottom
    BY <1>2, <1>4 DEF GoTop, GoBottom
  <1>5. CASE SkipForward
    <2>1. (~reverse) \in BOOLEAN
      OBVIOUS
    <2> QED BY <1>2, <1>3, <1>5, <2>1 DEF SkipForward
  <1>6. CASE SkipBackward
    BY <1>2, <1>3, <1>6 DEF SkipBackward, TypeInv
  <1>7. ASSUME NEW o \in Order \ {0}, NEW key \in Seeks[o], NEW soft \in BOOLEAN, Seek(key, soft)
        PROVE  KeptIsCurrent'
    BY <1>2, <1>7 DEF Seek
  <1>8. ASSUME NEW o \in Order, SetOrder(o) PROVE KeptIsCurrent'
    BY <1>2, <1>8 DEF SetOrder
  <1>9. ASSUME NEW b \in BOOLEAN, OrdDescend(b) PROVE KeptIsCurrent'
    <2>1. kept' = [kept EXCEPT ![order] = [up \in BOOLEAN |-> NIL]]
      BY <1>9 DEF OrdDescend
    <2>2. \A o \in Order : Restrictions(o)' = Restrictions(o)
      BY <1>9 DEF OrdDescend, Restrictions
    <2>3. ASSUME NEW o \in Order, NEW up \in BOOLEAN PROVE kept'[o][up] \in {NIL, Restrictions(o)}
      BY <2>1 DEF KeptIsCurrent, TypeInv
    <2> QED BY <2>2, <2>3 DEF KeptIsCurrent
  <1>10. ASSUME NEW b \in BOOLEAN, FilterStatus(b) PROVE KeptIsCurrent'
    BY <1>1, <1>10 DEF FilterStatus, MayRemove
  <1>11. ASSUME NEW f \in Filters \cup {AllRecnos}, SetFilter(f) PROVE KeptIsCurrent'
    BY <1>1, <1>11 DEF SetFilter
  <1>12. CASE RemoveFilter
    BY <1>1, <1>12 DEF RemoveFilter, MayRemove
  <1>13. ASSUME NEW type, NEW key, SetScope(type, key) PROVE KeptIsCurrent'
    BY <1>1, <1>13 DEF SetScope
  <1>14. CASE UNCHANGED vars
    BY <1>2, <1>14 DEF vars
  <1> QED
    BY <1>4, <1>5, <1>6, <1>7, <1>8, <1>9, <1>10, <1>11, <1>12, <1>13, <1>14 DEF Next

(* A clause kept for an order and a direction (WhereMajor, WhereMinor) has    *)
(* the filter and the scope of now, whatever changed since it was built.      *)
THEOREM KeptStaysCurrent ==
    ASSUME ~StaleFilters
    PROVE  Spec => []KeptIsCurrent
  <1>1. Init => KeptIsCurrent
    BY DEF Init, KeptIsCurrent, NothingKept
  <1>2. TypeInv /\ KeptIsCurrent /\ [Next]_vars => KeptIsCurrent'
    BY StepKept
  <1> QED BY <1>1, <1>2, InitTypes, StepTypes, PTL DEF Spec

-----------------------------------------------------------------------------
(* The clause of a page *)

Less(up, v, w) == IF up THEN Lower(v, w) ELSE Lower(w, v)

(* No row of a table on Postgres has a NULL (bound EmptyDates). *)
NullInv == backend = "POSTGR" => \A r \in table : \A k \in Column : r[k] # Null

(* What a row may have in column k. *)
ValueOK(k, v) == IF k \in Nullable THEN v = Null \/ (v \in Int /\ v > 0) ELSE v \in Int

LEMMA ValuesOK ==
    ASSUME NEW r, RowOK(r), NEW k \in Column
    PROVE  ValueOK(k, r[k]) /\ Quoted(k, r[k]) = r[k]
  <1>1. r[k] \in Int \cup {Null} /\ (IF k \in Nullable THEN r[k] = Null \/ r[k] > 0 ELSE r[k] # Null)
    BY DEF RowOK
  <1>2. ~(0 > 0) /\ Null \notin Int
    BY ColumnAssumption
  <1> QED BY <1>1, <1>2 DEF ValueOK, Quoted

(* Each comparison says of one column what the order of the server says. *)
LEMMA Comparisons ==
    ASSUME NEW up \in BOOLEAN, NEW k \in Column, NEW v, NEW q, ValueOK(k, v), ValueOK(k, q),
           backend = "POSTGR" => v # Null /\ q # Null
    PROVE  /\ Holds(up, "weak", k, v, q) <=> ~Less(up, v, q)
           /\ Holds(up, "strict", k, v, q) <=> Less(up, q, v)
           /\ Holds(up, "equal", k, v, q) <=> v = q
  <1>1. Null \notin Int
    BY ColumnAssumption
  <1>2. CASE v # Null /\ q # Null
    BY <1>1, <1>2 DEF ValueOK, Holds, Literal, Parsed, Compares, Less, Lower
  <1>3. CASE q = Null
    BY <1>1, <1>3 DEF ValueOK, Holds, Parsed, ParsedNull, Less, Lower
  <1>4. CASE v = Null /\ q # Null
    BY <1>1, <1>4 DEF ValueOK, Holds, Parsed, Less, Lower
  <1> QED BY <1>2, <1>3, <1>4

LEMMA LessOrders ==
    ASSUME NEW up \in BOOLEAN, NEW v \in Val, NEW w \in Val
    PROVE  ~Less(up, v, v) /\ ~(Less(up, v, w) /\ Less(up, w, v))
           /\ (v # w => Less(up, v, w) \/ Less(up, w, v))
  BY LowerOrders DEF Less

(* The clause over keys b, with the values of a: the rows not before a. *)
Clause(up, n, a, b) ==
    \/ \A i \in 1..n : ~Less(up, b[i], a[i])
    \/ \E j \in 1..(n - 1) : \A i \in 1..j :
          IF i = j THEN Less(up, a[i], b[i])
          ELSE IF i = j - 1 THEN b[i] = a[i] ELSE ~Less(up, b[i], a[i])

Earlier(up, n, b, a) ==
    \E i \in 1..n : Less(up, b[i], a[i]) /\ \A j \in 1..(i - 1) : b[j] = a[j]

LEMMA ClauseIsRest ==
    ASSUME NEW up \in BOOLEAN, NEW n \in Nat \ {0}, NEW a \in [1..n -> Val], NEW b \in [1..n -> Val]
    PROVE  Clause(up, n, a, b) <=> ~Earlier(up, n, b, a)
  <1>1. ASSUME Clause(up, n, a, b), Earlier(up, n, b, a) PROVE FALSE
    <2>1. PICK i \in 1..n : Less(up, b[i], a[i]) /\ \A j \in 1..(i - 1) : b[j] = a[j]
      BY <1>1 DEF Earlier
    <2>2. PICK j \in 1..(n - 1) : \A l \in 1..j :
              IF l = j THEN Less(up, a[l], b[l])
              ELSE IF l = j - 1 THEN b[l] = a[l] ELSE ~Less(up, b[l], a[l])
      BY <1>1, <2>1 DEF Clause
    <2>3. a[i] \in Val /\ b[i] \in Val /\ a[j] \in Val /\ b[j] \in Val /\ Less(up, a[j], b[j])
      BY <2>2
    <2>4. CASE i < j
      <3>1. i \in 1..j /\ i # j
        BY <2>4
      <3>2. b[i] = a[i] \/ ~Less(up, b[i], a[i])
        BY <2>2, <3>1
      <3> QED BY <2>1, <2>3, <3>2, LessOrders
    <2>5. CASE i = j
      BY <2>1, <2>3, <2>5, LessOrders
    <2>6. CASE j < i
      <3>1. b[j] = a[j]
        BY <2>1, <2>6
      <3> QED BY <2>3, <3>1, LessOrders
    <2> QED BY <2>4, <2>5, <2>6
  <1>2. ASSUME ~Earlier(up, n, b, a) PROVE Clause(up, n, a, b)
    <2>1. CASE a = b
      BY <2>1, LessOrders DEF Clause
    <2>2. CASE a # b
      <3>1. PICK i \in 1..n : a[i] # b[i] /\ \A j \in 1..(i - 1) : a[j] = b[j]
        BY <2>2, FirstDifference
      <3>2. ~Less(up, b[i], a[i])
        BY <1>2, <3>1 DEF Earlier
      <3>3. Less(up, a[i], b[i])
        BY <3>1, <3>2, LessOrders
      <3>4. \A j \in 1..(i - 1) : b[j] = a[j] /\ ~Less(up, b[j], a[j])
        BY <3>1, LessOrders
      <3>5. CASE i = n
        <4>1. \A l \in 1..n : ~Less(up, b[l], a[l])
          BY <3>2, <3>4, <3>5
        <4> QED BY <4>1 DEF Clause
      <3>6. CASE i < n
        <4>1. i \in 1..(n - 1)
          BY <3>6
        <4>2. \A l \in 1..i : IF l = i THEN Less(up, a[l], b[l])
                              ELSE IF l = i - 1 THEN b[l] = a[l] ELSE ~Less(up, b[l], a[l])
          BY <3>3, <3>4
        <4> QED BY <4>1, <4>2 DEF Clause
      <3> QED BY <3>5, <3>6
    <2> QED BY <2>1, <2>2
  <1> QED BY <1>1, <1>2

LEMMA PageClause ==
    ASSUME TypeInv, NullInv, at # NoRow, NEW up \in BOOLEAN, NEW r \in table
    PROVE  LET F == Fields[order]
           IN  Where(up, F, QuotedKey(F, at), r) <=> ~Sorted(F, up, r, at)
  <1> DEFINE F == Fields[order]
             n == Len(F)
             Q == QuotedKey(F, at)
             a == Key(F, at)
             b == Key(F, r)
  <1>1. F \in KeyFields /\ n \in Nat \ {0}
    BY FieldsOfOrder DEF TypeInv, KeyFields
  <1>2. at \in table /\ RowOK(at) /\ RowOK(r)
    BY TableAssumption DEF TypeInv
  <1>3. /\ a \in [1..n -> Val] /\ b \in [1..n -> Val]
        /\ \A i \in 1..n : F[i] \in Column /\ a[i] = at[F[i]] /\ b[i] = r[F[i]]
    <2> HIDE DEF F
    <2> QED BY <1>1, <1>2, KeyOfRow
  <1>4. DOMAIN Q = 1..n /\ Len(Q) = n /\ \A i \in 1..n : Q[i] = a[i]
    <2>1. Q = [i \in 1..n |-> Quoted(F[i], at[F[i]])]
      BY DEF QuotedKey
    <2>2. \A i \in 1..n : Quoted(F[i], at[F[i]]) = at[F[i]]
      BY <1>2, <1>3, ValuesOK
    <2> HIDE DEF F, Q, a, b
    <2> QED BY <1>1, <1>3, <2>1, <2>2
  <1>5. \A i \in 1..n :
           /\ Holds(up, "weak", F[i], r[F[i]], Q[i]) <=> ~Less(up, b[i], a[i])
           /\ Holds(up, "strict", F[i], r[F[i]], Q[i]) <=> Less(up, a[i], b[i])
           /\ Holds(up, "equal", F[i], r[F[i]], Q[i]) <=> b[i] = a[i]
    <2> TAKE i \in 1..n
    <2> DEFINE k == F[i]
    <2>1. k \in Column /\ Q[i] = at[k] /\ b[i] = r[k] /\ a[i] = at[k]
      BY <1>3, <1>4
    <2>2. ValueOK(k, r[k]) /\ ValueOK(k, at[k])
      BY <1>2, <2>1, ValuesOK
    <2>3. backend = "POSTGR" => r[k] # Null /\ at[k] # Null
      BY <1>2, <2>1 DEF NullInv
    <2> HIDE DEF k, F, Q, a, b
    <2>4. /\ Holds(up, "weak", k, r[k], at[k]) <=> ~Less(up, r[k], at[k])
          /\ Holds(up, "strict", k, r[k], at[k]) <=> Less(up, at[k], r[k])
          /\ Holds(up, "equal", k, r[k], at[k]) <=> r[k] = at[k]
      BY <2>1, <2>2, <2>3, Comparisons
    <2> QED BY <2>1, <2>4 DEF k
  <1>6. Where(up, F, Q, r) <=> Clause(up, n, a, b)
    <2> DEFINE H(role, i) == Holds(up, role, F[i], r[F[i]], Q[i])
    <2>1. Where(up, F, Q, r) <=>
            \/ \A i \in 1..n : H("weak", i)
            \/ \E j \in 1..(n - 1) : \A i \in 1..j :
                  H(IF i = j THEN "strict" ELSE IF i = j - 1 THEN "equal" ELSE "weak", i)
      <3> HIDE DEF F, Q
      <3> QED BY <1>4 DEF Where
    <2>2. ASSUME NEW j \in 1..(n - 1), NEW i \in 1..j
          PROVE  H(IF i = j THEN "strict" ELSE IF i = j - 1 THEN "equal" ELSE "weak", i)
                   <=> IF i = j THEN Less(up, a[i], b[i])
                       ELSE IF i = j - 1 THEN b[i] = a[i] ELSE ~Less(up, b[i], a[i])
      <3>1. i \in 1..n
        BY <1>1
      <3> QED BY <1>5, <3>1
    <2>3. \A i \in 1..n : H("weak", i) <=> ~Less(up, b[i], a[i])
      BY <1>5
    <2> HIDE DEF H, F, Q, a, b
    <2> QED BY <2>1, <2>2, <2>3 DEF Clause
  <1>7. Sorted(F, up, r, at) <=> Earlier(up, n, b, a)
    <2>1. DOMAIN a = 1..n /\ DOMAIN b = 1..n
      BY <1>3
    <2>2. CASE up
      <3> HIDE DEF F, a, b
      <3>1. Sorted(F, up, r, at) <=> Precedes(b, a)
        BY <2>2 DEF Sorted, a, b
      <3> QED BY <2>1, <2>2, <3>1 DEF Precedes, Earlier, Less
    <2>3. CASE ~up
      <3> HIDE DEF F, a, b
      <3>1. Sorted(F, up, r, at) <=> Precedes(a, b)
        BY <2>3 DEF Sorted, a, b
      <3>2. \A i \in 1..n : (\A j \in 1..(i - 1) : a[j] = b[j]) <=> (\A j \in 1..(i - 1) : b[j] = a[j])
        OBVIOUS
      <3> QED BY <2>1, <2>3, <3>1, <3>2 DEF Precedes, Earlier, Less
    <2> QED BY <2>2, <2>3
  <1> HIDE DEF F, Q, a, b
  <1>8. Clause(up, n, a, b) <=> ~Earlier(up, n, b, a)
    BY <1>1, <1>3, ClauseIsRest
  <1>9. Where(up, F, Q, r) <=> ~Sorted(F, up, r, at)
    BY <1>6, <1>7, <1>8
  <1> QED BY <1>9 DEF F, Q

LEMMA NoNulls ==
    ASSUME ~EmptyDates
    PROVE  Spec => []NullInv
  <1>1. Init => NullInv
    BY DEF Init, NullInv
  <1>2. NullInv /\ [Next]_vars => NullInv'
    <2> SUFFICES ASSUME NullInv, UNCHANGED <<backend, table>> PROVE NullInv'
      BY DEF Next, vars, GoTop, GoBottom, SkipForward, SkipBackward, Seek, SetOrder, OrdDescend,
             SetFilter, RemoveFilter, FilterStatus, SetScope
    <2> QED BY DEF NullInv
  <1> QED BY <1>1, <1>2, PTL DEF Spec

(* The clause of a page holds of the current record and of those after it,    *)
(* whatever the columns, their NULLs and the direction, on every server; on   *)
(* Postgres, if no column of the table is NULL.                               *)
THEOREM PagesAreRest ==
    ASSUME ~EmptyDates
    PROVE  Spec => []PageIsRest
  <1>1. TypeInv /\ NullInv => PageIsRest
    BY PageClause DEF PageIsRest
  <1> QED BY <1>1, NoNulls, TypesHold, PTL

-----------------------------------------------------------------------------
(* SKIP *)

(* The rows that come after the current one, up or down. *)
Others(up) ==
    {r \in Passing(order, Restrictions(order)) : Sorted(Fields[order], up, at, r)}

LEMMA SortedOrders ==
    ASSUME TypeInv, NEW up \in BOOLEAN, NEW x \in table, NEW y \in table
    PROVE  LET F == Fields[order]
           IN  /\ ~Sorted(F, up, x, x)
               /\ ~(Sorted(F, up, x, y) /\ Sorted(F, up, y, x))
               /\ x # y => Sorted(F, up, x, y) \/ Sorted(F, up, y, x)
  <1> DEFINE F == Fields[order]
  <1>1. F \in KeyFields /\ Len(F) \in Nat /\ table \in Tables
    BY FieldsOfOrder DEF TypeInv, KeyFields
  <1>2. RowOK(x) /\ RowOK(y)
    BY <1>1, TableAssumption
  <1> HIDE DEF F
  <1>3. Key(F, x) \in [1..Len(F) -> Val] /\ Key(F, y) \in [1..Len(F) -> Val]
    BY <1>1, <1>2, KeyOfRow
  <1>4. x # y => Key(F, x) # Key(F, y)
    BY <1>1, KeysDiffer
  <1>5. /\ ~Precedes(Key(F, x), Key(F, x))
        /\ ~(Precedes(Key(F, x), Key(F, y)) /\ Precedes(Key(F, y), Key(F, x)))
        /\ x # y => Precedes(Key(F, x), Key(F, y)) \/ Precedes(Key(F, y), Key(F, x))
    BY <1>1, <1>3, <1>4, PrecedesOrders
  <1> QED BY <1>5 DEF Sorted, F

LEMMA FirstIsUnique ==
    ASSUME TypeInv, NEW up \in BOOLEAN, NEW S \in SUBSET table, NEW x \in S,
           \A y \in S \ {x} : Sorted(Fields[order], up, x, y)
    PROVE  First(Fields[order], up, S) = x
  <1> DEFINE f == First(Fields[order], up, S)
  <1>1. f \in S /\ \A y \in S \ {f} : Sorted(Fields[order], up, f, y)
    BY FieldsOfOrder, FirstIsFirst DEF TypeInv
  <1> HIDE DEF f
  <1>2. ASSUME f # x PROVE FALSE
    <2>1. Sorted(Fields[order], up, f, x) /\ Sorted(Fields[order], up, x, f)
      BY <1>1, <1>2
    <2> QED BY <1>1, <2>1, SortedOrders
  <1> QED BY <1>2 DEF f

(* A page of a record that passes: less its first row, which is the record,   *)
(* it begins with the neighbour.                                              *)
LEMMA PageBeginsWithNeighbour ==
    ASSUME TypeInv, NullInv, KeptIsCurrent, NEW up \in BOOLEAN,
           at \in Passing(order, Restrictions(order)), at # NoRow
    PROVE  /\ ReadPage(up) = {} <=> Others(up) = {}
           /\ Others(up) # {} =>
                 First(Fields[order], up, ReadPage(up)) = First(Fields[order], up, Others(up))
  <1> DEFINE F == Fields[order]
             V == Passing(order, Restrictions(order))
             S == {r \in V : Where(up, F, QuotedKey(F, at), r)}
             P == Page(F, up, S)
             A == Others(up)
             B(x) == {y \in S : Sorted(F, up, y, x)}
  <1>1. V \in SUBSET table /\ at \in V /\ table \in Tables /\ F \in KeyFields
    BY FieldsOfOrder DEF Passing, TypeInv
  <1>2. PageRestrictions(up) = Restrictions(order)
    BY DEF KeptIsCurrent, PageRestrictions, TypeInv
  <1>3. ReadPage(up) = IF P = {} THEN {} ELSE P \ {First(F, up, P)}
    BY <1>2 DEF ReadPage
  <1>4. S = {r \in V : ~Sorted(F, up, r, at)}
    <2>1. \A r \in table : Where(up, F, QuotedKey(F, at), r) <=> ~Sorted(F, up, r, at)
      BY PageClause
    <2> QED BY <1>1, <2>1
  <1>5. A = {r \in V : Sorted(F, up, at, r)}
    BY DEF Others
  <1> HIDE DEF S, A, V
  <1>6. S = A \cup {at} /\ at \notin A /\ S \in SUBSET table /\ A \in SUBSET table
    <2>1. \A r \in V : /\ ~Sorted(F, up, at, at)
                       /\ ~(Sorted(F, up, r, at) /\ Sorted(F, up, at, r))
                       /\ r # at => Sorted(F, up, r, at) \/ Sorted(F, up, at, r)
      BY <1>1, SortedOrders
    <2> HIDE DEF F
    <2> QED BY <1>1, <1>4, <1>5, <2>1
  <1>7. P = {x \in S : Cardinality(B(x)) < PageSize}
    BY DEF Page
  <1>8. PageSize \in Nat /\ PageSize > 1
    BY ColumnAssumption
  <1>9. at \in P
    <2>1. B(at) = {}
      <3> HIDE DEF F
      <3> QED BY <1>4
    <2>2. Cardinality(B(at)) = 0 /\ 0 < PageSize
      BY <1>8, <2>1, FS_EmptySet
    <2> HIDE DEF B, P
    <2> QED BY <1>6, <1>7, <2>2
  <1>10. First(F, up, P) = at
    <2>1. P \in SUBSET table
      BY <1>6, <1>7
    <2>2. \A y \in P \ {at} : Sorted(F, up, at, y)
      BY <1>5, <1>6, <1>7
    <2> HIDE DEF P
    <2> QED BY <1>9, <2>1, <2>2, FirstIsUnique
  <1>11. ReadPage(up) = P \ {at} /\ P \ {at} \subseteq A
    BY <1>3, <1>6, <1>7, <1>9, <1>10
  <1>12. ASSUME A # {}
         PROVE  First(F, up, A) \in P \ {at} /\ First(F, up, P \ {at}) = First(F, up, A)
    <2> DEFINE f == First(F, up, A)
    <2>1. f \in A /\ \A y \in A \ {f} : Sorted(F, up, f, y)
      <3> HIDE DEF F
      <3> QED BY <1>1, <1>6, <1>12, FirstIsFirst
    <2> HIDE DEF f
    <2>2. B(f) = {at}
      <3>1. \A y \in table : ~Sorted(F, up, f, f) /\ ~(Sorted(F, up, f, y) /\ Sorted(F, up, y, f))
        BY <1>6, <2>1, SortedOrders
      <3>2. Sorted(F, up, at, f)
        BY <1>5, <2>1
      <3> HIDE DEF F
      <3> QED BY <1>6, <2>1, <3>1, <3>2
    <2>3. f \in P \ {at}
      BY <1>6, <1>7, <1>8, <2>1, <2>2, FS_Singleton
    <2>4. P \ {at} \in SUBSET table /\ \A y \in (P \ {at}) \ {f} : Sorted(F, up, f, y)
      BY <1>6, <1>11, <2>1
    <2>5. First(F, up, P \ {at}) = f
      <3> HIDE DEF P
      <3> QED BY <2>3, <2>4, FirstIsUnique
    <2> QED BY <2>3, <2>5 DEF f
  <1> HIDE DEF P, F
  <1>13. (ReadPage(up) = {} <=> A = {}) /\ (A # {} => First(F, up, ReadPage(up)) = First(F, up, A))
    BY <1>11, <1>12
  <1> QED BY <1>13 DEF A, F

(* SKIP 1 goes to the first of the records after the current one that the     *)
(* filter and the scope let pass, SKIP -1 to the last of those before it, and *)
(* EOF() and BOF() are answered when there is none.                           *)
SkipsToNeighbour ==
    [][ /\ SkipForward /\ at # NoRow =>
              at' = IF Others(~reverse) = {} THEN NoRow
                    ELSE First(Fields[order], ~reverse, Others(~reverse))
        /\ SkipBackward /\ at # NoRow /\ ~bof =>
              IF Others(reverse) = {} THEN bof' /\ at' = at
              ELSE ~bof' /\ at' = First(Fields[order], reverse, Others(reverse)) ]_vars

(* sqlSkipRaw with the kept clause goes to the neighbour, in any order.       *)
THEOREM SkipIsExact ==
    ASSUME ~EmptyDates, ~StaleFilters
    PROVE  Spec => SkipsToNeighbour
  <1> DEFINE Step ==
        /\ SkipForward /\ at # NoRow =>
              at' = IF Others(~reverse) = {} THEN NoRow
                    ELSE First(Fields[order], ~reverse, Others(~reverse))
        /\ SkipBackward /\ at # NoRow /\ ~bof =>
              IF Others(reverse) = {} THEN bof' /\ at' = at
              ELSE ~bof' /\ at' = First(Fields[order], reverse, Others(reverse))
  <1>1. ASSUME TypeInv, NullInv, KeptIsCurrent PROVE Step
    <2>1. (~reverse) \in BOOLEAN /\ reverse \in BOOLEAN
      BY <1>1 DEF TypeInv
    <2>2. ASSUME SkipForward, at # NoRow
          PROVE  at' = IF Others(~reverse) = {} THEN NoRow
                       ELSE First(Fields[order], ~reverse, Others(~reverse))
      <3>1. at \in Passing(order, Restrictions(order))
        BY <2>2 DEF SkipForward, MaySkip
      <3>2. at' = IF ReadPage(~reverse) = {} THEN NoRow
                  ELSE First(Fields[order], ~reverse, ReadPage(~reverse))
        BY <2>2 DEF SkipForward
      <3> QED BY <1>1, <2>1, <2>2, <3>1, <3>2, PageBeginsWithNeighbour
    <2>3. ASSUME SkipBackward, at # NoRow, ~bof
          PROVE  IF Others(reverse) = {} THEN bof' /\ at' = at
                 ELSE ~bof' /\ at' = First(Fields[order], reverse, Others(reverse))
      <3>1. at \in Passing(order, Restrictions(order))
        BY <2>3 DEF SkipBackward, MaySkip
      <3>2. IF ReadPage(reverse) = {} THEN bof' = TRUE /\ at' = at
            ELSE bof' = FALSE /\ at' = First(Fields[order], reverse, ReadPage(reverse))
        BY <2>3 DEF SkipBackward
      <3> QED BY <1>1, <2>1, <2>3, <3>1, <3>2, PageBeginsWithNeighbour
    <2> QED BY <2>2, <2>3
  <1>2. TypeInv /\ NullInv /\ KeptIsCurrent => [Step]_vars
    BY <1>1
  <1>3. Spec => []TypeInv /\ []NullInv /\ []KeptIsCurrent
    BY TypesHold, NoNulls, KeptStaysCurrent
  <1> QED BY <1>2, <1>3, PTL DEF SkipsToNeighbour

-----------------------------------------------------------------------------
(* Scopes *)

(* The side of a scope, over the parts v of the key of a row. *)
Bounded(up, key, v) ==
    key = <<>> \/ \E j \in 0..(Len(key) - 1) : \A i \in 1..(Len(key) - j) :
        /\ v[i] # Null
        /\ Compares(up, IF j = 0 THEN "weak" ELSE "strict", v[i], key[i])

LEMMA BoundedIsNotBeyond ==
    ASSUME NEW up \in BOOLEAN, NEW key \in Seq(Int), Len(key) \in 0..2, NEW v \in [1..Len(key) -> Int]
    PROVE  Bounded(up, key, v) <=> ~(IF up THEN Precedes(v, key) ELSE Precedes(key, v))
  <1>1. Null \notin Int /\ DOMAIN v = 1..Len(key) /\ DOMAIN key = 1..Len(key)
    BY ColumnAssumption
  <1>2. CASE Len(key) = 0
    BY <1>1, <1>2 DEF Bounded, Precedes
  <1>3. CASE Len(key) = 1
    <2>1. key[1] \in Int /\ v[1] \in Int /\ key # <<>>
      <3>1. 1 \in 1..Len(key)
        BY <1>3
      <3>2. \A i \in 1..Len(key) : key[i] \in Int /\ v[i] \in Int
        OBVIOUS
      <3>3. key # <<>>
        <4>1. Len(<<>>) = 0
          OBVIOUS
        <4>2. ASSUME key = <<>> PROVE FALSE
          <5>1. Len(key) = 0
            BY <4>1, <4>2, Zenon
          <5> QED BY <1>3, <5>1
        <4> QED BY <4>2
      <3> QED BY <3>1, <3>2, <3>3
    <2>2. Bounded(up, key, v) <=> Compares(up, "weak", v[1], key[1])
      BY <1>1, <1>3, <2>1 DEF Bounded
    <2>3. /\ Precedes(v, key) <=> v[1] < key[1]
          /\ Precedes(key, v) <=> key[1] < v[1]
      BY <1>1, <1>3, <2>1 DEF Precedes, Lower
    <2> QED BY <2>1, <2>2, <2>3 DEF Compares
  <1>4. CASE Len(key) = 2
    <2>1. key[1] \in Int /\ v[1] \in Int /\ key[2] \in Int /\ v[2] \in Int
      <3>1. 1 \in 1..Len(key) /\ 2 \in 1..Len(key)
        BY <1>4
      <3>2. \A i \in 1..Len(key) : key[i] \in Int /\ v[i] \in Int
        OBVIOUS
      <3> QED BY <3>1, <3>2
    <2>2. Bounded(up, key, v) <=>
            \/ Compares(up, "weak", v[1], key[1]) /\ Compares(up, "weak", v[2], key[2])
            \/ Compares(up, "strict", v[1], key[1])
      <3> DEFINE D(j) == \A i \in 1..(Len(key) - j) :
                    /\ v[i] # Null
                    /\ Compares(up, IF j = 0 THEN "weak" ELSE "strict", v[i], key[i])
      <3>1. 0..(Len(key) - 1) = {0, 1} /\ 1..(Len(key) - 0) = {1, 2} /\ 1..(Len(key) - 1) = {1}
        BY <1>4
      <3>2. D(0) <=> Compares(up, "weak", v[1], key[1]) /\ Compares(up, "weak", v[2], key[2])
        <4> HIDE DEF Compares
        <4> QED BY <1>1, <2>1, <3>1
      <3>3. D(1) <=> Compares(up, "strict", v[1], key[1])
        <4> HIDE DEF Compares
        <4> QED BY <1>1, <2>1, <3>1
      <3>4. key # <<>>
        <4>1. Len(<<>>) = 0
          OBVIOUS
        <4>2. ASSUME key = <<>> PROVE FALSE
          <5>1. Len(key) = 0
            BY <4>1, <4>2, Zenon
          <5> QED BY <1>4, <5>1
        <4> QED BY <4>2
      <3>5. Bounded(up, key, v) <=> \E j \in {0, 1} : D(j)
        BY <3>1, <3>4 DEF Bounded
      <3> HIDE DEF D
      <3> QED BY <3>2, <3>3, <3>5
    <2>3. /\ Precedes(v, key) <=> v[1] < key[1] \/ (v[1] = key[1] /\ v[2] < key[2])
          /\ Precedes(key, v) <=> key[1] < v[1] \/ (v[1] = key[1] /\ key[2] < v[2])
      <3>1. DOMAIN v = {1, 2} /\ DOMAIN key = {1, 2} /\ 1..(1 - 1) = {} /\ 1..(2 - 1) = {1}
        BY <1>1, <1>4
      <3>2. ASSUME NEW a \in [1..Len(key) -> Int], NEW b \in [1..Len(key) -> Int]
            PROVE  Precedes(a, b) <=> a[1] < b[1] \/ (a[1] = b[1] /\ a[2] < b[2])
        <4> DEFINE D(i) == Lower(a[i], b[i]) /\ \A j \in 1..(i - 1) : a[j] = b[j]
        <4>1. DOMAIN a = {1, 2} /\ a[1] \in Int /\ b[1] \in Int /\ a[2] \in Int /\ b[2] \in Int
          BY <1>4
        <4>2. D(1) <=> a[1] < b[1]
          BY <1>1, <3>1, <4>1 DEF Lower
        <4>3. D(2) <=> a[1] = b[1] /\ a[2] < b[2]
          BY <1>1, <3>1, <4>1 DEF Lower
        <4>4. Precedes(a, b) <=> \E i \in {1, 2} : D(i)
          BY <4>1 DEF Precedes
        <4> HIDE DEF D
        <4> QED BY <4>2, <4>3, <4>4
      <3>3. key \in [1..Len(key) -> Int]
        OBVIOUS
      <3> QED BY <2>1, <3>2, <3>3
    <2> QED BY <2>1, <2>2, <2>3 DEF Compares
  <1> QED BY <1>2, <1>3, <1>4

(* The expression of a scope (sqlSetScope) holds of the rows whose keys are   *)
(* not before the top key nor after the bottom key, for keys of at most two   *)
(* columns ("3-key SET SCOPE not allowed") that are not NULL in the row.      *)
THEOREM ScopeIsInterval ==
    ASSUME NEW F \in KeyFields, NEW r, RowOK(r), NEW s \in Scopes,
           Len(s.top) \in 0..2, Len(s.bottom) \in 0..2,
           Len(s.top) <= Len(F), Len(s.bottom) <= Len(F),
           \A i \in 1..Len(F) : i <= Len(s.top) \/ i <= Len(s.bottom) => r[F[i]] # Null
    PROVE  InScope(F, s, r) <=> Within(F, s, r)
  <1> DEFINE Part(key) == SubSeq(Key(F, r), 1, Len(key))
             Keys == {s.top, s.bottom}
  <1>1. Keys \subseteq Seq(Int) /\ \A key \in Keys : Len(key) \in 0..2 /\ Len(key) <= Len(F)
    BY DEF Scopes
  <1>2. \A key \in Keys : /\ Part(key) \in [1..Len(key) -> Int]
                          /\ \A i \in 1..Len(key) : Part(key)[i] = r[F[i]]
    <2> TAKE key \in Keys
    <2>1. Key(F, r) \in Seq(Val) /\ Len(Key(F, r)) = Len(F) /\ Len(F) \in Nat
      BY KeyOfRow DEF KeyFields, Key
    <2>2. Len(key) \in 0..2 /\ Len(key) <= Len(F)
      BY <1>1
    <2>3. Part(key) = [i \in 1..Len(key) |-> Key(F, r)[i]]
      BY <2>1, <2>2
    <2>4. \A i \in 1..Len(key) : Key(F, r)[i] = r[F[i]] /\ r[F[i]] \in Int
      <3> TAKE i \in 1..Len(key)
      <3>1. i \in 1..Len(F) /\ (i <= Len(s.top) \/ i <= Len(s.bottom))
        BY <2>1, <2>2
      <3>2. Key(F, r)[i] = r[F[i]] /\ r[F[i]] \in Int \cup {Null} /\ r[F[i]] # Null
        BY <3>1, KeyOfRow DEF Val
      <3> QED BY <3>2
    <2> HIDE DEF Part
    <2> QED BY <2>3, <2>4
  <1>3. ASSUME NEW up \in BOOLEAN, NEW key \in Keys
        PROVE  Bounded(up, key, Part(key)) <=>
                 (key = <<>> \/ \E j \in 0..(Len(key) - 1) : \A i \in 1..(Len(key) - j) :
                     /\ r[F[i]] # Null
                     /\ Compares(up, IF j = 0 THEN "weak" ELSE "strict", r[F[i]], key[i]))
    <2>1. \A j \in 0..(Len(key) - 1) : \A i \in 1..(Len(key) - j) : Part(key)[i] = r[F[i]]
      <3> HIDE DEF Part
      <3> TAKE j \in 0..(Len(key) - 1)
      <3> TAKE i \in 1..(Len(key) - j)
      <3>1. i \in 1..Len(key)
        BY <1>1
      <3> QED BY <1>2, <3>1
    <2> DEFINE D(j, i, w) == w # Null /\ Compares(up, IF j = 0 THEN "weak" ELSE "strict", w, key[i])
    <2>2. \A j \in 0..(Len(key) - 1) :
             (\A i \in 1..(Len(key) - j) : D(j, i, Part(key)[i])) <=>
             (\A i \in 1..(Len(key) - j) : D(j, i, r[F[i]]))
      <3> HIDE DEF D, Part
      <3> QED BY <2>1
    <2>3. Bounded(up, key, Part(key)) <=>
             (key = <<>> \/ \E j \in 0..(Len(key) - 1) : \A i \in 1..(Len(key) - j) : D(j, i, Part(key)[i]))
      <3> HIDE DEF Part
      <3> QED BY DEF Bounded
    <2> HIDE DEF Part
    <2> QED BY <2>2, <2>3
  <1>4. Bounded(TRUE, s.top, Part(s.top)) <=> ~Precedes(Part(s.top), s.top)
    <2> HIDE DEF Part
    <2> QED BY <1>1, <1>2, BoundedIsNotBeyond
  <1>5. Bounded(FALSE, s.bottom, Part(s.bottom)) <=> ~Precedes(s.bottom, Part(s.bottom))
    <2> HIDE DEF Part
    <2> QED BY <1>1, <1>2, BoundedIsNotBeyond
  <1>6. Within(F, s, r) <=> ~Precedes(Part(s.top), s.top) /\ ~Precedes(s.bottom, Part(s.bottom))
    BY DEF Within
  <1>7. CASE s.top = s.bottom /\ ~s.bar
    <2>1. InScope(F, s, r) <=> \A i \in DOMAIN s.top : r[F[i]] = s.top[i]
      BY <1>7 DEF InScope
    <2>2. DOMAIN s.top = 1..Len(s.top) /\ s.top \in [1..Len(s.top) -> Val]
          /\ Part(s.top) \in [1..Len(s.top) -> Val] /\ Len(s.top) \in Nat
      BY <1>1, <1>2 DEF Val
    <2>3. (\A i \in DOMAIN s.top : r[F[i]] = s.top[i]) <=> Part(s.top) = s.top
      <3>1. \A i \in 1..Len(s.top) : Part(s.top)[i] = r[F[i]]
        BY <1>2
      <3> HIDE DEF Part
      <3>2. ASSUME \A i \in 1..Len(s.top) : r[F[i]] = s.top[i] PROVE Part(s.top) = s.top
        <4>1. \A i \in 1..Len(s.top) : Part(s.top)[i] = s.top[i]
          BY <3>1, <3>2
        <4> QED BY <2>2, <4>1
      <3>3. ASSUME Part(s.top) = s.top PROVE \A i \in 1..Len(s.top) : r[F[i]] = s.top[i]
        BY <3>1, <3>3
      <3> QED BY <2>2, <3>2, <3>3
    <2>4. Part(s.top) = s.top <=> ~Precedes(Part(s.top), s.top) /\ ~Precedes(s.top, Part(s.top))
      <3> HIDE DEF Part
      <3> QED BY <2>2, PrecedesOrders
    <2> QED BY <1>6, <1>7, <2>1, <2>3, <2>4
  <1>8. CASE ~(s.top = s.bottom /\ ~s.bar)
    <2>1. InScope(F, s, r) <=> Bounded(TRUE, s.top, Part(s.top)) /\ Bounded(FALSE, s.bottom, Part(s.bottom))
      <3> HIDE DEF Part
      <3> QED BY <1>3, <1>8 DEF InScope
    <2> QED BY <1>4, <1>5, <1>6, <2>1
  <1> QED BY <1>7, <1>8
=============================================================================
