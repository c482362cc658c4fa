------------------------------ MODULE KeyOrder ------------------------------
(***************************************************************************)
(* The statements a work area of the first engine walks an order with      *)
(* (sqlrdd2.prg): the WHERE clause and the ORDER BY of a page, those of    *)
(* SEEK, and the restrictions of SET FILTER and of a scope.                *)
(*                                                                         *)
(* An order is a list of columns that ends with the record number.  A page *)
(* is the rows that are not before the current one; its clause names the   *)
(* columns one by one, with the values of the current record, because SQL  *)
(* has no comparison of keys, and an empty value of a column that may be   *)
(* NULL is NULL in the table.                                              *)
(*                                                                         *)
(* The rows of the table stay as they are, and every SKIP reads its page   *)
(* (what the cached rows answer in its place is module PageCache).         *)
(***************************************************************************)
EXTENDS Integers, Sequences, FiniteSets

CONSTANTS
    Column,    \* the columns, "recno" among them
    Numeric,   \* the columns of type N
    Date,      \* the columns of type D
    Nullable,  \* SR_FIELD_NULLABLE
    Fields,    \* SR_AINDEX_INDEX_FIELDS of each order; order 0 is the natural one
    PageSize,  \* nCurrentFetch: the rows a page may have
    Backends,  \* the servers looked at: "POSTGR", or one of the others
    EmptyDates,   \* bound: on Postgres, rows may have a NULL in an index column
    StaleFilters, \* bound: filters may be removed or disabled at any time
    Tables,    \* bound: the tables
    Filters,   \* bound: the record numbers of the rows a filter holds of
    Descends,  \* bound: the orders ORDDESCEND is called with
    Tops,      \* bound: keys of a top scope, by order
    Bottoms,   \* bound: keys of a bottom scope, by order
    Seeks,     \* bound: keys of SEEK, by order
    Null,      \* NULL
    NoRow,     \* the phantom record, at EOF
    NIL        \* no WHERE clause kept

Order == DOMAIN Fields
AllRecnos == UNION {{r["recno"] : r \in T} : T \in Tables}   \* no filter
NoScope == [top |-> <<>>, bottom |-> <<>>, bar |-> FALSE]

(* Tables as SQLRDD writes them: an empty value of a column that may be NULL *)
(* is NULL, and no negative number is in such a column.                      *)
RowOK(r) ==
    /\ r \in [Column -> Int \cup {Null}]
    /\ \A k \in Column : IF k \in Nullable THEN r[k] = Null \/ r[k] > 0 ELSE r[k] # Null

ASSUME ColumnAssumption ==
    /\ "recno" \in Column \ Nullable
    /\ Numeric \subseteq Column /\ Date \subseteq Column /\ Nullable \subseteq Column
    /\ Null \notin Int /\ PageSize \in Nat \ {0, 1}
    /\ 0 \in Order /\ Order \subseteq Nat
    /\ \A o \in Order : /\ Fields[o] \in Seq(Column) /\ Len(Fields[o]) \in 1..10
                        /\ Fields[o][Len(Fields[o])] = "recno"
ASSUME TableAssumption ==
    /\ \A T \in Tables : IsFiniteSet(T) /\ \A r \in T : RowOK(r) /\ NoRow # r
    /\ \A T \in Tables : \A r, s \in T : r["recno"] = s["recno"] => r = s
ASSUME BoundAssumption ==
    /\ EmptyDates \in BOOLEAN /\ StaleFilters \in BOOLEAN
    /\ Filters \subseteq SUBSET AllRecnos
    /\ Descends \subseteq Order \ {0}
    /\ \A keys \in {Tops, Bottoms, Seeks} : keys \in [Order \ {0} -> SUBSET Seq(Int)]
(* Left out: a scope with a part 0 in a numeric column, whose comparison has a  *)
(* form of its own (IsNull), and a SEEK of empty dates only, for which Postgres *)
(* is sent a statement with no restrictions, the filter and the scope included. *)
ASSUME KeyAssumption ==
    \A o \in Order \ {0} :
        /\ \A key \in Tops[o] \cup Bottoms[o] :
              \A i \in DOMAIN key : Fields[o][i] \in Numeric => key[i] # 0
        /\ \A key \in Seeks[o] : \E i \in DOMAIN key : Fields[o][i] \in Date => key[i] # 0

VARIABLES
    backend,   \* nSystemID
    table,     \* the rows
    at, bof,   \* the current record, or NoRow at EOF(); and BOF()
    found,     \* FOUND()
    order, reverse,    \* SR_AINFO_INDEXORD and SR_AINFO_REVERSE_INDEX
    descend,   \* SR_AINDEX_DESCEND_INDEX_ORDER of each order
    filter, lDisableFlts,
    scope,     \* the scope of each order
    kept,      \* the restrictions in ORDER_SKIP_UP (TRUE) and _DOWN of each order
    settled    \* the application has gone to a record since the conditions changed

conditions == <<order, reverse, descend, filter, lDisableFlts, scope>>
vars == <<backend, table, at, bof, found, conditions, kept, settled>>
-----------------------------------------------------------------------------
(* The order the server sorts by: NULL is the lowest value (NULLS FIRST). *)
Lower(v, w) == v # w /\ (v = Null \/ (w # Null /\ v < w))

Precedes(u, v) == \E i \in DOMAIN u : /\ Lower(u[i], v[i])
                                      /\ \A j \in 1..(i - 1) : u[j] = v[j]

Key(F, r) == [i \in 1..Len(F) |-> r[F[i]]]

(* OrderBy(nOrder, lAscend); up when the order is ascending after all. *)
Sorted(F, up, x, y) == IF up THEN Precedes(Key(F, x), Key(F, y)) ELSE Precedes(Key(F, y), Key(F, x))

First(F, up, S) == CHOOSE x \in S : \A y \in S \ {x} : Sorted(F, up, x, y)
Page(F, up, S) == {x \in S : Cardinality({y \in S : Sorted(F, up, y, x)}) < PageSize}

(* QuotedNull: what a value of the buffer is in a statement. *)
Quoted(k, v) == IF k \in Nullable /\ v \in {0, Null} THEN Null ELSE v
QuotedKey(F, x) == [i \in 1..Len(F) |-> Quoted(F[i], x[F[i]])]

(* A comparison of the clause: "weak" is >= or <=, "strict" > or <, "equal" =. *)
Compares(up, role, v, q) ==
    \/ role # "strict" /\ v = q
    \/ role # "equal" /\ IF up THEN v > q ELSE v < q

(* The comparisons with NULL that ParseIndexColInfo puts for @1, @2, @3, @4, @6. *)
ParsedNull(up, role, k, v) ==
    CASE role = "equal"  -> v = Null \/ (k \in Numeric /\ v = 0)
      [] role = "strict" -> /\ v # Null
                            /\ k \in Numeric => IF up THEN v > 0 ELSE v < 0
                            /\ k \notin Numeric => up
      [] role = "weak"   -> IF up THEN k \in Numeric => v = Null \/ v >= 0
                            ELSE v = Null \/ (k \in Numeric /\ v < 0)

(* Mutant of Parsed: the rows without a value are forgotten (no OR col IS NULL). *)
ParsedNotNull(up, role, k, v, q) ==
    IF q = Null THEN ParsedNull(up, role, k, v) ELSE v # Null /\ Compares(up, role, v, q)

Parsed(up, role, k, v, q) ==
    IF q = Null THEN ParsedNull(up, role, k, v)
    ELSE IF v = Null THEN ~up /\ role # "equal" /\ k \in Nullable    \* OR col IS NULL
    ELSE Compares(up, role, v, q)

(* On Postgres the clause is built with its values: `= NULL` forward holds of *)
(* no row, and CatSep leaves out an IS NULL.                                  *)
Literal(up, role, v, q) ==
    IF q = Null
    THEN CASE role = "equal" -> ~up /\ v = Null
           [] role = "strict" -> up /\ v # Null
           [] role = "weak" -> TRUE
    ELSE v # Null /\ Compares(up, role, v, q)

Holds(up, role, k, v, q) ==
    IF backend = "POSTGR" THEN Literal(up, role, v, q) ELSE Parsed(up, role, k, v, q)

(* WhereMajor and WherePgsMajor (up), WhereMinor and WherePgsMinor: every column *)
(* weak, or the first j columns weak but for the last two, equal and strict.     *)
Where(up, F, Q, r) ==
    \/ \A i \in DOMAIN Q : Holds(up, "weak", F[i], r[F[i]], Q[i])
    \/ \E j \in 1..(Len(Q) - 1) : \A i \in 1..j :
          Holds(up, IF i = j THEN "strict" ELSE IF i = j - 1 THEN "equal" ELSE "weak",
                F[i], r[F[i]], Q[i])
-----------------------------------------------------------------------------
(* Mutant of InScope: > and < for the last column too. *)
InScopeOpen(F, s, r) ==
    LET Side(up, key) ==
          key = <<>> \/ \E j \in 0..(Len(key) - 1) : \A i \in 1..(Len(key) - j) :
              r[F[i]] # Null /\ Compares(up, "strict", r[F[i]], key[i])
    IN IF s.top = s.bottom /\ ~s.bar THEN \A i \in DOMAIN s.top : r[F[i]] = s.top[i]
       ELSE Side(TRUE, s.top) /\ Side(FALSE, s.bottom)

(* SR_AINDEX_SCOPE_SQLEXPR of sqlSetScope, for keys of one or two whole columns *)
(* as KeyAssumption has them.                                                   *)
InScope(F, s, r) ==
    LET Side(up, key) ==
          key = <<>> \/ \E j \in 0..(Len(key) - 1) : \A i \in 1..(Len(key) - j) :
              /\ r[F[i]] # Null
              /\ Compares(up, IF j = 0 THEN "weak" ELSE "strict", r[F[i]], key[i])
    IN IF s.top = s.bottom /\ ~s.bar THEN \A i \in DOMAIN s.top : r[F[i]] = s.top[i]
       ELSE Side(TRUE, s.top) /\ Side(FALSE, s.bottom)

(* SolveRestrictors in order o. *)
Restrictions(o) ==
    IF lDisableFlts THEN [filter |-> AllRecnos, scope |-> NoScope]
    ELSE [filter |-> filter, scope |-> scope[o]]

Passing(o, R) == {r \in table : r["recno"] \in R.filter /\ InScope(Fields[o], R.scope, r)}

(* The restrictions of the clause of a page: with the clause kept for the order *)
(* and the direction, if there is one.                                          *)
PageRestrictions(up) == IF kept[order][up] = NIL THEN Restrictions(order) ELSE kept[order][up]

(* Mutant of Keeps: the clause is kept with the values of the record it was built for. *)
KeepsValues(up) ==
    IF order = 0 \/ backend = "POSTGR" THEN UNCHANGED kept
    ELSE LET R == PageRestrictions(up)
         IN kept' = [kept EXCEPT ![order][up] =
                        [filter |-> R.filter, scope |-> R.scope, from |-> QuotedKey(Fields[order], at)]]

Keeps(up) ==
    IF order = 0 \/ backend = "POSTGR" THEN UNCHANGED kept
    ELSE kept' = [kept EXCEPT ![order][up] = PageRestrictions(up)]

NothingKept == [o \in Order |-> [up \in BOOLEAN |-> NIL]]

(* The rows of ReadPage, less the first one, which it takes for the current one. *)
ReadPage(up) ==
    LET F == Fields[order]
        P == Page(F, up, {r \in Passing(order, PageRestrictions(up)) : Where(up, F, QuotedKey(F, at), r)})
    IN IF P = {} THEN {} ELSE P \ {First(F, up, P)}
-----------------------------------------------------------------------------
Init ==
    /\ backend \in Backends
    /\ table \in Tables
    /\ backend = "POSTGR" /\ ~EmptyDates => \A r \in table : \A k \in Column : r[k] # Null
    /\ at = IF table = {} THEN NoRow ELSE First(Fields[0], TRUE, table)
    /\ bof = FALSE /\ found = FALSE
    /\ order = 0 /\ reverse = FALSE
    /\ descend = [o \in Order |-> FALSE]
    /\ filter = AllRecnos /\ lDisableFlts = FALSE
    /\ scope = [o \in Order |-> NoScope]
    /\ kept = NothingKept
    /\ settled = TRUE

StandOn(r) == at' = r /\ bof' = FALSE /\ found' = FALSE /\ settled' = TRUE

(* GO TOP and GO BOTTOM, with the conditions as they are when it is sent. *)
EndOf(fwd) ==
    LET V == Passing(order, Restrictions(order))
    IN IF V = {} THEN NoRow ELSE First(Fields[order], fwd # reverse, V)
GoTop == StandOn(EndOf(TRUE)) /\ UNCHANGED <<backend, table, conditions, kept>>
GoBottom == StandOn(EndOf(FALSE)) /\ UNCHANGED <<backend, table, conditions, kept>>

(* The application skips from a record it may stand on. *)
MaySkip == settled /\ at \in Passing(order, Restrictions(order)) \cup {NoRow}

SkipForward ==
    /\ MaySkip
    /\ IF at = NoRow THEN UNCHANGED <<at, bof, kept>>
       ELSE LET rest == ReadPage(~reverse)
            IN /\ at' = IF rest = {} THEN NoRow ELSE First(Fields[order], ~reverse, rest)
               /\ bof' = FALSE
               /\ Keeps(~reverse)
    /\ found' = FALSE
    /\ UNCHANGED <<backend, table, conditions, settled>>

SkipBackward ==
    /\ MaySkip
    /\ IF at = NoRow THEN at' = EndOf(FALSE) /\ UNCHANGED <<bof, kept>>
       ELSE IF bof THEN UNCHANGED <<at, bof, kept>>
       ELSE LET rest == ReadPage(reverse)
            IN /\ IF rest = {} THEN bof' = TRUE /\ UNCHANGED at
                  ELSE bof' = FALSE /\ at' = First(Fields[order], reverse, rest)
               /\ Keeps(reverse)
    /\ found' = FALSE
    /\ UNCHANGED <<backend, table, conditions, settled>>
-----------------------------------------------------------------------------
(* The clause of SEEK for the parts of the key, SOFTSEEK or not.  (IsNull takes *)
(* a part "0" for NULL.)                                                        *)
SeekSide(role, k, v, q) ==
    IF role = "weak" THEN q = Null \/ (k \in Numeric /\ q = 0) \/ (v # Null /\ v >= q)
    ELSE v # Null /\ (q # Null => v > q)

(* Mutant of SeekClause: only the whole key is compared. *)
SeekClauseWhole(F, Q, soft, r) ==
    IF soft THEN \A i \in DOMAIN Q : SeekSide("weak", F[i], r[F[i]], Q[i])
    ELSE \A i \in DOMAIN Q : r[F[i]] = Q[i]

SeekClause(F, Q, soft, r) ==
    IF soft
    THEN \E j \in 0..(Len(Q) - 1) : \A i \in 1..(Len(Q) - j) :
             SeekSide(IF j > 0 /\ i = Len(Q) - j THEN "strict" ELSE "weak", F[i], r[F[i]], Q[i])
    ELSE \A i \in DOMAIN Q : r[F[i]] = Q[i]

SeekClausePgs(F, Q, soft, r) ==
    IF reverse THEN Where(FALSE, F, Q, r)
    ELSE IF soft THEN Where(TRUE, F, Q, r)
    ELSE \A i \in DOMAIN Q : Q[i] # Null /\ r[F[i]] = Q[i]

(* What FOUND() compares: a later date is as good as the date, if SOFTSEEK. *)
Shown(v) == IF v = Null THEN 0 ELSE v
Matches(F, key, soft, r) ==
    \A i \in DOMAIN key :
        \/ Shown(r[F[i]]) = key[i]
        \/ soft /\ i = Len(key) /\ F[i] \in Date /\ Shown(r[F[i]]) > key[i]

(* sqlSeek.  SOFTSEEK in a descending order is left out. *)
Seek(key, soft) ==
    /\ order # 0 /\ key \in Seeks[order] /\ (soft => ~reverse)
    /\ LET F == Fields[order]
           Q == [i \in DOMAIN key |-> Quoted(F[i], key[i])]
           S == {r \in Passing(order, Restrictions(order)) :
                    IF backend = "POSTGR" THEN SeekClausePgs(F, Q, soft, r)
                    ELSE SeekClause(F, Q, soft, r)}
           r == First(F, ~reverse, S)
       IN /\ found' = (S # {} /\ Matches(F, key, soft, r))
          /\ at' = IF S # {} /\ (soft \/ Matches(F, key, soft, r)) THEN r ELSE NoRow
    /\ bof' = FALSE /\ settled' = TRUE
    /\ UNCHANGED <<backend, table, conditions, kept>>
-----------------------------------------------------------------------------
(* SET ORDER: the cached rows go, the record stays. *)
SetOrder(o) ==
    /\ o # order
    /\ order' = o
    /\ reverse' = IF o = 0 THEN reverse ELSE descend[o]
    /\ UNCHANGED <<backend, table, at, bof, found, descend, filter, lDisableFlts, scope, kept, settled>>

(* ORDDESCEND leaves the cached rows: the application has to go somewhere. *)
OrdDescend(b) ==
    /\ order \in Descends /\ descend[order] # b
    /\ descend' = [descend EXCEPT ![order] = b]
    /\ reverse' = b
    /\ kept' = [kept EXCEPT ![order] = [up \in BOOLEAN |-> NIL]]
    /\ settled' = FALSE
    /\ UNCHANGED <<backend, table, at, bof, found, order, filter, lDisableFlts, scope>>

(* Mutant of SetFilter: the clauses kept stay. *)
SetFilterKept(f) ==
    /\ filter' = f
    /\ UNCHANGED <<backend, table, at, bof, found, order, reverse, descend, lDisableFlts, scope, kept, settled>>

(* SET FILTER TO and SR_SetFilter with a condition, and SET FILTER TO with none. *)
SetFilter(f) ==
    /\ filter' = f
    /\ kept' = NothingKept
    /\ UNCHANGED <<backend, table, at, bof, found, order, reverse, descend, lDisableFlts, scope, settled>>

(* SR_SetFilter("") and SR_FilterStatus: nothing is refreshed.  (Nor are BOF_AT *)
(* and EOF_AT forgotten, so that the GO TOP of the code may go to the record    *)
(* that was the first before: here GO TOP and GO BOTTOM ask the server.)        *)
MayRemove == StaleFilters \/ kept = NothingKept
RemoveFilter ==
    /\ MayRemove
    /\ filter' = AllRecnos /\ settled' = FALSE
    /\ UNCHANGED <<backend, table, at, bof, found, order, reverse, descend, lDisableFlts, scope, kept>>
FilterStatus(b) ==
    /\ MayRemove
    /\ lDisableFlts' = b /\ settled' = FALSE
    /\ UNCHANGED <<backend, table, at, bof, found, order, reverse, descend, filter, scope, kept>>

(* SET SCOPE of the current order, after which the next call goes to the top. *)
Scoped(type, key) ==
    LET s == scope[order]
    IN CASE type = "top" -> [s EXCEPT !.top = key]
         [] type = "bottom" -> [s EXCEPT !.bottom = key, !.bar = (key = s.top /\ key # <<>>)]
         [] type = "both" -> [top |-> key, bottom |-> key, bar |-> FALSE]
ScopeKeys(type) ==
    CASE type = "top" -> Tops[order] [] type = "bottom" -> Bottoms[order]
      [] type = "both" -> Tops[order] \cap Bottoms[order]
SetScope(type, key) ==
    /\ order # 0 /\ key \in ScopeKeys(type) \cup {<<>>}
    /\ scope' = [scope EXCEPT ![order] = Scoped(type, key)]
    /\ kept' = NothingKept
    /\ UNCHANGED <<backend, table, order, reverse, descend, filter, lDisableFlts>>
    /\ StandOn(EndOf(TRUE)')

Next ==
    \/ GoTop \/ GoBottom \/ SkipForward \/ SkipBackward
    \/ \E o \in Order \ {0} : \E key \in Seeks[o], soft \in BOOLEAN : Seek(key, soft)
    \/ \E o \in Order : SetOrder(o)
    \/ \E b \in BOOLEAN : OrdDescend(b) \/ FilterStatus(b)
    \/ \E f \in Filters \cup {AllRecnos} : SetFilter(f)
    \/ RemoveFilter
    \/ \E o \in Order \ {0} : \E type \in {"top", "bottom", "both"}, key \in Tops[o] \cup Bottoms[o] \cup {<<>>} :
          SetScope(type, key)

Spec == Init /\ [][Next]_vars
-----------------------------------------------------------------------------
Restricted == [filter: SUBSET AllRecnos, scope: {NoScope} \cup
                  [top: Seq(Int), bottom: Seq(Int), bar: BOOLEAN]]

(* The values of the variables: the current record is a row of the table, and  *)
(* the clauses kept are those of an order.                                     *)
TypeOK ==
    /\ backend \in Backends /\ table \in Tables
    /\ at \in table \cup {NoRow} /\ bof \in BOOLEAN /\ found \in BOOLEAN
    /\ order \in Order /\ reverse \in BOOLEAN /\ descend \in [Order -> BOOLEAN]
    /\ filter \in SUBSET AllRecnos /\ lDisableFlts \in BOOLEAN /\ settled \in BOOLEAN
    /\ \A o \in Order : [filter |-> filter, scope |-> scope[o]] \in Restricted
    /\ \A o \in Order : \A up \in BOOLEAN : kept[o][up] \in Restricted \cup {NIL}

(* The clause of a page, put together column by column with the values of the  *)
(* current record (WhereMajor, WhereMinor), holds of the current row and of    *)
(* those that come after it in the order of the statement, and of no other:    *)
(* ReadPage takes the first row it gets for the current one.                   *)
PageIsRest ==
    at # NoRow => LET F == Fields[order]
                  IN \A up \in BOOLEAN, r \in table :
                        Where(up, F, QuotedKey(F, at), r) <=> ~Sorted(F, up, r, at)

(* A clause kept in ORDER_SKIP_UP or _DOWN has the restrictions of now: every   *)
(* change of a filter or of a scope has to forget the clauses it is part of.    *)
KeptIsCurrent ==
    \A o \in Order, up \in BOOLEAN : kept[o][up] \in {NIL, Restrictions(o)}

(* What the application asked for: the records the filter holds of whose keys   *)
(* are not before the top scope nor after the bottom scope.                     *)
Within(F, s, r) ==
    LET Part(key) == SubSeq(Key(F, r), 1, Len(key))
    IN ~Precedes(Part(s.top), s.top) /\ ~Precedes(s.bottom, Part(s.bottom))
Visible ==
    IF lDisableFlts THEN table
    ELSE {r \in table : r["recno"] \in filter /\ Within(Fields[order], scope[order], r)}
Ahead(x, y) == Sorted(Fields[order], ~reverse, x, y)
Place(r) == Cardinality({x \in Visible : ~Ahead(r, x)})

C == INSTANCE Cursor WITH
        Rec <- 1..Cardinality(AllRecnos),
        NoRec <- 0,
        table <- 1..Cardinality(Visible),
        recno <- IF at = NoRow THEN 0 ELSE Place(at),
        eof <- at = NoRow

(* In every order, either way, and under every filter and scope, the area moves  *)
(* as a cursor over the records the application asked for: the statements find   *)
(* the neighbour and the ends whatever values the key columns have.  (SKIP -1    *)
(* at BOF() never moves.)                                                        *)
MovesAsCursor ==
    [][ /\ GoTop => C!GoTop
        /\ GoBottom => C!GoBottom
        /\ SkipForward => C!SkipForward \/ C!SkipAtEof
        /\ SkipBackward /\ ~bof => C!SkipBackward \/ C!SkipFromEof ]_vars

(* SEEK finds the first of the records that have the key; with SOFTSEEK, when    *)
(* none has it, it stands on the first record after the key.                     *)
SeekFinds ==
    [][ \A key \in UNION {Seeks[o] : o \in Order \ {0}}, soft \in BOOLEAN :
          UNCHANGED conditions /\ Seek(key, soft) =>
            LET F == Fields[order]
                Part(r) == [i \in DOMAIN key |-> Shown(r[F[i]])]
                A == {r \in Visible : Part(r) = key}
                B == {r \in Visible : Precedes(key, Part(r))}
                FirstOf(S) == at' \in S /\ \A r \in S : ~Ahead(r, at')
            IN IF A # {} THEN found' /\ FirstOf(A)
               ELSE IF soft /\ B # {} THEN FirstOf(B)
               ELSE at' = NoRow /\ ~found' ]_vars
=============================================================================
