----------------------------- MODULE RecordList -----------------------------
(***************************************************************************)
(* Navigation of a work area of SQLEX, the second engine (sqlex1.c).       *)
(*                                                                         *)
(* The area keeps a list of record numbers (recordList) that one query     *)
(* brought, in the order walked and in the direction of the query, its     *)
(* place in that list, and the row of the current record (aBuffer).  SKIP  *)
(* moves in the list, and past an end of it asks for another list with a   *)
(* statement prepared once per direction.  Rows are read a page at a time  *)
(* into a pool (hBufferPool) that answers the next reads.  lBofAt and      *)
(* lEofAt remember the ends of the order.                                  *)
(*                                                                         *)
(* A navigation call is made of others (SKIP of SKIPRAW and SKIPFILTER,    *)
(* these of GOTOP, GOBOTTOM and each other): todo is the stack of what is  *)
(* left to do of the call in progress, one step per action, and another    *)
(* user of the table may come between two steps.                           *)
(***************************************************************************)
EXTENDS Integers, FiniteSets, Sequences

CONSTANTS
    ListSize,    \* RECORD_LIST_SIZE, 250
    TopSize,     \* RECORD_LIST_SIZE / 10, the list of GO TOP and GO BOTTOM
    PageSize,    \* PAGE_READ_SIZE, rows read with the current one
    PoolSize,    \* BUFFER_POOL_SIZE, rows over which the pool is emptied
    hnDeleted,   \* ulhDeleted > 0: the table has the column that marks
    UseDeleteds, \* sr_UseDeleteds(): DELETE marks, where there is a column
    MaxRec,      \* bound: record numbers ever given
    MaxVal,      \* bound: values of the indexed column
    MaxDepth,    \* bound: steps that wait for another (the C stack is finite)
    Starts,      \* bound: what the area may be opened on, and SET DELETED
    Conditions,  \* bound: conditions of SET FILTER and of a scope
    Skips,       \* bound: what SKIP is called with
    GoTos,       \* bound: what GO TO is called with
    Seeks,       \* bound: what SEEK is called with
    Marks,       \* bound: records that are deleted
    Calls,       \* bound: the calls made besides GO TOP, GO BOTTOM and SKIP
    NoRow        \* no row in the table, or none in the pool

FWD == 1     \* SR_LIST_FORWARD, and a SKIP forward
BWD == -1    \* SR_LIST_BACKWARD
Dir == {FWD, BWD}

Rec == 1..MaxRec
Val == 0..MaxVal     \* values of the column; 0 is the blank one
Row == Val \cup {NoRow}

ASSUME ListAssumption ==
    /\ {ListSize, TopSize, PageSize} \subseteq Nat \ {0}
    /\ {PoolSize, MaxRec, MaxVal, MaxDepth} \subseteq Nat
    /\ NoRow \notin Val
    /\ Starts \subseteq [table: {t \in [Rec -> Row] : \E r \in Rec : t[r] # NoRow},
                          marked: SUBSET Rec, order: {"recno", "index"}, setDeleted: BOOLEAN]
    /\ Conditions \subseteq SUBSET Val
    /\ Skips \subseteq Int \ {0} /\ GoTos \subseteq 0..MaxRec /\ Seeks \subseteq Val
    /\ Marks \subseteq Rec
    /\ {hnDeleted, UseDeleteds} \subseteq BOOLEAN

VARIABLES
    table,  \* the rows of the server
    marked, \* the records marked as deleted
    last,   \* the record number given last
    setDeleted,  \* SET DELETED is ON: deleted records are skipped
    order,  \* hOrdCurrent: "recno", or "index" on the column and the record number
    filter, \* the values the conditions of the area let through
    wa,     \* the work area
    todo,   \* what is left of the call in progress, first step first
    app     \* the call in progress, and what the application saw when the last returned

vars == <<table, marked, last, setDeleted, order, filter, wa, todo, app>>

None == {NoRow}     \* no statement

Area == [ list: Seq(Rec), del: Seq(BOOLEAN), pos: Nat,    \* recordList, deletedList
          dir: Dir,                                       \* recordListDirection
          ends: [Dir -> 0..MaxRec],                       \* lEofAt and lBofAt
          fBof: BOOLEAN, fEof: BOOLEAN, fBottom: BOOLEAN,
          cur: Nat, lastRec: Nat, rcount: Nat,   \* lCurrentRecord, lLastRec, RCOUNT
          buf: Val, hot: BOOLEAN, isInsert: BOOLEAN,
          touched: {"unknown", "yes", "no"},              \* bIndexTouchedInUpdate
          pool: [Rec -> Row],                             \* hBufferPool
          stmt: [Dir -> (SUBSET Val) \cup {None}],          \* SkipBwdStmt, SkipFwdStmt
          condChanged: BOOLEAN, orderChanged: BOOLEAN ]

Frame == [ op: {"cold", "go", "skip", "raw", "filter", "passed", "bof", "goto",
                "append", "delete", "recall", "seek", "sought", "flush", "ready"},
           d: Dir, n: Nat, b: BOOLEAN ]

Do(op, d, n, b) == [op |-> op, d |-> d, n |-> n, b |-> b]
Ready == Do("ready", FWD, 0, FALSE)   \* no call is in progress

-----------------------------------------------------------------------------
(* The server *)

Precedes(t, o, x, y) ==
    IF o = "recno" \/ t[x] = t[y] THEN x < y ELSE t[x] < t[y]

(* Walking in direction d, x comes before y. *)
Ahead(t, o, d, x, y) == IF d = FWD THEN Precedes(t, o, x, y) ELSE Precedes(t, o, y, x)

(* The first k records of A in the order, walking in direction d. *)
Ranked(t, o, d, A, k) ==
    LET Rank(x) == 1 + Cardinality({y \in A : Ahead(t, o, d, y, x)})
    IN [i \in 1..IF Cardinality(A) < k THEN Cardinality(A) ELSE k |-> CHOOSE x \in A : Rank(x) = i]

(* The server's answer to a query: that sequence, in which every rank is one of A. *)
Answers(t, o, d, A, k) == {Ranked(t, o, d, A, k)} \cap Seq(A)

(* The records whose row exists and meets a condition. *)
Meeting(t, c) == {r \in Rec : t[r] # NoRow /\ t[r] \in c}

-----------------------------------------------------------------------------
(* The work area *)

Here(a) == a.list[a.pos]

(* SR_GetCurrentRecordNum *)
Current(a) == IF a.isInsert \/ a.fEof THEN a.lastRec ELSE Here(a)

(* sqlGetCleanBuffer *)
Clean(a) == [a EXCEPT !.buf = 0, !.lastRec = a.rcount + 1, !.fEof = TRUE]

(* The end of the order in direction d is met. *)
Stop(a, d) == IF d = FWD THEN Clean(a) ELSE [a EXCEPT !.fBof = TRUE]

(* Mutant of Deleted: the phantom record counts as a deleted one. *)
DeletedPhantom(a) == hnDeleted /\ ~a.isInsert /\ (a.fEof \/ a.del[a.pos])

(* sqlExDeleted *)
Deleted(a) == hnDeleted /\ ~a.isInsert /\ ~a.fEof /\ a.del[a.pos]

(* The area with another list, whose first record is the current one. *)
Listed(a, s, M) ==
    [a EXCEPT !.list = s, !.del = [i \in 1..Len(s) |-> s[i] \in M], !.pos = 1]

EmptyPool == [r \in Rec |-> NoRow]
Pooled(a) == {r \in Rec : a.pool[r] # NoRow}

(* The current record and the next ones of the list, a page of them. *)
Page(a) == {a.list[i] : i \in {i \in a.pos..Len(a.list) : i < a.pos + PageSize}}

(* Whether updateRecordBuffer succeeds: the pool has the current record, or *)
(* a row of its page exists.                                                *)
Readable(a, t) == a.pool[Here(a)] # NoRow \/ \E r \in Page(a) : t[r] # NoRow

(* The pool after the page is read, emptied first when it is too large. *)
PoolWith(a, t) ==
    [r \in Rec |-> IF r \in Page(a) /\ t[r] # NoRow THEN t[r]
                   ELSE IF Cardinality(Pooled(a)) > PoolSize THEN NoRow ELSE a.pool[r]]

(* A page is read, of which the current record may be missing. *)
PageRead(a, t, M) ==
    IF t[Here(a)] = NoRow THEN [a EXCEPT !.pool = PoolWith(a, t)]
    ELSE [a EXCEPT !.pool = PoolWith(a, t), !.buf = t[Here(a)],
                   !.del[a.pos] = Here(a) \in M]

(* Mutant of Read: the buffer is not filled from the pool. *)
ReadMissed(a, t, M) == IF a.pool[Here(a)] # NoRow THEN a ELSE PageRead(a, t, M)

(* Mutant of Read: the pool is taken to have every record. *)
ReadPooled(a, t, M) == [a EXCEPT !.buf = a.pool[Here(a)]]

(* updateRecordBuffer *)
Read(a, t, M) ==
    IF a.pool[Here(a)] # NoRow THEN [a EXCEPT !.buf = a.pool[Here(a)]] ELSE PageRead(a, t, M)

Phantom(a) == [Clean(a) EXCEPT !.fBof = TRUE]
OnIt(a) == [a EXCEPT !.fBof = FALSE, !.fEof = FALSE]

(* deletedList[0] keeps what the list before it left there. *)
MarkLeft(a) == a.del # <<>> /\ a.del[1]

Alone(a, r) == [a EXCEPT !.list = <<r>>, !.del = <<MarkLeft(a)>>, !.pos = 1, !.dir = FWD]

(* sqlExGoTo of a record that the list does not have, or not any more. *)
Fetched(a, r, t, M) ==
    LET b == PageRead(Alone(a, r), t, M) IN IF t[r] # NoRow THEN OnIt(b) ELSE Phantom(b)

PlaceOf(a, r) == CHOOSE i \in DOMAIN a.list : a.list[i] = r
Placed(a, r) == [a EXCEPT !.pos = PlaceOf(a, r)]

(* sqlExGoTo *)
GoToOf(a, r, t, M) ==
    IF r = 0 THEN Phantom(a)
    ELSE IF (\E i \in DOMAIN a.list : a.list[i] = r) /\ Readable(Placed(a, r), t)
         THEN OnIt(Read(Placed(a, r), t, M))
    ELSE Fetched(a, r, t, M)

-----------------------------------------------------------------------------
(* Steps of a call *)

Sees(a) == [recno |-> Current(a), eof |-> a.fEof /\ ~(a.isInsert /\ a.hot), bof |-> a.fBof]

Running(op) == todo # <<>> /\ Head(todo).op = op

Goes(a, rest) ==
    /\ wa' = a
    /\ todo' = rest
    /\ app' = IF rest = <<>> THEN [call |-> Ready, sees |-> Sees(a)] ELSE app
    /\ UNCHANGED <<setDeleted, order, filter>>

(* The step leaves the area as a and has more work to do before what waits. *)
Continue(a, work) == Len(todo) <= MaxDepth /\ Goes(a, work \o Tail(todo))

Untouched == UNCHANGED <<table, marked, last>>

(* A step that ends with a read of the current record, or with a runtime     *)
(* error (SR_commonError) that ends the call.                                *)
ReadAnd(a, work) ==
    IF Readable(a, table) THEN Continue(Read(a, table, marked), work)
    ELSE Goes(Read(a, table, marked), <<>>)

(* SR_ExecuteInsertStmt: the new record is alone in the list. The server is  *)
(* one that gives the new number back; of CACHE, INFORMIX and an unknown one *)
(* the code does not ask it (sqlex2.c 715), and the list keeps the old one.  *)
Insert ==
    /\ Running("cold") /\ wa.isInsert
    /\ table' = [table EXCEPT ![last + 1] = wa.buf]
    /\ last' = last + 1
    /\ UNCHANGED marked
    /\ Continue([Alone(wa, last + 1) EXCEPT !.del = <<FALSE>>, !.dir = wa.dir,
                    !.rcount = last + 1, !.lastRec = last + 2,
                    !.hot = FALSE, !.isInsert = FALSE], <<>>)

(* The list after an UPDATE that touched the column of the index. *)
Shortened(a) ==
    IF a.touched = "yes" THEN [a EXCEPT !.list = <<Here(a)>>, !.del = <<a.del[1]>>, !.pos = 1]
    ELSE a

(* Mutant of Refreshed: the pool keeps the row read from the server. *)
RefreshedNever(a) == a

Refreshed(a) == [a EXCEPT !.pool[Here(a)] = IF @ = NoRow THEN NoRow ELSE a.buf]

(* SR_CreateUpdateStmt looks for the column in the order of the first UPDATE. *)
(* It runs again when other columns are edited (sqlex1.c 3405): here is one.  *)
Prepared(a) ==
    [a EXCEPT !.touched = IF @ # "unknown" THEN @ ELSE IF order = "index" THEN "yes" ELSE "no"]

Cooled(a) == [a EXCEPT !.hot = FALSE]

(* Mutant of Update: an edit of the phantom record is written. *)
UpdatePhantom ==
    /\ Running("cold") /\ ~wa.isInsert
    /\ table' = [table EXCEPT ![Here(wa)] = IF @ = NoRow THEN NoRow ELSE wa.buf]
    /\ UNCHANGED <<marked, last>>
    /\ Continue(Cooled(Refreshed(Shortened(Prepared(wa)))), <<>>)

(* SR_CreateUpdateStmt, SR_ExecuteUpdateStmt *)
Update ==
    /\ Running("cold") /\ ~wa.isInsert /\ ~wa.fEof
    /\ table' = [table EXCEPT ![Here(wa)] = IF @ = NoRow THEN NoRow ELSE wa.buf]
    /\ UNCHANGED <<marked, last>>
    /\ Continue(Cooled(Refreshed(Shortened(Prepared(wa)))), <<>>)

(* sqlExGoCold: an edit of the phantom record is dropped. *)
DropEdit ==
    /\ Running("cold") /\ ~wa.isInsert /\ wa.fEof
    /\ Continue(Cooled(wa), <<>>) /\ Untouched

Filtering(d) == IF setDeleted THEN <<Do("filter", d, 0, FALSE)>> ELSE <<>>

(* Mutant of TopList: a full list is taken to be the whole order. *)
TopListFull(a, d, s) ==
    LET b == [a EXCEPT !.dir = d, !.condChanged = FALSE] IN
    IF s = <<>> THEN b
    ELSE [Listed(b, s, marked) EXCEPT !.ends[d] = IF Len(s) <= TopSize THEN s[Len(s)] ELSE @]

(* The list of GO TOP (d = FWD) and GO BOTTOM (BWD); one with fewer rows than *)
(* asked for has the other end too, one with none leaves the old list.        *)
TopList(a, d, s) ==
    LET b == [a EXCEPT !.dir = d, !.condChanged = FALSE] IN
    IF s = <<>> THEN b
    ELSE [Listed(b, s, marked) EXCEPT !.ends[d] = IF Len(s) < TopSize THEN s[Len(s)] ELSE @]

GoneTo(a, d) == [OnIt(a) EXCEPT !.fBottom = (d = BWD), !.ends[-d] = Here(a)]

(* sqlExGoTop and sqlExGoBottom *)
GoEnd(d) ==
    /\ Running("go") /\ Head(todo).d = d
    /\ IF wa.ends[-d] # 0
       THEN ReadAnd(GoneTo(GoToOf(wa, wa.ends[-d], table, marked), d), Filtering(d))
       ELSE \E s \in Answers(table, order, d, Meeting(table, filter), TopSize) :
                ReadAnd(GoneTo(TopList(wa, d, s), d), Filtering(d))
    /\ Untouched

(* sqlExSkip: one record at a time, until an end is met. *)
Skip ==
    LET d == Head(todo).d
        n == Head(todo).n
    IN /\ Running("skip")
       /\ IF n = 0 \/ wa.fBof \/ wa.fEof
          THEN Continue(IF d = BWD THEN [wa EXCEPT !.fEof = FALSE] ELSE [wa EXCEPT !.fBof = FALSE],
                        <<>>)
          ELSE Continue(wa, <<Do("raw", d, 0, FALSE)>> \o Filtering(d)
                                \o <<Do("skip", d, n - 1, FALSE)>>)
       /\ Untouched

(* sqlExSkipFilter: deleted records are passed, and BOF() is left for the top  *)
(* or, when the call came from GO BOTTOM, for the phantom record.              *)
SkipFilter ==
    LET d == Head(todo).d
        bottom == IF Running("filter") THEN wa.fBottom ELSE Head(todo).b
    IN /\ Running("filter") \/ Running("passed")
       /\ IF ~wa.fBof /\ Deleted(wa)
          THEN Continue(wa, <<Do("raw", d, 0, FALSE), Do("passed", d, 0, bottom)>>)
          ELSE IF ~(wa.fBof /\ d = BWD) THEN Continue(wa, <<>>)
          ELSE IF bottom THEN Continue(Phantom(wa), <<>>)
          ELSE Continue(wa, <<Do("go", FWD, 0, FALSE), Do("bof", BWD, 0, FALSE)>>)
       /\ Untouched

(* BOF() after the GO TOP that answered a SKIP -1. *)
RaiseBof ==
    /\ Running("bof")
    /\ Continue([wa EXCEPT !.fBof = TRUE,
                           !.ends[BWD] = IF Head(todo).b THEN Here(wa) ELSE @], <<>>)
    /\ Untouched

-----------------------------------------------------------------------------
(* SKIPRAW *)

(* Mutant of Next1: every list is taken to be in forward order. *)
Next1Forward(a, d) == a.pos + d

(* The place in the list, or out of it, of the next record in direction d. *)
Next1(a, d) == a.pos + d * a.dir

OnPhantom(d) == d = BWD /\ wa.cur = wa.lastRec

Raw(d) == Running("raw") /\ Head(todo).d = d

(* SKIP -1 from the phantom record goes to the bottom. *)
RawFromPhantom ==
    /\ Raw(BWD) /\ OnPhantom(BWD)
    /\ Continue(wa, <<Do("go", BWD, 0, FALSE)>>)
    /\ Untouched

(* trySkippingOnCache *)
RawInList(d) ==
    /\ Raw(d) /\ ~OnPhantom(d) /\ Next1(wa, d) \in DOMAIN wa.list
    /\ ReadAnd([wa EXCEPT !.pos = Next1(wa, d)], <<>>)
    /\ Untouched

RawAtEnd(d) ==
    /\ Raw(d) /\ ~OnPhantom(d) /\ Next1(wa, d) \notin DOMAIN wa.list
    /\ wa.ends[d] = Here(wa)
    /\ Continue(Stop(wa, d), <<>>)
    /\ Untouched

(* CreateSkipStmt: when a statement is made both ends are forgotten. *)
WithStmt(a, d) ==
    IF a.orderChanged \/ a.condChanged \/ a.stmt[d] = None
    THEN [a EXCEPT !.ends = [x \in Dir |-> 0], !.condChanged = FALSE, !.orderChanged = FALSE,
                   !.stmt = [x \in Dir |-> IF x = d THEN filter ELSE None]]
    ELSE a

(* What is bound to the statement: the record number, or the key in the buffer. *)
BoundKey(a) == IF order = "recno" THEN Here(a) ELSE a.buf

(* The records the statement asks for: those from the bound key on. *)
From(a, d) ==
    LET Key(r) == IF order = "recno" THEN r ELSE table[r]
    IN {r \in Meeting(table, a.stmt[d]) : d * Key(r) >= d * BoundKey(a)}

(* The rows of s that follow record r. *)
Following(s, r) == SubSeq(s, (CHOOSE i \in DOMAIN s : s[i] = r) + 1, Len(s))

(* getPreparedRecordList when the current record is among the rows. *)
NextList(a, d, s) ==
    IF s = <<>> THEN Continue(Stop([a EXCEPT !.ends[d] = Here(a)], d), <<>>)
    ELSE ReadAnd([Listed(a, s, marked) EXCEPT
                     !.ends[d] = IF order = "recno" /\ Len(s) < ListSize THEN s[Len(s)] ELSE @],
                 <<>>)

(* It is not there any more: EOF(), or BOF() on the top record. *)
LostRecord(a, d) ==
    IF d = FWD THEN Continue(Clean(a), <<>>)
    ELSE Continue(a, <<Do("go", FWD, 0, FALSE), Do("bof", BWD, 0, TRUE)>>)

Fetch(a, d) ==
    \E s \in Answers(table, order, d, From(a, d), ListSize + 1) :
        IF \E i \in DOMAIN s : s[i] = a.cur THEN NextList(a, d, Following(s, a.cur))
        ELSE LostRecord(a, d)

(* Mutant of RawQuery: the direction of the list is not kept. *)
RawQueryUndirected(d) ==
    /\ Raw(d) /\ ~OnPhantom(d) /\ Next1(wa, d) \notin DOMAIN wa.list
    /\ wa.ends[d] # Here(wa)
    /\ Fetch(WithStmt(wa, d), d)
    /\ Untouched

(* sqlExSkipRaw past the end of the list. *)
RawQuery(d) ==
    /\ Raw(d) /\ ~OnPhantom(d) /\ Next1(wa, d) \notin DOMAIN wa.list
    /\ wa.ends[d] # Here(wa)
    /\ Fetch(WithStmt([wa EXCEPT !.dir = d], d), d)
    /\ Untouched

-----------------------------------------------------------------------------
(* The other steps *)

Flush == Running("flush") /\ Continue(wa, <<>>) /\ Untouched

GoTo ==
    /\ Running("goto")
    /\ Continue(GoToOf(wa, Head(todo).n, table, marked), <<>>)
    /\ Untouched

(* sqlExAppend *)
Append1 ==
    /\ Running("append")
    /\ Continue([Clean(wa) EXCEPT !.hot = TRUE, !.isInsert = TRUE], <<>>)
    /\ Untouched

Forget(e, r) == [d \in Dir |-> IF e[d] = r THEN 0 ELSE e[d]]

Flagged(a, b) == [a EXCEPT !.del[a.pos] = b]

(* sqlExDeleteRec: the row is marked or deleted. *)
DeleteRec ==
    LET done == Deleted(wa) \/ wa.fEof IN
    /\ Running("delete")
    /\ IF done \/ ~(hnDeleted /\ UseDeleteds) THEN UNCHANGED marked
       ELSE marked' = marked \cup ({Here(wa)} \cap {r \in Rec : table[r] # NoRow})
    /\ IF done \/ (hnDeleted /\ UseDeleteds) THEN UNCHANGED table
       ELSE table' = [table EXCEPT ![Here(wa)] = NoRow]
    /\ Continue([Flagged(wa, TRUE) EXCEPT !.ends = Forget(@, Here(wa))], <<>>)
    /\ UNCHANGED last

(* sqlExRecall *)
Recall ==
    /\ Running("recall")
    /\ marked' = IF Deleted(wa) /\ UseDeleteds THEN marked \ {Here(wa)} ELSE marked
    /\ Continue(Flagged(wa, FALSE), <<>>)
    /\ UNCHANGED <<table, last>>

(* Mutant of Sought: the key found is not compared with the key sought. *)
SoughtAny(a, r, v, soft) ==
    Continue(OnIt([Listed(a, <<r>>, marked) EXCEPT !.buf = table[r]]),
             Filtering(a.dir) \o IF setDeleted THEN <<Do("sought", FWD, v, soft)>> ELSE <<>>)

(* SR_getPreparedSeek: the row goes to the buffer and not to the pool. *)
Sought(a, r, v, soft) ==
    LET b == [Listed(a, <<r>>, marked) EXCEPT !.buf = table[r]] IN
    IF table[r] # v /\ ~soft THEN Continue(Clean(b), <<>>)
    ELSE Continue(IF table[r] = v THEN OnIt(b) ELSE b,
                  Filtering(a.dir) \o IF setDeleted THEN <<Do("sought", FWD, v, soft)>> ELSE <<>>)

(* SR_CreateSeekStmt: the statement is made every time, for which the conditions *)
(* are solved again and the SKIP statements are no longer valid.                *)
WithSeekStmt(a, d) == [a EXCEPT !.dir = d, !.condChanged = TRUE, !.orderChanged = FALSE]

SeekFrom(d, v) == {r \in Meeting(table, filter) : d * table[r] >= d * v}

(* sqlExSeek of the first (d = FWD) or last record with a key *)
Seek ==
    LET d == Head(todo).d
        v == Head(todo).n
        a == WithSeekStmt(wa, d)
    IN /\ Running("seek")
       /\ \E s \in Answers(table, order, d, SeekFrom(d, v), 1) :
              IF s = <<>> THEN Continue(Clean(a), <<>>) ELSE Sought(a, s[1], v, Head(todo).b)
       /\ Untouched

(* After the deleted records are passed the key is compared again. *)
SoughtAgain ==
    /\ Running("sought")
    /\ Continue(IF ~wa.fEof /\ wa.buf # Head(todo).n /\ ~Head(todo).b THEN Clean(wa) ELSE wa, <<>>)
    /\ Untouched

-----------------------------------------------------------------------------
(* The calls of the application *)

Idle == todo = <<>>

(* A call c begins with area a; it writes the edit (sqlExGoCold) first. *)
Begin(c, a) ==
    /\ Idle
    /\ todo' = IF wa.hot THEN <<Do("cold", FWD, 0, FALSE), c>> ELSE <<c>>
    /\ app' = [app EXCEPT !.call = c]
    /\ wa' = a
    /\ UNCHANGED <<table, marked, last, setDeleted>>

Call(c, a) == Begin(c, a) /\ UNCHANGED <<order, filter>>

(* A call that moves nowhere and does not write the edit. *)
Sets(a) ==
    /\ Idle
    /\ wa' = a
    /\ app' = [app EXCEPT !.sees = Sees(a)]
    /\ UNCHANGED <<table, marked, last, setDeleted, order, filter, todo>>

(* Bound: the application does not SKIP or SEEK with an edit of the phantom     *)
(* record pending; these forget EOF() before the edit is written.               *)
PhantomEdit == wa.hot /\ wa.fEof /\ ~wa.isInsert

CallGo(d) == Call(Do("go", d, 0, FALSE), wa)
CallGoTo(r) == Call(Do("goto", FWD, r, FALSE), wa)

(* sqlExSkip: the flags are cleared before the edit is written. *)
CallSkip(n) ==
    /\ ~PhantomEdit
    /\ Call(Do("skip", IF n > 0 THEN FWD ELSE BWD, IF n > 0 THEN n ELSE -n, FALSE),
          [wa EXCEPT !.cur = Current(wa), !.fBottom = FALSE, !.fBof = FALSE, !.fEof = FALSE])

CallSeek(d, v, soft) ==
    /\ order = "index" /\ ~PhantomEdit
    /\ Call(Do("seek", d, v, soft), [wa EXCEPT !.fBottom = FALSE, !.fEof = FALSE])

(* sqlExFlush, sqlExLock and sqlExUnLock only write the edit. *)
CallFlush == "flush" \in Calls /\ Call(Do("flush", FWD, 0, FALSE), wa)

CallAppend ==
    /\ "append" \in Calls
    /\ last + (IF wa.isInsert THEN 1 ELSE 0) < MaxRec
    /\ Call(Do("append", FWD, 0, FALSE), wa)

CallDelete ==
    /\ "delete" \in Calls
    /\ Idle /\ (wa.fEof \/ Here(wa) \in Marks)
    /\ Call(Do("delete", FWD, 0, FALSE), wa)

CallRecall == "recall" \in Calls /\ Call(Do("recall", FWD, 0, FALSE), wa)

(* sqlExPutValue *)
PutValue(v) ==
    /\ "edit" \in Calls
    /\ Sets([wa EXCEPT !.buf = v, !.hot = TRUE])

(* sqlExRecCount *)
RecCount ==
    /\ "count" \in Calls
    /\ Sets([wa EXCEPT !.lastRec = wa.rcount + (IF wa.isInsert /\ wa.hot THEN 2 ELSE 1)])

(* DBOI_KEYCOUNT of sqlExOrderInfo *)
KeyCount ==
    /\ "keycount" \in Calls
    /\ Sets([wa EXCEPT !.dir = FWD, !.condChanged = FALSE])

(* Another order or other conditions, after which the application goes to the top. *)
Resets(a) == Begin(Do("go", FWD, 0, FALSE), a)

(* sqlExOrderListFocus.  A change of order makes every statement useless. *)
SetOrder(o) ==
    /\ "order" \in Calls
    /\ order' = o /\ UNCHANGED filter
    /\ Resets([wa EXCEPT !.orderChanged = @ \/ o # order,
                         !.ends = IF o # order THEN [d \in Dir |-> 0] ELSE @,
                         !.stmt = IF o = "index" THEN [d \in Dir |-> None] ELSE @])

(* sqlExSetFilter *)
SetFilter(c) ==
    /\ "filter" \in Calls
    /\ filter' = c /\ UNCHANGED order
    /\ Resets([wa EXCEPT !.condChanged = TRUE])

(* sqlExSetScope, sqlExScopeInfo, sqlExClearFilter *)
SetScope(c) ==
    /\ "scope" \in Calls
    /\ filter' = c /\ UNCHANGED order
    /\ Resets([wa EXCEPT !.condChanged = TRUE, !.ends = [d \in Dir |-> 0]])

-----------------------------------------------------------------------------
(* Another user of the table *)

OtherInserts(v) ==
    /\ "other" \in Calls /\ wa.list # <<>>
    /\ last + (IF wa.isInsert THEN 1 ELSE 0) < MaxRec
    /\ \A i \in DOMAIN todo : todo[i].op # "append"
    /\ table' = [table EXCEPT ![last + 1] = v]
    /\ last' = last + 1
    /\ UNCHANGED <<marked, setDeleted, order, filter, wa, todo, app>>

OtherDeletes(r) ==
    /\ "other" \in Calls /\ wa.list # <<>>
    /\ table[r] # NoRow
    /\ table' = [table EXCEPT ![r] = NoRow]
    /\ marked' = marked \ {r}
    /\ UNCHANGED <<last, setDeleted, order, filter, wa, todo, app>>

-----------------------------------------------------------------------------

Opened(n) ==
    [ list |-> <<>>, del |-> <<>>, pos |-> 1, dir |-> FWD, ends |-> [d \in Dir |-> 0],
      fBof |-> TRUE, fEof |-> TRUE, fBottom |-> FALSE,
      cur |-> 0, lastRec |-> 0, rcount |-> n, buf |-> 0, hot |-> FALSE, isInsert |-> FALSE,
      touched |-> "unknown", pool |-> EmptyPool, stmt |-> [d \in Dir |-> None],
      condChanged |-> FALSE, orderChanged |-> TRUE ]

(* The first operation is GO TOP, or one that begins with it (firstinteract). *)
(* GO BOTTOM, GO TO, SEEK and APPEND as first operations are left out: they   *)
(* only clear firstinteract.                                                  *)
Init ==
    /\ \E s \in Starts : /\ table = s.table /\ marked = s.marked
                          /\ order = s.order /\ setDeleted = s.setDeleted
    /\ last \in {r \in Rec : table[r] # NoRow /\ \A x \in Rec : x > r => table[x] = NoRow}
    /\ filter = Val
    /\ wa = Opened(last)
    /\ todo = <<Do("go", FWD, 0, FALSE)>>
    /\ app = [call |-> Do("go", FWD, 0, FALSE), sees |-> [recno |-> 0, eof |-> TRUE, bof |-> TRUE]]

(* A step of the call in progress. *)
Step ==
    \/ Insert \/ Update \/ DropEdit
    \/ Skip \/ SkipFilter \/ RaiseBof \/ RawFromPhantom
    \/ \E d \in Dir : GoEnd(d) \/ RawInList(d) \/ RawAtEnd(d) \/ RawQuery(d)
    \/ Flush \/ GoTo \/ Append1 \/ DeleteRec \/ Recall \/ Seek \/ SoughtAgain

Calling ==
    \/ CallFlush \/ CallAppend \/ CallDelete \/ CallRecall
    \/ RecCount \/ KeyCount
    \/ \E n \in Skips : CallSkip(n)
    \/ \E r \in GoTos : CallGoTo(r)
    \/ \E d \in Dir : CallGo(d) \/ \E v \in Seeks, soft \in BOOLEAN : CallSeek(d, v, soft)
    \/ \E v \in Val : PutValue(v)
    \/ \E o \in {"recno", "index"} : SetOrder(o)
    \/ \E c \in Conditions : SetFilter(c) \/ SetScope(c)

Other == (\E v \in Val : OtherInserts(v)) \/ (\E r \in Marks : OtherDeletes(r))

Next == Step \/ Calling \/ Other

Spec == Init /\ [][Next]_vars

(* A call goes on until it returns; the application need not call, nor the   *)
(* other user do anything.                                                   *)
FairSpec == Spec /\ WF_vars(Step)

-----------------------------------------------------------------------------
(* What must hold *)

TypeOK ==
    /\ table \in [Rec -> Row] /\ marked \subseteq Rec /\ last \in 0..MaxRec
    /\ setDeleted \in BOOLEAN /\ order \in {"recno", "index"} /\ filter \in SUBSET Val
    /\ wa \in Area /\ todo \in Seq(Frame)

(* The list holds consecutive records of the order, in the direction of the    *)
(* area: what SKIP passes in it is what it would have passed on the server.    *)
ListIsRun ==
    Idle => \A i \in DOMAIN wa.list : i + 1 \in DOMAIN wa.list =>
        /\ Ahead(table, order, wa.dir, wa.list[i], wa.list[i + 1])
        /\ \A r \in Meeting(table, filter) :
               ~(/\ Ahead(table, order, wa.dir, wa.list[i], r)
                 /\ Ahead(table, order, wa.dir, r, wa.list[i + 1]))

(* A record remembered as an end of the order has none after it. *)
EndsAreEnds ==
    Idle => \A d \in Dir : wa.ends[d] # 0 =>
        \A r \in Meeting(table, filter) : ~Ahead(table, order, d, wa.ends[d], r)

(* The pool has no row that differs from the table's: this area is the only    *)
(* one that changes rows.                                                      *)
PoolIsCurrent ==
    \A r \in Rec : table[r] # NoRow /\ wa.pool[r] # NoRow => wa.pool[r] = table[r]

(* Between calls the buffer shows the row of the current record. *)
BufferShowsRecord ==
    Idle /\ ~wa.hot /\ ~wa.fEof /\ table[Here(wa)] # NoRow => wa.buf = table[Here(wa)]

(* Every call returns. *)
CallsReturn == todo # <<>> ~> todo = <<>>

(* An edit is written to the record the application saw when it made it, or to *)
(* a new one.                                                                  *)
WritesItsRecord ==
    [][Insert \/ Update =>
         \A r \in Rec : table'[r] # table[r] => r = last + 1 \/ r = app.sees.recno]_vars

(* The cursor an application sees: the records shown, by their places in the order. *)
Shown == Meeting(table, filter) \ (IF setDeleted THEN marked ELSE {})
Place(r) == 1 + Cardinality({x \in Shown : Precedes(table, order, x, r)})

C == INSTANCE Cursor WITH
        NoRec <- 0,
        table <- 1..Cardinality(Shown),
        recno <- IF app.sees.eof THEN 0 ELSE Place(app.sees.recno),
        eof <- app.sees.eof

Returns(op) == app.call.op = op /\ todo' = <<>>

(* The steps of a call do together what the call does on a cursor. *)
ImplementsCursor ==
    [][ /\ Returns("go") => IF app.call.d = FWD THEN C!GoTop ELSE C!GoBottom
        /\ Returns("goto") =>
               C!GoTo(IF table[app.call.n] = NoRow THEN 0 ELSE Place(app.call.n))
        /\ Returns("skip") /\ app.call.n = 1 =>
               IF app.call.d = FWD THEN C!SkipForward \/ C!SkipAtEof
               ELSE C!SkipBackward \/ C!SkipFromEof ]_vars

(* SEEK stands on the first record, or the last, with the key in the order, and *)
(* on the phantom record when none has it.                                      *)
SeekFindsKey ==
    [][ Returns("seek") =>
          LET A == {r \in Shown : table[r] = app.call.n}
              sees == app'.sees
          IN IF A = {} THEN app.call.b \/ sees.eof
             ELSE /\ ~sees.eof /\ sees.recno \in A
                  /\ \A r \in A : ~Ahead(table, order, app.call.d, r, sees.recno) ]_vars
=============================================================================
