----------------------------- MODULE PageCache -----------------------------
(***************************************************************************)
(* Navigation of an ISAM work area of SQLRDD++ over its cache of rows.     *)
(*                                                                         *)
(* The rows of a table come in pages, one SELECT each, and are kept in a   *)
(* ring of slots (aCache).  A window of the ring, from NCACHEBEGIN to      *)
(* NCACHEEND and possibly around its end, holds consecutive rows; SKIP     *)
(* moves in the window and reads another page at its edge, which pushes    *)
(* the opposite edge along once the ring is full.  BOF_AT and EOF_AT       *)
(* remember the first and the last record so that SKIP answers BOF() and   *)
(* EOF(), and GO TOP and GO BOTTOM find them, without asking the server.   *)
(*                                                                         *)
(* One table in the order of its record numbers, SET DELETED OFF, no       *)
(* filter.  The number of rows of a page (nCurrentFetch) grows with the    *)
(* SKIPs counted since the last GO; here it is any of PageSizes.           *)
(***************************************************************************)
EXTENDS Integers, FiniteSets, Sequences

CONSTANTS
    Ring,        \* slots of aCache, SR_CACHE_PAGE_SIZE * 3 (600 in the code)
    PageSizes,   \* values of nCurrentFetch when SKIP reads a page
    FetchSize,   \* SR_FetchSize(), nCurrentFetch of GO TOP and GO BOTTOM
    Sizes,       \* numbers of records the table may have at the start
    MaxRec,      \* bound: record numbers ever given
    Backward,    \* bound: SKIP -1 is called, not only SKIP
    MaxDel,      \* bound: rows deleted; DELETE of a row is called until so many are
    Marks,       \* bound: the record numbers that DELETE marks
    GoTos,       \* bound: the record numbers GO TO is called with
    UseDeleteds, \* SR_UseDeleteds(): DELETE only marks, where there is a column
    hnDeleted,   \* the table has the column SR_DELETED
    Siblings,    \* other work areas of the process write to the table
    Nil          \* a slot whose row was deleted

ASSUME RingAssumption ==
    /\ Ring \in Nat /\ {MaxRec, MaxDel} \subseteq Nat /\ Sizes \subseteq 0..MaxRec
    /\ GoTos \subseteq 0..MaxRec /\ Marks \subseteq 1..MaxRec
    /\ PageSizes \cup {FetchSize} \subseteq 1..(Ring - 4)
    /\ {UseDeleteds, hnDeleted, Siblings, Backward} \subseteq BOOLEAN
    /\ Nil \notin 0..(MaxRec + 1)

VARIABLES
    table,  \* the rows of the server
    marked, \* those marked as deleted, in the server and in the cache
    last,   \* the record number given last, RCOUNT of the only writer
    wa      \* the work area

vars == <<table, marked, last, wa>>

Rec == 1..MaxRec
Slot == 1..Ring

FWD == 1
BWD == -1

(* 0 is the record number of a slot that was never filled (an array of NIL) *)
(* and the unknown BOF_AT or EOF_AT; MaxRec + 1 that of a phantom record.   *)
Area == [ aCache: [Slot -> 0..MaxRec \cup {Nil}],
          pos: 0..Ring,                    \* NPOSCACHE
          begin: 0..Ring, end: 0..Ring,    \* NCACHEBEGIN, NCACHEEND
          bofAt: 0..MaxRec + 1, eofAt: 0..MaxRec + 1,
          recno: 0..MaxRec + 1,
          bof: BOOLEAN, eof: BOOLEAN,      \* of aInfo
          fBof: BOOLEAN, fEof: BOOLEAN,    \* of the AREA structure
          deleted: BOOLEAN, wasdel: BOOLEAN,
          hot: BOOLEAN, isInsert: BOOLEAN ]

(* Mutant of Fix: the slot after the last one is not taken around. *)
FixLate(s) == IF s < 1 THEN s + Ring ELSE IF s > Ring + 1 THEN s - Ring ELSE s

(* fixCachePointer *)
Fix(s) == IF s < 1 THEN s + Ring ELSE IF s > Ring THEN s - Ring ELSE s

(* isCachePointerInRange *)
InRange(a, s) ==
    IF a.begin <= a.end THEN s \in a.begin..a.end ELSE s >= a.begin \/ s <= a.end

(* The distance of slot s from slot o, walking in direction dir. *)
Distance(o, s, dir) == (dir * (s - o)) % Ring

-----------------------------------------------------------------------------
(* The record buffer *)

(* GetBuffer(.T.) *)
CleanBuffer(a, n) == [a EXCEPT !.recno = n + 1, !.eof = TRUE, !.deleted = FALSE]

(* setCurrentFromCache and GetBuffer: the record of a slot becomes current. *)
SetCurrent(a, s) == [a EXCEPT !.pos = s, !.recno = a.aCache[s], !.deleted = FALSE]

(* The flags of the AREA structure are read from aInfo. *)
SyncFlags(a) == [a EXCEPT !.fBof = a.bof, !.fEof = a.eof]

-----------------------------------------------------------------------------
(* Reading pages *)

(* The first k rows of S from record r on, in the direction of the page      *)
(* (WhereMajor or WhereMinor, OrderBy and the limit of the SELECT).          *)
RowsFrom(S, r, dir, k) ==
    LET A == {x \in S : dir * x >= dir * r}
        Rank(x) == Cardinality({y \in A : dir * y <= dir * x})
    IN [i \in 1..IF Cardinality(A) < k THEN Cardinality(A) ELSE k |->
           CHOOSE x \in A : Rank(x) = i]

(* The window with the edge in direction dir moved f slots past the current  *)
(* one, and the other edge, if pushed, to two slots further.                  *)
Moved(a, dir, f, pushed) ==
    LET reach  == a.pos + dir * f
        single == a.begin = a.end
        first  == IF dir = FWD THEN 1 ELSE Ring
        forget == ~single /\ (pushed \/ reach \notin Slot)
        Other(edge) == IF pushed THEN Fix(reach + 2 * dir)
                       ELSE IF edge = 0 THEN first ELSE edge
    IN [a EXCEPT !.begin = IF dir = FWD THEN Other(a.begin) ELSE Fix(reach),
                 !.end   = IF dir = FWD THEN Fix(reach) ELSE Other(a.end),
                 !.eofAt = IF single \/ forget THEN 0 ELSE @,
                 !.bofAt = IF forget THEN 0 ELSE @,
                 !.pos   = IF @ = 0 THEN first ELSE @]

(* Mutant of Window: the opposite edge stays where it is. *)
WindowOverrun(a, dir, f) == Moved(a, dir, f, FALSE)

(* The window after a page of f rows is added in direction dir: the edge it   *)
(* grows by moves, the opposite one is pushed when they meet, and the known   *)
(* ends are forgotten when the window goes around the ring.                   *)
Window(a, dir, f) ==
    LET reach == a.pos + dir * f
        edge  == IF a.begin < a.end THEN Fix(reach) ELSE reach
        meets == IF dir = FWD THEN edge >= a.begin - 2 ELSE edge <= a.end + 2
    IN Moved(a, dir, f, a.begin # a.end /\ (a.begin < a.end => reach \notin Slot) /\ meets)

(* The slots from `from` on hold the rows of a page.  The first row is stored *)
(* at slot here, which is another one when the window was empty.              *)
Filled(cache, from, here, dir, page) ==
    [s \in Slot |->
        LET i == Distance(from, s, dir) + 1 IN
        IF i \in 2..Len(page) THEN page[i] ELSE IF s = here THEN page[1] ELSE cache[s]]

(* A page with fewer rows than were asked for ends with the last the table has. *)
EndKnown(a, dir, r, s) ==
    IF dir = FWD THEN [a EXCEPT !.eofAt = r, !.end = s] ELSE [a EXCEPT !.bofAt = r, !.begin = s]

Arrived(a) == IF a.aCache[a.pos] = Nil THEN a ELSE SetCurrent(a, a.pos)

StoreFrom(w, from, dir, f, here, page) ==
    LET b == [w EXCEPT !.aCache = Filled(@, from, here, dir, page)] IN
    IF Len(page) > f THEN Arrived(b)
    ELSE Arrived(EndKnown(b, dir, page[Len(page)], Fix(from + dir * (Len(page) - 1))))

StoreIn(w, empty, dir, f, here, page) ==
    StoreFrom(w, IF empty THEN w.pos ELSE Fix(w.pos + dir), dir, f, here, page)

(* The rows of a page are stored one after the other in the window they make. *)
Store(a, dir, f, here, page) == StoreIn(Window(a, dir, f), a.end = 0, dir, f, here, page)

PageRead(a, n, dir, f, kept, rows) ==
    IF Len(rows) > (IF kept THEN 0 ELSE 1) THEN
        Store(a, dir, f, Fix(a.pos + dir), IF kept THEN rows ELSE Tail(rows))
    ELSE IF ~kept /\ rows = <<>> THEN a
    ELSE IF dir = FWD THEN CleanBuffer([a EXCEPT !.eofAt = a.recno], n)
    ELSE [a EXCEPT !.bofAt = a.recno]

(* ReadPage: a page of rows from the current record on, whose first row is  *)
(* the current record and thrown away, unless it has just been deleted.     *)
ReadPage(a, T, n, dir, f) ==
    LET kept == a.wasdel /\ ~UseDeleteds IN
    PageRead(a, n, dir, f, kept, RowsFrom(T, a.recno, dir, IF kept THEN f + 1 ELSE f + 2))

(* The slot where a search in the cache begins, and the first of hits it meets. *)
Start(a, dir, past) == IF past THEN Fix(a.pos + dir) ELSE a.pos

Nearest(hits, from, dir) ==
    IF hits = {} THEN 0
    ELSE CHOOSE s \in hits : \A t \in hits : Distance(from, s, dir) <= Distance(from, t, dir)

(* Mutant of Search: rows that are no longer in the window are found too. *)
SearchAnywhere(a, dir, past) ==
    IF a.pos = 0 THEN 0
    ELSE Nearest({s \in Slot : a.aCache[s] \notin {Nil, 0}}, Start(a, dir, past), dir)

(* The slots of the window that are reached from slot from without leaving it. *)
Ahead(a, from, dir) ==
    {s \in Slot : \A d \in 0..Distance(from, s, dir) : InRange(a, Fix(from + dir * d))}

(* searchCacheFWD and searchCacheBWD: the next slot with a row in the window, *)
(* from the current slot on if past is FALSE; 0 if there is none.             *)
Search(a, dir, past) ==
    IF a.pos = 0 THEN 0
    ELSE LET from == Start(a, dir, past)
         IN Nearest({s \in Ahead(a, from, dir) : a.aCache[s] # Nil}, from, dir)

-----------------------------------------------------------------------------
(* GO TOP, GO BOTTOM, GO TO *)

EmptyWindow(a) == [a EXCEPT !.pos = 0, !.begin = 0, !.end = 0]

NoRecord(a, n, dir) ==
    LET b == IF dir = FWD THEN CleanBuffer([a EXCEPT !.eofAt = a.recno], n)
             ELSE [a EXCEPT !.bofAt = a.recno]
    IN [b EXCEPT !.bof = TRUE, !.eof = TRUE]

AtEnd(a, dir) ==
    IF dir = FWD THEN [a EXCEPT !.bofAt = a.recno, !.bof = FALSE, !.eof = FALSE]
    ELSE [a EXCEPT !.eofAt = a.recno, !.bof = FALSE, !.eof = FALSE]

(* sqlGoTop and sqlGoBottom of the work area object, and FirstFetch. *)
GoEnd(a, T, n, dir) ==
    LET page == RowsFrom(T, IF dir = FWD THEN 0 ELSE MaxRec + 1, dir, FetchSize + 1) IN
    IF page = <<>> THEN NoRecord(EmptyWindow(a), n, dir)
    ELSE AtEnd(Store(EmptyWindow(a), dir, FetchSize, IF dir = FWD THEN 1 ELSE Ring, page), dir)

(* sqlGoTo of the work area object. *)
GoRecord(a, T, n, r) ==
    IF r = a.recno /\ ~a.isInsert /\ ~(a.bof /\ a.eof) THEN [a EXCEPT !.bof = FALSE]
    ELSE IF r = 0 THEN [CleanBuffer(a, n) EXCEPT !.bof = TRUE]
    ELSE IF a.begin > 0 /\ a.bofAt > 0 /\ a.aCache[a.begin] = r THEN
        [SetCurrent(a, a.begin) EXCEPT !.bof = FALSE, !.eof = FALSE]
    ELSE IF r \in T THEN
        [a EXCEPT !.pos = 1, !.begin = 1, !.end = 1, !.aCache[1] = r,
                  !.recno = r, !.deleted = FALSE, !.bof = FALSE, !.eof = FALSE]
    ELSE [CleanBuffer(EmptyWindow(a), n) EXCEPT !.bof = TRUE]

(* sqlGoTop and sqlGoBottom of the RDD, which go to the remembered end. *)
GoTopOf(a, T, n) ==
    LET b == [a EXCEPT !.wasdel = FALSE] IN
    SyncFlags(IF a.bofAt # 0 THEN GoRecord(b, T, n, a.bofAt) ELSE GoEnd(b, T, n, FWD))

GoBottomOf(a, T, n) ==
    LET b == [a EXCEPT !.wasdel = FALSE] IN
    SyncFlags(IF a.eofAt # 0 THEN GoRecord(b, T, n, a.eofAt) ELSE GoEnd(b, T, n, BWD))

-----------------------------------------------------------------------------
(* SKIP *)

RaiseEof(a, n) == CleanBuffer([a EXCEPT !.fEof = TRUE], n)
RaiseBof(a) == [a EXCEPT !.bof = TRUE, !.fBof = TRUE]

(* A skip looks in the window, reads a page if no row is ahead, and looks     *)
(* again in it (the operators ...InPage).                                     *)
ForwardTo(a, s) == [SetCurrent(a, s) EXCEPT !.fBof = FALSE]

ForwardInPage(a, n, past) ==
    LET s == Search(a, FWD, past) IN IF s # 0 THEN ForwardTo(a, s) ELSE RaiseEof(a, n)

(* sqlSkipRaw(1) *)
SkipRawForward(a, T, n, f) ==
    LET s == Search(a, FWD, TRUE)
    IN IF a.eof THEN a
       ELSE IF a.eofAt = a.recno THEN RaiseEof(a, n)
       ELSE IF s # 0 THEN ForwardTo(a, s)
       ELSE ForwardInPage(ReadPage(a, T, n, FWD, f), n, a.pos # 0)

(* When nothing is before a deleted record the one after it is taken, at BOF(). *)
NextInPage(a, n) ==
    LET s == Search(a, FWD, TRUE)
    IN IF s # 0 THEN RaiseBof(SetCurrent(a, s)) ELSE RaiseEof(RaiseBof(a), n)

NextOf(a, T, n, f) ==
    LET s == Search(a, FWD, TRUE)
    IN IF s # 0 THEN RaiseBof(SetCurrent(a, s)) ELSE NextInPage(ReadPage(a, T, n, FWD, f), n)

DeletedInPage(a, T, n, f) ==
    LET s == Search(a, BWD, TRUE) IN IF s # 0 THEN SetCurrent(a, s) ELSE NextOf(a, T, n, f)

(* sqlSkipRaw(-1) on a record whose slot was emptied by DELETE. *)
SkipRawDeleted(a, T, n, f) ==
    LET s == Search(a, BWD, TRUE)
    IN IF a.bof THEN NextOf(a, T, n, f)
       ELSE IF a.eof THEN GoBottomOf(a, T, n)
       ELSE IF s # 0 THEN SetCurrent(a, s)
       ELSE DeletedInPage(ReadPage(a, T, n, BWD, f), T, n, f)

BackwardInPage(a, past) ==
    LET s == Search(a, BWD, past) IN IF s # 0 THEN SetCurrent(a, s) ELSE RaiseBof(a)

(* sqlSkipRaw(-1) on any other record. *)
SkipRawBackward(a, T, n, f) ==
    LET s == Search(a, BWD, TRUE)
    IN IF a.bof THEN a
       ELSE IF a.bofAt = a.recno THEN RaiseBof(a)
       ELSE IF a.eof /\ a.eofAt = a.recno THEN
           SyncFlags(GoRecord([a EXCEPT !.wasdel = FALSE], T, n, a.eofAt))
       ELSE IF a.eof THEN GoBottomOf(a, T, n)
       ELSE IF s # 0 THEN SetCurrent(a, s)
       ELSE BackwardInPage(ReadPage(a, T, n, BWD, f), a.pos # 0)

SkipRaw(a, T, n, dir, f) ==
    IF a.bof /\ a.eof THEN
        IF dir = BWD THEN GoBottomOf(a, T, n) ELSE SyncFlags(a)
    ELSE IF dir = FWD THEN SkipRawForward(a, T, n, f)
    ELSE IF a.pos # 0 /\ a.aCache[a.pos] = Nil THEN SkipRawDeleted(a, T, n, f)
    ELSE SkipRawBackward(a, T, n, f)

(* The generic SKIP of Harbour clears the flag of the other end, and sqlSkip *)
(* copies the flags of the AREA structure to aInfo.                          *)
Concluded(a, dir) ==
    LET c == IF dir = FWD THEN [a EXCEPT !.fBof = FALSE] ELSE [a EXCEPT !.fEof = FALSE]
    IN [c EXCEPT !.bof = c.fBof, !.eof = c.fEof, !.wasdel = FALSE]

(* Mutant of SkipOf: wasdel is reset before the row after the deleted one is read. *)
SkipOfForgetful(a, T, n, dir, f) ==
    Concluded(SkipRaw([a EXCEPT !.wasdel = FALSE], T, n, dir, f), dir)

(* sqlSkip *)
SkipOf(a, T, n, dir, f) == Concluded(SkipRaw(a, T, n, dir, f), dir)

-----------------------------------------------------------------------------
(* Writing *)

Pending == wa.hot /\ wa.isInsert

(* The table and RCOUNT once the pending APPEND has been inserted. *)
Table == IF Pending THEN table \cup {last + 1} ELSE table
RCount == IF Pending THEN last + 1 ELSE last

(* WriteBuffer forgets the ends; an INSERT also leaves a window of one row. *)
Written ==
    LET single == Pending \/ wa.end = 0
        b == [wa EXCEPT !.hot = FALSE, !.isInsert = FALSE, !.bofAt = 0, !.eofAt = 0,
                        !.bof = FALSE, !.eof = FALSE,
                        !.begin = IF single THEN 1 ELSE @, !.end = IF single THEN 1 ELSE @,
                        !.pos = IF single THEN 1 ELSE @]
    IN [b EXCEPT !.aCache[b.pos] = b.recno]

(* Mutant of Cold: WriteBuffer leaves BOF_AT and EOF_AT as they are. *)
ColdEndsKept ==
    IF wa.hot /\ ~wa.deleted THEN [Written EXCEPT !.bofAt = wa.bofAt, !.eofAt = wa.eofAt]
    ELSE wa

(* The work area once its pending edit has been written (WriteBuffer). *)
Cold == IF wa.hot /\ ~wa.deleted THEN Written ELSE wa

(* An operation writes the pending edit and leaves the area as a. *)
Becomes(a) == table' = Table /\ last' = RCount /\ wa' = a /\ UNCHANGED marked

-----------------------------------------------------------------------------
(* The operations *)

Opened ==
    [ aCache |-> [s \in Slot |-> 0], pos |-> 0, begin |-> 0, end |-> 0,
      bofAt |-> 0, eofAt |-> 0, recno |-> 0,
      bof |-> TRUE, eof |-> TRUE, fBof |-> TRUE, fEof |-> TRUE,
      deleted |-> FALSE, wasdel |-> FALSE, hot |-> FALSE, isInsert |-> FALSE ]

(* The first operation on an open area begins with a GO TOP (firstinteract). *)
Init ==
    \E n \in Sizes :
        /\ table = 1..n
        /\ marked = {}
        /\ last = n
        /\ wa = GoTopOf(Opened, 1..n, n)

GoTop == Becomes(GoTopOf(Cold, Table, RCount))

GoBottom == Becomes(GoBottomOf(Cold, Table, RCount))

GoTo(r) == Becomes(SyncFlags(GoRecord([Cold EXCEPT !.wasdel = FALSE], Table, RCount, r)))

Skip(dir, f) == Becomes(SkipOf(Cold, Table, RCount, dir, f))

(* sqlAppend: the phantom record becomes the buffer of a pending INSERT. *)
AppendRecord ==
    /\ RCount < MaxRec
    /\ Becomes(CleanBuffer(
           [SyncFlags(Cold) EXCEPT !.wasdel = FALSE, !.hot = TRUE, !.isInsert = TRUE, !.bof = TRUE],
           RCount))

(* sqlPutValue.  Edits of a record that is deleted are left out. *)
Replace ==
    /\ ~wa.eof /\ ~wa.hot
    /\ wa.recno \in table \ marked
    /\ wa' = [wa EXCEPT !.hot = TRUE]
    /\ UNCHANGED <<table, marked, last>>

(* sqlDeleteRec that marks the record, whose row stays.  Left out at EOF(), where   *)
(* it would set DELETED() for the phantom record and for the row of the slot.       *)
DeleteMarked ==
    /\ UseDeleteds /\ hnDeleted
    /\ ~Cold.eof /\ Cold.recno \in Marks
    /\ marked' = marked \cup ({Cold.recno} \cap Table)
    /\ table' = Table /\ last' = RCount
    /\ wa' = [Cold EXCEPT !.wasdel = TRUE]

(* sqlRecall *)
Recall ==
    /\ UseDeleteds /\ hnDeleted
    /\ ~Cold.eof
    /\ marked' = marked \ {Cold.recno}
    /\ table' = Table /\ last' = RCount /\ wa' = Cold

(* sqlDeleteRec that deletes the row.  It stays current, out of the window.     *)
(* At EOF() the statement deletes nothing, but where the driver answers success *)
(* the slot the area last stood on, whose row stays, is emptied all the same.   *)
DeleteRow ==
    /\ ~(UseDeleteds /\ hnDeleted)
    /\ ~Cold.deleted
    /\ Cardinality(Table) > RCount - MaxDel
    /\ table' = Table \ {Cold.recno}
    /\ last' = RCount /\ UNCHANGED marked
    /\ wa' = [Cold EXCEPT !.deleted = TRUE, !.wasdel = TRUE,
                  !.eofAt = IF Cold.recno \in {Cold.eofAt, Cold.bofAt} THEN 0 ELSE @,
                  !.aCache = [s \in Slot |-> IF s = Cold.pos THEN Nil ELSE @[s]]]

(* Another area of the process has written a row of the table (CheckCache). *)
SiblingWrites ==
    /\ Siblings
    /\ wa' = [EmptyWindow(wa) EXCEPT !.bofAt = 0, !.eofAt = 0]
    /\ UNCHANGED <<table, marked, last>>

Next ==
    \/ GoTop \/ GoBottom \/ AppendRecord \/ Replace
    \/ DeleteMarked \/ Recall \/ DeleteRow \/ SiblingWrites
    \/ \E r \in GoTos : GoTo(r)
    \/ \E f \in PageSizes : Skip(FWD, f) \/ (Backward /\ Skip(BWD, f))

Spec == Init /\ [][Next]_vars

-----------------------------------------------------------------------------
(* What must hold *)

TypeOK == table \in SUBSET Rec /\ marked \subseteq table /\ last \in 0..MaxRec /\ wa \in Area

(* The slots of the window, in order. *)
Length == IF wa.end = 0 THEN 0 ELSE Distance(wa.begin, wa.end, FWD) + 1
InWindow(k) == wa.aCache[Fix(wa.begin + k - 1)]

(* The window holds rows of the table in their order, and all the rows between *)
(* its first and its last: what SKIP passes in the cache is what it would have *)
(* passed on the server.                                                       *)
WindowHasAllRows ==
    \A j, k \in 1..Length :
        j < k /\ InWindow(j) # Nil /\ InWindow(k) # Nil =>
            /\ InWindow(j) < InWindow(k)
            /\ \A r \in table : InWindow(j) < r /\ r < InWindow(k) =>
                   \E i \in j..k : InWindow(i) = r

(* A record remembered as the first or the last one is it, while it exists. *)
EndsAreEnds ==
    /\ wa.bofAt \in table => \A r \in table : wa.bofAt <= r
    /\ wa.eofAt \in table => \A r \in table : wa.eofAt >= r

(* SKIP moves to the neighbour of the current record, deleted or not, and to    *)
(* EOF() and BOF() only when there is none.                                    *)
SkipsToNeighbour ==
    [][\A dir \in {FWD, BWD}, f \in PageSizes :
         Skip(dir, f) /\ ~Cold.eof =>
            LET r == Cold.recno
                Beyond == {x \in Table : dir * x > dir * r}
            IN IF Beyond # {} THEN
                  /\ wa'.recno \in Beyond /\ ~wa'.eof
                  /\ \A x \in Beyond : dir * wa'.recno <= dir * x
               ELSE IF dir = FWD THEN wa'.eof ELSE wa'.bof]_vars

(* SKIP right after DELETE of the row moves to the row after it, and to EOF()  *)
(* only if there is none.                                                      *)
SkipLeavesDeleted ==
    [][\A f \in PageSizes :
         Skip(FWD, f) /\ Cold.wasdel /\ Cold.deleted =>
            LET Beyond == {x \in table : x > Cold.recno}
            IN IF Beyond = {} THEN wa'.eof
               ELSE wa'.recno \in Beyond /\ ~wa'.eof /\ \A x \in Beyond : wa'.recno <= x]_vars

(* The cursor an application sees: a pending APPEND is a record to it already. *)
OnRecord == Pending \/ ~wa.eof

C == INSTANCE Cursor WITH
        NoRec <- 0, table <- Table,
        recno <- IF OnRecord THEN wa.recno ELSE 0,
        eof <- ~OnRecord

(* The area with its cache moves as a cursor on the table itself would: each    *)
(* operation does what the cursor's does, and the others leave it where it is.  *)
(* (C!Spec would not do: a SKIP to the wrong record is a GO TO of the cursor.)  *)
(* A SKIP -1 while BOF() is .T. is not one of them: it never moves.            *)
ImplementsCursor ==
    /\ C!Init
    /\ [][ /\ GoTop => C!GoTop
           /\ GoBottom => C!GoBottom
           /\ \A r \in GoTos : GoTo(r) => C!GoTo(r)
           /\ \A f \in PageSizes :
                 /\ Skip(FWD, f) => C!SkipForward \/ C!SkipAtEof
                 /\ Skip(BWD, f) /\ (Cold.bof => Cold.eof) => C!SkipBackward \/ C!SkipFromEof
           /\ AppendRecord => C!Append(RCount + 1)
           /\ Replace \/ DeleteMarked \/ Recall => UNCHANGED C!vars ]_vars
=============================================================================
