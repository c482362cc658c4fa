---------------------------- MODULE RecordLocks ----------------------------
(***************************************************************************)
(* Record locks, edits and transactions of SQLRDD++ on one table, by       *)
(* several processes, each with one connection and several work areas.     *)
(*                                                                         *)
(* The server keeps the rows, and for each connection the changes it has   *)
(* not committed and the rows it has locked until then.  The client keeps  *)
(* what it believes: aLocked in each work area, nTransacCount in the       *)
(* connection, the edit buffer and the cached rows.  Every operation       *)
(* begins with GOCOLD (the pending edit is written), runs to its end in    *)
(* one step, and waits while a row it writes is locked by another process. *)
(*                                                                         *)
(* A value is a counter that each REPLACE increments, so an edit that is   *)
(* overwritten by one that had not seen it can be told from the totals.    *)
(***************************************************************************)
EXTENDS Naturals, FiniteSets

CONSTANTS
    Proc,       \* application processes, one connection each
    Area,       \* work areas a process may open on the table
    Existing,   \* record numbers 1..Existing are in the table at the start
    MaxRecord,  \* bound: record numbers ever given
    MaxValue,   \* bound: values of a row
    MaxDepth,   \* bound: nested SR_BeginTransaction calls
    nAutoCommit,        \* SR_AutoCommit(): commit after so many statements, 0 is off
    SR_MAXIMUN_LOCKS,   \* inserted records an area lists as locked (100 in the code)
    Shared,     \* the table is opened shared, not exclusively
    Careful,    \* the application locks before it edits, see Settled below
    Failing,    \* the server may refuse a write (deadlock victim, constraint)
    ReadUncommitted \* isolation level of the connections: set for Sybase, MSSQL,
                \* Azure, MySQL and MariaDB; the others read what is committed

ASSUME BoundsAreNat ==
    /\ {Existing, MaxValue, MaxDepth, nAutoCommit, SR_MAXIMUN_LOCKS} \subseteq Nat
    /\ MaxRecord \in Nat /\ Existing <= MaxRecord /\ MaxValue > 0
ASSUME FlagsAreBoolean == {Shared, Careful, Failing, ReadUncommitted} \subseteq BOOLEAN

VARIABLES
    row,        \* committed value of each record, 0 when the table has no such row
    done,       \* REPLACEs that are committed, by record (history variable)
    nextRec,    \* next number of the sequence behind sr_recno
    conn,       \* connection of each process and its side of the server
    wa          \* work areas of each process

vars == <<row, done, nextRec, conn, wa>>

Rec == 1..MaxRecord
NoRow == [r \in Rec |-> 0]

(* cur = 0 is the record after the last; buf holds the edited value, typed     *)
(* the REPLACEs in it that are not written (history); page the cached rows.    *)
AreaState == [ open: BOOLEAN, cur: 0..MaxRecord, buf: 0..MaxValue, typed: 0..MaxValue,
               hot: BOOLEAN, isInsert: BOOLEAN, aLocked: SUBSET Rec,
               lTableLocked: BOOLEAN, page: [Rec -> 0..MaxValue] ]

Closed == [ open |-> FALSE, cur |-> 0, buf |-> 0, typed |-> 0, hot |-> FALSE,
            isInsert |-> FALSE, aLocked |-> {}, lTableLocked |-> FALSE, page |-> NoRow ]

(* change and edits are the uncommitted values and the REPLACEs in them, held  *)
(* the rows the transaction of the server has locked.                          *)
Connection == [ change: [Rec -> 0..MaxValue], edits: [Rec -> 0..MaxValue], held: SUBSET Rec,
                nTransacCount: 0..MaxDepth, nIteractions: 0..nAutoCommit ]

Connected == [ change |-> NoRow, edits |-> NoRow, held |-> {},
               nTransacCount |-> 0, nIteractions |-> 0 ]

Init ==
    /\ row = [r \in Rec |-> IF r <= Existing THEN 1 ELSE 0]
    /\ done = NoRow
    /\ nextRec = Existing + 1
    /\ conn = [p \in Proc |-> Connected]
    /\ wa = [p \in Proc |-> [a \in Area |-> Closed]]

-----------------------------------------------------------------------------
(* A call is a function of the state a process works on: the server's rows     *)
(* and its own connection and areas.                                           *)

Own(p) == [row |-> row, done |-> done, nextRec |-> nextRec, conn |-> conn[p], wa |-> wa[p]]

Becomes(p, s) ==
    /\ row' = s.row
    /\ done' = s.done
    /\ nextRec' = s.nextRec
    /\ conn' = [conn EXCEPT ![p] = s.conn]
    /\ wa' = [wa EXCEPT ![p] = s.wa]

(* The row that the writes and locking SELECTs of a connection work on, once   *)
(* no other has it locked: its own changes, else what is committed.            *)
Visible(s, r) == IF s.conn.change[r] # 0 THEN s.conn.change[r] ELSE s.row[r]
AllVisible(s) == [r \in Rec |-> Visible(s, r)]

(* What a plain SELECT of process p returns: under READ UNCOMMITTED also what  *)
(* another connection, the one that has the row locked, has not committed.     *)
Changer(p, r) == {q \in Proc \ {p} : conn[q].change[r] # 0}
Seen(p, s, r) ==
    IF ReadUncommitted /\ Changer(p, r) # {}
    THEN conn[CHOOSE q \in Changer(p, r) : TRUE].change[r] ELSE Visible(s, r)
AllSeen(p, s) == [r \in Rec |-> Seen(p, s, r)]

HeldByOther(p, r) == \E q \in Proc \ {p} : r \in conn[q].held

(* The history counters stop at MaxValue, one more than a row can show. *)
Counted(n, k) == IF n + k > MaxValue THEN MaxValue ELSE n + k

Commit(s) ==
    [ s EXCEPT !.row = AllVisible(s),
               !.done = [r \in Rec |-> Counted(@[r], s.conn.edits[r])],
               !.conn = [Connected EXCEPT !.nTransacCount = s.conn.nTransacCount] ]

RollBack(s) ==
    [s EXCEPT !.conn = [Connected EXCEPT !.nTransacCount = s.conn.nTransacCount]]

(* Mutant of Executed: the autocommit does not look at nTransacCount. *)
ExecutedAnyway(s) ==
    IF nAutoCommit = 0 THEN s
    ELSE IF s.conn.nIteractions + 1 >= nAutoCommit THEN Commit(s)
    ELSE [s EXCEPT !.conn.nIteractions = @ + 1]

(* The end of Execute after an INSERT or UPDATE.  The counter is compared      *)
(* with >= only, so it may stop at nAutoCommit.                                *)
Executed(s) ==
    IF nAutoCommit = 0 THEN s
    ELSE IF s.conn.nIteractions + 1 >= nAutoCommit /\ s.conn.nTransacCount = 0 THEN Commit(s)
    ELSE IF s.conn.nIteractions < nAutoCommit THEN [s EXCEPT !.conn.nIteractions = @ + 1]
    ELSE s

(* _SR_ScanExec with CheckCache: the other areas of the process forget their   *)
(* cached rows; one that stands on the written record takes its new buffer.    *)
CheckCache(s, a, r) ==
    LET synced(w) == [w EXCEPT !.page = NoRow, !.buf = IF w.cur = r THEN s.wa[a].buf ELSE @] IN
    [s EXCEPT !.wa = [x \in Area |-> IF x = a \/ ~s.wa[x].open THEN s.wa[x] ELSE synced(s.wa[x])]]

(* The statement of a write of record r: value v, with n REPLACEs since the    *)
(* last commit.                                                                *)
Sent(s, r, v, n) ==
    [s EXCEPT !.conn = [s.conn EXCEPT !.change[r] = v, !.edits[r] = n, !.held = @ \cup {r}]]

(* WriteBuffer of an existing record: UPDATE ... WHERE sr_recno = cur, which   *)
(* changes nothing, and is no error, when there is no such row.                *)
WriteUpdate(s, a) ==
    LET w == s.wa[a]
        r == w.cur
        sent == IF Visible(s, r) = 0 THEN s
                ELSE Sent(s, r, w.buf, Counted(s.conn.edits[r], w.typed))
        written == [w EXCEPT !.hot = FALSE, !.typed = 0, !.page[r] = w.buf]
    IN  CheckCache([Executed(sent) EXCEPT !.wa[a] = written], a, r)

(* WriteBuffer of an appended record: INSERT with the next number; the area    *)
(* then stands on the new record and lists it as locked.                       *)
WriteInsert(s, a) ==
    LET w == s.wa[a]
        r == s.nextRec
        sent == Sent([s EXCEPT !.nextRec = r + 1], r, w.buf, w.typed)
        written == [ w EXCEPT !.hot = FALSE, !.typed = 0, !.isInsert = FALSE,
                              !.cur = r, !.page = [NoRow EXCEPT ![r] = w.buf],
                              !.aLocked = IF Shared /\ Cardinality(@) < SR_MAXIMUN_LOCKS
                                          THEN @ \cup {r} ELSE @ ]
    IN  CheckCache([Executed(sent) EXCEPT !.wa[a] = written], a, r)

GoCold(s, a) ==
    IF ~s.wa[a].hot THEN s
    ELSE IF s.wa[a].isInsert THEN WriteInsert(s, a) ELSE WriteUpdate(s, a)

(* The write of GOCOLD need not wait for another process. *)
CanGoCold(p, a) ==
    LET w == wa[p][a] IN
    w.hot => IF w.isInsert THEN nextRec <= MaxRecord ELSE ~HeldByOther(p, w.cur)

(* The start of every operation on area a. *)
Enter(p, a) == wa[p][a].open /\ CanGoCold(p, a)

(* Mutant of lCanICommitNow: the locked records are not looked at. *)
CanCommitLocked(s, a) == s.conn.nTransacCount = 0 /\ Shared

(* Mutant of lCanICommitNow: the transaction counter is not looked at. *)
CanCommitInBlock(s, a) == Shared /\ s.wa[a].aLocked = {}

lCanICommitNow(s, a) == s.conn.nTransacCount = 0 /\ Shared /\ s.wa[a].aLocked = {}

Flushed(s, a) == LET c == GoCold(s, a) IN IF lCanICommitNow(c, a) THEN Commit(c) ELSE c

(* sqlUnLock after its GOCOLD; the record it is given is not looked at. *)
Released(s, a) ==
    LET w == s.wa[a]
        u == [s EXCEPT !.wa[a] = [w EXCEPT !.aLocked = {}, !.lTableLocked = FALSE]]
    IN  IF ~Shared \/ (w.aLocked = {} /\ ~w.lTableLocked) THEN s
        ELSE IF lCanICommitNow(u, a) THEN Commit(u) ELSE u

(* A careful application has nothing locked and nothing unwritten in area a.   *)
(* It edits what it has locked or appended, and settles an area before it      *)
(* moves its pointer, and all areas before it begins or ends a transaction.    *)
Settled(p, a) == wa[p][a].aLocked = {} /\ ~wa[p][a].hot /\ ~wa[p][a].isInsert
MayMove(p, a) == Careful => Settled(p, a)
MayTransact(p) == Careful => \A a \in Area : Settled(p, a)

-----------------------------------------------------------------------------
(* Opening, moving and closing *)

(* USE and the GO TOP of its first use. *)
Open(p, a) ==
    /\ ~wa[p][a].open
    /\ \E r \in Rec :
         /\ Seen(p, Own(p), r) # 0
         /\ \A x \in 1..(r - 1) : Seen(p, Own(p), x) = 0
         /\ Becomes(p, [ Own(p) EXCEPT !.wa[a] =
                [Closed EXCEPT !.open = TRUE, !.cur = r, !.buf = Seen(p, Own(p), r),
                               !.page = AllSeen(p, Own(p))] ])

(* Area a stands on record r of the rows it has cached. *)
StandOn(s, a, r, page) ==
    [s EXCEPT !.wa[a] = [@ EXCEPT !.cur = r, !.buf = page[r], !.page = page]]

(* sqlGoTo: one row is read, unless the area stands on it. *)
GoTo(p, a, r) ==
    LET c == GoCold(Own(p), a)
        w == c.wa[a]
    IN  /\ Enter(p, a)
        /\ MayMove(p, a)
        /\ r # w.cur \/ w.isInsert
        /\ Seen(p, c, r) # 0
        /\ Becomes(p, StandOn(c, a, r, [NoRow EXCEPT ![r] = Seen(p, c, r)]))

(* A GO TOP, GO BOTTOM, or a SKIP past the cached rows: a page of rows is      *)
(* read with the one the pointer moves to.                                     *)
ReadPage(p, a, r) ==
    LET c == GoCold(Own(p), a) IN
    /\ Enter(p, a)
    /\ MayMove(p, a)
    /\ Seen(p, c, r) # 0
    /\ Becomes(p, StandOn(c, a, r, AllSeen(p, c)))

(* A SKIP within the cached rows: setCurrentFromCache. *)
SkipCached(p, a, r) ==
    LET c == GoCold(Own(p), a)
        w == c.wa[a]
    IN  /\ Enter(p, a)
        /\ MayMove(p, a)
        /\ r # w.cur
        /\ w.page[r] # 0
        /\ Becomes(p, StandOn(c, a, r, w.page))

Close(p, a) ==
    /\ Enter(p, a)
    /\ Becomes(p, [Flushed(Own(p), a) EXCEPT !.wa[a] = Closed])

-----------------------------------------------------------------------------
(* Locks *)

(* Mutant of ForUpdate: the record is listed whatever the server answers. *)
ForUpdateUnasked(p, s, a, r) ==
    LET w == s.wa[a] IN
    IF Visible(s, r) = 0 THEN s
    ELSE [s EXCEPT !.wa[a] = [w EXCEPT !.aLocked = @ \cup {r},
                                       !.buf = IF w.cur = r THEN Visible(s, r) ELSE @]]

(* The locking SELECT of record r, on the backends for which sqlLock has one   *)
(* (it has none for FIREBR3, FIREBR4 and FIREBR5: there the record is listed   *)
(* and .T. answered without asking).  It is granted or, while another process  *)
(* has the record, refused after the wait.  UpdateCache copies the row into the buffer     *)
(* when the area stands on it; the cached page is left alone.                  *)
ForUpdate(p, s, a, r) ==
    LET w == s.wa[a] IN
    IF Visible(s, r) = 0 \/ HeldByOther(p, r) THEN s
    ELSE [ s EXCEPT !.conn.held = @ \cup {r},
                    !.wa[a] = [w EXCEPT !.aLocked = @ \cup {r},
                                        !.buf = IF w.cur = r THEN Visible(s, r) ELSE @] ]

(* Mutant of RLock: a record is locked on top of those already locked and the  *)
(* buffer is not read again.                                                   *)
RLockBlind(p, a) ==
    LET c == GoCold(Own(p), a)
        r == c.wa[a].cur
        u == IF c.wa[a].aLocked = {} THEN c ELSE Released(c, a)
        g == ForUpdate(p, u, a, r)
    IN  /\ Enter(p, a)
        /\ Shared
        /\ wa[p][a].cur # 0 /\ ~wa[p][a].isInsert
        /\ Becomes(p, [g EXCEPT !.wa[a].buf = c.wa[a].buf])

(* RLOCK of the current record (sqlLock, DBLM_EXCLUSIVE): at once when it is   *)
(* listed already; else what is listed is unlocked first.                      *)
RLock(p, a) ==
    LET c == GoCold(Own(p), a)
        r == c.wa[a].cur
        u == IF c.wa[a].aLocked = {} THEN c ELSE Released(c, a)
    IN  /\ Enter(p, a)
        /\ Shared
        /\ wa[p][a].cur # 0 /\ ~wa[p][a].isInsert
        /\ Becomes(p, IF r \in c.wa[a].aLocked THEN c
                      ELSE ForUpdate(p, u, a, r))

(* DBRLOCK(r) (DBLM_MULTIPLE): adds r to what is locked. *)
DbRLock(p, a, r) ==
    LET c == GoCold(Own(p), a) IN
    /\ Enter(p, a)
    /\ Shared
    /\ wa[p][a].cur # 0 /\ ~wa[p][a].isInsert
    /\ Becomes(p, IF r \in c.wa[a].aLocked THEN c ELSE ForUpdate(p, c, a, r))

(* FLOCK (DBLM_FILE): aLocked is emptied, nothing is committed, and LockTable  *)
(* is refused while an area of another process has the table (see TableLocks). *)
FLock(p, a) ==
    LET c == GoCold(Own(p), a)
        refused == \E q \in Proc \ {p} : \E x \in Area : wa[q][x].lTableLocked
    IN  /\ Enter(p, a)
        /\ Shared
        /\ wa[p][a].cur # 0 /\ ~wa[p][a].isInsert
        /\ Becomes(p, [c EXCEPT !.wa[a] = [c.wa[a] EXCEPT !.aLocked = {},
                                                           !.lTableLocked = @ \/ ~refused]])

(* Mutant of Unlock: the pending edit is not written first. *)
UnlockUnwritten(p, a) ==
    /\ Enter(p, a)
    /\ Becomes(p, Released(Own(p), a))

(* UNLOCK, of all records whatever record it names. *)
Unlock(p, a) ==
    /\ Enter(p, a)
    /\ Becomes(p, Released(GoCold(Own(p), a), a))

-----------------------------------------------------------------------------
(* Edits *)

Replace(p, a) ==
    LET w == wa[p][a] IN
    /\ w.open
    /\ w.cur # 0 \/ w.isInsert
    /\ Careful => w.isInsert \/ w.cur \in w.aLocked
    /\ w.buf < MaxValue
    /\ Becomes(p, [Own(p) EXCEPT !.wa[a] = [w EXCEPT !.buf = @ + 1, !.hot = TRUE,
                                                      !.typed = Counted(@, 1)]])

(* APPEND: aLocked is emptied and a pending edit written; the INSERT of the    *)
(* new record waits for the next GOCOLD.                                       *)
Append(p, a) ==
    LET c == GoCold([Own(p) EXCEPT !.wa[a].aLocked = {}], a) IN
    /\ Enter(p, a)
    /\ nextRec <= MaxRecord
    /\ Becomes(p, [c EXCEPT !.wa[a] = [@ EXCEPT !.hot = TRUE, !.isInsert = TRUE,
                                                 !.cur = 0, !.buf = 1, !.typed = 0]])

(* COMMIT of xBase: dbCommit, sqlFlush. *)
Flush(p, a) ==
    /\ Enter(p, a)
    /\ Becomes(p, Flushed(Own(p), a))

(* The write of GOCOLD is refused by the server: RuntimeErr rolls back and     *)
(* raises, the call that wrote is abandoned.  (APPEND has emptied aLocked by   *)
(* then.)  The buffer keeps the edit but is no longer HOT.                     *)
WriteFails(p, a) ==
    /\ Failing
    /\ wa[p][a].open /\ wa[p][a].hot
    /\ \E locked \in {wa[p][a].aLocked, {}} :
         Becomes(p, RollBack([ Own(p) EXCEPT !.wa[a] = [@ EXCEPT !.hot = FALSE,
                       !.isInsert = FALSE, !.typed = 0, !.aLocked = locked] ]))

-----------------------------------------------------------------------------
(* Transactions *)

SR_BeginTransaction(p) ==
    LET s == Own(p)
        c == IF s.conn.nTransacCount = 0 THEN Commit(s) ELSE s
    IN  /\ MayTransact(p)
        /\ s.conn.nTransacCount < MaxDepth
        /\ Becomes(p, [c EXCEPT !.conn.nTransacCount = @ + 1])

(* Mutant of SR_CommitTransaction: the counter is not tested. *)
CommitUncounted(p) ==
    /\ MayTransact(p)
    /\ Becomes(p, [Commit(Own(p)) EXCEPT !.conn.nTransacCount = @ - 1])

SR_CommitTransaction(p) ==
    LET s == Own(p) IN
    /\ MayTransact(p)
    /\ s.conn.nTransacCount > 0
    /\ Becomes(p, [ IF s.conn.nTransacCount = 1 THEN Commit(s) ELSE s
                    EXCEPT !.conn.nTransacCount = @ - 1 ])

SR_EndTransaction(p) ==
    /\ MayTransact(p)
    /\ conn[p].nTransacCount > 0
    /\ Becomes(p, [Commit(Own(p)) EXCEPT !.conn.nTransacCount = 0])

(* Mutant of Refreshed: the cached rows stay. *)
RefreshedBuffer(w) ==
    IF ~w.open THEN w ELSE [w EXCEPT !.hot = FALSE, !.typed = 0, !.cur = 0, !.buf = 0]

(* Refresh(.F.): the buffer is emptied, the pointer goes past the last record, *)
(* the cached rows are forgotten.  ISINSERT and aLocked stay as they are.      *)
Refreshed(w) ==
    IF ~w.open THEN w
    ELSE [w EXCEPT !.hot = FALSE, !.typed = 0, !.cur = 0, !.buf = 0, !.page = NoRow]

SR_RollBackTransaction(p) ==
    LET s == Own(p) IN
    /\ MayTransact(p)
    /\ s.conn.nTransacCount > 0
    /\ Becomes(p, RollBack([ s EXCEPT !.conn.nTransacCount = 0,
                                      !.wa = [a \in Area |-> Refreshed(@[a])] ]))

(* SR_EndConnection of a process that has closed its areas: the drivers' End   *)
(* commits.                                                                    *)
EndConnection(p) ==
    /\ \A a \in Area : ~wa[p][a].open
    /\ conn[p] # Connected
    /\ Becomes(p, [Commit(Own(p)) EXCEPT !.conn = Connected])

(* The process dies; the server rolls its transaction back. *)
Crash(p) ==
    /\ \E a \in Area : wa[p][a].open
    /\ Becomes(p, [ RollBack(Own(p)) EXCEPT !.conn = Connected,
                                            !.wa = [a \in Area |-> Closed] ])

Next ==
    \E p \in Proc :
      \/ \E a \in Area :
           \/ Open(p, a) \/ Close(p, a)
           \/ RLock(p, a) \/ FLock(p, a) \/ Unlock(p, a)
           \/ Replace(p, a) \/ Append(p, a) \/ Flush(p, a) \/ WriteFails(p, a)
           \/ \E r \in Rec : GoTo(p, a, r) \/ ReadPage(p, a, r) \/ SkipCached(p, a, r) \/ DbRLock(p, a, r)
      \/ SR_BeginTransaction(p) \/ SR_CommitTransaction(p) \/ SR_EndTransaction(p)
      \/ SR_RollBackTransaction(p)
      \/ EndConnection(p) \/ Crash(p)

Spec == Init /\ [][Next]_vars

-----------------------------------------------------------------------------
(* Properties *)

TypeOK ==
    /\ row \in [Rec -> 0..MaxValue]
    /\ done \in [Rec -> 0..MaxValue]
    /\ nextRec \in Existing + 1 .. MaxRecord + 1
    /\ conn \in [Proc -> Connection]
    /\ wa \in [Proc -> [Area -> AreaState]]

(* What an area lists as locked (lRet of RLOCK was .T., or it inserted the     *)
(* record) is locked in the server for its process: aLocked, which the next    *)
(* RLOCK trusts without asking, never outlives the row locks.                  *)
ListedIsHeld ==
    \A p \in Proc, a \in Area : wa[p][a].aLocked \subseteq conn[p].held

(* A record is locked by one process at a time: RLOCK and DBRLOCK answer .T. to  *)
(* two of them only if a commit of one released what it still lists.           *)
LockedByOne ==
    \A p, q \in Proc : p # q =>
        \A a, b \in Area : wa[p][a].aLocked \cap wa[q][b].aLocked = {}

(* An area that stands on a record it has locked shows what the server has,    *)
(* whatever the cached page it came from: REPLACE starts from the last value.  *)
LockedIsFresh ==
    \A p \in Proc, a \in Area :
        LET w == wa[p][a] IN
        w.cur \in w.aLocked /\ ~w.hot => w.buf = Visible(Own(p), w.cur)

(* No committed REPLACE is overwritten by one that had not seen it: the value  *)
(* of a row is the number of REPLACEs that were committed to it.               *)
NoLostUpdate == \A r \in Rec : row[r] # 0 => row[r] = 1 + done[r]

(* Where connections read what is committed (not ReadUncommitted), buffers and *)
(* cached pages show only values the server has or had: none of a transaction  *)
(* that was rolled back, by any process.                                       *)
ShownWasStored ==
    \A p \in Proc, a \in Area :
        LET w == wa[p][a] IN
        /\ \A r \in Rec : w.page[r] <= Visible(Own(p), r)
        /\ w.cur # 0 /\ ~w.hot => w.buf <= Visible(Own(p), w.cur)

(* Inside a transaction block nothing is committed: rows change for the others *)
(* when a process is outside its block or ends it, and then all its changes    *)
(* at once (SR_AutoCommit works "if NOT under transaction").                   *)
CommitsOutside ==
    [][row' # row =>
         \E p \in Proc :
            /\ conn[p].nTransacCount = 0 \/ conn[p]'.nTransacCount = 0
            /\ conn[p]'.change = NoRow]_vars

(* Changed and locked rows stay locked from one call to the next of the same   *)
(* block (manual, "Transactional Control and Locking").                        *)
LinesStayLocked ==
    [][\A p \in Proc :
         conn[p].nTransacCount > 0 /\ conn[p]'.nTransacCount > 0
            => conn[p].held \subseteq conn[p]'.held]_vars

(* "Record should remain Locked" (WriteBuffer, after an INSERT): a record that *)
(* was inserted and is listed as locked is locked in the server.               *)
InsertedStaysLocked ==
    \A p \in Proc, a \in Area :
        \A r \in wa[p][a].aLocked : r > Existing => r \in conn[p].held
=============================================================================
