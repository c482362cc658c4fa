# SQLRDD++ in TLA+

SQLRDD++ is a replaceable database driver (RDD) for Harbour.  An application
uses it as if it were DBF files: it opens tables in numbered *work areas*,
moves a record pointer with SKIP, GO TOP, SEEK, reads and assigns fields,
appends, deletes, locks records and tables, and SQLRDD++ turns all of that into
SQL for Oracle, Postgres, MySQL, MSSQL, Firebird and others.  The semantics it
promises is that of Clipper; what it has underneath is a transactional SQL
server, a cache of rows, and a lock table of its own.  The modules of this
directory are about that gap.

## The parts of the system

| Part | Source | State | Operations |
|------|--------|-------|------------|
| Table locks | `sqlrdd0.prg` SR_SetLocks, SR_ReleaseLocks; `sqlrdd2.prg` LockTable, UnlockTable, sqlOpenArea, sqlClose | `SR_MGMNTLOCKS` on the server; `aExclusive`, `lTableLocked`, `lSharedLock`, `lOpened` | exclusive and shared USE, FLOCK, UNLOCK, CLOSE, housekeeping at connection and after a collision |
| Record locks and transactions | `sqlrdd2.prg` sqlLock, sqlUnLock, lCanICommitNow, sqlFlush, sqlClose; `utils.prg` SR_BeginTransaction ...; `sqlconnection.prg` Execute, Commit, RollBack | `aLocked` of each work area, `nTransacCount` and `nIteractions` of the connection; row locks of the server | RLOCK, DBRLOCK, UNLOCK, FLUSH, BEGIN/COMMIT/ROLLBACK, autocommit |
| Row cache and navigation | `sqlrdd1.c` sqlSkipRaw, sqlGoTo ...; `sqlrdd2.prg` FirstFetch, ReadPage, UpdateCache, CheckCache, SkipRawCache | `aCache` ring, `NPOSCACHE`, `NCACHEBEGIN`, `NCACHEEND`, `BOF_AT`, `EOF_AT`, `nCurrentFetch` | SKIP, GO TOP, GO BOTTOM, GOTO, refresh |
| Record buffer | `sqlrdd1.c` sqlPutValue, sqlGetBufferFromCache2, sqlAppend; `sqlrdd2.prg` WriteBuffer, sqlGoCold, Refresh, sqlDeleteRec, sqlRecall | `aLocalBuffer`, `aOldBuffer`, `HOT`, `ISINSERT`, `RCOUNT` | REPLACE, APPEND, DELETE, RECALL, GOCOLD |
| Work-area registry | `sqlrdd0.prg` _SR_Register, _SR_UnRegister, _SR_ScanExec | the list of open areas of each table | broadcast of a write or a delete to the other areas of the process |
| Connections | `sqlrdd0.prg` SR_AddConnection, SR_EndConnection, SR_SetEnvSQLRDD; `sqlconnection.prg` | `s_aConnections`, `s_nActiveConnection`, a mutex | connect, disconnect, select the active connection |
| Index keys and scopes | `sqlrdd2.prg` OrderBy, WhereMajor, WhereMinor, ParseIndexColInfo, sqlSeek, sqlSetScope; `sqlrdd1.c` SET FILTER; `utils.prg` SR_SetFilter | `aIndex` (columns, direction, the clauses kept, scope), `aInfo` order fields, `cFilter`, `lDisableFlts` | ORDER BY / WHERE of a page, SEEK, SET ORDER, ORDDESCEND, SET FILTER, SET SCOPE |
| Second engine (SQLEX) | `sqlex1.c`, `sqlex2.c`, `sqlex3.c`, `sqlex.h` | `recordList` with its direction, `hBufferPool`, `aBuffer`, prepared ODBC statements, `lEofAt`, `lBofAt` | the same operations in C on ODBC, its own GOCOLD |
| SQL parser and generator | `sqllex.c`, `parser/sqly.c`, `sqlact.c`, `sqlgen1.prg` | a parse tree | portable SQL to the SQL of a backend |
| Expression translator | `exprobjs.prg`, `exprparser.prg`, `exprsimpl.prg`, `exprtransl.prg`, `exprrelation.prg`, `exprudf.prg` | expression objects | index and filter expressions to SQL |
| Drivers | `firebird*.c`, `mysql.c`, `mariadb.c`, `odbc.c`, `oracle*.c`, `pgs.c` and their `sql*.prg` classes | a statement of the client library | execute, fetch, commit |
| Dictionary, history, logging, languages, tools | `sqlrdd0.prg`, `utils.prg`, `utilslang.prg`, `sqlconnection.prg` LogQuery | `SR_MGMNT*` tables | DDL, change log, messages |

The work area is an object owned by one thread.  It calls the connection
(`oSql:Exec`), the connection calls the driver.  Work areas on the same table
of the same process hear of one another through the registry
(`_SR_ScanExec`).  Processes meet only in the database: through the rows of the
tables, the locks of the server, and `SR_MGMNTLOCKS`.

The hard behaviours, by part, and what would make each part correct:

| Part | What is hard | What makes it correct |
|------|--------------|-----------------------|
| Table locks | a request is several committed statements, of processes that interleave; sessions die with rows in the lock table; two areas of a process share rows that carry no area | one owner at a time; what has the table keeps its rows until it gives them back; nothing is left behind by a denied request; rows of the dead go, rows of the living stay; every call returns |
| Record locks and transactions | locks and commits belong to the connection, the list of locks to a work area; a record is read before it is locked; a commit may come from autocommit, another area, or a refused write | what is listed is locked; what is locked is fresh; no committed edit is lost; a block commits at its end only; a rollback leaves no trace |
| Row cache | a ring that wraps, windows that grow at both ends, rows deleted under the pointer, ends remembered without asking | SKIP, GO TOP, GO BOTTOM and GO TO do what they would do on the table itself |
| Record buffer | pending edits and appends that any later call writes | an edit is written once, to the record it was made on |
| Work-area registry | the areas of one table hear of each other's writes, in the order of the list | an area never shows what was rolled back or overwrites what its sibling wrote |
| Connections | a table of connections shared by threads, an index of the active one | a call uses the connection its thread selected |
| Index keys and scopes | SQL cannot compare keys, so a page is a disjunction of comparisons of columns, with a form of its own for NULL; clauses are built once and kept with the conditions in them | the rows of the page are the rest of the order; a kept clause has the conditions of now; SEEK finds the first match |
| Second engine (SQLEX) | calls made of calls (SKIP, SKIPFILTER, GO TOP, GO BOTTOM) that share flags, another user between two statements of one call, statements prepared once, a pool that answers without asking | the same cursor as the first engine; every call returns; the edit goes to the record it was made on |
| Parser, expressions | pure translations | equal truth on every row |

## The modules

| Module | Is | Composes |
|--------|----|----------|
| `TableOwner` | what table locks promise: at most one owner | |
| `TableLocks` | the statements of SR_SetLocks and SR_ReleaseLocks under open, FLOCK, UNLOCK and close | `TableOwner`, as what it implements |
| `TableLocksProofs` | the inductive invariant of TableLocks and its theorems; the rows of a process beside an owner's: nothing leaks, sharers keep exclusive opens out | extends `TableLocks` |
| `RecordLocks` | record locks, edits and transactions of several areas and processes | |
| `RecordLocksProofs` | what holds of RecordLocks for every size, and that careful applications lose no update | extends `RecordLocks` |
| `Cursor` | what navigation promises: a pointer into an ordered table | |
| `PageCache` | first engine: navigation over the ring of cached rows, with appends, edits and deletes | `Cursor`, as what it implements |
| `PageCacheProofs` | the inductive invariant of PageCache and its theorems | extends `PageCache` |
| `KeyOrder` | first engine: the statements of pages, ends and SEEK, with filters and scopes | `Cursor`, as what it implements |
| `KeyOrderProofs` | the clauses, scopes and SKIP of KeyOrder for any columns and tables | extends `KeyOrder` |
| `KeyOrderCursorProofs` | that its moves and SEEKs are those of a cursor, for any columns | extends `KeyOrderProofs` |
| `RecordList` | second engine: navigation over the list of record numbers, call by call step by step | `Cursor`, as what it implements |
| `RecordListProofs` | the inductive invariant of RecordList and its theorems | extends `RecordList` |
| `RecordListBufferProofs` | that the buffer shows the current record between calls | extends `RecordListProofs` |
| `RecordListCursorProofs` | that lists are runs of the order, remembered ends are ends, and the calls are those of a cursor | extends `RecordListBufferProofs` |
| `MCTableLocks`, `MCRecordLocks`, `MCPageCache`, `MCKeyOrder`, `MCRecordList` | instances for TLC (tables, symmetry) | one module each |

Operators beside an action with the comment "Mutant of ..." are plausible bugs
of the definition they name.  No specification uses them; replacing the
definition by one shows that the property it is meant for notices.

### TableLocks

A lock is a row of `SR_MGMNTLOCKS`: `rows[l]` is the session that owns the row
of lock `l` (`FLOCK`, `EXC` or `SHARED` of the one table), or 0.  The column
`LOCK_` is unique, so an INSERT succeeds exactly when `rows[l] = 0`.  `listed`
is the server's list of sessions, from which a dead one disappears some time
after the crash (`DropSession`).  `area` and `aExclusive` are the state of the
work areas; `call` is where each process stands in the call it executes.
An area has the table (`HasTable`) when the application was told so: it is open
exclusive or its FLOCK was answered .T., by whatever path of LockTable; a
process owns the table (`Owns`) while one of its areas has it.  LockTable grants
a process that is in `aExclusive` a second area without a row, and UNLOCK or CLOSE
of the area that holds the rows takes them from under the second (see the
observations).  `Orderly` says whether the application avoids that: it gives back
the area that holds the rows last (`MayGiveBack`), and asks to have a second area
exclusive only where the first is open exclusive too (`MayOpenAgain`; an FLOCK
sets no EXC row).  With `Orderly` FALSE neither guard restricts it.

| In the code | In the module |
|-------------|---------------|
| SR_AddConnection with its first housekeeping | `Connect` |
| SR_SetLocks: INSERT, housekeeping, INSERT, retry loop, release of what a denied request had added | `Insert`, `InsertFails`, `Housekeeping`, `UndoSetLocks` |
| SR_ReleaseLocks, one DELETE per lock | `DeleteLock` |
| LockTable, two tries, and its early return when the process owns the table | `OpenExclusive`, `OpenExclusiveAgain`, `ExclusiveGranted`, `LockTableGivesIn`, `LockTableDenied`, `FLock`, `FLockAgain`, `FLockGranted` |
| sqlOpenArea for a shared open: test of EXC, its release, INSERT of SHARED | `OpenShared`, `CheckGranted`, `CheckReleased`, `ShareReturned` |
| UnlockTable, sqlClose | `Unlock`, `Unlocked`, `Close`, `ReleaseShare`, `CloseForgotten`, `CloseUnlocked`, `Closed` |
| the process dies; the server notices | `Crash`, `DropSession` |

All these statements go through a second connection (`oSqlTransact`) and are
followed by their own commit, so the statement with its commit is the atomic
step; between two of them any other process may run.  An application instance
runs one call at a time.  SET FASTOPEN, under which an open takes no lock, is
left out.

### RecordLocks

`row` is what is committed; a connection has the changes it has not committed
(`change`), the rows its transaction has locked (`held`), `nTransacCount` and
`nIteractions`; a work area has its position, buffer, `HOT` and `ISINSERT`,
`aLocked`, `lTableLocked` and its cached rows (`page`).  Two history variables
count: a value is a counter that each REPLACE increments, and `done` counts the
REPLACEs that were committed, so an edit that overwrites one it had not seen
makes the two differ.

Each operation of the application is one action: `Open`, `GoTo`, `ReadPage`,
`SkipCached`, `Close`, `RLock`, `DbRLock`, `FLock`, `Unlock`, `Replace`,
`Append`, `Flush`, `SR_BeginTransaction`, `SR_CommitTransaction`,
`SR_EndTransaction`, `SR_RollBackTransaction`, `EndConnection`, and besides them `WriteFails` (the
server refuses a write and RuntimeErr rolls back) and `Crash`.  Nearly all of
them begin with GOCOLD (`GoCold`), as the calls of the RDD do, and wait while a
row they write is locked by another process (`CanGoCold`).  Row locks last until
the transaction ends.  What a connection reads depends on the isolation level
SR_SetEnvSQLRDD sets: with `ReadUncommitted` (Sybase, MSSQL and Azure, MySQL and
MariaDB, `sqlrdd0.prg` 745, 753, 772) it sees what others have not committed yet
(`Seen`), else what is committed and its own changes (`Visible`).

`Careful` restricts the application, not the code: it locks a record before it
edits it, and gives up its locks and edits (UNLOCK, FLUSH) before it moves and
before it begins or ends a block.  It is how Clipper programs share tables,
and the properties about locks and lost updates are claimed for such
applications only.

### Cursor and PageCache

`PageCache` is one ISAM area in record-number order without filter or SET
DELETED ON.  `table` are the rows of the server, `marked` those marked as
deleted, `last` the number given last; `wa` is the area: `aCache` a ring of
`Ring` slots, `pos`, `begin` and `end` (NPOSCACHE, NCACHEBEGIN, NCACHEEND),
`bofAt` and `eofAt`, the record number and flags, both copies of the BOF and EOF
flags (`aInfo` and the AREA structure), and `HOT`, `ISINSERT`, `WASDEL`.

`ReadPage`, `Store` and `Window` are ReadPage and UpdateCache of `sqlrdd2.prg`;
`SkipRawForward`, `SkipRawDeleted`, `SkipRawBackward` the three branches of
sqlSkipRaw and SkipRawCache; `GoTopOf`, `GoBottomOf`, `GoRecord` the calls of
`sqlrdd1.c`.  The actions are `GoTop`, `GoBottom`, `GoTo`, `Skip`,
`AppendRecord`, `Replace`, `DeleteMarked`, `Recall`, `DeleteRow` and
`SiblingWrites` (another area of the process writes and the window is emptied).
How many rows a page has (`nCurrentFetch`, which grows with the SKIPs since the
last GO) is any of `PageSizes`.  Harbour's generic SKIP, which is not in this
repository, is `Concluded`: it clears the flag of the other end.

`ImplementsCursor` maps the area to `Cursor`: the table with a pending append
in it, the record number, and no record when the area is at EOF.  It then says
operation by operation that GO TOP, GO BOTTOM, GO TO, SKIP, SKIP -1 and APPEND do
what the cursor's do, and that the others leave the pointer where it is.  That
is more than `C!Spec`, under which a SKIP to the wrong record would pass for a
GO TO of the cursor.  A SKIP -1 on an area that already answers BOF() is left
out, see the observations below.

### KeyOrder

The table stays as it is and every SKIP reads its page; what the ring answers
instead is `PageCache`.  An order (`Fields[o]`) is a list of columns that ends
with the record number, order 0 the record number alone.  An empty value of a
column that may be NULL is NULL, as QuotedNull writes it.

| In the code | In the module |
|-------------|---------------|
| OrderBy | `Precedes`, `Sorted` (NULL is lowest) |
| WhereMajor, WhereMinor: one clause per prefix of the columns | `Where` |
| ParseIndexColInfo, which turns a comparison with a value into SQL when value or row may be NULL | `Parsed`, `ParsedNull` |
| WherePgsMajor, WherePgsMinor, with the values in the text | `Literal` |
| the clause kept in ORDER_SKIP_UP and ORDER_SKIP_DOWN | `kept`, `Keeps`, `PageRestrictions` |
| sqlSetScope: the expression of a scope | `SetScope`, `InScope` |
| sqlSeek | `SeekClause`, `Seek` |
| FirstFetch, ReadPage of the ends | `GoTop`, `GoBottom`, `ReadPage` |
| SET ORDER, ORDDESCEND, SET FILTER, SR_SetFilter(""), SR_FilterStatus | `SetOrder`, `OrdDescend`, `SetFilter`, `RemoveFilter`, `FilterStatus` |

The clauses are not the lexicographic order written out: for the columns
c1, c2, c3 they are `c1 >= v1 AND c2 >= v2 AND c3 >= v3`, `c1 > v1`,
`c1 = v1 AND c2 > v2`: the last column of a prefix is compared strictly, the
one before it for equality, and the others weakly.  That their union is the
rest of the order is `PageIsRest`, and is proved.

`kept` is which restrictions (filter and scope) were in force when the clause
was built; the text itself is rebuilt from the values of the current record by
placeholders.  `MaySkip` restricts the application: after a change of the order
or the conditions it goes to a record (GO TOP, SEEK) before it SKIPs.

Left out: FOR clauses, lists of record numbers, historic tables, Oracle's
virtual indexes, partial keys (LIKE), SEEK LAST and soft SEEK in a descending
order; scope keys are of two columns at most and all parts are given.

### RecordList

SQLEX is a second implementation of the work area, in C.  `wa` is its
structure: `list`, `del`, `pos`, `dir` are recordList, deletedList, its place
and recordListDirection, `ends` lEofAt and lBofAt, `pool` hBufferPool, `stmt`
the prepared SKIP statements.  A call of the application pushes a frame and
each statement to the server is one step: `todo` is the stack of what is left
(the C stack), and between any two steps another user may insert or delete
(`OtherInserts`, `OtherDeletes`).

| In the code | In the module |
|-------------|---------------|
| sqlExGoTop, sqlExGoBottom, getFirstRecordList | `GoEnd`, `TopList` |
| sqlExSkip, sqlExSkipFilter | `Skip`, `SkipFilter`, `RaiseBof` |
| sqlExSkipRaw, getPreparedRecordList, CreateSkipStmt | `RawInList`, `RawAtEnd`, `RawQuery`, `RawFromPhantom`, `WithStmt` |
| updateRecordBuffer, the pool | `Read`, `PageRead`, `PoolWith` |
| sqlExGoTo | `GoTo`, `GoToOf` |
| sqlExGoCold, SR_ExecuteInsertStmt, SR_ExecuteUpdateStmt | `Insert`, `Update`, `DropEdit` |
| sqlExAppend, sqlExDeleteRec, sqlExRecall, sqlExSeek | `Append1`, `DeleteRec`, `Recall`, `Seek`, `SoughtAgain` |
| SET ORDER, SET FILTER, SET SCOPE | `SetOrder`, `SetFilter`, `SetScope` |

An error of the runtime (SR_commonError) ends the call.  Left out: an empty
table at open (recordList is read as hb_xgrab left it), relations, descending
indexes, historic tables, NULL keys, orders of several columns, filters that
are code blocks, refused statements, and updates of other users.  The
application does not SKIP or SEEK while an edit of the phantom record is
pending, and goes to the top after SET ORDER, FILTER and SCOPE.

## What is checked

| Run | Expected | Shows |
|-----|----------|-------|
| `table_locks_areas` | pass | two processes with two areas each, with retries, and second grants by orderly applications: `OneOwner`, `OwnerHasRows` (an area that has the table has its FLOCK and EXC rows, whichever area set them), `NoLeakedRow` (a process without an area that accounts for a row has none), `ImplementsOwnership`, and the inductive invariant `IInv` |
| `table_locks_live` | pass | three sessions, one of them a restart, fair processes: `CallsReturn`, `DeadRowsSwept`, `LiveRowsKept` (the row of a connected process disappears only by a step of its own call), `SharerKeepsExclusiveOut` |
| `record_locks_careful` | pass | two careful processes that read what is committed: `ListedIsHeld`, `LockedByOne` (no two processes list the same record as locked), `LockedIsFresh`, `NoLostUpdate`, `ShownWasStored`, `LinesStayLocked` |
| `transaction_blocks` | pass | two areas, autocommit, nested blocks, refused writes: `CommitsOutside` |
| `inserted_other_area` | violation | a second area commits and unlocks what the first has listed |
| `page_cache_cursor` | pass | both directions, appends and GO TO over a ring that fills: `WindowHasAllRows`, `ImplementsCursor` |
| `page_cache_delete` | pass | loops that walk forward and delete: `SkipLeavesDeleted`, `EndsAreEnds` |
| `page_cache_edge` | violation | a window that ends at the last slot of the ring sends SKIP back to the start of the table |
| `record_list_cursor` | pass | both orders and directions over tables longer than a list, GO TO, SEEK, RECALL, changes of order, filter and scope: `ListIsRun`, `EndsAreEnds`, `ImplementsCursor`, `SeekFindsKey`, `CallsReturn` |
| `record_list_edit` | pass | edits, appends, deletes, SET DELETED ON, another user at every step: `PoolIsCurrent`, `BufferShowsRecord`, `WritesItsRecord` |
| `deleted_at_list_end` | violation | with SET DELETED ON, a deleted record at the end of a list ends the table |
| `key_order` | pass | NULLs, directions, filters, scopes, Postgres and another server: `PageIsRest`, `KeptIsCurrent`, `MovesAsCursor`, `SeekFinds` |

Every run allows the system to stop (`CHECK_DEADLOCK FALSE`): the bounds on
sessions, record numbers, values and deletes end a behaviour, and an
application may simply call nothing more.

### Bounds, and why they are enough

*Table locks.*  Two processes are enough for every collision, since a row has
one owner and each process is compared with one other at a time; two areas per
process are what `aExclusive` and the shared rows need to go wrong; one retry
and two tries of LockTable go round each loop (the code has 4 and 2).  The
theorems hold for all of them.  The liveness run needs three sessions so that a
dead session's rows meet a living request and a restart.

*Record locks.*  Two records (one existing, one to append), two processes and
three values are the smallest in which an edit can be lost: a value shown, a
value written by another, and a value written over it.  Nesting depth 2 and
autocommit after 2 statements let a block be cut in the middle.  The 100
entries of `SR_MAXIMUN_LOCKS` are not reached.

*Row cache.*  A ring of 8 slots with pages of 3 rows is filled and wrapped more
than once by 9 records and two appends, forwards and backwards, as 600 slots are
by pages of up to 500 rows.  GO TO record 6 starts a window in the middle of the
table, GO TO 0 goes to the phantom record; one record may be marked.  The delete run has forward SKIPs
only, and both passing runs have a ring in which no page ends exactly at the
last slot; the behaviours beyond these restrictions are defects, listed below,
and the last has a run of its own.

*Record list.*  Lists of 2 records with a table of 3 make every walk cross the
end of a list, as 25 and 250 do in the code; pages of 2 rows and a pool of 2
empty the pool in between.  Lists of 1 from GO TOP in the edit run make every
SKIP a query.  The cursor run has a table whose length is no multiple of the
list of GO TOP, no deleted records, conditions that every record meets, and
SEEKs with a record at or after the key; the edit run has no SKIP -1.  What lies
beyond is listed under the findings.  `MaxDepth` bounds the stack of calls;
`CallsReturn` shows that the cursor run never meets it.

*Index keys.*  Two columns before the record number give prefixes of every kind
the clauses have; the theorem extends it to any number.  One table has NULLs in
both columns alone and together, one has none, one is empty.  Pages of 2 rows
suffice because only the first of a page moves the pointer.

### Fairness

`TableLocks!FairSpec` has weak fairness of `Proceed(p)`, the next statement of a
call a process has begun.  Harbour runs a call to its end, each statement is
sent and answered, and nothing in SR_SetLocks waits for another process: a
denied INSERT is counted and repeated a bounded number of times.  Nothing is
assumed of requests, crashes, connections, or of the moment the server drops a
session; `DeadRowsSwept` speaks of requests that meet the row of a session that
is already off the list.

`RecordList!FairSpec` has weak fairness of `Step`: a C function that has begun
goes on.  Nothing is assumed of the application or of other users.

## What is proved

Every theorem is about every value of the constants: any number of processes,
areas, records, columns, sizes of lists and pools, within the assumptions named.

`TableLocksProofs`:

| Theorem | States | Assumes |
|---------|--------|---------|
| `Invariant` | the inductive invariant `IInv` holds | not Oracle |
| `TypeCorrect` | the variables have their types | |
| `OneOwnerAlways` | two processes never own the table at once | not Oracle, `Orderly` |
| `OwnersKeepRows` | the FLOCK row, and the EXC row if it is open exclusive, of an area that has the table carry its session | not Oracle, `Orderly` |
| `LiveRowsStay` | the row of a connected process disappears only by a step of its own call | not Oracle |
| `TableLocksImplementOwnership` | TableLocks implements TableOwner | not Oracle, `Orderly` |
| `NothingLeaks` | a process without an area that accounts for a row has none | not Oracle |
| `SharersKeepOwnersOut` | an exclusive open is not granted while the SHARED row is a sharer's | not Oracle, one area per process |

`RecordLocksProofs`:

| Theorem | States | Assumes |
|---------|--------|---------|
| `TypeCorrect`, `CommittedOutside` | types; rows change only outside a block, all changes of a connection at once | |
| `LinesStayLockedInBlocks` | what a block has locked stays locked to its end | no refused writes |
| `CarefulInvariance` | the inductive invariant `GoodInv` holds | `CarefulUse` |
| `ListedStaysHeld`, `OneProcessLocks`, `LockedStaysFresh`, `NothingIsLost` | the invariants of the run `record_locks_careful`, at either isolation level | `CarefulUse` |
| `OnlyStoredIsShown` | no buffer shows an edit that was rolled back | `CarefulUse`, not `ReadUncommitted` |

`RecordListProofs`: `TypeCorrect`, `PoolStaysCurrent` (a pooled row is the row of
the table, for a table only this area updates) and `EditsGoHome` (a row is written only by the edit made on
it), from the inductive invariant `IInv` (`Invariance`).

`RecordListBufferProofs`: `BufferStaysTrue` (between calls the buffer shows the
row of the current record, whatever other users insert and delete).  It assumes
`GoTosGiven`, that the application goes only to numbers given to a record, and
`SkipsSafe`, that it does not SKIP backwards with SET DELETED ON: on a table of
deleted records SKIP -1 ends on the phantom record with EOF() .F. (see below).

`RecordListCursorProofs`, for any sizes of lists, pages, pool and table, in both
orders and directions, with SET DELETED ON or OFF:

- `ListStaysRun`: between calls the list holds consecutive records of the order
  in the direction of the area;
- `EndsHold`: lBofAt and lEofAt, when known, are the first and the last record;
- `ListMovesAsCursor`: GO TOP, GO BOTTOM, GO TO, SKIP and SKIP -1 are those of `Cursor`
  on the shown records, mapped to their ranks;
- `SeekFindsFirst`: SEEK stands on the first record with the key, or the last.

The four assume `Browsing`, of the calls: the rows stay as they are (the
application navigates, seeks, sets order, filter and scope, calls FLUSH, RECALL
and LASTREC, and nobody else writes), a filter or scope lets all rows through,
SKIP is by one record, GO TO is not to 0; and `StartsSuit`, of the table: there is a
row, there are not as many as the list of GO TOP asks for, at most a list of them
share a key, a SEEK has a row at or after its key seen from either end (or there
is one row only), and with SET DELETED ON none is deleted.  Each clause but the
first two of `Browsing` is there because the code does something else beyond it,
see the observations; a table without rows is not modelled.  The instance of
`record_list_cursor` satisfies both.

`PageCacheProofs`: `TypeCorrect`, and `EndsStayEnds` (EOF_AT and BOF_AT, while
their rows exist, are the last and the first row of the table), from `IInv` (`Invariance`), for any size
of ring, page and table.  Two more assume `RowsStay` (DELETE marks or there is
none, no other area of the process writes, the table is not empty) and that the
window never becomes the whole ring (`[]~FullRing`: the page that makes it so
goes over the first slot, see finding 2; `page_cache_cursor` does not reach it):

- `WindowStaysComplete`: the window holds every row between its first and last;
- `CacheMovesAsCursor`: the area moves as `Cursor` on the table does, both ways,
  with GO TO, APPENDs, edits and marks in between.

A fifth is about rows that DELETE removes: `SkipGoesPastDeleted` states
`SkipLeavesDeleted` (the SKIP after a DELETE goes to the row that followed, or to
EOF() if there is none), with GO TOP, GO BOTTOM, GO TO, APPENDs, edits and the
writes of other areas in between.  It assumes `~UseDeleteds` (under .T. the code
tests the setting and not the row, see the observations), no SKIP -1
(`~Backward`), `[]~FullRing`, and of the calls (`[][~GoesToDeleted /\ ~DeletesAtEof]_vars`) that
GO TO is not called with the record just deleted, which keeps it current and
clears WASDEL, so that the next page loses a row; and that DELETE is not called
at EOF(), which may empty the slot of a row that is still in the table.

`KeyOrderProofs`: `TypeCorrect`; `KeptStaysCurrent` (a kept clause has the
conditions in force; assumes that SR_SetFilter("") and SR_FilterStatus come only
while no clause is kept, `~StaleFilters`); `PagesAreRest` (the clause of a page
selects exactly the rest of the order; `~EmptyDates`); `SkipIsExact` (both together:
SKIP moves to the neighbour in the order); `ScopeIsInterval` (the expression of
a scope of one or two columns selects an interval of the order).

`KeyOrderCursorProofs`, for any columns, NULLs, directions, filters and scopes of
up to two columns (`ScopesFit`), without empty dates:

- `AreaMovesAsCursor`: each call of the area is one of `Cursor` on the visible
  rows, mapped to their ranks; assumes also `~StaleFilters`;
- `SeekFindsFirst`: SEEK stands on the first visible row with the parts of the
  key, SOFTSEEK on the first after them when none has; assumes `SeeksFit`: a key
  has parts for the first columns, no negative part in a nullable column, and a
  part 0 in a numeric column that may not be NULL only where no row is negative.

### Along which arguments

*Table locks.*  None of the invariants is inductive.  That an owner has its rows
depends on the session being listed (else the next housekeeping takes them), on
what a call in the middle of SR_SetLocks has inserted so far, and on which areas
account for which rows.  `IInv` is `TypeOK` and four parts:

- `CallInv`: which stages a call may be in at each step, and with what counters;
- `SessInv`: living processes have different sessions, all on the server's
  list; a process that is not connected has no call and no open area;
- `AreaInv`: `aExclusive` names at most one area of a process, an open one that
  knows it, and a process that asks for the table has none in it yet;
- `RowInv`: the rows a request has set so far are there, and those of a process
  that keeps the table (`KeepsTable`: it has an area in `aExclusive` and is not
  giving it back).

`InitIInv` and `NextIInv` prove `Init => IInv` and `IInv /\ [Next]_vars => IInv'`,
the second action by action and, for each, part by part.  `IInv` holds of all
applications and speaks of `aExclusive` only.  Of orderly ones `GrantedInv` is
kept besides: while an area has the table, granted with rows or without, its
process keeps it (`KeepsTable`), through an exclusive open if the area was opened
exclusive.  So an owner has the rows, and one owner follows: two would both have
the FLOCK row, which carries one session, and no two processes have the same.
The step simulation of TableOwner maps the
owner to the process for which `Owns` holds: `OneActor` says that a step changes
ownership for one process at most; if it begins to own, nobody did, and the step
is an Acquire; if it ceases (an unlock begins, or it dies), the step is a
Release; all others stutter.

`AccountInv` adds, for `NothingLeaks`, the converse of `RowInv`: every row a
process has is that of an area that keeps it or of the call it is in.  It has a
part for each kind of row (`FlockOK`, `ExcOK`, `ShareOK`), and parts that say what
a half-done request may still have to undo (`UndoFromStart`, `RowsOfThePast`).
`SharerInv`, for processes with one area, follows the SHARED row of the sharer
through the exclusive open of another: its request stops at that row.

The assumption `Backend # "ORACLE"` is needed: a row carries the SID of its
session there and the housekeeping compares it with AUDSIDs (see below).

*Record locks.*  `CarefulUse` is `Careful`, one area per process, no autocommit
and no refused writes.  `GoodInv` says that the accounts of each process are in
order, seen by itself and by the others.  A row is worth one plus the edits
that were committed, and a change the same plus the edits of the block, and a
change is held; no two connections hold the same record (`Ledger`).  Each area
lists only what is held, shows the row as its transaction sees it plus the
REPLACEs not yet written, and caches nothing newer (`AreaGood`).  The proof is
in the style of rely and guarantee: each call keeps its own process Good and
only `Grows` what the others rely on (rows never lose an edit, rows held by another are
untouched), and Good is stable under such growth (`BecomesGood`).  The first
part of the module, which needs no `Careful`, classifies each call by what it does
to rows and locks (`Within`, `Quiet`, `Step`).

*Record list.*  `IInv` is: rows only up to the last number given; types; the
shape of the stack of statements (`Stack`: GOCOLD's only on top, APPEND's only at
the bottom); a record number is left for a pending APPEND (`Room`); between calls
and while an edit is being written the record the application sees is the current
one (`Seen`); and, after the first positioning, the area stands in its list and
the pool fits the table (`Good`).  That the edit goes home is `Seen` at the moment
of the UPDATE.

*Record list, the buffer.*  In the middle of a call the buffer may be another
record's: sqlExSkip clears EOF() before it has moved.  `Fresh` says of each such
state that the next step mends it (`Repairs`): it is a GO TOP, GO TO or SEEK, or
a SKIP that reads a row or meets EOF() again.  A SKIP backwards must never meet
EOF() on its way (`Retreat`), which is where `SkipsSafe` is used.

*Record list, the cursor.*  `ListIsRun` is not inductive: whether the next list
is a run depends on the statement kept (`Still`: it has the conditions of now),
on the ends remembered, and on what waits on the stack.  `Strung` adds to the run
that remembered ends are ends, and that a list of several which begins at an end
of the order has that end remembered: without this a SKIP against the direction
of the list, past its first record, would take the answer of the server for
another list.  `Stage` lists the forms the stack may have in the middle of a
call, and for each what is known of the area: a SKIP that has yet to move stands
on the record the application saw (`Leaving`), a call that only has its filter
left already stands where it will return (`Passing`, `Outcome`), and a SKIP -1
from the first record goes through GO TOP and raises BOF() after it (`Topping`,
`Topped`).  Each step has a lemma (`...Lands`) that it leads from a stage to a stage
or to the outcome, and each call one (`...Walks`) that it begins at a stage; `Walking`
puts them together.  The answers of the server are sequences of the ranks of a
set (`AnswerIs`, `RanksAreAll`), from which `RestIsRun` and `FollowingIs` get that the
list of a SKIP follows the current record.  For the refinement the rank of
a record among the shown ones is its place (`PlacesAre`), as for the keys.

*Cache.*  `IInv` says of the table that rows have the numbers given so far, and of
the area, once a pending edit is settled (`Good`): the window has a begin and a
position exactly when it has an end, EOF_AT and BOF_AT, while their rows exist,
are the last and the first row, and the area is not on a row it has
deleted itself.  A page that comes back short means the end of the
table: `RanksAreAll` counts the rows on each side of a record.

*Cache, the window.*  `Arc` says that a window holds consecutive records from its
far edge to its near one, for either direction (`ArcTurned`), and leaves out a
slot of the ring at least.  `Geometry` is the arithmetic of a page that is
added: whether the ring wraps, the opposite edge is pushed, or neither, the new
edges and the slots between them are what a walk of the right length gives;
`PageStored` puts the rows there and `ReadPageIs` finds that the page is the
rest of the table or full.  `Walk` adds that the current slot has the current
record, and that EOF() is the phantom record; `SkipForwardIs`, `SkipBackwardIs`,
`GoRecordIs` and `GoesIs` say where each call ends, from any area that walks.
`WInv` says that the rows are 1..last and the area walks on them once its edit is
written; each operation keeps it and is the step of the cursor (`...Lands`).

*Cache, deleted rows.*  A DELETE empties a slot, so `Arc` is lost and no
statement about the rows behind lasts.  `Trail` keeps what does: slots past the current
one hold the rows past the current record, in their order and none left out
(`Onwards`), whatever emptied slots lie between; the current slot has the
current record or is emptied; a window that starts at BOF_AT is complete from there on,
for GO TOP stays in it; WASDEL is set only on a record that is gone
and is not EOF_AT.  `DInv` is `IInv` and `Trail` once a pending edit is written.  Pages are
related to the window by place and not by slot (`Nth`, `At`), and each operation has
a lemma (`...Trails`); `SkipTrailsOn` says where SKIP ends.

*Keys.*  The clause of a page is a disjunction over the prefixes of the order.
`Comparisons` says for one column what the SQL with its NULL cases selects,
`ClauseIsRest` puts the columns together lexicographically.  That a page has a
first row at all needs that a finite strictly ordered set has a first member
(`FiniteSetHasFirst`).  Induction is not available, so it counts predecessors:
were every member preceded by another, the counts would be an injection into
0..N-1 that misses 0 and yet, by cardinality, is onto.

For the cursor, the rank of a row is the number of visible rows up to it: the
first has rank 1, the last N, and a neighbour differs by one.  A scope selects an
interval, so that no row between two visible rows is outside it.  For SEEK, the
parts of the key compare as the full key does once a NULL is shown as 0.

### What is only model-checked

- `CallsReturn` and `DeadRowsSwept`, which are liveness under fairness and need
  ENABLED: the prover has neither.
- What a recursive definition computes for every input could not be proved;
  no module has one.

## What was found

Each has a run that shows it.

1. *Commit of another area's locks* (`sqlrdd2.prg` 3514, run `inserted_other_area`).
   lCanICommitNow looks at the list of one area, the commit releases the locks of
   all areas of the connection.  A FLUSH in a second area unlocks the record the
   first has inserted, which "should remain Locked" (3456).
2. *A page that ends at the last slot* (`sqlrdd2.prg` 5291, run
   `page_cache_edge`).  The window is taken to be one slot shorter than the rows
   stored; the last goes over the first.  With SR_FetchSize(25) the pages of a
   walk from GO TOP end at slots 25, 125 and 600, and a loop until EOF() over
   more than 601 rows returns to the second row.  Backwards the same happens to
   a window that begins exactly at the first slot (a ring of 7 slots with pages
   of 2 rows shows it).
3. *A deleted record at the end of a list* (`sqlex1.c` 1652, run
   `deleted_at_list_end`).  SKIP remembers the record it started from; when
   SKIPFILTER passes a deleted record that is the last of the list, the next list
   does not have that record, the search for it runs out and the area answers
   EOF() with rows to come.

Observations met while modelling, without a run.  They mark the edge of what the
passing runs and the theorems claim.

*Table and record locks.*

- LockTable answers .T. at once when an area of the process is in `aExclusive`
  (`sqlrdd2.prg` 1757): a second exclusive open, or a FLOCK, gets no rows of its own.
  CLOSE or UNLOCK of the first area deletes the rows (1840, 5659) and empties
  `aExclusive`; the second is still open exclusive and another process opens the
  table beside it, against the comment at 1832 (USE EXCLUSIVE cannot be released
  until the file is closed).  With `Orderly` FALSE `OneOwner` and `OwnerHasRows` are
  violated by it; what is claimed of ownership is claimed of orderly applications.
- Oracle: a row carries the SID of its session, the housekeeping keeps the rows
  whose number is among the AUDSIDs (`sqlrdd0.prg` 710, 718, 2136).  It sweeps the
  rows of living owners.
- A shared open goes on whatever the INSERT of its SHARED row answers
  (`sqlrdd2.prg` 7042): only the first sharer has the row, and between the test of
  EXC and that INSERT nothing marks the table.
- SR_EndConnection (`sqlrdd0.prg` 1434-1476) neither closes the areas nor empties
  `aExclusive`, which belongs to the process: an open through the next connection
  is granted on rows that the housekeeping has swept.
- FLOCK and RLOCK of the C layer answer .T. without a lock at EOF() and while a
  record is being appended (`sqlrdd1.c` 3162).
- The SWITCH of sqlLock has no case for FIREBR3, FIREBR4 and FIREBR5 (`sqlrdd2.prg`
  8889-9034): the record is listed as locked (9036) and RLOCK answers .T. with
  nothing sent to the server.
- Where connections read uncommitted changes, an area shows values that are
  rolled back later; a lock reads the record again, so what is locked is fresh
  all the same (`LockedStaysFresh` and `NothingIsLost` are proved at either level,
  `ShownWasStored` is violated with `ReadUncommitted` TRUE).
- Refresh after a rollback clears HOT and not ISINSERT (`sqlrdd2.prg` 3632): RLOCK
  then answers .T. without a lock, and the next REPLACE inserts a copy.

*First engine, cache.*

- sqlDeleteRec resets EOF_AT twice and BOF_AT never (`sqlrdd2.prg` 5615): GO TOP
  after deleting the first known record goes to a record that is gone.
- SKIP -1 into a window that another area's write has emptied stores two rows
  in one slot and takes the current record from a slot never filled
  (`sqlrdd2.prg` 5338).
- Under SR_UseDeleteds(.T.) a table without SR_DELETED loses its rows for good,
  but ReadPage (5263) asks the setting: the row after a deleted one is skipped
  at a page edge.  `page_cache_delete` has the setting .F.
- After APPEND from BOF(), a SKIP -1 that finds a row leaves BOF() at .T., and
  the next SKIP -1 does not move (`sqlrdd1.c` 745).  SET ORDER leaves the same flag.
- An edit of a record marked as deleted is not written by GOCOLD (`sqlrdd1.c`
  1286); SKIP loses it.
- GO TO the deleted record itself clears WASDEL (`sqlrdd1.c` 469), and the SKIP after it
  passes over a row; SKIP -1 from EOF after the last record was deleted lands on
  the phantom record with EOF() .F.
- DELETE at EOF() empties the slot the area is on all the same (`sqlrdd2.prg`
  5623).  After GO TO 0 that is the slot of a row still in the table, which a
  later SKIP passes over (`SkipLeavesDeleted` is violated with `GoTos = {0}`).

*First engine, keys.*

- Postgres: WherePgsMinor leaves out rows with an empty date (`sqlrdd2.prg` 9500,
  9507) that ORDER BY ... NULLS FIRST puts in front (2030): SKIP -1 never reaches
  them.  With `EmptyDates` TRUE `MovesAsCursor` is violated.  A hard SEEK of an
  empty date asks `= NULL`.
- SR_SetFilter("") and SR_FilterStatus forget no kept clause: SKIP goes on under
  the old filter (`StaleFilters`).  SR_FilterStatus and SR_SetFilter("") keep BOF_AT
  and EOF_AT as well: GO TOP goes to the first row under the old filter
  (`sqlrdd1.c` 516).  SET FILTER drops the FOR clause of the index
  (`sqlrdd2.prg` 629), and the OR of sr_AddToFilter has no parentheses.
- A key of the bottom scope that covers exactly the first column is padded with
  " z" (`sqlrdd2.prg` 8720-8724); bottom scopes leave out NULL rows; scopes of
  three columns are not intervals.
- A SKIP after SET FILTER without GO TOP, from a record that does not pass,
  jumps over one record.  ORDDESCEND does not empty the cached window.  Orders of
  eleven and more columns refer to the first.  In a nullable numeric column
  negative numbers are taken for less than NULL.
- Postgres: a SEEK of empty dates only sends a statement without restrictions,
  filter and scope included (`sqlrdd2.prg` 4985).
- A soft SEEK that ends in a date answers FOUND() for a later date (4762).
- A part 0 of a soft SEEK is taken for NULL: in a numeric column that may not be
  NULL the SEEK takes every row, negative ones too.  In a nullable column a
  negative part misses the NULL rows.

*Second engine.*

- getWhereExpression clears the flag of changed conditions also for the list of
  GO TOP (`sqlex1.c` 1440), so CreateSkipStmt (2296) keeps the SKIP statement of the
  old conditions, unless no list was asked for in between.
- A soft SEEK of several columns asks `col1 = ? AND col2 >= ?` (`sqlex3.c` 166) and
  finds nothing past the first column.
- A SEEK that finds nothing has set the direction (`sqlex1.c` 2705) and left the
  list of the last walk: what follows in that list is taken the wrong way round.
- GO TO 0 goes to the phantom record and keeps the list and the place in it
  (`sqlex1.c` 2518): the SKIP after it moves to the neighbour of the record the area
  was on before, where a cursor stays at EOF().
- A table exactly as long as the list of GO BOTTOM: SKIP -1 after BOF() moves
  forward.  With all records deleted, SKIP -1 from the phantom record calls
  GO BOTTOM and SKIPFILTER in turn without end.
- With SET DELETED ON and all records deleted, SKIP -1 from a record can end on
  the phantom record with EOF() .F.: the buffer is blank, the record exists
  (`BufferShowsRecord` is violated when `Skips` has -1).

## What is not modelled

- Table locks: SET FASTOPEN; SR_EndConnection with areas open (`Crash` is the death
  of the process); FLOCK at EOF() or while appending, which locks nothing.
- Record locks: RLOCK at EOF() or while appending; the lock of FIREBR3, FIREBR4 and
  FIREBR5, which is none: the properties about locks are those of servers that are
  sent a FOR UPDATE or its like; isolation levels other than the two; DELETE and RECALL, historic tables, the commits of DDL and ZAP,
  `SR_MAXIMUN_LOCKS`, Postgres' aborted transaction after a lock timeout.
- Row cache: marking a record as deleted at EOF(); other orders (in `KeyOrder`, without the ring), SET DELETED ON, rows
  inserted by other processes, LASTREC.
- Index keys: BOF_AT and EOF_AT (here GO TOP and GO BOTTOM ask the server), SEEK of
  empty dates only, parts of a scope that are 0 in a numeric column (which have a
  form of their own, `sqlrdd2.prg` 5130, 8788: `KeyAssumption`), FOR clauses, lists of record numbers, partial keys, SEEK LAST, soft
  SEEK in descending orders, historic tables, Oracle's virtual indexes.
- SQLEX: as the first operation of an area, GO BOTTOM, GO TO, SEEK and APPEND (the
  others begin with GO TOP); INSERT on CACHE, INFORMIX and unknown servers, where the
  number of the new record is not asked for (`sqlex2.c` 715) and the list keeps the
  old one; the UPDATE statement made anew when other columns are edited
  (`sqlex1.c` 3405; the model has one column); relations, descending orders, NULL keys, orders of several columns,
  statements the server refuses.
- Threads of one process.  `aExclusive` and the area registry are shared by
  them without a lock; each module has one thread per process.
- The table of connections behind its mutex.
- The parser and generator (generated code and a printer), the drivers (calls
  of client libraries; the server they need is external), the dictionary,
  logging and language tables (no state between calls), and the expression
  translator (text to text).

## The plan

Done: table locks, record locks, the cache, keys and SQLEX as modules with runs,
and proofs of each.  What is left, in this order:

1. DELETE and RECALL in `RecordLocks`, with their broadcast (`_SR_ScanExec`), so
   that the registry is complete; `GoodInv` then counts a deletion as an edit.
2. `Connections`: the table of connections, the active one, threads and the
   mutex; each call uses the connection it selected; the rollback that
   refreshes the areas of one connection only.
3. `RecordList` with orders of several columns, on `KeyOrder`'s comparisons.
4. The simplifier of expressions as operators over small trees, against their
   truth.

Runs stay few: one for each question.  Those that ask the same of a larger
instance replace the smaller one.
