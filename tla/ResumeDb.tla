------------------------------ MODULE ResumeDb ------------------------------
(* The resume-data table of sql.cpp, used by two threads of the process:     *)
(*   dart  the application's thread.  In lt_init_session_db it opens the     *)
(*         database, creates the table and scans it, handing every row to    *)
(*         the libtorrent session with async_add_torrent;                    *)
(*   net   the thread libtorrent runs the alert callback on.  It writes and  *)
(*         deletes rows with lt_update_resume_data and lt_remove_resume_data *)
(*         while the scan is still going on, as soon as a torrent exists.    *)
(* One connection serves both.  SQLite serialises its calls on the mutex of  *)
(* the connection, which is recursive, and the two writers also hold that    *)
(* mutex from their first statement to their last.  The process may die      *)
(* between any two steps and start again on the file it left.                *)
EXTENDS Integers

CONSTANTS
    Hashes,      \* info hashes of torrents
    Blobs,       \* resume data a save can write
    Decodable,   \* the blobs read_resume_data accepts
    Empty,       \* a row whose resume column has no bytes
    NoRow,       \* the absence of a row
    None,        \* no row is being written or loaded
    Faults,      \* the calls that may fail, a subset of FaultPoints
    MaxEarly,    \* bound: calls of a process that return early
    MaxCrashes   \* bound: crashes in a behaviour

FaultPoints == {"open", "create", "select", "fetch", "post",
                "begin", "statement", "rollback", "commit"}

ASSUME ConstantsAssumption ==
    /\ Decodable \subseteq Blobs
    /\ Empty \notin Blobs
    /\ NoRow \notin Blobs \cup {Empty}
    /\ None \notin [hash : Hashes, blob : Blobs \cup {Empty, NoRow}]
    /\ Faults \subseteq FaultPoints
    /\ MaxEarly \in Nat
    /\ MaxCrashes \in Nat

VARIABLES
    schema,   \* the file: the torrents table is "absent", "current" or "legacy"
    disk,     \* the file: the committed rows
    db,       \* the connection: "closed", "open", or "sick" (the open failed)
    work,     \* the rows the connection reads, uncommitted changes included
    tx,       \* a transaction is open on the connection
    held,     \* times the net thread is inside the connection's mutex
    netPc,    \* net: "idle", "begun", "stepped"
    netOp,    \* net: the row being written, blob NoRow for a removal
    dartPc,   \* dart: "boot", "create", "select", "scan", "row", "done"
    ahead,    \* dart: hashes of the rows the SELECT has still to return
    row,      \* dart: the row being loaded
    handed,   \* hashes given to async_add_torrent by this process's scan
    crashes,  \* how much of its bound is used
    acked,    \* history: the rows according to the calls that reached their end
    early,    \* history: calls of this process that returned early
    due       \* history: rows the scan owes the session

fileVars == <<schema, disk>>
connVars == <<db, work, tx>>
netVars  == <<held, netPc, netOp>>
dartVars == <<dartPc, ahead, row, handed>>
history  == <<acked, early, due>>
vars == <<fileVars, connVars, netVars, dartVars, crashes, history>>

Rows == [Hashes -> Blobs \cup {Empty, NoRow}]
Ops  == [hash : Hashes, blob : Blobs \cup {NoRow}]
Read == [hash : Hashes, blob : Blobs \cup {Empty}]

TypeOK ==
    /\ schema \in {"absent", "current", "legacy"}
    /\ disk \in Rows /\ work \in Rows /\ acked \in Rows
    /\ db \in {"closed", "open", "sick"}
    /\ tx \in BOOLEAN
    /\ held \in Nat /\ early \in Nat
    /\ netPc \in {"idle", "begun", "stepped"}
    /\ netOp \in Ops \cup {None}
    /\ netPc # "idle" => netOp \in Ops
    /\ dartPc \in {"boot", "create", "select", "scan", "row", "done"}
    /\ ahead \subseteq Hashes
    /\ row \in Read \cup {None}
    /\ dartPc = "row" => row \in Read
    /\ handed \subseteq Hashes
    /\ due \subseteq Hashes
    /\ crashes \in 0..MaxCrashes

Present(t) == {h \in Hashes : t[h] # NoRow}

-----------------------------------------------------------------------------
(* The process: its start, and its end at any moment.                        *)

\* The file is what an earlier process left: no table yet, a table with
\* today's columns, or one that an older version created without them.
Init ==
    /\ schema \in {"absent", "current", "legacy"}
    /\ disk \in Rows
    /\ schema = "absent" => Present(disk) = {}
    /\ work = disk /\ acked = disk
    /\ db = "closed" /\ tx = FALSE
    /\ held = 0 /\ netPc = "idle" /\ netOp = None
    /\ dartPc = "boot" /\ ahead = {} /\ row = None /\ handed = {}
    /\ crashes = 0
    /\ early = 0 /\ due = {}

\* Memory is lost, the file stays: an open transaction is rolled back.
Die ==
    /\ work' = disk /\ acked' = disk
    /\ db' = "closed" /\ tx' = FALSE
    /\ held' = 0 /\ netPc' = "idle" /\ netOp' = None
    /\ dartPc' = "boot" /\ ahead' = {} /\ row' = None /\ handed' = {}
    /\ early' = 0 /\ due' = {}
    /\ UNCHANGED fileVars

Crash ==
    /\ crashes < MaxCrashes
    /\ crashes' = crashes + 1
    /\ Die

-----------------------------------------------------------------------------
(* dart: lt_init_session_db                                                  *)

OpenDb ==
    /\ dartPc = "boot"
    /\ \/ db' = "open" /\ dartPc' = "create"
       \/ "open" \in Faults /\ db' = "sick" /\ dartPc' = "done"
    /\ UNCHANGED <<fileVars, work, tx, netVars, ahead, row, handed,
                   crashes, history>>

\* CREATE TABLE IF NOT EXISTS; a failure is logged and the load goes on.
CreateTable ==
    /\ dartPc = "create" /\ held = 0
    /\ \/ schema' = IF schema = "absent" THEN "current" ELSE schema
       \/ "create" \in Faults /\ UNCHANGED schema
    /\ dartPc' = "select"
    /\ UNCHANGED <<disk, connVars, netVars, ahead, row, handed, crashes,
                   history>>

AnyColumns == schema # "absent"     \* variant: only columns of any version
HasColumns == schema = "current"    \* the table has name and save_path

\* SELECT resume, name, save_path compiles only against today's columns.
PrepareSelect ==
    /\ dartPc = "select" /\ held = 0
    /\ \/ /\ HasColumns
          /\ ahead' = Present(work)
          /\ due' = {h \in Hashes : work[h] \in Decodable}
          /\ dartPc' = "scan"
       \/ /\ ~HasColumns \/ "select" \in Faults
          /\ dartPc' = "done"
          /\ UNCHANGED <<ahead, due>>
    /\ UNCHANGED <<fileVars, connVars, netVars, row, handed, crashes,
                   acked, early>>

\* sqlite3_step returns one of the rows ahead.  The rows come in rowid order,
\* which no property tells apart: any of them is next.  Its columns are the
\* statement's own copy from here on.
FetchRow ==
    /\ dartPc = "scan" /\ held = 0
    /\ \E h \in ahead : /\ row' = [hash |-> h, blob |-> work[h]]
                        /\ ahead' = ahead \ {h}
    /\ dartPc' = "row"
    /\ UNCHANGED <<fileVars, connVars, netVars, handed, crashes, history>>

OneRowOnly == TRUE           \* variant: "if" in place of "while"
NoRowLeft  == ahead = {}     \* sqlite3_step no longer answers SQLITE_ROW

\* SQLITE_DONE, or an error that ends the load.
ScanEnds ==
    /\ dartPc = "scan" /\ held = 0
    /\ NoRowLeft \/ "fetch" \in Faults
    /\ ahead' = {}
    /\ dartPc' = "done"
    /\ UNCHANGED <<fileVars, connVars, netVars, row, handed, crashes,
                   history>>

\* The row is handed to the session, or skipped: it has no bytes, or
\* async_add_torrent throws, which is caught and logged.  That reading the
\* columns waits for the mutex as well is left out: the model allows more.
LoadRow ==
    /\ dartPc = "row"
    /\ \/ row.blob \in Decodable /\ handed' = handed \cup {row.hash}
       \/ row.blob = Empty /\ UNCHANGED handed
       \/ row.blob \in Decodable /\ "post" \in Faults /\ UNCHANGED handed
    /\ dartPc' = "scan" /\ row' = None
    /\ UNCHANGED <<fileVars, connVars, netVars, ahead, crashes, history>>

\* read_resume_data throws on a blob it cannot decode.  The call stands
\* outside the try block, and nothing above it catches: the process ends.
UndecodableRow ==
    /\ dartPc = "row"
    /\ row.blob \notin Decodable \cup {Empty}
    /\ Die
    /\ UNCHANGED crashes

-----------------------------------------------------------------------------
(* net: lt_update_resume_data and lt_remove_resume_data                      *)

\* The callback has torrents to report on once the scan has started, or later.
TorrentsMayExist == dartPc \in {"scan", "row", "done"}

NoBegin    == tx             \* variant: BEGIN forgotten
AfterBegin == tx \/ db = "open"

Rollback == disk             \* variant: ROLLBACK in place of END
AfterEnd == work

NoLeave(n)    == n           \* variant: sqlite3_mutex_leave forgotten
LeaveTwice(n) == n - 2       \* variant: a second sqlite3_mutex_leave
Leave(n)      == n - 1

\* sqlite3_mutex_enter, then BEGIN, whose result is ignored: inside an open
\* transaction, without a usable connection, or when it fails, it changes
\* nothing and the call goes on.
Begin(op) ==
    /\ netPc = "idle" /\ TorrentsMayExist /\ early < MaxEarly
    /\ held' = held + 1
    /\ \/ tx' = AfterBegin
       \/ "begin" \in Faults /\ UNCHANGED tx
    /\ netPc' = "begun" /\ netOp' = op
    /\ UNCHANGED <<fileVars, db, work, dartVars, crashes, history>>

\* REPLACE names all of today's columns, DELETE only the hash.
Compiles(op) == HasColumns \/ (op.blob = NoRow /\ schema # "absent")

\* The statement runs: REPLACE puts its row after all others, where a scan in
\* progress meets it (again), and DELETE takes it out of the scan's way.
\* Outside a transaction the statement commits by itself.
RunStatement ==
    /\ netPc = "begun"
    /\ db = "open" /\ Compiles(netOp)
    /\ work' = [work EXCEPT ![netOp.hash] = netOp.blob]
    /\ disk' = IF tx THEN disk ELSE work'
    /\ ahead' = IF dartPc \notin {"scan", "row"} THEN ahead
                ELSE IF netOp.blob = NoRow THEN ahead \ {netOp.hash}
                ELSE ahead \cup {netOp.hash}
    /\ due' = IF netOp.blob = NoRow THEN due \ {netOp.hash} ELSE due
    /\ netPc' = "stepped"
    /\ UNCHANGED <<schema, db, tx, held, netOp, dartPc, row, handed,
                   crashes, acked, early>>

\* A prepare, bind or step that fails returns at once: the transaction stays
\* open, unless SQLite rolls it back by itself, and the mutex stays entered.
ReturnEarly ==
    /\ netPc = "begun"
    /\ db # "open" \/ ~Compiles(netOp) \/ "statement" \in Faults
    /\ \/ UNCHANGED <<work, tx>>
       \/ "rollback" \in Faults /\ tx /\ tx' = FALSE /\ work' = disk
    /\ netPc' = "idle" /\ netOp' = None
    /\ early' = early + 1
    /\ UNCHANGED <<fileVars, db, held, dartVars, crashes, acked,
                   due>>

\* A rollback gives the rows of the transaction their old places back, which
\* the scan may have behind it or still ahead.
RolledBack ==
    /\ tx' = FALSE /\ work' = disk
    /\ IF dartPc \in {"scan", "row"} THEN ahead' \in SUBSET Present(disk)
       ELSE UNCHANGED ahead

\* END TRANSACTION, whose result is ignored too, then sqlite3_mutex_leave.  An
\* END that fails keeps the transaction, unless SQLite rolls it back by itself.
EndTransaction ==
    /\ netPc = "stepped"
    /\ \/ disk' = AfterEnd /\ tx' = FALSE /\ UNCHANGED <<work, ahead>>
       \/ "commit" \in Faults /\ UNCHANGED <<disk, tx, work, ahead>>
       \/ {"commit", "rollback"} \subseteq Faults /\ tx /\ RolledBack /\ UNCHANGED disk
    /\ held' = Leave(held)
    /\ netPc' = "idle" /\ netOp' = None
    /\ acked' = [acked EXCEPT ![netOp.hash] = netOp.blob]
    /\ UNCHANGED <<schema, db, dartPc, row, handed, crashes, early, due>>

-----------------------------------------------------------------------------
Dart == OpenDb \/ CreateTable \/ PrepareSelect \/ FetchRow \/ ScanEnds
        \/ LoadRow \/ UndecodableRow

FinishOp == RunStatement \/ ReturnEarly \/ EndTransaction

Next == \/ Dart
        \/ \E op \in Ops : Begin(op)
        \/ FinishOp
        \/ Crash

Spec == Init /\ [][Next]_vars

\* A thread that can go on does: the operating system schedules both, and the
\* net thread finishes the call it is in.  Nothing forces a save or a crash.
FairSpec == Spec /\ WF_vars(Dart) /\ WF_vars(FinishOp)

-----------------------------------------------------------------------------
(* Properties                                                                *)

\* Each save or removal reaches the file whole: at its END, where nothing
\* becomes durable but all the connection reads, or, if BEGIN failed, at the
\* statement, and then nothing but its own row.  What a failed call or END
\* falls back to, and what a new process finds, is the file as it was.  With
\* BEGIN and END that work, each END has one row written and nothing else.
Map == INSTANCE ResumeMap WITH
           Values <- Blobs \cup {Empty, NoRow},
           Begins <- "begin" \notin Faults, Commits <- "commit" \notin Faults,
           view <- work, durable <- disk, calling <- netPc = "stepped"
ImplementsResumeMap == Map!Spec

\* As long as END itself does not fail, an update or removal that returned
\* normally is in the file from then on, in the order of the calls, and one
\* that returned early left nothing behind, although it leaves the
\* transaction open for the next call to run in.  A call in progress is not in
\* the file before its END, unless its BEGIN failed.
AckedDurable ==
    "commit" \notin Faults =>
        \/ disk = acked
        \/ /\ "begin" \in Faults /\ netPc = "stepped"
           /\ disk = [acked EXCEPT ![netOp.hash] = netOp.blob]

\* The mutex of the connection is entered once per call in progress, and once
\* more for ever for each call of this process that returned early.
MutexAccounting == held = early + IF netPc = "idle" THEN 0 ELSE 1

\* One call that returns early while the load goes on stops it for good: as
\* long as this process lives, lt_init_session does not return.
EarlyReturnEndsTheLoad == [][early > 0 /\ dartPc' = "done" => dartPc = "done"]_vars

\* Of the table of an older version nothing is loaded, and nothing is saved in
\* it, by this process or a later one; rows are only ever removed.  An update
\* that failed in it leaves no trace, not even in a removal's transaction.
LegacyTableOnlyShrinks ==
    [][schema = "legacy" =>
          /\ schema' = "legacy" /\ handed' = {}
          /\ \A h \in Hashes : disk'[h] \in {disk[h], NoRow}]_vars

\* When the load is over, every readable row found when it began and not
\* removed meanwhile was handed to the session, although the callback
\* replaces and deletes rows under the open SELECT.  A failed END can put a
\* row back behind the scan, so it is excluded.
LoadMissesNothing ==
    dartPc = "done" /\ Faults \cap {"fetch", "post", "commit"} = {}
        => due \subseteq handed

\* lt_init_session returns to the application, unless the callback makes calls
\* for ever: nothing that it did to the mutex or to the rows under the scan
\* keeps the load from its end once it makes no more.  Under calls without
\* end nothing is promised: a waiting thread may never get SQLite's mutex, and
\* every REPLACE puts its row ahead of the scan again.
LoadTerminates == []<>(netPc = "begun") \/ <>[](dartPc = "done")

\* sqlite3.h has every user of the connection's mutex leave it after the last
\* call it made on the connection.
MutexReleased == netPc = "idle" => held = 0

\* sql.hpp says of CREATE_TABLE_SQL that it adds the name column to a table
\* that lacks it, so the SELECT finds its columns.
TableMigrated == dartPc = "select" => schema = "current"

\* sql.cpp says of its loop that it loads all torrents of the previous
\* session: a readable row the scan finds reaches the session.
AllLoaded ==
    \A h \in Hashes :
        dartPc = "scan" /\ h \in due ~> h \in handed \/ disk[h] \notin Decodable
=============================================================================
