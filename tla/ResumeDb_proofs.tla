--------------------------- MODULE ResumeDb_proofs ---------------------------
(* Proofs about ResumeDb, for every set of hashes and blobs, every choice of *)
(* the calls that may fail and every bound on updates and crashes.           *)
EXTENDS ResumeDb, TLAPS

Scanning == dartPc \in {"scan", "row"}

\* The callback makes no call before the scan, and nothing is owed then.
Booting ==
    dartPc \in {"boot", "create", "select"} =>
        /\ netPc = "idle"
        /\ due = {}

\* The rows ahead of the scan exist.  After a call that returned early the
\* table may lose one to a rollback, but then the scan is locked out.
AheadExists == Scanning /\ early = 0 => \A h \in ahead : work[h] # NoRow

\* TypeOK and MutexAccounting are inductive together with these two.
TypeInv == TypeOK /\ MutexAccounting /\ Booting /\ AheadExists

-----------------------------------------------------------------------------
(* The type invariant and the account of the mutex                           *)

\* The initial states satisfy the strengthened type invariant.
LEMMA InitTypeInv == Init => TypeInv
<1> SUFFICES ASSUME Init PROVE TypeInv
  OBVIOUS
<1>1. TypeOK
  <2>1. 0 \in 0..MaxCrashes
    BY ConstantsAssumption
  <2>2. /\ disk \in Rows /\ work \in Rows /\ acked \in Rows
        /\ tx \in BOOLEAN
    BY DEF Init
  <2> QED
    BY <2>1, <2>2 DEF Init, TypeOK
<1>2. MutexAccounting
  BY DEF Init, MutexAccounting
<1>3. Booting /\ AheadExists
  BY DEF Init, Booting, AheadExists, Scanning
<1> QED
  BY <1>1, <1>2, <1>3 DEF TypeInv

\* A process that ends leaves a state in which the next one can start.
LEMMA DieTypeInv ==
    ASSUME TypeInv, Die, crashes' \in 0..MaxCrashes
    PROVE  TypeInv'
<1>1. TypeOK'
  BY DEF Die, TypeInv, TypeOK, fileVars
<1>2. MutexAccounting'
  BY DEF Die, MutexAccounting
<1>3. Booting' /\ AheadExists'
  BY DEF Die, Booting, AheadExists, Scanning
<1> QED
  BY <1>1, <1>2, <1>3 DEF TypeInv

\* Every step preserves the strengthened type invariant.
LEMMA NextTypeInv == TypeInv /\ [Next]_vars => TypeInv'
<1> SUFFICES ASSUME TypeInv, [Next]_vars PROVE TypeInv'
  OBVIOUS
<1> USE ConstantsAssumption
    DEF TypeInv, TypeOK, MutexAccounting, Booting, AheadExists, Scanning,
        fileVars, connVars, netVars, dartVars, history
<1>1. CASE OpenDb
  BY <1>1 DEF OpenDb
<1>2. CASE CreateTable
  BY <1>2 DEF CreateTable
<1>3. CASE PrepareSelect
  BY <1>3 DEF PrepareSelect, Present, Rows
<1>4. CASE FetchRow
  <2>1. held = 0 /\ early = 0 /\ netPc = "idle"
    BY <1>4 DEF FetchRow
  <2>2. PICK h \in ahead : /\ row' = [hash |-> h, blob |-> work[h]]
                           /\ ahead' = ahead \ {h}
    BY <1>4 DEF FetchRow
  <2>3. row' \in Read
    BY <1>4, <2>1, <2>2 DEF FetchRow, Rows, Read
  <2> QED
    BY <1>4, <2>1, <2>2, <2>3 DEF FetchRow
<1>5. CASE ScanEnds
  BY <1>5 DEF ScanEnds
<1>6. CASE LoadRow
  BY <1>6 DEF LoadRow, Read
<1>7. CASE UndecodableRow
  BY <1>7, DieTypeInv DEF UndecodableRow
<1>8. ASSUME NEW op \in Ops, Begin(op) PROVE TypeInv'
  <2>1. tx' \in BOOLEAN
    BY <1>8 DEF Begin, AfterBegin
  <2> QED
    BY <1>8, <2>1 DEF Begin, TorrentsMayExist
<1>9. CASE RunStatement
  <2>1. netOp \in Ops /\ work' \in Rows /\ disk' \in Rows
    BY <1>9 DEF RunStatement, Rows, Ops
  <2>2. AheadExists'
    BY <1>9, <2>1 DEF RunStatement, Rows, Ops
  <2> QED
    BY <1>9, <2>1, <2>2 DEF RunStatement, Ops
<1>10. CASE ReturnEarly
  <2>1. CASE UNCHANGED <<work, tx>>
    BY <1>10, <2>1 DEF ReturnEarly
  <2>2. CASE tx' = FALSE /\ work' = disk
    <3>1. TypeOK'
      BY <1>10, <2>2 DEF ReturnEarly
    <3>2. MutexAccounting' /\ Booting'
      BY <1>10, <2>2 DEF ReturnEarly
    <3>3. AheadExists'
      BY <1>10 DEF ReturnEarly
    <3> QED
      BY <3>1, <3>2, <3>3
  <2> QED
    BY <1>10, <2>1, <2>2 DEF ReturnEarly
<1>11. CASE EndTransaction
  <2>0. \/ disk' = work /\ UNCHANGED <<work, ahead>>
        \/ UNCHANGED <<disk, work, ahead>>
        \/ RolledBack /\ UNCHANGED disk
    BY <1>11 DEF EndTransaction, AfterEnd
  <2>1. netOp \in Ops /\ disk' \in Rows /\ work' \in Rows /\ acked' \in Rows
    BY <1>11, <2>0 DEF EndTransaction, Rows, Ops, RolledBack
  <2>2. held' = early
    BY <1>11 DEF EndTransaction, Leave
  <2>3. tx' \in BOOLEAN
    BY <1>11 DEF EndTransaction, RolledBack
  <2>a. ahead' \subseteq Hashes
    BY <2>0 DEF RolledBack, Present
  <2>4. TypeOK'
    BY <1>11, <2>1, <2>2, <2>3, <2>a DEF EndTransaction
  <2>5. MutexAccounting' /\ Booting'
    BY <1>11, <2>2 DEF EndTransaction
  <2>6. AheadExists'
    BY <1>11, <2>0 DEF EndTransaction, RolledBack, Present
  <2> QED
    BY <2>4, <2>5, <2>6
<1>12. CASE Crash
  BY <1>12, DieTypeInv DEF Crash
<1>13. CASE UNCHANGED vars
  BY <1>13 DEF vars
<1> QED
  BY <1>1, <1>2, <1>3, <1>4, <1>5, <1>6, <1>7, <1>8, <1>9, <1>10, <1>11,
     <1>12, <1>13
  DEF Next, Dart, FinishOp

\* All reachable states satisfy the strengthened type invariant.
THEOREM TypeInvariance == Spec => []TypeInv
BY InitTypeInv, NextTypeInv, PTL DEF Spec

\* Every variable of the resume table keeps to its type: no call leaves a
\* mutex more often than it entered it, and the scan never returns a row that
\* is not there.
THEOREM TypeCorrect == Spec => []TypeOK
BY TypeInvariance, PTL DEF TypeInv

\* The mutex is held by the call in progress and by every call that returned
\* early, and by nothing else.
THEOREM MutexIsAccountedFor == Spec => []MutexAccounting
BY TypeInvariance, PTL DEF TypeInv

-----------------------------------------------------------------------------
(* What returned normally is on disk                                         *)

\* Unless BEGIN fails it takes effect for every statement that can run; the
\* rows the connection has differ from the file's by the statement in progress
\* only, and outside a transaction by nothing.
BegunInTx == "begin" \notin Faults /\ netPc # "idle" /\ db = "open" => tx
Stepped   == netPc = "stepped" => db = "open"
InTxOnly  == ~tx => work = disk
WorkIsAcked ==
    "commit" \notin Faults =>
        IF netPc = "stepped"
        THEN /\ work = [acked EXCEPT ![netOp.hash] = netOp.blob]
             /\ tx => disk = acked
        ELSE work = acked /\ disk = acked

AckInv == BegunInTx /\ Stepped /\ InTxOnly /\ WorkIsAcked

\* The initial states satisfy AckInv.
LEMMA InitAckInv == Init => AckInv
BY DEF Init, AckInv, BegunInTx, Stepped, InTxOnly, WorkIsAcked

\* Every step preserves AckInv.
LEMMA NextAckInv == TypeInv /\ AckInv /\ [Next]_vars => AckInv'
<1> SUFFICES ASSUME TypeInv, AckInv, [Next]_vars PROVE AckInv'
  OBVIOUS
<1> USE DEF AckInv, BegunInTx, Stepped, InTxOnly, WorkIsAcked, fileVars, connVars,
            netVars, dartVars, history
<1>1. CASE OpenDb
  BY <1>1 DEF OpenDb, TypeInv, Booting
<1>2. CASE CreateTable \/ PrepareSelect \/ FetchRow \/ ScanEnds \/ LoadRow
  BY <1>2 DEF CreateTable, PrepareSelect, FetchRow, ScanEnds, LoadRow
<1>3. CASE Die
  BY <1>3 DEF Die
<1>4. ASSUME NEW op \in Ops, Begin(op) PROVE AckInv'
  <2>1. /\ netPc = "idle" /\ netPc' = "begun"
        /\ UNCHANGED <<disk, db, work, acked>>
    BY <1>4 DEF Begin
  <2>2. tx' = AfterBegin \/ ("begin" \in Faults /\ tx' = tx)
    BY <1>4, Zenon DEF Begin
  <2>3. (tx => tx') /\ ("begin" \notin Faults /\ db = "open" => tx')
    BY <2>2, Zenon DEF AfterBegin
  <2> QED
    BY <2>1, <2>3
<1>5. CASE RunStatement
  BY <1>5 DEF RunStatement
<1>6. CASE ReturnEarly
  BY <1>6 DEF ReturnEarly
<1>7. CASE EndTransaction
  <2>1. (BegunInTx /\ Stepped)'
    BY <1>7 DEF EndTransaction
  <2>2. InTxOnly'
    BY <1>7 DEF EndTransaction, AfterEnd, RolledBack
  <2>3. WorkIsAcked'
    BY <1>7 DEF EndTransaction, AfterEnd, RolledBack
  <2> QED
    BY <2>1, <2>2, <2>3
<1>8. CASE UNCHANGED vars
  BY <1>8 DEF vars
<1> QED
  BY <1>1, <1>2, <1>3, <1>4, <1>5, <1>6, <1>7, <1>8
  DEF Next, Dart, FinishOp, UndecodableRow, Crash

\* As long as END itself does not fail, the file has exactly the updates and
\* removals that returned normally, in their order, and of a call in progress
\* nothing, unless its BEGIN failed: then it has that call's row already.
THEOREM AckedIsDurable == Spec => []AckedDurable
<1>1. AckInv => AckedDurable
  BY DEF AckInv, BegunInTx, Stepped, InTxOnly, WorkIsAcked, AckedDurable
<1> QED
  BY <1>1, InitAckInv, TypeInvariance, NextAckInv, PTL DEF Spec

-----------------------------------------------------------------------------
(* The load misses nothing                                                   *)

\* What the scan owes is handed over, ahead of it, or in its hands.
DueAccounted ==
    Faults \cap {"fetch", "post", "commit"} = {} =>
        \A h \in due : /\ dartPc = "scan" => h \in handed \cup ahead
                       /\ dartPc = "row" => h \in handed \cup ahead \cup {row.hash}
                       /\ dartPc = "done" => h \in handed

\* A row that was readable when the load began still has bytes when it comes.
DueHasBytes ==
    /\ Scanning /\ early = 0 /\ "commit" \notin Faults
          => \A h \in due : work[h] # Empty
    /\ "commit" \notin Faults /\ dartPc = "row" /\ row.hash \in due => row.blob # Empty

DueInv == DueAccounted /\ DueHasBytes

\* Every step preserves DueInv.
LEMMA NextDueInv == TypeInv /\ DueInv /\ [Next]_vars => DueInv'
<1> SUFFICES ASSUME TypeInv, DueInv, [Next]_vars PROVE DueInv'
  OBVIOUS
<1> USE ConstantsAssumption
    DEF DueInv, DueAccounted, DueHasBytes, Scanning, fileVars, connVars,
        netVars, dartVars, history
<1>1. CASE OpenDb
  BY <1>1 DEF OpenDb, TypeInv, Booting
<1>2. CASE CreateTable
  BY <1>2 DEF CreateTable
<1>3. CASE PrepareSelect
  BY <1>3 DEF PrepareSelect, Present, TypeInv, Booting
<1>4. CASE FetchRow
  BY <1>4 DEF FetchRow, TypeInv, MutexAccounting, TypeOK
<1>5. CASE ScanEnds
  BY <1>5 DEF ScanEnds, NoRowLeft
<1>6. CASE LoadRow
  BY <1>6 DEF LoadRow
<1>7. CASE Die
  BY <1>7 DEF Die
<1>8. ASSUME NEW op \in Ops, Begin(op) PROVE DueInv'
  BY <1>8 DEF Begin
<1>9. CASE RunStatement
  <2>1. netOp.hash \in Hashes /\ netOp.blob # Empty
    BY <1>9 DEF RunStatement, TypeInv, TypeOK, Ops
  <2>2. \A h \in due' : h \in due /\ (work'[h] = work[h] \/ work'[h] = netOp.blob)
    BY <1>9 DEF RunStatement, TypeInv, TypeOK, Rows
  <2> QED
    BY <1>9, <2>1, <2>2 DEF RunStatement
<1>10. CASE ReturnEarly
  BY <1>10 DEF ReturnEarly, TypeInv, TypeOK
<1>11. CASE EndTransaction
  BY <1>11 DEF EndTransaction
<1>12. CASE UNCHANGED vars
  BY <1>12 DEF vars
<1> QED
  BY <1>1, <1>2, <1>3, <1>4, <1>5, <1>6, <1>7, <1>8, <1>9, <1>10, <1>11,
     <1>12
  DEF Next, Dart, FinishOp, UndecodableRow, Crash

\* The scan ends with every readable row of its beginning handed over, but for
\* rows removed meanwhile, unless stepping or posting a row or END fails.
THEOREM LoadIsComplete == Spec => []LoadMissesNothing
<1>1. Init => DueInv
  BY DEF Init, DueInv, DueAccounted, DueHasBytes, Scanning
<1>2. DueInv => LoadMissesNothing
  BY DEF DueInv, DueAccounted, LoadMissesNothing
<1> QED
  BY <1>1, <1>2, TypeInvariance, NextDueInv, PTL DEF Spec

-----------------------------------------------------------------------------
(* The table implements the abstract map                                     *)

\* Initial states map to initial states.
LEMMA InitRefines == Init => Map!Init
BY DEF Init, Map!Init, Rows

\* Every step is a step of the map or changes nothing of it: a statement in a
\* transaction writes the view and leaves the file alone, and one outside
\* writes through, where view and file were the same.
LEMMA NextRefines ==
    TypeInv /\ AckInv /\ [Next]_vars => [Map!Next]_(Map!mapVars)
<1> SUFFICES ASSUME TypeInv, AckInv, [Next]_vars
             PROVE  [Map!Next]_(Map!mapVars)
  OBVIOUS
<1> USE DEF Map!Next, Map!mapVars, fileVars, connVars, netVars, dartVars
<1>1. CASE OpenDb \/ CreateTable \/ PrepareSelect \/ FetchRow \/ ScanEnds
           \/ LoadRow
  BY <1>1
  DEF OpenDb, CreateTable, PrepareSelect, FetchRow, ScanEnds, LoadRow
<1>2. CASE Die
  <2>1. Map!Restart
    BY <1>2 DEF Die, Map!Restart
  <2> QED
    BY <2>1
<1>3. ASSUME NEW op \in Ops, Begin(op)
      PROVE  UNCHANGED Map!mapVars
  BY <1>3 DEF Begin
<1>4. CASE RunStatement
  <2>1. netOp.hash \in Hashes /\ netOp.blob \in Blobs \cup {Empty, NoRow}
    BY <1>4 DEF RunStatement, TypeInv, TypeOK, Ops
  <2>2. /\ netPc = "begun" /\ netPc' = "stepped" /\ db = "open"
        /\ work' = [work EXCEPT ![netOp.hash] = netOp.blob]
        /\ disk' = IF tx THEN disk ELSE work'
    BY <1>4 DEF RunStatement
  <2>3. CASE tx
    <3>1. Map!Write(netOp.hash, netOp.blob)
      BY <2>2, <2>3 DEF Map!Write
    <3> QED
      BY <2>1, <3>1
  <2>4. CASE ~tx
    <3>1. "begin" \in Faults /\ work = disk
      BY <2>2, <2>4 DEF AckInv, BegunInTx, InTxOnly
    <3>2. Map!WriteThrough(netOp.hash, netOp.blob)
      BY <2>2, <2>4, <3>1 DEF Map!WriteThrough
    <3> QED
      BY <2>1, <3>2
  <2> QED
    BY <2>3, <2>4
<1>5. CASE ReturnEarly
  <2>1. netPc = "begun" /\ netPc' = "idle"
    BY <1>5 DEF ReturnEarly
  <2>2. Map!Fail \/ UNCHANGED <<work, disk>>
    BY <1>5, <2>1 DEF ReturnEarly, Map!Fail
  <2> QED
    BY <2>1, <2>2
<1>6. CASE EndTransaction
  <2>1. netPc = "stepped" /\ netPc' = "idle"
    BY <1>6 DEF EndTransaction
  <2>2. CASE disk' = work /\ UNCHANGED work
    <3>1. Map!End
      BY <2>1, <2>2 DEF Map!End
    <3> QED
      BY <3>1
  <2>3. CASE "commit" \in Faults /\ work' \in {work, disk} /\ UNCHANGED disk
    <3>1. Map!EndFails
      BY <2>1, <2>3 DEF Map!EndFails
    <3> QED
      BY <3>1
  <2> QED
    BY <1>6, <2>2, <2>3 DEF EndTransaction, AfterEnd, RolledBack
<1>7. CASE UNCHANGED vars
  BY <1>7 DEF vars
<1> QED
  BY <1>1, <1>2, <1>3, <1>4, <1>5, <1>6, <1>7
  DEF Next, Dart, FinishOp, UndecodableRow, Crash

\* Whatever fails, BEGIN and END included, and whenever the process dies, the
\* table behaves as the map of ResumeMap: no process meets half of an update or
\* of a removal, and where BEGIN and END work nothing is in the file before the
\* END of its call.
THEOREM Refinement == Spec => ImplementsResumeMap
BY InitRefines, NextRefines, InitAckInv, NextAckInv, TypeInvariance, PTL
DEF Spec, ImplementsResumeMap, Map!Spec
-----------------------------------------------------------------------------
(* A call that returned early, and a table that is not today's               *)

\* No call has returned early before the scan began.
NoneEarly == ~Scanning /\ dartPc # "done" => early = 0

\* Rows of a table without today's columns are never read, only deleted.
ColumnsNeeded ==
    schema # "current" =>
        /\ ~Scanning /\ handed = {}
        /\ \A h \in Hashes : work[h] \in {disk[h], NoRow}

StuckInv == NoneEarly /\ ColumnsNeeded

\* Every step preserves StuckInv.
LEMMA NextStuckInv == TypeInv /\ StuckInv /\ [Next]_vars => StuckInv'
<1> SUFFICES ASSUME TypeInv, StuckInv, [Next]_vars PROVE StuckInv'
  OBVIOUS
<1> USE DEF StuckInv, NoneEarly, ColumnsNeeded, Scanning, HasColumns, vars, fileVars, connVars,
            netVars, dartVars, history
<1>1. CASE OpenDb \/ CreateTable \/ PrepareSelect
  BY <1>1 DEF OpenDb, CreateTable, PrepareSelect
<1>2. CASE FetchRow \/ ScanEnds \/ LoadRow
  BY <1>2 DEF FetchRow, ScanEnds, LoadRow
<1>3. CASE Die
  BY <1>3 DEF Die
<1>4. ASSUME NEW op \in Ops, Begin(op) PROVE StuckInv'
  BY <1>4 DEF Begin
<1>5. CASE RunStatement
  <2>1. netOp \in Ops /\ (schema # "current" => netOp.blob = NoRow)
    BY <1>5 DEF RunStatement, Compiles, TypeInv, TypeOK
  <2> QED BY <1>5, <2>1 DEF RunStatement, TypeInv, TypeOK, Rows, Ops
<1>a. CASE EndTransaction
  BY <1>a DEF EndTransaction, AfterEnd, RolledBack
<1>6. CASE ReturnEarly
  <2>1. dartPc \notin {"boot", "create", "select"}
    BY <1>6 DEF ReturnEarly, TypeInv, Booting
  <2> QED BY <1>6, <2>1 DEF ReturnEarly, TypeInv, TypeOK
<1>7. CASE UNCHANGED vars
  BY <1>7
<1> QED BY <1>1, <1>2, <1>3, <1>4, <1>5, <1>a, <1>6, <1>7
        DEF Next, Dart, FinishOp, UndecodableRow, Crash

\* All reachable states satisfy StuckInv.
THEOREM StuckInvariance == Spec => [](TypeInv /\ StuckInv)
<1>1. Init => StuckInv
  BY DEF Init, StuckInv, NoneEarly, ColumnsNeeded, Scanning, Rows
<1> QED BY <1>1, TypeInvariance, NextStuckInv, PTL DEF Spec

\* After an early return under the load, lt_init_session does not return as
\* long as the process lives: the mutex stays entered, and every way to the
\* end of the load calls SQLite.
THEOREM EarlyReturnIsFatal == Spec => EarlyReturnEndsTheLoad
<1>1. ASSUME TypeInv, StuckInv, [Next]_vars, early > 0, dartPc' = "done"
      PROVE  dartPc = "done"
  <2> SUFFICES ASSUME dartPc # "done" PROVE FALSE
    OBVIOUS
  <2>1. Scanning /\ held # 0
    BY <1>1 DEF StuckInv, NoneEarly, TypeInv, TypeOK, MutexAccounting
  <2>2. CASE Dart
    BY <1>1, <2>1, <2>2 DEF Scanning, Dart, OpenDb, CreateTable, PrepareSelect, FetchRow,
                            ScanEnds, LoadRow, UndecodableRow, Die
  <2>3. ASSUME NEW op \in Ops, Begin(op) PROVE FALSE
    BY <1>1, <2>3 DEF Begin, dartVars
  <2>4. CASE FinishOp
    BY <1>1, <2>4 DEF FinishOp, RunStatement, ReturnEarly, EndTransaction, dartVars
  <2>5. CASE Crash
    BY <1>1, <2>5 DEF Crash, Die
  <2>6. CASE UNCHANGED vars
    BY <1>1, <2>6 DEF vars, dartVars
  <2> QED BY <1>1, <2>2, <2>3, <2>4, <2>5, <2>6 DEF Next
<1>2. TypeInv /\ StuckInv /\ [Next]_vars
      => [early > 0 /\ dartPc' = "done" => dartPc = "done"]_vars
  BY <1>1
<1> QED BY <1>2, StuckInvariance, PTL DEF Spec, EarlyReturnEndsTheLoad

\* The table of an older version keeps its columns, nothing of it is loaded and
\* no row of it changes but to go, whatever this process and later ones call.
THEOREM LegacyOnlyShrinks == Spec => LegacyTableOnlyShrinks
<1> DEFINE Shrinks == /\ schema' = "legacy" /\ handed' = {}
                      /\ \A h \in Hashes : disk'[h] \in {disk[h], NoRow}
<1> USE DEF fileVars, connVars, netVars, dartVars, history
<1>1. ASSUME TypeInv, StuckInv, [Next]_vars, schema = "legacy" PROVE Shrinks
  <2>1. /\ ~Scanning /\ handed = {}
        /\ \A h \in Hashes : work[h] \in {disk[h], NoRow}
    BY <1>1 DEF StuckInv, ColumnsNeeded
  <2>2. CASE Dart
    BY <1>1, <2>1, <2>2 DEF Scanning, Dart, OpenDb, CreateTable, PrepareSelect, FetchRow,
                            ScanEnds, LoadRow, UndecodableRow, Die, HasColumns
  <2>3. CASE RunStatement
    <3>1. netOp \in Ops /\ netOp.blob = NoRow
      BY <1>1, <2>3 DEF RunStatement, Compiles, HasColumns, TypeInv, TypeOK
    <3> QED BY <1>1, <2>1, <2>3, <3>1 DEF RunStatement, TypeInv, TypeOK, Rows, Ops
  <2>4. CASE ReturnEarly \/ EndTransaction
    BY <1>1, <2>1, <2>4 DEF ReturnEarly, EndTransaction, AfterEnd, RolledBack
  <2> QED BY <1>1, <2>1, <2>2, <2>3, <2>4 DEF FinishOp, Next, Begin, Crash, Die, vars
<1>2. TypeInv /\ StuckInv /\ [Next]_vars => [schema = "legacy" => Shrinks]_vars
  BY <1>1
<1> QED BY <1>2, StuckInvariance, PTL DEF Spec, LegacyTableOnlyShrinks
=============================================================================
