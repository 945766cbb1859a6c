-------------------------- MODULE Persistence_proofs --------------------------
(* Proofs about Persistence, for every set of hashes and blobs, every number *)
(* of alerts that may wait and every choice of the calls that may fail.      *)
EXTENDS Persistence, ResumeDb_proofs

-----------------------------------------------------------------------------
(* The callback's use of the table is a use of the table                     *)

\* A step of Persistence is a step of ResumeDb or leaves the table alone.
LEMMA StepOfTable == PTypeOK /\ [PNext]_allVars => [Next]_vars
<1> SUFFICES ASSUME PTypeOK, [PNext]_allVars PROVE [Next]_vars
  OBVIOUS
<1>1. CASE Load \/ ContinueCall \/ PCrash
  BY <1>1 DEF Load, ContinueCall, PCrash, Next
<1>2. CASE HandleAlert
  <2>1. Head(alerts) \in Ops
    BY <1>2 DEF HandleAlert, PTypeOK
  <2> QED BY <1>2, <2>1 DEF HandleAlert, Dispatch, Next
<1>3. ASSUME NEW h \in Hashes, NEW b \in Blobs,
             AddTorrent(h) \/ RemoveTorrent(h) \/ SaveResumeData(h, b)
      PROVE  UNCHANGED vars
  BY <1>3 DEF AddTorrent, RemoveTorrent, SaveResumeData
<1>4. ASSUME NEW h \in Hashes, AddTorrent(h) \/ RemoveTorrent(h)
      PROVE  UNCHANGED vars
  BY <1>4 DEF AddTorrent, RemoveTorrent
<1>5. CASE UNCHANGED allVars
  BY <1>5 DEF allVars
<1> QED BY <1>1, <1>2, <1>3, <1>4, <1>5 DEF PNext

PTypeInv == TypeInv /\ PTypeOK

\* An alert at the end of the queue, and one taken from its beginning.
LEMMA QueueTypes ==
    ASSUME NEW q \in Seq(Ops)
    PROVE  /\ \A op \in Ops : /\ Append(q, op) \in Seq(Ops)
                              /\ Len(Append(q, op)) = Len(q) + 1
           /\ q # <<>> => Tail(q) \in Seq(Ops) /\ Len(Tail(q)) < Len(q)
OBVIOUS

\* The initial states satisfy PTypeInv.
LEMMA InitPTypeInv == PInit => PTypeInv
<1> SUFFICES ASSUME PInit PROVE PTypeInv
  OBVIOUS
<1>1. TypeInv
  BY InitTypeInv DEF PInit
<1>2. alerts \in Seq(Ops) /\ Len(alerts) = 0
  BY DEF PInit
<1> QED BY <1>1, <1>2, MaxAlertsAssumption DEF PInit, PTypeInv, PTypeOK, TypeInv

\* Every step preserves PTypeInv.
LEMMA NextPTypeInv == PTypeInv /\ [PNext]_allVars => PTypeInv'
<1> SUFFICES ASSUME PTypeInv, [PNext]_allVars PROVE PTypeInv'
  OBVIOUS
<1>1. TypeInv' /\ TypeOK'
  BY StepOfTable, NextTypeInv DEF PTypeInv, TypeInv
<1>2. /\ live \subseteq Hashes /\ kept \subseteq Hashes /\ gone \subseteq Hashes
      /\ alerts \in Seq(Ops) /\ Len(alerts) <= MaxAlerts /\ Len(alerts) \in Nat
      /\ MaxAlerts \in Nat
  BY MaxAlertsAssumption DEF PTypeInv, PTypeOK
<1>3. alerts' \in Seq(Ops) /\ Len(alerts') <= MaxAlerts
  <2>1. CASE UNCHANGED alerts
    BY <1>2, <2>1
  <2>2. CASE alerts' = <<>>
    <3>1. Len(alerts') = 0
      BY <2>2
    <3> QED BY <1>2, <2>2, <3>1
  <2>3. CASE HandleAlert
    BY <1>2, <2>3, QueueTypes DEF HandleAlert
  <2>4. ASSUME NEW op \in Ops, Room, alerts' = Append(alerts, op)
        PROVE  alerts' \in Seq(Ops) /\ Len(alerts') <= MaxAlerts
    BY <1>2, <2>4, QueueTypes DEF Room
  <2>5. ASSUME NEW h \in Hashes, RemoveTorrent(h)
        PROVE  alerts' \in Seq(Ops) /\ Len(alerts') <= MaxAlerts
    BY <2>4, <2>5 DEF RemoveTorrent, Removal, Ops
  <2>6. ASSUME NEW h \in Hashes, NEW b \in Blobs, SaveResumeData(h, b)
        PROVE  alerts' \in Seq(Ops) /\ Len(alerts') <= MaxAlerts
    BY <2>4, <2>6 DEF SaveResumeData, Ops
  <2>7. CASE Load
    BY <2>1, <2>2, <2>7 DEF Load
  <2> QED BY <2>1, <2>2, <2>3, <2>5, <2>6, <2>7
          DEF PNext, allVars, envVars, AddTorrent, ContinueCall, PCrash
<1>4. live' \subseteq Hashes
  <2>1. handed' \subseteq Hashes
    BY <1>1 DEF TypeOK
  <2> QED BY <1>2, <2>1 DEF PNext, allVars, envVars, Load, HandleAlert, ContinueCall,
             AddTorrent, RemoveTorrent, SaveResumeData, PCrash
<1>5. kept' \subseteq Hashes /\ gone' \subseteq Hashes
  <2>1. CASE ContinueCall
    <3>1. Completes \subseteq Hashes
      BY DEF Completes, EndTransaction, PTypeInv, TypeInv, TypeOK, Ops
    <3> QED BY <1>2, <2>1, <3>1 DEF ContinueCall
  <2> QED BY <1>2, <2>1 DEF PNext, allVars, envVars, Load, HandleAlert, AddTorrent,
             RemoveTorrent, SaveResumeData, PCrash
<1> QED BY <1>1, <1>3, <1>4, <1>5 DEF PTypeInv, PTypeOK

\* The torrents, the alerts that wait and the table keep to their types.
THEOREM PTypeCorrect == PSpec => []PTypeOK
<1>1. PTypeInv => PTypeOK
  BY DEF PTypeInv
<1> QED BY <1>1, InitPTypeInv, NextPTypeInv, PTL DEF PSpec

\* Whatever the callback and the application do, the table sees calls that
\* ResumeDb allows: what is proved of ResumeDb holds here.
THEOREM UsesTable == PSpec => Spec
<1>1. PTypeInv => PTypeOK
  BY DEF PTypeInv
<1>2. PInit => Init
  BY DEF PInit
<1> QED BY <1>1, <1>2, InitPTypeInv, NextPTypeInv, StepOfTable, PTL DEF PSpec, Spec

\* Saves and removals that returned normally are durable, whatever the
\* application and the alerts do.
THEOREM PAckedIsDurable == PSpec => []AckedDurable
BY UsesTable, AckedIsDurable, PTL

\* The load of a process that has the callback running misses no row.
THEOREM PLoadIsComplete == PSpec => []LoadMissesNothing
BY UsesTable, LoadIsComplete, PTL

\* Table, callback and application together implement the abstract map.
THEOREM PRefinement == PSpec => ImplementsResumeMap
BY UsesTable, Refinement, PTL

\* A save or removal that fails under the load stops lt_init_session for good,
\* with the alerts as they really come.
THEOREM PEarlyReturnIsFatal == PSpec => EarlyReturnEndsTheLoad
BY UsesTable, EarlyReturnIsFatal, PTL

\* Of a table of an older version the callback loads and saves nothing.
THEOREM PLegacyOnlyShrinks == PSpec => LegacyTableOnlyShrinks
BY UsesTable, LegacyOnlyShrinks, PTL

-----------------------------------------------------------------------------
(* A removed torrent stays removed                                           *)

\* Removals are asked for once lt_init_session has returned.
RemovalsLate ==
    dartPc # "done" =>
        /\ \A i \in 1..Len(alerts) : alerts[i].blob # NoRow
        /\ netPc # "idle" => netOp.blob # NoRow

\* Of a torrent that has left the session no save waits without the removal
\* behind it.
SavesThenRemoval(q, l) ==
    \A i \in 1..Len(q) :
        q[i].hash \notin l =>
            q[i].blob = NoRow \/ \E j \in i + 1..Len(q) : q[j] = Removal(q[i].hash)

\* Nothing is left of a torrent that is gone.
NothingLeft(h) ==
    /\ h \notin live
    /\ disk[h] = NoRow /\ work[h] = NoRow
    /\ \A i \in 1..Len(alerts) : alerts[i].hash # h
    /\ netPc # "idle" => netOp.hash # h
    /\ dartPc # "done" => h \notin ahead \cup handed
    /\ dartPc = "row" => row.hash # h

GoneInv == "commit" \notin Faults => \A h \in gone : NothingLeft(h)

RemovalInv == RemovalsLate /\ SavesThenRemoval(alerts, live) /\ GoneInv

\* Taking the first alert, and adding one, keeps saves before removals.
LEMMA SavesAtTail ==
    ASSUME NEW q \in Seq(Ops), q # <<>>, NEW l, SavesThenRemoval(q, l)
    PROVE  SavesThenRemoval(Tail(q), l)
<1> DEFINE r == Tail(q)
<1>1. /\ Len(q) \in Nat \ {0} /\ Len(r) = Len(q) - 1
      /\ \A i \in 1..Len(r) : r[i] = q[i + 1] /\ i + 1 \in 1..Len(q)
  OBVIOUS
<1> HIDE DEF r
<1> SUFFICES ASSUME NEW i \in 1..Len(r), r[i].hash \notin l, r[i].blob # NoRow
             PROVE  \E j \in i + 1..Len(r) : r[j] = Removal(r[i].hash)
  BY DEF SavesThenRemoval, r
<1>2. PICK k \in i + 2..Len(q) : q[k] = Removal(r[i].hash)
  <2>1. PICK k \in (i + 1) + 1..Len(q) : q[k] = Removal(q[i + 1].hash)
    BY <1>1 DEF SavesThenRemoval
  <2> QED BY <1>1, <2>1
<1>3. k - 1 \in i + 1..Len(r) /\ r[k - 1] = q[k]
  BY <1>1
<1> QED BY <1>2, <1>3

LEMMA SavesAtAppend ==
    ASSUME NEW q \in Seq(Ops), NEW l, NEW m, SavesThenRemoval(q, l), NEW op \in Ops,
           \A h : h \in l /\ h \notin m => op = Removal(h),
           op.hash \in m \/ op.blob = NoRow
    PROVE  SavesThenRemoval(Append(q, op), m)
<1> DEFINE r == Append(q, op)
<1>1. /\ Len(q) \in Nat /\ Len(r) = Len(q) + 1 /\ r[Len(r)] = op
      /\ \A i \in 1..Len(q) : r[i] = q[i]
  OBVIOUS
<1> HIDE DEF r
<1> SUFFICES ASSUME NEW i \in 1..Len(r), r[i].hash \notin m, r[i].blob # NoRow
             PROVE  \E j \in i + 1..Len(r) : r[j] = Removal(r[i].hash)
  BY DEF SavesThenRemoval, r
<1>2. i \in 1..Len(q) /\ r[i] = q[i]
  BY <1>1
<1>3. CASE q[i].hash \in l
  <2>1. r[Len(r)] = Removal(r[i].hash) /\ Len(r) \in i + 1..Len(r)
    BY <1>1, <1>2, <1>3
  <2> QED BY <2>1
<1>4. CASE q[i].hash \notin l
  <2>1. PICK j \in i + 1..Len(q) : q[j] = Removal(q[i].hash)
    BY <1>2, <1>4 DEF SavesThenRemoval
  <2>2. j \in i + 1..Len(r) /\ r[j] = q[j]
    BY <1>1, <2>1
  <2> QED BY <1>2, <2>1, <2>2
<1> QED BY <1>3, <1>4

\* More torrents in the session ask for less.
LEMMA SavesOfMore ==
    ASSUME NEW q, NEW l, NEW m, l \subseteq m, SavesThenRemoval(q, l)
    PROVE  SavesThenRemoval(q, m)
BY DEF SavesThenRemoval

\* The initial states satisfy RemovalInv.
LEMMA InitRemovalInv == PInit => RemovalInv
<1> SUFFICES ASSUME PInit PROVE RemovalInv
  OBVIOUS
<1>1. Len(alerts) = 0 /\ \A i \in 1..Len(alerts) : FALSE
  BY DEF PInit
<1> QED BY <1>1 DEF PInit, Init, RemovalInv, RemovalsLate, SavesThenRemoval, GoneInv

\* A process that ends leaves no torrent, no alert and no call behind.
LEMMA EndOfProcess ==
    ASSUME PTypeInv, RemovalInv, Die, live' = {}, alerts' = <<>>, gone' = gone
    PROVE  RemovalInv'
<1>1. Len(alerts') = 0 /\ \A i \in 1..Len(alerts') : FALSE
  OBVIOUS
<1>2. RemovalsLate' /\ SavesThenRemoval(alerts', live')
  BY <1>1 DEF Die, RemovalsLate, SavesThenRemoval
<1>3. GoneInv'
  BY <1>1 DEF Die, fileVars, RemovalInv, GoneInv, NothingLeft
<1> QED BY <1>2, <1>3 DEF RemovalInv

\* Every step of the load preserves RemovalInv.
LEMMA LoadRemovalInv == ASSUME PTypeInv, RemovalInv, Load PROVE RemovalInv'
<1> USE DEF fileVars, connVars, netVars, dartVars, history
<1>1. CASE UndecodableRow
  <2>1. Die /\ live' = {} /\ alerts' = <<>> /\ gone' = gone
    BY <1>1 DEF Load, UndecodableRow, Die
  <2> QED BY <2>1, EndOfProcess
<1>2. CASE ~UndecodableRow
  <2>1. /\ live' = handed' \cup live /\ UNCHANGED <<alerts, gone, netPc, netOp, disk, work>>
        /\ dartPc # "done"
    BY <1>2 DEF Load, Dart, OpenDb, CreateTable, PrepareSelect, FetchRow, ScanEnds, LoadRow
  <2>2. RemovalsLate'
    BY <2>1 DEF RemovalInv, RemovalsLate
  <2>3. SavesThenRemoval(alerts', live')
    BY <2>1, SavesOfMore DEF RemovalInv
  <2>4. ASSUME NEW h, NothingLeft(h) PROVE NothingLeft(h)'
    <3>1. CASE OpenDb \/ CreateTable
      BY <2>1, <2>4, <3>1 DEF OpenDb, CreateTable, NothingLeft
    <3>2. CASE PrepareSelect
      BY <2>1, <2>4, <3>2 DEF PrepareSelect, Present, NothingLeft
    <3>3. CASE FetchRow
      BY <2>1, <2>4, <3>3 DEF FetchRow, NothingLeft
    <3>4. CASE ScanEnds
      BY <2>1, <2>4, <3>4 DEF ScanEnds, NothingLeft
    <3>5. CASE LoadRow
      BY <2>1, <2>4, <3>5 DEF LoadRow, NothingLeft
    <3> QED BY <1>2, <3>1, <3>2, <3>3, <3>4, <3>5 DEF Load, Dart
  <2>5. GoneInv'
    BY <2>1, <2>4 DEF RemovalInv, GoneInv
  <2> QED BY <2>2, <2>3, <2>5 DEF RemovalInv
<1> QED BY <1>1, <1>2

\* The callback takes up an alert.
LEMMA HandleRemovalInv == ASSUME PTypeInv, RemovalInv, HandleAlert PROVE RemovalInv'
<1>1. /\ alerts \in Seq(Ops) /\ alerts # <<>> /\ alerts' = Tail(alerts)
      /\ Len(alerts) \in Nat \ {0} /\ Len(alerts') = Len(alerts) - 1
      /\ \A i \in 1..Len(alerts') : alerts'[i] = alerts[i + 1] /\ i + 1 \in 1..Len(alerts)
      /\ netOp' = alerts[1] /\ 1 \in 1..Len(alerts)
  <2>1. alerts \in Seq(Ops) /\ alerts # <<>> /\ alerts' = Tail(alerts) /\ netOp' = Head(alerts)
    BY DEF HandleAlert, Dispatch, Begin, PTypeInv, PTypeOK
  <2> QED BY <2>1
<1>2. UNCHANGED <<live, gone, disk, work, dartPc, ahead, row, handed>>
  BY DEF HandleAlert, Dispatch, Begin, fileVars, dartVars
<1>3. RemovalsLate'
  BY <1>1, <1>2 DEF RemovalInv, RemovalsLate
<1>4. SavesThenRemoval(alerts', live')
  BY <1>1, <1>2, SavesAtTail DEF RemovalInv
<1>5. ASSUME NEW h, NothingLeft(h) PROVE NothingLeft(h)'
  BY <1>1, <1>2, <1>5 DEF NothingLeft
<1>6. GoneInv'
  BY <1>2, <1>5 DEF RemovalInv, GoneInv
<1> QED BY <1>3, <1>4, <1>6 DEF RemovalInv

\* The call goes on, and a removal that is complete leaves nothing behind.
LEMMA ContinueRemovalInv ==
    ASSUME PTypeInv, AckInv, RemovalInv, ContinueCall PROVE RemovalInv'
<1> USE DEF fileVars, connVars, netVars, dartVars, history
<1>1. /\ UNCHANGED <<live, alerts, dartPc, row, handed>>
      /\ netPc # "idle" /\ netOp \in Ops
      /\ netPc' # "idle" => netOp' = netOp
  BY DEF ContinueCall, FinishOp, RunStatement, ReturnEarly, EndTransaction,
         PTypeInv, TypeInv, TypeOK
<1>2. RemovalsLate'
  BY <1>1 DEF RemovalInv, RemovalsLate
<1>3. SavesThenRemoval(alerts', live')
  BY <1>1 DEF RemovalInv
<1>4. ASSUME NEW h \in Hashes, NothingLeft(h) PROVE NothingLeft(h)'
  <2>1. CASE RunStatement
    BY <1>1, <1>4, <2>1 DEF RunStatement, NothingLeft, PTypeInv, TypeInv, TypeOK, Rows
  <2>2. CASE ReturnEarly
    BY <1>1, <1>4, <2>2 DEF ReturnEarly, NothingLeft
  <2>3. CASE EndTransaction
    BY <1>1, <1>4, <2>3 DEF EndTransaction, AfterEnd, RolledBack, Present, NothingLeft
  <2> QED BY <2>1, <2>2, <2>3 DEF ContinueCall, FinishOp
<1>5. ASSUME "commit" \notin Faults, EndTransaction, netOp.blob = NoRow,
             netOp.hash \notin live, ~Queued(Removal(netOp.hash))
      PROVE  \A h : h = netOp.hash => NothingLeft(h)'
  <2> SUFFICES ASSUME NEW h, h = netOp.hash PROVE NothingLeft(h)'
    OBVIOUS
  <2>1. netOp = Removal(h) /\ h \in Hashes
    BY <1>1, <1>5 DEF Removal, Ops
  <2>2. disk' = work /\ work' = work /\ work[h] = NoRow
    BY <1>1, <1>5, <2>1
    DEF EndTransaction, AfterEnd, RolledBack, AckInv, InTxOnly, WorkIsAcked, PTypeInv, TypeInv, TypeOK, Rows
  <2>3. ASSUME NEW i \in 1..Len(alerts), alerts[i].hash = h PROVE FALSE
    <3>1. alerts[i].blob = NoRow \/ \E j \in i + 1..Len(alerts) : alerts[j] = Removal(h)
      BY <1>5, <2>3 DEF RemovalInv, SavesThenRemoval
    <3>2. Len(alerts) \in Nat /\ alerts[i] \in Ops
      BY DEF PTypeInv, PTypeOK
    <3>3. \E j \in 1..Len(alerts) : alerts[j] = Removal(h)
      BY <2>3, <3>1, <3>2 DEF Removal, Ops
    <3> QED BY <1>5, <2>1, <3>3 DEF Queued
  <2>4. dartPc = "done"
    BY <1>1, <1>5 DEF RemovalInv, RemovalsLate
  <2>5. netPc' = "idle"
    BY <1>5 DEF EndTransaction
  <2> QED BY <1>1, <1>5, <2>2, <2>3, <2>4, <2>5 DEF NothingLeft
<1>6. GoneInv'
  <2> SUFFICES ASSUME "commit" \notin Faults, NEW h \in gone' PROVE NothingLeft(h)'
    BY DEF GoneInv
  <2>1. CASE h \in gone
    BY <1>4, <2>1 DEF RemovalInv, GoneInv, PTypeInv, PTypeOK
  <2>2. CASE h \notin gone
    <3>1. EndTransaction /\ netOp.blob = NoRow /\ netOp.hash \notin live
          /\ ~Queued(Removal(netOp.hash)) /\ h = netOp.hash
      BY <2>2 DEF ContinueCall, Completes
    <3> QED BY <1>5, <3>1
  <2> QED BY <2>1, <2>2
<1> QED BY <1>2, <1>3, <1>6 DEF RemovalInv

\* The application adds and removes torrents, and the session saves.
LEMMA SessionRemovalInv ==
    ASSUME PTypeInv, RemovalInv, NEW h \in Hashes, NEW b \in Blobs \cup {NoRow},
           \/ AddTorrent(h) \/ RemoveTorrent(h)
           \/ b # NoRow /\ SaveResumeData(h, b)
    PROVE  RemovalInv'
<1>1. /\ UNCHANGED vars
      /\ UNCHANGED <<dartPc, netPc, netOp, disk, work, ahead, row, handed>>
      /\ alerts \in Seq(Ops)
  BY DEF AddTorrent, RemoveTorrent, SaveResumeData, vars, fileVars, connVars, netVars,
         dartVars, PTypeInv, PTypeOK
<1>2. CASE AddTorrent(h)
  <2>1. RemovalsLate' /\ SavesThenRemoval(alerts', live')
    BY <1>1, <1>2, SavesOfMore DEF AddTorrent, RemovalInv, RemovalsLate
  <2>2. GoneInv'
    BY <1>1, <1>2 DEF AddTorrent, RemovalInv, GoneInv, NothingLeft
  <2> QED BY <2>1, <2>2 DEF RemovalInv
<1>3. ASSUME NEW op \in Ops, alerts' = Append(alerts, op), op.hash \in live,
             live' \subseteq live, gone' = gone,
             \A g : g \in live /\ g \notin live' => op = Removal(g),
             op.hash \in live' \/ op.blob = NoRow,
             dartPc = "done" \/ op.blob # NoRow
      PROVE  RemovalInv'
  <2>1. /\ Len(alerts') = Len(alerts) + 1 /\ Len(alerts) \in Nat
        /\ \A i \in 1..Len(alerts') : IF i = Len(alerts') THEN alerts'[i] = op
                                      ELSE i \in 1..Len(alerts) /\ alerts'[i] = alerts[i]
    BY <1>1, <1>3
  <2>2. RemovalsLate'
    BY <1>1, <1>3, <2>1 DEF RemovalInv, RemovalsLate
  <2>3. SavesThenRemoval(alerts', live')
    BY <1>1, <1>3, SavesAtAppend DEF RemovalInv
  <2>4. ASSUME NEW g, NothingLeft(g) PROVE NothingLeft(g)'
    BY <1>1, <1>3, <2>1, <2>4 DEF NothingLeft
  <2>5. GoneInv'
    BY <1>3, <2>4 DEF RemovalInv, GoneInv
  <2> QED BY <2>2, <2>3, <2>5 DEF RemovalInv
<1>4. CASE RemoveTorrent(h)
  <2>1. /\ Removal(h) \in Ops /\ Removal(h).hash = h /\ Removal(h).blob = NoRow
        /\ live' = live \ {h} /\ h \in live
    BY <1>4 DEF RemoveTorrent, Removal, Ops
  <2> QED BY <1>3, <1>4, <2>1 DEF RemoveTorrent
<1>5. CASE b # NoRow /\ SaveResumeData(h, b)
  <2>1. [hash |-> h, blob |-> b] \in Ops
    BY DEF Ops
  <2> QED BY <1>3, <1>5, <2>1 DEF SaveResumeData
<1> QED BY <1>2, <1>4, <1>5

\* Every step preserves RemovalInv.
LEMMA NextRemovalInv ==
    PTypeInv /\ AckInv /\ RemovalInv /\ [PNext]_allVars => RemovalInv'
<1> SUFFICES ASSUME PTypeInv, AckInv, RemovalInv, [PNext]_allVars PROVE RemovalInv'
  OBVIOUS
<1>1. CASE PCrash
  <2>1. Die /\ live' = {} /\ alerts' = <<>> /\ gone' = gone
    BY <1>1 DEF PCrash, Crash
  <2> QED BY <2>1, EndOfProcess
<1>2. CASE UNCHANGED allVars
  BY <1>2 DEF allVars, vars, envVars, fileVars, connVars, netVars, dartVars,
              RemovalInv, RemovalsLate, SavesThenRemoval, GoneInv, NothingLeft
<1>3. ASSUME NEW h \in Hashes, AddTorrent(h) \/ RemoveTorrent(h) PROVE RemovalInv'
  BY <1>3, SessionRemovalInv
<1>4. ASSUME NEW h \in Hashes, NEW b \in Blobs, SaveResumeData(h, b) PROVE RemovalInv'
  BY <1>4, SessionRemovalInv, ConstantsAssumption
<1> QED BY <1>1, <1>2, <1>3, <1>4, LoadRemovalInv, HandleRemovalInv, ContinueRemovalInv
        DEF PNext

\* All reachable states satisfy what is needed of the table and the removals.
THEOREM RemovalInvariance == PSpec => [](PTypeInv /\ AckInv /\ RemovalInv)
<1>1. PTypeInv => PTypeOK /\ TypeInv
  BY DEF PTypeInv
<1>2. PInit => Init
  BY DEF PInit
<1> QED BY <1>1, <1>2, InitPTypeInv, NextPTypeInv, StepOfTable, InitAckInv, NextAckInv,
           InitRemovalInv, NextRemovalInv, PTL DEF PSpec

\* A torrent the user removed does not come back, once its row is deleted.
THEOREM RemovedStay == PSpec => []RemovedStaysRemoved
<1>1. RemovalInv => RemovedStaysRemoved
  BY DEF RemovalInv, GoneInv, NothingLeft, RemovedStaysRemoved
<1> QED BY <1>1, RemovalInvariance, PTL

-----------------------------------------------------------------------------
(* A row has a torrent                                                       *)

\* Its torrent is in the session, or its removal is on the way.
Owned(h) == \/ h \in live
            \/ Queued(Removal(h))
            \/ netPc # "idle" /\ netOp = Removal(h)

\* A save that is being written is of a torrent of the session, or the removal
\* waits behind it.
SaveIsOwned ==
    netPc # "idle" /\ netOp.blob # NoRow =>
        netOp.hash \in live \/ Queued(Removal(netOp.hash))

\* The load has handed a row with bytes over, or has it in hand or ahead.
RowIsOwned(h) ==
    /\ dartPc = "scan" => Owned(h) \/ h \in ahead
    /\ dartPc = "row" => \/ Owned(h) \/ h \in ahead
                         \/ h = row.hash /\ row.blob \in Blobs
    /\ dartPc = "done" /\ schema = "current" /\ db = "open" => Owned(h)

RowsOwned == Loads /\ early = 0 => \A h \in Hashes : disk[h] \in Blobs => RowIsOwned(h)

OwnerInv == SaveIsOwned /\ RowsOwned

\* The initial states satisfy OwnerInv.
LEMMA InitOwnerInv == PInit => OwnerInv
BY DEF PInit, Init, OwnerInv, SaveIsOwned, RowsOwned, RowIsOwned

\* Every step of the load preserves OwnerInv.
LEMMA LoadOwnerInv == ASSUME PTypeInv, AckInv, OwnerInv, Load PROVE OwnerInv'
<1> USE DEF fileVars, connVars, netVars, dartVars, history
<1>1. CASE UndecodableRow
  BY <1>1 DEF UndecodableRow, Die, OwnerInv, SaveIsOwned, RowsOwned, RowIsOwned
<1>2. CASE ~UndecodableRow
  <2>1. /\ live' = handed' \cup live
        /\ UNCHANGED <<alerts, netPc, netOp, disk, work, early>>
    BY <1>2 DEF Load, Dart, OpenDb, CreateTable, PrepareSelect, FetchRow, ScanEnds, LoadRow
  <2>2. \A h : Owned(h) => Owned(h)'
    BY <2>1 DEF Owned, Queued, Removal
  <2>3. SaveIsOwned'
    BY <2>1 DEF OwnerInv, SaveIsOwned, Queued, Removal
  <2>4. ASSUME Loads, early = 0, NEW h \in Hashes, disk[h] \in Blobs
        PROVE  RowIsOwned(h)'
    <3> USE ConstantsAssumption
    <3>1. RowIsOwned(h)
      BY <2>4 DEF OwnerInv, RowsOwned
    <3>2. held = 0 => work = disk
      BY <2>4 DEF PTypeInv, TypeInv, TypeOK, MutexAccounting, AckInv, InTxOnly, WorkIsAcked, Loads
    <3>3. CASE OpenDb
      BY <3>3 DEF OpenDb, RowIsOwned
    <3>4. CASE CreateTable
      BY <3>4 DEF CreateTable, RowIsOwned
    <3>5. CASE PrepareSelect
      <4>1. h \in Present(work)
        BY <2>4, <3>2, <3>5 DEF PrepareSelect, Present
      <4> QED BY <2>4, <3>5, <4>1 DEF PrepareSelect, HasColumns, RowIsOwned, Loads
    <3>6. CASE FetchRow
      <4>1. work = disk
        BY <3>2, <3>6 DEF FetchRow
      <4> QED BY <2>2, <2>4, <3>1, <3>6, <4>1 DEF FetchRow, RowIsOwned
    <3>7. CASE ScanEnds
      BY <2>2, <2>4, <3>1, <3>7 DEF ScanEnds, NoRowLeft, RowIsOwned, Loads
    <3>8. CASE LoadRow
      <4>1. row.blob \in Blobs => row.hash \in live'
        BY <2>1, <2>4, <3>8 DEF LoadRow, Loads
      <4> QED BY <2>2, <2>4, <3>1, <3>8, <4>1 DEF LoadRow, RowIsOwned, Owned
    <3> QED BY <1>2, <3>3, <3>4, <3>5, <3>6, <3>7, <3>8 DEF Load, Dart
  <2>5. RowsOwned'
    BY <2>1, <2>4 DEF RowsOwned
  <2> QED BY <2>3, <2>5 DEF OwnerInv
<1> QED BY <1>1, <1>2

\* The callback takes up an alert.
LEMMA HandleOwnerInv ==
    ASSUME PTypeInv, RemovalInv, OwnerInv, HandleAlert PROVE OwnerInv'
<1>1. /\ alerts \in Seq(Ops) /\ alerts # <<>> /\ netPc = "idle" /\ netPc' # "idle"
      /\ alerts' = Tail(alerts) /\ netOp' = alerts[1]
      /\ UNCHANGED <<live, disk, dartPc, ahead, row, schema, db, early>>
  BY DEF HandleAlert, Dispatch, Begin, PTypeInv, PTypeOK, fileVars, dartVars, history
<1>2. /\ Len(alerts) \in Nat \ {0} /\ Len(alerts') = Len(alerts) - 1
      /\ \A i \in 1..Len(alerts') : alerts'[i] = alerts[i + 1]
      /\ 1 \in 1..Len(alerts) /\ alerts[1] \in Ops
  BY <1>1
<1>3. \A i \in 2..Len(alerts) : i - 1 \in 1..Len(alerts') /\ alerts'[i - 1] = alerts[i]
  BY <1>2
<1>4. SaveIsOwned'
  <2> SUFFICES ASSUME alerts[1].blob # NoRow, alerts[1].hash \notin live
               PROVE  \E i \in 1..Len(alerts') : alerts'[i] = Removal(alerts[1].hash)
    BY <1>1 DEF SaveIsOwned, Queued, Removal
  <2>1. PICK j \in 1 + 1..Len(alerts) : alerts[j] = Removal(alerts[1].hash)
    BY <1>2 DEF RemovalInv, SavesThenRemoval
  <2>2. j - 1 \in 1..Len(alerts') /\ alerts'[j - 1] = Removal(alerts[1].hash)
    BY <1>3, <2>1
  <2> QED BY <2>2
<1>5. ASSUME NEW h, Owned(h) PROVE Owned(h)'
  <2>1. CASE Queued(Removal(h))
    <3>1. PICK i \in 1..Len(alerts) : alerts[i] = Removal(h)
      BY <2>1 DEF Queued
    <3>2. CASE i = 1
      BY <1>1, <3>1, <3>2 DEF Owned, Removal
    <3>3. CASE i # 1
      <4>1. i - 1 \in 1..Len(alerts') /\ alerts'[i - 1] = Removal(h)
        BY <1>2, <1>3, <3>1, <3>3
      <4> QED BY <4>1 DEF Owned, Queued, Removal
    <3> QED BY <3>2, <3>3
  <2> QED BY <1>1, <1>5, <2>1 DEF Owned
<1>6. RowsOwned'
  BY <1>1, <1>5 DEF OwnerInv, RowsOwned, RowIsOwned, Loads
<1> QED BY <1>4, <1>6 DEF OwnerInv

\* The call goes on.
LEMMA ContinueOwnerInv ==
    ASSUME PTypeInv, AckInv, RemovalInv, OwnerInv, ContinueCall PROVE OwnerInv'
<1> USE DEF fileVars, connVars, netVars, dartVars, history
<1>1. /\ UNCHANGED <<live, alerts, dartPc, row, schema, db>>
      /\ netPc # "idle" /\ netOp \in Ops
      /\ netPc' # "idle" => netOp' = netOp
      /\ netOp.blob # Empty
  BY ConstantsAssumption
  DEF ContinueCall, FinishOp, RunStatement, ReturnEarly, EndTransaction,
      PTypeInv, TypeInv, TypeOK, Ops
<1>2. SaveIsOwned'
  BY <1>1 DEF OwnerInv, SaveIsOwned, Queued, Removal
<1>3. CASE RunStatement
  <2>1. early' = early /\ netPc' = "stepped"
    BY <1>3 DEF RunStatement
  <2>2. \A h : Owned(h) => Owned(h)'
    BY <1>1, <2>1 DEF Owned, Queued, Removal
  <2>3. dartPc \in {"scan", "row"} => ahead \subseteq ahead'
    BY <1>1, <1>3 DEF RunStatement, RemovalInv, RemovalsLate
  <2>4. ASSUME Loads, early = 0, NEW h \in Hashes, disk'[h] \in Blobs PROVE RowIsOwned(h)'
    <3>1. CASE disk[h] \in Blobs
      BY <1>1, <2>2, <2>3, <2>4, <3>1 DEF OwnerInv, RowsOwned, RowIsOwned
    <3>2. CASE disk[h] \notin Blobs
      <4>1. disk' = [disk EXCEPT ![netOp.hash] = netOp.blob]
        BY <1>3, <2>4, <3>2 DEF RunStatement, AckInv, InTxOnly
      <4>2. h = netOp.hash /\ netOp.blob # NoRow
        BY <2>4, <3>2, <4>1, ConstantsAssumption DEF PTypeInv, TypeInv, TypeOK, Rows
      <4>3. Owned(h)'
        BY <1>1, <4>2 DEF OwnerInv, SaveIsOwned, Owned, Queued, Removal
      <4> QED BY <4>3 DEF RowIsOwned
    <3> QED BY <3>1, <3>2
  <2>5. RowsOwned'
    BY <2>1, <2>4 DEF RowsOwned, Loads
  <2> QED BY <1>2, <2>5 DEF OwnerInv
<1>4. CASE ReturnEarly
  <2>1. early' # 0
    BY <1>4 DEF ReturnEarly, PTypeInv, TypeInv, TypeOK
  <2> QED BY <1>2, <2>1 DEF OwnerInv, RowsOwned
<1>5. CASE EndTransaction
  <2> SUFFICES ASSUME Loads, early = 0, NEW h \in Hashes, disk'[h] \in Blobs
               PROVE  RowIsOwned(h)'
    BY <1>2, <1>5 DEF EndTransaction, OwnerInv, RowsOwned, Loads
  <2>1. disk' = [disk EXCEPT ![netOp.hash] = netOp.blob] /\ ahead' = ahead
    BY <1>5 DEF EndTransaction, AfterEnd, RolledBack, AckInv, InTxOnly, WorkIsAcked, Loads
  <2>2. CASE h = netOp.hash
    <3>1. disk'[h] = netOp.blob
      BY <2>1, <2>2 DEF PTypeInv, TypeInv, TypeOK, Rows
    <3>2. netOp.blob # NoRow
      BY <3>1, ConstantsAssumption
    <3>3. h \in live \/ Queued(Removal(h))
      BY <1>1, <2>2, <3>2 DEF OwnerInv, SaveIsOwned
    <3>4. Owned(h)'
      BY <1>1, <3>3 DEF Owned, Queued, Removal
    <3> QED BY <3>4 DEF RowIsOwned
  <2>3. CASE h # netOp.hash
    <3>1. disk[h] \in Blobs
      BY <2>1, <2>3 DEF PTypeInv, TypeInv, TypeOK, Rows
    <3>2. RowIsOwned(h)
      BY <3>1 DEF OwnerInv, RowsOwned
    <3>3. netOp # Removal(h)
      BY <2>3 DEF Removal
    <3>4. Owned(h) => Owned(h)'
      BY <1>1, <3>3 DEF Owned, Queued, Removal
    <3> QED BY <1>1, <2>1, <3>2, <3>4 DEF RowIsOwned
  <2> QED BY <2>2, <2>3
<1> QED BY <1>3, <1>4, <1>5 DEF ContinueCall, FinishOp

\* The application adds and removes torrents, and the session saves.
LEMMA SessionOwnerInv ==
    ASSUME PTypeInv, OwnerInv, NEW h \in Hashes, NEW b,
           AddTorrent(h) \/ RemoveTorrent(h) \/ SaveResumeData(h, b)
    PROVE  OwnerInv'
<1>1. /\ UNCHANGED <<dartPc, netPc, netOp, disk, ahead, row, schema, db, early>>
      /\ alerts \in Seq(Ops)
  BY DEF AddTorrent, RemoveTorrent, SaveResumeData, vars, fileVars, connVars, netVars,
         dartVars, history, PTypeInv, PTypeOK
<1>2. ASSUME NEW g, g \in live \/ Queued(Removal(g))
      PROVE  (g \in live \/ Queued(Removal(g)))'
  <2>1. CASE AddTorrent(h)
    BY <1>2, <2>1 DEF AddTorrent, Queued, Removal
  <2>2. ASSUME NEW op, alerts' = Append(alerts, op) PROVE Queued(op)'
    <3>1. alerts'[Len(alerts')] = op /\ Len(alerts') \in 1..Len(alerts')
      BY <1>1, <2>2
    <3> QED BY <3>1 DEF Queued
  <2>3. ASSUME NEW op, alerts' = Append(alerts, op), Queued(Removal(g))
        PROVE  Queued(Removal(g))'
    <3>1. PICK i \in 1..Len(alerts) : alerts[i] = Removal(g)
      BY <2>3 DEF Queued
    <3>2. i \in 1..Len(alerts') /\ alerts'[i] = alerts[i]
      BY <1>1, <2>3, <3>1
    <3> QED BY <3>1, <3>2 DEF Queued, Removal
  <2>4. CASE RemoveTorrent(h)
    <3>1. CASE g = h
      BY <2>2, <2>4, <3>1 DEF RemoveTorrent, Removal
    <3>2. CASE g # h
      BY <1>2, <2>3, <2>4, <3>2 DEF RemoveTorrent
    <3> QED BY <3>1, <3>2
  <2>5. CASE SaveResumeData(h, b)
    BY <1>2, <2>3, <2>5 DEF SaveResumeData
  <2> QED BY <2>1, <2>4, <2>5
<1>3. \A g : Owned(g) => Owned(g)'
  BY <1>1, <1>2 DEF Owned, Removal
<1>4. SaveIsOwned'
  BY <1>1, <1>2 DEF OwnerInv, SaveIsOwned, Queued, Removal
<1>5. RowsOwned'
  BY <1>1, <1>3 DEF OwnerInv, RowsOwned, RowIsOwned, Loads
<1> QED BY <1>4, <1>5 DEF OwnerInv

\* Every step preserves OwnerInv.
LEMMA NextOwnerInv ==
    PTypeInv /\ AckInv /\ RemovalInv /\ OwnerInv /\ [PNext]_allVars => OwnerInv'
<1> SUFFICES ASSUME PTypeInv, AckInv, RemovalInv, OwnerInv, [PNext]_allVars
             PROVE  OwnerInv'
  OBVIOUS
<1>1. CASE PCrash
  BY <1>1 DEF PCrash, Crash, Die, OwnerInv, SaveIsOwned, RowsOwned, RowIsOwned
<1>2. CASE UNCHANGED allVars
  BY <1>2 DEF allVars, vars, envVars, fileVars, connVars, netVars, dartVars, history,
              OwnerInv, SaveIsOwned, RowsOwned, RowIsOwned, Owned, Queued, Removal, Loads
<1>3. ASSUME NEW h \in Hashes,
             AddTorrent(h) \/ RemoveTorrent(h) \/ \E b \in Blobs : SaveResumeData(h, b)
      PROVE  OwnerInv'
  BY <1>3, SessionOwnerInv
<1> QED BY <1>1, <1>2, <1>3, LoadOwnerInv, HandleOwnerInv, ContinueOwnerInv DEF PNext

\* A row with bytes in it belongs to a torrent of the session, or
\* its removal is on its way to the table.
THEOREM RowsAreOwned == PSpec => []RowsHaveTorrents
<1>1. OwnerInv => RowsHaveTorrents
  BY DEF OwnerInv, RowsOwned, RowIsOwned, Owned, Loads, RowsHaveTorrents
<1> QED BY <1>1, RemovalInvariance, InitOwnerInv, NextOwnerInv, PTL DEF PSpec
-----------------------------------------------------------------------------
(* A saved torrent comes back                                                *)

\* Until the load is over the torrents of the session are those handed to it,
\* from a database that is open.
LoadInv ==
    /\ dartPc # "done" => live = handed
    /\ dartPc = "boot" => handed = {}
    /\ dartPc \notin {"boot", "done"} => db = "open"

\* A save only runs in a table with today's columns.
SteppedCurrent ==
    netPc = "stepped" /\ netOp.blob # NoRow => schema = "current"

\* No removal of the torrent waits or is going on.
Unremoved(h) == ~Queued(Removal(h)) /\ (netPc # "idle" => netOp # Removal(h))

\* The load has the row ahead or in hand, or has handed it over.
OnTheWay(h) ==
    /\ dartPc = "scan" => h \in live \cup ahead
    /\ dartPc = "row" => h \in live \cup ahead \/ (h = row.hash /\ row.blob \in Blobs)
    /\ dartPc = "done" /\ db = "open" => h \in live

Kept(h) == /\ Unremoved(h) /\ schema = "current"
           /\ "commit" \notin Faults => disk[h] \in Blobs /\ work[h] \in Blobs
           /\ Loads => OnTheWay(h)

KeptInv == LoadInv /\ SteppedCurrent /\ \A h \in kept : Kept(h)

\* The initial states satisfy KeptInv.
LEMMA InitKeptInv == PInit => KeptInv
BY DEF PInit, Init, KeptInv, LoadInv, SteppedCurrent

\* A process that ends leaves every row it saved in the file.
LEMMA EndKeepsRows ==
    ASSUME PTypeInv, KeptInv, Die, live' = {}, alerts' = <<>>, kept' = kept
    PROVE  KeptInv'
<1>1. Len(alerts') = 0 /\ \A i \in 1..Len(alerts') : FALSE
  OBVIOUS
<1>2. LoadInv' /\ SteppedCurrent'
  BY DEF Die, LoadInv, SteppedCurrent
<1>3. ASSUME NEW h \in kept PROVE Kept(h)'
  <2>1. Unremoved(h)'
    BY <1>1 DEF Die, Unremoved, Queued
  <2>2. OnTheWay(h)'
    BY DEF Die, OnTheWay
  <2> QED BY <1>3, <2>1, <2>2 DEF Die, fileVars, KeptInv, Kept, Loads
<1> QED BY <1>2, <1>3 DEF KeptInv

\* Every step of the load preserves KeptInv.
LEMMA LoadKeptInv == ASSUME PTypeInv, KeptInv, Load PROVE KeptInv'
<1> USE DEF fileVars, connVars, netVars, dartVars, history
<1>1. CASE UndecodableRow
  <2>1. Die /\ live' = {} /\ alerts' = <<>> /\ kept' = kept
    BY <1>1 DEF Load, UndecodableRow, Die
  <2> QED BY <2>1, EndKeepsRows
<1>2. CASE ~UndecodableRow
  <2>1. /\ live' = handed' \cup live /\ dartPc # "done"
        /\ UNCHANGED <<alerts, kept, netPc, netOp, disk, work>>
        /\ schema = "current" => schema' = "current"
    BY <1>2 DEF Load, Dart, OpenDb, CreateTable, PrepareSelect, FetchRow, ScanEnds, LoadRow
  <2>2. LoadInv'
    <3>1. /\ handed \subseteq handed' /\ dartPc' # "boot"
          /\ dartPc' # "done" => db' = "open"
      BY <1>2 DEF Load, Dart, OpenDb, CreateTable, PrepareSelect, FetchRow, ScanEnds, LoadRow,
                  KeptInv, LoadInv
    <3> QED BY <2>1, <3>1 DEF KeptInv, LoadInv
  <2>3. SteppedCurrent'
    BY <2>1 DEF KeptInv, SteppedCurrent
  <2>4. ASSUME Loads, NEW h \in kept PROVE OnTheWay(h)'
    <3> USE ConstantsAssumption
    <3>1. /\ h \in Hashes /\ OnTheWay(h) /\ schema = "current" /\ work[h] \in Blobs
          /\ Faults \cap {"select", "fetch", "post"} = {}
      BY <2>4 DEF KeptInv, Kept, Loads, PTypeInv, PTypeOK
    <3>2. CASE OpenDb
      BY <3>2 DEF OpenDb, OnTheWay
    <3>3. CASE CreateTable
      BY <3>3 DEF CreateTable, OnTheWay
    <3>4. CASE PrepareSelect
      <4>1. h \in Present(work)
        BY <3>1 DEF Present
      <4> QED BY <3>1, <3>4, <4>1 DEF PrepareSelect, HasColumns, OnTheWay
    <3>5. CASE FetchRow
      BY <2>1, <3>1, <3>5 DEF FetchRow, OnTheWay
    <3>6. CASE ScanEnds
      BY <2>1, <3>1, <3>6 DEF ScanEnds, NoRowLeft, OnTheWay
    <3>7. CASE LoadRow
      <4>1. row.blob \in Blobs => row.hash \in live'
        BY <2>1, <3>1, <3>7 DEF LoadRow
      <4> QED BY <2>1, <3>1, <3>7, <4>1 DEF LoadRow, OnTheWay
    <3> QED BY <1>2, <3>2, <3>3, <3>4, <3>5, <3>6, <3>7 DEF Load, Dart
  <2>5. ASSUME NEW h \in kept PROVE Kept(h)'
    BY <2>1, <2>4, <2>5 DEF KeptInv, Kept, Unremoved, Queued, Removal, Loads
  <2> QED BY <2>1, <2>2, <2>3, <2>5 DEF KeptInv
<1> QED BY <1>1, <1>2

\* The callback takes up an alert.
LEMMA HandleKeptInv == ASSUME PTypeInv, KeptInv, HandleAlert PROVE KeptInv'
<1>1. /\ alerts \in Seq(Ops) /\ alerts # <<>> /\ alerts' = Tail(alerts) /\ netOp' = Head(alerts)
      /\ netPc' = "begun"
      /\ UNCHANGED <<live, kept, schema, disk, work, db, dartPc, ahead, row, handed>>
  BY DEF HandleAlert, Dispatch, Begin, fileVars, dartVars, PTypeInv, PTypeOK
<1>2. /\ Len(alerts) \in Nat \ {0} /\ Len(alerts') = Len(alerts) - 1
      /\ \A i \in 1..Len(alerts') : alerts'[i] = alerts[i + 1] /\ i + 1 \in 1..Len(alerts)
      /\ netOp' = alerts[1] /\ 1 \in 1..Len(alerts)
  BY <1>1
<1>3. ASSUME NEW h, Unremoved(h) PROVE Unremoved(h)'
  BY <1>2, <1>3 DEF Unremoved, Queued, Removal
<1>4. ASSUME NEW h \in kept PROVE Kept(h)'
  BY <1>1, <1>3, <1>4 DEF KeptInv, Kept, OnTheWay, Loads
<1> QED BY <1>1, <1>4 DEF KeptInv, LoadInv, SteppedCurrent

\* The call goes on, and a save that is complete is in the file.
LEMMA ContinueKeptInv == ASSUME PTypeInv, AckInv, KeptInv, ContinueCall PROVE KeptInv'
<1> USE DEF fileVars, connVars, netVars, dartVars, history
<1>1. /\ UNCHANGED <<live, alerts, dartPc, row, handed, schema, db>>
      /\ netPc # "idle" /\ netOp \in Ops
      /\ netPc' # "idle" => netOp' = netOp
  BY DEF ContinueCall, FinishOp, RunStatement, ReturnEarly, EndTransaction,
         PTypeInv, TypeInv, TypeOK
<1>2. LoadInv'
  BY <1>1 DEF KeptInv, LoadInv
<1>3. SteppedCurrent'
  BY <1>1 DEF ContinueCall, FinishOp, RunStatement, ReturnEarly, EndTransaction, KeptInv,
              SteppedCurrent, Compiles, HasColumns
<1>4. ASSUME NEW h \in kept PROVE Kept(h)'
  <2>1. Kept(h) /\ h \in Hashes /\ netOp # Removal(h)
    BY <1>1, <1>4 DEF KeptInv, Kept, Unremoved, PTypeInv, PTypeOK
  <2>2. Unremoved(h)' /\ schema' = "current"
    BY <1>1, <2>1 DEF Kept, Unremoved, Queued, Removal
  <2>3. CASE RunStatement
    <3>1. netOp.hash = h => netOp.blob \in Blobs
      BY <1>1, <2>1 DEF Removal, Ops
    <3>2. disk' \in {disk, work'} /\ work' = [work EXCEPT ![netOp.hash] = netOp.blob]
      BY <2>3 DEF RunStatement
    <3>3. work'[h] = work[h] \/ work'[h] \in Blobs
      BY <2>1, <3>1, <3>2 DEF PTypeInv, TypeInv, TypeOK, Rows
    <3>4. h \in ahead => h \in ahead' \/ dartPc \notin {"scan", "row"}
      BY <2>3, <3>1, ConstantsAssumption DEF RunStatement
    <3>5. OnTheWay(h) => OnTheWay(h)'
      BY <1>1, <3>4 DEF OnTheWay
    <3> QED BY <2>1, <2>2, <3>2, <3>3, <3>5 DEF Kept, Loads
  <2>4. CASE ReturnEarly
    BY <1>1, <2>1, <2>2, <2>4 DEF ReturnEarly, Kept, OnTheWay, Loads
  <2>5. CASE EndTransaction
    BY <1>1, <2>1, <2>2, <2>5 DEF EndTransaction, AfterEnd, Kept, OnTheWay, Loads
  <2> QED BY <2>3, <2>4, <2>5 DEF ContinueCall, FinishOp
<1>5. ASSUME NEW h \in kept' \ kept PROVE Kept(h)'
  <2>1. /\ EndTransaction /\ netOp.blob # NoRow /\ h = netOp.hash /\ h \in live
        /\ ~Queued(Removal(h))
    BY <1>5 DEF ContinueCall, Completes
  <2>2. netOp.blob \in Blobs /\ h \in Hashes
    BY <1>1, <2>1 DEF Ops
  <2>3. netPc = "stepped" /\ netPc' = "idle"
    BY <2>1 DEF EndTransaction
  <2>4. Unremoved(h)' /\ schema' = "current"
    BY <1>1, <2>1, <2>3 DEF KeptInv, SteppedCurrent, Unremoved, Queued, Removal
  <2>5. "commit" \notin Faults => disk'[h] \in Blobs /\ work'[h] \in Blobs
    BY <2>1, <2>2, <2>3
    DEF EndTransaction, AfterEnd, RolledBack, AckInv, InTxOnly, WorkIsAcked, PTypeInv, TypeInv, TypeOK, Rows
  <2>6. OnTheWay(h)'
    BY <1>1, <2>1 DEF OnTheWay
  <2> QED BY <2>4, <2>5, <2>6 DEF Kept
<1> QED BY <1>2, <1>3, <1>4, <1>5 DEF KeptInv

\* The application adds and removes torrents, and the session saves.
LEMMA SessionKeptInv ==
    ASSUME PTypeInv, KeptInv, NEW h \in Hashes, NEW b \in Blobs \cup {NoRow},
           \/ AddTorrent(h) \/ RemoveTorrent(h)
           \/ b # NoRow /\ SaveResumeData(h, b)
    PROVE  KeptInv'
<1>1. /\ UNCHANGED <<schema, disk, work, db, netPc, netOp, dartPc, ahead, row, handed>>
      /\ alerts \in Seq(Ops)
  BY DEF AddTorrent, RemoveTorrent, SaveResumeData, vars, fileVars, connVars, netVars,
         dartVars, PTypeInv, PTypeOK
<1>2. LoadInv' /\ SteppedCurrent'
  BY <1>1 DEF AddTorrent, RemoveTorrent, SaveResumeData, KeptInv, LoadInv, SteppedCurrent
<1>3. ASSUME NEW g, NEW op, ~Queued(Removal(g)), op # Removal(g), alerts' = Append(alerts, op)
      PROVE  ~Queued(Removal(g))'
  <2>1. \A i \in 1..Len(alerts') : alerts'[i] = op \/ (i \in 1..Len(alerts) /\ alerts'[i] = alerts[i])
    BY <1>1, <1>3
  <2> QED BY <1>3, <2>1 DEF Queued, Removal
<1>4. ASSUME NEW g \in kept' PROVE Kept(g)'
  <2>1. g \in kept /\ Kept(g) /\ (g \in live => g \in live')
    BY <1>4 DEF AddTorrent, RemoveTorrent, SaveResumeData, KeptInv
  <2>2. ~Queued(Removal(g))'
    <3>1. CASE AddTorrent(h)
      BY <2>1, <3>1 DEF AddTorrent, Kept, Unremoved, Queued, Removal
    <3>2. CASE RemoveTorrent(h)
      <4>1. Removal(h) # Removal(g)
        BY <1>4, <3>2 DEF RemoveTorrent, Removal
      <4> QED BY <1>3, <2>1, <3>2, <4>1 DEF RemoveTorrent, Kept, Unremoved
    <3>3. CASE b # NoRow /\ SaveResumeData(h, b)
      <4>1. [hash |-> h, blob |-> b] # Removal(g)
        BY <3>3 DEF Removal
      <4> QED BY <1>3, <2>1, <3>3, <4>1 DEF SaveResumeData, Kept, Unremoved
    <3> QED BY <3>1, <3>2, <3>3
  <2>3. Unremoved(g)'
    BY <1>1, <2>1, <2>2 DEF Kept, Unremoved, Removal
  <2>4. OnTheWay(g) => OnTheWay(g)'
    BY <1>1, <2>1 DEF OnTheWay
  <2> QED BY <1>1, <2>1, <2>3, <2>4 DEF Kept, Loads
<1> QED BY <1>2, <1>4 DEF KeptInv

\* Every step preserves KeptInv.
LEMMA NextKeptInv == PTypeInv /\ AckInv /\ KeptInv /\ [PNext]_allVars => KeptInv'
<1> SUFFICES ASSUME PTypeInv, AckInv, KeptInv, [PNext]_allVars PROVE KeptInv'
  OBVIOUS
<1>1. CASE PCrash
  <2>1. Die /\ live' = {} /\ alerts' = <<>> /\ kept' = kept
    BY <1>1 DEF PCrash, Crash
  <2> QED BY <2>1, EndKeepsRows
<1>2. CASE UNCHANGED allVars
  BY <1>2 DEF allVars, vars, envVars, fileVars, connVars, netVars, dartVars, KeptInv,
              LoadInv, SteppedCurrent, Kept, Unremoved, OnTheWay, Queued, Removal, Loads
<1>3. ASSUME NEW h \in Hashes, AddTorrent(h) \/ RemoveTorrent(h) PROVE KeptInv'
  BY <1>3, SessionKeptInv
<1>4. ASSUME NEW h \in Hashes, NEW b \in Blobs, SaveResumeData(h, b) PROVE KeptInv'
  BY <1>4, SessionKeptInv, ConstantsAssumption
<1> QED BY <1>1, <1>2, <1>3, <1>4, LoadKeptInv, HandleKeptInv, ContinueKeptInv DEF PNext

\* All reachable states satisfy KeptInv.
THEOREM KeptInvariance == PSpec => []KeptInv
<1>1. PInit => KeptInv
  BY InitKeptInv
<1>2. PTypeInv /\ AckInv /\ KeptInv /\ [PNext]_allVars => KeptInv'
  BY NextKeptInv
<1> QED BY <1>1, <1>2, RemovalInvariance, PTL DEF PSpec

\* A torrent whose save came to its end is in the session of every process
\* that ends its load, until the user removes it.
THEOREM SavedComeBack == PSpec => []SavedComesBack
<1>1. KeptInv => SavedComesBack
  BY DEF KeptInv, Kept, OnTheWay, SavedComesBack
<1> QED BY <1>1, KeptInvariance, PTL
-----------------------------------------------------------------------------
(* Table, callback and session implement the collection                      *)

\* Initial states map to initial states.
LEMMA InitIsPromised == PInit => Promised!Init
BY DEF PInit, Init, Promised!Init

\* The load is over: the process starts with what the session has.
LEMMA LoadIsPromised ==
    ASSUME PTypeInv', KeptInv, KeptInv', RemovalInv', Load
    PROVE  [Promised!Next]_(Promised!collVars)
<1>1. UNCHANGED <<kept, gone>> /\ dartPc # "done"
  BY DEF Load, Dart, OpenDb, CreateTable, PrepareSelect, FetchRow, ScanEnds, LoadRow,
         UndecodableRow
<1>2. CASE dartPc' # "done"
  BY <1>1, <1>2 DEF Promised!collVars
<1>3. CASE dartPc' = "done" /\ db' = "open"
  <2>1. /\ live' \in SUBSET Hashes
        /\ Loads => kept \subseteq live'
        /\ "commit" \notin Faults => live' \cap gone = {}
    BY <1>1, <1>3 DEF PTypeInv, PTypeOK, KeptInv, Kept, OnTheWay, RemovalInv, GoneInv,
                      NothingLeft, Loads
  <2>2. Promised!Start(live')
    BY <1>1, <1>3, <2>1 DEF Promised!Start
  <2> QED BY <2>1, <2>2 DEF Promised!Next
<1>4. CASE dartPc' = "done" /\ db' # "open"
  <2>1. dartPc = "boot" /\ live' = {}
    BY <1>1, <1>4 DEF Load, Dart, OpenDb, CreateTable, PrepareSelect, FetchRow, ScanEnds,
                      LoadRow, UndecodableRow, Die, connVars, dartVars, KeptInv, LoadInv
  <2>2. Promised!StartBlind
    BY <1>1, <1>4, <2>1 DEF Promised!StartBlind
  <2> QED BY <2>2 DEF Promised!Next
<1> QED BY <1>2, <1>3, <1>4

\* The end of a call keeps a torrent, forgets one, or changes nothing.
LEMMA ContinueIsPromised ==
    ASSUME PTypeInv, AckInv, RemovalInv, KeptInv, ContinueCall
    PROVE  [Promised!Next]_(Promised!collVars)
<1>1. UNCHANGED <<live, dartPc, db>> /\ netPc # "idle" /\ netOp \in Ops
  BY DEF ContinueCall, FinishOp, RunStatement, ReturnEarly, EndTransaction, connVars,
         dartVars, PTypeInv, TypeInv, TypeOK
<1>2. CASE Completes = {}
  <2>1. UNCHANGED <<kept, gone>>
    BY <1>2 DEF ContinueCall
  <2> QED BY <1>1, <2>1 DEF Promised!collVars
<1> DEFINE h == netOp.hash
<1>3. CASE Completes # {}
  <2>1. EndTransaction /\ Completes = {h} /\ h \in Hashes /\ db = "open"
    BY <1>1, <1>3 DEF Completes, EndTransaction, AckInv, Stepped, Ops
  <2>2. CASE netOp.blob # NoRow /\ h \in live
    <3>1. kept' = kept \cup {h} /\ gone' = gone
      BY <2>1, <2>2 DEF ContinueCall
    <3>2. "commit" \notin Faults => h \notin gone
      BY <2>2 DEF RemovalInv, GoneInv, NothingLeft
    <3>3. Promised!Keep(h)
      BY <1>1, <2>1, <2>2, <3>1, <3>2 DEF Promised!Keep
    <3> QED BY <2>1, <3>3 DEF Promised!Next
  <2>3. CASE netOp.blob = NoRow /\ h \notin live
    <3>1. kept' = kept /\ gone' = gone \cup {h}
      BY <2>1, <2>3 DEF ContinueCall
    <3>2. h \notin kept
      <4>1. netOp = Removal(h)
        BY <1>1, <2>3 DEF Removal, Ops
      <4> QED BY <1>1, <4>1 DEF KeptInv, Kept, Unremoved
    <3>3. dartPc = "done"
      BY <1>1, <2>3 DEF RemovalInv, RemovalsLate
    <3>4. Promised!Forget(h)
      BY <1>1, <2>1, <2>3, <3>1, <3>2, <3>3 DEF Promised!Forget
    <3> QED BY <2>1, <3>4 DEF Promised!Next
  <2>4. CASE ~(netOp.blob # NoRow /\ h \in live) /\ ~(netOp.blob = NoRow /\ h \notin live)
    <3>1. UNCHANGED <<kept, gone>>
      BY <2>1, <2>4 DEF ContinueCall
    <3> QED BY <1>1, <3>1 DEF Promised!collVars
  <2> QED BY <2>2, <2>3, <2>4
<1> QED BY <1>2, <1>3

\* Every step is a step of the collection or changes nothing of it.
LEMMA NextIsPromised ==
    /\ PTypeInv /\ AckInv /\ RemovalInv /\ KeptInv
    /\ PTypeInv' /\ RemovalInv' /\ KeptInv'
    /\ [PNext]_allVars
    => [Promised!Next]_(Promised!collVars)
<1> SUFFICES ASSUME PTypeInv, AckInv, RemovalInv, KeptInv, PTypeInv', RemovalInv', KeptInv',
                    [PNext]_allVars
             PROVE  [Promised!Next]_(Promised!collVars)
  OBVIOUS
<1> USE DEF vars, connVars, dartVars
<1>1. ASSUME NEW h \in Hashes, AddTorrent(h) PROVE Promised!Add(h)
  BY <1>1 DEF AddTorrent, Promised!Add
<1>2. ASSUME NEW h \in Hashes, RemoveTorrent(h) PROVE Promised!Remove(h)
  BY <1>2 DEF RemoveTorrent, Promised!Remove
<1>3. CASE PCrash
  <2>1. Promised!Stop
    BY <1>3 DEF PCrash, Crash, Die, Promised!Stop
  <2> QED BY <2>1 DEF Promised!Next
<1>4. CASE HandleAlert
  BY <1>4 DEF HandleAlert, Dispatch, Begin, Promised!collVars
<1>5. ASSUME NEW h \in Hashes, NEW b \in Blobs, SaveResumeData(h, b)
      PROVE  UNCHANGED Promised!collVars
  BY <1>5 DEF SaveResumeData, Promised!collVars
<1>6. CASE UNCHANGED allVars
  BY <1>6 DEF allVars, envVars, Promised!collVars
<1> QED BY <1>1, <1>2, <1>3, <1>4, <1>5, <1>6, LoadIsPromised, ContinueIsPromised
        DEF PNext, Promised!Next

\* Whatever fails and whenever the process dies, the library keeps the
\* collection of torrents that Collection promises to its user.
THEOREM PromiseKept == PSpec => ImplementsCollection
BY InitIsPromised, NextIsPromised, RemovalInvariance, KeptInvariance, PTL
DEF PSpec, ImplementsCollection, Promised!Spec
=============================================================================
