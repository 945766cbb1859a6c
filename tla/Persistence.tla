---------------------------- MODULE Persistence -----------------------------
(* The resume table together with the torrents it is about: which torrents   *)
(* the libtorrent session holds, the alerts that make the callback of        *)
(* lt_init_session call into sql.cpp, and the application adding and         *)
(* removing torrents.  libtorrent posts its alerts in order; they may pile   *)
(* up while the callback is inside SQLite.                                   *)
EXTENDS ResumeDb, Sequences

CONSTANT MaxAlerts   \* bound: alerts waiting for the callback

ASSUME MaxAlertsAssumption == MaxAlerts \in Nat

VARIABLES
    live,     \* hashes of the torrents in the session
    alerts,   \* the alerts waiting that concern the table, as rows to write
    kept,     \* history: torrents whose save is complete, not removed since
    gone      \* history: torrents removed by the user, their row deleted

envVars == <<live, alerts, kept, gone>>
allVars == <<vars, envVars>>

Room == Len(alerts) < MaxAlerts
Queued(op) == \E i \in 1..Len(alerts) : alerts[i] = op
Removal(h) == [hash |-> h, blob |-> NoRow]

PTypeOK == /\ TypeOK
           /\ live \subseteq Hashes
           /\ alerts \in Seq(Ops)
           /\ Len(alerts) <= MaxAlerts
           /\ kept \subseteq Hashes /\ gone \subseteq Hashes

PInit == Init /\ live = {} /\ alerts = <<>> /\ kept = {} /\ gone = {}

-----------------------------------------------------------------------------
(* The application, once lt_init_session has returned to it                  *)

\* lt_add_torrent: async_add_torrent puts the torrent in the session.
AddTorrent(h) ==
    /\ dartPc = "done"
    /\ h \notin live
    /\ live' = live \cup {h}
    /\ gone' = gone \ {h}
    /\ UNCHANGED <<vars, alerts, kept>>

\* lt_remove_torrent: the session drops the torrent and reports it.
RemoveTorrent(h) ==
    /\ dartPc = "done" /\ Room
    /\ h \in live
    /\ live' = live \ {h}
    /\ alerts' = Append(alerts, Removal(h))
    /\ kept' = kept \ {h}
    /\ UNCHANGED <<vars, gone>>

-----------------------------------------------------------------------------
(* libtorrent and the callback                                               *)

\* A state change, new metadata or the end of a download makes the callback
\* ask for the resume data of a torrent, which comes back in an alert.
SaveResumeData(h, b) ==
    /\ Room
    /\ h \in live
    /\ alerts' = Append(alerts, [hash |-> h, blob |-> b])
    /\ UNCHANGED <<vars, live, kept, gone>>

\* variant: a removed torrent leaves its row behind
IgnoreRemoved(op) == IF op.blob = NoRow THEN UNCHANGED vars ELSE Begin(op)
\* The callback passes a save_resume_data_alert to lt_update_resume_data and
\* a torrent_removed_alert to lt_remove_resume_data.
Dispatch(op) == Begin(op)

HandleAlert ==
    /\ netPc = "idle" /\ alerts # <<>>
    /\ Dispatch(Head(alerts))
    /\ alerts' = Tail(alerts)
    /\ UNCHANGED <<live, kept, gone>>

\* The call goes on.  A torrent is kept once a save of it is complete and no
\* removal is to come; it is gone once the last removal is complete.
Completes == IF EndTransaction /\ ~Queued(Removal(netOp.hash)) THEN {netOp.hash} ELSE {}

ContinueCall ==
    /\ FinishOp
    /\ kept' = kept \cup IF netOp.blob # NoRow THEN Completes \cap live ELSE {}
    /\ gone' = gone \cup IF netOp.blob = NoRow THEN Completes \ live ELSE {}
    /\ UNCHANGED <<live, alerts>>

\* The load of lt_init_session_db; each row it hands over is a torrent.
Load ==
    /\ Dart
    /\ live' = handed' \cup IF UndecodableRow THEN {} ELSE live
    /\ alerts' = IF UndecodableRow THEN <<>> ELSE alerts
    /\ UNCHANGED <<kept, gone>>

PCrash ==
    /\ Crash
    /\ live' = {} /\ alerts' = <<>>
    /\ UNCHANGED <<kept, gone>>

PNext ==
    \/ Load
    \/ HandleAlert
    \/ ContinueCall
    \/ \E h \in Hashes :
          \/ AddTorrent(h)
          \/ RemoveTorrent(h)
          \/ \E b \in Blobs : SaveResumeData(h, b)
    \/ PCrash

PSpec == PInit /\ [][PNext]_allVars

-----------------------------------------------------------------------------
(* Properties                                                                *)

\* No call of the load fails, and no END.
Loads == Faults \cap {"select", "fetch", "post", "commit"} = {}

\* A torrent the user removed does not come back, in this process or in a
\* later one, once lt_remove_resume_data ran to its end and END succeeded:
\* saves queued before the removal, failed calls and crashes do not revive it.
RemovedStaysRemoved == "commit" \notin Faults => gone \cap live = {}

\* Once the load is over, and while no call has returned early, a row that has
\* bytes belongs to a torrent of the session, unless its removal is still on
\* its way to the table: no row is left over for a later process to find, not
\* even one that does not decode.
RowsHaveTorrents ==
    Loads /\ dartPc = "done" /\ early = 0 =>
        \A h \in Hashes :
            disk[h] \in Blobs /\ schema = "current" /\ db = "open" =>
                \/ h \in live
                \/ Queued(Removal(h))
                \/ netPc # "idle" /\ netOp = Removal(h)

\* A torrent whose save came to its end is in the session of every process
\* that ends its load, until the user removes it: crashes, later saves that
\* fail, calls for other torrents and the callback under the load do not lose
\* it.
SavedComesBack ==
    Loads /\ dartPc = "done" /\ db = "open" => kept \subseteq live

\* Table, callback and session together are the collection of torrents that
\* the user is promised (lt_init_session, lt_add_torrent, lt_remove_torrent).
Promised == INSTANCE Collection WITH
    Complete <- Loads,
    Durable  <- "commit" \notin Faults,
    process  <- IF dartPc # "done" THEN "down"
                ELSE IF db = "open" THEN "up" ELSE "blind",
    torrents <- IF dartPc = "done" THEN live ELSE {}
ImplementsCollection == Promised!Spec
=============================================================================
