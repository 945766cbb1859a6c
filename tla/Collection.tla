------------------------------ MODULE Collection ------------------------------
(* What the user of the library is promised about the torrents: one that was *)
(* saved comes back with the next process, and one that was removed does     *)
(* not.  Nothing is said of rows, alerts, transactions or threads.           *)

CONSTANTS
    Hashes,     \* info hashes
    Complete,   \* every call of the load succeeds, and every END
    Durable     \* every END succeeds

VARIABLES
    process,    \* "down" until lt_init_session has returned, then "up", or
                \* "blind" where the database could not be opened
    torrents,   \* the torrents of the process
    kept,       \* those whose resume data is saved, not removed since
    gone        \* those that were removed for good, not added since

collVars == <<process, torrents, kept, gone>>

Init == process = "down" /\ torrents = {} /\ kept = {} /\ gone = {}

\* lt_init_session returns.
Start(T) ==
    /\ process = "down" /\ process' = "up"
    /\ torrents' = T
    /\ Complete => kept \subseteq T
    /\ Durable => T \cap gone = {}
    /\ UNCHANGED <<kept, gone>>

StartBlind ==
    /\ process = "down" /\ process' = "blind"
    /\ UNCHANGED <<torrents, kept, gone>>

\* The process ends.
Stop ==
    /\ process' = "down" /\ torrents' = {}
    /\ UNCHANGED <<kept, gone>>

Add(h) ==
    /\ process # "down"
    /\ torrents' = torrents \cup {h} /\ gone' = gone \ {h}
    /\ UNCHANGED <<process, kept>>

Remove(h) ==
    /\ process # "down"
    /\ torrents' = torrents \ {h} /\ kept' = kept \ {h}
    /\ UNCHANGED <<process, gone>>

\* A save is complete, perhaps while the load still goes on.
Keep(h) ==
    /\ process # "blind"
    /\ process = "up" => h \in torrents
    /\ Durable => h \notin gone
    /\ kept' = kept \cup {h}
    /\ UNCHANGED <<process, torrents, gone>>

\* A removal is complete.
Forget(h) ==
    /\ process = "up"
    /\ h \notin torrents \cup kept
    /\ gone' = gone \cup {h}
    /\ UNCHANGED <<process, torrents, kept>>

Next == \/ \E T \in SUBSET Hashes : Start(T)
        \/ StartBlind \/ Stop
        \/ \E h \in Hashes : Add(h) \/ Remove(h) \/ Keep(h) \/ Forget(h)

Spec == Init /\ [][Next]_collVars
=============================================================================
