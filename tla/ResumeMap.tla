------------------------------ MODULE ResumeMap ------------------------------
(* What the resume table of sql.cpp promises to the rest of the library: a   *)
(* map from torrent hashes to resume data with a volatile view, the rows the *)
(* open connection reads, and a durable copy, the rows a new process reads.  *)
(* A call writes one entry of the view, and with the end of the call the     *)
(* view becomes durable as a whole.  Only a call that fails, or the end of   *)
(* the process, makes the view fall back.                                    *)

CONSTANTS Hashes,   \* info hashes, the primary key
          Values,   \* contents of an entry, "no row" among them
          Begins,   \* no BEGIN fails
          Commits   \* no END fails

VARIABLES view, durable,
          calling   \* a write has run whose call has not ended yet

mapVars == <<view, durable, calling>>

Init == /\ durable \in [Hashes -> Values]
        /\ view = durable
        /\ calling = FALSE

\* REPLACE or DELETE of one row, in a transaction.
Write(h, v) ==
    /\ ~calling /\ calling' = TRUE
    /\ view' = [view EXCEPT ![h] = v]
    /\ UNCHANGED durable

\* The same where BEGIN failed: the row is in the file at once and whole, and
\* nothing comes with it.
WriteThrough(h, v) ==
    /\ ~Begins
    /\ ~calling /\ calling' = TRUE
    /\ view = durable
    /\ view' = [view EXCEPT ![h] = v]
    /\ durable' = view'

\* END: what the connection reads is in the file from now on.
End == /\ calling /\ calling' = FALSE
       /\ durable' = view
       /\ UNCHANGED view

\* END fails, and keeps the transaction or rolls it back.
EndFails ==
    /\ ~Commits
    /\ calling /\ calling' = FALSE
    /\ view' \in {view, durable}
    /\ UNCHANGED durable

\* A call whose statement fails writes nothing; it may roll back.
Fail == /\ ~calling
        /\ view' = durable
        /\ UNCHANGED <<durable, calling>>

\* The process ends and another one opens the file.
Restart == /\ view' = durable
           /\ calling' = FALSE
           /\ UNCHANGED durable

Next == \/ \E h \in Hashes, v \in Values : Write(h, v) \/ WriteThrough(h, v)
        \/ End \/ EndFails \/ Fail \/ Restart

Spec == Init /\ [][Next]_mapVars
=============================================================================
