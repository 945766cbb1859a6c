----------------------------- MODULE TorrentList -----------------------------
(* The list of torrents the application sees (dart_torrent.cpp).  The vector *)
(* g_torrent_handles is written by the alert callback on libtorrent's thread *)
(* (net) and read by index from the application's thread (app), with no lock *)
(* between them.  g_need_update is the only signal from one to the other:    *)
(* the callback raises it, lt_updated lowers it.                             *)
(*                                                                           *)
(* The application is not part of the repository.  It is assumed to use the  *)
(* interface in the one order that can work: lt_need_update, lt_updated,     *)
(* lt_n_torrents, then lt_query_torrent for every index.                     *)
EXTENDS Naturals, Sequences

CONSTANTS
    Hashes,      \* info hashes
    Invalid,     \* the handle in the alert of an add that failed
    Blank,       \* the empty torrent_result
    Garbage,     \* what a read outside the vector, or during a write, returns
    MaxCalls     \* bound: adds and commands of the application

Handles == [hash : Hashes, gen : Nat \ {0}]

ASSUME ListAssumption ==
    /\ MaxCalls \in Nat
    /\ Invalid \notin Handles
    /\ Blank # Garbage

VARIABLES
    session,   \* libtorrent: handles of the torrents it holds
    born,      \* libtorrent: how many torrents each hash has had
    named,     \* libtorrent: torrents whose metadata is known
    paused,    \* libtorrent: torrents that are paused
    jobs,      \* calls the application made that libtorrent has still to run
    list,      \* g_torrent_handles
    need,      \* g_need_update
    netPc,     \* "idle", "added", "inserting", "raise", "removed"
    subject,   \* the handle of the alert the callback is at
    appPc,     \* "idle", "stale", "counting", "checking", "reading",
               \* "status", "flagging"
    count,     \* the answer of lt_n_torrents
    row,       \* the answer of status(), or Blank
    moved,     \* the vector was written since the query that waits for
               \* status() took a reference into it
    shown,     \* what the application got, index by index
    erased,    \* history: since lt_n_torrents answered, "no" torrent was
               \* on its way out of the list, or the first one was
               \* "during" the pass or "after" it
    calls      \* how much of the bound is used

libVars == <<session, born, named, paused, jobs>>
netVars == <<netPc, subject>>
appVars == <<appPc, count, shown, row, moved>>
vars == <<libVars, list, need, netVars, appVars, erased, calls>>

Jobs == [kind : {"add"}, hash : Hashes, fails : BOOLEAN]
        \cup [kind : {"remove", "pause", "resume", "status", "file"},
              handle : Handles]

Answers == [handle : Handles, named : BOOLEAN]
Entries == Answers \cup {Blank, Garbage}

Elements(s) == {s[i] : i \in 1..Len(s)}

TypeOK ==
    /\ session \subseteq Handles
    /\ named \subseteq Handles /\ paused \subseteq Handles
    /\ born \in [Hashes -> Nat]
    /\ jobs \in Seq(Jobs)
    /\ list \in Seq(Handles \cup {Invalid})
    /\ need \in BOOLEAN
    /\ erased \in {"no", "during", "after"}
    /\ netPc \in {"idle", "added", "inserting", "raise", "removed"}
    /\ subject \in Handles \cup {Invalid}
    /\ netPc = "inserting" => subject \notin Elements(list)
    /\ appPc \in {"idle", "stale", "counting", "checking", "reading",
                  "status", "flagging"}
    /\ row \in Answers \cup {Blank} /\ moved \in BOOLEAN
    /\ appPc = "flagging" => row \in Answers
    /\ count \in Nat
    /\ shown \in Seq(Entries) /\ Len(shown) <= count
    /\ calls \in 0..MaxCalls

Init ==
    /\ session = {} /\ named = {} /\ paused = {}
    /\ born = [h \in Hashes |-> 0]
    /\ jobs = <<>> /\ list = <<>>
    /\ need = TRUE /\ erased = "after"
    /\ netPc = "idle" /\ subject = Invalid
    /\ appPc = "idle" /\ count = 0 /\ shown = <<>>
    /\ row = Blank /\ moved = FALSE
    /\ calls = 0

-----------------------------------------------------------------------------
(* net: libtorrent runs the calls in order, and the callback at each alert.  *)

Passing == {"checking", "reading", "status", "flagging"}
Waiting == {"status", "flagging"}   \* a reference into the vector is held

\* An add that fails is reported with an invalid handle, one whose hash is
\* there already with the handle of the torrent that has it.
RunAdd ==
    /\ netPc = "idle" /\ jobs # <<>> /\ Head(jobs).kind = "add"
    /\ LET h   == Head(jobs).hash
           new == [hash |-> h, gen |-> born[h] + 1]
           old == {t \in session : t.hash = h}
       IN \/ /\ Head(jobs).fails
             /\ subject' = Invalid
             /\ UNCHANGED <<session, born>>
          \/ /\ ~Head(jobs).fails /\ old # {}
             /\ subject' \in old
             /\ UNCHANGED <<session, born>>
          \/ /\ ~Head(jobs).fails /\ old = {}
             /\ subject' = new
             /\ session' = session \cup {new}
             /\ born' = [born EXCEPT ![h] = @ + 1]
    /\ jobs' = Tail(jobs)
    /\ netPc' = "added"
    /\ UNCHANGED <<named, paused, list, need, appVars, erased, calls>>

\* A torrent that is gone already is not removed, and not reported, again.
RunRemove ==
    /\ netPc = "idle" /\ jobs # <<>> /\ Head(jobs).kind = "remove"
    /\ LET t == Head(jobs).handle
       IN /\ session' = session \ {t}
          /\ netPc' = IF t \in session THEN "removed" ELSE "idle"
          /\ subject' = IF t \in session THEN t ELSE subject
          /\ erased' = IF t \notin session \/ erased # "no" THEN erased
                       ELSE IF appPc \in Passing THEN "during" ELSE "after"
    /\ jobs' = Tail(jobs)
    /\ UNCHANGED <<born, named, paused, list, need, appVars, calls>>

RunPause ==
    /\ netPc = "idle" /\ jobs # <<>> /\ Head(jobs).kind \in {"pause", "resume"}
    /\ LET t == Head(jobs).handle
       IN paused' = IF Head(jobs).kind = "resume" \/ t \notin session
                    THEN paused \ {t} ELSE paused \cup {t}
    /\ jobs' = Tail(jobs)
    /\ UNCHANGED <<session, born, named, list, need, netVars, appVars, erased,
                   calls>>

\* status() is a call the application waits for: it is answered after all the
\* calls before it, and for a torrent that one of them removed as well.
RunStatus ==
    /\ netPc = "idle" /\ jobs # <<>> /\ Head(jobs).kind = "status"
    /\ LET t == Head(jobs).handle
       IN row' = [handle |-> t, named |-> t \in named]
    /\ jobs' = Tail(jobs)
    /\ appPc' = "flagging"
    /\ UNCHANGED <<session, born, named, paused, list, need, netVars, count,
                   shown, moved, erased, calls>>

NothingToRaise == "idle"                 \* variant: names are not news
AfterMetadata  == "raise"

\* metadata_received_alert; the save it asks for is the business of Persistence.
Metadata(t) ==
    /\ netPc = "idle" /\ t \in session \ named
    /\ named' = named \cup {t}
    /\ netPc' = AfterMetadata /\ subject' = t
    /\ UNCHANGED <<session, born, paused, jobs, list, need, appVars, erased,
                   calls>>

\* torrent_error_alert: a paused torrent is resumed, whoever paused it.
TorrentError(t) ==
    /\ netPc = "idle" /\ t \in session \cap paused
    /\ paused' = paused \ {t}
    /\ UNCHANGED <<session, born, named, jobs, list, need, netVars, appVars,
                   erased, calls>>

AlwaysNew == TRUE                        \* variant: std::find left out
IsNew     == subject \notin Elements(list)

\* variant: the flag before the insertion, or seen before it
FlagFirst(pc) == IF pc = "added" THEN "raise"
                 ELSE IF pc = "raise" /\ IsNew THEN "inserting" ELSE "idle"
AfterStep(pc) == IF pc = "added" THEN "inserting"
                 ELSE IF pc = "inserting" THEN "raise" ELSE "idle"

\* add_torrent_alert: std::find decides whether there is something to insert.
FindHandle ==
    /\ netPc = "added"
    /\ netPc' = IF IsNew THEN AfterStep(netPc) ELSE "idle"
    /\ UNCHANGED <<libVars, list, need, subject, appVars, erased, calls>>

Written == moved' = (moved \/ appPc \in Waiting)

\* insert at the beginning: every index moves up by one.
InsertHandle ==
    /\ netPc = "inserting"
    /\ list' = <<subject>> \o list
    /\ Written
    /\ netPc' = AfterStep(netPc)
    /\ UNCHANGED <<libVars, need, subject, appPc, count, shown, row, erased,
                   calls>>

NoFlag == need                           \* variant: not raised
Raised == TRUE

RaiseFlag ==
    /\ netPc = "raise"
    /\ need' = Raised
    /\ netPc' = AfterStep(netPc)
    /\ UNCHANGED <<libVars, list, subject, appVars, erased, calls>>

KeepAll(s, t) == s                       \* variant: erase of an empty range

\* std::remove takes out all that is equal to t, which is one at most.
Without(s, t) ==
    LET i == CHOOSE i \in 1..Len(s) : s[i] = t
    IN IF t \notin Elements(s) THEN s
       ELSE [j \in 1..Len(s) - 1 |-> s[IF j < i THEN j ELSE j + 1]]

\* torrent_removed_alert, after its row was deleted: the flag is not raised.
EraseHandle ==
    /\ netPc = "removed"
    /\ list' = Without(list, subject)
    /\ Written
    /\ netPc' = "idle"
    /\ UNCHANGED <<libVars, need, subject, appPc, count, shown, row, erased,
                   calls>>

-----------------------------------------------------------------------------
(* app: one pass over the list                                               *)

NeedUpdate ==
    /\ appPc = "idle" /\ need
    /\ appPc' = "stale"
    /\ UNCHANGED <<libVars, list, need, netVars, count, shown, row, moved,
                   erased, calls>>

Updated ==
    /\ appPc = "stale"
    /\ need' = FALSE
    /\ appPc' = "counting"
    /\ UNCHANGED <<libVars, list, netVars, count, shown, row, moved, erased,
                   calls>>

NTorrents ==
    /\ appPc = "counting"
    /\ count' = Len(list) /\ shown' = <<>>
    /\ erased' = IF netPc = "removed" THEN "during" ELSE "no"
    /\ appPc' = "checking"
    /\ UNCHANGED <<libVars, list, need, netVars, row, moved, calls>>

\* lt_query_torrent looks at the size before it touches the element.
QueryBounds ==
    /\ appPc = "checking" /\ Len(shown) < count
    /\ \/ /\ Len(shown) >= Len(list)
          /\ shown' = Append(shown, Blank)
          /\ UNCHANGED appPc
       \/ /\ Len(shown) < Len(list)
          /\ appPc' = "reading"
          /\ UNCHANGED shown
    /\ UNCHANGED <<libVars, list, need, netVars, count, row, moved, erased,
                   calls>>

\* The element can change, or be gone, by the time it is read: the vector is
\* being written, or has become shorter.
Readable(i) == i <= Len(list) /\ netPc \notin {"inserting", "removed"}

Result(e) == shown' = Append(shown, e) /\ appPc' = "checking"

\* is_valid, then status(), for which the application waits.
QueryElement ==
    /\ appPc = "reading"
    /\ LET i == Len(shown) + 1
       IN \/ /\ ~Readable(i)
             /\ Result(Garbage) /\ UNCHANGED jobs
          \/ /\ Readable(i) /\ list[i] = Invalid
             /\ Result(Blank) /\ UNCHANGED jobs
          \/ /\ Readable(i) /\ list[i] # Invalid
             /\ jobs' = Append(jobs, [kind |-> "status", handle |-> list[i]])
             /\ appPc' = "status" /\ UNCHANGED shown
    /\ UNCHANGED <<session, born, named, paused, list, need, netVars, count,
                   row, moved, erased, calls>>

\* flags() goes through the reference again.  By now it may be to another
\* torrent or to nothing: the paused flag is garbage, and so is the row.
QueryFlags ==
    /\ appPc = "flagging"
    /\ Result(IF moved \/ ~Readable(Len(shown) + 1) THEN Garbage ELSE row)
    /\ row' = Blank /\ moved' = FALSE
    /\ UNCHANGED <<libVars, list, need, netVars, count, erased, calls>>

PassOver ==
    /\ appPc = "checking" /\ Len(shown) = count
    /\ appPc' = "idle"
    /\ UNCHANGED <<libVars, list, need, netVars, count, shown, row, moved,
                   erased, calls>>

-----------------------------------------------------------------------------
(* app: commands                                                             *)

Call(job) ==
    /\ appPc = "idle" /\ calls < MaxCalls
    /\ calls' = calls + 1
    /\ jobs' = Append(jobs, job)
    /\ UNCHANGED <<session, born, named, paused, list, need, netVars, appVars,
                   erased>>

\* lt_add_torrent; one that throws makes no call and changes nothing.
AddTorrent(h, fails) == Call([kind |-> "add", hash |-> h, fails |-> fails])

\* The index is one the application shows; the handle is what the vector has
\* there now, which may be any torrent's when the access is out of order.
\* lt_remove_torrent uses at(), which throws past the end; lt_pause_torrent
\* and lt_resume_torrent do not look.  A handle without a torrent is refused.
At(i) == IF Readable(i) THEN {list[i]} \cap session ELSE session

RemoveTorrent(i) ==
    /\ i <= Len(list)
    /\ \E t \in At(i) : Call([kind |-> "remove", handle |-> t])

PauseOrResume(i) ==
    \E t \in At(i), k \in {"pause", "resume"} :
        Call([kind |-> k, handle |-> t])

-----------------------------------------------------------------------------
Net == \/ RunAdd \/ RunRemove \/ RunPause \/ RunStatus
       \/ FindHandle \/ InsertHandle \/ RaiseFlag \/ EraseHandle

Pass == NeedUpdate \/ Updated \/ NTorrents \/ QueryBounds \/ QueryElement
        \/ QueryFlags \/ PassOver

Command == \/ \E h \in Hashes, fails \in BOOLEAN : AddTorrent(h, fails)
           \/ \E i \in 1..Len(shown) : RemoveTorrent(i) \/ PauseOrResume(i)

Next == \/ Net
        \/ \E t \in session : Metadata(t) \/ TorrentError(t)
        \/ Pass
        \/ Command

Spec == Init /\ [][Next]_vars

\* libtorrent's thread runs what is queued, and the application keeps polling.
FairSpec == Spec /\ WF_vars(Net) /\ WF_vars(Pass)

-----------------------------------------------------------------------------
(* Properties                                                                *)

\* Between two alerts the list has exactly the torrents of the session, but
\* for the handle of failed adds: each is inserted once, although a hash can
\* be added again, reported again, removed twice and come back later.
ListTracksSession ==
    netPc \in {"idle", "raise"} => Elements(list) \ {Invalid} = session

\* No handle is in the list twice, not even the invalid one.
NoDuplicateHandles ==
    \A i, j \in 1..Len(list) : list[i] = list[j] => i = j

\* A row as lt_query_torrent would answer it now.
Line(e) == IF e = Invalid THEN Blank
           ELSE [handle |-> e, named |-> e \in named]

\* No signal is pending: the flag is down, the callback is not at an alert and
\* no torrent was erased since the count was taken.
Settled == /\ appPc = "idle" /\ netPc = "idle"
           /\ ~need /\ erased = "no"

\* What the application shows is what the vector has, index by index and with
\* current names, whenever no signal is pending.  Insertions move every index
\* and race with the pass that reads them.
ShownIsList ==
    Settled => /\ Len(shown) = Len(list)
               /\ \A i \in 1..Len(list) : shown[i] = Line(list[i])

\* An add or a name is never lost between the two threads: with the flag down
\* and no insertion on its way to it, every torrent of the session is among the
\* rows, with its current name, even if torrents were erased after the pass
\* that read them.  Only an erase under that pass can hide one.
NoTorrentUnseen ==
    /\ appPc = "idle" /\ ~need /\ erased # "during"
    /\ netPc \in {"idle", "removed"}
    => \A t \in session : \E i \in 1..Len(shown) : shown[i] = Line(t)

\* A command by index reaches the torrent the application shows there.
CommandsHitWhatIsShown ==
    [][\A i \in 1..Len(shown) :
          Settled /\ (RemoveTorrent(i) \/ PauseOrResume(i)) =>
              /\ shown[i] \in Answers
              /\ jobs'[Len(jobs')].handle = shown[i].handle]_vars

Shows(h) == \E i \in 1..Len(shown) : /\ shown[i] \notin {Blank, Garbage}
                                     /\ shown[i].handle.hash = h
InSession(h) == \E t \in session : t.hash = h

\* A torrent of the session is shown at last, unless it is removed or another
\* torrent is erased under a pass, which raises no flag to read again.
DartSeesAdd ==
    \A h \in Hashes :
        InSession(h) ~> Shows(h) \/ ~InSession(h) \/ erased = "during"
=============================================================================
