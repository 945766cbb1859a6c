------------------------- MODULE TorrentFiles_proofs -------------------------
(* Theorems about TorrentFiles.  Inv of TorrentList_proofs still holds when  *)
(* the calls for files are added, and FileInv says what the pointer is to.   *)
EXTENDS TorrentFiles, TorrentList_proofs

\* torrent_file() is the last call as long as it is waited for.
FileWaitInv ==
    \A k \in 1..Len(jobs) : jobs[k].kind = "file" => waiting /\ k = Len(jobs)

\* With no index gone astray, the torrent the files belong to is in the
\* session until its removal is asked for, and only such removals are queued.
TrueInv ==
    /\ \A k \in 1..Len(jobs) :
          /\ jobs[k].kind = "remove" => jobs[k].handle \in asked
          /\ jobs[k].kind = "file" => jobs[k].handle = opened
    /\ opened # Nothing => opened \in session \cup asked
    /\ info # Nothing => info = opened
    /\ file # Nothing => file = opened \/ opened \in asked

FileInv == FTypeOK /\ FileWaitInv /\ (~astray => TrueInv)

LEMMA InitFileInv == FInit => Inv /\ FileInv
<1> SUFFICES ASSUME FInit PROVE Inv /\ FileInv
  OBVIOUS
<1>1. Inv
  BY InitTypeInv, InitTrackInv, InitShownInv DEF FInit, Inv
<1>2. FTypeOK
  BY <1>1 DEF FInit, FTypeOK, Inv, TypeInv, Pointers
<1> QED BY <1>1, <1>2 DEF FInit, Init, FileInv, FileWaitInv, TrueInv

-----------------------------------------------------------------------------
(* The invariant of TorrentList                                              *)

\* A call that only the files need changes nothing TorrentList is about.
LEMMA OtherCall ==
    ASSUME Inv, UNCHANGED <<session, born, named, paused, list, need, netVars,
                            appVars, erased, calls>>,
           jobs' \in Seq(Jobs), WaitInv',
           appPc = "status" => jobs'[Len(jobs')] = jobs[Len(jobs)]
    PROVE  Inv'
<1> USE DEF Inv, netVars, appVars
<1>1. TypeInv'
  BY DEF TypeInv, TypeOK, PassInv
<1>2. TrackInv'
  BY DEF TrackInv, Elements, LoopFree
<1>3. ShownInv'
  BY DEF ShownInv, Undisturbed, PassSoFar, Line, Here
<1> QED BY <1>1, <1>2, <1>3

LEMMA QueryFilesInv ==
    ASSUME Inv, FileInv, NEW i \in Rows, QueryFiles(i)
    PROVE  Inv'
<1> USE DEF QueryFiles, Inv, TypeInv, TypeOK, WaitInv
<1>1. CASE jobs' = jobs
  <2>1. WaitInv'
    BY <1>1 DEF appVars
  <2> QED BY <1>1, <2>1, OtherCall
<1>2. CASE jobs' # jobs
  <2> DEFINE j == [kind |-> "file", handle |-> list[i]]
  <2>1. jobs' = Append(jobs, j) /\ Readable(i) /\ list[i] # Invalid
    BY <1>2
  <2>2. j \in Jobs
    <3>1. i \in 1..Len(list)
      BY <2>1 DEF Readable, Rows
    <3>2. list[i] \in Handles
      BY <2>1, <3>1
    <3> QED BY <3>2 DEF Jobs
  <2>3. jobs' \in Seq(Jobs) /\ Waits(jobs', appPc)
    BY <2>1, <2>2, AppendedJob
  <2> QED BY <2>3, OtherCall DEF appVars
<1> QED BY <1>1, <1>2

LEMMA RunFileInv ==
    ASSUME Inv, FileInv, RunFile
    PROVE  Inv'
<1> USE DEF RunFile, Inv, TypeInv, TypeOK, WaitInv
<1>1. jobs' \in Seq(Jobs) /\ Waits(jobs', appPc)
  BY TailOfJobs
<1>2. appPc = "status" => jobs'[Len(jobs')] = jobs[Len(jobs)]
  BY LastOfTail DEF Waits
<1> QED BY <1>1, <1>2, OtherCall DEF appVars

\* A step is one of the list's, or a call for files begins or ends.
LEMMA StepOfList ==
    [FNext]_filesVars => [Next]_vars \/ (\E i \in Rows : QueryFiles(i)) \/ RunFile
<1>1. ASSUME NEW i \in Rows, PauseOrResume(i) \/ RemoveTorrent(i) PROVE Next
  BY <1>1 DEF Next, Command, Rows
<1>2. ASSUME NEW h \in Hashes, NEW fails \in BOOLEAN, AddTorrent(h, fails) PROVE Next
  BY <1>2 DEF Next, Command
<1>3. ASSUME UNCHANGED filesVars PROVE UNCHANGED vars
  BY <1>3 DEF filesVars
<1> QED BY <1>1, <1>2, <1>3 DEF FNext, Next, RemoveShown, QueryFile

LEMMA NextFilesInv == Inv /\ FileInv /\ [FNext]_filesVars => Inv'
<1> SUFFICES ASSUME Inv, FileInv, [FNext]_filesVars PROVE Inv'
  OBVIOUS
<1>1. ASSUME [Next]_vars PROVE Inv'
  BY <1>1, NextTypeInv, NextTrackInv, NextShownInv DEF Inv
<1> QED BY <1>1, StepOfList, QueryFilesInv, RunFileInv

\* Calls for files change neither the list nor what is shown of it.
LEMMA NextFilesSeen == Inv /\ SeenInv /\ [FNext]_filesVars => SeenInv'
<1> SUFFICES ASSUME Inv, SeenInv, [FNext]_filesVars PROVE SeenInv'
  OBVIOUS
<1>1. ASSUME (\E i \in Rows : QueryFiles(i)) \/ RunFile PROVE SeenInv'
  BY <1>1 DEF QueryFiles, RunFile, netVars, appVars, SeenInv, Caught, Seen, Line
<1> QED BY <1>1, StepOfList, NextSeenInv

-----------------------------------------------------------------------------
(* The files                                                                 *)

\* What was last is last in the tail.
LEMMA Shorter ==
    \A k \in Nat, m, n \in Nat : k + 1 = n /\ m = n - 1 => k = m
OBVIOUS

\* A call leaves the queue.
LEMMA FilesAfterTail ==
    ASSUME Inv, FileInv, jobs # <<>>, jobs' = Tail(jobs), Head(jobs).kind # "file",
           UNCHANGED fileVars,
           session' = session \/ session \subseteq session' \/
               (Head(jobs).kind = "remove" /\ session' = session \ {Head(jobs).handle})
    PROVE  FileWaitInv' /\ (~astray' => TrueInv')
<1> USE DEF fileVars
<1>1. /\ Len(jobs) \in Nat \ {0} /\ Len(Tail(jobs)) = Len(jobs) - 1
      /\ \A k \in 1..Len(Tail(jobs)) : Tail(jobs)[k] = jobs[k + 1] /\ k + 1 \in 1..Len(jobs)
      /\ Head(jobs) = jobs[1] /\ 1 \in 1..Len(jobs)
  BY DEF Inv, TypeInv, TypeOK
<1>2. FileWaitInv'
  <2> SUFFICES ASSUME NEW k \in 1..Len(jobs'), jobs'[k].kind = "file"
               PROVE  waiting' /\ k = Len(jobs')
    BY DEF FileWaitInv
  <2>1. jobs[k + 1].kind = "file" /\ k + 1 \in 1..Len(jobs)
    BY <1>1
  <2>2. waiting /\ k + 1 = Len(jobs)
    BY <2>1 DEF FileInv, FileWaitInv
  <2>3. waiting'
    BY <2>2
  <2>4. k \in Nat /\ Len(jobs') = Len(jobs) - 1 /\ Len(jobs') \in Nat
    BY <1>1
  <2>5. k + 1 = Len(jobs) /\ Len(jobs) \in Nat
    BY <1>1, <2>2
  <2>6. k = Len(jobs')
    BY <2>4, <2>5, Shorter
  <2> QED BY <2>3, <2>6
<1>3. ASSUME ~astray' PROVE TrueInv'
  <2>1. TrueInv
    BY <1>3 DEF FileInv
  <2>2. \A k \in 1..Len(jobs') :
          /\ jobs'[k].kind = "remove" => jobs'[k].handle \in asked
          /\ jobs'[k].kind = "file" => jobs'[k].handle = opened
    BY <1>1, <2>1 DEF TrueInv
  <2>3. opened # Nothing => opened \in session' \cup asked
    BY <1>1, <2>1 DEF TrueInv
  <2> QED BY <2>1, <2>2, <2>3 DEF TrueInv
<1> QED BY <1>2, <1>3

\* A call joins the queue, and none for files is waited for.
LEMMA FilesAfterAppend ==
    ASSUME Inv, FileInv, ~waiting, NEW j \in Jobs, j.kind # "file",
           jobs' = Append(jobs, j), UNCHANGED <<session, waiting, info, file, opened>>,
           asked \subseteq asked', astray => astray',
           ~astray' /\ j.kind = "remove" => j.handle \in asked'
    PROVE  FileWaitInv' /\ (~astray' => TrueInv')
<1>1. /\ Len(jobs') = Len(jobs) + 1 /\ Len(jobs) \in Nat
      /\ \A k \in 1..Len(jobs) : jobs'[k] = jobs[k]
      /\ jobs'[Len(jobs')] = j
  BY DEF Inv, TypeInv, TypeOK
<1>2. \A k \in 1..Len(jobs') : k \in 1..Len(jobs) \/ k = Len(jobs')
  BY <1>1
<1>3. FileWaitInv'
  BY <1>1, <1>2 DEF FileInv, FileWaitInv
<1>4. ASSUME ~astray' PROVE TrueInv'
  <2>1. TrueInv
    BY <1>4 DEF FileInv
  <2>2. \A k \in 1..Len(jobs') :
          /\ jobs'[k].kind = "remove" => jobs'[k].handle \in asked'
          /\ jobs'[k].kind = "file" => jobs'[k].handle = opened
    BY <1>1, <1>2, <1>4, <2>1 DEF TrueInv, FileInv, FileWaitInv
  <2> QED BY <2>1, <2>2 DEF TrueInv
<1> QED BY <1>3, <1>4

LEMMA NextFileInv == Inv /\ FileInv /\ [FNext]_filesVars => FileInv'
<1> SUFFICES ASSUME Inv, FileInv, [FNext]_filesVars, Inv' PROVE FileInv'
  BY NextFilesInv
<1>t. TypeOK'
  BY DEF Inv, TypeInv
<1>u. ASSUME UNCHANGED <<session, jobs>>, UNCHANGED fileVars
      PROVE  FileWaitInv' /\ (~astray' => TrueInv')
  BY <1>u DEF fileVars, FileInv, FileWaitInv, TrueInv
<1>v. ASSUME UNCHANGED fileVars PROVE FTypeOK'
  BY <1>v, <1>t DEF fileVars, FileInv, FTypeOK
<1>1. ASSUME Net, UNCHANGED fileVars PROVE FileInv'
  <2>1. CASE RunAdd
    BY <2>1, <1>1, <1>v, FilesAfterTail DEF RunAdd, FileInv
  <2>2. CASE RunRemove
    BY <2>2, <1>1, <1>v, FilesAfterTail DEF RunRemove, FileInv
  <2>3. CASE RunPause \/ RunStatus
    BY <2>3, <1>1, <1>v, FilesAfterTail DEF RunPause, RunStatus, FileInv
  <2>4. CASE FindHandle \/ InsertHandle \/ RaiseFlag \/ EraseHandle
    BY <2>4, <1>1, <1>u, <1>v DEF FindHandle, InsertHandle, RaiseFlag, EraseHandle,
                                 libVars, FileInv
  <2> QED BY <1>1, <2>1, <2>2, <2>3, <2>4 DEF Net
<1>2. ASSUME NEW t \in session, Metadata(t) \/ TorrentError(t), UNCHANGED fileVars
      PROVE  FileInv'
  BY <1>2, <1>u, <1>v DEF Metadata, TorrentError, FileInv
<1>3. ASSUME Pass, ~waiting, UNCHANGED fileVars PROVE FileInv'
  <2>1. CASE QueryElement /\ jobs' # jobs
    <3> DEFINE j == [kind |-> "status", handle |-> list[Len(shown) + 1]]
    <3>1. jobs' = Append(jobs, j) /\ session' = session
          /\ Readable(Len(shown) + 1) /\ list[Len(shown) + 1] # Invalid
      BY <2>1 DEF QueryElement
    <3>2. j \in Jobs
      <4>1. Len(shown) + 1 \in 1..Len(list)
        BY <3>1 DEF Readable, Inv, TypeInv, TypeOK
      <4>2. list[Len(shown) + 1] \in Handles
        BY <3>1, <4>1 DEF Inv, TypeInv, TypeOK
      <4> QED BY <4>2 DEF Jobs
    <3> QED BY <1>3, <3>1, <3>2, <1>v, FilesAfterAppend DEF FileInv, fileVars
  <2>2. CASE UNCHANGED <<session, jobs>>
    BY <1>3, <2>2, <1>u, <1>v DEF FileInv
  <2> QED BY <1>3, <2>1, <2>2 DEF Pass, NeedUpdate, Updated, NTorrents, QueryBounds,
                                QueryElement, QueryFlags, PassOver, libVars
<1>4. ASSUME NEW j \in Jobs, j.kind \in {"add", "pause", "resume"}, Call(j), ~waiting,
             UNCHANGED fileVars
      PROVE  FileInv'
  BY <1>4, <1>v, FilesAfterAppend DEF Call, FileInv, fileVars
<1>5. ASSUME NEW h \in Hashes, NEW fails \in BOOLEAN, AddTorrent(h, fails), ~waiting,
             UNCHANGED fileVars
      PROVE  FileInv'
  BY <1>5, <1>4 DEF AddTorrent, Jobs
<1>6. ASSUME NEW i \in Rows, PauseOrResume(i), ~waiting, UNCHANGED fileVars
      PROVE  FileInv'
  <2>1. PICK t \in At(i), k \in {"pause", "resume"} : Call([kind |-> k, handle |-> t])
    BY <1>6 DEF PauseOrResume
  <2>2. t \in Handles
    BY <2>1 DEF At, Inv, TypeInv, TypeOK
  <2> QED BY <2>1, <2>2, <1>4, <1>6 DEF Jobs
<1>7. ASSUME NEW i \in Rows, RemoveShown(i), ~waiting PROVE FileInv'
  <2> USE <1>7 DEF RemoveShown
  <2>1. PICK t \in At(i) : Call([kind |-> "remove", handle |-> t])
    BY DEF RemoveTorrent
  <2> DEFINE j == [kind |-> "remove", handle |-> t]
  <2>2. j \in Jobs
    BY <2>1 DEF At, Jobs, Inv, TypeInv, TypeOK
  <2>3. ASSUME ~astray' PROVE j.handle \in asked'
    <3>1. Settled
      BY <2>3
    <3>2. shown[i] = [handle |-> t, named |-> t \in named]
      BY <2>1, <3>1, HandleAtIndex DEF Rows
    <3> HIDE DEF At
    <3> QED BY <3>2
  <2>4. FileWaitInv' /\ (~astray' => TrueInv')
    BY <2>1, <2>2, <2>3, FilesAfterAppend DEF Call, FileInv, FTypeOK
  <2>5. shown[i].handle \in Handles
    BY DEF Rows, Entries, Answers, Inv, TypeInv, TypeOK
  <2>6. FTypeOK'
    BY <1>t, <2>5 DEF FTypeOK, FileInv
  <2> QED BY <2>4, <2>6 DEF FileInv
<1>8. ASSUME NEW i \in Rows, QueryFiles(i) PROVE FileInv'
  <2> USE <1>8 DEF QueryFiles
  <2>1. opened' \in Handles
    BY DEF Rows, Entries, Answers, Inv, TypeInv, TypeOK
  <2>2. info' \in {Nothing, Garbage} /\ waiting' \in BOOLEAN
    BY DEF FileInv, FTypeOK
  <2>3. FTypeOK'
    BY <1>t, <2>1, <2>2 DEF FileInv, FTypeOK, Pointers
  <2> DEFINE j == [kind |-> "file", handle |-> list[i]]
  <2>4. \/ jobs' = jobs /\ waiting' = waiting
        \/ jobs' = Append(jobs, j) /\ waiting' /\ i \in 1..Len(list) /\ list[i] # Invalid
    BY DEF Readable, Rows
  <2>5. /\ Len(jobs) \in Nat
        /\ jobs' # jobs => /\ Len(jobs') = Len(jobs) + 1
                           /\ \A k \in 1..Len(jobs) : jobs'[k] = jobs[k]
                           /\ jobs'[Len(jobs) + 1] = j
    <3>1. jobs \in Seq(Jobs)
      BY DEF Inv, TypeInv, TypeOK
    <3>2. jobs' # jobs => j \in Jobs /\ jobs' = Append(jobs, j)
      BY <2>4 DEF Jobs, Inv, TypeInv, TypeOK
    <3> HIDE DEF j
    <3> QED BY <3>1, <3>2
  <2>6. \A k \in 1..Len(jobs') : k \in 1..Len(jobs) \/ (k = Len(jobs') /\ jobs'[k] = j)
    BY <2>4, <2>5, Shorter
  <2>7. \A k \in 1..Len(jobs) : jobs'[k] = jobs[k] /\ jobs[k].kind # "file"
    BY <2>4, <2>5 DEF FileInv, FileWaitInv
  <2>8. FileWaitInv'
    BY <2>4, <2>5, <2>6, <2>7 DEF FileWaitInv
  <2>9. ASSUME ~astray' PROVE TrueInv'
    <3>1. Settled /\ TrueInv
      BY <2>9 DEF FileInv
    <3>2. /\ Len(shown) = Len(list) /\ shown[i] = Line(list[i])
          /\ netPc = "idle"
      BY <3>1, InvImpliesShown DEF ShownIsList, Settled, Rows
    <3>3. Readable(i) /\ list[i] # Invalid /\ list[i] = opened'
      BY <3>2 DEF Readable, Rows, Line
    <3>4. list[i] \in session
      <4>1. list[i] \in Elements(list)
        BY <3>2 DEF Elements, Rows
      <4> QED BY <4>1, <3>2, <3>3 DEF Inv, TrackInv
    <3>5. info' = Nothing
      BY <3>3
    <3> QED BY <3>1, <3>3, <3>4, <3>5, <2>6, <2>7 DEF TrueInv
  <2> QED BY <2>3, <2>8, <2>9 DEF FileInv
<1>9. CASE RunFile
  <2> USE <1>9 DEF RunFile
  <2>1. Len(jobs) \in Nat \ {0} /\ Head(jobs) = jobs[1] /\ 1 \in 1..Len(jobs)
    BY DEF Inv, TypeInv, TypeOK
  <2>2. Len(jobs) = 1 /\ Tail(jobs) = <<>>
    <3>1. Len(jobs) = 1 /\ jobs \in Seq(Jobs)
      BY <2>1 DEF FileInv, FileWaitInv, Inv, TypeInv, TypeOK
    <3> QED BY <3>1
  <2>3. Head(jobs).handle \in Handles
    BY <2>1 DEF Jobs, Inv, TypeInv, TypeOK
  <2>4. FTypeOK'
    BY <1>t, <2>3 DEF FileInv, FTypeOK, Pointers
  <2>5. ASSUME ~astray PROVE TrueInv'
    BY <2>1, <2>2, <2>5 DEF FileInv, TrueInv
  <2> QED BY <2>2, <2>4, <2>5 DEF FileInv, FileWaitInv
<1>10. CASE QueryFile
  <2> USE <1>10 DEF QueryFile, vars, libVars
  <2>1. FTypeOK'
    BY <1>t DEF FileInv, FTypeOK, Pointers
  <2>2. ASSUME ~astray PROVE TrueInv'
    BY <2>2 DEF FileInv, TrueInv
  <2> QED BY <2>1, <2>2 DEF FileInv, FileWaitInv
<1>11. CASE UNCHANGED filesVars
  BY <1>11, <1>u, <1>v DEF filesVars, vars, libVars, FileInv
<1> QED
  BY <1>1, <1>2, <1>3, <1>5, <1>6, <1>7, <1>8, <1>9, <1>10, <1>11 DEF FNext

-----------------------------------------------------------------------------
(* Theorems                                                                  *)

\* In every reachable state the pointer of lt_query_files is accounted for.
THEOREM FilesInvariance == FSpec => [](Inv /\ FileInv)
<1>1. Inv /\ FileInv /\ [FNext]_filesVars => (Inv /\ FileInv)'
  BY NextFilesInv, NextFileInv
<1> QED BY <1>1, InitFileInv, PTL DEF FSpec

\* The variables keep their types when the calls for files are added.
THEOREM FilesTypeCorrect == FSpec => []FTypeOK
<1>1. Inv /\ FileInv => FTypeOK
  BY DEF FileInv
<1> QED BY <1>1, FilesInvariance, PTL

\* The raw pointer of lt_query_files is good, and to the torrent that was
\* shown, until the application asks for the removal of that torrent.
THEOREM FilesAreRight == FSpec => []FilesAreOfShown
<1>1. Inv /\ FileInv => FilesAreOfShown
  BY DEF FileInv, TrueInv, FilesAreOfShown
<1> QED BY <1>1, FilesInvariance, PTL

\* Calls for files between the passes disturb nothing of the list: it has the
\* torrents of the session, once each, and with no signal pending they are
\* what the application shows.
THEOREM FilesLeaveList ==
    FSpec => [](ListTracksSession /\ NoDuplicateHandles /\ ShownIsList)
<1>1. Inv => ListTracksSession /\ NoDuplicateHandles /\ ShownIsList
  BY InvImpliesShown DEF Inv, TrackInv, LoopFree, ListTracksSession, NoDuplicateHandles
<1> QED BY <1>1, FilesInvariance, PTL

\* With calls for files too, no add and no name is lost between the threads.
THEOREM FilesLeaveNoneUnseen == FSpec => []NoTorrentUnseen
<1>1. FInit => SeenInv
  BY InitSeenInv DEF FInit
<1>2. Inv /\ SeenInv => NoTorrentUnseen
  BY InvImpliesSeen
<1> QED BY <1>1, <1>2, NextFilesSeen, FilesInvariance, PTL DEF FSpec

\* With calls for files too, a command reaches the torrent shown at its index.
THEOREM FilesLeaveCommands == FSpec => CommandsHitWhatIsShown
<1>1. Inv => [\A i \in 1..Len(shown) :
                 Settled /\ (RemoveTorrent(i) \/ PauseOrResume(i)) =>
                     /\ shown[i] \in Answers
                     /\ jobs'[Len(jobs')].handle = shown[i].handle]_vars
  BY CommandHits
<1> QED BY <1>1, FilesInvariance, PTL DEF CommandsHitWhatIsShown
=============================================================================
