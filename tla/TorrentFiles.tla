---------------------------- MODULE TorrentFiles -----------------------------
(* The files of a torrent (dart_torrent.cpp): lt_query_files takes a raw     *)
(* pointer out of a temporary shared_ptr to the torrent_info, and            *)
(* lt_query_file follows it later, when nothing but the torrent in           *)
(* libtorrent's session keeps the torrent_info alive.  Both run on the       *)
(* application's thread, between its passes over the list.                   *)
EXTENDS TorrentList

CONSTANT Nothing   \* a null pointer

ASSUME NothingAssumption == Nothing \notin Handles \cup {Garbage}

VARIABLES
    waiting,  \* the application waits for torrent_file()
    info,     \* the torrent whose torrent_info files_result points into
    file,     \* the torrent whose file lt_query_file answered with last
    opened,   \* history: the torrent shown at the index of lt_query_files
    asked,    \* history: the torrents shown at the indices of removals
    astray    \* history: one of these indices was used while a signal was
              \* pending

fileVars  == <<waiting, info, file, opened, asked, astray>>
filesVars == <<vars, fileVars>>

Pointers == Handles \cup {Nothing, Garbage}

FTypeOK ==
    /\ TypeOK
    /\ waiting \in BOOLEAN
    /\ info \in Pointers /\ file \in Pointers
    /\ opened \in Handles \cup {Nothing}
    /\ asked \subseteq Handles
    /\ astray \in BOOLEAN

FInit ==
    /\ Init
    /\ waiting = FALSE /\ info = Nothing /\ file = Nothing
    /\ opened = Nothing /\ asked = {} /\ astray = FALSE

-----------------------------------------------------------------------------
\* The rows of the application that are about a torrent.
Rows == {i \in 1..Len(shown) : shown[i] \notin {Blank, Garbage}}

\* The index is checked and is_valid() asked, then the application waits.
QueryFiles(i) ==
    /\ appPc = "idle" /\ ~waiting
    /\ opened' = shown[i].handle
    /\ astray' = (astray \/ ~Settled)
    /\ file' = Nothing
    /\ \/ /\ Readable(i) /\ list[i] # Invalid
          /\ jobs' = Append(jobs, [kind |-> "file", handle |-> list[i]])
          /\ waiting' = TRUE /\ info' = Nothing
       \/ /\ i > Len(list) \/ (Readable(i) /\ list[i] = Invalid)
          /\ info' = Nothing
          /\ UNCHANGED <<waiting, jobs>>
       \/ /\ ~Readable(i)
          /\ info' = Garbage
          /\ UNCHANGED <<waiting, jobs>>
    /\ UNCHANGED <<session, born, named, paused, list, need, netVars, appVars,
                   erased, calls, asked>>

\* torrent_file() is answered in its turn, with null before the metadata is
\* known.  A torrent that was removed in between answers as well.
RunFile ==
    /\ netPc = "idle" /\ jobs # <<>> /\ Head(jobs).kind = "file"
    /\ LET t == Head(jobs).handle
       IN info' = IF t \in named THEN t ELSE Nothing
    /\ waiting' = FALSE
    /\ jobs' = Tail(jobs)
    /\ UNCHANGED <<session, born, named, paused, list, need, netVars, appVars,
                   erased, calls, file, opened, asked, astray>>

\* The pointer is followed: memory that was freed holds anything.
QueryFile ==
    /\ appPc = "idle" /\ ~waiting /\ info # Nothing
    /\ file' = IF info \in session THEN info ELSE Garbage
    /\ UNCHANGED <<vars, waiting, info, opened, asked, astray>>

RemoveShown(i) ==
    /\ RemoveTorrent(i)
    /\ asked' = asked \cup {shown[i].handle}
    /\ astray' = (astray \/ ~Settled)
    /\ UNCHANGED <<waiting, info, file, opened>>

-----------------------------------------------------------------------------
FNext ==
    \/ Net /\ UNCHANGED fileVars
    \/ \E t \in session : (Metadata(t) \/ TorrentError(t)) /\ UNCHANGED fileVars
    \/ ~waiting /\ Pass /\ UNCHANGED fileVars
    \/ /\ ~waiting
       /\ \E h \in Hashes, fails \in BOOLEAN : AddTorrent(h, fails)
       /\ UNCHANGED fileVars
    \/ \E i \in Rows : \/ ~waiting /\ PauseOrResume(i) /\ UNCHANGED fileVars
                       \/ ~waiting /\ RemoveShown(i)
                       \/ QueryFiles(i)
    \/ RunFile
    \/ QueryFile

FSpec == FInit /\ [][FNext]_filesVars

-----------------------------------------------------------------------------
(* Properties                                                                *)

\* As long as the application uses indices when no signal is pending, the
\* files it gets are those of the torrent it showed at the index: the raw
\* pointer stays good until the application itself asks for the removal of
\* that torrent, whatever is added, removed and moved meanwhile.
FilesAreOfShown ==
    ~astray /\ file # Nothing => file = opened \/ opened \in asked
=============================================================================
