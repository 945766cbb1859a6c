# TLA+ verification of dart_torrent

dart_torrent is a C++ library that gives a Dart application a BitTorrent
client: a C interface over libtorrent, a table of resume data in SQLite, and a
private pool for the strings it hands to Dart. The logic is small
(`src/src/*.cpp`, about 570 lines) and nearly all of its difficulty is in two
threads that share globals without agreeing on a lock.

## The system

| part | state | operations |
|---|---|---|
| resume-data table (`sql.cpp`, `sql.hpp`) | `db`, the connection; the file behind it | `lt_init_session_db`, `lt_update_resume_data`, `lt_remove_resume_data` |
| alert callback (`dart_torrent.cpp:32-86`) | `g_torrent_handles`, `g_need_update` | one branch per kind of alert |
| list and control interface (`dart_torrent.cpp:91-173`) | the same two | `lt_add_torrent`, `lt_n_torrents`, `lt_need_update`, `lt_updated`, `lt_query_torrent`, `lt_pause_torrent`, `lt_resume_torrent`, `lt_remove_torrent` |
| files interface (`dart_torrent.cpp:176-207`) | none of its own; a raw pointer into a torrent | `lt_query_files`, `lt_query_file` |
| string pool (`memory.cpp`) | `g_mem_block`, `g_mem_block_last` | `lt_allocate` |
| string cache (`str.cpp`) | `g_str_cache` (`g_hash_cache` is never filled) | `lt_cached_str`, `lt_strdup` |
| session (`misc.cpp`) | `g_ses`, built once before `main` | `lt_new_session`, `lt_get_session` |

**Threads.** *dart* (called *app* where it polls) is the application's thread:
it calls the C interface. *net* is the thread libtorrent runs; the callback
runs on it, at each alert, while the alert is posted. What they share:

* the SQLite connection. SQLite is serialised by the connection's recursive
  mutex; the two writers enter that mutex themselves for the whole of a call;
* `g_torrent_handles` and `g_need_update`, with no lock;
* the string pool, with no lock: *app* places names and paths in it, *net*
  places the hash and the encoded resume data it is about to bind;
* libtorrent's queue of calls (*app* to *net*) and its alerts.

**Hard behaviours.** The load of the table and the callback's writes overlap,
because every row loaded is a torrent that can produce alerts. Every SQLite call
can fail, some results are ignored, and the error returns skip the end of the
protocol. The process may die anywhere. List indices move under their user.
The pool reuses memory without asking. `PROJECT.json` lists each hazard at its
line with the property that covers it.

**What makes each part correct.**

* table: a new process finds complete updates only; a call that returned is
  durable; the load hands over every readable row; it ends; the mutex is
  accounted for;
* persistence: a removed torrent stays removed, a saved one comes back, and a
  row has a torrent: the user sees a collection of torrents that survives the
  process;
* list: it has the session's torrents, once each; a polling application
  ends up with what the list has, and no torrent goes unseen; a command reaches
  the torrent shown;
* files: the pointer behind an answer is to the torrent that was shown, and
  stays good until the application itself removes it;
* pool and cache: pieces stay in the block and do not overlap until it begins
  anew; bound arguments stay while a statement runs; answers are the strings
  asked for.

## Modules

| module | models | composes |
|---|---|---|
| `ResumeMap` | what the table promises: a view and a durable copy, with `Write` and `End`, and what a failing `BEGIN` or `END` makes of them | |
| `ResumeDb` | `sql.cpp` on two threads | implements `ResumeMap` |
| `Collection` | what the user is promised: saved torrents come back, removed ones do not | |
| `Persistence` | the callback's calls into `sql.cpp`, torrents added, removed and loaded | EXTENDS `ResumeDb`, implements `Collection` |
| `TorrentList` | the callback's writes of list and flag; the polling and control functions | |
| `TorrentFiles` | `lt_query_files`, `lt_query_file` and the raw pointer between them | EXTENDS `TorrentList` |
| `Arena` | what `lt_allocate` promises: disjoint pieces, all forgotten at once | |
| `StrPool` | `lt_allocate`, `_lt_cached_str` and the writers' use of the pool | implements `Arena` |
| `ResumeDb_proofs`, `Persistence_proofs`, `TorrentList_proofs`, `TorrentFiles_proofs`, `StrPool_proofs` | theorems about the module they are named after | EXTEND it |
| `MCResumeDb`, `MCPersistence`, `MCStrPool`, `MCTorrentFiles` | values and symmetry for TLC | |

### ResumeMap

A `Write` changes one row of the view, `End` makes the whole view durable and
only follows a `Write`; `Restart` (the process died) and `Fail` (the call
returned early) fall back to the durable copy. Two more actions exist only
where the constants allow them. `WriteThrough` is a call whose BEGIN failed:
its row is durable at once, and it takes nothing else along, since nothing was
pending. `EndFails` is an END that failed. With neither, as in `db_live`, the
map is atomic: a row becomes durable at the END of its own call and nowhere else.

### ResumeDb

`disk` is the committed table, `work` the table as the connection sees it, `tx`
whether a transaction is open. A row is its hash and a blob; `Decodable` blobs
are those `read_resume_data` accepts, `Empty` a row without bytes, `NoRow` no
row. `schema` is the table's definition: absent, today's, or that of a version
without the newer columns. The SELECT and REPLACE compile only in today's
(`HasColumns`); DELETE names the hash alone and works in an old one as well
(`Compiles`).

`lt_init_session_db` is `OpenDb`, `CreateTable`, `PrepareSelect`, then
`FetchRow`/`LoadRow` per row and `ScanEnds`. `UndecodableRow` is
`read_resume_data` throwing outside the `try`: the process dies. The two
writers have the same shape and are one sequence: `Begin` (enter, BEGIN),
`RunStatement` or `ReturnEarly`, `EndTransaction` (END, leave). The results of
BEGIN and END are ignored, as in the code: after a BEGIN that failed the
statement commits by itself, and after an END that failed the transaction is
open still, or rolled back by SQLite. The error
returns of prepare, each bind and step do the same and are one action.
SQLite calls of *dart* wait while `held` is positive. REPLACE puts its row at
the end of the table, so it comes back `ahead` of a scan in progress; DELETE
takes its row away from there; a rollback may put rows back on either side.

`Faults` names the calls that may fail. `acked`, `early` and `due` are history
variables: the table according to the calls that reached END, the calls that
returned early, and the rows the load owes the session. `Begin` may be a save or
a removal of any row at any time after the scan has begun, which is more than the callback
does; `Persistence` restricts it.

### Persistence

`live` is the set of torrents in the session. A removal puts a
`torrent_removed_alert` in `alerts`, the callback's requests come back as
`save_resume_data_alert`s; both are represented by the row they lead to. The
callback handles them in order with the actions of `ResumeDb`. The order is
libtorrent's; the queue stands for everything that waits while the callback is inside SQLite.

`RowsHaveTorrents` takes a row that was handed over for a torrent; an
asynchronous add that fails later is modelled in `TorrentList` only.

`kept` and `gone` are history: the torrents whose last complete call was a save
that no removal follows, and those whose removal is complete and that nobody
added again. They are what `Collection` speaks of. Its process is `up` when
`lt_init_session` has returned with a database, `blind` when it returned
without one; rows, alerts, transactions and mutex are invisible to it. What it
promises depends on what may fail: saved torrents come back if no call of the
load and no END fails (`Loads`), removed ones stay away if no END fails.
Whatever makes `sql.cpp` return early is allowed in both.

### TorrentList

A handle is a hash and a generation, because a torrent that is removed and
added again is another object to libtorrent. The callback's insertion is
`FindHandle`, `InsertHandle`, `RaiseFlag`, in the order `AfterStep` gives; a
removal is `EraseHandle`, without a flag.

`lt_query_torrent` is four steps: `QueryBounds` (the size), `QueryElement` (the
reference, `is_valid`, and the call of `status()`, for which the application
waits), `RunStatus` (libtorrent's thread answers, after every call before it) and
`QueryFlags` (the reference again, for the paused flag). `moved` says that the
vector was written in between.

A read of an element that falls into a write of the vector, past its end, or
through a reference that has moved is undefined in C++ and yields `Garbage`
(or, for a command, any torrent). `size()` (`NTorrents`, `QueryBounds`) is the
difference of two pointers, read here in one step: before the write or after it. The application is not in the repository; it is modelled
as external code that uses the interface in the only order that can work:
`lt_need_update`, `lt_updated`, `lt_n_torrents`, then `lt_query_torrent` for each
index. `erased` is a history variable. Saves asked for by alerts are the
business of `Persistence`.

### TorrentFiles

`QueryFiles` is `lt_query_files` up to the call of `torrent_file()`, `RunFile`
its answer, null before the metadata is known. `info` is the torrent whose
`torrent_info` the raw pointer is to: the `shared_ptr` it came from is a
temporary, so only the torrent in the session keeps it alive, and `QueryFile`
follows it into `Garbage` once the torrent has left. `opened`, `asked` and
`astray` are history: what was shown at the index, which removals the
application asked for, and whether an index was used while a signal was pending.

### StrPool

The block is a function from offsets to the text whose byte is there.
`lt_allocate` is `Check`, `Take`, `Advance`, the steps of an unoptimised build
(`build.py --debug`); `Check` is the test and the reset in one. *app* runs two
`_lt_cached_str` per query (`Lookup`, `FillString`); the cache is indexed by hash alone, so strings
that hash alike share an entry. *net* writes the hash to a stream (`FillStream`), takes
the stream's string (`FillText`), copies it (`FillKey`), grows a vector
by doubling (`FillBuffer` copies), binds key and vector and holds them until
the statement is finalized. Each of these takes a piece of the pool. A request
may be larger than the block: its piece reaches past the end, and the cells of
the block are all the model has of that write.

Both threads run at once, in every run and in every theorem. The properties say
in their preconditions what they need, by history variables: `clash`, that two
calls overlapped since the block was last begun anew; `torn`, the same since
the save began; `spent`, the bytes both threads asked for since then; `anew`,
that the block was begun anew at all. `fresh` has the pieces filled since the last beginning;
while there is no `clash`, their places are the `live` pieces of `Arena`. What an
overlap does is the finding of `pool_race`; that a request made after it, when the block begins
anew, is sound again is part of `ImplementsArena`.

## Runs

| run | question | bounds |
|---|---|---|
| `db_faults` | does the table implement `ResumeMap`, and is the mutex accounted for, when anything fails; what an early return does to the load, and any call to an old table | 2 hashes, a decodable and an undecodable blob, 2 early returns, 1 crash, all faults |
| `db_live` | does the load end once the callback makes no more calls, and does it hand over every row; is the table atomic when BEGIN and END do not fail | 2 hashes, 2 early returns, complete calls without a bound, 1 crash; open, create, select and rollback fail |
| `persist` | the same table under the real callers; does the whole implement `Collection` | 2 hashes, 2 early returns, 2 alerts waiting, 1 crash; open, BEGIN, statement and rollback fail |
| `list` | list, flag, pass and commands; does a torrent go unseen; is an added one shown at last | 2 hashes, 4 calls, under fairness |
| `files` | is the pointer to the torrent that was shown | 2 hashes (symmetric), 4 calls, file queries without a bound |
| `pool` | both threads; does the pool implement `Arena`; do bound arguments stay | a block of 14 bytes, strings of 1 and 10, vectors to 2, 3 calls |
| `pool_strings` | strings that hash alike, and one larger than the block; does a query answer what was asked | the same block, strings of 1, 10 and 15, 2 calls |
| `db_mutex`, `db_legacy`, `db_corrupt`, `pool_race`, `pool_stale` | findings, below | the least that shows them |

Why the bounds are enough: two hashes give a row written and another one
untouched, and a row before and one after the one that fails. Calls of the
callback are not counted, only those that return early, because each of these enters the
mutex once for ever; two of them are a failed one and one that runs
inside the transaction it left open, with any number of complete calls before,
between and after. One crash divides every behaviour into a past and a future.
In `persist` a removal and the save it overtakes fill the queue. Four calls are
two adds, a removal and an add of the same hash or a command against the
shifted list. In `files` the same four calls surround the pointer: an add before it,
a removal and an add of the same hash under it. In `pool` the string of 10
bytes brings the end of the block within reach of every request of a save, so that
the block begins anew before the key, between key and vector and in the middle of the
growth, and a save whose pieces lie on both sides of it is followed by a query;
in `pool_strings` a query meets a cached string, one that collides with it and one that
does not fit. The proofs are for every size. `commit`, `fetch` and
`post` fail only in `db_faults`: the properties of `persist` and `db_live` hold only where they do not, and
say so. A `statement` that fails under the load ends it for good (`EarlyReturnEndsTheLoad`), so
in `db_live` calls return early for want of a table or of a connection.
`CHECK_DEADLOCK FALSE` everywhere: when the bounds are used up and nothing is
left to load or to answer, the system is at rest.

**Fairness.** `ResumeDb!FairSpec`: weak fairness of *dart*'s load and of the call *net*
is in. Both are straight code on threads the operating system schedules, which
wait only for the mutex; nothing forces a save or a crash. SQLite's mutex is
not fair, and a callback that calls without end may keep the load out for ever,
or, by REPLACE, put rows ahead of the scan for ever. `LoadTerminates` therefore
claims the end of the load only for behaviours in which calls cease.
`TorrentList!FairSpec`: weak fairness of libtorrent's thread and of the
application's polling; no command is forced.

## Findings

* `db_mutex` (`sql.cpp:113-158`, `174-195`): the error returns leave the
  mutex entered and the transaction open, where `sqlite3.h:3861` asks for
  every entry to be left. The next SQLite call of the other thread never returns.
* `db_legacy` (`sql.hpp:19`): the comment says the statement adds the name
  column; on an existing table it does nothing, and nothing is loaded.
* `db_corrupt` (`sql.cpp:54`): "load all torrents from previous session"
  (`sql.cpp:48`), but a row that does not decode ends the process, each time.
* `pool_race` (`memory.cpp:26-31`): both threads can get the same piece of the
  pool, and the key bound with `SQLITE_STATIC` changes under the statement
  (`sqlite3.h:4470`).
* `pool_stale` (`str.cpp:27`): `memory.cpp:27` says that the reset invalidates
  the string cache; the cache still answers.

Two remarks without a run: `dart_torrent.h:21` says that `lt_add_torrent` returns
the hash, and it returns nothing; `str.hpp:12` says that the hash string is
cached, and `str.cpp:43-50` never puts it into the cache.

## Proofs

`ResumeDb_proofs` proves, for all sets of hashes and blobs, all `Faults` and
all bounds, from `ConstantsAssumption` alone:

* `TypeCorrect`, `MutexIsAccountedFor`. Neither is inductive: that `held` stays
  a natural number needs the account of the mutex, and that the scan returns rows
  which exist needs `AheadExists`, which a rollback can break only once a call has returned
  early, when the scan is locked out. `TypeInv` is their conjunction with these
  and with `Booting` (no call of the callback before the scan).
* `AckedIsDurable`, from `AckInv`. Where BEGIN does not fail, a call is in a
  transaction (`BegunInTx`); where it does, there may be none, and then
  `work` and `disk` are the same (`InTxOnly`), so that the statement alone is written
  through. As long as END does not fail, `work` is `acked` but for the
  statement in progress (`WorkIsAcked`).
* `LoadIsComplete`, from `DueInv`: what is owed is handed over, ahead, or in
  hand, and never becomes a row without bytes.
* `Refinement`: `ResumeDb` implements `ResumeMap`, with no assumption on
  `Faults`. RunStatement is `Write`, or `WriteThrough` where BEGIN failed and
  no transaction was open; an early return is `Fail` or nothing. It
  rests on `BegunInTx` and `InTxOnly`.
* `EarlyReturnIsFatal` and `LegacyOnlyShrinks`, from `StuckInv`: no call returns
  early before the scan, and a table without today's columns is never scanned
  and differs, under the connection, from the file by deletions only. The first
  says what the finding of `db_mutex` means for the user: one failed save under
  the load, and `lt_init_session` never returns.

`Persistence_proofs` adds `MaxAlertsAssumption` and rests on `ResumeDb_proofs`: `UsesTable` shows that every
step of `Persistence` is a step of `ResumeDb` or leaves the table alone, which
carries `AckedDurable`, `LoadMissesNothing`, the two action properties and the
refinement over. New are:

* `RemovedStay`, from `RemovalInv`: removals are only asked for after the load
  (`RemovalsLate`), a save waiting for a torrent that has left the session has
  the removal behind it in the queue (`SavesThenRemoval`), and a torrent that is
  gone has no row, no waiting alert and no part in a load (`GoneInv`).
* `RowsAreOwned`, from `OwnerInv`: whoever has a row, in the table or in a save
  under way or waiting, is in the session or has a removal behind it. It takes
  in the rows that do not decode.
* `SavedComeBack`, from `KeptInv`: a torrent that is kept has a row with bytes,
  in the file and under the connection, if no END fails; no removal of it waits
  or is under way; and a load that succeeds has its row ahead or in hand, or has
  handed it over. A step of the
  callback under the load is the hard case: the row it replaces moves behind
  the scan's place and is met again.
* `PromiseKept`: `Persistence` implements `Collection`, with no assumption on
  `Faults`. The end of a scan is `Start` with the torrents handed over, END is
  `Keep`, `Forget` or nothing, a crash is `Stop`, and everything else stutters.
  `RemovalInv` gives what `Start` must not bring back, `KeptInv` what it must.

`TorrentList_proofs`, from `ListAssumption` alone. `Inv` has three parts:
`TypeInv` (with `WaitInv`: a call that is waited for is the last in the queue),
`TrackInv` (how list and session differ at each step of the callback, and
that the list has no handle twice) and `ShownInv` (what an *undisturbed* pass
has read so far: flag down, callback idle or still searching, nothing erased
since the count). `ShownIsCurrent` and `CommandsHit` follow at the end of such a pass.
`NoneUnseen` needs more, since it speaks of passes that erasures follow:
`SeenInv` has that the rows of a pass no erasure hit have every torrent of the
list, until the flag is raised, however many are erased after it.

`TorrentFiles_proofs` shows that `Inv` survives the calls for files, although
their steps are not steps of `TorrentList`, and adds `FileInv`: as long as no
index went astray, only removals that were asked for are queued, and pointer
and pending call are about the torrent that was opened. `FilesLeaveList`,
`FilesLeaveNoneUnseen` and `FilesLeaveCommands` say that what is proved of the
list holds with calls for files in between.

`StrPool_proofs`, from `PoolAssumption` alone: two threads in any order, every
size of the block, every length, every hash function, requests larger than the
block included. The assumption only says that sizes are numbers and that
no text is empty.

* `TypeCorrect`, from `TypeInv`: what a thread that is placing a text asks for
  (`AppAsks`, `NetAsks`).
* `PiecesStayInBlock` and `Refinement`, from `AllocInv`: while calls do not
  overlap one thread is inside at most, the room it tested for is still there
  when it takes its piece (`Tested`), and what was placed lies `Behind` whatever is
  placed next. All of it is void while there is a `clash`, and has to be
  established again at the new beginning that ends the clash.
* `AnswersAreRightAtFirst`, from `AnswersInv`: what the cache and the answers
  point to lies behind `last` with its text in it. `AllocInv` alone does not
  do: it must be kept through a save, and pieces of the cache are
  not among those a thread holds.
* `BoundArgumentsStay`, from `SaveInv`. The save may have begun before the block
  was begun anew and end after it, so its pieces need not lie behind `last`. Each is
  `Kept`: either it does, or the block was begun anew under the save, the piece
  is at the end that was left, no further from the end of the block than what was spent,
  and `last` is no further from the beginning. Twice what was spent being at most the
  block, the two do not meet. An overlap before the save does no harm, since
  `torn` is lowered where it begins.

Each proof has one step per action, or one lemma per action where it is long.
Only model-checked: what holds under fairness (`LoadTerminates`,
`DartSeesAdd`; liveness is out of the prover's reach) and the violations.

## Not modelled

* libtorrent, SQLite and the application, but for what the code relies on.
  The callback is taken to run at each alert, on libtorrent's thread.
* A second `lt_init_session`, which swaps the connection under a call of the
  callback, and an add before the first one, which lets the callback run
  without a database: the application is assumed to initialise once, first.
* Weakly ordered memory: steps of a thread take effect in program order. The
  flag and the list are plain variables, so on ARM this is more than the code
  guarantees. The variant `FlagFirst` of `AfterStep` is such a reordering, and
  breaks `ShownIsList`, `NoTorrentUnseen` and `DartSeesAdd`.
* A process ended by an undefined access: such reads return garbage.
* An exception that leaves the callback (`ra->handle.status()`,
  `dart_torrent.cpp:60`), a callback that runs inside another one, and the
  automatic resumption of a paused torrent: each depends on libtorrent, whose
  source is not in the repository.
* What a request larger than the block overwrites behind it: the model has
  the cells of the block only.
* The key of a torrent changes in libtorrent: `get_best()`
  (`dart_torrent.cpp:55`, `:58`) may answer another hash for a hybrid torrent once its metadata is
  known. A torrent has one hash here.
* A callback that makes calls for ever: nothing is claimed of the load then.
* The hash strings `lt_init_session_db` places in the pool for its log lines.
* `misc.cpp` (settings given once to a library object, casts, names of states),
  `trackers.hpp` (a constant), logging and the build scripts: no state of their
  own that an operation changes.
* `src/src/sqlite3/shell.c`, 23,503 lines: the command-line tool of SQLite,
  vendored beside the code and not compiled by `build.py`. It is most of the
  lines under `src/src`; of the 892 others the modules model the ones that
  change state.

## Left undone

* The operations of `lt_init_session` in the wrong order or twice, as above.
* A composition of `TorrentList` with `Persistence`: they share the alerts, and
  each leaves out what the other does at one. The list and the table meet only
  in libtorrent's session.
* An abstract specification of the list. `ShownIsList` and `DartSeesAdd` say
  what it would promise; a refinement would need the end of a pass as one step.
