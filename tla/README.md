# A TLA+ model of the Nexus FTP engine

This directory holds TLA+ specifications of the FTP engine in `src/src/` and of the
version 1 programs beside it (`src/server`, `src/client`), the TLC
configurations that check them on small instances, and TLAPS proofs that their safety
properties hold for every value of the constants. File names below are relative to `src/src/` unless they start with `src/`. `PROJECT.json` maps every definition to the lines it translates.

## The system

| Part | State it keeps | Operations | Where |
|---|---|---|---|
| Thread pool | task queue, mutex, condition variable, `shutdown_`, `activeTasks_`, workers | `submit`, `shutdown`, `workerLoop`, destructor | `server/thread_pool.*` |
| Synchronisation | `Mutex`, `CondVar` (win32: semaphore and `waiters_`; POSIX: `std::condition_variable`), `Thread`, atomics | `lock`, `wait`, `notify_one/all`, join in `~Thread`, `AtomicU64::dec` | `common/win32_threads.h` |
| Server | `running_`, `listenSocket_`, `pool_`, `admin_`, counters in `ServerContext` | `start` (accept loop), `shutdown`, destructor | `server/ftp_server.*` |
| Dashboard | its own `running_`, `listenSocket_`, `thread_` | `start`, `stop`, `loop`, `handleClient` | `server/admin_server.*` |
| Entry point | the global server pointer | `signalHandler`, `main` | `server/main.cpp` |
| Session | `state_`, user, root, working directory, `renameFrom_`, `restartOffset_` | one handler per FTP command | `server/session.*` |
| Data channel | passive listener, active address, mode | `enterPassive`, `enterActive`, `open` | `server/data_channel.h` |
| Transfer engine | per-transfer byte count and offset; the files | `sendFile`, `recvFile`; `transmitFile` | `server/transfer.h`, `common/platform.cpp` |
| Authentication | failure count and block time per address | `isRateLimited`, `authenticate`, `recordFailedAttempt`, `clearAttempts` | `server/auth.*` |
| Client | control socket, data socket | `connect`, `login`, `list`, `download`, `upload`, `rename`, ... | `client/*` |
| Bandwidth limiter | `limit_`, `windowStart_`, `windowBytes_` of each session | `throttle`, `setLimit` | `server/transfer.h` |
| Version 1 server | per thread: `loggedIn`, `currentDir`, `renameFrom`, passive socket; the files | `handleClient`, one branch per command; a thread per connection | `src/server/main.cpp` |
| Version 1 client | control socket, data socket | `doList`, `doDownload`, `doUpload`, command loop | `src/client/main.cpp` |
| Logger, configuration, SHA-256, password tool | see "Not modelled" | | |

How they interact. The main thread accepts connections, compares `activeConnections`
with `max_clients` and submits a lambda to the pool; a worker runs it: it constructs a
`Session` (which increments the counter) and calls `run()`, which decrements it. All
sessions share the file system, the `AuthManager` and the counters. `FTPServer::shutdown`
is called by the signal handler, by the dashboard thread (the stop request) and by
`~FTPServer` on the main thread; it closes the listener, stops and joins the dashboard
thread, shuts the pool down (which joins the workers) and logs the final statistics. The
client and a session exchange commands and replies on the control connection and open a
second connection for data.

What is hard: `shutdown_` and `running_` are atomics changed outside the mutexes that
protect what they guard; the win32 condition variable is hand-written; several threads may
shut down, one of them on top of the main thread (POSIX signal) or beside it (win32), and
signals may nest; the pool may be destroyed under a thread that is shutting it down; the
dashboard thread can be asked to stop itself; counters are checked at one place and
changed at another; three critical sections make up one login attempt; a file is tested,
then the session waits for the client, then the file is opened; both ends of a data
connection must close in the right order for either to go on.

What makes each part correct: the pool hands out tasks in order, once, loses no wakeup,
and drains before `shutdown` returns; the server's "Shutdown complete." is true and its
counters account for sessions; the limiter's overshoot is bounded and a block ends; a
session's root, user and paths change together at every login, and what it makes and removes
by paths without `..` lies in its own user's home; an undisturbed transfer
moves the right bytes as far as disk and `fseek` let it, and never more than the limit; a
throttled session keeps to its rate; the client's replies belong to its commands; no way through a
version 1 handler leaves a file or socket open.

## Modules

| Module | Models | Remarks |
|---|---|---|
| `TaskQueue` | what the pool promises | abstract specification; also the pool inside `FtpServer` |
| `ThreadPool` | `thread_pool.cpp` on either `CondVar` | one action per mutex, condition-variable or atomic operation |
| `FtpServer` | `ftp_server.cpp`, `admin_server.cpp`, `main.cpp` | uses `TaskQueue` through `INSTANCE` |
| `AuthManager` | `auth.cpp` as `handlePass` calls it | time is relative to each block |
| `Session` | the command state machine and `data_channel.h` | paths are texts; the file system reads them as places |
| `Transfer` | RETR, STOR, REST, DELE of one path, on Linux and win32 | files are inodes; the disk may refuse a byte |
| `RateLimiter` | `RateLimiter::throttle` and the clock it reads | time in integer units |
| `FtpClient` | `ftp_client.cpp`, and the version 1 client, with one session at the other end | replies carry the command they answer |
| `LegacyServer` | the version 1 server | arbitrary clients |
| `MC*` | the instances for TLC | |
| `*Proofs` | the theorems about each of the eight detailed modules | see "Proofs" |

Correspondence in short.

*ThreadPool.* `pc` is each thread's place: workers walk `lock`, `check` (loop test),
`wait`/`blocked`, `relock`, `exitcheck`, `pop`, `claimed`, `running`, `ended`; submitters
and callers of `shutdown` likewise. `build`, chosen in `Init`, says which condition variable: `"win32"` takes the semaphore of
`win32_threads.h` (a token outlives its notification, `waiters_` is decremented under the
mutex), `"posix"` the standard one, with spurious wakeups. `accepted`, `started` and
`finished` are histories.

*FtpServer.* `mpc`, `apc` and `spc[x]` are the places of the main thread, the dashboard
thread and each caller x of `shutdown`: the main thread in `~FTPServer`, the dashboard thread,
the handler on the main thread (on win32 on its own) and a handler on a worker. `build` is
chosen in `Init`, so one run covers both builds.

On POSIX `MainRuns` keeps the main thread still while the handler runs on top of it,
`close()` does not wake a blocked `accept()`, joining oneself throws (`process = "aborted"`)
and a send to a peer that has gone raises SIGPIPE (`"killed"`). The kernel gives a signal to
the main thread if that can take it, which the model assumes; a second one, while the first
is in its handler, comes to the same thread (SIGTERM within SIGINT), to a worker
(`SignalOnWorker`, with the session it holds up in `stalled`) or to the dashboard thread
(`SignalOnAdmin`). A handler that interrupts a log call of its own thread waits for the
logger's mutex forever and with it everybody who logs (`stuck`): `SignalArrives` for the log
calls of the main thread, `SignalInLog` for those of the handler, of a session and of the
dashboard. At `"push"` the main thread holds the pool's mutex, with the same effect on
`LockPool`. On win32 a second Ctrl+C ends the process (`SecondCtrlC`). Of the signals on other
threads only those are told apart that come before the first handler has taken `running_`;
later ones find it taken and return, or get stuck.

`new AdminServer`, its `start()` and its thread are three steps (`MakeAdmin`, `AdminListens`,
`AdminThread`) with shutdowns in between, which may delete it first (`apc = "deleted"`).
`~ThreadPool` is `DeletePool` (its `shutdown()` returns at once if the pool is closed already),
else `DrainPool`, then `DestroyPool`, which destroys `cv_`, `mutex_` and `tasks_`, then
`UnwindPool`, which joins the workers that are left. A `DestroyPool` before the workers were
joined is a race (`raced`), and its outcome is undefined: the process aborts, the thread hangs,
or the queue goes with the connections in it (`lost`).

*AuthManager.* An attempt is `Pass` (begin), `RateLimited`/`NotRateLimited`, `Authenticate`,
then `recordFailedAttempt` or `clearAttempts`, each one critical section; `Tick` lets time
pass for all blocks.

*Session.* One action per command that changes state. Commands with a data connection are
split at `dataChannel_.open()`, where other sessions act, and STOR also where `fopen` makes the
file and where an upload over the limit is deleted (`StorOpen`, `StorExceeds`, `StorDelete`).
A path is a text, the sequence of its components with `..` among them: `resolvePath` joins
texts and `isWithinRoot` compares their beginnings, neither normalises. `Place` is what the
file system makes of a text; the tree is the one win32 builds, since `resolvePath` joins with a
backslash, and win32 drops `..` with the component before it without looking at the disk.

*Transfer.* Between "150" and the opening of the file, and between two bytes, other sessions
act, during a zero-copy transfer too (`ZeroCopy` moves one byte). `build` chooses between
`sendfile` (may stop early) and `TransmitFile` (all or failure; its file is closed to writers),
and between files that outlive their names and files that cannot be deleted while open
(`Held`). `StorWrite` hands a byte to stdio, `StorFlush` or `StorRefused` is its end on the disk,
and nobody looks at the results. `Sought` is what the unchecked `fseek((long)offset)` does: the
offset, modulo 2^Width, becomes a `long` of `LongWidth` bits on win32 and of `Width` bits on
POSIX, and a negative one leaves the position at the start. `clean`, `snap`, `wire`, `refused`,
`again` and `first` are histories.

*RateLimiter.* A session alternates `Move` (a chunk, which takes some time) and one call of
`throttle`: `ThrottleOn` when it leaves the window open, `ThrottleReset` when it sleeps or finds
the second over. Quotients of doubles become products of integers; the truncation of the sleep
to milliseconds, the clamp of the elapsed time and the granularity of the win32 clock are kept.
On POSIX `clock()` adds up what all processors do for the process, this session included: it may
count anything between nothing and `Cores` times the time that passes.

*FtpClient.* `c2s` and `s2c` are the two directions of the control connection. `ServeJoined`
is a `recv()` that returns two commands. Either side may end at any moment (`ServerGone`,
`ClientDies`). `version` chooses the engine's pair of programs or the version 1 pair, whose
session closes the data connection and the listener before its last reply (`CloseFirst`,
`ReplyLast`) and whose client logs in without looking at the first two replies (`LoginV1`).

*LegacyServer.* `ses[s]` holds the variables of one `handleClient`, its thread's place and the
state of its connections; `handles` counts the open `FILE*` of each path. A handler is one
action up to `getDataSocket`, where it waits; then chunks arrive one by one, and the disk takes
each (`RecvChunk`) or not (`LoseChunk`). `Client` is the
other end: it may connect, send, close, break off or leave at any moment.

## Runs

All passing runs finish within about two minutes on two cores. States are distinct states.

| Run | Instance | Checks |
|---|---|---|
| `pool` | both condition variables, 2 workers, 1 submitter, 2 closers, 2 tasks (44 191) | order and exactly once (`FifoExactlyOnce`); `front()` never on an empty queue (`PopFindsTask`); drained when joined; `activeCount()` exact; `waiters_` exact; no worker asleep beside a task (`WorkConserving`); `notify_all` reaches every sleeper; the pool implements `TaskQueue`; accepted tasks run; the first `shutdown()` returns |
| `server` | both builds, 2 connections, pool of 1, `max_clients` 1 (243 689) | counters (`ActiveAccounts`); every connection in exactly one place (`ConnectionsAccounted`); POSIX: `CompleteMeansQuiet`, `PoolOutlivesShutdown`, `CtrlCCompletes`; win32: `QueuedServed` |
| `server_shutdown` | 1 connection | violated: `ShutdownCompletes` |
| `auth` | 3 sessions of one address, 1 of another, limit 3, block 2 (50 899) | `OvershootBounded`, `LimitReachedBlocks`, `BlockExpires` |
| `auth_term` | same | violated: `BlockServesTerm` |
| `transfer` | both builds, 2 sessions, 2 byte values, limit 2, files up to 2 bytes, 3-bit counts, 2-bit `long` (1.0 M) | `UploadFaithful`, `DownloadFaithful`, `UploadBounded` |
| `transfer_restart` | 1 session | violated: `RestartPosition` |
| `session` | 2 sessions, 2 users; a name and `../anonymous` as arguments, working directories of up to 3 components (1.5 M) | `ReadyOwnsRoot`, `WritesAtHome`, `RemovesAtHome` |
| `session_control` | 1 session | violated: `ControlAlive` |
| `limiter` | both clocks, limits 2, 3, 5 and 16 bytes a second of 4 "milliseconds", chunks up to 8 bytes (82 905) | `RateKept`; the byte count of a window stays bounded (`TypeOK`) |
| `client` | both versions, 5 operations (79 491) | `InSync`, `OperationsReturn`, `SessionFreed` |
| `legacy` | 2 sessions, 2 names, depth 2, 4 commands after login, uploads of up to 2 chunks (2.8 M) | `HandlesAccounted`, `StoredIsSent` |

Every passing run also checks its module's `TypeOK`.

Why the bounds suffice. Two workers and two tasks give every race the pool's code
distinguishes: one worker asleep, one between its tests; a token consumed and not yet
counted; two callers of `shutdown`. One submitter is what the program has: the accept loop is
the only caller of `submit`. More workers repeat the same pairs. The theorems below remove
the bounds for all safety properties; they matter for the liveness properties only. Two
connections with a capacity and a pool of one make the server refuse, queue behind a running
session, reject, lose and serve, with every caller of `shutdown` at every point. Three sessions of
one address let two be between check and record when the third reaches the limit. In
`transfer` a limit of two bytes with appending uploads reaches overflow, truncation under
a writer and a size less than the offset, whose difference wraps, and the arguments 5 and 9 of
REST are an offset that a 2-bit `long` turns into 1 and one that wraps to 1 itself. States that
differ only in the statistics and the last replies count as one there (`View`): no action reads
either, and `DownloadFaithful` compares only how much the statistics grow. In `session` one client changes
users and climbs through `..` into the other home, while the other stays there; one entry in
each home is enough for every conflict of two commands. In `client` four operations are what it takes
to see a stale reply, a stale port and the failing open that follows. In `limiter` a second has
four milliseconds of three units each, so that a reading can be rounded, a sleep truncated and a
window end by its age as well as by a sleep; the limits lie below and above a byte in a
millisecond. In `legacy` four commands suffice for PASV, STOR, and two commands of the other
session against the file in transfer. A capped counter (`MaxFailures`, `MaxOps`, `MaxBytes`,
`MaxText`, `MaxDepth`, `MaxCmds`, `MaxWall`) only limits how long a behaviour is.

Deadlock is checked in all runs but those of the server, the client and version 1, which really
end.

Fairness. In the pool, a thread that can run does, and a mutex that is free again and
again is some time given to each waiter (strong fairness on lock operations; the mutexes
are the operating system's); nobody has to call `submit`, and no spurious wakeup has to
come. In the server, each thread goes on when it can, signals do not starve the main
thread, and a session ends some time. The last is an assumption on clients: the control
socket has a receive timeout, a passive `open()` has none (`session_control`). In `auth`
time passes and begun attempts end. In `client` both programs go on; the user need not
ask for anything and nothing has to fail.

### What the violated runs show

* `server_shutdown`: the stop request reaches `FTPServer::shutdown` on the dashboard thread,
  which deletes its own `Thread`; joining oneself throws in a destructor and the process is
  terminated (on win32 it waits for itself). The same join makes Ctrl+C hang on Linux: `close()`
  does not wake the dashboard's `accept()`, so the handler waits until another request happens
  to arrive. Without the dashboard a signal completes (`CtrlCCompletes`).
* `auth_term`: a login that was past the check when the block began clears it.
* `transfer_restart`: STOR after REST k appends; k is not used as a position.
* `session_control`: a passive data command whose client does not connect never returns.

### Behaviour the model contains and no property forbids

* win32: the main thread can destroy `pool_` while the handler's thread is still in
  `shutdown()`: the queue and its mutex go before the workers are joined, and connections in the
  queue may be lost (`raced`, `lost`; hence the premises of `PoolOutlivesShutdown` and
  `QueuedServed`). "Shutdown complete." can be logged while the pool drains.
* POSIX: the same can happen when a second signal reaches a worker before the first has taken
  `running_`; that worker then joins itself in `pool_->shutdown()` (`JoinOwnWorker`).
* More than `max_clients` sessions can be open, since queued ones are not counted yet; a
  session left by an exception keeps its slot (`thrown`).
* A signal before `running_` is set is lost; one that interrupts `submit()` or a log call, the
  handler's own included, waits for its own thread's mutex (`stuck`); a dashboard started after a
  shutdown began is not seen, or deleted while it starts.
* A socket whose task the closing pool rejects is not closed (`dropped`, counted in
  `ConnectionsAccounted`).
* `..` in a path passes `isSafeFilename` and `isWithinRoot`, so such a path can name a place in
  another home; `ReadyOwnsRoot`, `WritesAtHome` and `RemovesAtHome` claim the home only for paths
  without it.
* A full disk shortens an upload that is answered 226, in both versions. A REST that does not
  fit a `long` makes the buffered download start elsewhere and answer 226.
* With REST the size limit holds per upload, not per file; a `sendfile()` that stops early is
  answered 226. On win32 a REST behind the end of the file adds the wrapped difference to the
  statistics, and a `TransmitFile()` that fails half-way is followed by the whole range again.
* Zero-copy transfers never call the limiter. Where it is called, a window may exceed its budget
  by two milliseconds' worth, so windows of a millisecond or two run at up to three times the
  limit. On POSIX the clock is processor time of the whole process: `bandwidth_limit_kbps` is not
  kept there, only `Cores` times it (`RateKept`), and a session that mostly waits is delayed for
  time that has passed already.
* Version 1: STOR truncates the file before there is a data connection; a PORT argument that is
  no number ends the process (`PortThrows`); a connection without a thread is never closed
  (`unserved`); 226 is sent whatever `send()` and `recv()` have returned.
* `renameFrom_` survives a second login: RNTO moves a path of the first user's home into the
  second's (the exception in `RemovesAtHome`).
* After a download given up because the local file cannot be created, the client stays one
  reply behind; a later download can then leave the session waiting in `accept()` (`gaveUp`).
* The client takes the 230 of an anonymous USER for a failed login.

## Proofs

Every invariant and every action property that a passing run checks is also a theorem,
proved for every value of the constants its module's assumption allows; so is the refinement
of `TaskQueue`. In each proof module the inductive invariant is called `IInv` (`AuthManager`
needs none beyond the properties); TLC checked each one before it was proved.

| Module | Theorems and the properties they state | For every |
|---|---|---|
| `ThreadPoolProofs` | `TypeCorrect` (`TypeOK`), `Fifo` (`FifoExactlyOnce`), `PopSafe` (`PopFindsTask`), `WaitersCounted` (`WaitersExact`), `ActiveCounted` (`ActiveExact`), `WakeupsSuffice` (`WorkConserving`), `ShutdownWakes` (`ShutdownWakesAll`), `ShutdownDrains` (`DrainedWhenJoined`), `PoolImplementsTaskQueue` (`ImplementsTaskQueue`) | finite set of workers, any submitters, closers and tasks, both condition variables |
| `FtpServerProofs` | `TypeCorrect` (`TypeOK`), `CountersExact` (`ActiveAccounts`), `ConnectionsKept` (`ConnectionsAccounted`), `PoolStaysAlive` (`PoolOutlivesShutdown`), `CompleteIsQuiet` (`CompleteMeansQuiet`) | finite set of connections, any pool and capacity, both builds |
| `AuthManagerProofs` | `TypeCorrect` (`TypeOK`), `Overshoot` (`OvershootBounded`), `LimitBlocks` (`LimitReachedBlocks`) | finite set of sessions, any addresses, limit and term |
| `SessionProofs` | `TypeCorrect` (`TypeOK`), `Confined` (`ReadyOwnsRoot`), `WritesStayHome` (`WritesAtHome`), `RemovesStayHome` (`RemovesAtHome`) | sessions, users, names, logins, arguments and places |
| `TransferProofs` | `TypeCorrect` (`TypeOK`), `UploadsFaithful` (`UploadFaithful`), `DownloadsFaithful` (`DownloadFaithful`), `UploadsBounded` (`UploadBounded`) | finite set of sessions, any bytes, limit, file size, REST arguments and widths, both builds |
| `RateLimiterProofs` | `WindowBounded` (`TypeOK`), `RateIsKept` (`RateKept`) | limits, chunks, clocks and number of processors |
| `FtpClientProofs` | `TypeCorrect` (`TypeOK`), `StaysInSync` (`InSync`) | number of operations, both versions |
| `LegacyServerProofs` | `TypeCorrect` (`TypeOK`), `HandlesClosed` (`HandlesAccounted`), `UploadsStored` (`StoredIsSent`) | finite set of sessions, any names, depth and bytes |

Assumptions. Each detailed module declares one (`ThreadsAssumption`, `ServerAssumption`,
`AuthAssumption`, `SessionAssumption`, `TransferAssumption`, `LimiterAssumption`,
`ClientAssumption`, `LegacyAssumption`): the types of the constants, that threads or sessions
are finitely many where they are counted, and that stand-ins ("no thread", a hole in a file,
"written by several") are nothing else. Four say more. The pool has a worker
(`thread_pool_size` is positive) and its three kinds of threads are disjoint. A second is a
whole number of milliseconds. `anonymous` is a user name. `WidthAssumption` of `Transfer`
says that the limit is less than the largest counter value: `maxFileSizeBytes` is a number of
megabytes modulo 2^64 (`server/ftp_server.cpp:26`), which leaves 2^20 above it; with the
largest `uint64_t` as limit the comparison in `recvFile` could never fail.

### The arguments

Nearly none of the properties is inductive alone.

*ThreadPool.* `MutexInv`: a thread at a point inside the critical section holds `mutex`, so
two threads are never between test and pop or test and push. `HandsInv`: what a thread holds
in `task` agrees with its place. `LoopInv`: a worker past the loop test found a task or
`shutdown`, and nobody can take the task away while it holds the mutex; this gives
`PopFindsTask`. `ExitInv`: once a worker has left, `shutdown` is set, the queue is empty and
no submitter is between test and push; all three tests are under the mutex and `shutdown`
never goes back, which is why tasks accepted while the flag is being set are not lost.
`StartedInv` and `FinishedInv`: every started task is in a worker's hands or finished; with
all workers gone this gives `DrainedWhenJoined`. `SleepInv`: a worker goes to sleep with the
mutex held since it saw an empty queue. Together with `WaitersExact` this is what makes
`WorkConserving` inductive: a push happens when nobody is between test and sleep, its
`notify_one` adds a token or wakes a sleeper if there is one, and a worker that consumes a
token joins those on their way to the queue. `ShutdownWakesAll` uses that `notify_all` takes
place under the mutex, after the flag (`FlagInv`). The four counting properties rest on facts
about the cardinality of the sets of threads at given places.

*The refinement.* `TaskQueue` is instantiated (end of `ThreadPool`) with a task in `todo` until
`submit()` has decided about it, the closures in workers' hands as `running`, `closed` once
`shutdown_` is set and no submitter that had passed its test is still inside `submit()`, and
`joined` once a caller of `shutdown` is past its joins. Push, pop, end of a task, rejection, the
moment of closing and the joins are steps of `TaskQueue`; all others leave its state alone.
`OnceInv` (no closure is in two places) is needed to see that a push takes one task from `todo`,
that a pop adds a new one to `running` and that there is a free slot; `LastPushInv` that the
queue has been closed before it is joined.

*FtpServer.* `PlacesInv`, `CurInv` and `DroppedInv` partition the connections, with at most
one in the main thread's hands and at most one dropped by the closing pool, after which the
accept loop cannot come round again; what is lost went with a pool destroyed too early. For the
shutdown, `RunningInv` says that only one caller gets past the exchange of `running_`; `DtorInv`
that the destructor is through its own `shutdown()` before it deletes the pool, and that joined
workers leave nothing behind; `AdminInv` that the dashboard thread never comes out of joining
itself, which takes that it is seen running by whoever stops it; `HandlerInv` that on POSIX a
handler past the exchange keeps the main thread, and so the destructor, where it is. From these,
while no worker has run the handler, `PosixInv`: a closed pool is joined, or somebody whom the
destructor waits for is about to join it; so it is joined when it is destroyed and when the end
is logged. `CompleteMeansQuiet` follows with `ListenInv`: nothing reopens the listener or the
pool. That the kernel prefers the main thread for a signal is part of the model, not proved.

*AuthManager.* `OvershootBounded` counts attempts in flight with the failures: a handler joins
those in flight only below the limit, and leaves with the one failure it records or with the
count cleared. `LimitReachedBlocks` is inductive beside `TypeOK`.

*Session.* A user name precedes a password (`LoginInv`), a session's texts begin with its root
(`HomeInv`: `CDUP` and `CWD` keep that because the text is compared after it is made), an upload's
place was in bounds when it began (`TargetInv`), and the tree is one (`TreeInv`), which a rename
has to keep for all that moves with a directory. A text without `..` is its own place, so where
it begins is where it lies; from there each action is seen to touch only what its path names.

*Transfer.* On win32 nobody writes a file that `TransmitFile()` is sending (`Apart`), and a file
is open exactly in the loops (`Phase`). While nobody interferes, the file of an upload holds
what has left the buffer, less what was refused (`Stored`), and a download's bytes are the
file's from where it started (`Reading`). `Counted` relates the counter to the bytes sent, those
of a failed `TransmitFile()` apart. `Metered` says that the counter compared with the limit has not wrapped: it starts at 0,
grows by one and is stopped at the limit, which is where `WidthAssumption` is used.

*RateLimiter.* `ClockInv` relates what `clock()` has counted to the time that has passed; the
rest is integer arithmetic on one window, by cases on how it ended.

*FtpClient.* `SyncInv` says for each place of the client what is on its way: at the prompt
nothing; after a command with one reply either the unserved command or at most that reply;
after a data command the command, its "150" with the session busy, or up to two replies. A
session that has gone leaves no command behind, so a reading client cannot overtake one.
`PortsInv` counts the PASV commands on their way, which bounds the ports.

*LegacyServer.* A file that a session has open is not removed or moved (`OpenInv`), its length
what is on the wire and what the disk refused add up to what was sent (`StoredInv`), and an upload that is alone
stays so (`AloneInv`); `HandlesInv` counts the sessions that have a path open. `TreeInv` is
needed for renames of directories.

### Only model-checked

Liveness, and everything under fairness, is out of the prover's reach: `AcceptedRuns`,
`ShutdownReturns`, `QueuedServed`, `CtrlCCompletes`, `BlockExpires`, `OperationsReturn`,
`SessionFreed`. The refinement theorem is about the safety part of `TaskQueue`, which has no
fairness. The four violated runs are counterexamples and need no proof.

## Not modelled

Paths that climb above `rootDir`, and the components `.` and empty, which change no place
(`Session`); commands that only answer (SIZE, MDTM, PWD, FEAT,
SYST, TYPE); a command split over two segments; the wording of replies and listings, the log and
the HTML page; `config.h` (its values are constants here), `sha256.h` and the hashing in
`auth.cpp` (pure functions); `loadUsers` (before any session); `tools/`; the console of either
client. In version 1, a PASV whose `socket()` or `listen()` fails is answered 227 all the same;
the model has it succeed.
`thread_pool_size = 0` is excluded by assumption.

## Plan

Done: the modules above, in this order: `TaskQueue`, `ThreadPool`,
`FtpServer`, `AuthManager`, `Session`, `Transfer`, `FtpClient`, `RateLimiter`, `LegacyServer`,
and a proof module for each.
`FtpServer` composes the pool (through its abstract specification), the dashboard, the signal
handler and the sessions; `FtpClient` composes client and session, in both versions.

Left to model: the control connection as a byte stream (split commands, over-long lines);
an abstract specification of the login limiter and of a session's
confinement for the detailed modules to implement.

Proofs: the safety properties are all proved. Left: the safety half of an argument for
liveness, such as a measure that each step of `shutdown()` decreases, and theorems for what is
modelled next.
