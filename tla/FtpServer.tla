----------------------------- MODULE FtpServer ------------------------------
(***************************************************************************)
(* The server process: the accept loop of FTPServer::start on the main     *)
(* thread, the pool of workers that run sessions, the admin thread, the    *)
(* SIGINT/SIGTERM handler, and FTPServer::shutdown, which any of these     *)
(* threads may call.  The pool is the one TaskQueue specifies; of its      *)
(* mutex only the part that matters here is kept: the main thread holds it *)
(* at "push".  Of the logger's mutex it is kept that a handler which       *)
(* interrupts its own thread in a log call never gets it.                  *)
(*                                                                         *)
(* build is "posix" (the handler runs on top of the thread that the signal *)
(* interrupts, the main thread unless that is in a handler already, which  *)
(* stands still meanwhile; close() does not wake a blocked accept()) or    *)
(* "win32" (the handler gets a thread of its own; closesocket() does).     *)
(***************************************************************************)
EXTENDS Integers, Sequences, FiniteSets

CONSTANTS Conns,         \* client connections
          PoolSize,      \* thread_pool_size
          MaxClients     \* max_clients

ASSUME ServerAssumption ==
    /\ IsFiniteSet(Conns)
    /\ PoolSize \in Nat \ {0} /\ MaxClients \in Nat

VARIABLES
    build,       \* which build this is: chosen once
    process,     \* "up", "aborted" (std::terminate, undefined behaviour),
                 \* "killed" (SIGPIPE, a second Ctrl+C on win32), "exited"
    running,     \* running_
    listenOpen,  \* listenSocket_ is valid
    mpc,         \* main thread
    cur,         \* connection in the main thread's hands, as a set
    spc,         \* progress of each caller of FTPServer::shutdown
    apc,         \* admin thread
    adminOpen,   \* the admin's listenSocket_ is valid
    adminRun,    \* the admin's running_
    todo, queue, sessions, ended, closed, joined,   \* the pool, see TaskQueue
    counted,     \* sessions whose constructor has run
    active,      \* context_.activeConnections
    total,       \* context_.totalConnections
    thrown,      \* sessions left by an exception
    refused,     \* connections answered "421 Server busy."
    dropped,     \* connections whose task the pool rejected
    deleted,     \* pool_ has been deleted
    complete,    \* "Shutdown complete." was logged
    touchedDead, \* pool_ was used after its deletion
    raced,       \* pool_ was deleted while another thread waited for its workers
    lost,        \* connections still queued then, if the process survived that
    stuck,       \* a handler waits for the logger's mutex its own thread holds
    stalled      \* session on the worker that runs a handler, as a set

poolVars == <<todo, queue, sessions, ended, closed, joined>>
countVars == <<counted, active, total, thrown>>
adminVars == <<apc, adminOpen, adminRun>>
sigVars == <<stuck, stalled>>
endVars == <<deleted, complete, touchedDead, raced, lost, sigVars>>
upVars == <<build, process, running, listenOpen>>
outVars == <<refused, dropped, endVars>>
vars == <<upVars, mpc, cur, spc, adminVars, poolVars, countVars, outVars>>

Pool == INSTANCE TaskQueue WITH
    Tasks <- Conns, Slots <- PoolSize, running <- sessions, done <- ended

\* "signal" is the handler on the main thread (on win32 on its own), "worker" a
\* handler on a worker.
Callers == {"main", "admin", "signal", "worker"}
Stages == {"idle", "log", "exchange", "close", "stop", "join", "pool_close",
           "pool_lock", "pool_join", "stats", "done"}

Init ==
    /\ build \in {"win32", "posix"}
    /\ process = "up" /\ running = FALSE /\ listenOpen = FALSE
    /\ mpc = "start" /\ cur = {}
    /\ spc = [c \in Callers |-> "idle"]
    /\ apc = "off" /\ adminOpen = FALSE /\ adminRun = FALSE
    /\ Pool!Init
    /\ counted = {} /\ active = 0 /\ total = 0 /\ thrown = 0
    /\ refused = {} /\ dropped = {}
    /\ deleted = FALSE /\ complete = FALSE /\ touchedDead = FALSE
    /\ raced = FALSE /\ lost = {} /\ stuck = FALSE /\ stalled = {}

\* Mutant: the handler leaves the shutdown to a thread of its own.
MainRunsOn == process = "up"

\* On POSIX the interrupted main thread waits for its handler to return.
MainRuns == process = "up" /\ (build = "posix" => spc["signal"] \in {"idle", "done"})

Main(from, to) == MainRuns /\ mpc = from /\ mpc' = to

-----------------------------------------------------------------------------
(* start(): set up, then accept, check the capacity, submit.               *)

\* The main thread is inside a log call; at MayLog for a part of the time.
Logging == {"banner", "fatal", "warn", "logging"}
MayLog == {"start", "listen", "drain"}

\* The stages of shutdown() and of the handler with a log call before their end.
LogStages == {"log", "close", "pool_lock", "pool_join", "stats"}

StartOk ==
    /\ Main("start", "banner")
    /\ running' = TRUE /\ listenOpen' = TRUE
    /\ UNCHANGED <<build, process, cur, spc, adminVars, poolVars, countVars, outVars>>

\* socket() fails, or bind() or listen() on an open socket.
StartFails ==
    /\ Main("start", "fatal")
    /\ listenOpen' \in BOOLEAN
    /\ UNCHANGED <<build, process, running, cur, spc, adminVars, poolVars, countVars,
                   outVars>>

\* A log call returns.
LogReturns ==
    /\ ~stuck
    /\ \/ Main("banner", "admin") \/ Main("fatal", "dtor")
       \/ Main("warn", "test") \/ Main("logging", "submit")
    /\ UNCHANGED <<upVars, cur, spc, adminVars, poolVars, countVars, outVars>>

\* new AdminServer, or it is disabled.  A shutdown that is past admin_ has not
\* seen it.
MakeAdmin ==
    /\ \/ Main("admin", "listen") /\ apc' = "made"
       \/ Main("admin", "test") /\ UNCHANGED apc
    /\ UNCHANGED <<upVars, cur, spc, adminOpen, adminRun, poolVars, countVars, outVars>>

\* admin_->start(): the listener and running_, or the port cannot be had.  If a
\* shutdown has deleted admin_ meanwhile this is undefined: it crashes, or goes
\* on in freed memory.
AdminListens ==
    /\ ~stuck
    /\ \/ /\ Main("listen", "thread")
          /\ apc' = "listening" /\ adminOpen' = TRUE /\ adminRun' = TRUE
          /\ UNCHANGED process
       \/ Main("listen", "test") /\ UNCHANGED <<adminVars, process>>
       \/ /\ Main("listen", "thread") /\ apc = "deleted"
          /\ process' = "aborted" /\ UNCHANGED adminVars
    /\ UNCHANGED <<build, running, listenOpen, cur, spc, poolVars, countVars, outVars>>

\* Its thread; the loop's first test may read freed memory.
AdminThread ==
    /\ Main("thread", "test")
    /\ \/ apc' = "test" /\ adminRun' \in (IF apc = "deleted" THEN BOOLEAN ELSE {adminRun})
          /\ UNCHANGED process
       \/ apc = "deleted" /\ process' = "aborted" /\ UNCHANGED <<apc, adminRun>>
    /\ UNCHANGED <<build, running, listenOpen, cur, spc, adminOpen, poolVars, countVars,
                   outVars>>

LoopTest ==
    /\ Main("test", IF running THEN "accept" ELSE "dtor")
    /\ UNCHANGED <<upVars, cur, spc, adminVars, poolVars, countVars, outVars>>

AcceptConnection(c) ==
    /\ listenOpen
    /\ c \in todo
    /\ Main("accept", "check")
    /\ cur' = {c}
    /\ UNCHANGED <<upVars, spc, adminVars, poolVars, countVars, outVars>>

\* accept() returns no socket: a warning if the server still runs.
NoSocket == Main("accept", IF running THEN "warn" ELSE "test")

\* It fails on the closed socket: at once on win32, on POSIX once the signal
\* handler has returned and the call is restarted.
AcceptInvalid ==
    /\ ~listenOpen
    /\ build = "win32" \/ spc["signal"] = "done"
    /\ NoSocket
    /\ UNCHANGED <<upVars, cur, spc, adminVars, poolVars, countVars, outVars>>

\* It fails for another reason (no descriptor left, peer gone).
AcceptFails ==
    /\ listenOpen
    /\ NoSocket
    /\ UNCHANGED <<upVars, cur, spc, adminVars, poolVars, countVars, outVars>>

\* Mutant: the "continue" after "421 Server busy." is missing.
RefuseAndSubmit ==
    /\ Main("check", "logging")
    /\ refused' = IF active >= MaxClients THEN refused \cup cur ELSE refused
    /\ UNCHANGED <<upVars, cur, spc, adminVars, poolVars, countVars, dropped, endVars>>

CapacityCheck ==
    /\ \/ /\ active >= MaxClients
          /\ Main("check", "warn")
          /\ refused' = refused \cup cur
          /\ todo' = todo \ cur
          /\ cur' = {}
       \/ /\ active < MaxClients
          /\ Main("check", "logging")
          /\ UNCHANGED <<refused, todo, cur>>
    /\ UNCHANGED <<upVars, spc, adminVars, queue, sessions, ended, closed, joined,
                   countVars, dropped, endVars>>

\* submit() locks the pool's mutex ...
SubmitLock ==
    /\ Main("submit", "push")
    /\ UNCHANGED <<upVars, cur, spc, adminVars, poolVars, countVars, outVars>>

\* ... and queues the session, or rejects it with a warning: then nobody owns
\* the socket.
SubmitPush ==
    /\ \E c \in cur :
         \/ Main("push", "test") /\ Pool!Accept(c) /\ UNCHANGED dropped
         \/ Main("push", "warn") /\ Pool!Reject(c) /\ dropped' = dropped \cup {c}
    /\ cur' = {}
    /\ UNCHANGED <<upVars, spc, adminVars, countVars, refused, endVars>>

-----------------------------------------------------------------------------
\* AtomicU64::dec stops at zero.
dec(n) == IF n = 0 THEN 0 ELSE n - 1

(* A session on a worker.  The session's own logic is in module Session.   *)

\* A worker waits for work, one that runs the handler meanwhile not counted.
IdleWorker ==
    LET held == IF stalled = {} /\ spc["worker"] \notin {"idle", "done"} THEN 1 ELSE 0
    IN  Cardinality(sessions) + held < PoolSize

\* Mutant: a worker leaves its loop when the pool is closed, queue or not.
StartUnlessClosed ==
    /\ process = "up"
    /\ mpc # "push" /\ ~closed
    /\ IdleWorker /\ Pool!Start
    /\ UNCHANGED <<upVars, mpc, cur, spc, adminVars, countVars, outVars>>

SessionStart ==
    /\ process = "up"
    /\ mpc # "push"
    /\ IdleWorker /\ Pool!Start
    /\ UNCHANGED <<upVars, mpc, cur, spc, adminVars, countVars, outVars>>

\* Session::Session
SessionCtor(c) ==
    /\ process = "up"
    /\ c \in sessions \ (counted \cup stalled)
    /\ counted' = counted \cup {c}
    /\ active' = active + 1
    /\ total' = total + 1
    /\ UNCHANGED <<upVars, mpc, cur, spc, adminVars, poolVars, thrown, outVars>>

\* Mutant: Session::run forgets to give its slot back.
EndWithoutDec(c) ==
    /\ process = "up"
    /\ c \in counted
    /\ Pool!Finish(c)
    /\ counted' = counted \ {c}
    /\ UNCHANGED <<upVars, mpc, cur, spc, adminVars, active, total, thrown, outVars>>

\* Mutant: QUIT gives the slot back too, and the counter may wrap.
EndDecTwice(c) ==
    /\ process = "up"
    /\ c \in counted
    /\ Pool!Finish(c)
    /\ counted' = counted \ {c}
    /\ active' = active - 2
    /\ UNCHANGED <<upVars, mpc, cur, spc, adminVars, total, thrown, outVars>>

\* Session::run leaves its loop; the socket is closed by ~ManagedSocket.
SessionEnd(c) ==
    /\ process = "up"
    /\ ~stuck
    /\ c \in counted \ stalled
    /\ Pool!Finish(c)
    /\ counted' = counted \ {c}
    /\ active' = dec(active)
    /\ UNCHANGED <<upVars, mpc, cur, spc, adminVars, total, thrown, outVars>>

\* An exception (std::stoi on a malformed PORT argument, bad_alloc) passes
\* through run() to the worker's catch (...): dec() is skipped.
SessionThrow(c) ==
    /\ process = "up"
    /\ ~stuck
    /\ c \in counted \ stalled
    /\ Pool!Finish(c)
    /\ counted' = counted \ {c}
    /\ thrown' = thrown + 1
    /\ UNCHANGED <<upVars, mpc, cur, spc, adminVars, active, total, outVars>>

-----------------------------------------------------------------------------
(* AdminServer::loop and handleClient.                                     *)

AdminTest ==
    /\ process = "up"
    /\ apc = "test"
    /\ apc' = IF ~adminRun THEN "exited" ELSE IF adminOpen THEN "accept" ELSE "test"
    /\ UNCHANGED <<upVars, mpc, cur, spc, adminOpen, adminRun, poolVars, countVars,
                   outVars>>

\* A request arrives.  On POSIX a thread that already sleeps in accept() still
\* gets it after another thread has closed the descriptor.
AdminAccept ==
    /\ process = "up"
    /\ apc = "accept"
    /\ adminOpen \/ build = "posix"
    /\ apc' = "handle"
    /\ UNCHANGED <<upVars, mpc, cur, spc, adminOpen, adminRun, poolVars, countVars,
                   outVars>>

AdminAcceptInvalid ==
    /\ process = "up"
    /\ apc = "accept"
    /\ ~adminOpen /\ build = "win32"
    /\ apc' = "test"
    /\ UNCHANGED <<upVars, mpc, cur, spc, adminOpen, adminRun, poolVars, countVars,
                   outVars>>

\* Nothing within two seconds, not a GET, a wrong key, or the dashboard.
AdminPage ==
    /\ process = "up"
    /\ apc = "handle"
    /\ apc' = "test"
    /\ UNCHANGED <<upVars, mpc, cur, spc, adminOpen, adminRun, poolVars, countVars,
                   outVars>>

\* GET /stop with the right key: answer, then call server_.shutdown().
AdminStop ==
    /\ process = "up"
    /\ apc = "handle" /\ ~stuck
    /\ apc' = "stopping"
    /\ spc' = [spc EXCEPT !["admin"] = "exchange"]
    /\ UNCHANGED <<upVars, mpc, cur, adminOpen, adminRun, poolVars, countVars, outVars>>

AdminStopReturns ==
    /\ process = "up"
    /\ apc = "stopping" /\ spc["admin"] = "done"
    /\ apc' = "test"
    /\ spc' = [spc EXCEPT !["admin"] = "idle"]
    /\ UNCHANGED <<upVars, mpc, cur, adminOpen, adminRun, poolVars, countVars, outVars>>

\* Nobody ignores SIGPIPE: on POSIX a send() to a peer that has gone, by a
\* session, the dashboard or the "421" of the accept loop, ends the process.
BrokenPipe ==
    /\ process = "up" /\ build = "posix"
    /\ \/ counted # {}
       \/ apc = "handle"
       \/ (MainRuns /\ mpc = "check" /\ active >= MaxClients)
    /\ process' = "killed"
    /\ UNCHANGED <<build, running, listenOpen, mpc, cur, spc, adminVars, poolVars,
                   countVars, outVars>>

-----------------------------------------------------------------------------
(* FTPServer::shutdown, called by x.                                       *)

Stage(x, from, to) ==
    /\ process = "up"
    /\ x = "main" => MainRuns
    /\ spc[x] = from
    /\ spc' = [spc EXCEPT ![x] = to]

\* SIGINT or SIGTERM, also before start() has set running_: then the signal is
\* lost.
SignalArrives ==
    /\ process = "up" /\ mpc # "gone"
    /\ \/ spc["signal"] = "idle"
       \/ spc["signal"] = "done" /\ build = "posix"
    /\ spc' = [spc EXCEPT !["signal"] = "log"]
    /\ \/ stuck' = (stuck \/ (build = "posix" /\ mpc \in Logging))
       \/ build = "posix" /\ (mpc \in MayLog \/ spc["main"] \in LogStages) /\ stuck' = TRUE
    /\ UNCHANGED <<upVars, mpc, cur, adminVars, poolVars, countVars, refused, dropped,
                   deleted, complete, touchedDead, raced, lost, stalled>>

\* On win32 the first Ctrl+C has put the default action back.
SecondCtrlC ==
    /\ process = "up" /\ build = "win32" /\ spc["signal"] # "idle"
    /\ process' = "killed"
    /\ UNCHANGED <<build, running, listenOpen, mpc, cur, spc, adminVars, poolVars,
                   countVars, outVars>>

\* On POSIX a further signal, while the main thread is in its handler, comes on
\* top of that (SIGTERM after SIGINT) or to another thread (the same again).  It
\* does nothing, since running_ has been taken, except for three cases.
Further == process = "up" /\ build = "posix" /\ spc["signal"] \notin {"idle", "done"}

\* It interrupts a log call: of the handler, of a session, of the dashboard.
SignalInLog ==
    /\ Further
    /\ \/ spc["signal"] \in LogStages
       \/ counted # {} \/ apc = "handle"
    /\ stuck' = TRUE
    /\ UNCHANGED <<upVars, mpc, cur, spc, adminVars, poolVars, countVars, refused, dropped,
                   deleted, complete, touchedDead, raced, lost, stalled>>

\* It comes to a worker, idle or in a session, before running_ is taken, and may
\* take it first (once is enough to see what comes of it).
SignalOnWorker ==
    /\ Further /\ spc["signal"] \in {"log", "exchange"}
    /\ spc["worker"] = "idle"
    /\ spc' = [spc EXCEPT !["worker"] = "log"]
    /\ \/ IdleWorker /\ stalled' = {}
       \/ stalled' \in {{c} : c \in sessions}
    /\ UNCHANGED <<upVars, mpc, cur, adminVars, poolVars, countVars, refused, dropped,
                   deleted, complete, touchedDead, raced, lost, stuck>>

\* It comes to the admin thread, likewise.
SignalOnAdmin ==
    /\ Further /\ spc["signal"] \in {"log", "exchange"}
    /\ apc \in {"test", "accept", "handle"}
    /\ apc' = "stopping"
    /\ spc' = [spc EXCEPT !["admin"] = "log"]
    /\ UNCHANGED <<upVars, mpc, cur, adminOpen, adminRun, poolVars, countVars, outVars>>

\* LOG_INFO in signalHandler needs the logger's mutex.
HandlerLog(x) ==
    /\ ~stuck
    /\ Stage(x, "log", "exchange")
    /\ UNCHANGED <<upVars, mpc, cur, adminVars, poolVars, countVars, outVars>>

\* The handler on the worker returns to the session it interrupted.
WorkerResumes ==
    /\ process = "up"
    /\ spc["worker"] = "done" /\ stalled # {}
    /\ stalled' = {}
    /\ UNCHANGED <<upVars, mpc, cur, spc, adminVars, poolVars, countVars, refused, dropped,
                   deleted, complete, touchedDead, raced, lost, stuck>>

Exchange(x) ==
    /\ Stage(x, "exchange", IF running THEN "close" ELSE "done")
    /\ running' = FALSE
    /\ UNCHANGED <<build, process, listenOpen, mpc, cur, adminVars, poolVars,
                   countVars, outVars>>

\* Mutant: the listening socket stays open.
CloseNothing(x) ==
    /\ Stage(x, "close", "stop")
    /\ UNCHANGED <<upVars, mpc, cur, adminVars, poolVars, countVars, outVars>>

CloseListen(x) ==
    /\ ~stuck
    /\ Stage(x, "close", "stop")
    /\ listenOpen' = FALSE
    /\ UNCHANGED <<build, process, running, mpc, cur, adminVars, poolVars, countVars,
                   outVars>>

\* AdminServer::stop up to the join in ~Thread, if the thread has been started;
\* if not, admin_ is deleted at once.
StopAdmin(x) ==
    /\ Stage(x, "stop", IF adminRun /\ apc # "listening" THEN "join" ELSE "pool_close")
    /\ adminRun' = FALSE
    /\ adminOpen' = FALSE
    /\ apc' = IF apc \in {"made", "listening"} THEN "deleted" ELSE apc
    /\ UNCHANGED <<upVars, mpc, cur, poolVars, countVars, outVars>>

JoinAdmin(x) ==
    /\ x # "admin"
    /\ apc = "exited"
    /\ Stage(x, "join", "pool_close")
    /\ UNCHANGED <<upVars, mpc, cur, adminVars, poolVars, countVars, outVars>>

\* The admin thread joins itself: std::thread::join throws in a destructor and
\* the process is terminated; WaitForSingleObject never returns.
JoinSelf ==
    /\ build = "posix"
    /\ Stage("admin", "join", "join")
    /\ process' = "aborted"
    /\ UNCHANGED <<build, running, listenOpen, mpc, cur, adminVars, poolVars,
                   countVars, outVars>>

\* pool_->shutdown(): exchange of the pool's own flag.  pool_ is not cleared by
\* delete, so it may point to a dead pool.
ClosePool(x) ==
    /\ Stage(x, "pool_close", IF closed \/ deleted THEN "stats" ELSE "pool_lock")
    /\ closed' = TRUE
    /\ touchedDead' = (touchedDead \/ deleted)
    /\ UNCHANGED <<upVars, mpc, cur, adminVars, todo, queue, sessions, ended, joined,
                   countVars, refused, dropped, deleted, complete, raced, lost, sigVars>>

LockPool(x) ==
    /\ ~stuck
    /\ Stage(x, "pool_lock", "pool_join")
    /\ mpc # "push"
    /\ touchedDead' = (touchedDead \/ deleted)
    /\ UNCHANGED <<upVars, mpc, cur, adminVars, poolVars, countVars, refused, dropped,
                   deleted, complete, raced, lost, sigVars>>

\* Mutant: the workers are signalled and not waited for.
JoinPoolNot(x) ==
    /\ Stage(x, "pool_join", "stats")
    /\ UNCHANGED <<upVars, mpc, cur, adminVars, poolVars, countVars, outVars>>

\* Every worker's thread has ended, or will without doing anything more.
WorkersDone == sessions = {} /\ spc["worker"] \in {"idle", "done"}

JoinPool(x) ==
    /\ ~stuck
    /\ Stage(x, "pool_join", "stats")
    /\ WorkersDone /\ Pool!Join
    /\ touchedDead' = (touchedDead \/ deleted)
    /\ UNCHANGED <<upVars, mpc, cur, adminVars, countVars, refused, dropped,
                   deleted, complete, raced, lost, sigVars>>

\* A worker joins itself: std::thread::join throws out of the handler, which
\* ends the process or only the handler.
JoinOwnWorker ==
    /\ \/ Stage("worker", "pool_join", "pool_join") /\ process' = "aborted"
       \/ Stage("worker", "pool_join", "done") /\ UNCHANGED process
    /\ UNCHANGED <<build, running, listenOpen, mpc, cur, adminVars, poolVars, countVars,
                   outVars>>

FinalStats(x) ==
    /\ ~stuck
    /\ Stage(x, "stats", "done")
    /\ complete' = TRUE
    /\ UNCHANGED <<upVars, mpc, cur, adminVars, poolVars, countVars, refused, dropped,
                   deleted, touchedDead, raced, lost, sigVars>>

-----------------------------------------------------------------------------
(* ~FTPServer on the main thread, then the end of main().                  *)

DtorShutdown ==
    /\ Main("dtor", "delete")
    /\ spc' = [spc EXCEPT !["main"] = "exchange"]
    /\ UNCHANGED <<upVars, cur, adminVars, poolVars, countVars, outVars>>

\* ~ThreadPool: shutdown() sets the flag and joins, or returns at once when
\* another caller has set it ...
DeletePool ==
    /\ spc["main"] = "done"
    /\ Main("delete", IF closed THEN "destroy" ELSE "drain")
    /\ closed' = TRUE
    /\ UNCHANGED <<upVars, cur, spc, adminVars, todo, queue, sessions, ended, joined,
                   countVars, outVars>>

DrainPool ==
    /\ ~stuck
    /\ Main("drain", "destroy")
    /\ WorkersDone /\ Pool!Join
    /\ UNCHANGED <<upVars, cur, spc, adminVars, countVars, outVars>>

\* ... and cv_, mutex_ and tasks_ are destroyed.  If the caller that set the
\* flag is still waiting for the workers they may all be using them, and what
\* happens is undefined: the process crashes, this thread hangs, or the queue
\* goes with what was in it.
DestroyPool ==
    /\ deleted' = TRUE
    /\ \/ /\ joined /\ Main("destroy", "unwind")
          /\ UNCHANGED <<process, raced, lost, poolVars>>
       \/ /\ ~joined /\ raced' = TRUE
          /\ \/ Main("destroy", "unwind") /\ process' = "aborted"
                /\ UNCHANGED <<lost, poolVars>>
             \/ Main("destroy", "hung") /\ UNCHANGED <<process, lost, poolVars>>
             \/ /\ Main("destroy", "unwind")
                /\ lost' = {queue[i] : i \in DOMAIN queue} /\ queue' = <<>>
                /\ UNCHANGED <<process, todo, sessions, ended, closed, joined>>
    /\ UNCHANGED <<build, running, listenOpen, cur, spc, adminVars, countVars, refused,
                   dropped, complete, touchedDead, sigVars>>

\* At last workers_: ~Thread waits for every worker that nobody has joined.
UnwindPool ==
    /\ Main("unwind", "gone")
    /\ WorkersDone
    /\ UNCHANGED <<upVars, cur, spc, adminVars, poolVars, countVars, outVars>>

Exit ==
    /\ MainRuns /\ mpc = "gone"
    /\ process' = "exited"
    /\ UNCHANGED <<build, running, listenOpen, mpc, cur, spc, adminVars, poolVars,
                   countVars, outVars>>

-----------------------------------------------------------------------------
MainStep ==
    \/ StartOk \/ StartFails \/ LogReturns \/ MakeAdmin \/ AdminListens \/ AdminThread
    \/ LoopTest \/ AcceptInvalid \/ CapacityCheck \/ SubmitLock \/ SubmitPush
    \/ DtorShutdown \/ DeletePool \/ DrainPool \/ DestroyPool \/ UnwindPool \/ Exit

AdminStep == AdminTest \/ AdminAcceptInvalid \/ AdminStopReturns

ShutdownStep(x) ==
    \/ HandlerLog(x) \/ Exchange(x) \/ CloseListen(x) \/ StopAdmin(x) \/ JoinAdmin(x)
    \/ ClosePool(x) \/ LockPool(x) \/ (x # "worker" /\ JoinPool(x)) \/ FinalStats(x)

SignalStep == SignalArrives \/ SecondCtrlC \/ SignalInLog \/ SignalOnWorker \/ SignalOnAdmin

Next ==
    \/ MainStep
    \/ \E c \in Conns : AcceptConnection(c)
    \/ AcceptFails
    \/ SessionStart
    \/ \E c \in Conns : SessionCtor(c) \/ SessionEnd(c) \/ SessionThrow(c)
    \/ AdminStep \/ AdminAccept \/ AdminPage \/ AdminStop \/ BrokenPipe
    \/ SignalStep \/ WorkerResumes \/ JoinSelf \/ JoinOwnWorker
    \/ \E x \in Callers : ShutdownStep(x)

Spec == Init /\ [][Next]_vars

\* Every thread that can go on does.  A session ends some time: the client
\* quits, disconnects or is silent for timeout_secs.  That is an assumption on
\* clients too, since a session that waits for a passive data connection has no
\* timeout (ControlAlive in module Session).  A request that was accepted is
\* answered.  Signals, however many, do not keep the main thread from running
\* between them.  Clients, requests and signals need not come.
Fairness ==
    /\ SF_vars(MainStep) /\ SF_vars(ShutdownStep("main"))
    /\ WF_vars(SessionStart)
    /\ \A c \in Conns :
         WF_vars(SessionCtor(c)) /\ WF_vars(SessionEnd(c) \/ SessionThrow(c))
    /\ WF_vars(AdminStep) /\ WF_vars(AdminPage \/ AdminStop)
    /\ WF_vars(JoinSelf) /\ WF_vars(JoinOwnWorker) /\ WF_vars(WorkerResumes)
    /\ \A x \in {"admin", "signal", "worker"} : WF_vars(ShutdownStep(x))

FairSpec == Spec /\ Fairness

-----------------------------------------------------------------------------
(* Properties.                                                             *)

TypeOK ==
    /\ process \in {"up", "aborted", "killed", "exited"}
    /\ {running, listenOpen, adminOpen, adminRun, closed, joined, deleted, complete,
        touchedDead, raced, stuck} \subseteq BOOLEAN
    /\ mpc \in Logging \cup MayLog \cup
               {"start", "admin", "thread", "test", "accept", "check", "submit", "push",
                "dtor", "delete", "destroy", "hung", "unwind", "gone"}
    /\ cur \in SUBSET Conns
    /\ spc \in [Callers -> Stages]
    /\ apc \in {"off", "made", "listening", "deleted", "test", "accept", "handle", "stopping",
                "exited"}
    /\ {todo, sessions, ended, counted, refused, dropped, lost, stalled} \subseteq SUBSET Conns
    /\ queue \in Seq(Conns)
    /\ {active, total, thrown} \subseteq Nat

\* No worker has run the handler: on POSIX only a second signal within moments of
\* the first can come to one.
NoneOnWorker == spc["worker"] = "idle"

\* On POSIX, unless a worker ran the handler, "Shutdown complete." is logged only
\* when the admin thread is gone, the listener is closed and no session runs or
\* waits, and from then on no session runs or waits again: whoever called
\* shutdown() and wherever the accept loop was at that moment.  (An admin thread
\* may still be born afterwards.  On win32 the handler has a thread of its own,
\* and finds the pool closed already when ~FTPServer was faster: it logs while
\* the pool still drains.)
CompleteMeansQuiet ==
    [][build = "posix" /\ NoneOnWorker' /\ complete' =>
          /\ ~listenOpen'
          /\ queue' = <<>> /\ sessions' = {}
          /\ ~complete => apc' \in {"off", "deleted", "exited"}]_vars

\* Every connection has one fate: not accepted yet or in the main thread's hands,
\* queued, in a session, ended, refused, dropped, that is rejected by the closing
\* pool with its socket left open, or lost with the queue.  At most one socket is
\* dropped, a connection is lost only if ~FTPServer overtook the thread that was
\* shutting the pool down, and nothing is in flight when the process exits.
ConnectionsAccounted ==
    LET fates == <<todo, {queue[i] : i \in DOMAIN queue}, sessions, ended, refused, dropped,
                   lost>>
    IN  /\ UNION {fates[i] : i \in DOMAIN fates} = Conns
        /\ \A i, j \in DOMAIN fates : i # j => fates[i] \cap fates[j] = {}
        /\ cur \subseteq todo
        /\ dropped # {} => closed /\ Cardinality(dropped) = 1
        /\ lost # {} => raced
        /\ process = "exited" => cur = {} /\ queue = <<>> /\ sessions = {}

\* Each connection the pool took is counted once in totalConnections when its
\* session starts, and activeConnections is the number of live sessions plus
\* the slots lost to exceptions.
ActiveAccounts ==
    /\ active = Cardinality(counted) + thrown
    /\ total = Cardinality(counted) + Cardinality(ended)

\* On win32 a connection the pool took is served to its end, whatever shutdown
\* does to the accept loop, the admin thread and the pool meanwhile; unless a
\* second Ctrl+C or the deleted admin_ ends the process, or ~FTPServer overtakes
\* the handler that is shutting the pool down.  (Not on POSIX, where the admin
\* thread's stop request ends the process.)
QueuedServed ==
    \A c \in Conns :
        (build = "win32" /\ \E i \in DOMAIN queue : queue[i] = c) ~>
            (c \in ended \/ raced \/ process \in {"killed", "aborted"})

\* On POSIX, unless a worker ran the handler, ~FTPServer deletes the pool after
\* its workers have been joined, and shutdown() never works on the deleted pool.
PoolOutlivesShutdown == build = "posix" /\ NoneOnWorker => ~touchedDead /\ ~raced

SignalInAccept ==
    build = "posix" /\ running /\ mpc = "accept" /\ spc["signal"] = "log"

\* On POSIX, a signal that finds a server without dashboard waiting in accept()
\* leads to a complete shutdown, after which the accept loop sees the closed
\* listener and the process exits.  More signals may come, as long as none of
\* them interrupts a log call, or comes to a worker before the first has taken
\* running_.  (SIGPIPE may end the process first.)
CtrlCCompletes ==
    (SignalInAccept /\ apc = "off") ~>
        \/ complete /\ process = "exited"
        \/ process = "killed" \/ stuck \/ ~NoneOnWorker

\* A request to shut down leads to "Shutdown complete.", whether it is a signal
\* that finds the server in accept() ("clean Ctrl+C shutdown") or the dashboard's
\* stop button ("graceful shutdown"), unless SIGPIPE ends the process, or a second
\* signal blocks it in a log call or runs the handler on a worker meanwhile.
ShutdownRequested == running /\ (SignalInAccept \/ spc["admin"] = "exchange")
ShutdownCompletes ==
    ShutdownRequested ~> (complete \/ process = "killed" \/ stuck \/ ~NoneOnWorker)
=============================================================================
