--------------------------- MODULE FtpServerProofs --------------------------
(***************************************************************************)
(* For any number of connections, any pool and any limit: every connection *)
(* is accounted for, the counters are exact, and on POSIX a completed      *)
(* shutdown is quiet and never touches a deleted pool.                     *)
(***************************************************************************)
EXTENDS FtpServer, FiniteSetTheorems, TLAPS

-----------------------------------------------------------------------------
(* The strengthening.                                                      *)

Types ==
    /\ build \in {"posix", "win32"}
    /\ process \in {"up", "aborted", "killed", "exited"}
    /\ running \in BOOLEAN /\ listenOpen \in BOOLEAN
    /\ adminOpen \in BOOLEAN /\ adminRun \in BOOLEAN
    /\ closed \in BOOLEAN /\ joined \in BOOLEAN
    /\ deleted \in BOOLEAN /\ complete \in BOOLEAN /\ touchedDead \in BOOLEAN
    /\ raced \in BOOLEAN /\ stuck \in BOOLEAN
    /\ mpc \in Logging \cup MayLog \cup
               {"admin", "thread", "test", "accept", "check", "submit", "push", "dtor",
                "delete", "destroy", "hung", "unwind", "gone"}
    /\ spc \in [Callers -> Stages]
    /\ apc \in {"off", "made", "listening", "deleted", "test", "accept", "handle",
                "stopping", "exited"}

-----------------------------------------------------------------------------
(* Connections.                                                            *)

Queued == {queue[i] : i \in DOMAIN queue}

\* Every connection is in one place, and at most once in the queue.
PlacesInv ==
    /\ queue \in Seq(Conns)
    /\ Conns = todo \cup Queued \cup sessions \cup ended \cup refused \cup dropped \cup lost
    /\ todo \cap (Queued \cup sessions \cup ended \cup refused \cup dropped \cup lost) = {}
    /\ Queued \cap (sessions \cup ended \cup refused \cup dropped \cup lost) = {}
    /\ sessions \cap (ended \cup refused \cup dropped \cup lost) = {}
    /\ ended \cap (refused \cup dropped \cup lost) = {}
    /\ refused \cap (dropped \cup lost) = {}
    /\ dropped \cap lost = {}
    /\ \A i, j \in DOMAIN queue : queue[i] = queue[j] => i = j

\* The main thread has one connection in its hands between accept() and push.
CurInv ==
    /\ mpc \in {"check", "logging", "submit", "push"} => \E c \in todo : cur = {c}
    /\ mpc \notin {"check", "logging", "submit", "push"} => cur = {}

\* ~FTPServer, from its call of shutdown() on, and from the end of ~ThreadPool's.
Dtor == {"delete", "drain", "destroy", "hung", "unwind", "gone"}
Destroying == {"destroy", "hung", "unwind", "gone"}

\* What the pool rejected was in the main thread's hands when the pool closed;
\* the accept loop does not come round again.  What was lost went with the pool.
DroppedInv ==
    /\ dropped # {} =>
         /\ closed
         /\ \E c \in Conns : dropped = {c}
         /\ mpc \in {"warn", "test", "dtor"} \cup Dtor
    /\ lost # {} => raced /\ deleted
    /\ stalled \subseteq Conns

\* The counters.
CountInv ==
    /\ counted \subseteq sessions
    /\ {active, total, thrown} \subseteq Nat
    /\ ActiveAccounts

-----------------------------------------------------------------------------
(* Shutdown.                                                               *)

\* Stages that only the caller that found running_ set reaches.
Past == {"close", "stop", "join", "pool_close", "pool_lock", "pool_join", "stats"}

\* Stages after the admin server has been seen to.
PoolStages == {"pool_close", "pool_lock", "pool_join", "stats"}

\* running_ is set once, and cleared before the pool is closed.
RunningInv ==
    /\ mpc = "start" => ~running /\ ~closed
    /\ closed => ~running
    /\ \A x \in Callers : spc[x] \in Past => ~running /\ mpc # "start"
    /\ \A x, y \in Callers : spc[x] \in Past /\ spc[y] \in Past => x = y

\* ~FTPServer calls shutdown() and waits for it before it deletes the pool, and
\* nothing is left in a pool whose workers have been joined, or which is gone.
DtorInv ==
    /\ spc["main"] # "log"
    /\ spc["main"] # "idle" => mpc \in Dtor
    /\ spc["main"] \in Past \cup {"done"} => ~running
    /\ mpc \in Dtor \ {"delete"} => spc["main"] = "done" /\ closed
    /\ joined => closed /\ queue = <<>> /\ sessions = {}
    /\ deleted => mpc \in Destroying \ {"destroy"}
    /\ mpc = "unwind" /\ process = "up" => queue = <<>>
    /\ mpc = "gone" => queue = <<>> /\ sessions = {}
    /\ process = "exited" => mpc = "gone"

\* The admin thread runs, or is about to.
Started == {"listening", "test", "accept", "handle", "stopping", "exited"}

\* The admin thread is in shutdown() only on request or in a handler, and never
\* comes out of its own join.
AdminInv ==
    /\ mpc \in {"start", "banner", "fatal", "admin"} => apc = "off"
    /\ mpc = "listen" => apc \in {"made", "deleted"}
    /\ mpc = "thread" => apc \in {"listening", "deleted"}
    /\ spc["admin"] # "idle" => apc = "stopping"
    /\ spc["admin"] \notin PoolStages
    /\ apc = "deleted" => ~running
    /\ apc \in Started /\ running => adminRun
    /\ \A x \in Callers : spc[x] \in {"close", "stop"} =>
         apc # "deleted" /\ (apc \in Started => adminRun)

\* On POSIX the handler keeps the main thread from going on.
HandlerInv ==
    build = "posix" =>
        /\ mpc = "gone" => spc["signal"] \in {"idle", "done"}
        /\ spc["signal"] \in Past => spc["main"] \in {"idle", "exchange"}

\* So the caller that passed the exchange is also the one that closes the pool,
\* and the workers have been joined when the pool is destroyed and when the end
\* is logged.
PosixInv ==
    build = "posix" /\ NoneOnWorker =>
        /\ ~touchedDead /\ ~raced
        /\ closed =>
             joined \/ mpc = "drain"
             \/ \E x \in {"main", "signal"} : spc[x] \in {"pool_lock", "pool_join"}
        /\ mpc \in Destroying => joined
        /\ \A x \in Callers :
             /\ spc[x] \in {"close", "stop", "join", "pool_close"} /\ x # "admin" => ~closed
             /\ spc[x] \in PoolStages => apc \in {"off", "deleted", "exited"}
             /\ spc[x] = "stats" => joined
        /\ complete => joined

\* The listener is closed before the admin server is stopped, and not opened
\* again; the pool is closed before the end is logged.
ListenInv ==
    /\ \A x \in Callers : spc[x] \in Past \ {"close"} => ~listenOpen
    /\ \A x \in Callers : spc[x] \in {"pool_lock", "pool_join", "stats"} => closed
    /\ complete => ~listenOpen /\ closed

ConnInv == PlacesInv /\ CurInv /\ DroppedInv /\ CountInv
ShutInv == RunningInv /\ DtorInv /\ AdminInv /\ HandlerInv /\ PosixInv /\ ListenInv
IInv == Types /\ ConnInv /\ ShutInv

-----------------------------------------------------------------------------
(* Steps.                                                                  *)

\* The callers and their stages.
LEMMA CallersFacts ==
    /\ "main" \in Callers /\ "admin" \in Callers /\ "signal" \in Callers
    /\ "worker" \in Callers
    /\ Past \subseteq Stages /\ PoolStages \subseteq Past
    /\ \A x \in Callers : x = "main" \/ x = "admin" \/ x = "signal" \/ x = "worker"
  BY DEF Callers, Past, Stages, PoolStages

\* The steps, one by one.
LEMMA NextCases ==
    ASSUME Next
    PROVE  \/ StartOk \/ StartFails \/ LogReturns \/ MakeAdmin
           \/ AdminListens \/ AdminThread \/ LoopTest \/ AcceptInvalid
           \/ AcceptFails \/ CapacityCheck \/ SubmitLock \/ SubmitPush
           \/ DtorShutdown \/ DeletePool \/ DrainPool \/ DestroyPool
           \/ UnwindPool \/ Exit \/ SessionStart \/ AdminTest
           \/ AdminAcceptInvalid \/ AdminStopReturns \/ AdminAccept \/ AdminPage
           \/ AdminStop \/ BrokenPipe \/ JoinSelf \/ JoinOwnWorker
           \/ SignalArrives \/ SecondCtrlC \/ SignalInLog \/ SignalOnWorker
           \/ SignalOnAdmin \/ WorkerResumes
           \/ \E c \in Conns : \/ AcceptConnection(c) \/ SessionCtor(c)
                               \/ SessionEnd(c) \/ SessionThrow(c)
           \/ \E x \in Callers : HandlerLog(x) \/ Exchange(x) \/ CloseListen(x) \/ StopAdmin(x)
           \/ \E x \in Callers : JoinAdmin(x) \/ ClosePool(x) \/ LockPool(x) \/ JoinPool(x)
           \/ \E x \in Callers : FinalStats(x)
  BY DEF Next, MainStep, AdminStep, SignalStep, ShutdownStep

\* Types are kept.
LEMMA TypesStep ==
    ASSUME IInv, Next
    PROVE  Types'
  <1> USE DEF upVars, adminVars, poolVars, countVars, outVars, endVars, sigVars
  <1>1. CASE StartOk
    <2>2. running' \in BOOLEAN /\ listenOpen' \in BOOLEAN
      BY <1>1 DEF StartOk, Main, MainRuns, IInv, Types
    <2>3. spc' = spc
      BY <1>1 DEF StartOk, Main, MainRuns
    <2> QED
      BY <1>1, <2>2, <2>3 DEF StartOk, Main, MainRuns, IInv, Types, Logging, MayLog
  <1>2. CASE StartFails
    <2>2. listenOpen' \in BOOLEAN
      BY <1>2 DEF StartFails, Main, MainRuns, IInv, Types
    <2>3. spc' = spc
      BY <1>2 DEF StartFails, Main, MainRuns
    <2> QED
      BY <1>2, <2>2, <2>3 DEF StartFails, Main, MainRuns, IInv, Types, Logging, MayLog
  <1>3. CASE LogReturns \/ MakeAdmin
    BY <1>3, CallersFacts
       DEF LogReturns, Main, MainRuns, MakeAdmin, IInv, Types, Stages, Logging, MayLog
  <1>4. CASE AdminListens
    <2>2. adminOpen' \in BOOLEAN /\ adminRun' \in BOOLEAN
      BY <1>4 DEF AdminListens, Main, MainRuns, IInv, Types
    <2>3. spc' = spc
      BY <1>4 DEF AdminListens, Main, MainRuns
    <2> QED
      BY <1>4, <2>2, <2>3 DEF AdminListens, Main, MainRuns, IInv, Types, Logging, MayLog
  <1>5. CASE AdminThread
    <2>2. adminRun' \in BOOLEAN
      BY <1>5 DEF AdminThread, Main, MainRuns, IInv, Types
    <2>3. spc' = spc
      BY <1>5 DEF AdminThread, Main, MainRuns
    <2> QED
      BY <1>5, <2>2, <2>3 DEF AdminThread, Main, MainRuns, IInv, Types, Logging, MayLog
  <1>6. CASE \/ LoopTest \/ AcceptInvalid \/ AcceptFails
             \/ \E c \in Conns : AcceptConnection(c)
    BY <1>6, CallersFacts
       DEF LoopTest, Main, MainRuns, AcceptInvalid, NoSocket, AcceptFails, AcceptConnection,
           IInv, Types, Stages, Logging, MayLog
  <1>7. CASE CapacityCheck \/ SubmitLock \/ SubmitPush
    BY <1>7, CallersFacts
       DEF CapacityCheck, Main, MainRuns, SubmitLock, SubmitPush, Pool!Accept, Pool!Reject,
           IInv, Types, Stages, Logging, MayLog
  <1>8. CASE DtorShutdown \/ UnwindPool \/ Exit
    BY <1>8, CallersFacts
       DEF DtorShutdown, Main, MainRuns, UnwindPool, WorkersDone, Exit, IInv, Types, Stages,
           Logging, MayLog
  <1>9. CASE DeletePool
    <2>2. closed' \in BOOLEAN
      BY <1>9 DEF DeletePool, Main, MainRuns, IInv, Types
    <2>3. spc' = spc
      BY <1>9 DEF DeletePool, Main, MainRuns
    <2> QED
      BY <1>9, <2>2, <2>3 DEF DeletePool, Main, MainRuns, IInv, Types, Logging, MayLog
  <1>10. CASE DrainPool
    <2>2. joined' \in BOOLEAN
      BY <1>10 DEF DrainPool, Main, MainRuns, Pool!Join, IInv, Types
    <2>3. spc' = spc
      BY <1>10 DEF DrainPool, Main, MainRuns, Pool!Join
    <2> QED
      BY <1>10, <2>2, <2>3 DEF DrainPool, Main, MainRuns, Pool!Join, IInv, Types, Logging, MayLog
  <1>11. CASE DestroyPool
    <2>2. deleted' \in BOOLEAN /\ raced' \in BOOLEAN
      BY <1>11 DEF DestroyPool, Main, MainRuns, IInv, Types
    <2>3. spc' = spc
      BY <1>11 DEF DestroyPool, Main, MainRuns
    <2> QED
      BY <1>11, <2>2, <2>3 DEF DestroyPool, Main, MainRuns, IInv, Types, Logging, MayLog
  <1>12. CASE \/ SessionStart
              \/ \E c \in Conns : SessionCtor(c) \/ SessionEnd(c) \/ SessionThrow(c)
    BY <1>12, CallersFacts
       DEF SessionStart, Pool!Start, SessionCtor, SessionEnd, Pool!Finish, SessionThrow, IInv,
           Types, Stages, Logging, MayLog
  <1>13. CASE \/ AdminTest \/ AdminAcceptInvalid \/ AdminStopReturns \/ AdminAccept
              \/ AdminPage \/ AdminStop
    BY <1>13, CallersFacts
       DEF AdminTest, AdminAcceptInvalid, AdminStopReturns, AdminAccept, AdminPage, AdminStop,
           IInv, Types, Stages, Logging, MayLog
  <1>14. CASE BrokenPipe \/ JoinSelf \/ JoinOwnWorker \/ SecondCtrlC
    BY <1>14, CallersFacts
       DEF BrokenPipe, JoinSelf, Stage, JoinOwnWorker, SecondCtrlC, IInv, Types, Stages,
           Logging, MayLog
  <1>15. CASE SignalArrives
    <2>2. stuck' \in BOOLEAN
      BY <1>15 DEF SignalArrives, IInv, Types
    <2>3. spc' \in [Callers -> Stages]
      BY <1>15, CallersFacts DEF SignalArrives, IInv, Types, Stages
    <2> QED
      BY <1>15, <2>2, <2>3 DEF SignalArrives, IInv, Types, Logging, MayLog
  <1>16. CASE SignalInLog
    <2>2. stuck' \in BOOLEAN
      BY <1>16 DEF SignalInLog, Further, IInv, Types
    <2>3. spc' = spc
      BY <1>16 DEF SignalInLog, Further
    <2> QED
      BY <1>16, <2>2, <2>3 DEF SignalInLog, Further, IInv, Types, Logging, MayLog
  <1>17. CASE SignalOnWorker \/ SignalOnAdmin \/ WorkerResumes
    BY <1>17, CallersFacts
       DEF SignalOnWorker, Further, SignalOnAdmin, WorkerResumes, IInv, Types, Stages, Logging,
           MayLog
  <1>18. CASE \E x \in Callers : HandlerLog(x) \/ JoinAdmin(x)
    BY <1>18, CallersFacts
       DEF HandlerLog, Stage, JoinAdmin, IInv, Types, Stages, Logging, MayLog
  <1>19. CASE \E x \in Callers : Exchange(x)
    <2>1. PICK x \in Callers : Exchange(x)
      BY <1>19
    <2>2. running' \in BOOLEAN
      BY <2>1 DEF Exchange, Stage, IInv, Types
    <2>3. spc' \in [Callers -> Stages]
      BY <2>1, CallersFacts DEF Exchange, Stage, IInv, Types, Stages
    <2> QED
      BY <2>1, <2>2, <2>3 DEF Exchange, Stage, IInv, Types, Logging, MayLog
  <1>20. CASE \E x \in Callers : CloseListen(x)
    <2>1. PICK x \in Callers : CloseListen(x)
      BY <1>20
    <2>2. listenOpen' \in BOOLEAN
      BY <2>1 DEF CloseListen, Stage, IInv, Types
    <2>3. spc' \in [Callers -> Stages]
      BY <2>1, CallersFacts DEF CloseListen, Stage, IInv, Types, Stages
    <2> QED
      BY <2>1, <2>2, <2>3 DEF CloseListen, Stage, IInv, Types, Logging, MayLog
  <1>21. CASE \E x \in Callers : StopAdmin(x)
    <2>1. PICK x \in Callers : StopAdmin(x)
      BY <1>21
    <2>2. adminRun' \in BOOLEAN /\ adminOpen' \in BOOLEAN
      BY <2>1 DEF StopAdmin, Stage, IInv, Types
    <2>3. spc' \in [Callers -> Stages]
      BY <2>1, CallersFacts DEF StopAdmin, Stage, IInv, Types, Stages
    <2> QED
      BY <2>1, <2>2, <2>3 DEF StopAdmin, Stage, IInv, Types, Logging, MayLog
  <1>22. CASE \E x \in Callers : ClosePool(x)
    <2>1. PICK x \in Callers : ClosePool(x)
      BY <1>22
    <2>2. closed' \in BOOLEAN /\ touchedDead' \in BOOLEAN
      BY <2>1 DEF ClosePool, Stage, IInv, Types
    <2>3. spc' \in [Callers -> Stages]
      BY <2>1, CallersFacts DEF ClosePool, Stage, IInv, Types, Stages
    <2> QED
      BY <2>1, <2>2, <2>3 DEF ClosePool, Stage, IInv, Types, Logging, MayLog
  <1>23. CASE \E x \in Callers : LockPool(x)
    <2>1. PICK x \in Callers : LockPool(x)
      BY <1>23
    <2>2. touchedDead' \in BOOLEAN
      BY <2>1 DEF LockPool, Stage, IInv, Types
    <2>3. spc' \in [Callers -> Stages]
      BY <2>1, CallersFacts DEF LockPool, Stage, IInv, Types, Stages
    <2> QED
      BY <2>1, <2>2, <2>3 DEF LockPool, Stage, IInv, Types, Logging, MayLog
  <1>24. CASE \E x \in Callers : JoinPool(x)
    <2>1. PICK x \in Callers : JoinPool(x)
      BY <1>24
    <2>2. joined' \in BOOLEAN /\ touchedDead' \in BOOLEAN
      BY <2>1 DEF JoinPool, Stage, Pool!Join, IInv, Types
    <2>3. spc' \in [Callers -> Stages]
      BY <2>1, CallersFacts DEF JoinPool, Stage, Pool!Join, IInv, Types, Stages
    <2> QED
      BY <2>1, <2>2, <2>3 DEF JoinPool, Stage, Pool!Join, IInv, Types, Logging, MayLog
  <1>25. CASE \E x \in Callers : FinalStats(x)
    <2>1. PICK x \in Callers : FinalStats(x)
      BY <1>25
    <2>2. complete' \in BOOLEAN
      BY <2>1 DEF FinalStats, Stage, IInv, Types
    <2>3. spc' \in [Callers -> Stages]
      BY <2>1, CallersFacts DEF FinalStats, Stage, IInv, Types, Stages
    <2> QED
      BY <2>1, <2>2, <2>3 DEF FinalStats, Stage, IInv, Types, Logging, MayLog
  <1> QED
    BY <1>1, <1>2, <1>3, <1>4, <1>5, <1>6, <1>7, <1>8, <1>9, <1>10, <1>11, <1>12, <1>13,
       <1>14, <1>15, <1>16, <1>17, <1>18, <1>19, <1>20, <1>21, <1>22, <1>23, <1>24, <1>25,
       NextCases

\* Whoever calls shutdown(), and wherever the other threads are.
LEMMA ShutStep ==
    ASSUME IInv, Next
    PROVE  ShutInv'
  <1> USE DEF upVars, adminVars, poolVars, countVars, outVars, endVars, sigVars
  <1>1. CASE StartOk
    BY <1>1, CallersFacts
       DEF StartOk, Main, MainRuns, IInv, Types, ShutInv, RunningInv, DtorInv, AdminInv,
           HandlerInv, PosixInv, ListenInv, Past, PoolStages, Dtor, Destroying, Started,
           NoneOnWorker
  <1>2. CASE StartFails
    BY <1>2, CallersFacts
       DEF StartFails, Main, MainRuns, IInv, Types, ShutInv, RunningInv, DtorInv, AdminInv,
           HandlerInv, PosixInv, ListenInv, Past, PoolStages, Dtor, Destroying, Started,
           NoneOnWorker
  <1>3. CASE LogReturns
    BY <1>3, CallersFacts
       DEF LogReturns, Main, MainRuns, IInv, Types, ShutInv, RunningInv, DtorInv, AdminInv,
           HandlerInv, PosixInv, ListenInv, Past, PoolStages, Dtor, Destroying, Started,
           NoneOnWorker
  <1>4. CASE MakeAdmin
    BY <1>4, CallersFacts
       DEF MakeAdmin, Main, MainRuns, IInv, Types, ShutInv, RunningInv, DtorInv, AdminInv,
           HandlerInv, PosixInv, ListenInv, Past, PoolStages, Dtor, Destroying, Started,
           NoneOnWorker
  <1>5. CASE AdminListens
    BY <1>5, CallersFacts
       DEF AdminListens, Main, MainRuns, IInv, Types, ShutInv, RunningInv, DtorInv, AdminInv,
           HandlerInv, PosixInv, ListenInv, Past, PoolStages, Dtor, Destroying, Started,
           NoneOnWorker
  <1>6. CASE AdminThread
    BY <1>6, CallersFacts
       DEF AdminThread, Main, MainRuns, IInv, Types, ShutInv, RunningInv, DtorInv, AdminInv,
           HandlerInv, PosixInv, ListenInv, Past, PoolStages, Dtor, Destroying, Started,
           NoneOnWorker
  <1>7. CASE \/ LoopTest \/ AcceptInvalid \/ AcceptFails
             \/ \E c \in Conns : AcceptConnection(c)
    BY <1>7, CallersFacts
       DEF LoopTest, Main, MainRuns, AcceptInvalid, NoSocket, AcceptFails, AcceptConnection,
           IInv, Types, ShutInv, RunningInv, DtorInv, AdminInv, HandlerInv, PosixInv, ListenInv,
           Past, PoolStages, Dtor, Destroying, Started, NoneOnWorker
  <1>8. CASE CapacityCheck \/ SubmitLock
    BY <1>8, CallersFacts
       DEF CapacityCheck, Main, MainRuns, SubmitLock, IInv, Types, ShutInv, RunningInv, DtorInv,
           AdminInv, HandlerInv, PosixInv, ListenInv, Past, PoolStages, Dtor, Destroying,
           Started, NoneOnWorker
  <1>9. CASE SubmitPush
    BY <1>9, CallersFacts
       DEF SubmitPush, Main, MainRuns, Pool!Accept, Pool!Reject, IInv, Types, ShutInv,
           RunningInv, DtorInv, AdminInv, HandlerInv, PosixInv, ListenInv, Past, PoolStages,
           Dtor, Destroying, Started, NoneOnWorker
  <1>10. CASE DtorShutdown
    BY <1>10, CallersFacts
       DEF DtorShutdown, Main, MainRuns, IInv, Types, ShutInv, RunningInv, DtorInv, AdminInv,
           HandlerInv, PosixInv, ListenInv, Past, PoolStages, Dtor, Destroying, Started,
           NoneOnWorker
  <1>11. CASE DeletePool
    BY <1>11, CallersFacts
       DEF DeletePool, Main, MainRuns, IInv, Types, ShutInv, RunningInv, DtorInv, AdminInv,
           HandlerInv, PosixInv, ListenInv, Past, PoolStages, Dtor, Destroying, Started,
           NoneOnWorker
  <1>12. CASE DrainPool
    BY <1>12, CallersFacts
       DEF DrainPool, Main, MainRuns, Pool!Join, IInv, Types, ShutInv, RunningInv, DtorInv,
           AdminInv, HandlerInv, PosixInv, ListenInv, Past, PoolStages, Dtor, Destroying,
           Started, NoneOnWorker
  <1>13. CASE DestroyPool
    BY <1>13, CallersFacts
       DEF DestroyPool, Main, MainRuns, IInv, Types, ShutInv, RunningInv, DtorInv, AdminInv,
           HandlerInv, PosixInv, ListenInv, Past, PoolStages, Dtor, Destroying, Started,
           NoneOnWorker
  <1>14. CASE UnwindPool
    BY <1>14, CallersFacts
       DEF UnwindPool, Main, MainRuns, WorkersDone, IInv, Types, ShutInv, RunningInv, DtorInv,
           AdminInv, HandlerInv, PosixInv, ListenInv, Past, PoolStages, Dtor, Destroying,
           Started, NoneOnWorker
  <1>15. CASE Exit
    BY <1>15, CallersFacts
       DEF Exit, MainRuns, IInv, Types, ShutInv, RunningInv, DtorInv, AdminInv, HandlerInv,
           PosixInv, ListenInv, Past, PoolStages, Dtor, Destroying, Started, NoneOnWorker
  <1>16. CASE SessionStart
    BY <1>16, CallersFacts
       DEF SessionStart, Pool!Start, IInv, Types, ShutInv, RunningInv, DtorInv, AdminInv,
           HandlerInv, PosixInv, ListenInv, Past, PoolStages, Dtor, Destroying, Started,
           NoneOnWorker
  <1>17. CASE \E c \in Conns : SessionCtor(c) \/ SessionEnd(c) \/ SessionThrow(c)
    BY <1>17, CallersFacts
       DEF SessionCtor, SessionEnd, Pool!Finish, SessionThrow, IInv, Types, ShutInv, RunningInv,
           DtorInv, AdminInv, HandlerInv, PosixInv, ListenInv, Past, PoolStages, Dtor,
           Destroying, Started, NoneOnWorker
  <1>18. CASE \/ AdminTest \/ AdminAcceptInvalid \/ AdminStopReturns \/ AdminAccept
              \/ AdminPage \/ AdminStop
    BY <1>18, CallersFacts
       DEF AdminTest, AdminAcceptInvalid, AdminStopReturns, AdminAccept, AdminPage, AdminStop,
           IInv, Types, ShutInv, RunningInv, DtorInv, AdminInv, HandlerInv, PosixInv, ListenInv,
           Past, PoolStages, Dtor, Destroying, Started, NoneOnWorker
  <1>19. CASE BrokenPipe \/ SecondCtrlC
    BY <1>19, CallersFacts
       DEF BrokenPipe, SecondCtrlC, IInv, Types, ShutInv, RunningInv, DtorInv, AdminInv,
           HandlerInv, PosixInv, ListenInv, Past, PoolStages, Dtor, Destroying, Started,
           NoneOnWorker
  <1>20. CASE JoinSelf
    BY <1>20, CallersFacts
       DEF JoinSelf, Stage, IInv, Types, ShutInv, RunningInv, DtorInv, AdminInv, HandlerInv,
           PosixInv, ListenInv, Past, PoolStages, Dtor, Destroying, Started, NoneOnWorker
  <1>21. CASE JoinOwnWorker
    BY <1>21, CallersFacts
       DEF JoinOwnWorker, Stage, IInv, Types, ShutInv, RunningInv, DtorInv, AdminInv,
           HandlerInv, PosixInv, ListenInv, Past, PoolStages, Dtor, Destroying, Started,
           NoneOnWorker
  <1>22. CASE SignalArrives
    BY <1>22, CallersFacts
       DEF SignalArrives, IInv, Types, ShutInv, RunningInv, DtorInv, AdminInv, HandlerInv,
           PosixInv, ListenInv, Past, PoolStages, Dtor, Destroying, Started, NoneOnWorker
  <1>23. CASE SignalInLog \/ WorkerResumes
    BY <1>23, CallersFacts
       DEF SignalInLog, Further, WorkerResumes, IInv, Types, ShutInv, RunningInv, DtorInv,
           AdminInv, HandlerInv, PosixInv, ListenInv, Past, PoolStages, Dtor, Destroying,
           Started, NoneOnWorker
  <1>24. CASE SignalOnWorker
    BY <1>24, CallersFacts
       DEF SignalOnWorker, Further, IInv, Types, ShutInv, RunningInv, DtorInv, AdminInv,
           HandlerInv, PosixInv, ListenInv, Past, PoolStages, Dtor, Destroying, Started,
           NoneOnWorker
  <1>25. CASE SignalOnAdmin
    BY <1>25, CallersFacts
       DEF SignalOnAdmin, Further, IInv, Types, ShutInv, RunningInv, DtorInv, AdminInv,
           HandlerInv, PosixInv, ListenInv, Past, PoolStages, Dtor, Destroying, Started,
           NoneOnWorker
  <1>26. CASE \E x \in Callers : HandlerLog(x)
    BY <1>26, CallersFacts
       DEF HandlerLog, Stage, IInv, Types, ShutInv, RunningInv, DtorInv, AdminInv, HandlerInv,
           PosixInv, ListenInv, Past, PoolStages, Dtor, Destroying, Started, NoneOnWorker
  <1>27. CASE \E x \in Callers : Exchange(x)
    <2>1. PICK x \in Callers : Exchange(x)
      BY <1>27
    <2>2. /\ spc[x] = "exchange" /\ running' = FALSE
          /\ spc' = [spc EXCEPT ![x] = IF running THEN "close" ELSE "done"]
          /\ x = "main" => MainRuns
          /\ UNCHANGED <<build, process, listenOpen, mpc, adminVars, poolVars, outVars>>
      BY <2>1 DEF Exchange, Stage
    <2>3. RunningInv' /\ DtorInv'
      BY <2>2, CallersFacts
         DEF IInv, Types, ShutInv, RunningInv, DtorInv, Past, Dtor, Destroying
    <2>4. AdminInv'
      BY <2>2, CallersFacts
         DEF IInv, Types, ShutInv, RunningInv, AdminInv, Past, PoolStages, Started
    <2>5. HandlerInv'
      BY <2>2, CallersFacts
         DEF MainRuns, IInv, Types, Stages, ShutInv, RunningInv, DtorInv, HandlerInv, Past
    <2>6. PosixInv'
      BY <2>2, CallersFacts
         DEF IInv, Types, ShutInv, RunningInv, PosixInv, Past, PoolStages, NoneOnWorker
    <2>7. ListenInv'
      BY <2>2, CallersFacts DEF IInv, Types, ShutInv, ListenInv, Past
    <2> QED
      BY <2>3, <2>4, <2>5, <2>6, <2>7 DEF ShutInv
  <1>28. CASE \E x \in Callers : CloseListen(x)
    BY <1>28, CallersFacts
       DEF CloseListen, Stage, IInv, Types, ShutInv, RunningInv, DtorInv, AdminInv, HandlerInv,
           PosixInv, ListenInv, Past, PoolStages, Dtor, Destroying, Started, NoneOnWorker
  <1>29. CASE \E x \in Callers : StopAdmin(x)
    BY <1>29, CallersFacts
       DEF StopAdmin, Stage, IInv, Types, ShutInv, RunningInv, DtorInv, AdminInv, HandlerInv,
           PosixInv, ListenInv, Past, PoolStages, Dtor, Destroying, Started, NoneOnWorker
  <1>30. CASE \E x \in Callers : JoinAdmin(x)
    BY <1>30, CallersFacts
       DEF JoinAdmin, Stage, IInv, Types, ShutInv, RunningInv, DtorInv, AdminInv, HandlerInv,
           PosixInv, ListenInv, Past, PoolStages, Dtor, Destroying, Started, NoneOnWorker
  <1>31. CASE \E x \in Callers : ClosePool(x)
    BY <1>31, CallersFacts
       DEF ClosePool, Stage, IInv, Types, ShutInv, RunningInv, DtorInv, AdminInv, HandlerInv,
           PosixInv, ListenInv, Past, PoolStages, Dtor, Destroying, Started, NoneOnWorker
  <1>32. CASE \E x \in Callers : LockPool(x)
    BY <1>32, CallersFacts
       DEF LockPool, Stage, IInv, Types, ShutInv, RunningInv, DtorInv, AdminInv, HandlerInv,
           PosixInv, ListenInv, Past, PoolStages, Dtor, Destroying, Started, NoneOnWorker
  <1>33. CASE \E x \in Callers : JoinPool(x)
    BY <1>33, CallersFacts
       DEF JoinPool, Stage, Pool!Join, IInv, Types, ShutInv, RunningInv, DtorInv, AdminInv,
           HandlerInv, PosixInv, ListenInv, Past, PoolStages, Dtor, Destroying, Started,
           NoneOnWorker
  <1>34. CASE \E x \in Callers : FinalStats(x)
    BY <1>34, CallersFacts
       DEF FinalStats, Stage, IInv, Types, ShutInv, RunningInv, DtorInv, AdminInv, HandlerInv,
           PosixInv, ListenInv, Past, PoolStages, Dtor, Destroying, Started, NoneOnWorker
  <1> QED
    BY <1>1, <1>2, <1>3, <1>4, <1>5, <1>6, <1>7, <1>8, <1>9, <1>10, <1>11, <1>12, <1>13,
       <1>14, <1>15, <1>16, <1>17, <1>18, <1>19, <1>20, <1>21, <1>22, <1>23, <1>24, <1>25,
       <1>26, <1>27, <1>28, <1>29, <1>30, <1>31, <1>32, <1>33, <1>34, NextCases

\* The main thread's connection.
LEMMA CurStep ==
    ASSUME IInv, Next
    PROVE  CurInv'
  <1> USE DEF upVars, adminVars, poolVars, countVars, outVars, endVars, sigVars
  <1>1. CASE \/ StartOk \/ StartFails \/ LogReturns \/ MakeAdmin
             \/ AdminListens \/ AdminThread
    BY <1>1, CallersFacts
       DEF StartOk, Main, MainRuns, StartFails, LogReturns, MakeAdmin, AdminListens,
           AdminThread, IInv, Types, ConnInv, CurInv, ShutInv, DtorInv
  <1>2. CASE \/ LoopTest \/ AcceptInvalid \/ AcceptFails
             \/ \E c \in Conns : AcceptConnection(c)
    BY <1>2, CallersFacts
       DEF LoopTest, Main, MainRuns, AcceptInvalid, NoSocket, AcceptFails, AcceptConnection,
           IInv, Types, ConnInv, CurInv, ShutInv, DtorInv
  <1>3. CASE CapacityCheck \/ SubmitLock \/ SubmitPush
    BY <1>3, CallersFacts
       DEF CapacityCheck, Main, MainRuns, SubmitLock, SubmitPush, Pool!Accept, Pool!Reject,
           IInv, Types, ConnInv, CurInv, ShutInv, DtorInv
  <1>4. CASE \/ DtorShutdown \/ DeletePool \/ DrainPool \/ UnwindPool
             \/ Exit
    BY <1>4, CallersFacts
       DEF DtorShutdown, Main, MainRuns, DeletePool, DrainPool, Pool!Join, UnwindPool,
           WorkersDone, Exit, IInv, Types, ConnInv, CurInv, ShutInv, DtorInv
  <1>5. CASE DestroyPool
    BY <1>5, CallersFacts
       DEF DestroyPool, Main, MainRuns, IInv, Types, ConnInv, CurInv, ShutInv, DtorInv
  <1>6. CASE \/ SessionStart
             \/ \E c \in Conns : SessionCtor(c) \/ SessionEnd(c) \/ SessionThrow(c)
    BY <1>6, CallersFacts
       DEF SessionStart, Pool!Start, SessionCtor, SessionEnd, Pool!Finish, SessionThrow, IInv,
           Types, ConnInv, CurInv, ShutInv, DtorInv
  <1>7. CASE \/ AdminTest \/ AdminAcceptInvalid \/ AdminStopReturns \/ AdminAccept
             \/ AdminPage \/ AdminStop
    BY <1>7, CallersFacts
       DEF AdminTest, AdminAcceptInvalid, AdminStopReturns, AdminAccept, AdminPage, AdminStop,
           IInv, Types, ConnInv, CurInv, ShutInv, DtorInv
  <1>8. CASE BrokenPipe \/ JoinSelf \/ JoinOwnWorker
    BY <1>8, CallersFacts
       DEF BrokenPipe, JoinSelf, Stage, JoinOwnWorker, IInv, Types, ConnInv, CurInv, ShutInv,
           DtorInv
  <1>9. CASE \/ SignalArrives \/ SecondCtrlC \/ SignalInLog \/ SignalOnAdmin
             \/ WorkerResumes
    BY <1>9, CallersFacts
       DEF SignalArrives, SecondCtrlC, SignalInLog, Further, SignalOnAdmin, WorkerResumes, IInv,
           Types, ConnInv, CurInv, ShutInv, DtorInv
  <1>10. CASE SignalOnWorker
    BY <1>10, CallersFacts
       DEF SignalOnWorker, Further, IInv, Types, ConnInv, CurInv, ShutInv, DtorInv
  <1>11. CASE \/ \E x \in Callers : HandlerLog(x) \/ Exchange(x) \/ CloseListen(x) \/ StopAdmin(x)
              \/ \E x \in Callers : JoinAdmin(x)
    BY <1>11, CallersFacts
       DEF HandlerLog, Stage, Exchange, CloseListen, StopAdmin, JoinAdmin, IInv, Types, ConnInv,
           CurInv, ShutInv, DtorInv
  <1>12. CASE \E x \in Callers : ClosePool(x) \/ LockPool(x) \/ JoinPool(x) \/ FinalStats(x)
    BY <1>12, CallersFacts
       DEF ClosePool, Stage, LockPool, JoinPool, Pool!Join, FinalStats, IInv, Types, ConnInv,
           CurInv, ShutInv, DtorInv
  <1> QED
    BY <1>1, <1>2, <1>3, <1>4, <1>5, <1>6, <1>7, <1>8, <1>9, <1>10, <1>11, <1>12, NextCases

\* Nothing is dropped twice, and nothing is lost but with the pool.
LEMMA DroppedStep ==
    ASSUME IInv, Next
    PROVE  DroppedInv'
  <1> USE DEF upVars, adminVars, poolVars, countVars, outVars, endVars, sigVars
  <1>1. CASE \/ StartOk \/ StartFails \/ LogReturns \/ MakeAdmin
             \/ AdminListens \/ AdminThread
    BY <1>1, CallersFacts
       DEF StartOk, Main, MainRuns, StartFails, LogReturns, MakeAdmin, AdminListens,
           AdminThread, IInv, Types, ConnInv, CurInv, DroppedInv, PlacesInv, ShutInv,
           RunningInv, DtorInv, Dtor, Destroying
  <1>2. CASE \/ LoopTest \/ AcceptInvalid \/ AcceptFails
             \/ \E c \in Conns : AcceptConnection(c)
    BY <1>2, CallersFacts
       DEF LoopTest, Main, MainRuns, AcceptInvalid, NoSocket, AcceptFails, AcceptConnection,
           IInv, Types, ConnInv, CurInv, DroppedInv, PlacesInv, ShutInv, RunningInv, DtorInv,
           Dtor, Destroying
  <1>3. CASE CapacityCheck \/ SubmitLock \/ SubmitPush
    BY <1>3, CallersFacts
       DEF CapacityCheck, Main, MainRuns, SubmitLock, SubmitPush, Pool!Accept, Pool!Reject,
           IInv, Types, ConnInv, CurInv, DroppedInv, PlacesInv, ShutInv, RunningInv, DtorInv,
           Dtor, Destroying
  <1>4. CASE \/ DtorShutdown \/ DeletePool \/ DrainPool \/ UnwindPool
             \/ Exit
    BY <1>4, CallersFacts
       DEF DtorShutdown, Main, MainRuns, DeletePool, DrainPool, Pool!Join, UnwindPool,
           WorkersDone, Exit, IInv, Types, ConnInv, CurInv, DroppedInv, PlacesInv, ShutInv,
           RunningInv, DtorInv, Dtor, Destroying
  <1>5. CASE DestroyPool
    BY <1>5, CallersFacts
       DEF DestroyPool, Main, MainRuns, IInv, Types, ConnInv, CurInv, DroppedInv, PlacesInv,
           ShutInv, RunningInv, DtorInv, Dtor, Destroying
  <1>6. CASE \/ SessionStart
             \/ \E c \in Conns : SessionCtor(c) \/ SessionEnd(c) \/ SessionThrow(c)
    BY <1>6, CallersFacts
       DEF SessionStart, Pool!Start, SessionCtor, SessionEnd, Pool!Finish, SessionThrow, IInv,
           Types, ConnInv, CurInv, DroppedInv, PlacesInv, ShutInv, RunningInv, DtorInv, Dtor,
           Destroying
  <1>7. CASE \/ AdminTest \/ AdminAcceptInvalid \/ AdminStopReturns \/ AdminAccept
             \/ AdminPage \/ AdminStop
    BY <1>7, CallersFacts
       DEF AdminTest, AdminAcceptInvalid, AdminStopReturns, AdminAccept, AdminPage, AdminStop,
           IInv, Types, ConnInv, CurInv, DroppedInv, PlacesInv, ShutInv, RunningInv, DtorInv,
           Dtor, Destroying
  <1>8. CASE BrokenPipe \/ JoinSelf \/ JoinOwnWorker
    BY <1>8, CallersFacts
       DEF BrokenPipe, JoinSelf, Stage, JoinOwnWorker, IInv, Types, ConnInv, CurInv, DroppedInv,
           PlacesInv, ShutInv, RunningInv, DtorInv, Dtor, Destroying
  <1>9. CASE \/ SignalArrives \/ SecondCtrlC \/ SignalInLog \/ SignalOnAdmin
             \/ WorkerResumes
    BY <1>9, CallersFacts
       DEF SignalArrives, SecondCtrlC, SignalInLog, Further, SignalOnAdmin, WorkerResumes, IInv,
           Types, ConnInv, CurInv, DroppedInv, PlacesInv, ShutInv, RunningInv, DtorInv, Dtor,
           Destroying
  <1>10. CASE SignalOnWorker
    BY <1>10, CallersFacts
       DEF SignalOnWorker, Further, IInv, Types, ConnInv, CurInv, DroppedInv, PlacesInv,
           ShutInv, RunningInv, DtorInv, Dtor, Destroying
  <1>11. CASE \/ \E x \in Callers : HandlerLog(x) \/ Exchange(x) \/ CloseListen(x) \/ StopAdmin(x)
              \/ \E x \in Callers : JoinAdmin(x)
    BY <1>11, CallersFacts
       DEF HandlerLog, Stage, Exchange, CloseListen, StopAdmin, JoinAdmin, IInv, Types, ConnInv,
           CurInv, DroppedInv, PlacesInv, ShutInv, RunningInv, DtorInv, Dtor, Destroying
  <1>12. CASE \E x \in Callers : ClosePool(x) \/ LockPool(x) \/ JoinPool(x) \/ FinalStats(x)
    BY <1>12, CallersFacts
       DEF ClosePool, Stage, LockPool, JoinPool, Pool!Join, FinalStats, IInv, Types, ConnInv,
           CurInv, DroppedInv, PlacesInv, ShutInv, RunningInv, DtorInv, Dtor, Destroying
  <1> QED
    BY <1>1, <1>2, <1>3, <1>4, <1>5, <1>6, <1>7, <1>8, <1>9, <1>10, <1>11, <1>12, NextCases

\* A queue holds a value once.
Once(q) == \A i, j \in DOMAIN q : q[i] = q[j] => i = j
Values(q) == {q[i] : i \in DOMAIN q}

\* What enters a queue.
LEMMA QueuedAppend ==
    ASSUME NEW q \in Seq(Conns), Once(q), NEW c \in Conns, c \notin Values(q)
    PROVE  /\ Append(q, c) \in Seq(Conns)
           /\ Once(Append(q, c))
           /\ Values(Append(q, c)) = Values(q) \cup {c}
  <1>1. /\ Append(q, c) \in Seq(Conns)
        /\ DOMAIN Append(q, c) = 1 .. Len(q) + 1 /\ DOMAIN q = 1 .. Len(q)
        /\ Append(q, c)[Len(q) + 1] = c
        /\ \A i \in 1 .. Len(q) : Append(q, c)[i] = q[i]
    OBVIOUS
  <1>2. Once(Append(q, c))
    BY <1>1 DEF Once, Values
  <1>3. Values(Append(q, c)) \subseteq Values(q) \cup {c}
    BY <1>1 DEF Values
  <1>4. ASSUME NEW v \in Values(q) \cup {c}
        PROVE  v \in Values(Append(q, c))
    <2>1. CASE v = c
      BY <1>1, <2>1 DEF Values
    <2>2. CASE v \in Values(q)
      <3>1. PICK i \in 1 .. Len(q) : v = q[i]
        BY <1>1, <2>2 DEF Values
      <3>2. i \in DOMAIN Append(q, c) /\ Append(q, c)[i] = v
        BY <1>1, <3>1
      <3> QED
        BY <3>2 DEF Values
    <2> QED
      BY <2>1, <2>2
  <1> QED
    BY <1>1, <1>2, <1>3, <1>4

\* What leaves it.
LEMMA QueuedTail ==
    ASSUME NEW q \in Seq(Conns), Once(q), q # <<>>
    PROVE  /\ Tail(q) \in Seq(Conns)
           /\ Once(Tail(q))
           /\ Values(q) = Values(Tail(q)) \cup {Head(q)}
           /\ Head(q) \notin Values(Tail(q))
  <1>1. /\ Tail(q) \in Seq(Conns) /\ Len(q) \in Nat /\ Len(q) > 0
        /\ DOMAIN Tail(q) = 1 .. Len(q) - 1 /\ DOMAIN q = 1 .. Len(q)
        /\ Head(q) = q[1]
        /\ \A i \in 1 .. Len(q) - 1 : Tail(q)[i] = q[i + 1]
    OBVIOUS
  <1>2. Once(Tail(q))
    BY <1>1 DEF Once
  <1>3. Head(q) \notin Values(Tail(q))
    BY <1>1 DEF Once, Values
  <1>4. Values(Tail(q)) \cup {Head(q)} \subseteq Values(q)
    BY <1>1 DEF Values
  <1>5. ASSUME NEW v \in Values(q), v # Head(q)
        PROVE  v \in Values(Tail(q))
    <2>1. PICK i \in 1 .. Len(q) : v = q[i]
      BY <1>1 DEF Values
    <2>2. i - 1 \in DOMAIN Tail(q) /\ Tail(q)[i - 1] = v
      BY <1>1, <1>5, <2>1
    <2> QED
      BY <2>2 DEF Values
  <1> QED
    BY <1>1, <1>2, <1>3, <1>4, <1>5

\* Every connection goes from one place to the next.
LEMMA PlacesStep ==
    ASSUME IInv, Next
    PROVE  PlacesInv'
  <1> USE DEF upVars, adminVars, poolVars, countVars, outVars, endVars, sigVars
  <1>1. CASE \/ StartOk \/ StartFails \/ LogReturns \/ MakeAdmin
             \/ AdminListens \/ AdminThread
    BY <1>1, CallersFacts
       DEF StartOk, Main, MainRuns, StartFails, LogReturns, MakeAdmin, AdminListens,
           AdminThread, IInv, Types, ConnInv, CurInv, PlacesInv, Queued
  <1>2. CASE \/ LoopTest \/ AcceptInvalid \/ AcceptFails
             \/ \E c \in Conns : AcceptConnection(c)
    BY <1>2, CallersFacts
       DEF LoopTest, Main, MainRuns, AcceptInvalid, NoSocket, AcceptFails, AcceptConnection,
           IInv, Types, ConnInv, CurInv, PlacesInv, Queued
  <1>3. CASE \/ DtorShutdown \/ DeletePool \/ DrainPool \/ UnwindPool
             \/ Exit
    BY <1>3, CallersFacts
       DEF DtorShutdown, Main, MainRuns, DeletePool, DrainPool, Pool!Join, UnwindPool,
           WorkersDone, Exit, IInv, Types, ConnInv, CurInv, PlacesInv, Queued
  <1>4. CASE DestroyPool
    <2>1. CASE UNCHANGED <<lost, poolVars>>
      BY <1>4, <2>1 DEF DestroyPool, IInv, ConnInv, PlacesInv, Queued
    <2>2. CASE ~UNCHANGED <<lost, poolVars>>
      <3>1. /\ lost' = Queued /\ queue' = <<>> /\ ~deleted
            /\ UNCHANGED <<todo, sessions, ended, refused, dropped>>
        BY <1>4, <2>2
           DEF DestroyPool, Main, IInv, Types, ShutInv, DtorInv, Destroying, Queued
      <3>2. lost = {} /\ Queued' = {} /\ queue' \in Seq(Conns)
        BY <3>1 DEF IInv, ConnInv, DroppedInv, Queued
      <3> QED
        BY <3>1, <3>2 DEF IInv, ConnInv, PlacesInv
    <2> QED
      BY <2>1, <2>2
  <1>5. CASE \/ AdminTest \/ AdminAcceptInvalid \/ AdminStopReturns \/ AdminAccept
             \/ AdminPage \/ AdminStop
    BY <1>5, CallersFacts
       DEF AdminTest, AdminAcceptInvalid, AdminStopReturns, AdminAccept, AdminPage, AdminStop,
           IInv, Types, ConnInv, CurInv, PlacesInv, Queued
  <1>6. CASE BrokenPipe \/ JoinSelf \/ JoinOwnWorker
    BY <1>6, CallersFacts
       DEF BrokenPipe, JoinSelf, Stage, JoinOwnWorker, IInv, Types, ConnInv, CurInv, PlacesInv,
           Queued
  <1>7. CASE \/ SignalArrives \/ SecondCtrlC \/ SignalInLog \/ SignalOnAdmin
             \/ WorkerResumes
    BY <1>7, CallersFacts
       DEF SignalArrives, SecondCtrlC, SignalInLog, Further, SignalOnAdmin, WorkerResumes, IInv,
           Types, ConnInv, CurInv, PlacesInv, Queued
  <1>8. CASE SignalOnWorker
    BY <1>8, CallersFacts
       DEF SignalOnWorker, Further, IInv, Types, ConnInv, CurInv, PlacesInv, Queued
  <1>9. CASE \/ \E x \in Callers : HandlerLog(x) \/ Exchange(x) \/ CloseListen(x) \/ StopAdmin(x)
             \/ \E x \in Callers : JoinAdmin(x)
    BY <1>9, CallersFacts
       DEF HandlerLog, Stage, Exchange, CloseListen, StopAdmin, JoinAdmin, IInv, Types, ConnInv,
           CurInv, PlacesInv, Queued
  <1>10. CASE \E x \in Callers : ClosePool(x) \/ LockPool(x) \/ JoinPool(x) \/ FinalStats(x)
    BY <1>10, CallersFacts
       DEF ClosePool, Stage, LockPool, JoinPool, Pool!Join, FinalStats, IInv, Types, ConnInv,
           CurInv, PlacesInv, Queued
  <1>11. CASE CapacityCheck \/ SubmitLock
    BY <1>11, CallersFacts
       DEF CapacityCheck, Main, MainRuns, SubmitLock, IInv, Types, ConnInv, CurInv, PlacesInv,
           Queued
  <1>12. CASE SubmitPush
    <2>1. PICK c \in cur :
             \/ Pool!Accept(c) /\ dropped' = dropped
             \/ Pool!Reject(c) /\ dropped' = dropped \cup {c}
      BY <1>12 DEF SubmitPush
    <2>2. refused' = refused /\ lost' = lost /\ c \in todo /\ c \in Conns
      BY <1>12, <2>1 DEF SubmitPush, Pool!Accept, Pool!Reject, IInv, ConnInv, PlacesInv
    <2>3. CASE Pool!Accept(c) /\ dropped' = dropped
      <3>1. queue \in Seq(Conns) /\ c \notin Queued /\ Once(queue)
        BY <2>2 DEF IInv, ConnInv, PlacesInv, Once
      <3>2. /\ queue' \in Seq(Conns) /\ Once(queue')
            /\ Queued' = Queued \cup {c}
        BY <2>2, <2>3, <3>1, QueuedAppend DEF Pool!Accept, Queued, Values
      <3> QED
        BY <2>2, <2>3, <3>2 DEF Pool!Accept, IInv, ConnInv, PlacesInv, Once
    <2>4. CASE Pool!Reject(c) /\ dropped' = dropped \cup {c}
      BY <2>2, <2>4 DEF Pool!Reject, IInv, ConnInv, PlacesInv, Queued
    <2> QED
      BY <2>1, <2>3, <2>4
  <1>13. CASE SessionStart
    <2>1. Pool!Start /\ refused' = refused /\ dropped' = dropped /\ lost' = lost
      BY <1>13 DEF SessionStart
    <2>2. queue \in Seq(Conns) /\ queue # <<>> /\ Once(queue)
      BY <2>1 DEF Pool!Start, IInv, ConnInv, PlacesInv, Once
    <2>3. /\ queue' \in Seq(Conns) /\ Once(queue')
          /\ Queued = Queued' \cup {Head(queue)}
          /\ Head(queue) \notin Queued'
      BY <2>1, <2>2, QueuedTail DEF Pool!Start, Queued, Values
    <2> QED
      BY <2>1, <2>3 DEF Pool!Start, IInv, ConnInv, PlacesInv, Once
  <1>14. CASE \E c \in Conns : SessionCtor(c) \/ SessionEnd(c) \/ SessionThrow(c)
    BY <1>14, CallersFacts
       DEF SessionCtor, SessionEnd, Pool!Finish, SessionThrow, IInv, Types, ConnInv, CurInv,
           PlacesInv, Queued
  <1> QED
    BY <1>1, <1>2, <1>3, <1>4, <1>5, <1>6, <1>7, <1>8, <1>9, <1>10, <1>11, <1>12, <1>13,
       <1>14, NextCases

\* There are finitely many connections to count.
LEMMA Finite ==
    ASSUME IInv
    PROVE  /\ IsFiniteSet(counted) /\ Cardinality(counted) \in Nat
           /\ IsFiniteSet(ended) /\ Cardinality(ended) \in Nat
  <1>1. counted \subseteq Conns /\ ended \subseteq Conns
    BY DEF IInv, ConnInv, PlacesInv, CountInv
  <1>2. IsFiniteSet(counted) /\ IsFiniteSet(ended)
    BY <1>1, ServerAssumption, FS_Subset
  <1> QED
    BY <1>2, FS_CardinalityType

\* A session that ends is counted on the other side.
LEMMA Moved ==
    ASSUME IInv, NEW c \in counted,
           counted' = counted \ {c}, ended' = ended \cup {c}
    PROVE  /\ Cardinality(counted') = Cardinality(counted) - 1
           /\ Cardinality(ended') = Cardinality(ended) + 1
           /\ Cardinality(counted) \in Nat /\ Cardinality(ended) \in Nat
           /\ Cardinality(counted') \in Nat
  <1>1. c \notin ended
    BY DEF IInv, ConnInv, CountInv, PlacesInv
  <1>2. Cardinality(ended') = Cardinality(ended) + 1
    BY <1>1, Finite, FS_AddElement
  <1>3. IsFiniteSet(counted') /\ Cardinality(counted') = Cardinality(counted) - 1
    BY Finite, FS_RemoveElement
  <1>4. Cardinality(counted') \in Nat
    BY <1>3, FS_CardinalityType
  <1> QED
    BY <1>2, <1>3, <1>4, Finite

\* The counters follow the sessions.
LEMMA CountStep ==
    ASSUME IInv, Next
    PROVE  CountInv'
  <1> USE DEF upVars, adminVars, poolVars, countVars, outVars, endVars, sigVars
  <1>0. CountInv
    BY DEF IInv, ConnInv
  <1>1. CASE \/ StartOk \/ StartFails \/ LogReturns \/ MakeAdmin
             \/ AdminListens \/ AdminThread
    BY <1>1, <1>0, CallersFacts
       DEF StartOk, Main, MainRuns, StartFails, LogReturns, MakeAdmin, AdminListens,
           AdminThread, CountInv, ActiveAccounts
  <1>2. CASE \/ LoopTest \/ AcceptInvalid \/ AcceptFails
             \/ \E c \in Conns : AcceptConnection(c)
    BY <1>2, <1>0, CallersFacts
       DEF LoopTest, Main, MainRuns, AcceptInvalid, NoSocket, AcceptFails, AcceptConnection,
           CountInv, ActiveAccounts
  <1>3. CASE CapacityCheck \/ SubmitLock \/ SubmitPush
    BY <1>3, <1>0, CallersFacts
       DEF CapacityCheck, Main, MainRuns, SubmitLock, SubmitPush, Pool!Accept, Pool!Reject,
           CountInv, ActiveAccounts
  <1>4. CASE \/ DtorShutdown \/ DeletePool \/ DrainPool \/ UnwindPool
             \/ Exit
    BY <1>4, <1>0, CallersFacts
       DEF DtorShutdown, Main, MainRuns, DeletePool, DrainPool, Pool!Join, UnwindPool,
           WorkersDone, Exit, CountInv, ActiveAccounts
  <1>5. CASE DestroyPool
    BY <1>5, <1>0, CallersFacts
       DEF DestroyPool, Main, MainRuns, CountInv, ActiveAccounts
  <1>6. CASE \/ AdminTest \/ AdminAcceptInvalid \/ AdminStopReturns \/ AdminAccept
             \/ AdminPage \/ AdminStop
    BY <1>6, <1>0, CallersFacts
       DEF AdminTest, AdminAcceptInvalid, AdminStopReturns, AdminAccept, AdminPage, AdminStop,
           CountInv, ActiveAccounts
  <1>7. CASE BrokenPipe \/ JoinSelf \/ JoinOwnWorker
    BY <1>7, <1>0, CallersFacts
       DEF BrokenPipe, JoinSelf, Stage, JoinOwnWorker, CountInv, ActiveAccounts
  <1>8. CASE \/ SignalArrives \/ SecondCtrlC \/ SignalInLog \/ SignalOnAdmin
             \/ WorkerResumes
    BY <1>8, <1>0, CallersFacts
       DEF SignalArrives, SecondCtrlC, SignalInLog, Further, SignalOnAdmin, WorkerResumes,
           CountInv, ActiveAccounts
  <1>9. CASE SignalOnWorker
    BY <1>9, <1>0, CallersFacts
       DEF SignalOnWorker, Further, CountInv, ActiveAccounts
  <1>10. CASE \/ \E x \in Callers : HandlerLog(x) \/ Exchange(x) \/ CloseListen(x) \/ StopAdmin(x)
              \/ \E x \in Callers : JoinAdmin(x)
    BY <1>10, <1>0, CallersFacts
       DEF HandlerLog, Stage, Exchange, CloseListen, StopAdmin, JoinAdmin, CountInv,
           ActiveAccounts
  <1>11. CASE \E x \in Callers : ClosePool(x) \/ LockPool(x) \/ JoinPool(x) \/ FinalStats(x)
    BY <1>11, <1>0, CallersFacts
       DEF ClosePool, Stage, LockPool, JoinPool, Pool!Join, FinalStats, CountInv, ActiveAccounts
  <1>12. CASE SessionStart
    BY <1>12, <1>0, CallersFacts
       DEF SessionStart, Pool!Start, CountInv, ActiveAccounts
  <1>13. CASE \E c \in Conns : SessionCtor(c)
    <2>1. PICK c \in sessions \ counted :
             /\ counted' = counted \cup {c} /\ active' = active + 1 /\ total' = total + 1
             /\ UNCHANGED <<sessions, ended, thrown>>
      BY <1>13 DEF SessionCtor
    <2>2. Cardinality(counted') = Cardinality(counted) + 1
      BY <2>1, Finite, FS_AddElement
    <2> QED
      BY <1>0, <2>1, <2>2, Finite DEF CountInv, ActiveAccounts
  <1>14. CASE \E c \in Conns : SessionEnd(c)
    <2>1. PICK c \in counted :
             /\ counted' = counted \ {c} /\ active' = dec(active)
             /\ sessions' = sessions \ {c} /\ ended' = ended \cup {c}
             /\ UNCHANGED <<total, thrown>>
      BY <1>14 DEF SessionEnd, Pool!Finish
    <2>2. /\ Cardinality(counted') = Cardinality(counted) - 1
          /\ Cardinality(ended') = Cardinality(ended) + 1
          /\ Cardinality(counted) \in Nat /\ Cardinality(ended) \in Nat
          /\ Cardinality(counted') \in Nat
      BY <2>1, Moved
    <2>3. active > 0 /\ active' = active - 1
      BY <1>0, <2>1, <2>2 DEF CountInv, ActiveAccounts, dec
    <2> QED
      BY <1>0, <2>1, <2>2, <2>3 DEF CountInv, ActiveAccounts
  <1>15. CASE \E c \in Conns : SessionThrow(c)
    <2>1. PICK c \in counted :
             /\ counted' = counted \ {c} /\ thrown' = thrown + 1
             /\ sessions' = sessions \ {c} /\ ended' = ended \cup {c}
             /\ UNCHANGED <<active, total>>
      BY <1>15 DEF SessionThrow, Pool!Finish
    <2>2. /\ Cardinality(counted') = Cardinality(counted) - 1
          /\ Cardinality(ended') = Cardinality(ended) + 1
          /\ Cardinality(counted) \in Nat /\ Cardinality(ended) \in Nat
      BY <2>1, Moved
    <2> QED
      BY <1>0, <2>1, <2>2 DEF CountInv, ActiveAccounts
  <1> QED
    BY <1>1, <1>2, <1>3, <1>4, <1>5, <1>6, <1>7, <1>8, <1>9, <1>10, <1>11, <1>12, <1>13,
       <1>14, <1>15, NextCases

-----------------------------------------------------------------------------
(* Results.                                                                *)

\* The strengthening is inductive.
LEMMA Inductive == Spec => []IInv
  <1>1. Init => IInv
    <2> SUFFICES ASSUME Init PROVE IInv
      OBVIOUS
    <2>1. Types /\ ShutInv
      BY DEF Init, Pool!Init, Types, ShutInv, RunningInv, DtorInv, AdminInv,
             HandlerInv, PosixInv, NoneOnWorker, ListenInv, Past, PoolStages, Callers, Stages,
             Dtor, Destroying, Started, Logging, MayLog
    <2>2. PlacesInv /\ CurInv /\ DroppedInv
      BY DEF Init, Pool!Init, PlacesInv, CurInv, DroppedInv, Queued
    <2>3. CountInv
      BY FS_EmptySet DEF Init, Pool!Init, CountInv, ActiveAccounts
    <2> QED
      BY <2>1, <2>2, <2>3 DEF IInv, ConnInv
  <1>2. IInv /\ [Next]_vars => IInv'
    <2> SUFFICES ASSUME IInv, [Next]_vars PROVE IInv'
      OBVIOUS
    <2>1. CASE Next
      BY <2>1, TypesStep, ShutStep, CurStep, DroppedStep, PlacesStep, CountStep
         DEF IInv, ConnInv
    <2>2. CASE UNCHANGED vars
      BY <2>2 DEF vars, upVars, adminVars, poolVars, countVars, outVars, endVars, sigVars,
             IInv, Types,
             ConnInv, PlacesInv, CurInv, DroppedInv, CountInv, ActiveAccounts, Queued,
             ShutInv, RunningInv, DtorInv, AdminInv, HandlerInv, PosixInv, NoneOnWorker,
             ListenInv
    <2> QED
      BY <2>1, <2>2
  <1> QED
    BY <1>1, <1>2, PTL DEF Spec

\* The variables have their types.
THEOREM TypeCorrect == Spec => []TypeOK
  <1>1. IInv => TypeOK
    <2> SUFFICES ASSUME IInv PROVE TypeOK
      OBVIOUS
    <2>1. {todo, sessions, ended, counted, refused, dropped, lost, stalled}
             \subseteq SUBSET Conns
      BY DEF IInv, ConnInv, PlacesInv, DroppedInv, CountInv
    <2>2. cur \in SUBSET Conns
      BY DEF IInv, Types, ConnInv, PlacesInv, CurInv
    <2> QED
      BY <2>1, <2>2 DEF IInv, Types, ConnInv, PlacesInv, CountInv, TypeOK
  <1> QED
    BY <1>1, Inductive, PTL

\* context_.activeConnections and totalConnections agree with the sessions there
\* are and were, in every interleaving of constructors, ends and exceptions.
THEOREM CountersExact == Spec => []ActiveAccounts
  <1>1. IInv => ActiveAccounts
    BY DEF IInv, ConnInv, CountInv
  <1> QED
    BY <1>1, Inductive, PTL

\* A connection has one fate at a time, is served at most once, and between
\* accept() and the end of its session gets out of the server's hands in two ways
\* only: the closing pool rejects it, which happens once, or ~FTPServer destroys
\* the queue while another thread still waits for the workers.
THEOREM ConnectionsKept == Spec => []ConnectionsAccounted
  <1>1. IInv => ConnectionsAccounted
    <2> SUFFICES ASSUME IInv PROVE ConnectionsAccounted
      OBVIOUS
    <2> DEFINE f == <<todo, Queued, sessions, ended, refused, dropped, lost>>
    <2>1. PlacesInv /\ CurInv /\ DroppedInv
      BY DEF IInv, ConnInv
    <2>2. DOMAIN f = 1 .. 7
      OBVIOUS
    <2>3. UNION {f[i] : i \in DOMAIN f} = Conns
      <3>1. /\ f[1] = todo /\ f[2] = Queued /\ f[3] = sessions
            /\ f[4] = ended /\ f[5] = refused /\ f[6] = dropped
            /\ f[7] = lost
        OBVIOUS
      <3> HIDE DEF f
      <3>2. ASSUME NEW c \in Conns
            PROVE  \E i \in 1 .. 7 : c \in f[i]
        BY <2>1, <3>1 DEF PlacesInv
      <3>3. ASSUME NEW i \in 1 .. 7
            PROVE  f[i] \subseteq Conns
        <4>1. i = 1 \/ i = 2 \/ i = 3 \/ i = 4 \/ i = 5 \/ i = 6 \/ i = 7
          OBVIOUS
        <4> QED
          BY <2>1, <3>1, <4>1 DEF PlacesInv
      <3> QED
        BY <2>2, <3>2, <3>3
    <2>4. ASSUME NEW i \in DOMAIN f, NEW j \in DOMAIN f, i # j
          PROVE  f[i] \cap f[j] = {}
      BY <2>1, <2>2, <2>4 DEF PlacesInv
    <2>5. cur \subseteq todo
      BY <2>1 DEF CurInv
    <2>6. dropped # {} => closed /\ Cardinality(dropped) = 1
      BY <2>1, FS_Singleton DEF DroppedInv
    <2>7. process = "exited" => cur = {} /\ queue = <<>> /\ sessions = {}
      BY <2>1 DEF IInv, ShutInv, DtorInv, CurInv
    <2>8. lost # {} => raced
      BY <2>1 DEF DroppedInv
    <2> QED
      BY <2>3, <2>4, <2>5, <2>6, <2>7, <2>8 DEF ConnectionsAccounted, Queued
  <1> QED
    BY <1>1, Inductive, PTL

\* ~FTPServer does not delete the pool under a shutdown() that another thread
\* or the handler is in the middle of, on POSIX while no worker runs the handler.
THEOREM PoolStaysAlive == Spec => []PoolOutlivesShutdown
  <1>1. IInv => PoolOutlivesShutdown
    BY DEF IInv, ShutInv, PosixInv, PoolOutlivesShutdown
  <1> QED
    BY <1>1, Inductive, PTL

\* "Shutdown complete." is true when it is logged, and stays true.
THEOREM CompleteIsQuiet == Spec => CompleteMeansQuiet
  <1> DEFINE Quiet == /\ ~listenOpen'
                      /\ queue' = <<>> /\ sessions' = {}
                      /\ ~complete => apc' \in {"off", "deleted", "exited"}
  <1>1. IInv /\ IInv' /\ [Next]_vars =>
          [build = "posix" /\ NoneOnWorker' /\ complete' => Quiet]_vars
    <2> SUFFICES ASSUME IInv, IInv', Next, build = "posix", NoneOnWorker', complete'
                 PROVE  Quiet
      OBVIOUS
    <2> USE DEF upVars, adminVars, poolVars, countVars, outVars, endVars, sigVars
    <2>1. build' = build
      BY NextCases
         DEF StartOk, StartFails, LogReturns, MakeAdmin, AdminListens, AdminThread, LoopTest,
             AcceptInvalid, AcceptFails, AcceptConnection, CapacityCheck,
             SubmitLock, SubmitPush, DtorShutdown, DeletePool, DrainPool,
             DestroyPool, UnwindPool, Exit, SessionStart, SessionCtor, SessionEnd,
             SessionThrow, AdminTest, AdminAcceptInvalid, AdminStopReturns,
             AdminAccept, AdminPage, AdminStop, BrokenPipe, JoinSelf,
             JoinOwnWorker, SignalArrives, SecondCtrlC, SignalInLog,
             SignalOnWorker, SignalOnAdmin, WorkerResumes, HandlerLog, Exchange,
             CloseListen, StopAdmin, JoinAdmin, ClosePool, LockPool, JoinPool,
             FinalStats
    <2>2. ~listenOpen' /\ queue' = <<>> /\ sessions' = {}
      BY <2>1 DEF IInv, ShutInv, DtorInv, PosixInv, ListenInv
    <2>3. ASSUME ~complete
          PROVE  apc' \in {"off", "deleted", "exited"}
      <3>1. PICK x \in Callers : FinalStats(x)
        BY <2>3, NextCases
           DEF StartOk, StartFails, LogReturns, MakeAdmin, AdminListens, AdminThread, LoopTest,
               AcceptInvalid, AcceptFails, AcceptConnection, CapacityCheck,
               SubmitLock, SubmitPush, DtorShutdown, DeletePool, DrainPool,
               DestroyPool, UnwindPool, Exit, SessionStart, SessionCtor,
               SessionEnd, SessionThrow, AdminTest, AdminAcceptInvalid,
               AdminStopReturns, AdminAccept, AdminPage, AdminStop, BrokenPipe,
               JoinSelf, JoinOwnWorker, SignalArrives, SecondCtrlC, SignalInLog,
               SignalOnWorker, SignalOnAdmin, WorkerResumes, HandlerLog,
               Exchange, CloseListen, StopAdmin, JoinAdmin, ClosePool, LockPool,
               JoinPool
      <3>2. NoneOnWorker
        BY <3>1 DEF FinalStats, Stage, NoneOnWorker, IInv, Types, Callers
      <3> QED
        BY <3>1, <3>2 DEF FinalStats, Stage, IInv, ShutInv, PosixInv, PoolStages
    <2> QED
      BY <2>2, <2>3
  <1> QED
    BY <1>1, Inductive, PTL DEF Spec, CompleteMeansQuiet
=============================================================================
