----------------------------- MODULE ThreadPool -----------------------------
(***************************************************************************)
(* The fixed-size thread pool of src/server/thread_pool.{h,cpp} on top of  *)
(* the Mutex and CondVar of src/common/win32_threads.h, one step per       *)
(* mutex operation, condition-variable operation or read/write of the      *)
(* flag shutdown_, which shutdown() sets WITHOUT the mutex.                *)
(*                                                                         *)
(* build selects the CondVar: "win32" is the hand-written counting         *)
(* semaphore guarded by waiters_, "posix" wraps std::condition_variable.   *)
(***************************************************************************)
EXTENDS Integers, Sequences, FiniteSets

CONSTANTS Workers,     \* workers_: one thread per element
          Submitters,  \* threads that call submit()
          Closers,     \* threads that call shutdown(), the destructor's included
          Tasks,       \* closures; each is submitted at most once
          NoThread,    \* "mutex_ is free"
          NoTask       \* "no closure in hand"

Threads == Workers \cup Submitters \cup Closers

ASSUME ThreadsAssumption ==
    /\ Workers # {} /\ IsFiniteSet(Workers)
    /\ Workers \cap Submitters = {}
    /\ Workers \cap Closers = {}
    /\ Submitters \cap Closers = {}
    /\ NoThread \notin Threads
    /\ NoTask \notin Tasks

VARIABLES
    build,       \* which CondVar is compiled in: chosen once
    mutex,       \* holder of mutex_, or NoThread
    tasks,       \* tasks_, the queue of closures
    shutdown,    \* shutdown_
    activeTasks, \* activeTasks_
    waiters,     \* CondVar::waiters_ (win32)
    sema,        \* count of CondVar::sema_ (win32)
    pc,          \* where each thread is
    task,        \* closure a worker runs, or a submitter is handing over
    todo,        \* closures no caller has submitted yet
    accepted,    \* history: closures pushed, in order
    started,     \* history: closures popped, in order
    finished     \* history: closures that returned or threw

syncVars == <<mutex, waiters, sema>>
histVars == <<todo, accepted, started, finished>>
vars == <<build, mutex, tasks, shutdown, activeTasks, waiters, sema, pc, task,
          todo, accepted, started, finished>>

WorkerPC == {"lock", "check", "wait", "blocked", "relock", "exitcheck",
             "pop", "claimed", "running", "ended", "exited"}
SubmitterPC == {"s_idle", "s_lock", "s_check", "s_push", "s_unlock"}
CloserPC == {"c_start", "c_lock", "c_notify", "c_unlock", "c_join",
             "c_done", "c_already"}

Blocked == {w \in Workers : pc[w] = "blocked"}
InWait == {w \in Workers : pc[w] \in {"blocked", "relock"}}

\* Workers that will look at the queue before they sleep or run a task.
Coming == {w \in Workers : pc[w] \in {"lock", "check", "relock", "exitcheck", "pop"}}

Init ==
    /\ build \in {"win32", "posix"}
    /\ mutex = NoThread
    /\ tasks = <<>>
    /\ shutdown = FALSE
    /\ activeTasks = 0
    /\ waiters = 0
    /\ sema = 0
    /\ pc = [t \in Threads |-> IF t \in Workers THEN "lock"
                               ELSE IF t \in Submitters THEN "s_idle"
                               ELSE "c_start"]
    /\ task = [t \in Workers \cup Submitters |-> NoTask]
    /\ todo = Tasks
    /\ accepted = <<>>
    /\ started = <<>>
    /\ finished = {}

Goto(t, from, to) ==
    /\ pc[t] = from
    /\ pc' = [pc EXCEPT ![t] = to]

lock(t) == mutex = NoThread /\ mutex' = t
unlock(t) == mutex = t /\ mutex' = NoThread

-----------------------------------------------------------------------------
(* CondVar.  Thread n stands at program point "from", calls notify and goes *)
(* on to "to".  On win32 tokens are added to the semaphore, as many as the *)
(* callers of wait() that have not re-acquired the mutex; on POSIX         *)
(* sleepers are woken at once.                                             *)

Wake(n, from, to, sleepers) ==
    /\ pc[n] = from
    /\ pc' = [t \in Threads |-> IF t \in sleepers THEN "relock"
                                ELSE IF t = n THEN to ELSE pc[t]]

\* Mutant: notifies only while the semaphore is empty.
NotifyOneIfUnsignalled(n, from, to) ==
    \/ /\ build = "win32"
       /\ Goto(n, from, to)
       /\ sema' = IF waiters > 0 /\ sema = 0 THEN 1 ELSE sema
    \/ /\ build = "posix"
       /\ \/ Blocked = {} /\ Goto(n, from, to)
          \/ \E w \in Blocked : Wake(n, from, to, {w})
       /\ UNCHANGED sema

notify_one(n, from, to) ==
    \/ /\ build = "win32"
       /\ Goto(n, from, to)
       /\ sema' = IF waiters > 0 THEN sema + 1 ELSE sema
    \/ /\ build = "posix"
       /\ \/ Blocked = {} /\ Goto(n, from, to)
          \/ \E w \in Blocked : Wake(n, from, to, {w})
       /\ UNCHANGED sema

\* Mutant: wakes a single waiter.
NotifyAllOnce(n, from, to) == notify_one(n, from, to)

notify_all(n, from, to) ==
    \/ /\ build = "win32"
       /\ Goto(n, from, to)
       /\ sema' = IF waiters > 0 THEN sema + waiters ELSE sema
    \/ /\ build = "posix"
       /\ Wake(n, from, to, Blocked)
       /\ UNCHANGED sema

-----------------------------------------------------------------------------
(* workerLoop().  The mutex is held from "check" to "pop"; shutdown may     *)
(* become TRUE between any two of these steps.                             *)

WLock(w) ==
    /\ Goto(w, "lock", "check")
    /\ lock(w)
    /\ UNCHANGED <<build, tasks, shutdown, activeTasks, waiters, sema, task, histVars>>

\* Condition of the while loop.
WCheck(w) ==
    /\ \/ ~shutdown /\ tasks = <<>> /\ Goto(w, "check", "wait")
       \/ (shutdown \/ tasks # <<>>) /\ Goto(w, "check", "exitcheck")
    /\ UNCHANGED <<build, tasks, shutdown, activeTasks, syncVars, task, histVars>>

\* CondVar::wait up to the point where the thread sleeps.
WWait(w) ==
    /\ Goto(w, "wait", "blocked")
    /\ unlock(w)
    /\ waiters' = waiters + 1
    /\ UNCHANGED <<build, tasks, shutdown, activeTasks, sema, task, histVars>>

\* WaitForSingleObject returns: the thread has consumed one token.
WTakeToken(w) ==
    /\ build = "win32"
    /\ Goto(w, "blocked", "relock")
    /\ sema > 0
    /\ sema' = sema - 1
    /\ UNCHANGED <<build, mutex, tasks, shutdown, activeTasks, waiters, task, histVars>>

\* std::condition_variable may return without a notification.
WSpurious(w) ==
    /\ build = "posix"
    /\ Goto(w, "blocked", "relock")
    /\ UNCHANGED <<build, tasks, shutdown, activeTasks, syncVars, task, histVars>>

\* Mutant: wait() forgets to take itself off waiters_.
RelockKeepsWaiters(w) ==
    /\ Goto(w, "relock", "check")
    /\ lock(w)
    /\ UNCHANGED <<build, tasks, shutdown, activeTasks, waiters, sema, task, histVars>>

\* Mutant: "if (empty) wait" where the code loops.
RelockWithoutRetest(w) ==
    /\ Goto(w, "relock", "exitcheck")
    /\ lock(w)
    /\ waiters' = waiters - 1
    /\ UNCHANGED <<build, tasks, shutdown, activeTasks, sema, task, histVars>>

WRelock(w) ==
    /\ Goto(w, "relock", "check")
    /\ lock(w)
    /\ waiters' = waiters - 1
    /\ UNCHANGED <<build, tasks, shutdown, activeTasks, sema, task, histVars>>

WExitCheck(w) ==
    /\ \/ /\ shutdown /\ tasks = <<>>
          /\ Goto(w, "exitcheck", "exited")
          /\ unlock(w)
       \/ /\ ~(shutdown /\ tasks = <<>>)
          /\ Goto(w, "exitcheck", "pop")
          /\ UNCHANGED mutex
    /\ UNCHANGED <<build, tasks, shutdown, activeTasks, waiters, sema, task, histVars>>

\* Mutant: takes the newest task.
PopBack(w) ==
    /\ Goto(w, "pop", "claimed")
    /\ tasks # <<>>
    /\ unlock(w)
    /\ LET n == Len(tasks)
       IN  /\ task' = [task EXCEPT ![w] = tasks[n]]
           /\ tasks' = SubSeq(tasks, 1, n - 1)
           /\ started' = Append(started, tasks[n])
    /\ UNCHANGED <<build, shutdown, activeTasks, waiters, sema, todo, accepted, finished>>

\* front() of an empty queue is undefined; PopFindsTask shows it is not asked.
WPop(w) ==
    /\ Goto(w, "pop", "claimed")
    /\ tasks # <<>>
    /\ unlock(w)
    /\ task' = [task EXCEPT ![w] = Head(tasks)]
    /\ tasks' = Tail(tasks)
    /\ started' = Append(started, Head(tasks))
    /\ UNCHANGED <<build, shutdown, activeTasks, waiters, sema, todo, accepted, finished>>

WInc(w) ==
    /\ Goto(w, "claimed", "running")
    /\ activeTasks' = activeTasks + 1
    /\ UNCHANGED <<build, tasks, shutdown, syncVars, task, histVars>>

\* The task returns, or throws and is caught: the pool goes on alike.
WTask(w) ==
    /\ Goto(w, "running", "ended")
    /\ finished' = finished \cup {task[w]}
    /\ UNCHANGED <<build, tasks, shutdown, activeTasks, syncVars, task, todo, accepted,
                   started>>

\* Mutant: the counter is not restored, as if dec() were inside the try.
NoDecOnThrow(w) ==
    /\ Goto(w, "ended", "lock")
    /\ \E threw \in BOOLEAN :
          activeTasks' = IF threw THEN activeTasks ELSE activeTasks - 1
    /\ task' = [task EXCEPT ![w] = NoTask]
    /\ UNCHANGED <<build, tasks, shutdown, syncVars, histVars>>

\* AtomicU64::dec stops at zero.
WDec(w) ==
    /\ Goto(w, "ended", "lock")
    /\ activeTasks' = IF activeTasks = 0 THEN 0 ELSE activeTasks - 1
    /\ task' = [task EXCEPT ![w] = NoTask]
    /\ UNCHANGED <<build, tasks, shutdown, syncVars, histVars>>

-----------------------------------------------------------------------------
(* submit().                                                               *)

SCall(s) ==
    /\ Goto(s, "s_idle", "s_lock")
    /\ \E t \in todo :
          /\ task' = [task EXCEPT ![s] = t]
          /\ todo' = todo \ {t}
    /\ UNCHANGED <<build, tasks, shutdown, activeTasks, syncVars, accepted, started,
                   finished>>

\* Mutant: tests shutdown_ before taking the mutex, as a fast path would.
SubmitTestsEarly(s) ==
    /\ ~shutdown
    /\ Goto(s, "s_lock", "s_push")
    /\ UNCHANGED <<build, tasks, shutdown, activeTasks, syncVars, task, histVars>>

SLock(s) ==
    /\ Goto(s, "s_lock", "s_check")
    /\ lock(s)
    /\ UNCHANGED <<build, tasks, shutdown, activeTasks, waiters, sema, task, histVars>>

\* Mutant: accepts tasks whatever shutdown_ says.
SubmitIgnoresShutdown(s) ==
    /\ Goto(s, "s_check", "s_push")
    /\ UNCHANGED <<build, tasks, shutdown, activeTasks, syncVars, task, histVars>>

SCheck(s) ==
    /\ \/ /\ shutdown
          /\ Goto(s, "s_check", "s_idle")
          /\ unlock(s)
          /\ task' = [task EXCEPT ![s] = NoTask]
       \/ /\ ~shutdown
          /\ Goto(s, "s_check", "s_push")
          /\ UNCHANGED <<mutex, task>>
    /\ UNCHANGED <<build, tasks, shutdown, activeTasks, waiters, sema, histVars>>

\* Mutant: nobody is told of the new task.
PushWithoutNotify(s) ==
    /\ Goto(s, "s_push", "s_unlock")
    /\ tasks' = Append(tasks, task[s])
    /\ accepted' = Append(accepted, task[s])
    /\ task' = [task EXCEPT ![s] = NoTask]
    /\ UNCHANGED <<build, shutdown, activeTasks, syncVars, todo, started, finished>>

\* Mutant: pushes the closure after moving it away.
PushMovedTask(s) ==
    /\ notify_one(s, "s_push", "s_unlock")
    /\ tasks' = Append(tasks, NoTask)
    /\ accepted' = Append(accepted, NoTask)
    /\ task' = [task EXCEPT ![s] = NoTask]
    /\ UNCHANGED <<build, mutex, shutdown, activeTasks, waiters, todo, started, finished>>

\* tasks_.push, then notify_one under the lock.
SPush(s) ==
    /\ notify_one(s, "s_push", "s_unlock")
    /\ tasks' = Append(tasks, task[s])
    /\ accepted' = Append(accepted, task[s])
    /\ task' = [task EXCEPT ![s] = NoTask]
    /\ UNCHANGED <<build, mutex, shutdown, activeTasks, waiters, todo, started, finished>>

SUnlock(s) ==
    /\ Goto(s, "s_unlock", "s_idle")
    /\ unlock(s)
    /\ UNCHANGED <<build, tasks, shutdown, activeTasks, waiters, sema, task, histVars>>

-----------------------------------------------------------------------------
(* shutdown(), also what ~ThreadPool does.                                 *)

CExchange(c) ==
    /\ Goto(c, "c_start", IF shutdown THEN "c_already" ELSE "c_lock")
    /\ shutdown' = TRUE
    /\ UNCHANGED <<build, tasks, activeTasks, syncVars, task, histVars>>

\* Mutant: notifies without the mutex.
NotifyUnlocked(c) ==
    /\ Goto(c, "c_lock", "c_notify")
    /\ UNCHANGED <<build, tasks, shutdown, activeTasks, syncVars, task, histVars>>

CLock(c) ==
    /\ Goto(c, "c_lock", "c_notify")
    /\ lock(c)
    /\ UNCHANGED <<build, tasks, shutdown, activeTasks, waiters, sema, task, histVars>>

CNotify(c) ==
    /\ notify_all(c, "c_notify", "c_unlock")
    /\ UNCHANGED <<build, mutex, tasks, shutdown, activeTasks, waiters, task, histVars>>

CUnlock(c) ==
    /\ Goto(c, "c_unlock", "c_join")
    /\ unlock(c)
    /\ UNCHANGED <<build, tasks, shutdown, activeTasks, waiters, sema, task, histVars>>

\* The loop of joins ends when the last worker has.
CJoin(c) ==
    /\ \A w \in Workers : pc[w] = "exited"
    /\ Goto(c, "c_join", "c_done")
    /\ UNCHANGED <<build, tasks, shutdown, activeTasks, syncVars, task, histVars>>

-----------------------------------------------------------------------------
WorkerStep(w) ==
    \/ WLock(w) \/ WCheck(w) \/ WWait(w) \/ WTakeToken(w) \/ WSpurious(w)
    \/ WRelock(w) \/ WExitCheck(w) \/ WPop(w) \/ WInc(w) \/ WTask(w) \/ WDec(w)

SubmitterStep(s) == SCall(s) \/ SLock(s) \/ SCheck(s) \/ SPush(s) \/ SUnlock(s)

CloserStep(c) == CExchange(c) \/ CLock(c) \/ CNotify(c) \/ CUnlock(c) \/ CJoin(c)

\* The only state in which nothing is left to do: every call has returned
\* and every worker has left its loop.
Terminated ==
    /\ todo = {}
    /\ \A w \in Workers : pc[w] = "exited"
    /\ \A s \in Submitters : pc[s] = "s_idle"
    /\ \A c \in Closers : pc[c] \in {"c_done", "c_already"}
    /\ UNCHANGED vars

Next ==
    \/ \E w \in Workers : WorkerStep(w)
    \/ \E s \in Submitters : SubmitterStep(s)
    \/ \E c \in Closers : CloserStep(c)
    \/ Terminated

Spec == Init /\ [][Next]_vars

\* A thread that can run is run, and a mutex handed over infinitely often is
\* some time handed to each thread that wants it.  Nobody is obliged to call
\* submit(), and no spurious wakeup ever has to happen.
Fairness ==
    /\ \A w \in Workers :
         /\ SF_vars(WLock(w)) /\ SF_vars(WRelock(w))
         /\ WF_vars(WCheck(w) \/ WWait(w) \/ WTakeToken(w) \/ WExitCheck(w)
                    \/ WPop(w) \/ WInc(w) \/ WTask(w) \/ WDec(w))
    /\ \A s \in Submitters :
         /\ SF_vars(SLock(s))
         /\ WF_vars(SCheck(s) \/ SPush(s) \/ SUnlock(s))
    /\ \A c \in Closers :
         /\ SF_vars(CLock(c))
         /\ WF_vars(CNotify(c) \/ CUnlock(c) \/ CJoin(c))

FairSpec == Spec /\ Fairness

-----------------------------------------------------------------------------
(* Invariants.                                                             *)

TypeOK ==
    /\ build \in {"win32", "posix"}
    /\ mutex \in Threads \cup {NoThread}
    /\ tasks \in Seq(Tasks)
    /\ shutdown \in BOOLEAN
    /\ activeTasks \in Nat
    /\ waiters \in Int
    /\ sema \in Nat
    /\ pc \in [Threads -> WorkerPC \cup SubmitterPC \cup CloserPC]
    /\ \A w \in Workers : pc[w] \in WorkerPC
    /\ \A s \in Submitters : pc[s] \in SubmitterPC
    /\ \A c \in Closers : pc[c] \in CloserPC
    /\ task \in [Workers \cup Submitters -> Tasks \cup {NoTask}]
    /\ todo \in SUBSET Tasks
    /\ accepted \in Seq(Tasks)
    /\ started \in Seq(Tasks)
    /\ finished \in SUBSET Tasks

\* Program points at which a thread holds mutex_.
Inside(t) == pc[t] \in {"check", "wait", "exitcheck", "pop", "s_check", "s_push",
                        "s_unlock", "c_notify", "c_unlock"}

\* The queue hands tasks out in the order submit() took them, none twice and
\* none lost, whatever submit() and shutdown() do between two workers.
FifoExactlyOnce == accepted = started \o tasks

\* tasks_.front() is never called on an empty queue, although shutdown_ can
\* change between the loop's test and the test that follows it.
PopFindsTask == \A w \in Workers : pc[w] = "pop" => tasks # <<>>

\* A shutdown() that waited returns with every worker gone and every accepted
\* task finished; tasks accepted while shutdown_ was being set are included.
DrainedWhenJoined ==
    \A c \in Closers : pc[c] = "c_done" =>
        /\ \A w \in Workers : pc[w] = "exited"
        /\ tasks = <<>>
        /\ finished = {accepted[i] : i \in DOMAIN accepted}

\* activeCount() is exact: one for each worker between its inc() and its
\* dec(), exceptions included.
ActiveExact ==
    activeTasks = Cardinality({w \in Workers : pc[w] \in {"running", "ended"}})

\* waiters_ counts the callers of wait() that do not hold the mutex again.
WaitersExact == waiters = Cardinality(InWait)

\* No worker sleeps while a task nobody is coming for is queued: for each
\* queued task a worker is on its way to the queue or a token is waiting, so a
\* connection never waits behind a busy worker while another one is idle.
WorkConserving ==
    Blocked # {} => Len(tasks) <= Cardinality(Coming) + sema

\* Once notify_all has run, every sleeper is awake or has a token of its own,
\* and no worker goes to sleep again.
ShutdownWakesAll ==
    (\E c \in Closers : pc[c] \in {"c_unlock", "c_join", "c_done"}) =>
        /\ \A w \in Workers : pc[w] # "wait"
        /\ IF build = "win32" THEN sema >= Cardinality(Blocked) ELSE Blocked = {}

-----------------------------------------------------------------------------
(* Liveness.                                                               *)

\* An accepted task is run to its end.
AcceptedRuns ==
    \A t \in Tasks :
        (t \in {accepted[i] : i \in DOMAIN accepted}) ~> (t \in finished)

\* The first shutdown() returns; tasks are finite in this model.
ShutdownReturns == \A c \in Closers : (pc[c] = "c_lock") ~> (pc[c] = "c_done")

-----------------------------------------------------------------------------
(* The pool implements TaskQueue.  A task belongs to todo until submit()   *)
(* has decided about it; the queue closes at the exchange of shutdown_, or *)
(* when the submitter that had already passed its test has pushed.         *)

TQ == INSTANCE TaskQueue WITH
    Slots <- Cardinality(Workers),
    todo <- todo \cup {task[s] : s \in {x \in Submitters : task[x] # NoTask}},
    queue <- tasks,
    running <- {task[w] : w \in {x \in Workers : pc[x] \in {"claimed", "running"}}},
    done <- finished,
    closed <- shutdown /\ \A s \in Submitters : pc[s] \notin {"s_push", "s_unlock"},
    joined <- \E c \in Closers : pc[c] = "c_done"

\* Seen through this mapping every behaviour of the pool is a behaviour of
\* the queue: it is accepted before the close or rejected after it, started
\* in order, and joined when nothing is left.
ImplementsTaskQueue == TQ!Spec
=============================================================================
