-------------------------- MODULE ThreadPoolProofs --------------------------
(***************************************************************************)
(* For any number of workers, submitters, closers and tasks, on both       *)
(* builds: type correctness, FIFO hand-out, no pop from an empty queue, no *)
(* lost wakeup, exact counters, a shutdown() that wakes every worker and   *)
(* returns only when every accepted task has run, and the refinement of    *)
(* TaskQueue.                                                              *)
(***************************************************************************)
EXTENDS ThreadPool, FiniteSetTheorems, TLAPS

-----------------------------------------------------------------------------
(* The strengthening.                                                      *)

\* Between lock() and unlock() a thread owns the mutex.
MutexInv == \A t \in Threads : Inside(t) => mutex = t

\* A closure is in hand wherever the code is about to use it.
HandsInv ==
    /\ \A s \in Submitters : pc[s] \in {"s_lock", "s_check", "s_push"} => task[s] \in Tasks
    /\ \A w \in Workers : pc[w] \in {"claimed", "running", "ended"} => task[w] \in Tasks

\* What a worker knows after the loop's test stays true until it pops: the
\* flag never falls back, and the queue changes only under the mutex.
LoopInv ==
    /\ \A w \in Workers : pc[w] = "exitcheck" => shutdown \/ tasks # <<>>
    /\ PopFindsTask

\* A worker leaves only after the last push.
ExitInv ==
    /\ (\E w \in Workers : pc[w] = "exited") =>
          /\ shutdown
          /\ tasks = <<>>
          /\ \A s \in Submitters : pc[s] # "s_push"
    /\ \A c \in Closers : pc[c] = "c_done" => \A w \in Workers : pc[w] = "exited"

\* What was popped has finished or is in a worker's hands.
StartedInv ==
    \A i \in DOMAIN started :
        \/ started[i] \in finished
        \/ \E w \in Workers : pc[w] \in {"claimed", "running"} /\ task[w] = started[i]

\* Only what was popped can finish.
FinishedInv ==
    /\ \A t \in finished : \E i \in DOMAIN started : started[i] = t
    /\ \A w \in Workers : pc[w] \in {"claimed", "running", "ended"} =>
          \E i \in DOMAIN started : started[i] = task[w]

\* A worker goes to sleep on an empty queue: it holds the mutex since its test.
SleepInv == \A w \in Workers : pc[w] = "wait" => tasks = <<>>

\* The flag is up before a closer takes the mutex.
FlagInv == \A c \in Closers : pc[c] # "c_start" => shutdown

\* Closures in the hands of a submitter, a worker, the queue and the callers
\* to come are different ones.
OnceInv ==
    /\ \A i, j \in DOMAIN accepted : accepted[i] = accepted[j] => i = j
    /\ \A i \in DOMAIN accepted :
          accepted[i] \notin todo /\ \A s \in Submitters : task[s] # accepted[i]
    /\ \A s \in Submitters : task[s] \notin todo
    /\ \A s, r \in Submitters : task[s] = task[r] /\ task[s] # NoTask => s = r
    /\ \A s \in Submitters : pc[s] \in {"s_idle", "s_unlock"} => task[s] = NoTask
    /\ \A v, w \in Workers :
          /\ pc[v] \in {"claimed", "running"} /\ pc[w] \in {"claimed", "running"}
          /\ task[v] = task[w]
          => v = w

\* submit() is over before a worker leaves.
LastPushInv ==
    (\E w \in Workers : pc[w] = "exited") => \A s \in Submitters : pc[s] # "s_unlock"

IInv ==
    /\ TypeOK
    /\ MutexInv
    /\ HandsInv
    /\ LoopInv
    /\ ExitInv
    /\ FifoExactlyOnce
    /\ StartedInv
    /\ FinishedInv
    /\ SleepInv
    /\ FlagInv
    /\ OnceInv
    /\ LastPushInv
    /\ WaitersExact
    /\ ActiveExact
    /\ WorkConserving
    /\ ShutdownWakesAll

-----------------------------------------------------------------------------
(* Facts about sequences and about the notify operations.                  *)

\* Popping and recording the head keeps the concatenation.
LEMMA MoveHead ==
    ASSUME NEW S, NEW s \in Seq(S), NEW q \in Seq(S), q # <<>>
    PROVE  /\ Append(s, Head(q)) \o Tail(q) = s \o q
           /\ Head(q) \in S
           /\ Tail(q) \in Seq(S)
  <1>1. Head(q) \in S /\ Tail(q) \in Seq(S) /\ Len(q) \in Nat \ {0}
    OBVIOUS
  <1>2. Append(s, Head(q)) \o Tail(q) \in Seq(S) /\ s \o q \in Seq(S)
    BY <1>1
  <1>3. Len(Append(s, Head(q)) \o Tail(q)) = Len(s \o q)
    BY <1>1
  <1>4. \A i \in 1 .. Len(s \o q) : (Append(s, Head(q)) \o Tail(q))[i] = (s \o q)[i]
    BY <1>1
  <1> QED
    BY <1>1, <1>2, <1>3, <1>4

\* A notification moves the caller, and sleepers to "relock"; nobody else.
LEMMA NotifyMoves ==
    ASSUME TypeOK, NEW n \in Threads \ Workers, NEW from, NEW to \in SubmitterPC \cup CloserPC,
           notify_one(n, from, to) \/ notify_all(n, from, to)
    PROVE  /\ pc[n] = from
           /\ sema' \in Nat
           /\ pc'[n] = to
           /\ pc' \in [Threads -> WorkerPC \cup SubmitterPC \cup CloserPC]
           /\ \A t \in Threads \ {n} :
                 \/ pc'[t] = pc[t]
                 \/ t \in Workers /\ pc[t] = "blocked" /\ pc'[t] = "relock"
  <1>1. n \notin Blocked /\ Blocked \subseteq Workers /\ Workers \subseteq Threads
    BY DEF Blocked, Threads
  <1>2. \A t \in Blocked : pc[t] = "blocked"
    BY DEF Blocked
  <1>3. pc \in [Threads -> WorkerPC \cup SubmitterPC \cup CloserPC] /\ sema \in Nat /\ waiters \in Int
    BY DEF TypeOK
  <1>4. "relock" \in WorkerPC
    BY DEF WorkerPC
  <1>5. ASSUME Goto(n, from, to)
        PROVE  /\ pc[n] = from
               /\ pc'[n] = to
               /\ pc' \in [Threads -> WorkerPC \cup SubmitterPC \cup CloserPC]
               /\ \A t \in Threads \ {n} : pc'[t] = pc[t]
    BY <1>3, <1>5 DEF Goto
  <1>6. ASSUME NEW W \in SUBSET Blocked, Wake(n, from, to, W)
        PROVE  /\ pc[n] = from
               /\ pc'[n] = to
               /\ pc' \in [Threads -> WorkerPC \cup SubmitterPC \cup CloserPC]
               /\ \A t \in Threads \ {n} :
                     pc'[t] = pc[t] \/ (t \in W /\ pc'[t] = "relock")
    BY <1>1, <1>3, <1>4, <1>6 DEF Wake
  <1>7. sema' \in Nat
    BY <1>3 DEF notify_one, notify_all
  <1>8. Goto(n, from, to) \/ \E W \in SUBSET Blocked : Wake(n, from, to, W)
    BY DEF notify_one, notify_all
  <1> QED
    BY <1>1, <1>2, <1>5, <1>6, <1>7, <1>8

\* Types: only the closures in hand need an argument.
LEMMA TypeStep ==
    ASSUME TypeOK, HandsInv, [Next]_vars
    PROVE  TypeOK'
  <1>1. ASSUME NEW w \in Workers, WLock(w) PROVE TypeOK'
    BY <1>1, ThreadsAssumption DEF WLock, Goto, histVars, syncVars, lock, TypeOK,
       Threads, WorkerPC, SubmitterPC, CloserPC, HandsInv
  <1>2. ASSUME NEW w \in Workers, WCheck(w) PROVE TypeOK'
    BY <1>2, ThreadsAssumption DEF WCheck, Goto, histVars, syncVars, TypeOK, Threads,
       WorkerPC, SubmitterPC, CloserPC, HandsInv
  <1>3. ASSUME NEW w \in Workers, WWait(w) PROVE TypeOK'
    BY <1>3, ThreadsAssumption DEF WWait, Goto, histVars, syncVars, unlock, TypeOK,
       Threads, WorkerPC, SubmitterPC, CloserPC, HandsInv
  <1>4. ASSUME NEW w \in Workers, WTakeToken(w) PROVE TypeOK'
    BY <1>4, ThreadsAssumption DEF WTakeToken, Goto, histVars, syncVars, TypeOK,
       Threads, WorkerPC, SubmitterPC, CloserPC, HandsInv
  <1>5. ASSUME NEW w \in Workers, WSpurious(w) PROVE TypeOK'
    BY <1>5, ThreadsAssumption DEF WSpurious, Goto, histVars, syncVars, TypeOK,
       Threads, WorkerPC, SubmitterPC, CloserPC, HandsInv
  <1>6. ASSUME NEW w \in Workers, WRelock(w) PROVE TypeOK'
    BY <1>6, ThreadsAssumption DEF WRelock, Goto, histVars, syncVars, lock, TypeOK,
       Threads, WorkerPC, SubmitterPC, CloserPC, HandsInv
  <1>7. ASSUME NEW w \in Workers, WExitCheck(w) PROVE TypeOK'
    BY <1>7, ThreadsAssumption DEF WExitCheck, Goto, histVars, syncVars, unlock,
       TypeOK, Threads, WorkerPC, SubmitterPC, CloserPC, HandsInv
  <1>8. ASSUME NEW w \in Workers, WPop(w) PROVE TypeOK'
    BY <1>8, ThreadsAssumption, MoveHead DEF WPop, Goto, histVars, syncVars, unlock,
       TypeOK, Threads, WorkerPC, SubmitterPC, CloserPC, HandsInv
  <1>9. ASSUME NEW w \in Workers, WInc(w) PROVE TypeOK'
    BY <1>9, ThreadsAssumption DEF WInc, Goto, histVars, syncVars, TypeOK, Threads,
       WorkerPC, SubmitterPC, CloserPC, HandsInv
  <1>10. ASSUME NEW w \in Workers, WTask(w) PROVE TypeOK'
    BY <1>10, ThreadsAssumption DEF WTask, Goto, histVars, syncVars, TypeOK, Threads,
       WorkerPC, SubmitterPC, CloserPC, HandsInv
  <1>11. ASSUME NEW w \in Workers, WDec(w) PROVE TypeOK'
    BY <1>11, ThreadsAssumption DEF WDec, Goto, histVars, syncVars, TypeOK, Threads,
       WorkerPC, SubmitterPC, CloserPC, HandsInv
  <1>12. ASSUME NEW s \in Submitters, SCall(s) PROVE TypeOK'
    BY <1>12, ThreadsAssumption DEF SCall, Goto, histVars, syncVars, TypeOK, Threads,
       WorkerPC, SubmitterPC, CloserPC, HandsInv
  <1>13. ASSUME NEW s \in Submitters, SLock(s) PROVE TypeOK'
    BY <1>13, ThreadsAssumption DEF SLock, Goto, histVars, syncVars, lock, TypeOK,
       Threads, WorkerPC, SubmitterPC, CloserPC, HandsInv
  <1>14. ASSUME NEW s \in Submitters, SCheck(s) PROVE TypeOK'
    BY <1>14, ThreadsAssumption DEF SCheck, Goto, histVars, syncVars, unlock, TypeOK,
       Threads, WorkerPC, SubmitterPC, CloserPC, HandsInv
  <1>15. ASSUME NEW s \in Submitters, SPush(s) PROVE TypeOK'
    <2>1. /\ pc[s] = "s_push" /\ pc'[s] = "s_unlock" /\ sema' \in Nat
          /\ pc' \in [Threads -> WorkerPC \cup SubmitterPC \cup CloserPC]
          /\ \A t \in Threads \ {s} :
                \/ pc'[t] = pc[t]
                \/ t \in Workers /\ pc[t] = "blocked" /\ pc'[t] = "relock"
      <3>1. s \in Threads \ Workers /\ "s_unlock" \in SubmitterPC \cup CloserPC
        BY ThreadsAssumption DEF Threads, SubmitterPC, CloserPC
      <3> QED
        BY <1>15, <3>1, NotifyMoves DEF SPush
    <2>2. task[s] \in Tasks
      BY <2>1 DEF HandsInv
    <2>3. /\ tasks' \in Seq(Tasks) /\ accepted' \in Seq(Tasks)
          /\ task' \in [Workers \cup Submitters -> Tasks \cup {NoTask}]
      BY <1>15, <2>2 DEF SPush, TypeOK
    <2>4. /\ \A t \in Workers : pc'[t] \in WorkerPC
          /\ \A t \in Submitters : pc'[t] \in SubmitterPC
          /\ \A t \in Closers : pc'[t] \in CloserPC
      BY <2>1, ThreadsAssumption DEF TypeOK, Threads, WorkerPC, SubmitterPC
    <2> QED
      BY <1>15, <2>1, <2>3, <2>4 DEF SPush, TypeOK
  <1>16. ASSUME NEW s \in Submitters, SUnlock(s) PROVE TypeOK'
    BY <1>16, ThreadsAssumption DEF SUnlock, Goto, histVars, syncVars, unlock, TypeOK,
       Threads, WorkerPC, SubmitterPC, CloserPC, HandsInv
  <1>17. ASSUME NEW c \in Closers, CExchange(c) PROVE TypeOK'
    BY <1>17, ThreadsAssumption DEF CExchange, Goto, histVars, syncVars, TypeOK,
       Threads, WorkerPC, SubmitterPC, CloserPC, HandsInv
  <1>18. ASSUME NEW c \in Closers, CLock(c) PROVE TypeOK'
    BY <1>18, ThreadsAssumption DEF CLock, Goto, histVars, syncVars, lock, TypeOK,
       Threads, WorkerPC, SubmitterPC, CloserPC, HandsInv
  <1>19. ASSUME NEW c \in Closers, CNotify(c) PROVE TypeOK'
    <2>1. /\ pc[c] = "c_notify" /\ pc'[c] = "c_unlock" /\ sema' \in Nat
          /\ pc' \in [Threads -> WorkerPC \cup SubmitterPC \cup CloserPC]
          /\ \A t \in Threads \ {c} :
                \/ pc'[t] = pc[t]
                \/ t \in Workers /\ pc[t] = "blocked" /\ pc'[t] = "relock"
      <3>1. c \in Threads \ Workers /\ "c_unlock" \in SubmitterPC \cup CloserPC
        BY ThreadsAssumption DEF Threads, SubmitterPC, CloserPC
      <3> QED
        BY <1>19, <3>1, NotifyMoves DEF CNotify
    <2> QED
      BY <1>19, ThreadsAssumption, <2>1 DEF CNotify, histVars, syncVars, TypeOK,
         Threads, WorkerPC, SubmitterPC, CloserPC, HandsInv
  <1>20. ASSUME NEW c \in Closers, CUnlock(c) PROVE TypeOK'
    BY <1>20, ThreadsAssumption DEF CUnlock, Goto, histVars, syncVars, unlock, TypeOK,
       Threads, WorkerPC, SubmitterPC, CloserPC, HandsInv
  <1>21. ASSUME NEW c \in Closers, CJoin(c) PROVE TypeOK'
    BY <1>21, ThreadsAssumption DEF CJoin, Goto, histVars, syncVars, TypeOK, Threads,
       WorkerPC, SubmitterPC, CloserPC, HandsInv
  <1>22. CASE UNCHANGED vars
    BY <1>22 DEF vars, TypeOK, Threads, WorkerPC, SubmitterPC, CloserPC, HandsInv
  <1> QED
    BY <1>1, <1>2, <1>3, <1>4, <1>5, <1>6, <1>7, <1>8, <1>9, <1>10, <1>11, <1>12,
       <1>13, <1>14, <1>15, <1>16, <1>17, <1>18, <1>19, <1>20, <1>21, <1>22 DEF Next,
       WorkerStep, SubmitterStep, CloserStep, Terminated

\* Ownership of mutex_: lock() and unlock() are the only changes.
LEMMA MutexStep ==
    ASSUME TypeOK, MutexInv, [Next]_vars
    PROVE  MutexInv'
  <1>1. ASSUME NEW w \in Workers, WLock(w) PROVE MutexInv'
    BY <1>1, ThreadsAssumption DEF WLock, Goto, histVars, syncVars, lock, MutexInv,
       Inside, TypeOK, Threads, WorkerPC, SubmitterPC, CloserPC
  <1>2. ASSUME NEW w \in Workers, WCheck(w) PROVE MutexInv'
    BY <1>2, ThreadsAssumption DEF WCheck, Goto, histVars, syncVars, MutexInv, Inside,
       TypeOK, Threads, WorkerPC, SubmitterPC, CloserPC
  <1>3. ASSUME NEW w \in Workers, WWait(w) PROVE MutexInv'
    BY <1>3, ThreadsAssumption DEF WWait, Goto, histVars, syncVars, unlock, MutexInv,
       Inside, TypeOK, Threads, WorkerPC, SubmitterPC, CloserPC
  <1>4. ASSUME NEW w \in Workers, WTakeToken(w) PROVE MutexInv'
    BY <1>4, ThreadsAssumption DEF WTakeToken, Goto, histVars, syncVars, MutexInv,
       Inside, TypeOK, Threads, WorkerPC, SubmitterPC, CloserPC
  <1>5. ASSUME NEW w \in Workers, WSpurious(w) PROVE MutexInv'
    BY <1>5, ThreadsAssumption DEF WSpurious, Goto, histVars, syncVars, MutexInv,
       Inside, TypeOK, Threads, WorkerPC, SubmitterPC, CloserPC
  <1>6. ASSUME NEW w \in Workers, WRelock(w) PROVE MutexInv'
    BY <1>6, ThreadsAssumption DEF WRelock, Goto, histVars, syncVars, lock, MutexInv,
       Inside, TypeOK, Threads, WorkerPC, SubmitterPC, CloserPC
  <1>7. ASSUME NEW w \in Workers, WExitCheck(w) PROVE MutexInv'
    BY <1>7, ThreadsAssumption DEF WExitCheck, Goto, histVars, syncVars, unlock,
       MutexInv, Inside, TypeOK, Threads, WorkerPC, SubmitterPC, CloserPC
  <1>8. ASSUME NEW w \in Workers, WPop(w) PROVE MutexInv'
    BY <1>8, ThreadsAssumption DEF WPop, Goto, histVars, syncVars, unlock, MutexInv,
       Inside, TypeOK, Threads, WorkerPC, SubmitterPC, CloserPC
  <1>9. ASSUME NEW w \in Workers, WInc(w) PROVE MutexInv'
    BY <1>9, ThreadsAssumption DEF WInc, Goto, histVars, syncVars, MutexInv, Inside,
       TypeOK, Threads, WorkerPC, SubmitterPC, CloserPC
  <1>10. ASSUME NEW w \in Workers, WTask(w) PROVE MutexInv'
    BY <1>10, ThreadsAssumption DEF WTask, Goto, histVars, syncVars, MutexInv, Inside,
       TypeOK, Threads, WorkerPC, SubmitterPC, CloserPC
  <1>11. ASSUME NEW w \in Workers, WDec(w) PROVE MutexInv'
    BY <1>11, ThreadsAssumption DEF WDec, Goto, histVars, syncVars, MutexInv, Inside,
       TypeOK, Threads, WorkerPC, SubmitterPC, CloserPC
  <1>12. ASSUME NEW s \in Submitters, SCall(s) PROVE MutexInv'
    BY <1>12, ThreadsAssumption DEF SCall, Goto, histVars, syncVars, MutexInv, Inside,
       TypeOK, Threads, WorkerPC, SubmitterPC, CloserPC
  <1>13. ASSUME NEW s \in Submitters, SLock(s) PROVE MutexInv'
    BY <1>13, ThreadsAssumption DEF SLock, Goto, histVars, syncVars, lock, MutexInv,
       Inside, TypeOK, Threads, WorkerPC, SubmitterPC, CloserPC
  <1>14. ASSUME NEW s \in Submitters, SCheck(s) PROVE MutexInv'
    BY <1>14, ThreadsAssumption DEF SCheck, Goto, histVars, syncVars, unlock,
       MutexInv, Inside, TypeOK, Threads, WorkerPC, SubmitterPC, CloserPC
  <1>15. ASSUME NEW s \in Submitters, SPush(s) PROVE MutexInv'
    <2>1. /\ pc[s] = "s_push" /\ pc'[s] = "s_unlock" /\ sema' \in Nat
          /\ pc' \in [Threads -> WorkerPC \cup SubmitterPC \cup CloserPC]
          /\ \A t \in Threads \ {s} :
                \/ pc'[t] = pc[t]
                \/ t \in Workers /\ pc[t] = "blocked" /\ pc'[t] = "relock"
      <3>1. s \in Threads \ Workers /\ "s_unlock" \in SubmitterPC \cup CloserPC
        BY ThreadsAssumption DEF Threads, SubmitterPC, CloserPC
      <3> QED
        BY <1>15, <3>1, NotifyMoves DEF SPush
    <2> QED
      BY <1>15, ThreadsAssumption, <2>1 DEF SPush, histVars, syncVars, MutexInv,
         Inside, TypeOK, Threads, WorkerPC, SubmitterPC, CloserPC
  <1>16. ASSUME NEW s \in Submitters, SUnlock(s) PROVE MutexInv'
    BY <1>16, ThreadsAssumption DEF SUnlock, Goto, histVars, syncVars, unlock,
       MutexInv, Inside, TypeOK, Threads, WorkerPC, SubmitterPC, CloserPC
  <1>17. ASSUME NEW c \in Closers, CExchange(c) PROVE MutexInv'
    BY <1>17, ThreadsAssumption DEF CExchange, Goto, histVars, syncVars, MutexInv,
       Inside, TypeOK, Threads, WorkerPC, SubmitterPC, CloserPC
  <1>18. ASSUME NEW c \in Closers, CLock(c) PROVE MutexInv'
    BY <1>18, ThreadsAssumption DEF CLock, Goto, histVars, syncVars, lock, MutexInv,
       Inside, TypeOK, Threads, WorkerPC, SubmitterPC, CloserPC
  <1>19. ASSUME NEW c \in Closers, CNotify(c) PROVE MutexInv'
    <2>1. /\ pc[c] = "c_notify" /\ pc'[c] = "c_unlock" /\ sema' \in Nat
          /\ pc' \in [Threads -> WorkerPC \cup SubmitterPC \cup CloserPC]
          /\ \A t \in Threads \ {c} :
                \/ pc'[t] = pc[t]
                \/ t \in Workers /\ pc[t] = "blocked" /\ pc'[t] = "relock"
      <3>1. c \in Threads \ Workers /\ "c_unlock" \in SubmitterPC \cup CloserPC
        BY ThreadsAssumption DEF Threads, SubmitterPC, CloserPC
      <3> QED
        BY <1>19, <3>1, NotifyMoves DEF CNotify
    <2> QED
      BY <1>19, ThreadsAssumption, <2>1 DEF CNotify, histVars, syncVars, MutexInv,
         Inside, TypeOK, Threads, WorkerPC, SubmitterPC, CloserPC
  <1>20. ASSUME NEW c \in Closers, CUnlock(c) PROVE MutexInv'
    BY <1>20, ThreadsAssumption DEF CUnlock, Goto, histVars, syncVars, unlock,
       MutexInv, Inside, TypeOK, Threads, WorkerPC, SubmitterPC, CloserPC
  <1>21. ASSUME NEW c \in Closers, CJoin(c) PROVE MutexInv'
    BY <1>21, ThreadsAssumption DEF CJoin, Goto, histVars, syncVars, MutexInv, Inside,
       TypeOK, Threads, WorkerPC, SubmitterPC, CloserPC
  <1>22. CASE UNCHANGED vars
    BY <1>22 DEF vars, MutexInv, Inside, TypeOK, Threads, WorkerPC, SubmitterPC,
       CloserPC
  <1> QED
    BY <1>1, <1>2, <1>3, <1>4, <1>5, <1>6, <1>7, <1>8, <1>9, <1>10, <1>11, <1>12,
       <1>13, <1>14, <1>15, <1>16, <1>17, <1>18, <1>19, <1>20, <1>21, <1>22 DEF Next,
       WorkerStep, SubmitterStep, CloserStep, Terminated

\* The closure in hand.
LEMMA HandsStep ==
    ASSUME TypeOK, HandsInv, [Next]_vars
    PROVE  HandsInv'
  <1>1. ASSUME NEW w \in Workers, WLock(w) PROVE HandsInv'
    BY <1>1, ThreadsAssumption DEF WLock, Goto, histVars, syncVars, lock, HandsInv,
       TypeOK, Threads, WorkerPC, SubmitterPC, CloserPC
  <1>2. ASSUME NEW w \in Workers, WCheck(w) PROVE HandsInv'
    BY <1>2, ThreadsAssumption DEF WCheck, Goto, histVars, syncVars, HandsInv, TypeOK,
       Threads, WorkerPC, SubmitterPC, CloserPC
  <1>3. ASSUME NEW w \in Workers, WWait(w) PROVE HandsInv'
    BY <1>3, ThreadsAssumption DEF WWait, Goto, histVars, syncVars, unlock, HandsInv,
       TypeOK, Threads, WorkerPC, SubmitterPC, CloserPC
  <1>4. ASSUME NEW w \in Workers, WTakeToken(w) PROVE HandsInv'
    BY <1>4, ThreadsAssumption DEF WTakeToken, Goto, histVars, syncVars, HandsInv,
       TypeOK, Threads, WorkerPC, SubmitterPC, CloserPC
  <1>5. ASSUME NEW w \in Workers, WSpurious(w) PROVE HandsInv'
    BY <1>5, ThreadsAssumption DEF WSpurious, Goto, histVars, syncVars, HandsInv,
       TypeOK, Threads, WorkerPC, SubmitterPC, CloserPC
  <1>6. ASSUME NEW w \in Workers, WRelock(w) PROVE HandsInv'
    BY <1>6, ThreadsAssumption DEF WRelock, Goto, histVars, syncVars, lock, HandsInv,
       TypeOK, Threads, WorkerPC, SubmitterPC, CloserPC
  <1>7. ASSUME NEW w \in Workers, WExitCheck(w) PROVE HandsInv'
    BY <1>7, ThreadsAssumption DEF WExitCheck, Goto, histVars, syncVars, unlock,
       HandsInv, TypeOK, Threads, WorkerPC, SubmitterPC, CloserPC
  <1>8. ASSUME NEW w \in Workers, WPop(w) PROVE HandsInv'
    BY <1>8, ThreadsAssumption, MoveHead DEF WPop, Goto, histVars, syncVars, unlock,
       HandsInv, TypeOK, Threads, WorkerPC, SubmitterPC, CloserPC
  <1>9. ASSUME NEW w \in Workers, WInc(w) PROVE HandsInv'
    BY <1>9, ThreadsAssumption DEF WInc, Goto, histVars, syncVars, HandsInv, TypeOK,
       Threads, WorkerPC, SubmitterPC, CloserPC
  <1>10. ASSUME NEW w \in Workers, WTask(w) PROVE HandsInv'
    BY <1>10, ThreadsAssumption DEF WTask, Goto, histVars, syncVars, HandsInv, TypeOK,
       Threads, WorkerPC, SubmitterPC, CloserPC
  <1>11. ASSUME NEW w \in Workers, WDec(w) PROVE HandsInv'
    BY <1>11, ThreadsAssumption DEF WDec, Goto, histVars, syncVars, HandsInv, TypeOK,
       Threads, WorkerPC, SubmitterPC, CloserPC
  <1>12. ASSUME NEW s \in Submitters, SCall(s) PROVE HandsInv'
    BY <1>12, ThreadsAssumption DEF SCall, Goto, histVars, syncVars, HandsInv, TypeOK,
       Threads, WorkerPC, SubmitterPC, CloserPC
  <1>13. ASSUME NEW s \in Submitters, SLock(s) PROVE HandsInv'
    BY <1>13, ThreadsAssumption DEF SLock, Goto, histVars, syncVars, lock, HandsInv,
       TypeOK, Threads, WorkerPC, SubmitterPC, CloserPC
  <1>14. ASSUME NEW s \in Submitters, SCheck(s) PROVE HandsInv'
    BY <1>14, ThreadsAssumption DEF SCheck, Goto, histVars, syncVars, unlock,
       HandsInv, TypeOK, Threads, WorkerPC, SubmitterPC, CloserPC
  <1>15. ASSUME NEW s \in Submitters, SPush(s) PROVE HandsInv'
    <2>1. /\ pc[s] = "s_push" /\ pc'[s] = "s_unlock" /\ sema' \in Nat
          /\ pc' \in [Threads -> WorkerPC \cup SubmitterPC \cup CloserPC]
          /\ \A t \in Threads \ {s} :
                \/ pc'[t] = pc[t]
                \/ t \in Workers /\ pc[t] = "blocked" /\ pc'[t] = "relock"
      <3>1. s \in Threads \ Workers /\ "s_unlock" \in SubmitterPC \cup CloserPC
        BY ThreadsAssumption DEF Threads, SubmitterPC, CloserPC
      <3> QED
        BY <1>15, <3>1, NotifyMoves DEF SPush
    <2> QED
      BY <1>15, ThreadsAssumption, <2>1 DEF SPush, histVars, syncVars, HandsInv,
         TypeOK, Threads, WorkerPC, SubmitterPC, CloserPC
  <1>16. ASSUME NEW s \in Submitters, SUnlock(s) PROVE HandsInv'
    BY <1>16, ThreadsAssumption DEF SUnlock, Goto, histVars, syncVars, unlock,
       HandsInv, TypeOK, Threads, WorkerPC, SubmitterPC, CloserPC
  <1>17. ASSUME NEW c \in Closers, CExchange(c) PROVE HandsInv'
    BY <1>17, ThreadsAssumption DEF CExchange, Goto, histVars, syncVars, HandsInv,
       TypeOK, Threads, WorkerPC, SubmitterPC, CloserPC
  <1>18. ASSUME NEW c \in Closers, CLock(c) PROVE HandsInv'
    BY <1>18, ThreadsAssumption DEF CLock, Goto, histVars, syncVars, lock, HandsInv,
       TypeOK, Threads, WorkerPC, SubmitterPC, CloserPC
  <1>19. ASSUME NEW c \in Closers, CNotify(c) PROVE HandsInv'
    <2>1. /\ pc[c] = "c_notify" /\ pc'[c] = "c_unlock" /\ sema' \in Nat
          /\ pc' \in [Threads -> WorkerPC \cup SubmitterPC \cup CloserPC]
          /\ \A t \in Threads \ {c} :
                \/ pc'[t] = pc[t]
                \/ t \in Workers /\ pc[t] = "blocked" /\ pc'[t] = "relock"
      <3>1. c \in Threads \ Workers /\ "c_unlock" \in SubmitterPC \cup CloserPC
        BY ThreadsAssumption DEF Threads, SubmitterPC, CloserPC
      <3> QED
        BY <1>19, <3>1, NotifyMoves DEF CNotify
    <2> QED
      BY <1>19, ThreadsAssumption, <2>1 DEF CNotify, histVars, syncVars, HandsInv,
         TypeOK, Threads, WorkerPC, SubmitterPC, CloserPC
  <1>20. ASSUME NEW c \in Closers, CUnlock(c) PROVE HandsInv'
    BY <1>20, ThreadsAssumption DEF CUnlock, Goto, histVars, syncVars, unlock,
       HandsInv, TypeOK, Threads, WorkerPC, SubmitterPC, CloserPC
  <1>21. ASSUME NEW c \in Closers, CJoin(c) PROVE HandsInv'
    BY <1>21, ThreadsAssumption DEF CJoin, Goto, histVars, syncVars, HandsInv, TypeOK,
       Threads, WorkerPC, SubmitterPC, CloserPC
  <1>22. CASE UNCHANGED vars
    BY <1>22 DEF vars, HandsInv, TypeOK, Threads, WorkerPC, SubmitterPC, CloserPC
  <1> QED
    BY <1>1, <1>2, <1>3, <1>4, <1>5, <1>6, <1>7, <1>8, <1>9, <1>10, <1>11, <1>12,
       <1>13, <1>14, <1>15, <1>16, <1>17, <1>18, <1>19, <1>20, <1>21, <1>22 DEF Next,
       WorkerStep, SubmitterStep, CloserStep, Terminated

\* What the loop's test established.
LEMMA LoopStep ==
    ASSUME TypeOK, MutexInv, HandsInv, LoopInv, [Next]_vars
    PROVE  LoopInv'
  <1>1. ASSUME NEW w \in Workers, WLock(w) PROVE LoopInv'
    BY <1>1, ThreadsAssumption DEF WLock, Goto, histVars, syncVars, lock, LoopInv,
       PopFindsTask, MutexInv, Inside, HandsInv, TypeOK, Threads, WorkerPC,
       SubmitterPC, CloserPC
  <1>2. ASSUME NEW w \in Workers, WCheck(w) PROVE LoopInv'
    BY <1>2, ThreadsAssumption DEF WCheck, Goto, histVars, syncVars, LoopInv,
       PopFindsTask, MutexInv, Inside, HandsInv, TypeOK, Threads, WorkerPC,
       SubmitterPC, CloserPC
  <1>3. ASSUME NEW w \in Workers, WWait(w) PROVE LoopInv'
    BY <1>3, ThreadsAssumption DEF WWait, Goto, histVars, syncVars, unlock, LoopInv,
       PopFindsTask, MutexInv, Inside, HandsInv, TypeOK, Threads, WorkerPC,
       SubmitterPC, CloserPC
  <1>4. ASSUME NEW w \in Workers, WTakeToken(w) PROVE LoopInv'
    BY <1>4, ThreadsAssumption DEF WTakeToken, Goto, histVars, syncVars, LoopInv,
       PopFindsTask, MutexInv, Inside, HandsInv, TypeOK, Threads, WorkerPC,
       SubmitterPC, CloserPC
  <1>5. ASSUME NEW w \in Workers, WSpurious(w) PROVE LoopInv'
    BY <1>5, ThreadsAssumption DEF WSpurious, Goto, histVars, syncVars, LoopInv,
       PopFindsTask, MutexInv, Inside, HandsInv, TypeOK, Threads, WorkerPC,
       SubmitterPC, CloserPC
  <1>6. ASSUME NEW w \in Workers, WRelock(w) PROVE LoopInv'
    BY <1>6, ThreadsAssumption DEF WRelock, Goto, histVars, syncVars, lock, LoopInv,
       PopFindsTask, MutexInv, Inside, HandsInv, TypeOK, Threads, WorkerPC,
       SubmitterPC, CloserPC
  <1>7. ASSUME NEW w \in Workers, WExitCheck(w) PROVE LoopInv'
    BY <1>7, ThreadsAssumption DEF WExitCheck, Goto, histVars, syncVars, unlock,
       LoopInv, PopFindsTask, MutexInv, Inside, HandsInv, TypeOK, Threads, WorkerPC,
       SubmitterPC, CloserPC
  <1>8. ASSUME NEW w \in Workers, WPop(w) PROVE LoopInv'
    BY <1>8, ThreadsAssumption DEF WPop, Goto, histVars, syncVars, unlock, LoopInv,
       PopFindsTask, MutexInv, Inside, HandsInv, TypeOK, Threads, WorkerPC,
       SubmitterPC, CloserPC
  <1>9. ASSUME NEW w \in Workers, WInc(w) PROVE LoopInv'
    BY <1>9, ThreadsAssumption DEF WInc, Goto, histVars, syncVars, LoopInv,
       PopFindsTask, MutexInv, Inside, HandsInv, TypeOK, Threads, WorkerPC,
       SubmitterPC, CloserPC
  <1>10. ASSUME NEW w \in Workers, WTask(w) PROVE LoopInv'
    BY <1>10, ThreadsAssumption DEF WTask, Goto, histVars, syncVars, LoopInv,
       PopFindsTask, MutexInv, Inside, HandsInv, TypeOK, Threads, WorkerPC,
       SubmitterPC, CloserPC
  <1>11. ASSUME NEW w \in Workers, WDec(w) PROVE LoopInv'
    BY <1>11, ThreadsAssumption DEF WDec, Goto, histVars, syncVars, LoopInv,
       PopFindsTask, MutexInv, Inside, HandsInv, TypeOK, Threads, WorkerPC,
       SubmitterPC, CloserPC
  <1>12. ASSUME NEW s \in Submitters, SCall(s) PROVE LoopInv'
    BY <1>12, ThreadsAssumption DEF SCall, Goto, histVars, syncVars, LoopInv,
       PopFindsTask, MutexInv, Inside, HandsInv, TypeOK, Threads, WorkerPC,
       SubmitterPC, CloserPC
  <1>13. ASSUME NEW s \in Submitters, SLock(s) PROVE LoopInv'
    BY <1>13, ThreadsAssumption DEF SLock, Goto, histVars, syncVars, lock, LoopInv,
       PopFindsTask, MutexInv, Inside, HandsInv, TypeOK, Threads, WorkerPC,
       SubmitterPC, CloserPC
  <1>14. ASSUME NEW s \in Submitters, SCheck(s) PROVE LoopInv'
    BY <1>14, ThreadsAssumption DEF SCheck, Goto, histVars, syncVars, unlock, LoopInv,
       PopFindsTask, MutexInv, Inside, HandsInv, TypeOK, Threads, WorkerPC,
       SubmitterPC, CloserPC
  <1>15. ASSUME NEW s \in Submitters, SPush(s) PROVE LoopInv'
    <2>1. /\ pc[s] = "s_push" /\ pc'[s] = "s_unlock" /\ sema' \in Nat
          /\ pc' \in [Threads -> WorkerPC \cup SubmitterPC \cup CloserPC]
          /\ \A t \in Threads \ {s} :
                \/ pc'[t] = pc[t]
                \/ t \in Workers /\ pc[t] = "blocked" /\ pc'[t] = "relock"
      <3>1. s \in Threads \ Workers /\ "s_unlock" \in SubmitterPC \cup CloserPC
        BY ThreadsAssumption DEF Threads, SubmitterPC, CloserPC
      <3> QED
        BY <1>15, <3>1, NotifyMoves DEF SPush
    <2> QED
      BY <1>15, ThreadsAssumption, <2>1 DEF SPush, histVars, syncVars, LoopInv,
         PopFindsTask, MutexInv, Inside, HandsInv, TypeOK, Threads, WorkerPC,
         SubmitterPC, CloserPC
  <1>16. ASSUME NEW s \in Submitters, SUnlock(s) PROVE LoopInv'
    BY <1>16, ThreadsAssumption DEF SUnlock, Goto, histVars, syncVars, unlock,
       LoopInv, PopFindsTask, MutexInv, Inside, HandsInv, TypeOK, Threads, WorkerPC,
       SubmitterPC, CloserPC
  <1>17. ASSUME NEW c \in Closers, CExchange(c) PROVE LoopInv'
    BY <1>17, ThreadsAssumption DEF CExchange, Goto, histVars, syncVars, LoopInv,
       PopFindsTask, MutexInv, Inside, HandsInv, TypeOK, Threads, WorkerPC,
       SubmitterPC, CloserPC
  <1>18. ASSUME NEW c \in Closers, CLock(c) PROVE LoopInv'
    BY <1>18, ThreadsAssumption DEF CLock, Goto, histVars, syncVars, lock, LoopInv,
       PopFindsTask, MutexInv, Inside, HandsInv, TypeOK, Threads, WorkerPC,
       SubmitterPC, CloserPC
  <1>19. ASSUME NEW c \in Closers, CNotify(c) PROVE LoopInv'
    <2>1. /\ pc[c] = "c_notify" /\ pc'[c] = "c_unlock" /\ sema' \in Nat
          /\ pc' \in [Threads -> WorkerPC \cup SubmitterPC \cup CloserPC]
          /\ \A t \in Threads \ {c} :
                \/ pc'[t] = pc[t]
                \/ t \in Workers /\ pc[t] = "blocked" /\ pc'[t] = "relock"
      <3>1. c \in Threads \ Workers /\ "c_unlock" \in SubmitterPC \cup CloserPC
        BY ThreadsAssumption DEF Threads, SubmitterPC, CloserPC
      <3> QED
        BY <1>19, <3>1, NotifyMoves DEF CNotify
    <2> QED
      BY <1>19, ThreadsAssumption, <2>1 DEF CNotify, histVars, syncVars, LoopInv,
         PopFindsTask, MutexInv, Inside, HandsInv, TypeOK, Threads, WorkerPC,
         SubmitterPC, CloserPC
  <1>20. ASSUME NEW c \in Closers, CUnlock(c) PROVE LoopInv'
    BY <1>20, ThreadsAssumption DEF CUnlock, Goto, histVars, syncVars, unlock,
       LoopInv, PopFindsTask, MutexInv, Inside, HandsInv, TypeOK, Threads, WorkerPC,
       SubmitterPC, CloserPC
  <1>21. ASSUME NEW c \in Closers, CJoin(c) PROVE LoopInv'
    BY <1>21, ThreadsAssumption DEF CJoin, Goto, histVars, syncVars, LoopInv,
       PopFindsTask, MutexInv, Inside, HandsInv, TypeOK, Threads, WorkerPC,
       SubmitterPC, CloserPC
  <1>22. CASE UNCHANGED vars
    BY <1>22 DEF vars, LoopInv, PopFindsTask, MutexInv, Inside, HandsInv, TypeOK,
       Threads, WorkerPC, SubmitterPC, CloserPC
  <1> QED
    BY <1>1, <1>2, <1>3, <1>4, <1>5, <1>6, <1>7, <1>8, <1>9, <1>10, <1>11, <1>12,
       <1>13, <1>14, <1>15, <1>16, <1>17, <1>18, <1>19, <1>20, <1>21, <1>22 DEF Next,
       WorkerStep, SubmitterStep, CloserStep, Terminated

\* After the first exit nothing is pushed.
LEMMA ExitStep ==
    ASSUME TypeOK, MutexInv, ExitInv, [Next]_vars
    PROVE  ExitInv'
  <1>1. ASSUME NEW w \in Workers, WLock(w) PROVE ExitInv'
    BY <1>1, ThreadsAssumption DEF WLock, Goto, histVars, syncVars, lock, ExitInv,
       MutexInv, Inside, TypeOK, Threads, WorkerPC, SubmitterPC, CloserPC
  <1>2. ASSUME NEW w \in Workers, WCheck(w) PROVE ExitInv'
    BY <1>2, ThreadsAssumption DEF WCheck, Goto, histVars, syncVars, ExitInv,
       MutexInv, Inside, TypeOK, Threads, WorkerPC, SubmitterPC, CloserPC
  <1>3. ASSUME NEW w \in Workers, WWait(w) PROVE ExitInv'
    BY <1>3, ThreadsAssumption DEF WWait, Goto, histVars, syncVars, unlock, ExitInv,
       MutexInv, Inside, TypeOK, Threads, WorkerPC, SubmitterPC, CloserPC
  <1>4. ASSUME NEW w \in Workers, WTakeToken(w) PROVE ExitInv'
    BY <1>4, ThreadsAssumption DEF WTakeToken, Goto, histVars, syncVars, ExitInv,
       MutexInv, Inside, TypeOK, Threads, WorkerPC, SubmitterPC, CloserPC
  <1>5. ASSUME NEW w \in Workers, WSpurious(w) PROVE ExitInv'
    BY <1>5, ThreadsAssumption DEF WSpurious, Goto, histVars, syncVars, ExitInv,
       MutexInv, Inside, TypeOK, Threads, WorkerPC, SubmitterPC, CloserPC
  <1>6. ASSUME NEW w \in Workers, WRelock(w) PROVE ExitInv'
    BY <1>6, ThreadsAssumption DEF WRelock, Goto, histVars, syncVars, lock, ExitInv,
       MutexInv, Inside, TypeOK, Threads, WorkerPC, SubmitterPC, CloserPC
  <1>7. ASSUME NEW w \in Workers, WExitCheck(w) PROVE ExitInv'
    BY <1>7, ThreadsAssumption DEF WExitCheck, Goto, histVars, syncVars, unlock,
       ExitInv, MutexInv, Inside, TypeOK, Threads, WorkerPC, SubmitterPC, CloserPC
  <1>8. ASSUME NEW w \in Workers, WPop(w) PROVE ExitInv'
    BY <1>8, ThreadsAssumption DEF WPop, Goto, histVars, syncVars, unlock, ExitInv,
       MutexInv, Inside, TypeOK, Threads, WorkerPC, SubmitterPC, CloserPC
  <1>9. ASSUME NEW w \in Workers, WInc(w) PROVE ExitInv'
    BY <1>9, ThreadsAssumption DEF WInc, Goto, histVars, syncVars, ExitInv, MutexInv,
       Inside, TypeOK, Threads, WorkerPC, SubmitterPC, CloserPC
  <1>10. ASSUME NEW w \in Workers, WTask(w) PROVE ExitInv'
    BY <1>10, ThreadsAssumption DEF WTask, Goto, histVars, syncVars, ExitInv,
       MutexInv, Inside, TypeOK, Threads, WorkerPC, SubmitterPC, CloserPC
  <1>11. ASSUME NEW w \in Workers, WDec(w) PROVE ExitInv'
    BY <1>11, ThreadsAssumption DEF WDec, Goto, histVars, syncVars, ExitInv, MutexInv,
       Inside, TypeOK, Threads, WorkerPC, SubmitterPC, CloserPC
  <1>12. ASSUME NEW s \in Submitters, SCall(s) PROVE ExitInv'
    BY <1>12, ThreadsAssumption DEF SCall, Goto, histVars, syncVars, ExitInv,
       MutexInv, Inside, TypeOK, Threads, WorkerPC, SubmitterPC, CloserPC
  <1>13. ASSUME NEW s \in Submitters, SLock(s) PROVE ExitInv'
    BY <1>13, ThreadsAssumption DEF SLock, Goto, histVars, syncVars, lock, ExitInv,
       MutexInv, Inside, TypeOK, Threads, WorkerPC, SubmitterPC, CloserPC
  <1>14. ASSUME NEW s \in Submitters, SCheck(s) PROVE ExitInv'
    BY <1>14, ThreadsAssumption DEF SCheck, Goto, histVars, syncVars, unlock, ExitInv,
       MutexInv, Inside, TypeOK, Threads, WorkerPC, SubmitterPC, CloserPC
  <1>15. ASSUME NEW s \in Submitters, SPush(s) PROVE ExitInv'
    <2>1. /\ pc[s] = "s_push" /\ pc'[s] = "s_unlock" /\ sema' \in Nat
          /\ pc' \in [Threads -> WorkerPC \cup SubmitterPC \cup CloserPC]
          /\ \A t \in Threads \ {s} :
                \/ pc'[t] = pc[t]
                \/ t \in Workers /\ pc[t] = "blocked" /\ pc'[t] = "relock"
      <3>1. s \in Threads \ Workers /\ "s_unlock" \in SubmitterPC \cup CloserPC
        BY ThreadsAssumption DEF Threads, SubmitterPC, CloserPC
      <3> QED
        BY <1>15, <3>1, NotifyMoves DEF SPush
    <2> QED
      BY <1>15, ThreadsAssumption, <2>1 DEF SPush, histVars, syncVars, ExitInv,
         MutexInv, Inside, TypeOK, Threads, WorkerPC, SubmitterPC, CloserPC
  <1>16. ASSUME NEW s \in Submitters, SUnlock(s) PROVE ExitInv'
    BY <1>16, ThreadsAssumption DEF SUnlock, Goto, histVars, syncVars, unlock,
       ExitInv, MutexInv, Inside, TypeOK, Threads, WorkerPC, SubmitterPC, CloserPC
  <1>17. ASSUME NEW c \in Closers, CExchange(c) PROVE ExitInv'
    BY <1>17, ThreadsAssumption DEF CExchange, Goto, histVars, syncVars, ExitInv,
       MutexInv, Inside, TypeOK, Threads, WorkerPC, SubmitterPC, CloserPC
  <1>18. ASSUME NEW c \in Closers, CLock(c) PROVE ExitInv'
    BY <1>18, ThreadsAssumption DEF CLock, Goto, histVars, syncVars, lock, ExitInv,
       MutexInv, Inside, TypeOK, Threads, WorkerPC, SubmitterPC, CloserPC
  <1>19. ASSUME NEW c \in Closers, CNotify(c) PROVE ExitInv'
    <2>1. /\ pc[c] = "c_notify" /\ pc'[c] = "c_unlock" /\ sema' \in Nat
          /\ pc' \in [Threads -> WorkerPC \cup SubmitterPC \cup CloserPC]
          /\ \A t \in Threads \ {c} :
                \/ pc'[t] = pc[t]
                \/ t \in Workers /\ pc[t] = "blocked" /\ pc'[t] = "relock"
      <3>1. c \in Threads \ Workers /\ "c_unlock" \in SubmitterPC \cup CloserPC
        BY ThreadsAssumption DEF Threads, SubmitterPC, CloserPC
      <3> QED
        BY <1>19, <3>1, NotifyMoves DEF CNotify
    <2> QED
      BY <1>19, ThreadsAssumption, <2>1 DEF CNotify, histVars, syncVars, ExitInv,
         MutexInv, Inside, TypeOK, Threads, WorkerPC, SubmitterPC, CloserPC
  <1>20. ASSUME NEW c \in Closers, CUnlock(c) PROVE ExitInv'
    BY <1>20, ThreadsAssumption DEF CUnlock, Goto, histVars, syncVars, unlock,
       ExitInv, MutexInv, Inside, TypeOK, Threads, WorkerPC, SubmitterPC, CloserPC
  <1>21. ASSUME NEW c \in Closers, CJoin(c) PROVE ExitInv'
    BY <1>21, ThreadsAssumption DEF CJoin, Goto, histVars, syncVars, ExitInv,
       MutexInv, Inside, TypeOK, Threads, WorkerPC, SubmitterPC, CloserPC
  <1>22. CASE UNCHANGED vars
    BY <1>22 DEF vars, ExitInv, MutexInv, Inside, TypeOK, Threads, WorkerPC,
       SubmitterPC, CloserPC
  <1> QED
    BY <1>1, <1>2, <1>3, <1>4, <1>5, <1>6, <1>7, <1>8, <1>9, <1>10, <1>11, <1>12,
       <1>13, <1>14, <1>15, <1>16, <1>17, <1>18, <1>19, <1>20, <1>21, <1>22 DEF Next,
       WorkerStep, SubmitterStep, CloserStep, Terminated

\* The order of the queue.
LEMMA FifoStep ==
    ASSUME TypeOK, HandsInv, LoopInv, FifoExactlyOnce, [Next]_vars
    PROVE  FifoExactlyOnce'
  <1>1. ASSUME NEW w \in Workers, WLock(w) PROVE FifoExactlyOnce'
    BY <1>1, ThreadsAssumption DEF WLock, Goto, histVars, syncVars, lock,
       FifoExactlyOnce, HandsInv, TypeOK
  <1>2. ASSUME NEW w \in Workers, WCheck(w) PROVE FifoExactlyOnce'
    BY <1>2, ThreadsAssumption DEF WCheck, Goto, histVars, syncVars, FifoExactlyOnce,
       HandsInv, TypeOK
  <1>3. ASSUME NEW w \in Workers, WWait(w) PROVE FifoExactlyOnce'
    BY <1>3, ThreadsAssumption DEF WWait, Goto, histVars, syncVars, unlock,
       FifoExactlyOnce, HandsInv, TypeOK
  <1>4. ASSUME NEW w \in Workers, WTakeToken(w) PROVE FifoExactlyOnce'
    BY <1>4, ThreadsAssumption DEF WTakeToken, Goto, histVars, syncVars,
       FifoExactlyOnce, HandsInv, TypeOK
  <1>5. ASSUME NEW w \in Workers, WSpurious(w) PROVE FifoExactlyOnce'
    BY <1>5, ThreadsAssumption DEF WSpurious, Goto, histVars, syncVars,
       FifoExactlyOnce, HandsInv, TypeOK
  <1>6. ASSUME NEW w \in Workers, WRelock(w) PROVE FifoExactlyOnce'
    BY <1>6, ThreadsAssumption DEF WRelock, Goto, histVars, syncVars, lock,
       FifoExactlyOnce, HandsInv, TypeOK
  <1>7. ASSUME NEW w \in Workers, WExitCheck(w) PROVE FifoExactlyOnce'
    BY <1>7, ThreadsAssumption DEF WExitCheck, Goto, histVars, syncVars, unlock,
       FifoExactlyOnce, HandsInv, TypeOK
  <1>8. ASSUME NEW w \in Workers, WPop(w) PROVE FifoExactlyOnce'
    BY <1>8, ThreadsAssumption, MoveHead DEF WPop, Goto, histVars, syncVars, unlock,
       FifoExactlyOnce, HandsInv, TypeOK
  <1>9. ASSUME NEW w \in Workers, WInc(w) PROVE FifoExactlyOnce'
    BY <1>9, ThreadsAssumption DEF WInc, Goto, histVars, syncVars, FifoExactlyOnce,
       HandsInv, TypeOK
  <1>10. ASSUME NEW w \in Workers, WTask(w) PROVE FifoExactlyOnce'
    BY <1>10, ThreadsAssumption DEF WTask, Goto, histVars, syncVars, FifoExactlyOnce,
       HandsInv, TypeOK
  <1>11. ASSUME NEW w \in Workers, WDec(w) PROVE FifoExactlyOnce'
    BY <1>11, ThreadsAssumption DEF WDec, Goto, histVars, syncVars, FifoExactlyOnce,
       HandsInv, TypeOK
  <1>12. ASSUME NEW s \in Submitters, SCall(s) PROVE FifoExactlyOnce'
    BY <1>12, ThreadsAssumption DEF SCall, Goto, histVars, syncVars, FifoExactlyOnce,
       HandsInv, TypeOK
  <1>13. ASSUME NEW s \in Submitters, SLock(s) PROVE FifoExactlyOnce'
    BY <1>13, ThreadsAssumption DEF SLock, Goto, histVars, syncVars, lock,
       FifoExactlyOnce, HandsInv, TypeOK
  <1>14. ASSUME NEW s \in Submitters, SCheck(s) PROVE FifoExactlyOnce'
    BY <1>14, ThreadsAssumption DEF SCheck, Goto, histVars, syncVars, unlock,
       FifoExactlyOnce, HandsInv, TypeOK
  <1>15. ASSUME NEW s \in Submitters, SPush(s) PROVE FifoExactlyOnce'
    <2>1. /\ pc[s] = "s_push" /\ pc'[s] = "s_unlock" /\ sema' \in Nat
          /\ pc' \in [Threads -> WorkerPC \cup SubmitterPC \cup CloserPC]
          /\ \A t \in Threads \ {s} :
                \/ pc'[t] = pc[t]
                \/ t \in Workers /\ pc[t] = "blocked" /\ pc'[t] = "relock"
      <3>1. s \in Threads \ Workers /\ "s_unlock" \in SubmitterPC \cup CloserPC
        BY ThreadsAssumption DEF Threads, SubmitterPC, CloserPC
      <3> QED
        BY <1>15, <3>1, NotifyMoves DEF SPush
    <2>2. task[s] \in Tasks
      BY <2>1 DEF HandsInv
    <2>3. started \in Seq(Tasks) /\ tasks \in Seq(Tasks)
      BY DEF TypeOK
    <2>4. Append(started \o tasks, task[s]) = started \o Append(tasks, task[s])
      <3>1. \A x \in Tasks : Append(started \o tasks, x) = started \o Append(tasks, x)
        BY <2>3
      <3> QED
        BY <2>2, <3>1, Zenon
    <2> QED
      BY <1>15, <2>4 DEF SPush, FifoExactlyOnce
  <1>16. ASSUME NEW s \in Submitters, SUnlock(s) PROVE FifoExactlyOnce'
    BY <1>16, ThreadsAssumption DEF SUnlock, Goto, histVars, syncVars, unlock,
       FifoExactlyOnce, HandsInv, TypeOK
  <1>17. ASSUME NEW c \in Closers, CExchange(c) PROVE FifoExactlyOnce'
    BY <1>17, ThreadsAssumption DEF CExchange, Goto, histVars, syncVars,
       FifoExactlyOnce, HandsInv, TypeOK
  <1>18. ASSUME NEW c \in Closers, CLock(c) PROVE FifoExactlyOnce'
    BY <1>18, ThreadsAssumption DEF CLock, Goto, histVars, syncVars, lock,
       FifoExactlyOnce, HandsInv, TypeOK
  <1>19. ASSUME NEW c \in Closers, CNotify(c) PROVE FifoExactlyOnce'
    <2>1. /\ pc[c] = "c_notify" /\ pc'[c] = "c_unlock" /\ sema' \in Nat
          /\ pc' \in [Threads -> WorkerPC \cup SubmitterPC \cup CloserPC]
          /\ \A t \in Threads \ {c} :
                \/ pc'[t] = pc[t]
                \/ t \in Workers /\ pc[t] = "blocked" /\ pc'[t] = "relock"
      <3>1. c \in Threads \ Workers /\ "c_unlock" \in SubmitterPC \cup CloserPC
        BY ThreadsAssumption DEF Threads, SubmitterPC, CloserPC
      <3> QED
        BY <1>19, <3>1, NotifyMoves DEF CNotify
    <2> QED
      BY <1>19, ThreadsAssumption, <2>1 DEF CNotify, histVars, syncVars,
         FifoExactlyOnce, HandsInv, TypeOK
  <1>20. ASSUME NEW c \in Closers, CUnlock(c) PROVE FifoExactlyOnce'
    BY <1>20, ThreadsAssumption DEF CUnlock, Goto, histVars, syncVars, unlock,
       FifoExactlyOnce, HandsInv, TypeOK
  <1>21. ASSUME NEW c \in Closers, CJoin(c) PROVE FifoExactlyOnce'
    BY <1>21, ThreadsAssumption DEF CJoin, Goto, histVars, syncVars, FifoExactlyOnce,
       HandsInv, TypeOK
  <1>22. CASE UNCHANGED vars
    BY <1>22 DEF vars, FifoExactlyOnce, HandsInv, TypeOK
  <1> QED
    BY <1>1, <1>2, <1>3, <1>4, <1>5, <1>6, <1>7, <1>8, <1>9, <1>10, <1>11, <1>12,
       <1>13, <1>14, <1>15, <1>16, <1>17, <1>18, <1>19, <1>20, <1>21, <1>22 DEF Next,
       WorkerStep, SubmitterStep, CloserStep, Terminated

\* Popped: finished or in hand.
LEMMA StartedStep ==
    ASSUME TypeOK, HandsInv, StartedInv, [Next]_vars
    PROVE  StartedInv'
  <1>1. ASSUME NEW w \in Workers, WLock(w) PROVE StartedInv'
    BY <1>1, ThreadsAssumption DEF WLock, Goto, histVars, syncVars, lock, StartedInv,
       HandsInv, TypeOK, Threads, WorkerPC, SubmitterPC, CloserPC
  <1>2. ASSUME NEW w \in Workers, WCheck(w) PROVE StartedInv'
    BY <1>2, ThreadsAssumption DEF WCheck, Goto, histVars, syncVars, StartedInv,
       HandsInv, TypeOK, Threads, WorkerPC, SubmitterPC, CloserPC
  <1>3. ASSUME NEW w \in Workers, WWait(w) PROVE StartedInv'
    BY <1>3, ThreadsAssumption DEF WWait, Goto, histVars, syncVars, unlock,
       StartedInv, HandsInv, TypeOK, Threads, WorkerPC, SubmitterPC, CloserPC
  <1>4. ASSUME NEW w \in Workers, WTakeToken(w) PROVE StartedInv'
    BY <1>4, ThreadsAssumption DEF WTakeToken, Goto, histVars, syncVars, StartedInv,
       HandsInv, TypeOK, Threads, WorkerPC, SubmitterPC, CloserPC
  <1>5. ASSUME NEW w \in Workers, WSpurious(w) PROVE StartedInv'
    BY <1>5, ThreadsAssumption DEF WSpurious, Goto, histVars, syncVars, StartedInv,
       HandsInv, TypeOK, Threads, WorkerPC, SubmitterPC, CloserPC
  <1>6. ASSUME NEW w \in Workers, WRelock(w) PROVE StartedInv'
    BY <1>6, ThreadsAssumption DEF WRelock, Goto, histVars, syncVars, lock,
       StartedInv, HandsInv, TypeOK, Threads, WorkerPC, SubmitterPC, CloserPC
  <1>7. ASSUME NEW w \in Workers, WExitCheck(w) PROVE StartedInv'
    BY <1>7, ThreadsAssumption DEF WExitCheck, Goto, histVars, syncVars, unlock,
       StartedInv, HandsInv, TypeOK, Threads, WorkerPC, SubmitterPC, CloserPC
  <1>8. ASSUME NEW w \in Workers, WPop(w) PROVE StartedInv'
    <2>1. /\ started \in Seq(Tasks) /\ Head(tasks) \in Tasks
          /\ started' = Append(started, Head(tasks)) /\ finished' = finished
      BY <1>8, MoveHead DEF WPop, TypeOK
    <2>2. /\ pc'[w] = "claimed" /\ task'[w] = Head(tasks) /\ pc[w] = "pop"
          /\ \A x \in Workers \ {w} : pc'[x] = pc[x] /\ task'[x] = task[x]
      BY <1>8 DEF WPop, Goto, TypeOK, Threads
    <2>3. \A i \in DOMAIN started' :
              \/ i \in DOMAIN started /\ started'[i] = started[i]
              \/ started'[i] = Head(tasks)
      BY <2>1
    <2> QED
      BY <2>1, <2>2, <2>3 DEF StartedInv
  <1>9. ASSUME NEW w \in Workers, WInc(w) PROVE StartedInv'
    BY <1>9, ThreadsAssumption DEF WInc, Goto, histVars, syncVars, StartedInv,
       HandsInv, TypeOK, Threads, WorkerPC, SubmitterPC, CloserPC
  <1>10. ASSUME NEW w \in Workers, WTask(w) PROVE StartedInv'
    BY <1>10, ThreadsAssumption DEF WTask, Goto, histVars, syncVars, StartedInv,
       HandsInv, TypeOK, Threads, WorkerPC, SubmitterPC, CloserPC
  <1>11. ASSUME NEW w \in Workers, WDec(w) PROVE StartedInv'
    BY <1>11, ThreadsAssumption DEF WDec, Goto, histVars, syncVars, StartedInv,
       HandsInv, TypeOK, Threads, WorkerPC, SubmitterPC, CloserPC
  <1>12. ASSUME NEW s \in Submitters, SCall(s) PROVE StartedInv'
    BY <1>12, ThreadsAssumption DEF SCall, Goto, histVars, syncVars, StartedInv,
       HandsInv, TypeOK, Threads, WorkerPC, SubmitterPC, CloserPC
  <1>13. ASSUME NEW s \in Submitters, SLock(s) PROVE StartedInv'
    BY <1>13, ThreadsAssumption DEF SLock, Goto, histVars, syncVars, lock, StartedInv,
       HandsInv, TypeOK, Threads, WorkerPC, SubmitterPC, CloserPC
  <1>14. ASSUME NEW s \in Submitters, SCheck(s) PROVE StartedInv'
    BY <1>14, ThreadsAssumption DEF SCheck, Goto, histVars, syncVars, unlock,
       StartedInv, HandsInv, TypeOK, Threads, WorkerPC, SubmitterPC, CloserPC
  <1>15. ASSUME NEW s \in Submitters, SPush(s) PROVE StartedInv'
    <2>1. /\ pc[s] = "s_push" /\ pc'[s] = "s_unlock" /\ sema' \in Nat
          /\ pc' \in [Threads -> WorkerPC \cup SubmitterPC \cup CloserPC]
          /\ \A t \in Threads \ {s} :
                \/ pc'[t] = pc[t]
                \/ t \in Workers /\ pc[t] = "blocked" /\ pc'[t] = "relock"
      <3>1. s \in Threads \ Workers /\ "s_unlock" \in SubmitterPC \cup CloserPC
        BY ThreadsAssumption DEF Threads, SubmitterPC, CloserPC
      <3> QED
        BY <1>15, <3>1, NotifyMoves DEF SPush
    <2> QED
      BY <1>15, ThreadsAssumption, <2>1 DEF SPush, histVars, syncVars, StartedInv,
         HandsInv, TypeOK, Threads, WorkerPC, SubmitterPC, CloserPC
  <1>16. ASSUME NEW s \in Submitters, SUnlock(s) PROVE StartedInv'
    BY <1>16, ThreadsAssumption DEF SUnlock, Goto, histVars, syncVars, unlock,
       StartedInv, HandsInv, TypeOK, Threads, WorkerPC, SubmitterPC, CloserPC
  <1>17. ASSUME NEW c \in Closers, CExchange(c) PROVE StartedInv'
    BY <1>17, ThreadsAssumption DEF CExchange, Goto, histVars, syncVars, StartedInv,
       HandsInv, TypeOK, Threads, WorkerPC, SubmitterPC, CloserPC
  <1>18. ASSUME NEW c \in Closers, CLock(c) PROVE StartedInv'
    BY <1>18, ThreadsAssumption DEF CLock, Goto, histVars, syncVars, lock, StartedInv,
       HandsInv, TypeOK, Threads, WorkerPC, SubmitterPC, CloserPC
  <1>19. ASSUME NEW c \in Closers, CNotify(c) PROVE StartedInv'
    <2>1. /\ pc[c] = "c_notify" /\ pc'[c] = "c_unlock" /\ sema' \in Nat
          /\ pc' \in [Threads -> WorkerPC \cup SubmitterPC \cup CloserPC]
          /\ \A t \in Threads \ {c} :
                \/ pc'[t] = pc[t]
                \/ t \in Workers /\ pc[t] = "blocked" /\ pc'[t] = "relock"
      <3>1. c \in Threads \ Workers /\ "c_unlock" \in SubmitterPC \cup CloserPC
        BY ThreadsAssumption DEF Threads, SubmitterPC, CloserPC
      <3> QED
        BY <1>19, <3>1, NotifyMoves DEF CNotify
    <2> QED
      BY <1>19, ThreadsAssumption, <2>1 DEF CNotify, histVars, syncVars, StartedInv,
         HandsInv, TypeOK, Threads, WorkerPC, SubmitterPC, CloserPC
  <1>20. ASSUME NEW c \in Closers, CUnlock(c) PROVE StartedInv'
    BY <1>20, ThreadsAssumption DEF CUnlock, Goto, histVars, syncVars, unlock,
       StartedInv, HandsInv, TypeOK, Threads, WorkerPC, SubmitterPC, CloserPC
  <1>21. ASSUME NEW c \in Closers, CJoin(c) PROVE StartedInv'
    BY <1>21, ThreadsAssumption DEF CJoin, Goto, histVars, syncVars, StartedInv,
       HandsInv, TypeOK, Threads, WorkerPC, SubmitterPC, CloserPC
  <1>22. CASE UNCHANGED vars
    BY <1>22 DEF vars, StartedInv, HandsInv, TypeOK, Threads, WorkerPC, SubmitterPC,
       CloserPC
  <1> QED
    BY <1>1, <1>2, <1>3, <1>4, <1>5, <1>6, <1>7, <1>8, <1>9, <1>10, <1>11, <1>12,
       <1>13, <1>14, <1>15, <1>16, <1>17, <1>18, <1>19, <1>20, <1>21, <1>22 DEF Next,
       WorkerStep, SubmitterStep, CloserStep, Terminated

\* Finished: popped before.
LEMMA FinishedStep ==
    ASSUME TypeOK, HandsInv, FinishedInv, [Next]_vars
    PROVE  FinishedInv'
  <1>1. ASSUME NEW w \in Workers, WLock(w) PROVE FinishedInv'
    BY <1>1, ThreadsAssumption DEF WLock, Goto, histVars, syncVars, lock, FinishedInv,
       HandsInv, TypeOK, Threads, WorkerPC, SubmitterPC, CloserPC
  <1>2. ASSUME NEW w \in Workers, WCheck(w) PROVE FinishedInv'
    BY <1>2, ThreadsAssumption DEF WCheck, Goto, histVars, syncVars, FinishedInv,
       HandsInv, TypeOK, Threads, WorkerPC, SubmitterPC, CloserPC
  <1>3. ASSUME NEW w \in Workers, WWait(w) PROVE FinishedInv'
    BY <1>3, ThreadsAssumption DEF WWait, Goto, histVars, syncVars, unlock,
       FinishedInv, HandsInv, TypeOK, Threads, WorkerPC, SubmitterPC, CloserPC
  <1>4. ASSUME NEW w \in Workers, WTakeToken(w) PROVE FinishedInv'
    BY <1>4, ThreadsAssumption DEF WTakeToken, Goto, histVars, syncVars, FinishedInv,
       HandsInv, TypeOK, Threads, WorkerPC, SubmitterPC, CloserPC
  <1>5. ASSUME NEW w \in Workers, WSpurious(w) PROVE FinishedInv'
    BY <1>5, ThreadsAssumption DEF WSpurious, Goto, histVars, syncVars, FinishedInv,
       HandsInv, TypeOK, Threads, WorkerPC, SubmitterPC, CloserPC
  <1>6. ASSUME NEW w \in Workers, WRelock(w) PROVE FinishedInv'
    BY <1>6, ThreadsAssumption DEF WRelock, Goto, histVars, syncVars, lock,
       FinishedInv, HandsInv, TypeOK, Threads, WorkerPC, SubmitterPC, CloserPC
  <1>7. ASSUME NEW w \in Workers, WExitCheck(w) PROVE FinishedInv'
    BY <1>7, ThreadsAssumption DEF WExitCheck, Goto, histVars, syncVars, unlock,
       FinishedInv, HandsInv, TypeOK, Threads, WorkerPC, SubmitterPC, CloserPC
  <1>8. ASSUME NEW w \in Workers, WPop(w) PROVE FinishedInv'
    <2>1. /\ started \in Seq(Tasks) /\ Head(tasks) \in Tasks
          /\ started' = Append(started, Head(tasks)) /\ finished' = finished
      BY <1>8, MoveHead DEF WPop, TypeOK
    <2>2. /\ pc'[w] = "claimed" /\ task'[w] = Head(tasks)
          /\ \A x \in Workers \ {w} : pc'[x] = pc[x] /\ task'[x] = task[x]
      BY <1>8 DEF WPop, Goto, TypeOK, Threads
    <2>3. /\ \A i \in DOMAIN started : i \in DOMAIN started' /\ started'[i] = started[i]
          /\ \E i \in DOMAIN started' : started'[i] = Head(tasks)
      BY <2>1
    <2> QED
      BY <2>1, <2>2, <2>3 DEF FinishedInv
  <1>9. ASSUME NEW w \in Workers, WInc(w) PROVE FinishedInv'
    BY <1>9, ThreadsAssumption DEF WInc, Goto, histVars, syncVars, FinishedInv,
       HandsInv, TypeOK, Threads, WorkerPC, SubmitterPC, CloserPC
  <1>10. ASSUME NEW w \in Workers, WTask(w) PROVE FinishedInv'
    BY <1>10, ThreadsAssumption DEF WTask, Goto, histVars, syncVars, FinishedInv,
       HandsInv, TypeOK, Threads, WorkerPC, SubmitterPC, CloserPC
  <1>11. ASSUME NEW w \in Workers, WDec(w) PROVE FinishedInv'
    BY <1>11, ThreadsAssumption DEF WDec, Goto, histVars, syncVars, FinishedInv,
       HandsInv, TypeOK, Threads, WorkerPC, SubmitterPC, CloserPC
  <1>12. ASSUME NEW s \in Submitters, SCall(s) PROVE FinishedInv'
    BY <1>12, ThreadsAssumption DEF SCall, Goto, histVars, syncVars, FinishedInv,
       HandsInv, TypeOK, Threads, WorkerPC, SubmitterPC, CloserPC
  <1>13. ASSUME NEW s \in Submitters, SLock(s) PROVE FinishedInv'
    BY <1>13, ThreadsAssumption DEF SLock, Goto, histVars, syncVars, lock,
       FinishedInv, HandsInv, TypeOK, Threads, WorkerPC, SubmitterPC, CloserPC
  <1>14. ASSUME NEW s \in Submitters, SCheck(s) PROVE FinishedInv'
    BY <1>14, ThreadsAssumption DEF SCheck, Goto, histVars, syncVars, unlock,
       FinishedInv, HandsInv, TypeOK, Threads, WorkerPC, SubmitterPC, CloserPC
  <1>15. ASSUME NEW s \in Submitters, SPush(s) PROVE FinishedInv'
    <2>1. /\ pc[s] = "s_push" /\ pc'[s] = "s_unlock" /\ sema' \in Nat
          /\ pc' \in [Threads -> WorkerPC \cup SubmitterPC \cup CloserPC]
          /\ \A t \in Threads \ {s} :
                \/ pc'[t] = pc[t]
                \/ t \in Workers /\ pc[t] = "blocked" /\ pc'[t] = "relock"
      <3>1. s \in Threads \ Workers /\ "s_unlock" \in SubmitterPC \cup CloserPC
        BY ThreadsAssumption DEF Threads, SubmitterPC, CloserPC
      <3> QED
        BY <1>15, <3>1, NotifyMoves DEF SPush
    <2> QED
      BY <1>15, ThreadsAssumption, <2>1 DEF SPush, histVars, syncVars, FinishedInv,
         HandsInv, TypeOK, Threads, WorkerPC, SubmitterPC, CloserPC
  <1>16. ASSUME NEW s \in Submitters, SUnlock(s) PROVE FinishedInv'
    BY <1>16, ThreadsAssumption DEF SUnlock, Goto, histVars, syncVars, unlock,
       FinishedInv, HandsInv, TypeOK, Threads, WorkerPC, SubmitterPC, CloserPC
  <1>17. ASSUME NEW c \in Closers, CExchange(c) PROVE FinishedInv'
    BY <1>17, ThreadsAssumption DEF CExchange, Goto, histVars, syncVars, FinishedInv,
       HandsInv, TypeOK, Threads, WorkerPC, SubmitterPC, CloserPC
  <1>18. ASSUME NEW c \in Closers, CLock(c) PROVE FinishedInv'
    BY <1>18, ThreadsAssumption DEF CLock, Goto, histVars, syncVars, lock,
       FinishedInv, HandsInv, TypeOK, Threads, WorkerPC, SubmitterPC, CloserPC
  <1>19. ASSUME NEW c \in Closers, CNotify(c) PROVE FinishedInv'
    <2>1. /\ pc[c] = "c_notify" /\ pc'[c] = "c_unlock" /\ sema' \in Nat
          /\ pc' \in [Threads -> WorkerPC \cup SubmitterPC \cup CloserPC]
          /\ \A t \in Threads \ {c} :
                \/ pc'[t] = pc[t]
                \/ t \in Workers /\ pc[t] = "blocked" /\ pc'[t] = "relock"
      <3>1. c \in Threads \ Workers /\ "c_unlock" \in SubmitterPC \cup CloserPC
        BY ThreadsAssumption DEF Threads, SubmitterPC, CloserPC
      <3> QED
        BY <1>19, <3>1, NotifyMoves DEF CNotify
    <2> QED
      BY <1>19, ThreadsAssumption, <2>1 DEF CNotify, histVars, syncVars, FinishedInv,
         HandsInv, TypeOK, Threads, WorkerPC, SubmitterPC, CloserPC
  <1>20. ASSUME NEW c \in Closers, CUnlock(c) PROVE FinishedInv'
    BY <1>20, ThreadsAssumption DEF CUnlock, Goto, histVars, syncVars, unlock,
       FinishedInv, HandsInv, TypeOK, Threads, WorkerPC, SubmitterPC, CloserPC
  <1>21. ASSUME NEW c \in Closers, CJoin(c) PROVE FinishedInv'
    BY <1>21, ThreadsAssumption DEF CJoin, Goto, histVars, syncVars, FinishedInv,
       HandsInv, TypeOK, Threads, WorkerPC, SubmitterPC, CloserPC
  <1>22. CASE UNCHANGED vars
    BY <1>22 DEF vars, FinishedInv, HandsInv, TypeOK, Threads, WorkerPC, SubmitterPC,
       CloserPC
  <1> QED
    BY <1>1, <1>2, <1>3, <1>4, <1>5, <1>6, <1>7, <1>8, <1>9, <1>10, <1>11, <1>12,
       <1>13, <1>14, <1>15, <1>16, <1>17, <1>18, <1>19, <1>20, <1>21, <1>22 DEF Next,
       WorkerStep, SubmitterStep, CloserStep, Terminated

\* Cardinalities of sets of workers are numbers.
LEMMA InWaitFinite == IsFiniteSet(InWait) /\ Cardinality(InWait) \in Nat
  <1>1. InWait \subseteq Workers
    BY DEF InWait
  <1> QED
    BY <1>1, ThreadsAssumption, FS_Subset, FS_CardinalityType

\* waiters_ follows wait() in and out; notifications leave the count alone.
LEMMA WaitersStep ==
    ASSUME TypeOK, WaitersExact, [Next]_vars
    PROVE  WaitersExact'
  <1>1. ASSUME NEW w \in Workers, WLock(w) PROVE WaitersExact'
    <2>1. InWait' = InWait
      BY <1>1, ThreadsAssumption DEF WLock, Goto, InWait, TypeOK, Threads, WorkerPC
    <2> QED
      BY <1>1, <2>1 DEF WLock, WaitersExact, syncVars
  <1>2. ASSUME NEW w \in Workers, WCheck(w) PROVE WaitersExact'
    <2>1. InWait' = InWait
      BY <1>2, ThreadsAssumption DEF WCheck, Goto, InWait, TypeOK, Threads, WorkerPC
    <2> QED
      BY <1>2, <2>1 DEF WCheck, WaitersExact, syncVars
  <1>3. ASSUME NEW w \in Workers, WWait(w) PROVE WaitersExact'
    <2>1. InWait' = InWait \cup {w} /\ w \notin InWait
      BY <1>3 DEF WWait, Goto, InWait, TypeOK, Threads
    <2>2. Cardinality(InWait') = Cardinality(InWait) + 1
      BY <2>1, InWaitFinite, FS_AddElement
    <2> QED
      BY <1>3, <2>2 DEF WWait, WaitersExact
  <1>4. ASSUME NEW w \in Workers, WTakeToken(w) PROVE WaitersExact'
    <2>1. InWait' = InWait
      BY <1>4, ThreadsAssumption DEF WTakeToken, Goto, InWait, TypeOK, Threads, WorkerPC
    <2> QED
      BY <1>4, <2>1 DEF WTakeToken, WaitersExact, syncVars
  <1>5. ASSUME NEW w \in Workers, WSpurious(w) PROVE WaitersExact'
    <2>1. InWait' = InWait
      BY <1>5, ThreadsAssumption DEF WSpurious, Goto, InWait, TypeOK, Threads, WorkerPC
    <2> QED
      BY <1>5, <2>1 DEF WSpurious, WaitersExact, syncVars
  <1>6. ASSUME NEW w \in Workers, WRelock(w) PROVE WaitersExact'
    <2>1. InWait' = InWait \ {w} /\ w \in InWait
      BY <1>6 DEF WRelock, Goto, InWait, TypeOK, Threads
    <2>2. Cardinality(InWait') = Cardinality(InWait) - 1
      BY <2>1, InWaitFinite, FS_RemoveElement
    <2> QED
      BY <1>6, <2>2 DEF WRelock, WaitersExact
  <1>7. ASSUME NEW w \in Workers, WExitCheck(w) PROVE WaitersExact'
    <2>1. InWait' = InWait
      BY <1>7, ThreadsAssumption DEF WExitCheck, Goto, InWait, TypeOK, Threads, WorkerPC
    <2> QED
      BY <1>7, <2>1 DEF WExitCheck, WaitersExact, syncVars
  <1>8. ASSUME NEW w \in Workers, WPop(w) PROVE WaitersExact'
    <2>1. InWait' = InWait
      BY <1>8, ThreadsAssumption DEF WPop, Goto, InWait, TypeOK, Threads, WorkerPC
    <2> QED
      BY <1>8, <2>1 DEF WPop, WaitersExact, syncVars
  <1>9. ASSUME NEW w \in Workers, WInc(w) PROVE WaitersExact'
    <2>1. InWait' = InWait
      BY <1>9, ThreadsAssumption DEF WInc, Goto, InWait, TypeOK, Threads, WorkerPC
    <2> QED
      BY <1>9, <2>1 DEF WInc, WaitersExact, syncVars
  <1>10. ASSUME NEW w \in Workers, WTask(w) PROVE WaitersExact'
    <2>1. InWait' = InWait
      BY <1>10, ThreadsAssumption DEF WTask, Goto, InWait, TypeOK, Threads, WorkerPC
    <2> QED
      BY <1>10, <2>1 DEF WTask, WaitersExact, syncVars
  <1>11. ASSUME NEW w \in Workers, WDec(w) PROVE WaitersExact'
    <2>1. InWait' = InWait
      BY <1>11, ThreadsAssumption DEF WDec, Goto, InWait, TypeOK, Threads, WorkerPC
    <2> QED
      BY <1>11, <2>1 DEF WDec, WaitersExact, syncVars
  <1>12. ASSUME NEW s \in Submitters, SCall(s) PROVE WaitersExact'
    <2>1. InWait' = InWait
      BY <1>12, ThreadsAssumption DEF SCall, Goto, InWait, TypeOK, Threads, WorkerPC
    <2> QED
      BY <1>12, <2>1 DEF SCall, WaitersExact, syncVars
  <1>13. ASSUME NEW s \in Submitters, SLock(s) PROVE WaitersExact'
    <2>1. InWait' = InWait
      BY <1>13, ThreadsAssumption DEF SLock, Goto, InWait, TypeOK, Threads, WorkerPC
    <2> QED
      BY <1>13, <2>1 DEF SLock, WaitersExact, syncVars
  <1>14. ASSUME NEW s \in Submitters, SCheck(s) PROVE WaitersExact'
    <2>1. InWait' = InWait
      BY <1>14, ThreadsAssumption DEF SCheck, Goto, InWait, TypeOK, Threads, WorkerPC
    <2> QED
      BY <1>14, <2>1 DEF SCheck, WaitersExact, syncVars
  <1>15. ASSUME NEW s \in Submitters, SPush(s) PROVE WaitersExact'
    <2>1. /\ pc[s] = "s_push" /\ pc'[s] = "s_unlock" /\ sema' \in Nat
          /\ pc' \in [Threads -> WorkerPC \cup SubmitterPC \cup CloserPC]
          /\ \A t \in Threads \ {s} :
                \/ pc'[t] = pc[t]
                \/ t \in Workers /\ pc[t] = "blocked" /\ pc'[t] = "relock"
      <3>1. s \in Threads \ Workers /\ "s_unlock" \in SubmitterPC \cup CloserPC
        BY ThreadsAssumption DEF Threads, SubmitterPC, CloserPC
      <3> QED
        BY <1>15, <3>1, NotifyMoves DEF SPush
    <2>2. InWait' = InWait
      BY <2>1, ThreadsAssumption DEF InWait, TypeOK, Threads
    <2> QED
      BY <1>15, <2>2 DEF SPush, WaitersExact
  <1>16. ASSUME NEW s \in Submitters, SUnlock(s) PROVE WaitersExact'
    <2>1. InWait' = InWait
      BY <1>16, ThreadsAssumption DEF SUnlock, Goto, InWait, TypeOK, Threads, WorkerPC
    <2> QED
      BY <1>16, <2>1 DEF SUnlock, WaitersExact, syncVars
  <1>17. ASSUME NEW c \in Closers, CExchange(c) PROVE WaitersExact'
    <2>1. InWait' = InWait
      BY <1>17, ThreadsAssumption DEF CExchange, Goto, InWait, TypeOK, Threads, WorkerPC
    <2> QED
      BY <1>17, <2>1 DEF CExchange, WaitersExact, syncVars
  <1>18. ASSUME NEW c \in Closers, CLock(c) PROVE WaitersExact'
    <2>1. InWait' = InWait
      BY <1>18, ThreadsAssumption DEF CLock, Goto, InWait, TypeOK, Threads, WorkerPC
    <2> QED
      BY <1>18, <2>1 DEF CLock, WaitersExact, syncVars
  <1>19. ASSUME NEW c \in Closers, CNotify(c) PROVE WaitersExact'
    <2>1. /\ pc[c] = "c_notify" /\ pc'[c] = "c_unlock" /\ sema' \in Nat
          /\ pc' \in [Threads -> WorkerPC \cup SubmitterPC \cup CloserPC]
          /\ \A t \in Threads \ {c} :
                \/ pc'[t] = pc[t]
                \/ t \in Workers /\ pc[t] = "blocked" /\ pc'[t] = "relock"
      <3>1. c \in Threads \ Workers /\ "c_unlock" \in SubmitterPC \cup CloserPC
        BY ThreadsAssumption DEF Threads, SubmitterPC, CloserPC
      <3> QED
        BY <1>19, <3>1, NotifyMoves DEF CNotify
    <2>2. InWait' = InWait
      BY <2>1, ThreadsAssumption DEF InWait, TypeOK, Threads
    <2> QED
      BY <1>19, <2>2 DEF CNotify, WaitersExact
  <1>20. ASSUME NEW c \in Closers, CUnlock(c) PROVE WaitersExact'
    <2>1. InWait' = InWait
      BY <1>20, ThreadsAssumption DEF CUnlock, Goto, InWait, TypeOK, Threads, WorkerPC
    <2> QED
      BY <1>20, <2>1 DEF CUnlock, WaitersExact, syncVars
  <1>21. ASSUME NEW c \in Closers, CJoin(c) PROVE WaitersExact'
    <2>1. InWait' = InWait
      BY <1>21, ThreadsAssumption DEF CJoin, Goto, InWait, TypeOK, Threads, WorkerPC
    <2> QED
      BY <1>21, <2>1 DEF CJoin, WaitersExact, syncVars
  <1>22. CASE UNCHANGED vars
    BY <1>22 DEF vars, WaitersExact, InWait
  <1> QED
    BY <1>1, <1>2, <1>3, <1>4, <1>5, <1>6, <1>7, <1>8, <1>9, <1>10, <1>11, <1>12,
       <1>13, <1>14, <1>15, <1>16, <1>17, <1>18, <1>19, <1>20, <1>21, <1>22 DEF Next,
       WorkerStep, SubmitterStep, CloserStep, Terminated

-----------------------------------------------------------------------------
(* Counting: the workers that are busy, asleep, or on their way.           *)

\* Workers between inc() and dec().
Busy == {w \in Workers : pc[w] \in {"running", "ended"}}

\* Every set of workers the pool counts is finite.
LEMMA WorkersCounted ==
    /\ IsFiniteSet(Busy) /\ Cardinality(Busy) \in Nat
    /\ IsFiniteSet(Blocked) /\ Cardinality(Blocked) \in Nat
    /\ IsFiniteSet(Coming) /\ Cardinality(Coming) \in Nat
    /\ Cardinality(Blocked) <= Cardinality(InWait)
  <1>1. /\ Busy \subseteq Workers /\ Blocked \subseteq Workers /\ Coming \subseteq Workers
        /\ Blocked \subseteq InWait
    BY DEF Busy, Blocked, Coming, InWait
  <1> QED
    BY <1>1, ThreadsAssumption, InWaitFinite, FS_Subset, FS_CardinalityType

\* The steps of workerLoop() that move one worker and touch neither the
\* queue nor the semaphore nor the count of running tasks.
QuietWorkerStep(w) ==
    \/ WLock(w) \/ WCheck(w) \/ WWait(w) \/ WSpurious(w) \/ WRelock(w)
    \/ WExitCheck(w) \/ WTask(w)

\* The steps of submit() and shutdown() that notify nobody.
QuietCallerStep(t) ==
    \/ t \in Submitters /\ (SCall(t) \/ SLock(t) \/ SCheck(t) \/ SUnlock(t))
    \/ t \in Closers /\ (CExchange(t) \/ CLock(t) \/ CUnlock(t) \/ CJoin(t))

\* [Next]_vars, by what the counts can notice.
LEMMA NextCases ==
    ASSUME [Next]_vars
    PROVE  \/ \E w \in Workers : \/ QuietWorkerStep(w) \/ WTakeToken(w) \/ WPop(w)
                                 \/ WInc(w) \/ WDec(w)
           \/ \E t \in Submitters \cup Closers : QuietCallerStep(t)
           \/ \E s \in Submitters : SPush(s)
           \/ \E c \in Closers : CNotify(c)
           \/ UNCHANGED vars
  BY DEF Next, WorkerStep, SubmitterStep, CloserStep, Terminated, QuietWorkerStep,
     QuietCallerStep

\* Where a quiet step of a worker takes it.
LEMMA QuietWorker ==
    ASSUME TypeOK, NEW w \in Workers, QuietWorkerStep(w)
    PROVE  /\ \A x \in Workers \ {w} : pc'[x] = pc[x]
           /\ \/ pc[w] \in {"lock", "relock"} /\ pc'[w] = "check"
              \/ pc[w] = "check" /\ pc'[w] = "exitcheck"
              \/ pc[w] = "check" /\ pc'[w] = "wait" /\ ~shutdown /\ tasks = <<>>
              \/ pc[w] = "wait" /\ pc'[w] = "blocked"
              \/ pc[w] = "blocked" /\ pc'[w] = "relock" /\ build = "posix"
              \/ pc[w] = "exitcheck" /\ pc'[w] = "exited" /\ tasks = <<>>
              \/ pc[w] = "exitcheck" /\ pc'[w] = "pop"
              \/ pc[w] = "running" /\ pc'[w] = "ended"
           /\ \A c \in Closers \cup Submitters : pc'[c] = pc[c]
           /\ UNCHANGED <<build, tasks, shutdown, activeTasks, sema>>
  <1>1. w \in Threads /\ Workers \subseteq Threads /\ Closers \cup Submitters \subseteq Threads
        /\ w \notin Closers \cup Submitters /\ DOMAIN pc = Threads
    BY ThreadsAssumption DEF Threads, TypeOK
  <1>2. \E from, to : Goto(w, from, to)
    BY DEF QuietWorkerStep, WLock, WCheck, WWait, WSpurious, WRelock, WExitCheck, WTask
  <1>3. \A t \in Threads \ {w} : pc'[t] = pc[t]
    BY <1>1, <1>2 DEF Goto
  <1>4. ASSUME NEW from, NEW to, Goto(w, from, to)
        PROVE  pc[w] = from /\ pc'[w] = to
    BY <1>1, <1>4 DEF Goto
  <1>5. \/ pc[w] \in {"lock", "relock"} /\ pc'[w] = "check"
        \/ pc[w] = "check" /\ pc'[w] = "exitcheck"
        \/ pc[w] = "check" /\ pc'[w] = "wait" /\ ~shutdown /\ tasks = <<>>
        \/ pc[w] = "wait" /\ pc'[w] = "blocked"
        \/ pc[w] = "blocked" /\ pc'[w] = "relock" /\ build = "posix"
        \/ pc[w] = "exitcheck" /\ pc'[w] = "exited" /\ tasks = <<>>
        \/ pc[w] = "exitcheck" /\ pc'[w] = "pop"
        \/ pc[w] = "running" /\ pc'[w] = "ended"
    BY <1>4 DEF QuietWorkerStep, WLock, WCheck, WWait, WSpurious, WRelock, WExitCheck, WTask
  <1>6. UNCHANGED <<build, tasks, shutdown, activeTasks, sema>>
    BY DEF QuietWorkerStep, WLock, WCheck, WWait, WSpurious, WRelock, WExitCheck, WTask,
           syncVars
  <1> QED
    BY <1>1, <1>3, <1>5, <1>6

\* A quiet step of a caller moves no worker; only CExchange touches the flag.
LEMMA QuietCaller ==
    ASSUME TypeOK, NEW t \in Submitters \cup Closers, QuietCallerStep(t)
    PROVE  /\ \A x \in Threads \ {t} : pc'[x] = pc[x]
           /\ \A w \in Workers : pc'[w] = pc[w]
           /\ UNCHANGED <<build, tasks, activeTasks, sema>>
           /\ shutdown' \in BOOLEAN /\ (shutdown => shutdown')
           /\ t \in Closers =>
                 \/ pc[t] = "c_start" /\ pc'[t] \in {"c_lock", "c_already"} /\ shutdown'
                 \/ pc[t] = "c_lock" /\ pc'[t] = "c_notify"
                 \/ pc[t] = "c_unlock" /\ pc'[t] = "c_join"
                 \/ pc[t] = "c_join" /\ pc'[t] = "c_done"
  <1>1. /\ t \in Threads /\ Workers \subseteq Threads /\ t \notin Workers /\ DOMAIN pc = Threads
        /\ ~(t \in Submitters /\ t \in Closers)
    BY ThreadsAssumption DEF Threads, TypeOK
  <1>2. \E from, to : Goto(t, from, to)
    BY DEF QuietCallerStep, SCall, SLock, SCheck, SUnlock, CExchange, CLock, CUnlock, CJoin
  <1>3. \A x \in Threads \ {t} : pc'[x] = pc[x]
    BY <1>1, <1>2 DEF Goto
  <1>4. ASSUME NEW from, NEW to, Goto(t, from, to)
        PROVE  pc[t] = from /\ pc'[t] = to
    BY <1>1, <1>4 DEF Goto
  <1>5. UNCHANGED <<build, tasks, activeTasks, sema>>
    BY DEF QuietCallerStep, SCall, SLock, SCheck, SUnlock, CExchange, CLock, CUnlock, CJoin,
           syncVars
  <1>6. shutdown' \in BOOLEAN /\ (shutdown => shutdown')
    BY DEF QuietCallerStep, SCall, SLock, SCheck, SUnlock, CExchange, CLock, CUnlock, CJoin,
           TypeOK
  <1>7. ASSUME t \in Closers
        PROVE  \/ pc[t] = "c_start" /\ pc'[t] \in {"c_lock", "c_already"} /\ shutdown'
               \/ pc[t] = "c_lock" /\ pc'[t] = "c_notify"
               \/ pc[t] = "c_unlock" /\ pc'[t] = "c_join"
               \/ pc[t] = "c_join" /\ pc'[t] = "c_done"
    BY <1>1, <1>4, <1>7 DEF QuietCallerStep, CExchange, CLock, CUnlock, CJoin
  <1> QED
    BY <1>1, <1>3, <1>5, <1>6, <1>7

\* One sleeper at most is woken by a push; on win32 it gets a token.
LEMMA PushMoves ==
    ASSUME TypeOK, NEW s \in Submitters, SPush(s)
    PROVE  /\ tasks' = Append(tasks, task[s])
           /\ pc[s] = "s_push" /\ pc'[s] = "s_unlock"
           /\ UNCHANGED <<build, shutdown, activeTasks, waiters>>
           /\ \A x \in (Submitters \ {s}) \cup Closers : pc'[x] = pc[x]
           /\ \/ /\ build = "win32" /\ \A x \in Workers : pc'[x] = pc[x]
                 /\ sema' = IF waiters > 0 THEN sema + 1 ELSE sema
              \/ /\ build = "posix" /\ sema' = sema /\ Blocked = {}
                 /\ \A x \in Workers : pc'[x] = pc[x]
              \/ /\ build = "posix" /\ sema' = sema
                 /\ \E b \in Blocked : pc'[b] = "relock" /\ \A x \in Workers \ {b} : pc'[x] = pc[x]
  <1>1. /\ s \in Threads /\ Workers \cup Closers \subseteq Threads
        /\ s \notin Workers \cup Closers /\ DOMAIN pc = Threads /\ Submitters \subseteq Threads
        /\ Blocked \subseteq Workers /\ Submitters \cap Workers = {} /\ Closers \cap Workers = {}
    BY ThreadsAssumption DEF Threads, TypeOK, Blocked
  <1>2. ASSUME Goto(s, "s_push", "s_unlock")
        PROVE  /\ \A x \in Threads \ {s} : pc'[x] = pc[x]
               /\ pc[s] = "s_push" /\ pc'[s] = "s_unlock"
    BY <1>1, <1>2 DEF Goto
  <1>3. ASSUME NEW b \in Blocked, Wake(s, "s_push", "s_unlock", {b})
        PROVE  /\ pc'[b] = "relock" /\ \A x \in Threads \ {b, s} : pc'[x] = pc[x]
               /\ pc[s] = "s_push" /\ pc'[s] = "s_unlock"
    BY <1>1, <1>3 DEF Wake
  <1>4. notify_one(s, "s_push", "s_unlock")
    BY DEF SPush
  <1>5. tasks' = Append(tasks, task[s]) /\ UNCHANGED <<build, shutdown, activeTasks, waiters>>
    BY DEF SPush
  <1>6. CASE Goto(s, "s_push", "s_unlock") /\ build = "win32"
             /\ sema' = IF waiters > 0 THEN sema + 1 ELSE sema
    BY <1>1, <1>2, <1>5, <1>6
  <1>7. CASE Goto(s, "s_push", "s_unlock") /\ build = "posix" /\ sema' = sema /\ Blocked = {}
    BY <1>1, <1>2, <1>5, <1>7
  <1>8. ASSUME NEW b \in Blocked, Wake(s, "s_push", "s_unlock", {b}), build = "posix", sema' = sema
        PROVE  /\ \A x \in (Submitters \ {s}) \cup Closers : pc'[x] = pc[x]
               /\ pc'[b] = "relock" /\ \A x \in Workers \ {b} : pc'[x] = pc[x]
               /\ pc[s] = "s_push" /\ pc'[s] = "s_unlock"
    BY <1>1, <1>3, <1>8
  <1> QED
    BY <1>4, <1>5, <1>6, <1>7, <1>8 DEF notify_one

\* notify_all gives every waiter a token, or wakes every sleeper.
LEMMA NotifyAllMoves ==
    ASSUME TypeOK, NEW c \in Closers, CNotify(c)
    PROVE  /\ pc[c] = "c_notify" /\ pc'[c] = "c_unlock"
           /\ UNCHANGED <<build, tasks, shutdown, activeTasks, waiters>>
           /\ \A x \in (Closers \ {c}) \cup Submitters : pc'[x] = pc[x]
           /\ \/ /\ build = "win32" /\ \A x \in Workers : pc'[x] = pc[x]
                 /\ sema' = IF waiters > 0 THEN sema + waiters ELSE sema
              \/ /\ build = "posix" /\ sema' = sema
                 /\ \A x \in Workers : pc'[x] = IF pc[x] = "blocked" THEN "relock" ELSE pc[x]
  <1>1. /\ c \in Threads /\ Workers \cup Submitters \subseteq Threads
        /\ c \notin Workers \cup Submitters /\ DOMAIN pc = Threads /\ Closers \subseteq Threads
        /\ Blocked \subseteq Workers /\ Submitters \cap Workers = {} /\ Closers \cap Workers = {}
        /\ \A x \in Workers : x \in Blocked <=> pc[x] = "blocked"
    BY ThreadsAssumption DEF Threads, TypeOK, Blocked
  <1>2. ASSUME Goto(c, "c_notify", "c_unlock")
        PROVE  /\ \A x \in Threads \ {c} : pc'[x] = pc[x]
               /\ pc[c] = "c_notify" /\ pc'[c] = "c_unlock"
    BY <1>1, <1>2 DEF Goto
  <1>3. ASSUME Wake(c, "c_notify", "c_unlock", Blocked)
        PROVE  /\ \A x \in Threads \ {c} : pc'[x] = IF x \in Blocked THEN "relock" ELSE pc[x]
               /\ pc[c] = "c_notify" /\ pc'[c] = "c_unlock"
    BY <1>1, <1>3 DEF Wake
  <1>4. notify_all(c, "c_notify", "c_unlock")
    BY DEF CNotify
  <1>5. UNCHANGED <<build, tasks, shutdown, activeTasks, waiters>>
    BY DEF CNotify
  <1>6. CASE Goto(c, "c_notify", "c_unlock") /\ build = "win32"
             /\ sema' = IF waiters > 0 THEN sema + waiters ELSE sema
    BY <1>1, <1>2, <1>5, <1>6
  <1>7. CASE Wake(c, "c_notify", "c_unlock", Blocked) /\ build = "posix" /\ sema' = sema
    BY <1>1, <1>3, <1>5, <1>7
  <1> QED
    BY <1>4, <1>6, <1>7 DEF notify_all

\* activeTasks_ follows inc() and dec(); dec() never meets a zero.
LEMMA ActiveStep ==
    ASSUME TypeOK, ActiveExact, [Next]_vars
    PROVE  ActiveExact'
  <1>0. activeTasks = Cardinality(Busy) /\ (ActiveExact' <=> activeTasks' = Cardinality(Busy'))
    BY DEF ActiveExact, Busy
  <1>1. ASSUME activeTasks' = activeTasks,
               \A w \in Workers : pc'[w] \in {"running", "ended"} <=> pc[w] \in {"running", "ended"}
        PROVE  ActiveExact'
    <2>1. Busy' = Busy
      BY <1>1 DEF Busy
    <2> QED
      BY <1>0, <1>1, <2>1
  <1>2. ASSUME NEW w \in Workers, QuietWorkerStep(w) PROVE ActiveExact'
    BY <1>1, <1>2, QuietWorker
  <1>3. ASSUME NEW w \in Workers, WTakeToken(w) \/ WPop(w) PROVE ActiveExact'
    BY <1>1, <1>3 DEF WTakeToken, WPop, Goto, TypeOK, Threads
  <1>4. ASSUME NEW w \in Workers, WInc(w) PROVE ActiveExact'
    <2>1. Busy' = Busy \cup {w} /\ w \notin Busy
      BY <1>4 DEF WInc, Goto, Busy, TypeOK, Threads
    <2>2. Cardinality(Busy') = Cardinality(Busy) + 1
      BY <2>1, WorkersCounted, FS_AddElement
    <2> QED
      BY <1>0, <1>4, <2>2 DEF WInc
  <1>5. ASSUME NEW w \in Workers, WDec(w) PROVE ActiveExact'
    <2>1. Busy' = Busy \ {w} /\ w \in Busy
      BY <1>5 DEF WDec, Goto, Busy, TypeOK, Threads
    <2>2. Cardinality(Busy') = Cardinality(Busy) - 1 /\ Cardinality(Busy) # 0
      BY <2>1, WorkersCounted, FS_RemoveElement, FS_EmptySet
    <2> QED
      BY <1>0, <1>5, <2>2 DEF WDec
  <1>6. ASSUME NEW t \in Submitters \cup Closers, QuietCallerStep(t) PROVE ActiveExact'
    BY <1>1, <1>6, QuietCaller
  <1>7. ASSUME NEW s \in Submitters, SPush(s) PROVE ActiveExact'
    BY <1>1, <1>7, PushMoves DEF Blocked
  <1>8. ASSUME NEW c \in Closers, CNotify(c) PROVE ActiveExact'
    BY <1>1, <1>8, NotifyAllMoves
  <1>9. CASE UNCHANGED vars
    BY <1>1, <1>9 DEF vars
  <1> QED
    BY <1>2, <1>3, <1>4, <1>5, <1>6, <1>7, <1>8, <1>9, NextCases

\* Nobody pushes while a worker is about to sleep, and the flag stays up.
LEMMA SleepStep ==
    ASSUME TypeOK, MutexInv, SleepInv, FlagInv, [Next]_vars
    PROVE  SleepInv' /\ FlagInv'
  <1>1. ASSUME NEW w \in Workers, QuietWorkerStep(w) PROVE SleepInv' /\ FlagInv'
    BY <1>1, QuietWorker DEF SleepInv, FlagInv
  <1>2. ASSUME NEW w \in Workers, WTakeToken(w) \/ WInc(w) \/ WDec(w)
        PROVE  SleepInv' /\ FlagInv'
    BY <1>2, ThreadsAssumption DEF WTakeToken, WInc, WDec, Goto, SleepInv, FlagInv, TypeOK,
       Threads
  <1>3. ASSUME NEW w \in Workers, WPop(w) PROVE SleepInv' /\ FlagInv'
    <2>1. w \in Threads /\ Workers \subseteq Threads /\ Closers \subseteq Threads
          /\ w \notin Closers
      BY ThreadsAssumption DEF Threads
    <2>2. /\ \A x \in Threads \ {w} : pc'[x] = pc[x]
          /\ pc[w] = "pop" /\ pc'[w] = "claimed" /\ shutdown' = shutdown
      BY <1>3, <2>1 DEF WPop, Goto, TypeOK
    <2>3. \A x \in Workers : pc[x] # "wait"
      BY <2>1, <2>2 DEF MutexInv, Inside
    <2> QED
      BY <2>1, <2>2, <2>3 DEF SleepInv, FlagInv
  <1>4. ASSUME NEW t \in Submitters \cup Closers, QuietCallerStep(t)
        PROVE  SleepInv' /\ FlagInv'
    BY <1>4, QuietCaller DEF SleepInv, FlagInv, Threads
  <1>5. ASSUME NEW s \in Submitters, SPush(s) PROVE SleepInv' /\ FlagInv'
    <2>1. /\ s \in Threads /\ Workers \subseteq Threads /\ s \notin Workers
          /\ pc[s] = "s_push"
      BY <1>5, ThreadsAssumption, PushMoves DEF Threads
    <2>2. \A x \in Workers : pc[x] # "wait"
      BY <2>1 DEF MutexInv, Inside
    <2> QED
      BY <1>5, <2>2, PushMoves DEF SleepInv, FlagInv
  <1>6. ASSUME NEW c \in Closers, CNotify(c) PROVE SleepInv' /\ FlagInv'
    BY <1>6, NotifyAllMoves DEF SleepInv, FlagInv
  <1>7. CASE UNCHANGED vars
    BY <1>7 DEF vars, SleepInv, FlagInv
  <1> QED
    BY <1>1, <1>2, <1>3, <1>4, <1>5, <1>6, <1>7, NextCases

\* Each queued task has a worker on its way or a token, as long as one sleeps.
LEMMA WorkStep ==
    ASSUME TypeOK, WaitersExact, SleepInv, WorkConserving, [Next]_vars
    PROVE  WorkConserving'
  <1> DEFINE n == Cardinality(Coming)
  <1>0. /\ n \in Nat /\ sema \in Nat /\ Len(tasks) \in Nat /\ tasks \in Seq(Tasks)
        /\ Cardinality(Coming') \in Nat
    <2>1. Coming' \subseteq Workers
      BY DEF Coming
    <2> QED
      BY <2>1, WorkersCounted, ThreadsAssumption, FS_Subset, FS_CardinalityType DEF TypeOK
  <1>1. ASSUME Blocked' # {} => Blocked # {}, Coming' = Coming, tasks' = tasks, sema' = sema
        PROVE  WorkConserving'
    BY <1>1 DEF WorkConserving
  <1>2. ASSUME NEW w \in Workers, QuietWorkerStep(w) PROVE WorkConserving'
    <2>0. /\ tasks' = tasks /\ sema' = sema
          /\ \A x \in Workers \ {w} : pc'[x] = pc[x]
      BY <1>2, QuietWorker
    <2>1. CASE \/ pc[w] \in {"lock", "relock"} /\ pc'[w] = "check"
               \/ pc[w] = "check" /\ pc'[w] = "exitcheck"
               \/ pc[w] = "exitcheck" /\ pc'[w] = "pop"
               \/ pc[w] = "running" /\ pc'[w] = "ended"
      <3>1. Coming' = Coming /\ Blocked' = Blocked
        BY <2>0, <2>1 DEF Coming, Blocked
      <3> QED
        BY <1>1, <2>0, <3>1
    <2>2. CASE \/ pc[w] = "check" /\ pc'[w] = "wait" /\ tasks = <<>>
               \/ pc[w] = "wait" /\ pc'[w] = "blocked"
               \/ pc[w] = "exitcheck" /\ pc'[w] = "exited" /\ tasks = <<>>
      <3>1. tasks' = <<>>
        BY <2>0, <2>2 DEF SleepInv
      <3>2. Len(tasks') = 0 /\ sema' \in Nat
        BY <3>1, <2>0, <1>0
      <3> QED
        BY <1>0, <3>2 DEF WorkConserving
    <2>3. CASE pc[w] = "blocked" /\ pc'[w] = "relock"
      <3>1. Coming' = Coming \cup {w} /\ w \notin Coming /\ Blocked # {}
        BY <2>0, <2>3 DEF Coming, Blocked
      <3>2. Cardinality(Coming') = n + 1
        BY <3>1, WorkersCounted, FS_AddElement
      <3> QED
        BY <1>0, <2>0, <3>1, <3>2 DEF WorkConserving
    <2> QED
      BY <1>2, <2>1, <2>2, <2>3, QuietWorker
  <1>3. ASSUME NEW w \in Workers, WTakeToken(w) PROVE WorkConserving'
    <2>1. Coming' = Coming \cup {w} /\ w \notin Coming /\ Blocked # {}
      BY <1>3 DEF WTakeToken, Goto, Coming, Blocked, TypeOK, Threads
    <2>2. Cardinality(Coming') = n + 1
      BY <2>1, WorkersCounted, FS_AddElement
    <2> QED
      BY <1>0, <1>3, <2>1, <2>2 DEF WTakeToken, WorkConserving
  <1>4. ASSUME NEW w \in Workers, WPop(w) PROVE WorkConserving'
    <2>1. Coming' = Coming \ {w} /\ w \in Coming /\ Blocked' = Blocked
      BY <1>4 DEF WPop, Goto, Coming, Blocked, TypeOK, Threads
    <2>2. Cardinality(Coming') = n - 1
      BY <2>1, WorkersCounted, FS_RemoveElement
    <2>3. Len(tasks') = Len(tasks) - 1 /\ sema' = sema
      BY <1>0, <1>4 DEF WPop
    <2> QED
      BY <1>0, <2>1, <2>2, <2>3 DEF WorkConserving
  <1>5. ASSUME NEW w \in Workers, WInc(w) PROVE WorkConserving'
    <2>1. Coming' = Coming /\ Blocked' = Blocked
      BY <1>5 DEF WInc, Goto, Coming, Blocked, TypeOK, Threads
    <2> QED
      BY <1>1, <1>5, <2>1 DEF WInc, syncVars
  <1>6. ASSUME NEW w \in Workers, WDec(w) PROVE WorkConserving'
    <2>1. Coming' = Coming \cup {w} /\ w \notin Coming /\ Blocked' = Blocked
      BY <1>6 DEF WDec, Goto, Coming, Blocked, TypeOK, Threads
    <2>2. Cardinality(Coming') = n + 1
      BY <2>1, WorkersCounted, FS_AddElement
    <2> QED
      BY <1>0, <1>6, <2>1, <2>2 DEF WDec, syncVars, WorkConserving
  <1>7. ASSUME NEW t \in Submitters \cup Closers, QuietCallerStep(t) PROVE WorkConserving'
    <2>1. Coming' = Coming /\ Blocked' = Blocked
      BY <1>7, QuietCaller DEF Coming, Blocked
    <2> QED
      BY <1>1, <1>7, <2>1, QuietCaller
  <1>8. ASSUME NEW s \in Submitters, SPush(s) PROVE WorkConserving'
    <2>0. Len(tasks') = Len(tasks) + 1
      BY <1>0, <1>8, PushMoves
    <2>1. CASE /\ build = "win32" /\ \A x \in Workers : pc'[x] = pc[x]
               /\ sema' = IF waiters > 0 THEN sema + 1 ELSE sema
      <3>1. Coming' = Coming /\ Blocked' = Blocked
        BY <2>1 DEF Coming, Blocked
      <3>2. CASE Blocked = {}
        BY <3>1, <3>2 DEF WorkConserving
      <3>3. CASE Blocked # {}
        <4>1. Cardinality(Blocked) # 0
          BY <3>3, WorkersCounted, FS_EmptySet
        <4>2. waiters > 0
          BY <4>1, WorkersCounted, InWaitFinite DEF WaitersExact
        <4> QED
          BY <1>0, <2>0, <2>1, <3>1, <3>3, <4>2 DEF WorkConserving
      <3> QED
        BY <3>2, <3>3
    <2>2. CASE Blocked = {} /\ \A x \in Workers : pc'[x] = pc[x]
      <3>1. Blocked' = {}
        BY <2>2 DEF Blocked
      <3> QED
        BY <3>1 DEF WorkConserving
    <2>3. ASSUME sema' = sema, NEW b \in Blocked, pc'[b] = "relock",
                 \A x \in Workers \ {b} : pc'[x] = pc[x]
          PROVE  WorkConserving'
      <3>1. Coming' = Coming \cup {b} /\ b \notin Coming
        BY <2>3 DEF Coming, Blocked
      <3>2. Cardinality(Coming') = n + 1
        BY <3>1, WorkersCounted, FS_AddElement
      <3> QED
        BY <1>0, <2>0, <2>3, <3>2 DEF WorkConserving
    <2> QED
      BY <1>8, <2>1, <2>2, <2>3, PushMoves
  <1>9. ASSUME NEW c \in Closers, CNotify(c) PROVE WorkConserving'
    <2>0. tasks' = tasks
      BY <1>9, NotifyAllMoves
    <2>1. CASE /\ \A x \in Workers : pc'[x] = pc[x]
               /\ sema' = IF waiters > 0 THEN sema + waiters ELSE sema
      <3>1. Coming' = Coming /\ Blocked' = Blocked
        BY <2>1 DEF Coming, Blocked
      <3> QED
        BY <1>0, <2>0, <2>1, <3>1 DEF WorkConserving, TypeOK
    <2>2. CASE \A x \in Workers : pc'[x] = IF pc[x] = "blocked" THEN "relock" ELSE pc[x]
      <3>1. Blocked' = {}
        BY <2>2 DEF Blocked
      <3> QED
        BY <3>1 DEF WorkConserving
    <2> QED
      BY <1>9, <2>1, <2>2, NotifyAllMoves
  <1>10. CASE UNCHANGED vars
    BY <1>1, <1>10 DEF vars, Coming, Blocked
  <1> QED
    BY <1>2, <1>3, <1>4, <1>5, <1>6, <1>7, <1>8, <1>9, <1>10, NextCases

\* After notify_all: no sleeper without a token, and no new sleeper.
LEMMA WakeStep ==
    ASSUME TypeOK, MutexInv, WaitersExact, FlagInv, ShutdownWakesAll, [Next]_vars
    PROVE  ShutdownWakesAll'
  <1> DEFINE after == \E c \in Closers : pc[c] \in {"c_unlock", "c_join", "c_done"}
             awake == /\ \A w \in Workers : pc[w] # "wait"
                      /\ IF build = "win32" THEN sema >= Cardinality(Blocked) ELSE Blocked = {}
  <1>0. /\ sema \in Nat /\ Cardinality(Blocked) \in Nat
        /\ after => awake
        /\ after => shutdown
        /\ ShutdownWakesAll' <=> (after' => awake')
    BY WorkersCounted DEF TypeOK, ShutdownWakesAll, FlagInv
  <1>1. ASSUME after' => after, \A x \in Workers : pc'[x] = pc[x],
               build' = build, sema' \in Nat, sema' >= sema
        PROVE  ShutdownWakesAll'
    <2>1. Blocked' = Blocked
      BY <1>1 DEF Blocked
    <2> QED
      BY <1>0, <1>1, <2>1
  <1>2. ASSUME NEW w \in Workers, QuietWorkerStep(w) PROVE ShutdownWakesAll'
    <2>1. /\ after' => after
          /\ \A x \in Workers \ {w} : pc'[x] = pc[x]
          /\ build' = build /\ sema' = sema
      BY <1>2, QuietWorker
    <2> SUFFICES ASSUME after PROVE awake'
      BY <1>0, <2>1
    <2>2. pc[w] # "wait" /\ pc'[w] # "wait" /\ (pc[w] = "blocked" => build = "posix")
      BY <1>0, <1>2, QuietWorker
    <2>3. pc[w] # "blocked"
      BY <1>0, <2>2 DEF Blocked
    <2>4. Blocked' = Blocked
      <3>1. pc'[w] # "blocked"
        BY <1>2, <2>2, <2>3, QuietWorker
      <3> QED
        BY <2>1, <2>3, <3>1 DEF Blocked
    <2> QED
      BY <1>0, <2>1, <2>2, <2>4
  <1>3. ASSUME NEW w \in Workers, WTakeToken(w) PROVE ShutdownWakesAll'
    <2>1. /\ Blocked' = Blocked \ {w} /\ w \in Blocked
          /\ \A x \in Workers : pc[x] # "wait" => pc'[x] # "wait"
      BY <1>3 DEF WTakeToken, Goto, Blocked, TypeOK, Threads
    <2>2. Cardinality(Blocked') = Cardinality(Blocked) - 1
      BY <2>1, WorkersCounted, FS_RemoveElement
    <2>3. after' => after
      BY <1>3, ThreadsAssumption DEF WTakeToken, Goto, TypeOK, Threads
    <2> QED
      BY <1>0, <1>3, <2>1, <2>2, <2>3 DEF WTakeToken
  <1>4. ASSUME NEW w \in Workers, WPop(w) \/ WInc(w) \/ WDec(w) PROVE ShutdownWakesAll'
    <2>1. /\ Blocked' = Blocked
          /\ \A x \in Workers : pc[x] # "wait" => pc'[x] # "wait"
          /\ build' = build /\ sema' = sema
      BY <1>4 DEF WPop, WInc, WDec, Goto, Blocked, syncVars, TypeOK, Threads
    <2>2. after' => after
      BY <1>4, ThreadsAssumption DEF WPop, WInc, WDec, Goto, TypeOK, Threads
    <2> QED
      BY <1>0, <2>1, <2>2
  <1>5. ASSUME NEW t \in Submitters \cup Closers, QuietCallerStep(t) PROVE ShutdownWakesAll'
    <2>1. after' => after
      <3>1. Closers \subseteq Threads /\ Submitters \cap Closers = {}
        BY ThreadsAssumption DEF Threads
      <3> QED
        BY <1>5, <3>1, QuietCaller
    <2> QED
      BY <1>0, <1>1, <1>5, <2>1, QuietCaller
  <1>6. ASSUME NEW s \in Submitters, SPush(s) PROVE ShutdownWakesAll'
    <2>1. after' => after
      BY <1>6, PushMoves
    <2>2. CASE build = "win32" /\ \A x \in Workers : pc'[x] = pc[x]
      BY <1>0, <1>1, <1>6, <2>1, <2>2, PushMoves
    <2>3. CASE build = "posix"
      <3>1. /\ \A x \in Workers : pc[x] # "wait" => pc'[x] # "wait"
            /\ \A x \in Workers : pc[x] # "blocked" => pc'[x] # "blocked"
            /\ build' = build
        BY <1>6, <2>3, PushMoves DEF Blocked
      <3>2. Blocked = {} => Blocked' = {}
        BY <3>1 DEF Blocked
      <3> QED
        BY <1>0, <2>1, <2>3, <3>1, <3>2
    <2> QED
      BY <1>6, <2>2, <2>3, PushMoves
  <1>7. ASSUME NEW c \in Closers, CNotify(c) PROVE ShutdownWakesAll'
    <2>1. \A x \in Workers : pc[x] # "wait"
      <3>1. c \in Threads /\ Workers \subseteq Threads /\ c \notin Workers
            /\ pc[c] = "c_notify"
        BY <1>7, ThreadsAssumption, NotifyAllMoves DEF Threads
      <3> QED
        BY <3>1 DEF MutexInv, Inside
    <2>2. CASE /\ build = "win32" /\ \A x \in Workers : pc'[x] = pc[x]
               /\ sema' = IF waiters > 0 THEN sema + waiters ELSE sema
      <3>1. Blocked' = Blocked
        BY <2>2 DEF Blocked
      <3>2. waiters \in Nat /\ waiters >= Cardinality(Blocked)
        BY WorkersCounted, InWaitFinite DEF WaitersExact
      <3>3. sema' >= Cardinality(Blocked')
        BY <1>0, <2>2, <3>1, <3>2
      <3> QED
        BY <1>0, <1>7, <2>1, <2>2, <3>3, NotifyAllMoves
    <2>3. CASE /\ build = "posix"
               /\ \A x \in Workers : pc'[x] = IF pc[x] = "blocked" THEN "relock" ELSE pc[x]
      <3>1. Blocked' = {} /\ \A x \in Workers : pc'[x] # "wait"
        BY <2>1, <2>3 DEF Blocked
      <3> QED
        BY <1>0, <1>7, <2>3, <3>1, NotifyAllMoves
    <2> QED
      BY <1>7, <2>2, <2>3, NotifyAllMoves
  <1>8. CASE UNCHANGED vars
    BY <1>0, <1>1, <1>8 DEF vars
  <1> QED
    BY <1>2, <1>3, <1>4, <1>5, <1>6, <1>7, <1>8, NextCases

-----------------------------------------------------------------------------
(* Refinement: a closure is in one place at a time.                        *)

\* The head of the queue has not been popped before.
LEMMA HeadIsNew ==
    ASSUME TypeOK, FifoExactlyOnce, OnceInv, tasks # <<>>
    PROVE  \A i \in DOMAIN started : started[i] # Head(tasks)
  <1> SUFFICES ASSUME NEW i \in DOMAIN started, started[i] = Head(tasks) PROVE FALSE
    OBVIOUS
  <1>1. /\ started \in Seq(Tasks) /\ tasks \in Seq(Tasks) /\ accepted = started \o tasks
        /\ Len(tasks) \in Nat \ {0} /\ Head(tasks) = tasks[1]
        /\ i \in 1 .. Len(started)
    BY DEF TypeOK, FifoExactlyOnce
  <1>2. accepted[i] = started[i] /\ accepted[Len(started) + 1] = Head(tasks)
    BY <1>1
  <1>3. i \in DOMAIN accepted /\ Len(started) + 1 \in DOMAIN accepted /\ i # Len(started) + 1
    BY <1>1
  <1> QED
    BY <1>2, <1>3 DEF OnceInv

\* Only SCall, SPush and WPop hand a closure on, and each empties its source.
LEMMA OnceStep ==
    ASSUME TypeOK, HandsInv, FifoExactlyOnce, FinishedInv, OnceInv, [Next]_vars
    PROVE  OnceInv'
  <1>0. /\ Workers \cap Submitters = {} /\ NoTask \notin Tasks
        /\ Workers \cup Submitters \cup Closers \subseteq Threads
        /\ Workers \cap Closers = {} /\ Submitters \cap Closers = {}
        /\ task \in [Workers \cup Submitters -> Tasks \cup {NoTask}]
        /\ todo \subseteq Tasks /\ accepted \in Seq(Tasks) /\ DOMAIN pc = Threads
    BY ThreadsAssumption DEF Threads, TypeOK
  <1>1. ASSUME accepted' = accepted, todo' = todo, task' = task,
               \A s \in Submitters : pc'[s] \in {"s_idle", "s_unlock"} =>
                                     pc[s] \in {"s_idle", "s_unlock"},
               \A w \in Workers : pc'[w] \in {"claimed", "running"} =>
                                  pc[w] \in {"claimed", "running"}
        PROVE  OnceInv'
    BY <1>1 DEF OnceInv
  <1>2. ASSUME NEW w \in Workers, QuietWorkerStep(w) PROVE OnceInv'
    <2>1. accepted' = accepted /\ todo' = todo /\ task' = task
      BY <1>2 DEF QuietWorkerStep, WLock, WCheck, WWait, WSpurious, WRelock, WExitCheck,
                  WTask, histVars
    <2> QED
      BY <1>1, <1>2, <2>1, QuietWorker
  <1>3. ASSUME NEW w \in Workers, WTakeToken(w) \/ WInc(w) PROVE OnceInv'
    BY <1>0, <1>1, <1>3 DEF WTakeToken, WInc, Goto, histVars
  <1>4. ASSUME NEW w \in Workers, WPop(w) PROVE OnceInv'
    <2>1. /\ \A x \in Threads \ {w} : pc'[x] = pc[x]
          /\ \A x \in (Workers \cup Submitters) \ {w} : task'[x] = task[x]
          /\ task'[w] = Head(tasks) /\ accepted' = accepted /\ todo' = todo /\ tasks # <<>>
      BY <1>0, <1>4 DEF WPop, Goto
    <2>2. \A v \in Workers \ {w} : pc[v] \in {"claimed", "running"} => task[v] # Head(tasks)
      BY <2>1, HeadIsNew DEF FinishedInv
    <2>3. \A s \in Submitters : task'[s] = task[s] /\ pc'[s] = pc[s]
      BY <1>0, <2>1
    <2>4. \A v \in Workers \ {w} : task'[v] = task[v] /\ pc'[v] = pc[v]
      BY <1>0, <2>1
    <2> QED
      BY <2>1, <2>2, <2>3, <2>4 DEF OnceInv
  <1>5. ASSUME NEW w \in Workers, WDec(w) PROVE OnceInv'
    <2>1. /\ \A x \in Threads \ {w} : pc'[x] = pc[x]
          /\ \A x \in (Workers \cup Submitters) \ {w} : task'[x] = task[x]
          /\ pc'[w] = "lock" /\ accepted' = accepted /\ todo' = todo
      BY <1>0, <1>5 DEF WDec, Goto, histVars
    <2>3. \A s \in Submitters : task'[s] = task[s] /\ pc'[s] = pc[s]
      BY <1>0, <2>1
    <2>4. \A v \in Workers \ {w} : task'[v] = task[v] /\ pc'[v] = pc[v]
      BY <1>0, <2>1
    <2> QED
      BY <2>1, <2>3, <2>4 DEF OnceInv
  <1>6. ASSUME NEW s \in Submitters, SCall(s) PROVE OnceInv'
    <2>1. PICK t \in todo : task' = [task EXCEPT ![s] = t] /\ todo' = todo \ {t}
      BY <1>6 DEF SCall
    <2>2. /\ t \in Tasks /\ t \notin todo' /\ todo' \subseteq todo
          /\ task'[s] = t /\ pc'[s] = "s_lock" /\ accepted' = accepted
          /\ \A r \in Submitters \ {s} : task'[r] = task[r] /\ pc'[r] = pc[r] /\ task[r] # t
          /\ \A w \in Workers : task'[w] = task[w] /\ pc'[w] = pc[w]
          /\ \A i \in DOMAIN accepted : accepted[i] # t
      BY <1>0, <1>6, <2>1 DEF SCall, Goto, OnceInv
    <2> QED
      BY <2>2 DEF OnceInv
  <1>7. ASSUME NEW s \in Submitters, SCheck(s) /\ shutdown PROVE OnceInv'
    <2>1. /\ task'[s] = NoTask /\ pc'[s] = "s_idle" /\ accepted' = accepted /\ todo' = todo
          /\ \A r \in Submitters \ {s} : task'[r] = task[r] /\ pc'[r] = pc[r]
          /\ \A w \in Workers : task'[w] = task[w] /\ pc'[w] = pc[w]
      BY <1>0, <1>7 DEF SCheck, Goto, histVars
    <2>2. NoTask \notin todo /\ \A i \in DOMAIN accepted : accepted[i] # NoTask
      BY <1>0
    <2> QED
      BY <2>1, <2>2 DEF OnceInv
  <1>8. ASSUME NEW s \in Submitters, SLock(s) \/ SUnlock(s) \/ (SCheck(s) /\ ~shutdown)
        PROVE  OnceInv'
    <2>1. /\ accepted' = accepted /\ todo' = todo /\ task' = task
          /\ \A x \in Threads \ {s} : pc'[x] = pc[x]
          /\ \/ pc'[s] = "s_check" \/ pc'[s] = "s_push"
             \/ pc[s] = "s_unlock" /\ pc'[s] = "s_idle"
      BY <1>0, <1>8 DEF SLock, SUnlock, SCheck, Goto, histVars
    <2> QED
      BY <1>0, <1>1, <2>1
  <1>9. ASSUME NEW c \in Closers, CExchange(c) \/ CLock(c) \/ CUnlock(c) \/ CJoin(c)
        PROVE  OnceInv'
    <2>1. /\ accepted' = accepted /\ todo' = todo /\ task' = task
          /\ \A x \in Threads \ {c} : pc'[x] = pc[x]
      BY <1>0, <1>9 DEF CExchange, CLock, CUnlock, CJoin, Goto, histVars
    <2> QED
      BY <1>0, <1>1, <2>1
  <1>10. ASSUME NEW s \in Submitters, SPush(s) PROVE OnceInv'
    <2>1. /\ accepted' = Append(accepted, task[s]) /\ todo' = todo
          /\ task'[s] = NoTask /\ pc[s] = "s_push" /\ pc'[s] = "s_unlock"
          /\ \A r \in Submitters \ {s} : task'[r] = task[r] /\ pc'[r] = pc[r]
          /\ \A w \in Workers : task'[w] = task[w]
          /\ \A w \in Workers : pc'[w] \in {"claimed", "running"} <=>
                                pc[w] \in {"claimed", "running"}
      <3>1. accepted' = Append(accepted, task[s]) /\ todo' = todo /\ task' = [task EXCEPT ![s] = NoTask]
        BY <1>10 DEF SPush
      <3>2. \A w \in Workers : pc'[w] \in {"claimed", "running"} <=>
                                pc[w] \in {"claimed", "running"}
        BY <1>10, PushMoves DEF Blocked
      <3>3. /\ pc[s] = "s_push" /\ pc'[s] = "s_unlock"
            /\ \A r \in Submitters \ {s} : pc'[r] = pc[r]
        BY <1>10, PushMoves
      <3> QED
        BY <1>0, <3>1, <3>2, <3>3
    <2>2. task[s] \in Tasks /\ task[s] \notin todo /\ \A i \in DOMAIN accepted : task[s] # accepted[i]
      BY <2>1 DEF HandsInv, OnceInv
    <2>3. \A r \in Submitters \ {s} : task[r] # task[s]
      BY <1>0, <2>2 DEF OnceInv
    <2>4. /\ DOMAIN accepted' = DOMAIN accepted \cup {Len(accepted) + 1}
          /\ \A i \in DOMAIN accepted : accepted'[i] = accepted[i]
          /\ accepted'[Len(accepted) + 1] = task[s]
      BY <1>0, <2>1, <2>2
    <2>5. /\ \A i, j \in DOMAIN accepted' : accepted'[i] = accepted'[j] => i = j
          /\ \A i \in DOMAIN accepted' :
               accepted'[i] \notin todo' /\ \A r \in Submitters : task'[r] # accepted'[i]
      <3>1. NoTask # task[s] /\ \A i \in DOMAIN accepted : NoTask # accepted[i]
        BY <1>0, <2>2
      <3> QED
        BY <2>1, <2>2, <2>3, <2>4, <3>1 DEF OnceInv
    <2>6. NoTask \notin todo
      BY <1>0
    <2> QED
      BY <2>1, <2>5, <2>6 DEF OnceInv
  <1>11. ASSUME NEW c \in Closers, CNotify(c) PROVE OnceInv'
    <2>1. accepted' = accepted /\ todo' = todo /\ task' = task
      BY <1>11 DEF CNotify, histVars
    <2> QED
      BY <1>1, <1>11, <2>1, NotifyAllMoves
  <1>12. CASE UNCHANGED vars
    BY <1>1, <1>12 DEF vars
  <1> QED
    BY <1>2, <1>3, <1>4, <1>5, <1>6, <1>7, <1>8, <1>9, <1>10, <1>11, <1>12, NextCases
       DEF QuietCallerStep

\* A worker leaves with the mutex in hand, and the flag turns submit() away.
LEMMA LastPushStep ==
    ASSUME TypeOK, MutexInv, ExitInv, LastPushInv, [Next]_vars
    PROVE  LastPushInv'
  <1>0. /\ Workers \cap Submitters = {}
        /\ Workers \cup Submitters \cup Closers \subseteq Threads
        /\ Workers \cap Closers = {} /\ Submitters \cap Closers = {} /\ DOMAIN pc = Threads
    BY ThreadsAssumption DEF Threads, TypeOK
  <1>1. ASSUME \A s \in Submitters : pc'[s] = "s_unlock" => pc[s] = "s_unlock",
               \A w \in Workers : pc'[w] = "exited" => pc[w] = "exited"
        PROVE  LastPushInv'
    BY <1>1 DEF LastPushInv
  <1>2. ASSUME NEW w \in Workers, QuietWorkerStep(w) PROVE LastPushInv'
    <2>1. CASE pc[w] = "exitcheck"
      <3>1. \A s \in Submitters : pc[s] # "s_unlock"
        BY <1>0, <2>1 DEF MutexInv, Inside
      <3> QED
        BY <1>2, <3>1, QuietWorker DEF LastPushInv
    <2>2. CASE pc[w] # "exitcheck"
      BY <1>1, <1>2, <2>2, QuietWorker
    <2> QED
      BY <2>1, <2>2
  <1>3. ASSUME NEW w \in Workers, WTakeToken(w) \/ WPop(w) \/ WInc(w) \/ WDec(w)
        PROVE  LastPushInv'
    BY <1>0, <1>1, <1>3 DEF WTakeToken, WPop, WInc, WDec, Goto
  <1>4. ASSUME NEW s \in Submitters, SCall(s) \/ SLock(s) \/ SCheck(s) \/ SUnlock(s)
        PROVE  LastPushInv'
    BY <1>0, <1>1, <1>4 DEF SCall, SLock, SCheck, SUnlock, Goto
  <1>5. ASSUME NEW c \in Closers, QuietCallerStep(c) PROVE LastPushInv'
    BY <1>0, <1>1, <1>5, QuietCaller
  <1>6. ASSUME NEW s \in Submitters, SPush(s) PROVE LastPushInv'
    <2>1. \A w \in Workers : pc[w] # "exited"
      BY <1>6, PushMoves DEF ExitInv
    <2>2. \A w \in Workers : pc'[w] # "exited"
      BY <1>6, <2>1, PushMoves
    <2> QED
      BY <2>2 DEF LastPushInv
  <1>7. ASSUME NEW c \in Closers, CNotify(c) PROVE LastPushInv'
    BY <1>1, <1>7, NotifyAllMoves
  <1>8. CASE UNCHANGED vars
    BY <1>1, <1>8 DEF vars
  <1> QED
    BY <1>2, <1>3, <1>4, <1>5, <1>6, <1>7, <1>8, NextCases DEF QuietCallerStep

-----------------------------------------------------------------------------
\* The state of TaskQueue that a state of the pool stands for.
TodoA == todo \cup {task[s] : s \in {x \in Submitters : task[x] # NoTask}}
AtWork == {x \in Workers : pc[x] \in {"claimed", "running"}}
RunningA == {task[w] : w \in AtWork}
ClosedA == shutdown /\ \A s \in Submitters : pc[s] \notin {"s_push", "s_unlock"}
JoinedA == \E c \in Closers : pc[c] = "c_done"

\* TaskQueue's instance of FiniteSets is FiniteSets.
LEMMA SameCardinality == ASSUME NEW S PROVE TQ!Cardinality(S) = Cardinality(S)
  BY DEF TQ!Cardinality, Cardinality

\* TaskQueue's actions over that state, as the proof uses them.
LEMMA AbstractSteps ==
    /\ \A t \in Tasks :
         /\ t \in TodoA /\ ~ClosedA /\ TodoA' = TodoA \ {t} /\ tasks' = Append(tasks, t)
         /\ UNCHANGED <<RunningA, finished, ClosedA, JoinedA>>
         => TQ!Next
    /\ \A t \in Tasks :
         /\ t \in TodoA /\ ClosedA /\ TodoA' = TodoA \ {t}
         /\ UNCHANGED <<tasks, RunningA, finished, ClosedA, JoinedA>>
         => TQ!Next
    /\ \A t \in Tasks :
         /\ t \in RunningA /\ RunningA' = RunningA \ {t} /\ finished' = finished \cup {t}
         /\ UNCHANGED <<TodoA, tasks, ClosedA, JoinedA>>
         => TQ!Next
    /\ /\ tasks # <<>> /\ Cardinality(RunningA) < Cardinality(Workers)
       /\ tasks' = Tail(tasks) /\ RunningA' = RunningA \cup {Head(tasks)}
       /\ UNCHANGED <<TodoA, finished, ClosedA, JoinedA>>
       => TQ!Next
    /\ /\ ~ClosedA /\ ClosedA' = TRUE
       /\ UNCHANGED <<TodoA, tasks, RunningA, finished, JoinedA>>
       => TQ!Next
    /\ /\ ClosedA /\ tasks = <<>> /\ RunningA = {} /\ JoinedA' = TRUE
       /\ UNCHANGED <<TodoA, tasks, RunningA, finished, ClosedA>>
       => TQ!Next
    /\ UNCHANGED <<TodoA, tasks, RunningA, finished, ClosedA, JoinedA>> => UNCHANGED TQ!vars
  <1>1. ASSUME NEW t \in Tasks, t \in TodoA, ~ClosedA, TodoA' = TodoA \ {t}, tasks' = Append(tasks, t),
               UNCHANGED <<RunningA, finished, ClosedA, JoinedA>>
        PROVE  TQ!Next
    <2>1. TQ!Accept(t)
      BY <1>1 DEF TQ!Accept, TodoA, AtWork, RunningA, ClosedA, JoinedA
    <2> QED
      BY <2>1 DEF TQ!Next
  <1>2. ASSUME NEW t \in Tasks, t \in TodoA, ClosedA, TodoA' = TodoA \ {t},
               UNCHANGED <<tasks, RunningA, finished, ClosedA, JoinedA>>
        PROVE  TQ!Next
    <2>1. TQ!Reject(t)
      BY <1>2 DEF TQ!Reject, TodoA, AtWork, RunningA, ClosedA, JoinedA
    <2> QED
      BY <2>1 DEF TQ!Next
  <1>3. ASSUME NEW t \in Tasks, t \in RunningA, RunningA' = RunningA \ {t}, finished' = finished \cup {t},
               UNCHANGED <<TodoA, tasks, ClosedA, JoinedA>>
        PROVE  TQ!Next
    <2>1. TQ!Finish(t)
      BY <1>3 DEF TQ!Finish, TodoA, AtWork, RunningA, ClosedA, JoinedA
    <2> QED
      BY <2>1 DEF TQ!Next
  <1>4. ASSUME tasks # <<>>, Cardinality(RunningA) < Cardinality(Workers),
               tasks' = Tail(tasks), RunningA' = RunningA \cup {Head(tasks)},
               UNCHANGED <<TodoA, finished, ClosedA, JoinedA>>
        PROVE  TQ!Next
    <2>1. TQ!Start
      BY <1>4, SameCardinality DEF TQ!Start, TodoA, AtWork, RunningA, ClosedA, JoinedA
    <2> QED
      BY <2>1 DEF TQ!Next
  <1>5. ASSUME ~ClosedA, ClosedA' = TRUE,
               UNCHANGED <<TodoA, tasks, RunningA, finished, JoinedA>>
        PROVE  TQ!Next
    <2>1. TQ!Close
      BY <1>5 DEF TQ!Close, TodoA, AtWork, RunningA, ClosedA, JoinedA
    <2> QED
      BY <2>1 DEF TQ!Next
  <1>6. ASSUME ClosedA, tasks = <<>>, RunningA = {}, JoinedA' = TRUE,
               UNCHANGED <<TodoA, tasks, RunningA, finished, ClosedA>>
        PROVE  TQ!Next
    <2>1. TQ!Join
      BY <1>6 DEF TQ!Join, TodoA, AtWork, RunningA, ClosedA, JoinedA
    <2> QED
      BY <2>1 DEF TQ!Next
  <1>7. UNCHANGED <<TodoA, tasks, RunningA, finished, ClosedA, JoinedA>> => UNCHANGED TQ!vars
    BY DEF TQ!vars, TodoA, AtWork, RunningA, ClosedA, JoinedA
  <1> QED
    BY <1>1, <1>2, <1>3, <1>4, <1>5, <1>6, <1>7

\* At most one closure per worker at work.
LEMMA RunningBound ==
    ASSUME NEW w \in Workers, w \notin AtWork
    PROVE  Cardinality(RunningA) < Cardinality(Workers)
  <1> DEFINE f == [x \in AtWork |-> task[x]]
  <1>1. f \in Surjection(AtWork, RunningA)
    BY DEF Surjection, RunningA
  <1>2. AtWork \subseteq Workers /\ AtWork # Workers
    BY DEF AtWork
  <1>3. /\ IsFiniteSet(AtWork) /\ Cardinality(AtWork) <= Cardinality(Workers)
        /\ Cardinality(AtWork) # Cardinality(Workers)
    BY <1>2, ThreadsAssumption, FS_Subset
  <1>4. IsFiniteSet(RunningA) /\ Cardinality(RunningA) <= Cardinality(AtWork)
    BY <1>1, <1>3, FS_Surjection
  <1>5. Cardinality(AtWork) \in Nat /\ Cardinality(Workers) \in Nat /\ Cardinality(RunningA) \in Nat
    BY <1>3, <1>4, ThreadsAssumption, FS_CardinalityType
  <1> QED
    BY <1>3, <1>4, <1>5

\* Every step of the pool is a step of the queue or leaves it alone.
LEMMA RefineStep ==
    ASSUME TypeOK, MutexInv, HandsInv, ExitInv, FlagInv, OnceInv, LastPushInv, [Next]_vars
    PROVE  TQ!Next \/ UNCHANGED TQ!vars
  <1>0. /\ Workers \cap Submitters = {} /\ NoTask \notin Tasks
        /\ Workers \cup Submitters \cup Closers \subseteq Threads
        /\ Workers \cap Closers = {} /\ Submitters \cap Closers = {}
        /\ task \in [Workers \cup Submitters -> Tasks \cup {NoTask}]
        /\ todo \subseteq Tasks /\ tasks \in Seq(Tasks) /\ DOMAIN pc = Threads
        /\ ClosedA \in BOOLEAN /\ JoinedA \in BOOLEAN
        /\ ClosedA' \in BOOLEAN /\ JoinedA' \in BOOLEAN
    BY ThreadsAssumption DEF Threads, TypeOK, ClosedA, JoinedA
  <1> DEFINE Stay == UNCHANGED <<TodoA, tasks, RunningA, finished, ClosedA, JoinedA>>
  <1>1. ASSUME Stay PROVE UNCHANGED TQ!vars
    BY <1>1, AbstractSteps
  <1> HIDE DEF Stay
  \* What a step that leaves the closures and the submitters alone keeps.
  <1>2. ASSUME todo' = todo, tasks' = tasks, task' = task, finished' = finished,
               shutdown' = shutdown, \A s \in Submitters : pc'[s] = pc[s],
               \A w \in Workers : w \in AtWork' <=> w \in AtWork,
               \A c \in Closers : pc'[c] = "c_done" <=> pc[c] = "c_done"
        PROVE  Stay
    <2>1. AtWork' = AtWork
      BY <1>2 DEF AtWork
    <2> QED
      BY <1>0, <1>2, <2>1 DEF Stay, TodoA, RunningA, ClosedA, JoinedA
  <1>3. ASSUME NEW w \in Workers, WLock(w) \/ WCheck(w) \/ WWait(w) \/ WSpurious(w)
                                  \/ WRelock(w) \/ WExitCheck(w)
        PROVE  Stay
    <2>1. QuietWorkerStep(w) /\ ~(pc[w] = "running")
      BY <1>0, <1>3 DEF QuietWorkerStep, WLock, WCheck, WWait, WSpurious, WRelock, WExitCheck,
         Goto
    <2>2. todo' = todo /\ tasks' = tasks /\ task' = task /\ finished' = finished
      BY <1>3 DEF WLock, WCheck, WWait, WSpurious, WRelock, WExitCheck, histVars
    <2>3. \A x \in Workers : x \in AtWork' <=> x \in AtWork
      BY <2>1, QuietWorker DEF AtWork
    <2> QED
      BY <1>2, <2>1, <2>2, <2>3, QuietWorker
  <1>4. ASSUME NEW w \in Workers, WTakeToken(w) \/ WInc(w) PROVE Stay
    <2>1. /\ \A x \in Threads \ {w} : pc'[x] = pc[x]
          /\ \/ pc[w] = "blocked" /\ pc'[w] = "relock"
             \/ pc[w] = "claimed" /\ pc'[w] = "running"
          /\ todo' = todo /\ tasks' = tasks /\ task' = task /\ finished' = finished
          /\ shutdown' = shutdown
      BY <1>0, <1>4 DEF WTakeToken, WInc, Goto, histVars
    <2>2. \A x \in Workers : x \in AtWork' <=> x \in AtWork
      BY <1>0, <2>1 DEF AtWork
    <2> QED
      BY <1>0, <1>2, <2>1, <2>2
  <1>5. ASSUME NEW w \in Workers, WPop(w) PROVE TQ!Next
    <2>1. /\ \A x \in Threads \ {w} : pc'[x] = pc[x]
          /\ pc[w] = "pop" /\ pc'[w] = "claimed" /\ tasks # <<>>
          /\ todo' = todo /\ tasks' = Tail(tasks) /\ finished' = finished
          /\ task' = [task EXCEPT ![w] = Head(tasks)] /\ shutdown' = shutdown
      BY <1>0, <1>5 DEF WPop, Goto
    <2>2. w \notin AtWork /\ AtWork' = AtWork \cup {w} /\ AtWork \subseteq Workers
      BY <1>0, <2>1 DEF AtWork
    <2>3. RunningA' = RunningA \cup {Head(tasks)}
      <3>1. \A x \in AtWork : task'[x] = task[x]
        BY <1>0, <2>1, <2>2
      <3>2. task'[w] = Head(tasks)
        BY <1>0, <2>1
      <3> QED
        BY <2>2, <3>1, <3>2 DEF RunningA
    <2>4. TodoA' = TodoA
      <3>1. \A s \in Submitters : task'[s] = task[s]
        BY <1>0, <2>1
      <3> QED
        BY <2>1, <3>1 DEF TodoA
    <2>5. ClosedA' = ClosedA /\ JoinedA' = JoinedA
      BY <1>0, <2>1 DEF ClosedA, JoinedA
    <2> QED
      BY <2>1, <2>2, <2>3, <2>4, <2>5, RunningBound, AbstractSteps
  <1>6. ASSUME NEW w \in Workers, WTask(w) PROVE TQ!Next
    <2>1. /\ \A x \in Threads \ {w} : pc'[x] = pc[x]
          /\ pc[w] = "running" /\ pc'[w] = "ended" /\ task' = task
          /\ todo' = todo /\ tasks' = tasks /\ finished' = finished \cup {task[w]}
          /\ shutdown' = shutdown
      BY <1>0, <1>6 DEF WTask, Goto
    <2>2. w \in AtWork /\ AtWork' = AtWork \ {w} /\ task[w] \in Tasks
      BY <1>0, <2>1 DEF AtWork, HandsInv
    <2>3. \A x \in AtWork \ {w} : task[x] # task[w]
      BY <2>2 DEF OnceInv, AtWork
    <2>4. RunningA' = RunningA \ {task[w]} /\ task[w] \in RunningA
      BY <2>1, <2>2, <2>3 DEF RunningA
    <2>5. ClosedA' = ClosedA /\ JoinedA' = JoinedA /\ TodoA' = TodoA
      BY <1>0, <2>1 DEF ClosedA, JoinedA, TodoA
    <2> QED
      BY <2>1, <2>2, <2>4, <2>5, AbstractSteps
  <1>7. ASSUME NEW w \in Workers, WDec(w) PROVE Stay
    <2>1. /\ \A x \in Threads \ {w} : pc'[x] = pc[x]
          /\ pc[w] = "ended" /\ pc'[w] = "lock" /\ task' = [task EXCEPT ![w] = NoTask]
          /\ todo' = todo /\ tasks' = tasks /\ finished' = finished /\ shutdown' = shutdown
      BY <1>0, <1>7 DEF WDec, Goto, histVars
    <2>2. AtWork' = AtWork /\ w \notin AtWork /\ AtWork \subseteq Workers
      BY <1>0, <2>1 DEF AtWork
    <2>3. /\ \A x \in AtWork : task'[x] = task[x]
          /\ \A s \in Submitters : task'[s] = task[s]
      BY <1>0, <2>1, <2>2
    <2>4. RunningA' = RunningA /\ TodoA' = TodoA
      BY <2>1, <2>2, <2>3 DEF RunningA, TodoA
    <2>5. ClosedA' = ClosedA /\ JoinedA' = JoinedA
      BY <1>0, <2>1 DEF ClosedA, JoinedA
    <2> QED
      BY <2>1, <2>4, <2>5 DEF Stay
  \* What every step of a caller keeps of the workers.
  <1>8. ASSUME NEW t \in Submitters \cup Closers, \A x \in Threads \ {t} : pc'[x] = pc[x],
               \A w \in Workers : task'[w] = task[w]
        PROVE  RunningA' = RunningA
    <2>1. AtWork' = AtWork /\ AtWork \subseteq Workers
      BY <1>0, <1>8 DEF AtWork
    <2> QED
      BY <1>8, <2>1 DEF RunningA
  <1>9. ASSUME NEW s \in Submitters, SCall(s) PROVE Stay
    <2>1. PICK t \in todo : task' = [task EXCEPT ![s] = t] /\ todo' = todo \ {t}
      BY <1>9 DEF SCall
    <2>2. /\ \A x \in Threads \ {s} : pc'[x] = pc[x]
          /\ pc[s] = "s_idle" /\ pc'[s] = "s_lock" /\ task[s] = NoTask
          /\ tasks' = tasks /\ finished' = finished /\ shutdown' = shutdown
      BY <1>0, <1>9 DEF SCall, Goto, OnceInv
    <2>3. /\ \A w \in Workers : task'[w] = task[w]
          /\ \A r \in Submitters \ {s} : task'[r] = task[r]
          /\ task'[s] = t /\ t # NoTask
      BY <1>0, <2>1
    <2>4. TodoA' = TodoA
      BY <2>1, <2>2, <2>3 DEF TodoA
    <2>5. RunningA' = RunningA
      BY <1>8, <2>2, <2>3
    <2>6. ClosedA' = ClosedA /\ JoinedA' = JoinedA
      BY <1>0, <2>2 DEF ClosedA, JoinedA
    <2> QED
      BY <2>2, <2>4, <2>5, <2>6 DEF Stay
  <1>10. ASSUME NEW s \in Submitters, SLock(s) \/ (SCheck(s) /\ ~shutdown) PROVE Stay
    <2>1. /\ \A x \in Threads \ {s} : pc'[x] = pc[x]
          /\ \/ pc[s] = "s_lock" /\ pc'[s] = "s_check"
             \/ pc[s] = "s_check" /\ pc'[s] = "s_push" /\ ~shutdown
          /\ todo' = todo /\ task' = task
          /\ tasks' = tasks /\ finished' = finished /\ shutdown' = shutdown
      BY <1>0, <1>10 DEF SLock, SCheck, Goto, histVars
    <2>2. TodoA' = TodoA /\ RunningA' = RunningA
      BY <1>8, <2>1 DEF TodoA
    <2>3. ClosedA' = ClosedA /\ JoinedA' = JoinedA
      BY <1>0, <2>1 DEF ClosedA, JoinedA
    <2> QED
      BY <2>1, <2>2, <2>3 DEF Stay
  <1>11. ASSUME NEW s \in Submitters, SCheck(s), shutdown PROVE TQ!Next
    <2>1. /\ \A x \in Threads \ {s} : pc'[x] = pc[x]
          /\ pc[s] = "s_check" /\ pc'[s] = "s_idle" /\ task' = [task EXCEPT ![s] = NoTask]
          /\ todo' = todo /\ tasks' = tasks /\ finished' = finished /\ shutdown' = shutdown
      BY <1>0, <1>11 DEF SCheck, Goto, histVars
    <2>2. /\ \A w \in Workers : task'[w] = task[w]
          /\ \A r \in Submitters \ {s} : task'[r] = task[r]
          /\ task'[s] = NoTask
      BY <1>0, <2>1
    <2>3. /\ task[s] \in Tasks /\ task[s] \notin todo
          /\ \A r \in Submitters \ {s} : task[r] # task[s]
      BY <1>0, <2>1 DEF HandsInv, OnceInv
    <2>4. TodoA' = TodoA \ {task[s]} /\ task[s] \in TodoA
      BY <1>0, <2>1, <2>2, <2>3 DEF TodoA
    <2>5. RunningA' = RunningA
      BY <1>8, <2>1, <2>2
    <2>6. ClosedA /\ ClosedA'
      <3>1. \A r \in Submitters : pc[r] \notin {"s_push", "s_unlock"}
        BY <1>0, <2>1 DEF MutexInv, Inside
      <3> QED
        BY <1>0, <1>11, <2>1, <3>1 DEF ClosedA
    <2>7. ClosedA' = ClosedA
      BY <1>0, <2>6
    <2>8. JoinedA' = JoinedA
      BY <1>0, <2>1 DEF JoinedA
    <2> QED
      BY <2>1, <2>3, <2>4, <2>5, <2>6, <2>7, <2>8, AbstractSteps
  <1>12. ASSUME NEW s \in Submitters, SPush(s) PROVE TQ!Next
    <2>1. /\ pc[s] = "s_push" /\ pc'[s] = "s_unlock"
          /\ \A r \in Submitters \ {s} : pc'[r] = pc[r]
          /\ \A c \in Closers : pc'[c] = pc[c]
          /\ \A w \in Workers : w \in AtWork' <=> w \in AtWork
      BY <1>12, PushMoves DEF AtWork, Blocked
    <2>2. /\ task' = [task EXCEPT ![s] = NoTask] /\ todo' = todo
          /\ tasks' = Append(tasks, task[s]) /\ finished' = finished
      BY <1>12 DEF SPush
    <2>3. /\ \A w \in Workers : task'[w] = task[w]
          /\ \A r \in Submitters \ {s} : task'[r] = task[r]
          /\ task'[s] = NoTask
      BY <1>0, <2>2
    <2>4. /\ task[s] \in Tasks /\ task[s] \notin todo
          /\ \A r \in Submitters \ {s} : task[r] # task[s]
      BY <1>0, <2>1 DEF HandsInv, OnceInv
    <2>5. TodoA' = TodoA \ {task[s]} /\ task[s] \in TodoA
      BY <1>0, <2>2, <2>3, <2>4 DEF TodoA
    <2>6. RunningA' = RunningA
      <3>1. AtWork' = AtWork /\ AtWork \subseteq Workers
        BY <2>1 DEF AtWork
      <3> QED
        BY <2>3, <3>1 DEF RunningA
    <2>7. ~ClosedA /\ ClosedA' = ClosedA
      BY <1>0, <2>1 DEF ClosedA
    <2>8. JoinedA' = JoinedA
      BY <1>0, <2>1 DEF JoinedA
    <2> QED
      BY <2>2, <2>4, <2>5, <2>6, <2>7, <2>8, AbstractSteps
  <1>13. ASSUME NEW t \in Submitters \cup Closers,
                (t \in Submitters /\ SUnlock(t)) \/ (t \in Closers /\ CExchange(t))
         PROVE  TQ!Next \/ Stay
    <2>1. /\ \A x \in Threads \ {t} : pc'[x] = pc[x]
          /\ \/ pc[t] = "s_unlock" /\ pc'[t] = "s_idle" /\ shutdown' = shutdown
             \/ pc[t] = "c_start" /\ pc'[t] \in {"c_lock", "c_already"} /\ shutdown' = TRUE
          /\ todo' = todo /\ task' = task /\ tasks' = tasks /\ finished' = finished
      BY <1>0, <1>13 DEF SUnlock, CExchange, Goto, histVars
    <2>2. TodoA' = TodoA /\ RunningA' = RunningA
      BY <1>8, <2>1 DEF TodoA
    <2>3. JoinedA' = JoinedA
      BY <1>0, <2>1 DEF JoinedA
    <2>4. ClosedA => ClosedA'
      BY <1>0, <2>1 DEF ClosedA
    <2>5. CASE ClosedA' = ClosedA
      BY <2>1, <2>2, <2>3, <2>5 DEF Stay
    <2>6. CASE ~ClosedA /\ ClosedA' = TRUE
      BY <2>1, <2>2, <2>3, <2>6, AbstractSteps
    <2> QED
      BY <1>0, <2>4, <2>5, <2>6
  <1>14. ASSUME NEW c \in Closers, CLock(c) \/ CUnlock(c) \/ CNotify(c) PROVE Stay
    <2>1. /\ todo' = todo /\ task' = task /\ tasks' = tasks /\ finished' = finished
          /\ shutdown' = shutdown
      BY <1>14 DEF CLock, CUnlock, CNotify, histVars
    <2>2. CASE CNotify(c)
      BY <1>2, <2>1, <2>2, NotifyAllMoves DEF AtWork
    <2>3. CASE CLock(c) \/ CUnlock(c)
      <3>1. /\ \A x \in Threads \ {c} : pc'[x] = pc[x]
            /\ pc[c] # "c_done" /\ pc'[c] # "c_done"
        BY <1>0, <2>3 DEF CLock, CUnlock, Goto
      <3>2. \A w \in Workers : w \in AtWork' <=> w \in AtWork
        BY <1>0, <3>1 DEF AtWork
      <3> QED
        BY <1>0, <1>2, <2>1, <3>1, <3>2
    <2> QED
      BY <1>14, <2>2, <2>3
  <1>15. ASSUME NEW c \in Closers, CJoin(c) PROVE TQ!Next
    <2>1. /\ \A x \in Threads \ {c} : pc'[x] = pc[x]
          /\ \A w \in Workers : pc[w] = "exited"
          /\ pc[c] = "c_join" /\ pc'[c] = "c_done"
          /\ todo' = todo /\ task' = task /\ tasks' = tasks /\ finished' = finished
          /\ shutdown' = shutdown
      BY <1>0, <1>15 DEF CJoin, Goto, histVars
    <2>2. TodoA' = TodoA /\ RunningA' = RunningA /\ RunningA = {}
      <3>1. AtWork = {}
        BY <2>1 DEF AtWork
      <3> QED
        BY <1>8, <2>1, <3>1 DEF TodoA, RunningA
    <2>3. /\ shutdown /\ tasks = <<>>
          /\ \A s \in Submitters : pc[s] \notin {"s_push", "s_unlock"}
      BY <2>1, ThreadsAssumption DEF ExitInv, LastPushInv
    <2>4. ClosedA /\ ClosedA' = ClosedA
      BY <1>0, <2>1, <2>3 DEF ClosedA
    <2>5. JoinedA' = TRUE
      BY <1>0, <2>1 DEF JoinedA
    <2> QED
      BY <2>1, <2>2, <2>3, <2>4, <2>5, AbstractSteps
  <1>16. CASE UNCHANGED vars
    <2>1. Stay
      BY <1>2, <1>16 DEF vars, AtWork
    <2> QED
      BY <1>1, <2>1
  <1> QED
    BY <1>1, <1>3, <1>4, <1>5, <1>6, <1>7, <1>9, <1>10, <1>11, <1>12, <1>13, <1>14, <1>15, <1>16
       DEF Next, WorkerStep, SubmitterStep, CloserStep, Terminated

-----------------------------------------------------------------------------
(* The theorems.                                                           *)

\* IInv is inductive.
LEMMA Inductive == Spec => []IInv
  <1>1. Init => IInv
    <2> SUFFICES ASSUME Init PROVE IInv
      OBVIOUS
    <2>1. /\ \A w \in Workers : pc[w] = "lock"
          /\ \A s \in Submitters : pc[s] = "s_idle"
          /\ \A c \in Closers : pc[c] = "c_start"
      BY ThreadsAssumption DEF Init, Threads
    <2>2. TypeOK
      <3>1. pc \in [Threads -> WorkerPC \cup SubmitterPC \cup CloserPC]
        BY DEF Init, WorkerPC, SubmitterPC, CloserPC
      <3>2. task \in [Workers \cup Submitters -> Tasks \cup {NoTask}]
        BY DEF Init
      <3>3. /\ \A w \in Workers : pc[w] \in WorkerPC
            /\ \A s \in Submitters : pc[s] \in SubmitterPC
            /\ \A c \in Closers : pc[c] \in CloserPC
        BY <2>1 DEF WorkerPC, SubmitterPC, CloserPC
      <3>4. mutex \in Threads \cup {NoThread} /\ shutdown \in BOOLEAN
        BY DEF Init
      <3>5. activeTasks \in Nat /\ waiters \in Int /\ sema \in Nat
        BY DEF Init
      <3>6. tasks \in Seq(Tasks) /\ accepted \in Seq(Tasks) /\ started \in Seq(Tasks)
        BY DEF Init
      <3>7. todo \in SUBSET Tasks /\ finished \in SUBSET Tasks
        BY DEF Init
      <3>8. build \in {"win32", "posix"}
        BY DEF Init
      <3> QED
        BY <3>1, <3>2, <3>3, <3>4, <3>5, <3>6, <3>7, <3>8 DEF TypeOK
    <2>3. MutexInv
      BY <2>1 DEF MutexInv, Inside, Threads
    <2>4. HandsInv /\ LoopInv /\ ExitInv
      BY <2>1 DEF HandsInv, LoopInv, PopFindsTask, ExitInv
    <2>5. FifoExactlyOnce /\ StartedInv /\ FinishedInv
      BY <2>1 DEF Init, FifoExactlyOnce, StartedInv, FinishedInv
    <2>6. SleepInv /\ FlagInv /\ LastPushInv
      BY <2>1 DEF SleepInv, FlagInv, LastPushInv
    <2>7. OnceInv
      <3>1. /\ accepted = <<>> /\ todo = Tasks
            /\ \A s \in Submitters : task[s] = NoTask
        BY DEF Init
      <3> QED
        BY <2>1, <3>1, ThreadsAssumption DEF OnceInv
    <2>8. WaitersExact /\ ActiveExact /\ WorkConserving /\ ShutdownWakesAll
      <3>1. InWait = {} /\ Busy = {} /\ Blocked = {}
        BY <2>1 DEF InWait, Busy, Blocked
      <3>2. WaitersExact /\ ActiveExact
        BY <3>1, FS_EmptySet DEF Init, WaitersExact, ActiveExact, Busy
      <3>3. WorkConserving /\ ShutdownWakesAll
        BY <2>1, <3>1 DEF WorkConserving, ShutdownWakesAll
      <3> QED
        BY <3>2, <3>3
    <2> QED
      BY <2>2, <2>3, <2>4, <2>5, <2>6, <2>7, <2>8 DEF IInv
  <1>2. IInv /\ [Next]_vars => IInv'
    BY TypeStep, MutexStep, HandsStep, LoopStep, ExitStep, FifoStep, StartedStep,
       FinishedStep, SleepStep, OnceStep, LastPushStep, WaitersStep, ActiveStep,
       WorkStep, WakeStep DEF IInv
  <1> QED
    BY <1>1, <1>2, PTL DEF Spec

\* Every variable of the pool keeps its type: in particular the queue only
\* ever holds closures and every thread is at a point of its own function.
THEOREM TypeCorrect == Spec => []TypeOK
  <1>1. IInv => TypeOK
    BY DEF IInv
  <1> QED
    BY <1>1, Inductive, PTL

\* submit() and workerLoop() hand tasks over in order, each exactly once.
THEOREM Fifo == Spec => []FifoExactlyOnce
  <1>1. IInv => FifoExactlyOnce
    BY DEF IInv
  <1> QED
    BY <1>1, Inductive, PTL

\* workerLoop() never pops an empty queue.
THEOREM PopSafe == Spec => []PopFindsTask
  <1>1. IInv => PopFindsTask
    BY DEF IInv, LoopInv
  <1> QED
    BY <1>1, Inductive, PTL

\* The hand-written CondVar counts its waiters right.
THEOREM WaitersCounted == Spec => []WaitersExact
  <1>1. IInv => WaitersExact
    BY DEF IInv
  <1> QED
    BY <1>1, Inductive, PTL

\* activeCount() is exact at every moment, whatever tasks throw.
THEOREM ActiveCounted == Spec => []ActiveExact
  <1>1. IInv => ActiveExact
    BY DEF IInv
  <1> QED
    BY <1>1, Inductive, PTL

\* No wakeup is lost: a task is not left to busy workers while one sleeps.
THEOREM WakeupsSuffice == Spec => []WorkConserving
  <1>1. IInv => WorkConserving
    BY DEF IInv
  <1> QED
    BY <1>1, Inductive, PTL

\* shutdown() reaches every sleeping worker, and none falls asleep after it.
THEOREM ShutdownWakes == Spec => []ShutdownWakesAll
  <1>1. IInv => ShutdownWakesAll
    BY DEF IInv
  <1> QED
    BY <1>1, Inductive, PTL

\* shutdown() returns with the workers gone and every accepted task finished.
THEOREM ShutdownDrains == Spec => []DrainedWhenJoined
  <1>1. ASSUME IInv, NEW c \in Closers, pc[c] = "c_done"
        PROVE  /\ \A w \in Workers : pc[w] = "exited"
               /\ tasks = <<>>
               /\ finished = {accepted[i] : i \in DOMAIN accepted}
    <2>1. \A w \in Workers : pc[w] = "exited"
      BY <1>1 DEF IInv, ExitInv
    <2>2. tasks = <<>>
      BY <1>1, <2>1, ThreadsAssumption DEF IInv, ExitInv
    <2>3. accepted = started
      BY <1>1, <2>2 DEF IInv, TypeOK, FifoExactlyOnce
    <2>4. \A i \in DOMAIN started : started[i] \in finished
      BY <1>1, <2>1 DEF IInv, StartedInv
    <2>5. \A t \in finished : \E i \in DOMAIN started : started[i] = t
      BY <1>1 DEF IInv, FinishedInv
    <2> QED
      BY <2>1, <2>2, <2>3, <2>4, <2>5
  <1>2. IInv => DrainedWhenJoined
    BY <1>1 DEF DrainedWhenJoined
  <1> QED
    BY <1>2, Inductive, PTL

\* Seen through the mapping of module ThreadPool, submit(), workerLoop() and
\* shutdown() together do what TaskQueue promises, whatever the interleaving.
THEOREM PoolImplementsTaskQueue == Spec => ImplementsTaskQueue
  <1>1. Init => TQ!Init
    <2> SUFFICES ASSUME Init PROVE TQ!Init
      OBVIOUS
    <2>1. /\ todo = Tasks /\ tasks = <<>> /\ finished = {} /\ shutdown = FALSE
          /\ \A s \in Submitters : task[s] = NoTask
          /\ \A w \in Workers : pc[w] = "lock"
          /\ \A c \in Closers : pc[c] = "c_start"
      BY ThreadsAssumption DEF Init, Threads
    <2> QED
      BY <2>1 DEF TQ!Init
  <1>2. IInv /\ [Next]_vars => TQ!Next \/ UNCHANGED TQ!vars
    BY RefineStep DEF IInv
  <1> QED
    BY <1>1, <1>2, Inductive, PTL DEF Spec, ImplementsTaskQueue, TQ!Spec
=============================================================================
