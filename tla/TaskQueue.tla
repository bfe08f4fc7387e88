----------------------------- MODULE TaskQueue -----------------------------
(***************************************************************************)
(* What ThreadPool promises its callers, with no mutex, no condition       *)
(* variable and no thread in sight: tasks are accepted in some order until *)
(* the queue is closed, started in that order and each exactly once, at    *)
(* most Slots of them at a time, and whoever waits for the pool to end     *)
(* gets control back only when nothing is left to run.                     *)
(***************************************************************************)
EXTENDS Naturals, Sequences, FiniteSets

CONSTANTS Tasks,      \* the closures that callers may submit
          Slots       \* number of workers

VARIABLES todo,       \* tasks not yet submitted, or whose submit() is undecided
          queue,      \* accepted, not yet started
          running,    \* started, not yet finished
          done,       \* finished, normally or by an exception
          closed,     \* no further task is accepted
          joined      \* some shutdown() has returned after waiting

vars == <<todo, queue, running, done, closed, joined>>

Init ==
    /\ todo = Tasks
    /\ queue = <<>>
    /\ running = {}
    /\ done = {}
    /\ closed = FALSE
    /\ joined = FALSE

Accept(t) ==
    /\ t \in todo
    /\ ~closed
    /\ todo' = todo \ {t}
    /\ queue' = Append(queue, t)
    /\ UNCHANGED <<running, done, closed, joined>>

Reject(t) ==
    /\ t \in todo
    /\ closed
    /\ todo' = todo \ {t}
    /\ UNCHANGED <<queue, running, done, closed, joined>>

Start ==
    /\ queue # <<>>
    /\ Cardinality(running) < Slots
    /\ queue' = Tail(queue)
    /\ running' = running \cup {Head(queue)}
    /\ UNCHANGED <<todo, done, closed, joined>>

Finish(t) ==
    /\ t \in running
    /\ running' = running \ {t}
    /\ done' = done \cup {t}
    /\ UNCHANGED <<todo, queue, closed, joined>>

Close ==
    /\ ~closed
    /\ closed' = TRUE
    /\ UNCHANGED <<todo, queue, running, done, joined>>

Join ==
    /\ closed
    /\ queue = <<>>
    /\ running = {}
    /\ joined' = TRUE
    /\ UNCHANGED <<todo, queue, running, done, closed>>

Next ==
    \/ \E t \in Tasks : Accept(t) \/ Reject(t) \/ Finish(t)
    \/ Start
    \/ Close
    \/ Join

Spec == Init /\ [][Next]_vars
=============================================================================
