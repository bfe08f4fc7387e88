---------------------------- MODULE RateLimiter -----------------------------
(***************************************************************************)
(* The bandwidth limiter of a session (RateLimiter, src/server/transfer.h) *)
(* and the clock it reads.  One thread calls throttle() after each chunk   *)
(* it has moved; time passes in between.  Time is kept in integer units    *)
(* since the start of the window, so the code's floating-point quotients   *)
(* become integer ones, rounded where the code rounds.                     *)
(*                                                                         *)
(* clock() is wall time in whole milliseconds on win32 and, on POSIX, the  *)
(* processor time of all threads of the process: it can stand still while  *)
(* every session waits, and run up to Cores times as fast as time while    *)
(* all Cores processors work for the process.                              *)
(***************************************************************************)
EXTENDS Integers

CONSTANTS Limits,    \* values of limit_ other than 0, with which throttle() returns
          Ms,        \* units of time in a millisecond
          Second,    \* units of time in a second
          Cores,     \* processors the process may use, the session's own included
          MaxChunk,  \* bound of the model: bytes moved between two calls
          MaxPass,   \* bound of the model: time one chunk takes
          MaxWall,   \* bound of the model: length of a window
          MaxLate    \* bound of the model: time a sleep lasts too long

ASSUME LimiterAssumption ==
    /\ Limits \subseteq Nat \ {0}
    /\ {Ms, Second, Cores, MaxChunk, MaxPass, MaxWall} \subseteq Nat \ {0}
    /\ MaxLate \in Nat
    /\ Second % Ms = 0

VARIABLES
    build,        \* "win32" or "posix": chosen once
    limit,        \* limit_: set once, by the session's constructor
    windowBytes,  \* windowBytes_
    wall,         \* time since windowStart_ was read
    ticks,        \* what clock() has counted since then
    phase,        \* how far into a millisecond the clock was then (win32)
    pending,      \* bytes moved since the last call, 0 = the call has returned
    closed        \* history: the window throttle() has just reset

fixed == <<build, limit>>
vars == <<build, limit, windowBytes, wall, ticks, phase, pending, closed>>

NoWindow == [bytes |-> 0, wall |-> 0, slept |-> 0, late |-> 0]

Init ==
    /\ build \in {"win32", "posix"} /\ limit \in Limits
    /\ windowBytes = 0 /\ wall = 0 /\ ticks = 0
    /\ phase \in (IF build = "win32" THEN 0 .. Ms - 1 ELSE {0})
    /\ pending = 0 /\ closed = NoWindow

\* A chunk of n bytes is sent or received, which takes d.  On POSIX the clock counts
\* what the processors have worked for the process meanwhile, this session included:
\* between nothing and all Cores of them all the time.
Move(n, d) ==
    /\ pending = 0
    /\ pending' = n
    /\ wall + d <= MaxWall /\ wall' = wall + d
    /\ \E c \in (IF build = "win32" THEN {d} ELSE 0 .. Cores * d) : ticks' = ticks + c
    /\ closed' = NoWindow
    /\ UNCHANGED <<fixed, windowBytes, phase>>

\* now - windowStart_
Reading == IF build = "win32" THEN ((phase + ticks) \div Ms) * Ms ELSE ticks

elapsed == IF Reading < Ms THEN Ms ELSE Reading

\* Bytes and budget are compared after multiplication with the units of a second.
Excess(bytes) == bytes * Second - limit * elapsed

\* Mutant: sleeps for all bytes of the window, not for the excess.
SleepForAll(bytes) ==
    IF Excess(bytes) > 0 THEN (bytes * Second) \div (limit * Ms) ELSE 0

sleepMs(bytes) == IF Excess(bytes) > 0 THEN Excess(bytes) \div (limit * Ms) ELSE 0

\* Mutant: only a sleep resets the window.
ResetAfterSleepOnly(bytes) == sleepMs(bytes) > 0

Resets(bytes) == sleepMs(bytes) > 0 \/ elapsed >= Second

\* throttle(): the call that leaves the window open ...
ThrottleOn ==
    /\ pending > 0
    /\ ~Resets(windowBytes + pending)
    /\ windowBytes' = windowBytes + pending
    /\ pending' = 0
    /\ UNCHANGED <<fixed, wall, ticks, phase, closed>>

\* ... and the one that sleeps or finds the second over, and starts another.
ThrottleReset(late) ==
    LET bytes == windowBytes + pending
        slept == sleepMs(bytes) * Ms
    IN  /\ pending > 0
        /\ Resets(bytes)
        /\ slept = 0 => late = 0
        /\ closed' = [bytes |-> bytes, wall |-> wall, slept |-> slept, late |-> late]
        /\ windowBytes' = 0 /\ wall' = 0 /\ ticks' = 0
        /\ phase' = IF build = "win32" THEN (phase + wall + slept + late) % Ms ELSE 0
        /\ pending' = 0
        /\ UNCHANGED fixed

Next ==
    \/ \E n \in 1 .. MaxChunk, d \in 0 .. MaxPass : Move(n, d)
    \/ ThrottleOn
    \/ \E late \in 0 .. MaxLate : ThrottleReset(late)

Spec == Init /\ [][Next]_vars

-----------------------------------------------------------------------------
\* Types; windowBytes_ holds less than the bytes of a second and a millisecond,
\* whatever the clock does and however large the chunks are ("Reset window every
\* second to prevent integer overflow").
TypeOK ==
    /\ build \in {"win32", "posix"} /\ limit \in Limits
    /\ windowBytes \in Nat /\ windowBytes * Second < limit * (Second + Ms)
    /\ wall \in 0 .. MaxWall
    /\ ticks \in 0 .. Second + Cores * MaxPass
    /\ phase \in 0 .. Ms - 1
    /\ pending \in 0 .. MaxChunk
    /\ closed \in [bytes : Nat, wall : 0 .. MaxWall, slept : Nat,
                     late : 0 .. MaxLate]

\* What "Limits throughput to maxBytesPerSec" (transfer.h) and "Bandwidth limit per
\* connection in KB/s" (server.conf) mean for a window of the wall time t that ended
\* with a sleep of length p: less than the limit allows for t + p and two milliseconds
\* more, one for the clamp of a short elapsed time or the clock's granularity, one for
\* the truncated sleep.
WithinLimit(bytes, t, p) == bytes * Second < limit * (t + p + 2 * Ms)

\* On win32, where clock() is time, every window that throttle() ends is within the
\* documented limit, and one that had to sleep has also moved what the limit allows,
\* less a millisecond: the session is slowed down to its rate, not below.  On POSIX
\* the documented limit does NOT hold: a window is only held to the limit for the
\* time its clock may have counted, Cores times the time that passed, so that a
\* session may run at up to Cores times the limit while others keep the processors
\* busy; and nothing is claimed from below.
RateKept ==
    closed # NoWindow =>
        /\ build = "win32" =>
              /\ WithinLimit(closed.bytes, closed.wall, closed.slept)
              /\ closed.slept > 0 =>
                    closed.bytes * Second > limit * (closed.wall + closed.slept - Ms)
        /\ build = "posix" => WithinLimit(closed.bytes, Cores * closed.wall, closed.slept)
=============================================================================
