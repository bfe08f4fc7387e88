-------------------------- MODULE RateLimiterProofs -------------------------
(***************************************************************************)
(* For any limit, granularity of the clock, number of processors and size  *)
(* of the chunks: the rate is kept, and windowBytes_ stays small.          *)
(***************************************************************************)
EXTENDS RateLimiter, TLAPS

-----------------------------------------------------------------------------
(* The strengthening.                                                      *)

\* What clock() has counted is bounded by the time that has passed, and between
\* two calls the window is less than a second old.
ClockInv ==
    /\ build = "win32" => ticks = wall
    /\ build = "posix" => ticks <= Cores * wall /\ phase = 0
    /\ pending = 0 => ticks < Second

IInv == TypeOK /\ ClockInv /\ RateKept

-----------------------------------------------------------------------------
(* Arithmetic.                                                             *)

\* A division leaves a remainder.
LEMMA Division ==
    ASSUME NEW m \in Nat \ {0}, NEW k \in Nat
    PROVE  k \div m \in Nat /\ k % m \in 0 .. m - 1 /\ k = m * (k \div m) + (k % m)
  OBVIOUS

\* Products of a positive factor.
LEMMA Products ==
    ASSUME NEW c \in Nat \ {0}, NEW a \in Int, NEW b \in Int
    PROVE  /\ c * a \in Int
           /\ c * (a + b) = c * a + c * b
           /\ c * (a - b) = c * a - c * b
           /\ a < b => c * a < c * b
           /\ a <= b => c * a <= c * b
  OBVIOUS

\* The constants are positive numbers.
LEMMA Constants ==
    /\ Ms \in Nat \ {0} /\ Second \in Nat \ {0} /\ Cores \in Nat \ {0}
    /\ MaxPass \in Nat \ {0} /\ MaxChunk \in Nat \ {0} /\ MaxWall \in Nat \ {0}
    /\ MaxLate \in Nat /\ Limits \subseteq Nat \ {0}
  BY LimiterAssumption

\* A second is a whole number of milliseconds.
LEMMA WholeSecond ==
    \E k \in Nat : Second = Ms * k
  <1>1. Second = Ms * (Second \div Ms) + (Second % Ms) /\ Second \div Ms \in Nat
    BY Constants, Division
  <1>2. Second % Ms = 0
    BY LimiterAssumption
  <1>3. Second = Ms * (Second \div Ms)
    <2> DEFINE q == Second \div Ms
               r == Second % Ms
    <2>1. Second = Ms * q + r /\ r = 0 /\ q \in Nat
      BY <1>1, <1>2
    <2> HIDE DEF q, r
    <2>2. Second = Ms * q
      BY <2>1, Constants
    <2> QED
      BY <2>2 DEF q
  <1> QED
    BY <1>1, <1>3

\* What now - windowStart_ can be off by.
LEMMA ReadingFacts ==
    ASSUME IInv
    PROVE  /\ Reading \in Nat /\ elapsed \in Nat /\ elapsed >= Ms /\ elapsed >= Reading
           /\ elapsed = Ms \/ elapsed = Reading
           /\ build = "win32" => Reading <= wall + (Ms - 1) /\ Reading > wall - Ms
           /\ build = "posix" => Reading = ticks
           /\ Reading < Second => ticks < Second
  <1>1. build \in {"win32", "posix"} /\ ticks \in Nat /\ phase \in 0 .. Ms - 1
    BY Constants DEF IInv, TypeOK
  <1>2. CASE build = "posix"
    <2>1. Reading = ticks
      BY <1>2 DEF Reading
    <2> QED
      BY <1>1, <1>2, <2>1, Constants DEF elapsed
  <1>3. CASE build = "win32"
    <2> DEFINE t == phase + ticks
               q == t \div Ms
               r == t % Ms
    <2>1. t \in Nat /\ Reading = q * Ms
      BY <1>1, <1>3, Constants DEF Reading
    <2>2. q \in Nat /\ r \in 0 .. Ms - 1 /\ t = Ms * q + r
      BY <2>1, Constants, Division
    <2>3. ticks = wall /\ t = phase + ticks
      BY <1>3 DEF IInv, ClockInv
    <2> HIDE DEF t, q, r
    <2>4. Ms * q = q * Ms /\ Ms * q \in Nat
      BY <2>2, Constants
    <2>5. Reading = t - r /\ Reading \in Nat
      BY <2>1, <2>2, <2>4
    <2>6. Reading <= wall + (Ms - 1) /\ Reading > wall - Ms
      BY <1>1, <2>2, <2>3, <2>5, Constants
    <2>7. ASSUME Reading < Second
          PROVE  ticks < Second
      <3>1. PICK k \in Nat : Second = Ms * k
        BY WholeSecond
      <3>2. Ms * q < Ms * k
        BY <2>1, <2>4, <2>7, <3>1
      <3>3. q + 1 <= k
        <4>1. CASE k <= q
          BY <2>2, <3>1, <3>2, <4>1, Products, Constants
        <4> QED
          BY <2>2, <3>1, <4>1
      <3>4. Ms * (q + 1) <= Ms * k
        BY <2>2, <3>1, <3>3, Products, Constants
      <3>5. Ms * (q + 1) = Ms * q + Ms
        BY <2>2, Constants
      <3> QED
        BY <1>1, <2>2, <2>3, <2>4, <3>1, <3>4, <3>5, Constants
    <2> QED
      BY <1>3, <2>5, <2>6, <2>7, Constants DEF elapsed
  <1> QED
    BY <1>1, <1>2, <1>3

\* What the truncated quotient sleepMs can be off by: a millisecond at most.
LEMMA SleepFacts ==
    ASSUME IInv, NEW bytes \in Nat
    PROVE  /\ sleepMs(bytes) \in Nat
           /\ bytes * Second < limit * elapsed + limit * (sleepMs(bytes) * Ms) + limit * Ms
           /\ sleepMs(bytes) > 0 =>
                bytes * Second >= limit * elapsed + limit * (sleepMs(bytes) * Ms)
  <1> DEFINE x == Excess(bytes)
             m == limit * Ms
             q == sleepMs(bytes)
  <1>1. limit \in Nat \ {0} /\ elapsed \in Nat
    BY Constants, ReadingFacts DEF IInv, TypeOK
  <1>2. x \in Int /\ x = bytes * Second - limit * elapsed /\ m \in Nat \ {0}
        /\ limit * elapsed \in Nat /\ bytes * Second \in Nat
    BY <1>1, Constants DEF Excess
  <1>3. bytes * Second = limit * elapsed + x
    BY <1>2
  <1>4. q = IF x > 0 THEN x \div m ELSE 0
    BY DEF sleepMs
  <1> HIDE DEF x, m, q
  <1>5. CASE x > 0
    <2>1. x \in Nat
      BY <1>2, <1>5
    <2>2. q \in Nat /\ x % m \in 0 .. m - 1 /\ x = m * q + (x % m)
      BY <1>2, <1>4, <1>5, <2>1, Division
    <2>3. m * q \in Nat /\ m * q = limit * (q * Ms)
      BY <1>1, <2>2, Constants DEF m
    <2>4. x < m * q + m /\ x >= m * q
      BY <1>2, <2>2, <2>3
    <2> QED
      BY <1>2, <1>3, <2>2, <2>3, <2>4 DEF m, q
  <1>6. CASE ~(x > 0)
    <2>1. q = 0 /\ limit * (q * Ms) = 0
      BY <1>1, <1>4, <1>6, Constants
    <2> QED
      BY <1>2, <1>3, <1>6, <2>1 DEF m, q
  <1> QED
    BY <1>5, <1>6

-----------------------------------------------------------------------------
(* Steps.                                                                  *)

\* The types of what a step starts from.
LEMMA Types ==
    ASSUME IInv
    PROVE  /\ build \in {"win32", "posix"} /\ limit \in Limits /\ limit \in Nat \ {0}
           /\ windowBytes \in Nat /\ wall \in 0 .. MaxWall /\ ticks \in Nat
           /\ phase \in 0 .. Ms - 1 /\ pending \in 0 .. MaxChunk
           /\ closed \in [bytes : Nat, wall : 0 .. MaxWall, slept : Nat, late : 0 .. MaxLate]
  BY Constants DEF IInv, TypeOK

\* No window is reported as one that ended.
LEMMA NoWindowType ==
    NoWindow \in [bytes : Nat, wall : 0 .. MaxWall, slept : Nat, late : 0 .. MaxLate]
  BY Constants DEF NoWindow

\* A chunk: the clock runs no faster than the processors let it.
LEMMA MoveStep ==
    ASSUME IInv, NEW n \in 1 .. MaxChunk, NEW d \in 0 .. MaxPass, Move(n, d)
    PROVE  IInv'
  <1>1. PICK c \in (IF build = "win32" THEN {d} ELSE 0 .. Cores * d) : ticks' = ticks + c
    BY DEF Move
  <1>2. /\ pending = 0 /\ pending' = n /\ wall + d <= MaxWall /\ wall' = wall + d
        /\ closed' = NoWindow
        /\ UNCHANGED <<build, limit, windowBytes, phase>>
    BY DEF Move, fixed
  <1>3. Cores * d \in Nat /\ d <= Cores * d /\ Cores * d <= Cores * MaxPass
        /\ Cores * (wall + d) = Cores * wall + Cores * d /\ Cores * wall \in Nat
    <2>1. Cores * 1 = Cores /\ d \in Nat /\ wall \in Nat
      BY Types, Constants
    <2> QED
      BY <2>1, Products, Constants
  <1>4. c \in 0 .. Cores * d /\ c \in Nat
    BY <1>1, <1>3, Constants
  <1>5. ticks < Second /\ ticks \in Nat
    BY <1>2, Types DEF IInv, ClockInv
  <1>6. ticks' \in 0 .. Second + Cores * MaxPass
    <2>1. Cores * MaxPass \in Nat
      BY Constants
    <2> QED
      BY <1>1, <1>3, <1>4, <1>5, <2>1, Constants
  <1>7. TypeOK'
    BY <1>2, <1>6, Types, NoWindowType, Constants DEF IInv, TypeOK
  <1>8. ClockInv'
    <2>1. build = "win32" => ticks' = wall'
      BY <1>1, <1>2 DEF IInv, ClockInv
    <2>2. build = "posix" => ticks' <= Cores * wall' /\ phase' = 0
      BY <1>1, <1>2, <1>3, <1>4, <1>5 DEF IInv, ClockInv
    <2>3. pending' # 0
      BY <1>2, Constants
    <2> QED
      BY <1>2, <2>1, <2>2, <2>3 DEF ClockInv
  <1>9. RateKept'
    BY <1>2 DEF RateKept, NoWindow
  <1> QED
    BY <1>7, <1>8, <1>9 DEF IInv

\* throttle() returns at once: the window is within its budget and its second.
LEMMA OnStep ==
    ASSUME IInv, ThrottleOn
    PROVE  IInv'
  <1> DEFINE b == windowBytes + pending
             q == sleepMs(b)
  <1>1. /\ ~Resets(b) /\ windowBytes' = b /\ pending' = 0
        /\ UNCHANGED <<build, limit, wall, ticks, phase, closed>>
    BY DEF ThrottleOn, fixed
  <1>2. b \in Nat
    BY Types, Constants
  <1> HIDE DEF b
  <1>3. /\ q \in Nat
        /\ b * Second < limit * elapsed + limit * (q * Ms) + limit * Ms
    BY <1>2, SleepFacts
  <1>4. ~(q > 0) /\ ~(elapsed >= Second)
    BY <1>1 DEF Resets
  <1>5. elapsed < Second /\ elapsed \in Nat /\ Reading \in Nat /\ elapsed >= Reading
    BY <1>4, ReadingFacts, Constants
  <1> HIDE DEF q
  <1>6. b * Second < limit * (Second + Ms)
    <2>1. q = 0
      BY <1>3, <1>4
    <2>2. limit * (q * Ms) = 0
      BY <2>1, Types, Constants
    <2>3. limit * elapsed <= limit * Second /\ limit * (Second + Ms) = limit * Second + limit * Ms
      BY <1>5, Products, Types, Constants
    <2>4. limit * elapsed \in Nat /\ limit * Second \in Nat /\ limit * Ms \in Nat
          /\ b * Second \in Nat
      BY <1>2, <1>5, Types, Constants
    <2> QED
      BY <1>3, <2>2, <2>3, <2>4
  <1>7. TypeOK'
    BY <1>1, <1>2, <1>6, Types, Constants DEF IInv, TypeOK
  <1>8. ticks < Second
    BY <1>5, ReadingFacts, Constants
  <1>9. ClockInv'
    BY <1>1, <1>8 DEF IInv, ClockInv
  <1>10. RateKept'
    BY <1>1 DEF IInv, RateKept, WithinLimit, NoWindow
  <1> QED
    BY <1>7, <1>9, <1>10 DEF IInv

\* throttle() starts another window: what the old one moved is what its time
\* allows, up to the roundings.
LEMMA ResetStep ==
    ASSUME IInv, NEW late \in 0 .. MaxLate, ThrottleReset(late)
    PROVE  IInv'
  <1> DEFINE b == windowBytes + pending
             q == sleepMs(b)
             slept == q * Ms
             due == b * Second
  <1>1. /\ closed' = [bytes |-> b, wall |-> wall, slept |-> slept, late |-> late]
        /\ windowBytes' = 0 /\ wall' = 0 /\ ticks' = 0 /\ pending' = 0
        /\ phase' = IF build = "win32" THEN (phase + wall + slept + late) % Ms ELSE 0
        /\ UNCHANGED <<build, limit>>
    BY DEF ThrottleReset, fixed
  <1>2. b \in Nat
    BY Types, Constants
  <1> HIDE DEF b
  <1>3. /\ q \in Nat
        /\ due < limit * elapsed + limit * slept + limit * Ms
        /\ q > 0 => due >= limit * elapsed + limit * slept
    BY <1>2, SleepFacts
  <1> HIDE DEF q
  <1>4. slept \in Nat /\ (slept > 0 => q > 0) /\ due \in Nat
    <2>1. q = 0 => slept = 0
      BY Constants
    <2> QED
      BY <1>2, <1>3, <2>1, Constants
  <1> HIDE DEF slept, due
  <1>5. TypeOK'
    <2>1. closed' \in [bytes : Nat, wall : 0 .. MaxWall, slept : Nat, late : 0 .. MaxLate]
      BY <1>1, <1>2, <1>4, Types
    <2>2. phase' \in 0 .. Ms - 1
      <3>1. phase + wall + slept + late \in Nat
        BY <1>4, Types, Constants
      <3>2. (phase + wall + slept + late) % Ms \in 0 .. Ms - 1
        BY <3>1, Division, Constants
      <3> QED
        BY <1>1, <3>2, Constants
    <2>3. windowBytes' * Second < limit' * (Second + Ms)
      BY <1>1, Types, Constants
    <2>4. Cores * MaxPass \in Nat
      BY Constants
    <2> QED
      BY <1>1, <2>1, <2>2, <2>3, <2>4, Types, Constants DEF TypeOK
  <1>6. ClockInv'
    BY <1>1, Constants DEF ClockInv
  <1>7. RateKept'
    <2> DEFINE speed == IF build = "win32" THEN 1 ELSE Cores
    <2>1. speed \in Nat \ {0} /\ speed * wall \in Nat /\ wall \in Nat
      BY Types, Constants
    <2>2. elapsed <= speed * wall + Ms /\ elapsed \in Nat
      <3>1. CASE build = "win32"
        BY <2>1, <3>1, ReadingFacts, Types, Constants
      <3>2. CASE build = "posix"
        <4>1. ticks <= Cores * wall /\ speed = Cores
          BY <3>2 DEF IInv, ClockInv
        <4> QED
          BY <2>1, <3>2, <4>1, ReadingFacts, Types, Constants
      <3> QED
        BY <3>1, <3>2, Types
    <2>3. build = "win32" => elapsed > wall - Ms
      BY ReadingFacts, Types, Constants
    <2> DEFINE u == speed * wall
    <2>4. u \in Nat /\ elapsed <= u + Ms
      BY <2>1, <2>2
    <2> HIDE DEF u, speed
    <2>5. due < limit * (u + slept + 2 * Ms)
      <3>1. limit * elapsed <= limit * (u + Ms)
        BY <2>2, <2>4, Products, Types, Constants
      <3>2. limit * (u + Ms) + limit * slept + limit * Ms = limit * (u + slept + 2 * Ms)
        BY <1>4, <2>4, Types, Constants
      <3>3. limit * elapsed \in Nat /\ limit * (u + Ms) \in Nat /\ limit * slept \in Nat
            /\ limit * Ms \in Nat
        BY <1>4, <2>2, <2>4, Types, Constants
      <3> QED
        BY <1>3, <1>4, <3>1, <3>2, <3>3
    <2>6. ASSUME build = "win32", slept > 0
          PROVE  due > limit * (wall + slept - Ms)
      <3>1. due >= limit * elapsed + limit * slept
        BY <1>3, <1>4, <2>6
      <3>2. limit * (wall - Ms) < limit * elapsed
        BY <2>1, <2>2, <2>3, <2>6, Products, Types, Constants
      <3>3. limit * (wall + slept - Ms) = limit * (wall - Ms) + limit * slept
        BY <1>4, <2>1, Types, Constants
      <3>4. limit * elapsed \in Nat /\ limit * (wall - Ms) \in Int /\ limit * slept \in Nat
        BY <1>4, <2>1, <2>2, Types, Constants
      <3> QED
        BY <1>4, <3>1, <3>2, <3>3, <3>4
    <2>7. closed'.bytes = b /\ closed'.wall = wall /\ closed'.slept = slept
      BY <1>1
    <2>8. closed'.bytes * Second = due
      BY <2>7 DEF due
    <2>9. /\ build = "win32" => u = wall
          /\ build = "posix" => u = Cores * wall
      BY <2>1 DEF u, speed
    <2> QED
      BY <1>1, <2>5, <2>6, <2>7, <2>8, <2>9 DEF RateKept, WithinLimit
  <1> QED
    BY <1>5, <1>6, <1>7 DEF IInv

-----------------------------------------------------------------------------
(* Results.                                                                *)

\* The strengthening is inductive.
LEMMA Inductive == Spec => []IInv
  <1>1. Init => IInv
    <2> SUFFICES ASSUME Init PROVE IInv
      OBVIOUS
    <2>1. limit \in Nat \ {0} /\ Cores * MaxPass \in Nat /\ phase \in 0 .. Ms - 1
      BY Constants DEF Init
    <2>2. 0 * Second < limit * (Second + Ms)
      BY <2>1, Constants
    <2>3. TypeOK
      BY <2>1, <2>2, NoWindowType, Constants DEF Init, TypeOK
    <2>4. ClockInv
      BY Constants DEF Init, ClockInv
    <2>5. RateKept
      BY DEF Init, RateKept
    <2> QED
      BY <2>3, <2>4, <2>5 DEF IInv
  <1>2. IInv /\ [Next]_vars => IInv'
    <2> SUFFICES ASSUME IInv, [Next]_vars PROVE IInv'
      OBVIOUS
    <2>1. CASE Next
      BY <2>1, MoveStep, OnStep, ResetStep DEF Next
    <2>2. CASE UNCHANGED vars
      BY <2>2 DEF vars, IInv, TypeOK, ClockInv, RateKept, WithinLimit
    <2> QED
      BY <2>1, <2>2
  <1> QED
    BY <1>1, <1>2, PTL DEF Spec

\* windowBytes_ and the clock stay in their ranges ("Reset window every second to
\* prevent integer overflow"), whatever the chunks, and however long it runs.
THEOREM WindowBounded == Spec => []TypeOK
  <1>1. IInv => TypeOK
    BY DEF IInv
  <1> QED
    BY <1>1, Inductive, PTL

\* On win32 throttle() keeps a session to the documented limit in every window, up to
\* two milliseconds of data, and does not slow it down below; on POSIX, where clock()
\* is processor time, only to Cores times that limit.
THEOREM RateIsKept == Spec => []RateKept
  <1>1. IInv => RateKept
    BY DEF IInv
  <1> QED
    BY <1>1, Inductive, PTL
=============================================================================
