-------------------------- MODULE AuthManagerProofs -------------------------
(***************************************************************************)
(* For any finite set of sessions, any addresses, limit and term: types,   *)
(* the bound on the failures an address can have on record, and the block  *)
(* that follows the failure that reaches the limit.                        *)
(***************************************************************************)
EXTENDS AuthManager, FiniteSetTheorems, TLAPS

\* The steps of one PASS handler.
HandlerStep(s) ==
    \/ Pass(s) \/ RateLimited(s) \/ NotRateLimited(s) \/ Authenticate(s)
    \/ recordFailedAttempt(s) \/ clearAttempts(s)

\* [Next]_vars, by actor.
LEMMA NextCases ==
    ASSUME [Next]_vars
    PROVE  (\E s \in Sessions : HandlerStep(s)) \/ Tick \/ UNCHANGED vars
  BY DEF Next, HandlerStep, Rest

\* Handlers of an address are finitely many, and so are those in flight.
LEMMA Counted ==
    ASSUME NEW ip
    PROVE  /\ IsFiniteSet(From(ip)) /\ Cardinality(From(ip)) \in Nat
           /\ IsFiniteSet(InFlight(ip)) /\ Cardinality(InFlight(ip)) \in Nat
           /\ Cardinality(InFlight(ip)) <= Cardinality(From(ip))
  <1>1. From(ip) \subseteq Sessions /\ InFlight(ip) \subseteq From(ip)
    BY DEF From, InFlight
  <1>2. IsFiniteSet(From(ip))
    BY <1>1, AuthAssumption, FS_Subset
  <1> QED
    BY <1>1, <1>2, FS_Subset, FS_CardinalityType

-----------------------------------------------------------------------------
\* A clock step takes one second off what is left, and stops at zero.
LEMMA DecType ==
    ASSUME NEW f \in [Ips -> 0 .. kBlockSecs]
    PROVE  Dec(f) \in [Ips -> 0 .. kBlockSecs]
  BY AuthAssumption DEF Dec

\* Types are preserved by every step.
LEMMA TypeStep ==
    ASSUME TypeOK, [Next]_vars
    PROVE  TypeOK'
  <1>1. ASSUME NEW s \in Sessions, HandlerStep(s)
        PROVE  TypeOK'
    <2>0. IpOf[s] \in Ips /\ kBlockSecs \in 0 .. kBlockSecs /\ 0 \in 0 .. kBlockSecs
      BY AuthAssumption
    <2>1. CASE Pass(s)
      BY <2>1 DEF Pass, TypeOK
    <2>2. CASE RateLimited(s)
      BY <2>2 DEF RateLimited, TypeOK
    <2>3. CASE NotRateLimited(s)
      BY <2>0, <2>3 DEF NotRateLimited, TypeOK
    <2>4. CASE Authenticate(s)
      BY <2>4 DEF Authenticate, TypeOK
    <2>5. CASE recordFailedAttempt(s)
      BY <2>0, <2>5 DEF recordFailedAttempt, TypeOK
    <2>6. CASE clearAttempts(s)
      BY <2>0, <2>6 DEF clearAttempts, TypeOK
    <2> QED
      BY <1>1, <2>1, <2>2, <2>3, <2>4, <2>5, <2>6 DEF HandlerStep
  <1>2. CASE Tick
    BY <1>2, DecType DEF Tick, TypeOK
  <1>3. CASE UNCHANGED vars
    BY <1>3 DEF vars, TypeOK
  <1> QED
    BY <1>1, <1>2, <1>3, NextCases

\* Every variable of the AuthManager keeps its type: the clock never drives a
\* remaining term below zero or above kBlockSecs.
THEOREM TypeCorrect == Spec => []TypeOK
  <1>1. Init => TypeOK
    BY AuthAssumption DEF Init, TypeOK
  <1> QED
    BY <1>1, TypeStep, PTL DEF Spec

-----------------------------------------------------------------------------
\* What a step does to the handlers in flight: one joins them below the limit,
\* one leaves them with the failure it counts or with the record cleared.
LEMMA OvershootStep ==
    ASSUME TypeOK, OvershootBounded, [Next]_vars
    PROVE  OvershootBounded'
  <1> SUFFICES ASSUME NEW ip \in Ips
               PROVE  failed'[ip] + Cardinality(InFlight(ip)')
                        <= kMaxAttempts - 1 + Cardinality(From(ip))
    BY DEF OvershootBounded, From
  <1> DEFINE n == Cardinality(InFlight(ip))
             m == Cardinality(From(ip))
  <1>0. /\ n \in Nat /\ m \in Nat /\ n <= m
        /\ failed[ip] \in Nat /\ kMaxAttempts \in Nat \ {0}
        /\ failed[ip] + n <= kMaxAttempts - 1 + m
    BY Counted, AuthAssumption DEF TypeOK, OvershootBounded
  <1>1. Cardinality(InFlight(ip)') \in Nat /\ Cardinality(InFlight(ip)') <= m
    <2>1. From(ip) \subseteq Sessions /\ InFlight(ip)' \subseteq From(ip)
      BY DEF From, InFlight
    <2> QED
      BY <2>1, Counted, FS_Subset, FS_CardinalityType
  <1>2. ASSUME failed'[ip] = failed[ip], InFlight(ip)' = InFlight(ip)
        PROVE  failed'[ip] + Cardinality(InFlight(ip)') <= kMaxAttempts - 1 + m
    BY <1>0, <1>2
  <1>3. ASSUME failed'[ip] \in Nat, failed'[ip] < kMaxAttempts
        PROVE  failed'[ip] + Cardinality(InFlight(ip)') <= kMaxAttempts - 1 + m
    BY <1>0, <1>1, <1>3
  <1>4. ASSUME NEW s \in Sessions, HandlerStep(s)
        PROVE  failed'[ip] + Cardinality(InFlight(ip)') <= kMaxAttempts - 1 + m
    <2>1. CASE IpOf[s] # ip
      <3>1. failed'[ip] = failed[ip]
        BY <1>4, <2>1 DEF HandlerStep, TypeOK, Pass, RateLimited, NotRateLimited,
                         Authenticate, recordFailedAttempt, clearAttempts
      <3>2. \A x \in Sessions : x # s => pc'[x] = pc[x]
        BY <1>4 DEF HandlerStep, TypeOK, Pass, RateLimited, NotRateLimited,
                    Authenticate, recordFailedAttempt, clearAttempts
      <3>3. InFlight(ip)' = InFlight(ip)
        BY <2>1, <3>2 DEF InFlight, From
      <3> QED
        BY <1>2, <3>1, <3>3
    <2>2. CASE IpOf[s] = ip
      <3>1. CASE Pass(s)
        BY <1>2, <3>1 DEF Pass, InFlight, From, TypeOK
      <3>2. CASE RateLimited(s)
        BY <1>2, <3>2 DEF RateLimited, InFlight, From, TypeOK
      <3>3. CASE NotRateLimited(s)
        BY <1>0, <1>3, <2>2, <3>3 DEF NotRateLimited, TypeOK
      <3>4. CASE Authenticate(s)
        BY <1>2, <3>4 DEF Authenticate, InFlight, From, TypeOK
      <3>5. CASE recordFailedAttempt(s)
        <4>1. InFlight(ip)' = InFlight(ip) \ {s} /\ s \in InFlight(ip)
          BY <2>2, <3>5 DEF recordFailedAttempt, InFlight, From, TypeOK
        <4>2. Cardinality(InFlight(ip)') = n - 1
          BY <4>1, Counted, FS_RemoveElement
        <4>3. failed'[ip] = failed[ip] + 1
          BY <2>2, <3>5 DEF recordFailedAttempt, TypeOK
        <4> QED
          BY <1>0, <4>2, <4>3
      <3>6. CASE clearAttempts(s)
        BY <1>0, <1>3, <2>2, <3>6 DEF clearAttempts, TypeOK
      <3> QED
        BY <1>4, <3>1, <3>2, <3>3, <3>4, <3>5, <3>6 DEF HandlerStep
    <2> QED
      BY <2>1, <2>2
  <1>5. CASE Tick
    BY <1>2, <1>5 DEF Tick, InFlight, From
  <1>6. CASE UNCHANGED vars
    BY <1>2, <1>6 DEF vars, InFlight, From
  <1> QED
    BY <1>4, <1>5, <1>6, NextCases

\* However the handlers of an address interleave between isRateLimited and
\* recordFailedAttempt, the failures on record never exceed kMaxAttempts - 1
\* plus one for each of its sessions.
THEOREM Overshoot == Spec => []OvershootBounded
  <1>1. Init => OvershootBounded
    <2> SUFFICES ASSUME Init, NEW ip \in Ips
                 PROVE  failed[ip] + Cardinality(InFlight(ip))
                          <= kMaxAttempts - 1 + Cardinality(From(ip))
      BY DEF OvershootBounded
    <2>1. failed[ip] = 0 /\ kMaxAttempts \in Nat \ {0}
      BY AuthAssumption DEF Init
    <2> QED
      BY <2>1, Counted
  <1> QED
    BY <1>1, TypeCorrect, OvershootStep, PTL DEF Spec

-----------------------------------------------------------------------------
\* A failure at the limit starts both clocks together; any later step moves
\* them together or takes the address below the limit again.
LEMMA LimitStep ==
    ASSUME TypeOK, LimitReachedBlocks, [Next]_vars
    PROVE  LimitReachedBlocks'
  <1> SUFFICES ASSUME NEW ip \in Ips, failed'[ip] >= kMaxAttempts
               PROVE  term'[ip] = remaining'[ip]
    BY DEF LimitReachedBlocks
  <1>0. failed[ip] >= kMaxAttempts => term[ip] = remaining[ip]
    BY DEF LimitReachedBlocks
  <1>1. ASSUME NEW s \in Sessions, HandlerStep(s)
        PROVE  term'[ip] = remaining'[ip]
    <2>1. CASE Pass(s) \/ RateLimited(s) \/ Authenticate(s)
      BY <1>0, <2>1 DEF Pass, RateLimited, Authenticate
    <2>2. CASE NotRateLimited(s)
      BY <1>0, <2>2, AuthAssumption DEF NotRateLimited, TypeOK
    <2>3. CASE recordFailedAttempt(s)
      BY <1>0, <2>3, AuthAssumption DEF recordFailedAttempt, TypeOK
    <2>4. CASE clearAttempts(s)
      BY <1>0, <2>4, AuthAssumption DEF clearAttempts, TypeOK
    <2> QED
      BY <1>1, <2>1, <2>2, <2>3, <2>4 DEF HandlerStep
  <1>2. CASE Tick
    BY <1>0, <1>2 DEF Tick, Dec, TypeOK
  <1>3. CASE UNCHANGED vars
    BY <1>0, <1>3 DEF vars
  <1> QED
    BY <1>1, <1>2, <1>3, NextCases

\* From the failure that reaches the limit on, the block runs for the whole
\* term that recordFailedAttempt announced, whatever other handlers count.
THEOREM LimitBlocks == Spec => []LimitReachedBlocks
  <1>1. Init => LimitReachedBlocks
    BY DEF Init, LimitReachedBlocks
  <1> QED
    BY <1>1, TypeCorrect, LimitStep, PTL DEF Spec
=============================================================================
