---------------------------- MODULE AuthManager -----------------------------
(***************************************************************************)
(* Failed-login accounting of src/server/auth.{h,cpp}, driven by the PASS  *)
(* handlers of several sessions.  handlePass makes three calls into the    *)
(* AuthManager, each a critical section of its own, so the handlers of     *)
(* sessions from one address interleave between them.                      *)
(*                                                                         *)
(* Time is relative: remaining[ip] is the number of seconds from now to    *)
(* blockedUntilSec, or 0 when that instant has passed.  An address that is *)
(* not in rateMap_ behaves as one whose RateInfo is (0, 0).                *)
(***************************************************************************)
EXTENDS Integers, FiniteSets

CONSTANTS Sessions,      \* sessions, reused after their connection ends
          Ips,           \* client addresses
          IpOf,          \* address of each session
          kMaxAttempts,
          kBlockSecs,
          MaxFailures    \* bound of the model: failed logins altogether

ASSUME AuthAssumption ==
    /\ IsFiniteSet(Sessions)
    /\ IpOf \in [Sessions -> Ips]
    /\ kMaxAttempts \in Nat \ {0}
    /\ kBlockSecs \in Nat \ {0}
    /\ MaxFailures \in Nat

VARIABLES failed,       \* RateInfo::failedAttempts
          remaining,    \* RateInfo::blockedUntilSec, from now
          totalFailed,  \* totalFailed_
          pc,           \* progress of each session's PASS handler
          term          \* history: seconds left of the last block announced

vars == <<failed, remaining, totalFailed, pc, term>>

From(ip) == {s \in Sessions : IpOf[s] = ip}

\* Handlers that were told "not rate limited" and have not reported back.
InFlight(ip) == {s \in From(ip) : pc[s] \in {"auth", "record", "clear"}}

Init ==
    /\ failed = [ip \in Ips |-> 0]
    /\ remaining = [ip \in Ips |-> 0]
    /\ totalFailed = 0
    /\ pc = [s \in Sessions |-> "idle"]
    /\ term = [ip \in Ips |-> 0]

\* USER, then PASS: the handler is entered in state WAIT_PASS.
Pass(s) ==
    /\ pc[s] = "idle"
    /\ totalFailed + Cardinality({x \in Sessions : pc[x] # "idle"}) < MaxFailures
    /\ pc' = [pc EXCEPT ![s] = "check"]
    /\ UNCHANGED <<failed, remaining, totalFailed, term>>

Blocked(ip) == failed[ip] >= kMaxAttempts /\ remaining[ip] > 0

\* Mutant: a refused attempt starts the block again.
RefusalExtends(s) ==
    /\ pc[s] = "check"
    /\ Blocked(IpOf[s])
    /\ remaining' = [remaining EXCEPT ![IpOf[s]] = kBlockSecs]
    /\ pc' = [pc EXCEPT ![s] = "idle"]
    /\ UNCHANGED <<failed, totalFailed, term>>

\* isRateLimited says yes: 421, the session is closed and a new one may come.
RateLimited(s) ==
    /\ pc[s] = "check"
    /\ Blocked(IpOf[s])
    /\ pc' = [pc EXCEPT ![s] = "idle"]
    /\ UNCHANGED <<failed, remaining, totalFailed, term>>

\* Mutant: the test is off by one.
NotRateLimitedLate(s) ==
    /\ pc[s] = "check"
    /\ pc' = [pc EXCEPT ![s] = "auth"]
    /\ ~(failed[IpOf[s]] > kMaxAttempts /\ remaining[IpOf[s]] > 0)
    /\ UNCHANGED <<failed, remaining, totalFailed, term>>

\* isRateLimited says no; an expired block is forgotten.
NotRateLimited(s) ==
    /\ pc[s] = "check"
    /\ ~Blocked(IpOf[s])
    /\ failed' = IF failed[IpOf[s]] >= kMaxAttempts
                 THEN [failed EXCEPT ![IpOf[s]] = 0] ELSE failed
    /\ remaining' = IF failed[IpOf[s]] >= kMaxAttempts
                    THEN [remaining EXCEPT ![IpOf[s]] = 0] ELSE remaining
    /\ pc' = [pc EXCEPT ![s] = "auth"]
    /\ UNCHANGED <<totalFailed, term>>

\* authenticate: whether the password matches is the client's affair.
Authenticate(s) ==
    /\ pc[s] = "auth"
    /\ \E ok \in BOOLEAN : pc' = [pc EXCEPT ![s] = IF ok THEN "clear" ELSE "record"]
    /\ UNCHANGED <<failed, remaining, totalFailed, term>>

\* Mutant: blocks one failure late.
BlockOneLate(s) ==
    LET ip == IpOf[s] IN
    /\ pc[s] = "record"
    /\ failed' = [failed EXCEPT ![ip] = @ + 1]
    /\ remaining' = IF failed[ip] >= kMaxAttempts
                    THEN [remaining EXCEPT ![ip] = kBlockSecs] ELSE remaining
    /\ term' = IF failed[ip] + 1 >= kMaxAttempts
               THEN [term EXCEPT ![ip] = kBlockSecs] ELSE term
    /\ totalFailed' = totalFailed + 1
    /\ pc' = [pc EXCEPT ![s] = "idle"]

recordFailedAttempt(s) ==
    LET ip == IpOf[s]
        block == failed[ip] + 1 >= kMaxAttempts
    IN
    /\ pc[s] = "record"
    /\ failed' = [failed EXCEPT ![ip] = @ + 1]
    /\ remaining' = IF block THEN [remaining EXCEPT ![ip] = kBlockSecs] ELSE remaining
    /\ term' = IF block THEN [term EXCEPT ![ip] = kBlockSecs] ELSE term
    /\ totalFailed' = totalFailed + 1
    /\ pc' = [pc EXCEPT ![s] = "idle"]

clearAttempts(s) ==
    /\ pc[s] = "clear"
    /\ failed' = [failed EXCEPT ![IpOf[s]] = 0]
    /\ remaining' = [remaining EXCEPT ![IpOf[s]] = 0]
    /\ pc' = [pc EXCEPT ![s] = "idle"]
    /\ UNCHANGED <<totalFailed, term>>

\* Mutant: the difference to an instant in the past is negative.
DecBelowZero(f) == [ip \in Ips |-> f[ip] - 1]

Dec(f) == [ip \in Ips |-> IF f[ip] > 0 THEN f[ip] - 1 ELSE 0]

\* nowSecs() advances.
Tick ==
    /\ \E ip \in Ips : remaining[ip] > 0 \/ term[ip] > 0
    /\ remaining' = Dec(remaining)
    /\ term' = Dec(term)
    /\ UNCHANGED <<failed, totalFailed, pc>>

\* The bound is used up: nobody tries again.
Rest ==
    /\ totalFailed = MaxFailures
    /\ \A s \in Sessions : pc[s] = "idle"
    /\ UNCHANGED vars

Next ==
    \/ \E s \in Sessions :
         \/ Pass(s) \/ RateLimited(s) \/ NotRateLimited(s) \/ Authenticate(s)
         \/ recordFailedAttempt(s) \/ clearAttempts(s)
    \/ Tick
    \/ Rest

Spec == Init /\ [][Next]_vars

\* Time passes, and a handler that has begun goes on.
FairSpec ==
    /\ Spec
    /\ WF_vars(Tick)
    /\ \A s \in Sessions :
         WF_vars(RateLimited(s) \/ NotRateLimited(s) \/ Authenticate(s)
                 \/ recordFailedAttempt(s) \/ clearAttempts(s))

-----------------------------------------------------------------------------
TypeOK ==
    /\ failed \in [Ips -> Nat]
    /\ remaining \in [Ips -> 0 .. kBlockSecs]
    /\ totalFailed \in Nat
    /\ pc \in [Sessions -> {"idle", "check", "auth", "record", "clear"}]
    /\ term \in [Ips -> 0 .. kBlockSecs]

\* The limit can be overrun, but only by the handlers that were past
\* isRateLimited when the last attempt was counted: an address never has more
\* than kMaxAttempts - 1 failures plus one per concurrent session on record.
OvershootBounded ==
    \A ip \in Ips :
        failed[ip] + Cardinality(InFlight(ip)) <= kMaxAttempts - 1 + Cardinality(From(ip))

\* Whichever handler counts the attempt that reaches the limit, the address is
\* blocked from that moment for the whole term that was announced: attempts
\* counted by several handlers at once neither skip the block nor shorten it.
LimitReachedBlocks ==
    \A ip \in Ips : failed[ip] >= kMaxAttempts => term[ip] = remaining[ip]

\* No block lasts forever: refused attempts do not extend it.
BlockExpires ==
    \A ip \in Ips : (remaining[ip] > 0) ~> (remaining[ip] = 0)

\* A block lasts its term: until then isRateLimited refuses every attempt from
\* that address ("blocked for 60s", "it's still blocked by time").
BlockServesTerm ==
    [][\A s \in Sessions :
         pc[s] = "check" /\ pc'[s] = "auth" => term[IpOf[s]] = 0]_vars
=============================================================================
