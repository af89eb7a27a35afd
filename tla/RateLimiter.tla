----------------------------- MODULE RateLimiter -----------------------------
(***************************************************************************)
(* The token bucket of packages/client/src/middleware/rate-limiter.ts.     *)
(*                                                                         *)
(* The code counts tokens in fractions; here the bucket is measured in     *)
(* milliseconds of refill, so that one token is TokenCost (= 1/refillPerMs)*)
(* and refilling for d ms adds d.  JavaScript is single threaded: every    *)
(* action is one synchronous run of the event loop (a call, an abort, a    *)
(* timer callback, a response), and a timer may fire up to TimerLag late.  *)
(***************************************************************************)
EXTENDS Integers, Sequences, FiniteSets

CONSTANTS
  Requests,        \* the requests that go through the middleware
  Capacity,        \* burstCapacity, in tokens
  TokenCost,       \* milliseconds of refill that mint one token
  MaxQueueLength,  \* maxQueueLength
  QueueTimeout,    \* queueTimeoutMs; 0 disables the timeout
  RetryAfters,     \* the back-offs (ms) a 429 response may ask for
  TimerLag,        \* bound: how late a due timer may fire
  LastArrival,     \* bound: no call and no 429 after this time
  MaxTime          \* bound: the clock stops here

ASSUME RateLimiterAssumption ==
  /\ Capacity \in Nat \ {0}
  /\ TokenCost \in Nat \ {0}
  /\ MaxQueueLength \in Nat \ {0}
  /\ QueueTimeout \in Nat
  /\ RetryAfters \subseteq Nat
  /\ TimerLag \in Nat
  /\ LastArrival \in Nat
  /\ MaxTime \in Nat

VARIABLES
  now,              \* Date.now()
  level,            \* tokens, in ms of refill
  lastRefillAt,
  cooldownUntilAt,
  waiters,          \* the queue, oldest first
  refillScheduled,
  refillDue,        \* when the scheduled refill timer is due
  startedAt,        \* startedAt of each request that queued
  status,           \* what has become of each request
  signalled,        \* the requests whose AbortSignal has fired
  spent,            \* history: everything ever debited, in ms of refill
  windowAt,         \* history: when the observed window opened ...
  windowSpent       \* ... and the value spent had then

bucket  == <<level, lastRefillAt, cooldownUntilAt>>
timer   == <<refillScheduled, refillDue>>
history == <<spent, windowAt, windowSpent>>
vars    == <<now, bucket, waiters, timer, startedAt, status, signalled, history>>

Full == Capacity * TokenCost

Statuses == {"idle", "waiting", "sent", "limited", "timedOut", "aborted", "rejected"}

Larger(a, b)  == IF a >= b THEN a ELSE b
Smaller(a, b) == IF a <= b THEN a ELSE b

-----------------------------------------------------------------------------
(* refill(now): what the bucket holds and what lastRefillAt becomes.        *)
RefillBaseIgnoresLast == cooldownUntilAt

RefillBase == Larger(lastRefillAt, cooldownUntilAt)

RefilledLevel ==
  IF now > RefillBase THEN Smaller(Full, level + (now - RefillBase)) ELSE level

RefilledAt ==
  IF now > RefillBase THEN Larger(now, cooldownUntilAt) ELSE lastRefillAt

(* scheduleRefill(): one timer at a time, due when the cool-down is over    *)
(* and a bucket holding lv would have minted a token.                       *)
RefillDelay(lv, cooldown) ==
  Larger(1, Larger(cooldown - now, IF lv >= TokenCost THEN 0 ELSE TokenCost - lv))

ScheduleRefill(lv, cooldown) ==
  /\ refillScheduled' = TRUE
  /\ refillDue' = IF refillScheduled THEN refillDue ELSE now + RefillDelay(lv, cooldown)

(* The timer callback resets the flag, and drain() arms the next timer if   *)
(* waiters are left once n of them have been granted a token.               *)
RearmTimerNever(n) ==
  /\ refillScheduled' = FALSE
  /\ UNCHANGED refillDue

RearmTimer(n) ==
  IF n < Len(waiters)
    THEN /\ refillScheduled' = TRUE
         /\ refillDue' = now + RefillDelay(RefilledLevel - n * TokenCost, cooldownUntilAt)
    ELSE /\ refillScheduled' = FALSE
         /\ UNCHANGED refillDue

-----------------------------------------------------------------------------
Init ==
  /\ now = 0
  /\ level = Full
  /\ lastRefillAt = 0
  /\ cooldownUntilAt = 0
  /\ waiters = <<>>
  /\ refillScheduled = FALSE
  /\ refillDue = 0
  /\ startedAt = [r \in Requests |-> 0]
  /\ status = [r \in Requests |-> "idle"]
  /\ signalled = {}
  /\ spent = 0
  /\ windowAt = 0
  /\ windowSpent = 0

(* acquire() grants at once, whoever is queued.  onRequest() looks at the   *)
(* signal only afterwards, so an aborted request still costs a token.       *)
GrantNow(r) ==
  /\ RefilledLevel >= TokenCost
  /\ level' = RefilledLevel - TokenCost
  /\ spent' = spent + TokenCost
  /\ status' = [status EXCEPT ![r] = IF r \in signalled THEN "aborted" ELSE "sent"]
  /\ UNCHANGED <<waiters, timer, startedAt>>

RejectFull(r) ==
  /\ RefilledLevel < TokenCost
  /\ Len(waiters) >= MaxQueueLength
  /\ level' = RefilledLevel
  /\ status' = [status EXCEPT ![r] = "rejected"]
  /\ UNCHANGED <<waiters, timer, startedAt, spent>>

RejectAborted(r) ==
  /\ RefilledLevel < TokenCost
  /\ Len(waiters) < MaxQueueLength
  /\ r \in signalled
  /\ level' = RefilledLevel
  /\ status' = [status EXCEPT ![r] = "aborted"]
  /\ UNCHANGED <<waiters, timer, startedAt, spent>>

Enqueue(r) ==
  /\ RefilledLevel < TokenCost
  /\ Len(waiters) < MaxQueueLength
  /\ r \notin signalled
  /\ level' = RefilledLevel
  /\ waiters' = Append(waiters, r)
  /\ startedAt' = [startedAt EXCEPT ![r] = now]
  /\ status' = [status EXCEPT ![r] = "waiting"]
  /\ ScheduleRefill(RefilledLevel, cooldownUntilAt)
  /\ UNCHANGED spent

Acquire(r) ==
  /\ now <= LastArrival
  /\ status[r] = "idle"
  /\ lastRefillAt' = RefilledAt
  /\ \/ GrantNow(r)
     \/ RejectFull(r)
     \/ RejectAborted(r)
     \/ Enqueue(r)
  /\ UNCHANGED <<now, cooldownUntilAt, signalled, windowAt, windowSpent>>

(* dropWaiter(): splice the request out of the queue.                       *)
DropWaiter(r) ==
  \E i \in 1..Len(waiters) :
    /\ waiters[i] = r
    /\ waiters' = SubSeq(waiters, 1, i - 1) \o SubSeq(waiters, i + 1, Len(waiters))

(* The caller's signal fires: a queued request leaves the queue and is      *)
(* rejected (onAbort); before the call the signal is only noted.            *)
Abort(r) ==
  /\ r \notin signalled
  /\ status[r] \in {"idle", "waiting"}
  /\ signalled' = signalled \cup {r}
  /\ IF status[r] = "waiting"
       THEN /\ DropWaiter(r)
            /\ status' = [status EXCEPT ![r] = "aborted"]
       ELSE UNCHANGED <<waiters, status>>
  /\ UNCHANGED <<now, bucket, timer, startedAt, history>>

(* The waiter's timeout: failWaiter() rejects it and leaves it queued.      *)
FailWaiter(r) ==
  /\ QueueTimeout > 0
  /\ status[r] = "waiting"
  /\ now >= startedAt[r] + QueueTimeout
  /\ status' = [status EXCEPT ![r] = "timedOut"]
  /\ UNCHANGED <<now, bucket, waiters, timer, startedAt, signalled, history>>

(* drain(): the n oldest waiters take a token each, until the queue or the  *)
(* bucket is empty.  Resolving a waiter that already timed out does nothing *)
(* but the token is gone.                                                   *)
DrainCount(n) ==
  /\ n \in 0..Len(waiters)
  /\ n * TokenCost <= RefilledLevel
  /\ n < Len(waiters) => (n + 1) * TokenCost > RefilledLevel

GrantedNewest(n) == {waiters[i] : i \in (Len(waiters) - n + 1)..Len(waiters)}

Granted(n) == {waiters[i] : i \in 1..n}

LeftQueued(n) == SubSeq(waiters, n + 1, Len(waiters))

(* The refill timer's callback, with the drain() it runs.                   *)
RefillTimer ==
  /\ refillScheduled
  /\ now >= refillDue
  /\ \E n \in 0..Len(waiters) :
       /\ DrainCount(n)
       /\ level' = RefilledLevel - n * TokenCost
       /\ lastRefillAt' = RefilledAt
       /\ spent' = spent + n * TokenCost
       /\ waiters' = LeftQueued(n)
       /\ status' = [r \in Requests |->
                       IF r \in Granted(n) /\ status[r] = "waiting" THEN "sent" ELSE status[r]]
       /\ RearmTimer(n)
  /\ UNCHANGED <<now, cooldownUntilAt, startedAt, signalled, windowAt, windowSpent>>

(* noteRetryAfter() empties the bucket and starts a cool-down, overwriting  *)
(* the one in force.                                                        *)
StartCooldownKeepTokens(until) ==
  /\ cooldownUntilAt' = until
  /\ lastRefillAt' = until
  /\ UNCHANGED level

StartCooldown(until) ==
  /\ cooldownUntilAt' = until
  /\ lastRefillAt' = until
  /\ level' = 0

(* A 429 with Retry-After s.  Zero seconds are ignored.                     *)
NoteRetryAfter(r, s) ==
  /\ now <= LastArrival
  /\ status[r] = "sent"
  /\ status' = [status EXCEPT ![r] = "limited"]
  /\ IF s > 0
       THEN /\ StartCooldown(now + s)
            /\ ScheduleRefill(0, now + s)
       ELSE UNCHANGED <<bucket, timer>>
  /\ UNCHANGED <<now, waiters, startedAt, signalled, spent, windowAt, windowSpent>>

(* Time passes, but no timer stays due for longer than TimerLag.            *)
Tick ==
  /\ now < MaxTime
  /\ refillScheduled => now < refillDue + TimerLag
  /\ \A r \in Requests :
       QueueTimeout > 0 /\ status[r] = "waiting" => now < startedAt[r] + QueueTimeout + TimerLag
  /\ now' = now + 1
  /\ UNCHANGED <<bucket, waiters, timer, startedAt, status, signalled, history>>

(* An observer opens the window over which the rate is measured.            *)
OpenWindow ==
  /\ windowAt' = now
  /\ windowSpent' = spent
  /\ UNCHANGED <<now, bucket, waiters, timer, startedAt, status, signalled, spent>>

Next ==
  \/ \E r \in Requests : Acquire(r) \/ Abort(r) \/ FailWaiter(r)
  \/ \E r \in Requests, s \in RetryAfters : NoteRetryAfter(r, s)
  \/ RefillTimer
  \/ Tick
  \/ OpenWindow

Spec == Init /\ [][Next]_vars

(* The clock advances and the event loop runs every timer that is due.      *)
FairSpec ==
  /\ Spec
  /\ WF_vars(Tick)
  /\ WF_vars(RefillTimer)
  /\ \A r \in Requests : WF_vars(FailWaiter(r))

-----------------------------------------------------------------------------
(* Type of every variable: the bucket never holds less than nothing or more *)
(* than its capacity, and the queue never exceeds maxQueueLength.           *)
TypeOK ==
  /\ now \in Nat
  /\ level \in 0..Full
  /\ lastRefillAt \in Nat
  /\ cooldownUntilAt \in Nat
  /\ waiters \in Seq(Requests)
  /\ Len(waiters) <= MaxQueueLength
  /\ refillScheduled \in BOOLEAN
  /\ refillDue \in Nat
  /\ startedAt \in [Requests -> Nat]
  /\ status \in [Requests -> Statuses]
  /\ signalled \subseteq Requests
  /\ spent \in Nat
  /\ windowAt \in Nat
  /\ windowSpent \in Nat

(* "the transport never sees bursts exceeding the configured rate": over    *)
(* any window of time, wherever it starts, the tokens handed out cost at    *)
(* most one full bucket plus the time the window has lasted.                *)
RateBounded == spent - windowSpent <= Full + (now - windowAt)

(* A queue with a waiter in it always has a refill timer pending: nobody is *)
(* left in the queue without a callback that will look at it.               *)
WaitersHaveTimer == waiters # <<>> => refillScheduled

(* Every request still waiting is in the queue, exactly once.               *)
WaitingIsQueued ==
  \A r \in Requests : status[r] = "waiting" =>
    Cardinality({i \in DOMAIN waiters : waiters[i] = r}) = 1

(* No token is handed out while the cool-down a 429 asked for is in force:  *)
(* neither to a new call, nor by a refill timer armed before the 429 came.  *)
NoGrantInCooldown == [][spent' # spent => now >= cooldownUntilAt]_vars

(* Queued requests are served in order: when a waiter is granted a token,   *)
(* no request that was ahead of it in the queue goes on waiting.            *)
FifoAmongWaiters ==
  [][\A i, j \in DOMAIN waiters :
       /\ i < j
       /\ status[waiters[j]] = "waiting" /\ status'[waiters[j]] = "sent"
       => status'[waiters[i]] # "waiting"]_vars

(* Once calls stop coming, the refill timer keeps drain() running until the *)
(* queue is empty, through cool-downs, aborts and timed-out waiters alike.  *)
QueueEmpties == waiters # <<>> ~> waiters = <<>>

-----------------------------------------------------------------------------
=============================================================================
