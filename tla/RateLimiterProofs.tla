-------------------------- MODULE RateLimiterProofs --------------------------
(***************************************************************************)
(* Theorems about RateLimiter, for every set of requests, capacity, rate,  *)
(* queue length, timeout and back-off.                                     *)
(*                                                                         *)
(* The rate bound is not inductive by itself: a debit is paid for by what  *)
(* the bucket holds, so BucketInv adds the level to the account and says   *)
(* up to when the bucket has been refilled.  The two cases of the account  *)
(* are a window opened after the last refill, in which nothing has been    *)
(* debited yet, and one opened before it.                                  *)
(*                                                                         *)
(* That the queue is served in order needs that no request is in it twice, *)
(* a waiter that has timed out included: QueueInv.                         *)
(***************************************************************************)
EXTENDS RateLimiter, SequenceTheorems, TLAPS

BucketInv ==
  /\ cooldownUntilAt <= lastRefillAt
  /\ windowAt <= now
  /\ windowSpent <= spent
  /\ lastRefillAt > now => level = 0
  /\ lastRefillAt < windowAt => spent = windowSpent
  /\ lastRefillAt >= windowAt =>
       spent - windowSpent + level <= Full + Smaller(lastRefillAt, now) - windowAt

IInv == TypeOK /\ WaitersHaveTimer /\ BucketInv

QueueInv ==
  \A i, j \in DOMAIN waiters :
    /\ status[waiters[i]] # "idle"
    /\ waiters[i] = waiters[j] => i = j

-----------------------------------------------------------------------------
(* A full bucket is a number of milliseconds.                               *)
LEMMA FullNat == Full \in Nat
  BY RateLimiterAssumption, SMT DEF Full

(* refill() leaves a level the bucket can hold, and a refill time that is   *)
(* not before the cool-down's end.                                          *)
LEMMA RefillType ==
  ASSUME TypeOK, BucketInv
  PROVE  /\ RefilledLevel \in 0..Full
         /\ RefilledAt \in Nat
         /\ now > lastRefillAt => RefilledAt = now
         /\ now <= lastRefillAt => RefilledAt = lastRefillAt /\ RefilledLevel = level
  BY FullNat DEF TypeOK, BucketInv, RefilledLevel, RefilledAt, RefillBase, Larger, Smaller

(* Debiting a cost the refilled bucket covers keeps the account: this is    *)
(* the step acquire() and drain() share.                                    *)
LEMMA DebitKeepsAccount ==
  ASSUME TypeOK, BucketInv, NEW cost \in Nat, cost <= RefilledLevel,
         level' = RefilledLevel - cost, lastRefillAt' = RefilledAt, spent' = spent + cost,
         UNCHANGED <<now, cooldownUntilAt, windowAt, windowSpent>>
  PROVE  /\ BucketInv'
         /\ level' \in 0..Full
         /\ lastRefillAt' \in Nat
         /\ spent' \in Nat
         /\ now < cooldownUntilAt => cost = 0
<1>1. RefilledLevel \in 0..Full /\ RefilledAt \in Nat
  BY RefillType
<1>2. Full \in Nat
  BY FullNat
<1>3. level' \in 0..Full /\ lastRefillAt' \in Nat /\ spent' \in Nat
  BY <1>1, <1>2 DEF TypeOK
<1>4. CASE now > lastRefillAt
  <2>1. RefilledAt = now
    BY <1>4, RefillType
  <2>2. RefilledLevel <= level + (now - lastRefillAt)
    BY <1>4, <1>2 DEF TypeOK, BucketInv, RefilledLevel, RefillBase, Larger, Smaller
  <2>3. BucketInv'
    BY <1>1, <1>2, <1>4, <2>1, <2>2 DEF TypeOK, BucketInv, Smaller, Full
  <2>4. ~(now < cooldownUntilAt)
    BY <1>4 DEF TypeOK, BucketInv
  <2> QED BY <1>3, <2>3, <2>4
<1>5. CASE now <= lastRefillAt
  <2>1. RefilledAt = lastRefillAt /\ RefilledLevel = level
    BY <1>5, RefillType
  <2>2. BucketInv'
    BY <1>1, <1>2, <1>5, <2>1 DEF TypeOK, BucketInv, Smaller, Full
  <2>3. now < cooldownUntilAt => cost = 0
    BY <2>1 DEF TypeOK, BucketInv
  <2> QED BY <1>3, <2>2, <2>3
<1> QED BY <1>4, <1>5 DEF TypeOK

(* The delay of a refill timer is a positive number of milliseconds.        *)
LEMMA RefillDelayType ==
  ASSUME TypeOK, NEW lv \in Nat, NEW cooldown \in Nat
  PROVE  RefillDelay(lv, cooldown) \in Nat
  BY RateLimiterAssumption DEF TypeOK, RefillDelay, Larger

(* drain() grants n waiters what the bucket covers.                         *)
LEMMA DrainCost ==
  ASSUME TypeOK, NEW n \in 0..Len(waiters), DrainCount(n), RefilledLevel \in 0..Full
  PROVE  n * TokenCost \in Nat /\ n * TokenCost <= RefilledLevel
<1>1. n \in Nat /\ TokenCost \in Nat
  BY RateLimiterAssumption DEF TypeOK
<1> QED BY <1>1, SMT DEF DrainCount

(* Cutting one element out of the queue leaves a shorter queue.             *)
LEMMA DropWaiterType ==
  ASSUME TypeOK, NEW r \in Requests, DropWaiter(r)
  PROVE  /\ waiters' \in Seq(Requests)
         /\ Len(waiters') <= MaxQueueLength
         /\ waiters' # <<>> => waiters # <<>>
<1>1. PICK i \in 1..Len(waiters) :
        waiters' = SubSeq(waiters, 1, i - 1) \o SubSeq(waiters, i + 1, Len(waiters))
  BY DEF DropWaiter
<1> DEFINE front == SubSeq(waiters, 1, i - 1)
           back  == SubSeq(waiters, i + 1, Len(waiters))
<1>2. waiters \in Seq(Requests) /\ Len(waiters) \in Nat /\ Len(waiters) <= MaxQueueLength
  BY DEF TypeOK
<1>3. front \in Seq(Requests) /\ Len(front) = i - 1
  <2>1. \A j \in 1..(i - 1) : waiters[j] \in Requests
    BY <1>2, ElementOfSeq
  <2> QED BY <1>2, <2>1, SubSeqProperties
<1>4. back \in Seq(Requests) /\ Len(back) = Len(waiters) - i
  <2>1. \A j \in (i + 1)..Len(waiters) : waiters[j] \in Requests
    BY <1>2, ElementOfSeq
  <2>2. i + 1 \in Int /\ Len(waiters) \in Int
    BY <1>2
  <2>3. back \in Seq(Requests)
    BY <2>1, <2>2, SubSeqProperties
  <2>4. Len(back) = IF i + 1 <= Len(waiters) THEN Len(waiters) - (i + 1) + 1 ELSE 0
    BY <2>1, <2>2, SubSeqProperties
  <2> QED BY <1>2, <2>3, <2>4
<1> HIDE DEF front, back
<1>5. front \o back \in Seq(Requests) /\ Len(front \o back) = Len(waiters) - 1
  <2>1. /\ front \o back \in Seq(Requests)
        /\ Len(front \o back) = Len(front) + Len(back)
    BY <1>3, <1>4, ConcatProperties
  <2> QED BY <1>2, <1>3, <1>4, <2>1
<1>6. waiters # <<>>
  BY <1>2
<1>7. MaxQueueLength \in Nat
  BY RateLimiterAssumption
<1>8. waiters' = front \o back
  BY <1>1 DEF front, back
<1> QED BY <1>2, <1>5, <1>6, <1>7, <1>8

(* What is left of the queue after n grants is a queue, and it is empty     *)
(* exactly when everybody was granted.                                      *)
LEMMA LeftQueuedType ==
  ASSUME TypeOK, NEW n \in 0..Len(waiters)
  PROVE  /\ LeftQueued(n) \in Seq(Requests)
         /\ Len(LeftQueued(n)) = Len(waiters) - n
         /\ LeftQueued(n) # <<>> => n < Len(waiters)
<1>1. waiters \in Seq(Requests) /\ Len(waiters) \in Nat
  BY DEF TypeOK
<1>2. \A j \in (n + 1)..Len(waiters) : waiters[j] \in Requests
  BY <1>1, ElementOfSeq
<1>3. n + 1 \in Int /\ Len(waiters) \in Int
  BY <1>1
<1>4. LeftQueued(n) \in Seq(Requests)
  BY <1>2, <1>3, SubSeqProperties DEF LeftQueued
<1>5. Len(LeftQueued(n)) = IF n + 1 <= Len(waiters) THEN Len(waiters) - (n + 1) + 1 ELSE 0
  BY <1>2, <1>3, SubSeqProperties DEF LeftQueued
<1>6. Len(LeftQueued(n)) = Len(waiters) - n
  BY <1>1, <1>5
<1>7. LeftQueued(n) # <<>> => n < Len(waiters)
  BY <1>1, <1>3, SubSeqEmpty DEF LeftQueued
<1> QED BY <1>4, <1>6, <1>7

-----------------------------------------------------------------------------
LEMMA InitIInv == Init => IInv
<1> SUFFICES ASSUME Init PROVE IInv
  OBVIOUS
<1>1. TypeOK
  <2>1. <<>> \in Seq(Requests) /\ Len(<<>>) = 0
    OBVIOUS
  <2>2. Full \in 0..Full /\ 0 <= MaxQueueLength
    BY FullNat, RateLimiterAssumption
  <2>3. [r \in Requests |-> "idle"] \in [Requests -> Statuses]
    BY DEF Statuses
  <2> QED BY <2>1, <2>2, <2>3 DEF Init, TypeOK
<1>2. WaitersHaveTimer
  BY DEF Init, WaitersHaveTimer
<1>3. BucketInv
  BY FullNat DEF Init, BucketInv, Smaller
<1> QED BY <1>1, <1>2, <1>3 DEF IInv

(* acquire(): every outcome debits a cost the bucket covers, one token or   *)
(* none, and only Enqueue touches the queue, with a timer in place.         *)
LEMMA AcquireIInv ==
  ASSUME IInv, NEW r \in Requests, Acquire(r)
  PROVE  IInv' /\ (spent' # spent => now >= cooldownUntilAt)
<1> USE DEF IInv
<1>1. TokenCost \in Nat /\ TokenCost > 0 /\ MaxQueueLength \in Nat
  BY RateLimiterAssumption
<1>2. RefilledLevel \in 0..Full /\ Full \in Nat
  BY RefillType, FullNat
<1>3. PICK cost \in {0, TokenCost} :
        /\ cost <= RefilledLevel
        /\ level' = RefilledLevel - cost
        /\ spent' = spent + cost
  <2>1. CASE GrantNow(r)
    BY <2>1, <1>1, <1>2 DEF GrantNow
  <2>2. CASE RejectFull(r) \/ RejectAborted(r) \/ Enqueue(r)
    BY <2>2, <1>1, <1>2 DEF RejectFull, RejectAborted, Enqueue, TypeOK
  <2> QED BY <2>1, <2>2 DEF Acquire
<1>4. /\ BucketInv'
      /\ level' \in 0..Full
      /\ lastRefillAt' \in Nat
      /\ spent' \in Nat
      /\ now < cooldownUntilAt => cost = 0
  BY <1>1, <1>3, DebitKeepsAccount DEF Acquire
<1>5. /\ waiters' \in Seq(Requests)
      /\ Len(waiters') <= MaxQueueLength
      /\ refillScheduled' \in BOOLEAN
      /\ refillDue' \in Nat
      /\ startedAt' \in [Requests -> Nat]
      /\ status' \in [Requests -> Statuses]
      /\ WaitersHaveTimer'
  <2>1. CASE GrantNow(r) \/ RejectFull(r) \/ RejectAborted(r)
    BY <2>1 DEF GrantNow, RejectFull, RejectAborted, TypeOK, Statuses, WaitersHaveTimer, timer
  <2>2. CASE Enqueue(r)
    <3>1. waiters' \in Seq(Requests) /\ Len(waiters') <= MaxQueueLength
      BY <2>2, <1>1 DEF Enqueue, TypeOK
    <3>2. refillScheduled' = TRUE
      BY <2>2 DEF Enqueue, ScheduleRefill
    <3>3. refillDue' \in Nat
      <4>1. RefilledLevel \in Nat /\ cooldownUntilAt \in Nat
        BY <1>2 DEF TypeOK
      <4>2. RefillDelay(RefilledLevel, cooldownUntilAt) \in Nat
        BY <4>1, RefillDelayType
      <4> QED BY <2>2, <4>2 DEF Enqueue, ScheduleRefill, TypeOK
    <3>4. startedAt' \in [Requests -> Nat] /\ status' \in [Requests -> Statuses]
      BY <2>2 DEF Enqueue, TypeOK, Statuses
    <3> QED BY <3>1, <3>2, <3>3, <3>4 DEF WaitersHaveTimer
  <2> QED BY <2>1, <2>2 DEF Acquire
<1>6. TypeOK'
  BY <1>4, <1>5, FullNat DEF Acquire, TypeOK, Full
<1>7. spent' # spent => now >= cooldownUntilAt
  BY <1>1, <1>3, <1>4 DEF TypeOK
<1> QED BY <1>4, <1>5, <1>6, <1>7

(* An abort shortens the queue and touches nothing the account is about.    *)
LEMMA AbortIInv ==
  ASSUME IInv, NEW r \in Requests, Abort(r)
  PROVE  IInv' /\ spent' = spent
<1> USE DEF IInv
<1>1. spent' = spent /\ BucketInv'
  BY DEF Abort, history, bucket, BucketInv, Smaller, Full
<1>2. /\ waiters' \in Seq(Requests)
      /\ Len(waiters') <= MaxQueueLength
      /\ waiters' # <<>> => waiters # <<>>
      /\ status' \in [Requests -> Statuses]
  <2>1. CASE status[r] = "waiting"
    BY <2>1, DropWaiterType DEF Abort, TypeOK, Statuses
  <2>2. CASE status[r] # "waiting"
    BY <2>2 DEF Abort, TypeOK
  <2> QED BY <2>1, <2>2
<1>3. TypeOK' /\ WaitersHaveTimer'
  BY <1>2 DEF Abort, TypeOK, WaitersHaveTimer, bucket, timer, history, Full
<1> QED BY <1>1, <1>3

(* drain() debits n tokens the bucket covers and re-arms the timer unless   *)
(* the queue is empty.                                                      *)
LEMMA RefillTimerIInv ==
  ASSUME IInv, RefillTimer
  PROVE  IInv' /\ (spent' # spent => now >= cooldownUntilAt)
<1> USE DEF IInv
<1>1. PICK n \in 0..Len(waiters) :
        /\ DrainCount(n)
        /\ level' = RefilledLevel - n * TokenCost
        /\ lastRefillAt' = RefilledAt
        /\ spent' = spent + n * TokenCost
        /\ waiters' = LeftQueued(n)
        /\ status' = [r \in Requests |->
                        IF r \in Granted(n) /\ status[r] = "waiting" THEN "sent" ELSE status[r]]
        /\ RearmTimer(n)
  BY DEF RefillTimer
<1> DEFINE cost == n * TokenCost
<1>2. RefilledLevel \in 0..Full /\ Full \in Nat
  BY RefillType, FullNat
<1>3. cost \in Nat /\ cost <= RefilledLevel
  BY <1>1, <1>2, DrainCost
<1>4. /\ level' = RefilledLevel - cost
      /\ lastRefillAt' = RefilledAt
      /\ spent' = spent + cost
      /\ UNCHANGED <<now, cooldownUntilAt, windowAt, windowSpent>>
  BY <1>1 DEF RefillTimer
<1> HIDE DEF cost
<1>5. /\ BucketInv'
      /\ level' \in 0..Full
      /\ lastRefillAt' \in Nat
      /\ spent' \in Nat
      /\ now < cooldownUntilAt => cost = 0
  BY <1>3, <1>4, DebitKeepsAccount
<1>6. /\ waiters' \in Seq(Requests)
      /\ Len(waiters') <= MaxQueueLength
      /\ waiters' # <<>> => n < Len(waiters)
  <2>1. LeftQueued(n) \in Seq(Requests) /\ Len(LeftQueued(n)) = Len(waiters) - n
    BY LeftQueuedType
  <2>2. MaxQueueLength \in Nat /\ Len(waiters) \in Nat /\ Len(waiters) <= MaxQueueLength
    BY RateLimiterAssumption DEF TypeOK
  <2> QED BY <1>1, <2>1, <2>2, LeftQueuedType
<1>7. refillScheduled' \in BOOLEAN /\ refillDue' \in Nat /\ (n < Len(waiters) => refillScheduled')
  <2>1. RefilledLevel - n * TokenCost \in Nat
    BY <1>2, <1>3 DEF cost
  <2>2. RefillDelay(RefilledLevel - n * TokenCost, cooldownUntilAt) \in Nat
    BY <2>1, RefillDelayType DEF TypeOK
  <2>3. CASE n < Len(waiters)
    <3> DEFINE delay == RefillDelay(RefilledLevel - n * TokenCost, cooldownUntilAt)
    <3>1. refillScheduled' = TRUE /\ refillDue' = now + delay
      BY <1>1, <2>3 DEF RearmTimer
    <3>2. delay \in Nat /\ now \in Nat
      BY <2>2 DEF TypeOK
    <3> HIDE DEF delay
    <3> QED BY <3>1, <3>2
  <2>4. CASE ~(n < Len(waiters))
    BY <1>1, <2>4 DEF RearmTimer, TypeOK
  <2> QED BY <2>3, <2>4
<1>8. status' \in [Requests -> Statuses]
  BY <1>1 DEF TypeOK, Statuses
<1>9. TypeOK'
  BY <1>5, <1>6, <1>7, <1>8, FullNat DEF RefillTimer, TypeOK, Full
<1>10. WaitersHaveTimer'
  BY <1>6, <1>7 DEF WaitersHaveTimer
<1>11. spent' # spent => now >= cooldownUntilAt
  BY <1>4, <1>5 DEF TypeOK
<1> QED BY <1>5, <1>9, <1>10, <1>11

(* A 429 empties the bucket and moves its refill time into the future, so   *)
(* the account of the window up to now is only relieved.                    *)
LEMMA NoteRetryAfterIInv ==
  ASSUME IInv, NEW r \in Requests, NEW s \in RetryAfters, NoteRetryAfter(r, s)
  PROVE  IInv' /\ spent' = spent
<1> USE DEF IInv
<1>1. s \in Nat /\ RefillDelay(0, now + s) \in Nat
  <2>1. s \in Nat /\ now + s \in Nat
    BY RateLimiterAssumption DEF TypeOK
  <2> QED BY <2>1, RefillDelayType
<1>2. spent' = spent /\ now' = now /\ windowAt' = windowAt /\ windowSpent' = windowSpent
  BY DEF NoteRetryAfter
<1>3. status' \in [Requests -> Statuses]
  BY DEF NoteRetryAfter, TypeOK, Statuses
<1>4. CASE s > 0
  <2>1. /\ cooldownUntilAt' = now + s
        /\ lastRefillAt' = now + s
        /\ level' = 0
        /\ refillScheduled' = TRUE
        /\ refillDue' \in Nat
    BY <1>1, <1>4 DEF NoteRetryAfter, StartCooldown, ScheduleRefill, TypeOK
  <2>2. BucketInv'
    BY <1>1, <1>2, <1>4, <2>1, FullNat DEF BucketInv, TypeOK, Smaller, Full
  <2>3. TypeOK' /\ WaitersHaveTimer'
    BY <1>1, <1>2, <1>3, <2>1, FullNat DEF NoteRetryAfter, TypeOK, WaitersHaveTimer, Full
  <2> QED BY <1>2, <2>2, <2>3
<1>5. CASE ~(s > 0)
  <2>1. UNCHANGED <<bucket, timer>>
    BY <1>5 DEF NoteRetryAfter
  <2>2. BucketInv'
    BY <1>2, <2>1 DEF BucketInv, bucket, Smaller, Full
  <2>3. TypeOK' /\ WaitersHaveTimer'
    BY <1>2, <1>3, <2>1 DEF NoteRetryAfter, TypeOK, WaitersHaveTimer, bucket, timer, Full
  <2> QED BY <1>2, <2>2, <2>3
<1> QED BY <1>4, <1>5

(* The other steps leave the bucket alone: time may pass, a waiter may time *)
(* out, the observer may open a window.                                     *)
LEMMA OtherStepsIInv ==
  ASSUME IInv,
         (\E r \in Requests : FailWaiter(r)) \/ Tick \/ OpenWindow \/ UNCHANGED vars
  PROVE  IInv' /\ spent' = spent
<1> USE DEF IInv
<1>1. CASE \E r \in Requests : FailWaiter(r)
  BY <1>1 DEF FailWaiter, TypeOK, Statuses, WaitersHaveTimer, BucketInv, Smaller, Full,
              bucket, timer, history
<1>2. CASE Tick
  BY <1>2, FullNat DEF Tick, TypeOK, WaitersHaveTimer, BucketInv, Smaller, Full,
              bucket, timer, history
<1>3. CASE OpenWindow
  BY <1>3, FullNat DEF OpenWindow, TypeOK, WaitersHaveTimer, BucketInv, Smaller, Full,
              bucket, timer, history
<1>4. CASE UNCHANGED vars
  BY <1>4 DEF vars, TypeOK, WaitersHaveTimer, BucketInv, Smaller, Full, bucket, timer, history
<1> QED BY <1>1, <1>2, <1>3, <1>4

LEMMA NextIInv ==
  ASSUME IInv, [Next]_vars
  PROVE  IInv' /\ (spent' # spent => now >= cooldownUntilAt)
<1>1. ASSUME NEW r \in Requests, Acquire(r)
      PROVE  IInv' /\ (spent' # spent => now >= cooldownUntilAt)
  BY <1>1, AcquireIInv
<1>2. ASSUME NEW r \in Requests, Abort(r)
      PROVE  IInv' /\ (spent' # spent => now >= cooldownUntilAt)
  BY <1>2, AbortIInv
<1>3. CASE RefillTimer
  BY <1>3, RefillTimerIInv
<1>4. ASSUME NEW r \in Requests, NEW s \in RetryAfters, NoteRetryAfter(r, s)
      PROVE  IInv' /\ (spent' # spent => now >= cooldownUntilAt)
  BY <1>4, NoteRetryAfterIInv
<1>5. CASE (\E r \in Requests : FailWaiter(r)) \/ Tick \/ OpenWindow \/ UNCHANGED vars
  BY <1>5, OtherStepsIInv
<1> QED BY <1>1, <1>2, <1>3, <1>4, <1>5 DEF Next

-----------------------------------------------------------------------------
LEMMA Inductive == Spec => []IInv
<1>1. Init => IInv
  BY InitIInv
<1>2. IInv /\ [Next]_vars => IInv'
  BY NextIInv
<1> QED BY <1>1, <1>2, PTL DEF Spec

(* Every state of the limiter is well formed: the level stays within the    *)
(* bucket and the queue within its limit.                                   *)
THEOREM TypeCorrect == Spec => []TypeOK
<1>1. IInv => TypeOK
  BY DEF IInv
<1> QED BY <1>1, Inductive, PTL

(* No request is ever queued without a refill timer that will look at it.   *)
THEOREM NobodyForgotten == Spec => []WaitersHaveTimer
<1>1. IInv => WaitersHaveTimer
  BY DEF IInv
<1> QED BY <1>1, Inductive, PTL

(* Over any window of time the middleware lets through at most one full     *)
(* bucket plus what the window's length has refilled, whatever back-offs,   *)
(* aborts, timeouts and late timers there were.                             *)
THEOREM RateIsBounded == Spec => []RateBounded
<1>1. IInv => RateBounded
  BY FullNat DEF IInv, TypeOK, BucketInv, RateBounded, Smaller
<1> QED BY <1>1, Inductive, PTL

(* While the cool-down of a 429 lasts no token is handed out, neither by a  *)
(* call nor by a timer that was armed before the 429 arrived.               *)
THEOREM CooldownHolds == Spec => NoGrantInCooldown
<1>1. IInv /\ [Next]_vars => [spent' # spent => now >= cooldownUntilAt]_vars
  BY NextIInv
<1> QED BY <1>1, Inductive, PTL DEF Spec, NoGrantInCooldown

-----------------------------------------------------------------------------
(* The order of the queue.                                                  *)

(* Different places of the queue now hold what different places of the      *)
(* queue before held.                                                       *)
FromQueue ==
  \A k, l \in DOMAIN waiters' :
    \E i, j \in DOMAIN waiters :
      waiters'[k] = waiters[i] /\ waiters'[l] = waiters[j] /\ (i = j => k = l)

LEMMA DropWaiterOrder ==
  ASSUME TypeOK, NEW r \in Requests, DropWaiter(r)
  PROVE  FromQueue
<1>1. PICK i \in 1..Len(waiters) :
        waiters' = SubSeq(waiters, 1, i - 1) \o SubSeq(waiters, i + 1, Len(waiters))
  BY DEF DropWaiter
<1> DEFINE front == SubSeq(waiters, 1, i - 1)
           back  == SubSeq(waiters, i + 1, Len(waiters))
           n     == Len(waiters)
           from(k) == IF k < i THEN k ELSE k + 1
<1>2. waiters \in Seq(Requests) /\ n \in Nat /\ DOMAIN waiters = 1..n
  BY DEF TypeOK
<1>3. /\ front \in Seq(Requests) /\ Len(front) = i - 1
      /\ \A k \in 1..(i - 1) : front[k] = waiters[k]
  <2>1. \A j \in 1..(i - 1) : waiters[j] \in Requests
    BY <1>2, ElementOfSeq
  <2> QED BY <1>2, <2>1, SubSeqProperties
<1>4. /\ back \in Seq(Requests) /\ Len(back) = n - i
      /\ \A k \in 1..(n - i) : back[k] = waiters[i + k]
  <2>1. \A j \in (i + 1)..n : waiters[j] \in Requests
    BY <1>2, ElementOfSeq
  <2>2. i + 1 \in Int /\ n \in Int
    BY <1>2
  <2>3. back \in Seq(Requests)
    BY <2>1, <2>2, SubSeqProperties
  <2>4. Len(back) = IF i + 1 <= n THEN n - (i + 1) + 1 ELSE 0
    BY <2>1, <2>2, SubSeqProperties
  <2>5. \A k \in 1..(n - (i + 1) + 1) : back[k] = waiters[i + 1 + k - 1]
    BY <2>1, <2>2, SubSeqProperties
  <2> HIDE DEF back, n
  <2>6. Len(back) = n - i
    BY <1>2, <2>4
  <2>7. \A k \in 1..(n - i) : back[k] = waiters[i + k]
    <3>1. n - (i + 1) + 1 = n - i /\ \A k \in 1..(n - i) : i + 1 + k - 1 = i + k
      BY <1>2
    <3> QED BY <2>5, <3>1
  <2> QED BY <2>3, <2>6, <2>7
<1> HIDE DEF front, back
<1>5. /\ DOMAIN waiters' = 1..(n - 1)
      /\ \A k \in 1..(n - 1) : waiters'[k] = waiters[from(k)]
  <2>1. waiters' = front \o back
    BY <1>1 DEF front, back
  <2>2. /\ Len(front \o back) = Len(front) + Len(back)
        /\ \A k \in 1..(Len(front) + Len(back)) :
             (front \o back)[k] = IF k <= Len(front) THEN front[k] ELSE back[k - Len(front)]
        /\ front \o back \in Seq(Requests)
    BY <1>3, <1>4, ConcatProperties
  <2>3. Len(front) + Len(back) = n - 1
    BY <1>2, <1>3, <1>4
  <2>4. DOMAIN waiters' = 1..(n - 1)
    BY <2>1, <2>2, <2>3
  <2>5. ASSUME NEW k \in 1..(n - 1) PROVE waiters'[k] = waiters[from(k)]
    <3>1. CASE k < i
      BY <1>2, <1>3, <2>1, <2>2, <2>3, <3>1
    <3>2. CASE ~(k < i)
      <4> DEFINE m == k - (i - 1)
      <4>1. m \in 1..(n - i) /\ i + m = k + 1 /\ ~(k <= i - 1)
        BY <1>2, <3>2
      <4>2. waiters'[k] = back[m]
        BY <1>3, <2>1, <2>2, <2>3, <4>1
      <4>3. back[m] = waiters[k + 1]
        <5> HIDE DEF m
        <5> QED BY <1>4, <4>1
      <4> QED BY <3>2, <4>2, <4>3
    <3> QED BY <3>1, <3>2
  <2> QED BY <2>4, <2>5
<1>6. \A k, l \in 1..(n - 1) : from(k) \in 1..n /\ (from(k) = from(l) => k = l)
  BY <1>2
<1> HIDE DEF from
<1> QED BY <1>2, <1>5, <1>6 DEF FromQueue

LEMMA LeftQueuedOrder ==
  ASSUME TypeOK, NEW n \in 0..Len(waiters), waiters' = LeftQueued(n)
  PROVE  FromQueue
<1>1. waiters \in Seq(Requests) /\ Len(waiters) \in Nat /\ DOMAIN waiters = 1..Len(waiters)
  BY DEF TypeOK
<1>2. \A j \in (n + 1)..Len(waiters) : waiters[j] \in Requests
  BY <1>1, ElementOfSeq
<1>3. n + 1 \in Int /\ Len(waiters) \in Int
  BY <1>1
<1>4. waiters' \in Seq(Requests) /\ Len(waiters') = Len(waiters) - n
  BY LeftQueuedType
<1>5. \A k \in 1..(Len(waiters) - n) : waiters'[k] = waiters[n + k]
  <2>1. \A k \in 1..(Len(waiters) - n) : LeftQueued(n)[k] = waiters[n + 1 + k - 1]
    BY <1>1, <1>2, <1>3, SubSeqProperties DEF LeftQueued
  <2>2. \A k \in 1..(Len(waiters) - n) : n + 1 + k - 1 = n + k
    BY <1>1
  <2> QED BY <2>1, <2>2
<1>6. DOMAIN waiters' = 1..(Len(waiters) - n)
  BY <1>1, <1>4
<1> QED BY <1>1, <1>5, <1>6 DEF FromQueue

(* A queue that came from one without repetitions has none.                 *)
LEMMA FromQueueKeeps ==
  ASSUME QueueInv, FromQueue,
         \A i \in DOMAIN waiters : status[waiters[i]] # "idle" => status'[waiters[i]] # "idle"
  PROVE  QueueInv'
  BY DEF QueueInv, FromQueue

(* Only an idle request joins the queue, and none becomes idle again.       *)
LEMMA NextQueueInv == TypeOK /\ QueueInv /\ [Next]_vars => QueueInv'
<1> SUFFICES ASSUME TypeOK, QueueInv, [Next]_vars PROVE QueueInv'
  OBVIOUS
<1>1. \A i \in DOMAIN waiters : waiters[i] \in Requests
  BY ElementOfSeq DEF TypeOK
<1>2. ASSUME UNCHANGED waiters, \A r \in Requests : status[r] # "idle" => status'[r] # "idle"
      PROVE  QueueInv'
  BY <1>1, <1>2 DEF QueueInv
<1>3. ASSUME NEW r \in Requests, Acquire(r) PROVE QueueInv'
  <2>1. CASE GrantNow(r) \/ RejectFull(r) \/ RejectAborted(r)
    <3>1. UNCHANGED waiters /\ \A q \in Requests : status[q] # "idle" => status'[q] # "idle"
      BY <2>1 DEF GrantNow, RejectFull, RejectAborted, TypeOK
    <3> QED BY <3>1, <1>2
  <2>2. CASE Enqueue(r)
    <3>1. /\ status[r] = "idle" /\ waiters' = Append(waiters, r)
          /\ status' = [status EXCEPT ![r] = "waiting"]
      BY <1>3, <2>2 DEF Acquire, Enqueue
    <3>2. /\ waiters \in Seq(Requests) /\ Len(waiters) \in Nat /\ DOMAIN waiters = 1..Len(waiters)
          /\ DOMAIN waiters' = 1..(Len(waiters) + 1)
          /\ waiters'[Len(waiters) + 1] = r
          /\ \A i \in 1..Len(waiters) : waiters'[i] = waiters[i]
      BY <3>1 DEF TypeOK
    <3>3. \A i \in DOMAIN waiters : waiters[i] # r
      BY <3>1 DEF QueueInv
    <3>4. \A q \in Requests : status'[q] = IF q = r THEN "waiting" ELSE status[q]
      BY <3>1 DEF TypeOK
    <3> QED BY <1>1, <3>2, <3>3, <3>4 DEF QueueInv
  <2> QED BY <1>3, <2>1, <2>2 DEF Acquire
<1>4. ASSUME NEW r \in Requests, Abort(r) PROVE QueueInv'
  <2>1. CASE status[r] = "waiting"
    <3>1. DropWaiter(r) /\ status' = [status EXCEPT ![r] = "aborted"]
      BY <1>4, <2>1 DEF Abort
    <3>2. \A q \in Requests : status[q] # "idle" => status'[q] # "idle"
      BY <3>1 DEF TypeOK
    <3> QED BY <1>1, <3>1, <3>2, DropWaiterOrder, FromQueueKeeps
  <2>2. CASE status[r] # "waiting"
    <3>1. UNCHANGED waiters /\ UNCHANGED status
      BY <1>4, <2>2 DEF Abort
    <3> QED BY <3>1, <1>2
  <2> QED BY <2>1, <2>2
<1>5. CASE RefillTimer
  <2>1. PICK n \in 0..Len(waiters) :
          /\ waiters' = LeftQueued(n)
          /\ status' = [r \in Requests |->
                          IF r \in Granted(n) /\ status[r] = "waiting" THEN "sent" ELSE status[r]]
    BY <1>5 DEF RefillTimer
  <2>2. \A q \in Requests : status[q] # "idle" => status'[q] # "idle"
    BY <2>1
  <2> QED BY <1>1, <2>1, <2>2, LeftQueuedOrder, FromQueueKeeps
<1>6. CASE \/ \E r \in Requests : FailWaiter(r)
           \/ \E r \in Requests, s \in RetryAfters : NoteRetryAfter(r, s)
           \/ Tick \/ OpenWindow \/ UNCHANGED vars
  <2>1. UNCHANGED waiters /\ \A q \in Requests : status[q] # "idle" => status'[q] # "idle"
    BY <1>6 DEF FailWaiter, NoteRetryAfter, Tick, OpenWindow, vars, TypeOK
  <2> QED BY <2>1, <1>2
<1> QED BY <1>3, <1>4, <1>5, <1>6 DEF Next

LEMMA QueueInductive == Spec => [](TypeOK /\ QueueInv)
<1>1. Init => QueueInv
  BY DEF Init, QueueInv
<1>2. IInv => TypeOK
  BY DEF IInv
<1> QED BY <1>1, <1>2, NextQueueInv, Inductive, PTL DEF Spec

(* FifoAmongWaiters: when drain() grants a waiter, no request that was      *)
(* ahead of it goes on waiting: the granted are the front of the queue, and *)
(* each request is at one place only.                                       *)
THEOREM ServedInOrder == Spec => FifoAmongWaiters
<1> DEFINE Fifo ==
      \A i, j \in DOMAIN waiters :
        /\ i < j
        /\ status[waiters[j]] = "waiting" /\ status'[waiters[j]] = "sent"
        => status'[waiters[i]] # "waiting"
<1>1. TypeOK /\ QueueInv /\ [Next]_vars => [Fifo]_vars
  <2> SUFFICES ASSUME TypeOK, QueueInv, Next, NEW i \in DOMAIN waiters, NEW j \in DOMAIN waiters,
                      i < j, status[waiters[j]] = "waiting", status'[waiters[j]] = "sent"
               PROVE  status'[waiters[i]] # "waiting"
    OBVIOUS
  <2>1. /\ waiters \in Seq(Requests) /\ Len(waiters) \in Nat /\ DOMAIN waiters = 1..Len(waiters)
        /\ waiters[i] \in Requests /\ waiters[j] \in Requests
    BY ElementOfSeq DEF TypeOK
  <2>2. RefillTimer
    BY <2>1 DEF Next, Acquire, GrantNow, RejectFull, RejectAborted, Enqueue, Abort, FailWaiter,
                NoteRetryAfter, Tick, OpenWindow, TypeOK
  <2>3. PICK n \in 0..Len(waiters) :
          status' = [r \in Requests |->
                       IF r \in Granted(n) /\ status[r] = "waiting" THEN "sent" ELSE status[r]]
    BY <2>2 DEF RefillTimer
  <2>4. PICK k \in 1..n : waiters[k] = waiters[j]
    BY <2>1, <2>3 DEF Granted
  <2>5. k = j
    BY <2>1, <2>4 DEF QueueInv
  <2>6. waiters[i] \in Granted(n)
    BY <2>1, <2>5 DEF Granted
  <2> QED BY <2>1, <2>3, <2>6
<1> QED BY <1>1, QueueInductive, PTL DEF Spec, FifoAmongWaiters
=============================================================================
