--------------------------- MODULE AnalyticsClient ---------------------------
(***************************************************************************)
(* analytics/client.ts: AnalyticsClient, enabled and with a transport.     *)
(* record() fills a bounded queue synchronously; one drain at a time takes *)
(* batches from its front and posts each with retries.  JavaScript runs    *)
(* one callback at a time, so a step is the code between two awaits; an    *)
(* event is the number of its record() call.                               *)
(***************************************************************************)
EXTENDS Integers, Sequences

CONSTANTS
  MaxBatchSize,        \* options.maxBatchSize
  MaxQueueSize,        \* options.maxQueueSize
  MaxRetriesPerBatch,  \* options.maxRetriesPerBatch
  MaxEvents,           \* bound: calls of record()
  MaxFailures          \* bound: posts that fail

ASSUME AnalyticsAssumption ==
  /\ MaxBatchSize \in Nat \ {0}
  /\ MaxQueueSize \in Nat \ {0}
  /\ MaxRetriesPerBatch \in Nat \ {0}
  /\ MaxEvents \in Nat
  /\ MaxFailures \in Nat

VARIABLES
  queue,      \* events recorded and not yet taken by a drain
  inFlight,   \* the drain: "none"; "posting"; "settled", over but not yet cleared
  batch,      \* the batch being delivered
  attempt,    \* which attempt at it is under way
  timerOn,    \* is the flush interval running?
  microtasks, \* automatic flushes scheduled and not yet run
  shutdown,   \* shutdown(): not "called", "waiting" for the drain, "returning", "returned"
  recordedCount, deliveredCount, droppedCount,
  failures,   \* posts that have failed so far
  acked,      \* history: the events of acknowledged posts, in order
  owed        \* history: the events recorded when shutdown() was called

drain    == <<inFlight, batch, attempt>>
counters == <<recordedCount, deliveredCount, droppedCount>>
vars     == <<queue, drain, timerOn, microtasks, shutdown, counters, failures, acked, owed>>

Init ==
  /\ queue = <<>>
  /\ inFlight = "none"
  /\ batch = <<>>
  /\ attempt = 0
  /\ timerOn \in BOOLEAN
  /\ microtasks = 0
  /\ shutdown = "idle"
  /\ recordedCount = 0
  /\ deliveredCount = 0
  /\ droppedCount = 0
  /\ failures = 0
  /\ acked = <<>>
  /\ owed = 0

AtMost(a, b) == IF a < b THEN a ELSE b

(* The first, or the last, n elements of a sequence that has them.          *)
Oldest(s, n) == SubSeq(s, 1, n)
Newest(s, n) == SubSeq(s, Len(s) - n + 1, Len(s))

-----------------------------------------------------------------------------
(* record(): the oldest event makes room, and a full batch schedules a      *)
(* flush on the microtask queue.                                            *)
Enqueued(event) ==
  LET pushed == Append(queue, event)
  IN  Newest(pushed, AtMost(Len(pushed), MaxQueueSize))

MaybeScheduleAutoFlush ==
  microtasks' = IF Len(queue') >= MaxBatchSize /\ inFlight = "none"
                THEN microtasks + 1
                ELSE microtasks

Record ==
  /\ recordedCount < MaxEvents
  /\ recordedCount' = recordedCount + 1
  /\ queue' = Enqueued(recordedCount')
  /\ droppedCount' = droppedCount + Len(queue) + 1 - Len(queue')
  /\ MaybeScheduleAutoFlush
  /\ UNCHANGED <<drain, timerOn, shutdown, deliveredCount, failures, acked, owed>>

(* One turn of the loop of drainQueue(): take a batch, or end with none.    *)
TakeBatch ==
  LET size == AtMost(Len(queue), MaxBatchSize)
  IN  /\ batch' = Oldest(queue, size)
      /\ queue' = SubSeq(queue, size + 1, Len(queue))
      /\ inFlight' = IF queue = <<>> THEN "settled" ELSE "posting"
      /\ attempt' = IF queue = <<>> THEN 0 ELSE 1

(* flush(): join the drain there is, or start one.                          *)
FlushOrJoin ==
  IF inFlight = "none" THEN TakeBatch ELSE UNCHANGED <<queue, drain>>

(* The application's flush(): one that joins a drain changes nothing, and   *)
(* with an empty queue the drain is over before the caller goes on.         *)
Flush ==
  /\ inFlight = "none"
  /\ FlushOrJoin
  /\ UNCHANGED <<timerOn, microtasks, shutdown, counters, failures, acked, owed>>

(* The interval's callback has the event loop to itself, so with an empty   *)
(* queue its drain starts, ends and is cleared with nothing in between.     *)
TimerFlush ==
  /\ timerOn
  /\ queue # <<>>
  /\ inFlight = "none"
  /\ FlushOrJoin
  /\ UNCHANGED <<timerOn, microtasks, shutdown, counters, failures, acked, owed>>

AutoFlush ==
  /\ microtasks > 0
  /\ microtasks' = microtasks - 1
  /\ IF Len(queue) >= MaxBatchSize THEN FlushOrJoin ELSE UNCHANGED <<queue, drain>>
  /\ UNCHANGED <<timerOn, shutdown, counters, failures, acked, owed>>

StopAutoFlush == timerOn' = FALSE

StopTimer ==
  /\ timerOn
  /\ StopAutoFlush
  /\ UNCHANGED <<queue, drain, microtasks, shutdown, counters, failures, acked, owed>>

Shutdown ==
  /\ shutdown = "idle"
  /\ shutdown' = "waiting"
  /\ owed' = recordedCount
  /\ StopAutoFlush
  /\ FlushOrJoin
  /\ UNCHANGED <<microtasks, counters, failures, acked>>

-----------------------------------------------------------------------------
(* deliverBatch(): the post is acknowledged, and the drain goes on.         *)
PostSucceeds ==
  /\ inFlight = "posting"
  /\ deliveredCount' = deliveredCount + Len(batch)
  /\ acked' = acked \o batch
  /\ TakeBatch
  /\ UNCHANGED <<timerOn, microtasks, shutdown, recordedCount, droppedCount, failures, owed>>

Fail ==
  /\ inFlight = "posting"
  /\ failures < MaxFailures
  /\ failures' = failures + 1

PostFailsAndRetries ==
  /\ Fail
  /\ attempt < MaxRetriesPerBatch
  /\ attempt' = attempt + 1
  /\ UNCHANGED <<queue, inFlight, batch, timerOn, microtasks, shutdown, counters, acked, owed>>

(* requeue(): the newest events of the batch that fit go back to the front. *)
Retained == AtMost(Len(batch), MaxQueueSize - Len(queue))

(* Mutants of Requeued: at the back, the batch's oldest events, all of it.  *)
RequeuedAtBack  == queue \o Newest(batch, Retained)
RequeuedOldest  == Oldest(batch, Retained) \o queue
RequeuedWhole   == batch \o queue

Requeued == Newest(batch, Retained) \o queue

(* The last attempt fails: drainQueue() requeues the batch and ends.        *)
PostFails ==
  /\ Fail
  /\ attempt = MaxRetriesPerBatch
  /\ queue' = Requeued
  /\ droppedCount' = droppedCount + Len(batch) - Retained
  /\ inFlight' = "settled"
  /\ batch' = <<>>
  /\ attempt' = 0
  /\ UNCHANGED <<timerOn, microtasks, shutdown, recordedCount, deliveredCount, acked, owed>>

(* A mutant of ClearInFlight: forgotten when a batch was requeued.          *)
ClearInFlightIfDrained ==
  /\ inFlight = "settled"
  /\ inFlight' = IF queue = <<>> THEN "none" ELSE "settled"
  /\ shutdown' = IF shutdown = "waiting" THEN "returning" ELSE shutdown
  /\ UNCHANGED <<queue, batch, attempt, timerOn, microtasks, counters, failures, acked, owed>>

(* The callback of run.finally(): a microtask after the drain is over.  Who *)
(* awaits the drain continues after it.                                     *)
ClearInFlight ==
  /\ inFlight = "settled"
  /\ inFlight' = "none"
  /\ shutdown' = IF shutdown = "waiting" THEN "returning" ELSE shutdown
  /\ UNCHANGED <<queue, batch, attempt, timerOn, microtasks, counters, failures, acked, owed>>

ShutdownReturns ==
  /\ shutdown = "returning"
  /\ shutdown' = "returned"
  /\ UNCHANGED <<queue, drain, timerOn, microtasks, counters, failures, acked, owed>>

-----------------------------------------------------------------------------
PostSettles == PostSucceeds \/ PostFailsAndRetries \/ PostFails

Next ==
  \/ Record
  \/ TimerFlush
  \/ Flush
  \/ AutoFlush
  \/ StopTimer
  \/ Shutdown
  \/ PostSettles
  \/ ClearInFlight
  \/ ShutdownReturns

Spec == Init /\ [][Next]_vars

(* Posts settle, the event loop runs its microtasks, and the interval fires *)
(* as long as nobody stops it.                                              *)
FairSpec ==
  /\ Spec
  /\ WF_vars(TimerFlush)
  /\ WF_vars(AutoFlush)
  /\ WF_vars(PostSettles)
  /\ WF_vars(ClearInFlight)
  /\ WF_vars(ShutdownReturns)

-----------------------------------------------------------------------------
Events == 1 .. MaxEvents

(* Type of every variable: the queue and the batch never exceed the limits  *)
(* the options set, and a batch is held exactly while it is being posted.   *)
TypeOK ==
  /\ recordedCount \in 0 .. MaxEvents
  /\ queue \in Seq(Events) /\ Len(queue) <= MaxQueueSize
  /\ batch \in Seq(Events) /\ Len(batch) <= MaxBatchSize
  /\ acked \in Seq(Events)
  /\ inFlight \in {"none", "posting", "settled"}
  /\ attempt \in 0 .. MaxRetriesPerBatch
  /\ inFlight = "posting" <=> batch # <<>>
  /\ inFlight = "posting" <=> attempt > 0
  /\ timerOn \in BOOLEAN
  /\ shutdown \in {"idle", "waiting", "returning", "returned"}
  /\ microtasks \in Nat /\ deliveredCount \in Nat /\ droppedCount \in Nat
  /\ failures \in Nat
  /\ owed \in 0 .. recordedCount

(* The counters of stats() add up at every moment: an event recorded is     *)
(* waiting, in the batch in flight, delivered, or counted as dropped,       *)
(* whatever record() does to the queue while a batch is out.                *)
Accounted ==
  recordedCount = deliveredCount + droppedCount + Len(batch) + Len(queue)

(* What the server has acknowledged, then the batch in flight, then the     *)
(* queue are in the order of record(), and no event is there twice: a batch *)
(* that failed goes back where it came from and none is sent again once     *)
(* acknowledged.                                                            *)
SentInOrder ==
  LET all == acked \o batch \o queue
  IN  \A i \in 1 .. Len(all) - 1 : all[i] < all[i + 1]

(* The queue always holds the most recent events without a gap: when it is  *)
(* full, whether record() or a requeue overflows it, the oldest are the     *)
(* ones that go, also when the batch in flight holds older ones.            *)
QueueIsNewest ==
  \A i \in 1 .. Len(queue) : queue[i] = recordedCount - Len(queue) + i

(* While the interval runs, every event leaves the client in the end: it is *)
(* delivered or dropped, however many batches fail before.                  *)
TimerDrains ==
  [](timerOn) =>
    \A e \in 1 .. MaxEvents :
      (recordedCount >= e) ~> \A i \in DOMAIN (batch \o queue) : (batch \o queue)[i] # e
=============================================================================
