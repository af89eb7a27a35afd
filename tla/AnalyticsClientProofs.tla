------------------------ MODULE AnalyticsClientProofs ------------------------
(***************************************************************************)
(* What holds of AnalyticsClient for every batch size, queue size and      *)
(* retry budget.                                                           *)
(***************************************************************************)
EXTENDS AnalyticsClient, SequenceTheorems, TLAPS

(* s holds consecutive events, the last of them being `last`.               *)
Consecutive(s, last) == \A i \in 1 .. Len(s) : s[i] = last - Len(s) + i

(* The newest event of the batch, and the newest one that has left the      *)
(* queue at its front: everything older than the queue.                     *)
BatchLast == batch[Len(batch)]
Departed  == recordedCount - Len(queue)

(* The batch is a run of events that ends right before the queue begins,    *)
(* unless the queue is full: then record() may have dropped those between.  *)
BatchInv ==
  batch # <<>> =>
    /\ Consecutive(batch, BatchLast)
    /\ BatchLast <= Departed
    /\ Len(queue) < MaxQueueSize => BatchLast = Departed

(* What has been acknowledged is in order and older than what is left.      *)
AckedInv ==
  /\ \A i \in 1 .. Len(acked) :
       /\ acked[i] <= Departed
       /\ batch # <<>> => acked[i] <= BatchLast - Len(batch)
  /\ \A i, j \in 1 .. Len(acked) : i < j => acked[i] < acked[j]

IInv == TypeOK /\ Accounted /\ QueueIsNewest /\ BatchInv /\ AckedInv

-----------------------------------------------------------------------------
(* The two ends of a sequence of events.                                    *)
LEMMA OldestProperties ==
  ASSUME NEW s \in Seq(Events), NEW n \in 0 .. Len(s)
  PROVE  /\ Oldest(s, n) \in Seq(Events)
         /\ Len(Oldest(s, n)) = n
         /\ \A i \in 1 .. n : Oldest(s, n)[i] = s[i]
<1>1. Len(s) \in Nat /\ \A i \in 1 .. n : s[i] \in Events
  BY ElementOfSeq, LenProperties
<1>2. n \in Int /\ n >= 0
  BY <1>1
<1> QED BY <1>1, <1>2, SubSeqProperties DEF Oldest

LEMMA NewestProperties ==
  ASSUME NEW s \in Seq(Events), NEW n \in 0 .. Len(s)
  PROVE  /\ Newest(s, n) \in Seq(Events)
         /\ Len(Newest(s, n)) = n
         /\ \A i \in 1 .. n : Newest(s, n)[i] = s[Len(s) - n + i]
<1>1. Len(s) \in Nat
  BY LenProperties
<1> DEFINE m == Len(s) - n + 1
<1>2. m \in Int /\ n \in Int /\ n >= 0 /\ Len(s) \in Int /\ Len(s) - m + 1 = n
  BY <1>1
<1>3. \A i \in m .. Len(s) : i \in 1 .. Len(s)
  BY <1>1, <1>2
<1>4. \A i \in m .. Len(s) : s[i] \in Events
  BY <1>3, ElementOfSeq
<1>5. /\ SubSeq(s, m, Len(s)) \in Seq(Events)
      /\ Len(SubSeq(s, m, Len(s))) = IF m <= Len(s) THEN Len(s) - m + 1 ELSE 0
      /\ \A i \in 1 .. Len(s) - m + 1 : SubSeq(s, m, Len(s))[i] = s[m + i - 1]
  BY <1>2, <1>4, SubSeqProperties
<1>6. \A i \in 1 .. n : m + i - 1 = Len(s) - n + i
  BY <1>1, <1>2
<1> HIDE DEF m
<1>7. Newest(s, n) = SubSeq(s, m, Len(s))
  BY DEF Newest, m
<1>8. m <= Len(s) <=> n >= 1
  BY <1>1, <1>2
<1> QED BY <1>2, <1>5, <1>6, <1>7, <1>8

(* What is left of the queue when a batch is taken is its newest events.    *)
LEMMA RestIsNewest ==
  ASSUME NEW s \in Seq(Events), NEW n \in 0 .. Len(s)
  PROVE  SubSeq(s, n + 1, Len(s)) = Newest(s, Len(s) - n)
<1>1. Len(s) \in Nat
  BY LenProperties
<1>2. Len(s) - (Len(s) - n) + 1 = n + 1
  BY <1>1
<1> QED BY <1>2 DEF Newest

LEMMA AtMostProperties ==
  ASSUME NEW a \in Nat, NEW b \in Nat
  PROVE  AtMost(a, b) \in Nat /\ AtMost(a, b) <= a /\ AtMost(a, b) <= b
         /\ (AtMost(a, b) = a \/ AtMost(a, b) = b)
  BY DEF AtMost

(* An empty sequence and its length.                                        *)
LEMMA EmptyLen ==
  ASSUME NEW s \in Seq(Events)
  PROVE  Len(s) \in Nat /\ (s = <<>> <=> Len(s) = 0)
  BY EmptySeq, LenProperties

(* The newest event of a batch is an event.                                 *)
LEMMA BatchLastType ==
  ASSUME TypeOK, batch # <<>>
  PROVE  Len(batch) \in 1 .. MaxBatchSize /\ BatchLast \in Events /\ BatchLast \in Int
<1>1. batch \in Seq(Events) /\ Len(batch) \in Nat /\ Len(batch) # 0 /\ Len(batch) <= MaxBatchSize
  BY EmptyLen DEF TypeOK
<1>2. Len(batch) \in 1 .. Len(batch)
  BY <1>1
<1>3. BatchLast \in Events
  BY <1>1, <1>2, ElementOfSeq DEF BatchLast
<1> QED BY <1>1, <1>3, AnalyticsAssumption DEF Events

LEMMA AckedType ==
  ASSUME TypeOK
  PROVE  Departed \in Int /\ \A i \in 1 .. Len(acked) : acked[i] \in Int
<1>1. queue \in Seq(Events) /\ acked \in Seq(Events) /\ recordedCount \in Int
  BY AnalyticsAssumption DEF TypeOK
<1>2. Departed \in Int
  BY <1>1, LenProperties DEF Departed
<1>3. \A i \in 1 .. Len(acked) : acked[i] \in Events
  BY <1>1, ElementOfSeq
<1> QED BY <1>2, <1>3, AnalyticsAssumption DEF Events

LEMMA AckedTypeNext ==
  ASSUME TypeOK'
  PROVE  \A i \in 1 .. Len(acked') : acked'[i] \in Int
<1>1. acked' \in Seq(Events)
  BY DEF TypeOK
<1>2. \A i \in 1 .. Len(acked') : acked'[i] \in Events
  BY <1>1, ElementOfSeq
<1> QED BY <1>2, AnalyticsAssumption DEF Events

-----------------------------------------------------------------------------
LEMMA InitIInv == Init => IInv
<1> SUFFICES ASSUME Init PROVE IInv
  OBVIOUS
<1>1. <<>> \in Seq(Events) /\ Len(<<>>) = 0
  BY EmptySeq
<1>2. TypeOK
  BY <1>1, AnalyticsAssumption DEF Init, TypeOK
<1> QED BY <1>1, <1>2 DEF Init, IInv, Accounted, QueueIsNewest, BatchInv, AckedInv

(* record(): the queue stays the newest events, and drops only when full.   *)
LEMMA RecordIInv ==
  ASSUME IInv, Record
  PROVE  IInv'
<1> USE DEF IInv
<1> DEFINE e == recordedCount + 1
           pushed == Append(queue, e)
           n == AtMost(Len(pushed), MaxQueueSize)
<1>1. /\ queue \in Seq(Events) /\ batch \in Seq(Events) /\ acked \in Seq(Events)
      /\ e \in Events /\ recordedCount \in Nat /\ recordedCount' = e /\ e <= MaxEvents
      /\ Len(queue) \in Nat /\ Len(batch) \in Nat /\ Len(acked) \in Nat
      /\ Len(queue) <= MaxQueueSize
      /\ MaxQueueSize \in Nat \ {0}
  BY AnalyticsAssumption, LenProperties DEF TypeOK, Record, Events
<1>2. /\ pushed \in Seq(Events) /\ Len(pushed) = Len(queue) + 1
      /\ \A i \in 1 .. Len(queue) : pushed[i] = queue[i]
      /\ pushed[Len(queue) + 1] = e
  BY <1>1, AppendProperties
<1> HIDE DEF pushed
<1>3. \A i \in 1 .. Len(pushed) : pushed[i] = e - Len(pushed) + i
  <2> SUFFICES ASSUME NEW i \in 1 .. Len(pushed)
               PROVE  pushed[i] = e - Len(pushed) + i
    OBVIOUS
  <2>1. CASE i \in 1 .. Len(queue)
    BY <2>1, <1>1, <1>2 DEF QueueIsNewest
  <2>2. CASE i = Len(queue) + 1
    BY <2>2, <1>1, <1>2
  <2> QED BY <2>1, <2>2, <1>1, <1>2
<1>4. n \in 0 .. Len(pushed) /\ n <= MaxQueueSize
      /\ (n = Len(queue) + 1 \/ (n = Len(queue) /\ n = MaxQueueSize))
  BY <1>1, <1>2, AtMostProperties
<1> HIDE DEF n
<1>5. queue' = Newest(pushed, n)
  BY <1>1 DEF Record, Enqueued, pushed, n
<1>6. /\ queue' \in Seq(Events) /\ Len(queue') = n
      /\ \A i \in 1 .. n : queue'[i] = pushed[Len(pushed) - n + i]
  BY <1>2, <1>4, <1>5, NewestProperties
<1>7. QueueIsNewest'
  <2> SUFFICES ASSUME NEW i \in 1 .. n
               PROVE  queue'[i] = e - n + i
    BY <1>1, <1>6 DEF QueueIsNewest
  <2>1. Len(pushed) - n + i \in 1 .. Len(pushed)
    BY <1>1, <1>2, <1>4
  <2> QED BY <2>1, <1>1, <1>2, <1>3, <1>4, <1>6
<1>8. microtasks' \in Nat /\ droppedCount' \in Nat
  BY <1>1, <1>4, <1>6 DEF TypeOK, Record, MaybeScheduleAutoFlush
<1>9. TypeOK'
  BY <1>1, <1>4, <1>6, <1>8 DEF TypeOK, Record, drain
<1>10. Accounted'
  BY <1>1, <1>4, <1>6 DEF TypeOK, Accounted, Record, drain
<1>11. /\ Departed' \in Int /\ Departed <= Departed'
       /\ Len(queue') < MaxQueueSize => Departed' = Departed /\ Len(queue) < MaxQueueSize
  <2>1. Departed = recordedCount - Len(queue) /\ Departed' = recordedCount + 1 - n
    BY <1>1, <1>6 DEF Departed
  <2>2. CASE n = Len(queue) + 1
    BY <2>1, <2>2, <1>1, <1>6
  <2>3. CASE n = Len(queue) /\ n = MaxQueueSize
    BY <2>1, <2>3, <1>1, <1>6
  <2> QED BY <2>2, <2>3, <1>4
<1>12. batch' = batch /\ acked' = acked
  BY DEF Record, drain
<1>13. batch # <<>> => BatchLast \in Int
  BY BatchLastType
<1>14. Departed \in Int /\ \A i \in 1 .. Len(acked) : acked[i] \in Int
  BY AckedType
<1>15. BatchInv'
  BY <1>11, <1>12, <1>13, <1>14 DEF BatchInv, Consecutive, BatchLast
<1>16. AckedInv'
  BY <1>11, <1>12, <1>14 DEF AckedInv, BatchLast
<1> QED BY <1>7, <1>9, <1>10, <1>15, <1>16

(* A batch taken from the queue is its oldest events, and the rest of it is *)
(* still the newest ones.                                                   *)
LEMMA TakeBatchProperties ==
  ASSUME TypeOK, QueueIsNewest, TakeBatch, recordedCount' = recordedCount
  PROVE  /\ queue' \in Seq(Events) /\ batch' \in Seq(Events)
         /\ Len(queue') <= MaxQueueSize /\ Len(batch') <= MaxBatchSize
         /\ Len(batch') + Len(queue') = Len(queue)
         /\ QueueIsNewest'
         /\ Departed' = Departed + Len(batch')
         /\ batch' # <<>> => Consecutive(batch', BatchLast') /\ BatchLast' = Departed'
         /\ inFlight' \in {"posting", "settled"} /\ attempt' \in 0 .. MaxRetriesPerBatch
         /\ inFlight' = "posting" <=> batch' # <<>>
         /\ inFlight' = "posting" <=> attempt' > 0
<1> DEFINE size == AtMost(Len(queue), MaxBatchSize)
<1>1. /\ queue \in Seq(Events) /\ Len(queue) \in Nat /\ Len(queue) <= MaxQueueSize
      /\ MaxBatchSize \in Nat \ {0} /\ MaxQueueSize \in Nat \ {0}
      /\ MaxRetriesPerBatch \in Nat \ {0} /\ recordedCount \in Nat
  BY AnalyticsAssumption, LenProperties DEF TypeOK
<1>2. size \in 0 .. Len(queue) /\ size <= MaxBatchSize /\ (size = 0 <=> Len(queue) = 0)
  BY <1>1, SMT DEF AtMost
<1>3. batch' = Oldest(queue, size) /\ queue' = Newest(queue, Len(queue) - size)
  BY <1>1, <1>2, RestIsNewest DEF TakeBatch
<1> HIDE DEF size
<1>4. /\ batch' \in Seq(Events) /\ Len(batch') = size
      /\ \A i \in 1 .. size : batch'[i] = queue[i]
  BY <1>1, <1>2, <1>3, OldestProperties
<1>5. Len(queue) - size \in 0 .. Len(queue)
  BY <1>1, <1>2
<1>6. /\ queue' \in Seq(Events) /\ Len(queue') = Len(queue) - size
      /\ \A i \in 1 .. Len(queue) - size : queue'[i] = queue[Len(queue) - (Len(queue) - size) + i]
  BY <1>1, <1>3, <1>5, NewestProperties
<1>7. Len(batch') + Len(queue') = Len(queue) /\ Len(queue') <= MaxQueueSize
  BY <1>1, <1>2, <1>4, <1>6
<1>8. QueueIsNewest'
  <2> SUFFICES ASSUME NEW i \in 1 .. Len(queue) - size
               PROVE  queue'[i] = recordedCount - (Len(queue) - size) + i
    BY <1>6 DEF QueueIsNewest
  <2>1. Len(queue) - (Len(queue) - size) + i = size + i /\ size + i \in 1 .. Len(queue)
    BY <1>1, <1>2
  <2>2. queue'[i] = queue[size + i]
    BY <2>1, <1>6
  <2> QED BY <2>1, <2>2, <1>1, <1>2 DEF QueueIsNewest
<1>9. Departed' = Departed + size /\ Departed = recordedCount - Len(queue)
  BY <1>1, <1>2, <1>6 DEF Departed
<1>10. ASSUME batch' # <<>>
       PROVE  Consecutive(batch', BatchLast') /\ BatchLast' = Departed'
  <2>1. size \in 1 .. Len(queue)
    BY <1>1, <1>2, <1>4, <1>10, EmptyLen
  <2>2. \A i \in 1 .. size : batch'[i] = recordedCount - Len(queue) + i
    <3> SUFFICES ASSUME NEW i \in 1 .. size
                 PROVE  batch'[i] = recordedCount - Len(queue) + i
      OBVIOUS
    <3>1. i \in 1 .. Len(queue)
      BY <1>1, <1>2
    <3>2. queue[i] = recordedCount - Len(queue) + i
      BY <3>1 DEF QueueIsNewest
    <3> QED BY <3>2, <1>4
  <2>3. BatchLast' = batch'[size] /\ batch'[size] = recordedCount - Len(queue) + size
    BY <2>1, <2>2, <1>4 DEF BatchLast
  <2>4. BatchLast' = Departed'
    BY <2>1, <2>3, <1>1, <1>9
  <2>5. \A i \in 1 .. size : batch'[i] = BatchLast' - size + i
    BY <2>1, <2>2, <2>3, <1>1
  <2> QED BY <2>4, <2>5, <1>4 DEF Consecutive
<1>11. queue = <<>> <=> batch' = <<>>
  BY <1>1, <1>2, <1>4, EmptyLen
<1>12. /\ inFlight' = IF queue = <<>> THEN "settled" ELSE "posting"
       /\ attempt' = IF queue = <<>> THEN 0 ELSE 1
  BY DEF TakeBatch
<1>13. /\ inFlight' \in {"posting", "settled"} /\ attempt' \in 0 .. MaxRetriesPerBatch
       /\ inFlight' = "posting" <=> batch' # <<>>
       /\ inFlight' = "posting" <=> attempt' > 0
  BY <1>1, <1>11, <1>12
<1> QED BY <1>2, <1>4, <1>6, <1>7, <1>8, <1>9, <1>10, <1>13

(* A drain starts: nothing was in flight.                                   *)
LEMMA StartDrainIInv ==
  ASSUME IInv, TakeBatch, inFlight = "none", TypeOK', UNCHANGED <<counters, acked>>
  PROVE  IInv'
<1> USE DEF IInv
<1>1. batch = <<>> /\ Len(batch) = 0 /\ Len(queue) \in Nat /\ recordedCount' = recordedCount
  BY EmptyLen DEF TypeOK, counters
<1>2. /\ Len(batch') \in Nat /\ Len(queue') \in Nat /\ deliveredCount \in Nat
      /\ droppedCount \in Nat
  BY EmptyLen DEF TypeOK, counters
<1>3. Accounted'
  BY <1>1, <1>2, TakeBatchProperties DEF Accounted, counters
<1>4. /\ Departed' = Departed + Len(batch') /\ QueueIsNewest'
      /\ batch' # <<>> => Consecutive(batch', BatchLast') /\ BatchLast' = Departed'
  BY <1>1, TakeBatchProperties
<1>5. Departed \in Int /\ \A i \in 1 .. Len(acked) : acked[i] \in Int
  BY AckedType
<1>6. BatchInv'
  BY <1>2, <1>4, <1>5 DEF BatchInv
<1>7. AckedInv'
  BY <1>2, <1>4, <1>5 DEF AckedInv
<1> QED BY <1>3, <1>4, <1>6, <1>7

(* A step that leaves the events and the counters alone.                    *)
LEMMA QuietIInv ==
  ASSUME IInv, TypeOK', UNCHANGED <<queue, batch, counters, acked>>
  PROVE  IInv'
BY DEF IInv, Accounted, QueueIsNewest, BatchInv, AckedInv, BatchLast, Departed, Consecutive, counters

LEMMA FlushOrJoinIInv ==
  ASSUME IInv, FlushOrJoin, TypeOK', UNCHANGED <<counters, acked>>
  PROVE  IInv'
<1>1. CASE inFlight = "none"
  BY <1>1, StartDrainIInv DEF FlushOrJoin
<1>2. CASE inFlight # "none"
  BY <1>2, QuietIInv DEF FlushOrJoin, drain
<1> QED BY <1>1, <1>2

(* flush(), from whichever caller, keeps the types.                         *)
LEMMA FlushOrJoinType ==
  ASSUME IInv, FlushOrJoin, UNCHANGED <<counters, acked, failures>>,
         timerOn' \in BOOLEAN, microtasks' \in Nat, owed' \in 0 .. recordedCount,
         shutdown' \in {"idle", "waiting", "returning", "returned"}
  PROVE  TypeOK'
<1>1. CASE inFlight = "none"
  <2>1. TakeBatch /\ recordedCount' = recordedCount
    BY <1>1 DEF FlushOrJoin, counters
  <2> QED BY <2>1, TakeBatchProperties DEF IInv, TypeOK, counters
<1>2. CASE inFlight # "none"
  BY <1>2 DEF FlushOrJoin, IInv, TypeOK, counters, drain
<1> QED BY <1>1, <1>2

-----------------------------------------------------------------------------
(* What the acknowledged events, followed by the batch, look like.          *)
LEMMA AckedThenBatch ==
  ASSUME TypeOK, BatchInv, AckedInv, batch # <<>>, NEW sent, sent = acked \o batch
  PROVE  /\ sent \in Seq(Events)
         /\ \A i \in 1 .. Len(sent) : sent[i] <= BatchLast
         /\ \A i, j \in 1 .. Len(sent) : i < j => sent[i] < sent[j]
<1> DEFINE a == Len(acked)
           b == Len(batch)
<1>1. /\ acked \in Seq(Events) /\ batch \in Seq(Events) /\ a \in Nat /\ b \in Nat /\ b > 0
      /\ BatchLast \in Int
  BY BatchLastType, LenProperties DEF TypeOK
<1>2. /\ sent \in Seq(Events) /\ Len(sent) = a + b
      /\ \A i \in 1 .. a + b : sent[i] = IF i <= a THEN acked[i] ELSE batch[i - a]
  BY <1>1, ConcatProperties
<1>3. \A i \in 1 .. b : batch[i] = BatchLast - b + i
  BY DEF BatchInv, Consecutive
<1>4. \A i \in 1 .. a : acked[i] \in Int /\ acked[i] <= BatchLast - b
  BY AckedType DEF AckedInv
<1>5. \A i, j \in 1 .. a : i < j => acked[i] < acked[j]
  BY DEF AckedInv
<1> HIDE DEF a, b
<1>6. ASSUME NEW i \in 1 .. a + b
      PROVE  \/ i \in 1 .. a /\ sent[i] = acked[i]
             \/ i - a \in 1 .. b /\ i > a /\ sent[i] = BatchLast - b + (i - a)
  <2>1. CASE i <= a
    BY <2>1, <1>1, <1>2
  <2>2. CASE i > a
    <3>1. i - a \in 1 .. b
      BY <2>2, <1>1
    <3>2. sent[i] = batch[i - a]
      BY <2>2, <1>1, <1>2
    <3> QED BY <2>2, <3>1, <3>2, <1>3
  <2>3. i <= a \/ i > a
    BY <1>1
  <2> QED BY <2>1, <2>2, <2>3
<1>7. ASSUME NEW i \in 1 .. a + b
      PROVE  sent[i] <= BatchLast
  <2>1. CASE i \in 1 .. a /\ sent[i] = acked[i]
    BY <2>1, <1>1, <1>4
  <2>2. CASE i - a \in 1 .. b /\ i > a /\ sent[i] = BatchLast - b + (i - a)
    BY <2>2, <1>1
  <2> QED BY <2>1, <2>2, <1>6
<1>8. ASSUME NEW i \in 1 .. a + b, NEW j \in 1 .. a + b, i < j
      PROVE  sent[i] < sent[j]
  <2>1. CASE j \in 1 .. a /\ sent[j] = acked[j]
    <3>1. i \in 1 .. a /\ sent[i] = acked[i]
      BY <2>1, <1>1, <1>2, <1>8
    <3> QED BY <2>1, <3>1, <1>5, <1>8
  <2>2. CASE j - a \in 1 .. b /\ j > a /\ sent[j] = BatchLast - b + (j - a)
    <3>1. CASE i \in 1 .. a /\ sent[i] = acked[i]
      BY <2>2, <3>1, <1>1, <1>4
    <3>2. CASE i - a \in 1 .. b /\ sent[i] = BatchLast - b + (i - a)
      BY <2>2, <3>2, <1>1, <1>8
    <3> QED BY <3>1, <3>2, <1>6
  <2> QED BY <2>1, <2>2, <1>6
<1> QED BY <1>2, <1>7, <1>8

(* The batch is acknowledged and the drain takes the next one.              *)
LEMMA PostSucceedsIInv ==
  ASSUME IInv, PostSucceeds
  PROVE  IInv'
<1> USE DEF IInv
<1>1. /\ batch # <<>> /\ Len(batch) \in Nat /\ Len(queue) \in Nat /\ recordedCount' = recordedCount
      /\ TakeBatch /\ acked' = acked \o batch /\ deliveredCount' = deliveredCount + Len(batch)
      /\ droppedCount' = droppedCount /\ deliveredCount \in Nat /\ droppedCount \in Nat
  BY EmptyLen DEF TypeOK, PostSucceeds
<1>2. /\ queue' \in Seq(Events) /\ batch' \in Seq(Events)
      /\ Len(queue') <= MaxQueueSize /\ Len(batch') <= MaxBatchSize
      /\ Len(batch') + Len(queue') = Len(queue)
      /\ QueueIsNewest'
      /\ Departed' = Departed + Len(batch')
      /\ batch' # <<>> => Consecutive(batch', BatchLast') /\ BatchLast' = Departed'
      /\ inFlight' \in {"posting", "settled"} /\ attempt' \in 0 .. MaxRetriesPerBatch
      /\ inFlight' = "posting" <=> batch' # <<>>
      /\ inFlight' = "posting" <=> attempt' > 0
  BY <1>1, TakeBatchProperties
<1>3. Len(batch') \in Nat /\ Len(queue') \in Nat
  BY <1>2, LenProperties
<1>4. /\ acked' \in Seq(Events)
      /\ \A i \in 1 .. Len(acked') : acked'[i] <= BatchLast
      /\ \A i, j \in 1 .. Len(acked') : i < j => acked'[i] < acked'[j]
  BY <1>1, AckedThenBatch
<1>5. BatchLast \in Int /\ Departed \in Int /\ BatchLast <= Departed
  BY <1>1, BatchLastType, AckedType DEF BatchInv
<1>6. TypeOK'
  BY <1>1, <1>2, <1>3, <1>4 DEF TypeOK, PostSucceeds
<1>7. \A i \in 1 .. Len(acked') : acked'[i] \in Int
  BY <1>6, AckedTypeNext
<1>8. Accounted'
  <2>1. recordedCount = deliveredCount + droppedCount + Len(batch) + Len(queue)
    BY DEF Accounted
  <2>2. recordedCount = deliveredCount' + droppedCount' + Len(batch') + Len(queue')
    <3>1. Len(batch') + Len(queue') = Len(queue) /\ Len(batch') \in Nat /\ Len(queue') \in Nat
      BY <1>2, <1>3
    <3>2. /\ deliveredCount' = deliveredCount + Len(batch) /\ droppedCount' = droppedCount
          /\ deliveredCount \in Nat /\ droppedCount \in Nat /\ Len(batch) \in Nat
      BY <1>1
    <3> QED BY <2>1, <3>1, <3>2
  <2> QED BY <2>2, <1>1 DEF Accounted
<1>9. BatchInv'
  BY <1>2, <1>3, <1>5 DEF BatchInv
<1>10. AckedInv'
  BY <1>2, <1>3, <1>4, <1>5, <1>7 DEF AckedInv
<1> QED BY <1>2, <1>6, <1>8, <1>9, <1>10

(* A batch that failed for good goes back where it came from, as far as     *)
(* there is room; what does not fit is its oldest part.                     *)
LEMMA PostFailsIInv ==
  ASSUME IInv, PostFails
  PROVE  IInv'
<1> USE DEF IInv
<1> DEFINE q == Len(queue)
           b == Len(batch)
           k == Retained
<1>1. /\ queue \in Seq(Events) /\ batch \in Seq(Events) /\ batch # <<>>
      /\ q \in Nat /\ b \in Nat /\ b > 0 /\ q <= MaxQueueSize
      /\ MaxQueueSize \in Nat \ {0} /\ recordedCount \in Nat /\ MaxRetriesPerBatch \in Nat
      /\ deliveredCount \in Nat /\ droppedCount \in Nat /\ failures \in Nat
  BY AnalyticsAssumption, EmptyLen, LenProperties DEF TypeOK, PostFails, Fail
<1>2. k \in 0 .. b /\ k <= MaxQueueSize - q /\ (k = b \/ k = MaxQueueSize - q)
  BY <1>1, SMT DEF Retained, AtMost
<1> HIDE DEF k
<1>3. queue' = Newest(batch, k) \o queue
  BY DEF PostFails, Requeued, k
<1>4. /\ Newest(batch, k) \in Seq(Events) /\ Len(Newest(batch, k)) = k
      /\ \A i \in 1 .. k : Newest(batch, k)[i] = batch[b - k + i]
  BY <1>1, <1>2, NewestProperties
<1>5. /\ queue' \in Seq(Events) /\ Len(queue') = k + q
      /\ \A i \in 1 .. k + q : queue'[i] = IF i <= k THEN batch[b - k + i] ELSE queue[i - k]
  <2>1. /\ queue' \in Seq(Events) /\ Len(queue') = k + q
        /\ \A i \in 1 .. k + q : queue'[i] = IF i <= k THEN Newest(batch, k)[i] ELSE queue[i - k]
    <3> DEFINE s == Newest(batch, k)
    <3>1. s \in Seq(Events) /\ Len(s) = k /\ queue' = s \o queue
      BY <1>3, <1>4
    <3> HIDE DEF s
    <3>2. /\ s \o queue \in Seq(Events) /\ Len(s \o queue) = Len(s) + Len(queue)
          /\ \A i \in 1 .. Len(s) + Len(queue) :
               (s \o queue)[i] = IF i <= Len(s) THEN s[i] ELSE queue[i - Len(s)]
      BY <1>1, <3>1, ConcatProperties
    <3> QED BY <3>1, <3>2 DEF s
  <2> SUFFICES ASSUME NEW i \in 1 .. k + q
               PROVE  queue'[i] = IF i <= k THEN batch[b - k + i] ELSE queue[i - k]
    BY <2>1
  <2>2. i <= k => i \in 1 .. k
    BY <1>1, <1>2
  <2> QED BY <2>1, <2>2, <1>4
<1>6. /\ Departed = recordedCount - q /\ Departed' = Departed - k
      /\ recordedCount' = recordedCount /\ Departed \in Int
  BY <1>1, <1>2, <1>5 DEF Departed, PostFails
<1>7. BatchLast \in Int /\ BatchLast <= Departed /\ (k > 0 => BatchLast = Departed)
  BY <1>1, <1>2, BatchLastType DEF BatchInv
<1>8. \A i \in 1 .. b : batch[i] = BatchLast - b + i
  BY <1>1 DEF BatchInv, Consecutive
<1> HIDE DEF q, b
<1>9. QueueIsNewest'
  <2> SUFFICES ASSUME NEW i \in 1 .. k + q
               PROVE  queue'[i] = recordedCount - (k + q) + i
    BY <1>5, <1>6 DEF QueueIsNewest
  <2>1. CASE i <= k
    <3>1. b - k + i \in 1 .. b /\ k > 0
      BY <2>1, <1>1, <1>2
    <3>2. queue'[i] = BatchLast - b + (b - k + i)
      BY <2>1, <3>1, <1>5, <1>8
    <3> QED BY <3>1, <3>2, <1>1, <1>2, <1>6, <1>7
  <2>2. CASE i > k
    <3>1. i - k \in 1 .. q
      BY <2>2, <1>1, <1>2
    <3>2. queue[i - k] = recordedCount - q + (i - k)
      BY <3>1 DEF QueueIsNewest, q
    <3> QED BY <2>2, <3>2, <1>1, <1>2, <1>5
  <2> QED BY <2>1, <2>2, <1>1, <1>2
<1>10. batch' = <<>> /\ batch' \in Seq(Events) /\ Len(batch') = 0
  BY EmptySeq DEF PostFails
<1>11. droppedCount' = droppedCount + b - k /\ deliveredCount' = deliveredCount /\ acked' = acked
  BY DEF PostFails, b, k
<1>12. TypeOK'
  <2>1. Len(queue') <= MaxQueueSize /\ Len(batch') <= MaxBatchSize
    BY <1>1, <1>2, <1>5, <1>10, AnalyticsAssumption
  <2>2. droppedCount' \in Nat /\ failures' \in Nat
    BY <1>1, <1>2, <1>11 DEF PostFails, Fail
  <2>3. inFlight' = "settled" /\ attempt' = 0 /\ 0 \in 0 .. MaxRetriesPerBatch
    BY <1>1 DEF PostFails
  <2> QED BY <1>5, <1>6, <1>10, <1>11, <2>1, <2>2, <2>3 DEF TypeOK, PostFails
<1>13. Accounted'
  <2>1. recordedCount = deliveredCount + droppedCount + b + q
    BY DEF Accounted, b, q
  <2> QED BY <2>1, <1>1, <1>2, <1>5, <1>6, <1>10, <1>11 DEF Accounted
<1>14. BatchInv'
  BY <1>10 DEF BatchInv
<1>15. AckedInv'
  <2>1. \A i \in 1 .. Len(acked) : acked[i] \in Int
    BY AckedType
  <2>2. \A i \in 1 .. Len(acked) : acked[i] <= BatchLast - b /\ acked[i] <= Departed
    BY <1>1 DEF AckedInv, b
  <2>3. \A i \in 1 .. Len(acked) : acked[i] <= Departed - k
    BY <2>1, <2>2, <1>1, <1>2, <1>6, <1>7
  <2> QED BY <2>3, <1>6, <1>10, <1>11 DEF AckedInv
<1> QED BY <1>9, <1>12, <1>13, <1>14, <1>15

-----------------------------------------------------------------------------
LEMMA NextIInv ==
  ASSUME IInv, [Next]_vars
  PROVE  IInv'
<1>1. CASE Record
  BY <1>1, RecordIInv
<1>2. CASE Flush \/ TimerFlush \/ AutoFlush
  <2>1. /\ UNCHANGED <<timerOn, shutdown, counters, failures, acked, owed>>
        /\ microtasks' \in Nat
    BY <1>2 DEF Flush, TimerFlush, AutoFlush, IInv, TypeOK
  <2>2. CASE FlushOrJoin
    <3>1. TypeOK'
      BY <2>1, <2>2, FlushOrJoinType DEF IInv, TypeOK
    <3> QED BY <2>1, <2>2, <3>1, FlushOrJoinIInv
  <2>3. CASE UNCHANGED <<queue, drain>>
    <3>1. TypeOK'
      BY <2>1, <2>3 DEF IInv, TypeOK, drain, counters
    <3> QED BY <2>1, <2>3, <3>1, QuietIInv DEF drain
  <2> QED BY <1>2, <2>2, <2>3 DEF Flush, TimerFlush, AutoFlush
<1>3. CASE Shutdown
  <2>1. TypeOK'
    <3>1. recordedCount \in 0 .. recordedCount /\ microtasks \in Nat
      BY AnalyticsAssumption DEF IInv, TypeOK
    <3>2. /\ FlushOrJoin /\ UNCHANGED <<counters, acked, failures>>
          /\ timerOn' \in BOOLEAN /\ microtasks' \in Nat /\ owed' \in 0 .. recordedCount
          /\ shutdown' \in {"idle", "waiting", "returning", "returned"}
      BY <1>3, <3>1 DEF Shutdown, StopAutoFlush
    <3> QED BY <3>2, FlushOrJoinType
  <2> QED BY <1>3, <2>1, FlushOrJoinIInv DEF Shutdown
<1>4. CASE PostSucceeds
  BY <1>4, PostSucceedsIInv
<1>5. CASE PostFails
  BY <1>5, PostFailsIInv
<1>6. CASE PostFailsAndRetries
  <2>1. TypeOK'
    BY <1>6, AnalyticsAssumption DEF PostFailsAndRetries, Fail, IInv, TypeOK, counters
  <2> QED BY <1>6, <2>1, QuietIInv DEF PostFailsAndRetries
<1>7. CASE StopTimer \/ ClearInFlight \/ ShutdownReturns
  <2>1. TypeOK'
    BY <1>7 DEF StopTimer, StopAutoFlush, ClearInFlight, ShutdownReturns, IInv, TypeOK, counters, drain
  <2> QED BY <1>7, <2>1, QuietIInv DEF StopTimer, ClearInFlight, ShutdownReturns, drain
<1>8. CASE UNCHANGED vars
  <2>1. TypeOK'
    BY <1>8 DEF vars, IInv, TypeOK, counters, drain
  <2> QED BY <1>8, <2>1, QuietIInv DEF vars, drain
<1> QED BY <1>1, <1>2, <1>3, <1>4, <1>5, <1>6, <1>7, <1>8 DEF Next, PostSettles

LEMMA Inductive == Spec => []IInv
<1>1. Init => IInv
  BY InitIInv
<1>2. IInv /\ [Next]_vars => IInv'
  BY NextIInv
<1> QED BY <1>1, <1>2, PTL DEF Spec

-----------------------------------------------------------------------------
(* The queue and the batch never exceed the limits the options set, however *)
(* recording, failing and requeueing alternate.                             *)
THEOREM TypeCorrect == Spec => []TypeOK
<1>1. IInv => TypeOK
  BY DEF IInv
<1> QED BY <1>1, Inductive, PTL

(* The counters of stats() account for every event.                         *)
THEOREM CountersAddUp == Spec => []Accounted
<1>1. IInv => Accounted
  BY DEF IInv
<1> QED BY <1>1, Inductive, PTL

(* Of events that do not fit, the oldest go: what the queue holds is always *)
(* the newest.                                                              *)
THEOREM NewestAreKept == Spec => []QueueIsNewest
<1>1. IInv => QueueIsNewest
  BY DEF IInv
<1> QED BY <1>1, Inductive, PTL

(* The order of record() is the order of delivery, through every failure.   *)
LEMMA OrderFollows == IInv => SentInOrder
<1> SUFFICES ASSUME IInv PROVE SentInOrder
  OBVIOUS
<1> USE DEF IInv
<1> DEFINE sent == acked \o batch
           all == sent \o queue
<1>1. /\ acked \in Seq(Events) /\ batch \in Seq(Events) /\ queue \in Seq(Events)
      /\ Len(queue) \in Nat /\ recordedCount \in Nat
  BY LenProperties, AnalyticsAssumption DEF TypeOK
<1>2. /\ sent \in Seq(Events)
      /\ \A i \in 1 .. Len(sent) : sent[i] <= Departed
      /\ \A i, j \in 1 .. Len(sent) : i < j => sent[i] < sent[j]
  <2>1. CASE batch = <<>>
    <3>1. sent = acked
      BY <2>1, <1>1, ConcatEmptySeq
    <3> QED BY <3>1, <1>1 DEF AckedInv
  <2>2. CASE batch # <<>>
    <3>1. BatchLast \in Int /\ Departed \in Int /\ BatchLast <= Departed
      BY <2>2, BatchLastType, AckedType DEF BatchInv
    <3>2. /\ sent \in Seq(Events)
          /\ \A i \in 1 .. Len(sent) : sent[i] <= BatchLast
          /\ \A i, j \in 1 .. Len(sent) : i < j => sent[i] < sent[j]
      BY <2>2, AckedThenBatch
    <3> HIDE DEF sent
    <3>3. \A i \in 1 .. Len(sent) : sent[i] \in Events
      BY <3>2, ElementOfSeq
    <3>4. \A i \in 1 .. Len(sent) : sent[i] \in Int
      BY <3>3, AnalyticsAssumption DEF Events
    <3> QED BY <3>1, <3>2, <3>4
  <2> QED BY <2>1, <2>2
<1> HIDE DEF sent
<1>3. Len(sent) \in Nat /\ \A i \in 1 .. Len(sent) : sent[i] \in Events
  BY <1>2, LenProperties, ElementOfSeq
<1>4. \A i \in 1 .. Len(sent) : sent[i] \in Int
  BY <1>3, AnalyticsAssumption DEF Events
<1>5. /\ Len(all) = Len(sent) + Len(queue)
      /\ \A i \in 1 .. Len(sent) + Len(queue) :
           all[i] = IF i <= Len(sent) THEN sent[i] ELSE queue[i - Len(sent)]
  BY <1>1, <1>2, ConcatProperties
<1>6. Departed = recordedCount - Len(queue) /\ Departed \in Int
  BY <1>1 DEF Departed
<1> HIDE DEF all
<1>7. ASSUME NEW i \in 1 .. Len(all) - 1
      PROVE  all[i] < all[i + 1]
  <2>1. i \in 1 .. Len(sent) + Len(queue) /\ i + 1 \in 1 .. Len(sent) + Len(queue)
    BY <1>1, <1>3, <1>5
  <2>2. CASE i + 1 <= Len(sent)
    <3>1. i \in 1 .. Len(sent) /\ i + 1 \in 1 .. Len(sent) /\ i < i + 1
      BY <2>1, <2>2, <1>3
    <3>2. all[i] = sent[i] /\ all[i + 1] = sent[i + 1]
      BY <2>1, <3>1, <1>3, <1>5
    <3> QED BY <3>1, <3>2, <1>2
  <2>3. CASE i + 1 > Len(sent)
    <3>1. i + 1 - Len(sent) \in 1 .. Len(queue)
      BY <2>1, <2>3, <1>1, <1>3
    <3>2. all[i + 1] = queue[i + 1 - Len(sent)]
      BY <2>1, <2>3, <1>3, <1>5
    <3>3. all[i + 1] = Departed + (i + 1 - Len(sent))
      BY <3>1, <3>2, <1>1, <1>3, <1>6 DEF QueueIsNewest
    <3>4. CASE i <= Len(sent)
      <4>1. i \in 1 .. Len(sent) /\ i = Len(sent)
        BY <2>1, <2>3, <3>4, <1>3
      <4>2. all[i] = sent[i] /\ sent[i] <= Departed /\ sent[i] \in Int
        BY <2>1, <4>1, <1>2, <1>4, <1>5
      <4> QED BY <3>3, <4>1, <4>2, <1>3, <1>6
    <3>5. CASE i > Len(sent)
      <4>1. i - Len(sent) \in 1 .. Len(queue)
        BY <2>1, <3>5, <1>1, <1>3
      <4>2. all[i] = queue[i - Len(sent)]
        BY <2>1, <3>5, <1>3, <1>5
      <4>3. all[i] = Departed + (i - Len(sent))
        BY <4>1, <4>2, <1>1, <1>3, <1>6 DEF QueueIsNewest
      <4> QED BY <3>3, <4>3, <2>1, <1>3, <1>6
    <3> QED BY <3>4, <3>5, <2>1, <1>3
  <2> QED BY <2>2, <2>3, <2>1, <1>3
<1> QED BY <1>7 DEF SentInOrder, all, sent

(* What the server acknowledges, what is on its way and what is queued are  *)
(* in order and free of duplicates.                                         *)
THEOREM OrderKept == Spec => []SentInOrder
<1> QED BY OrderFollows, Inductive, PTL
=============================================================================
