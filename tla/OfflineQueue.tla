----------------------------- MODULE OfflineQueue -----------------------------
(***************************************************************************)
(* core/offline-queue.ts: OfflineQueue over an asynchronous QueueStorage.  *)
(* Every operation is a read of the whole queue, work on the copy, and a   *)
(* write of the whole queue; each await is a step of its own.  The storage *)
(* outlives the process (the localStorage or AsyncStorage the file names), *)
(* so a crash loses the copies and nothing else.                           *)
(***************************************************************************)
EXTENDS Integers, Sequences, FiniteSets

CONSTANTS
  Entries,      \* the requests that get queued, one enqueue() each
  Flushers,     \* the calls of flush(); a finished one may be called again
  Overlapping,  \* may one call start while another is unfinished?
  MaxDeliveries,\* bound: replays that reach the server
  MaxFaults     \* bound: failed writes, clears and crashes

ASSUME OfflineQueueAssumption ==
  /\ Entries \cap Flushers = {}
  /\ Overlapping \in BOOLEAN
  /\ MaxDeliveries \in Nat
  /\ MaxFaults \in Nat

VARIABLES
  stored,     \* what the storage holds
  enqueuer,   \* where each enqueue() stands
  flusher,    \* where each flush() stands
  copy,       \* the array each unfinished call works on
  faults,     \* writes failed, clears and crashes so far
  accepted,   \* history: the entries whose enqueue() resolved, in order
  delivered,  \* history: every replay the server carried out, in order
  acked,      \* history: the entries whose replay resolved
  cleared,    \* history: the entries dropped by clear()
  disturbed   \* history: a write has failed or the process has crashed

calls   == <<enqueuer, flusher, copy>>
history == <<accepted, delivered, acked, cleared, disturbed>>
vars    == <<stored, calls, faults, history>>

Init ==
  /\ stored = <<>>
  /\ enqueuer = [e \in Entries |-> "idle"]
  /\ flusher = [f \in Flushers |-> "idle"]
  /\ copy = [c \in Entries \cup Flushers |-> <<>>]
  /\ faults = 0
  /\ accepted = <<>>
  /\ delivered = <<>>
  /\ acked = {}
  /\ cleared = {}
  /\ disturbed = FALSE

Members(seq) == {seq[i] : i \in DOMAIN seq}

Unfinished ==
  {e \in Entries : enqueuer[e] = "loaded"} \cup {f \in Flushers : flusher[f] # "idle"}

MayStart == Overlapping \/ Unfinished = {}

Fault ==
  /\ faults < MaxFaults
  /\ faults' = faults + 1

-----------------------------------------------------------------------------
(* enqueue(): load, push, save.                                             *)
EnqueueLoad(e) ==
  /\ MayStart
  /\ enqueuer[e] = "idle"
  /\ enqueuer' = [enqueuer EXCEPT ![e] = "loaded"]
  /\ copy' = [copy EXCEPT ![e] = Append(stored, e)]
  /\ UNCHANGED <<stored, flusher, faults, history>>

EnqueueSave(e) ==
  /\ enqueuer[e] = "loaded"
  /\ enqueuer' = [enqueuer EXCEPT ![e] = "done"]
  /\ stored' = copy[e]
  /\ copy' = [copy EXCEPT ![e] = <<>>]
  /\ accepted' = Append(accepted, e)
  /\ UNCHANGED <<flusher, faults, delivered, acked, cleared, disturbed>>

EnqueueSaveFails(e) ==
  /\ enqueuer[e] = "loaded"
  /\ Fault
  /\ enqueuer' = [enqueuer EXCEPT ![e] = "failed"]
  /\ copy' = [copy EXCEPT ![e] = <<>>]
  /\ disturbed' = TRUE
  /\ UNCHANGED <<stored, flusher, accepted, delivered, acked, cleared>>

-----------------------------------------------------------------------------

(* flush(): load once, then replay the head of the copy, shift it and save, *)
(* until the copy is empty or a replay fails.                               *)
AfterSave(rest) == IF rest = <<>> THEN "idle" ELSE "replaying"

FlushLoad(f) ==
  /\ MayStart
  /\ flusher[f] = "idle"
  /\ stored # <<>>
  /\ flusher' = [flusher EXCEPT ![f] = "replaying"]
  /\ copy' = [copy EXCEPT ![f] = stored]
  /\ UNCHANGED <<stored, enqueuer, faults, history>>

Reached(f) ==
  /\ Len(delivered) < MaxDeliveries
  /\ delivered' = Append(delivered, Head(copy[f]))

ReplayResolvesLast(f) ==
  /\ flusher[f] = "replaying"
  /\ Len(delivered) < MaxDeliveries
  /\ delivered' = Append(delivered, copy[f][Len(copy[f])])
  /\ acked' = acked \cup {copy[f][Len(copy[f])]}
  /\ copy' = [copy EXCEPT ![f] = SubSeq(copy[f], 1, Len(copy[f]) - 1)]
  /\ flusher' = [flusher EXCEPT ![f] = "saving"]
  /\ UNCHANGED <<stored, enqueuer, faults, accepted, cleared, disturbed>>

ReplayResolves(f) ==
  /\ flusher[f] = "replaying"
  /\ Reached(f)
  /\ acked' = acked \cup {Head(copy[f])}
  /\ copy' = [copy EXCEPT ![f] = Tail(copy[f])]
  /\ flusher' = [flusher EXCEPT ![f] = "saving"]
  /\ UNCHANGED <<stored, enqueuer, faults, accepted, cleared, disturbed>>

(* The replay throws, whether or not the request reached the server.        *)
ReplayThrowsIsDropped(f) ==
  /\ flusher[f] = "replaying"
  /\ Reached(f) \/ UNCHANGED delivered
  /\ copy' = [copy EXCEPT ![f] = Tail(copy[f])]
  /\ flusher' = [flusher EXCEPT ![f] = "stopping"]
  /\ UNCHANGED <<stored, enqueuer, faults, accepted, acked, cleared, disturbed>>

ReplayThrows(f) ==
  /\ flusher[f] = "replaying"
  /\ Reached(f) \/ UNCHANGED delivered
  /\ flusher' = [flusher EXCEPT ![f] = "stopping"]
  /\ UNCHANGED <<stored, enqueuer, copy, faults, accepted, acked, cleared, disturbed>>

FlushSaveNeverWrites(f) ==
  /\ flusher[f] = "saving"
  /\ flusher' = [flusher EXCEPT ![f] = AfterSave(copy[f])]
  /\ UNCHANGED <<stored, enqueuer, copy, faults, history>>

FlushSave(f) ==
  /\ flusher[f] = "saving"
  /\ stored' = copy[f]
  /\ flusher' = [flusher EXCEPT ![f] = AfterSave(copy[f])]
  /\ UNCHANGED <<enqueuer, copy, faults, history>>

(* The save is inside the try: when it throws, the catch saves once more.   *)
FlushSaveFails(f) ==
  /\ flusher[f] = "saving"
  /\ Fault
  /\ flusher' = [flusher EXCEPT ![f] = "stopping"]
  /\ disturbed' = TRUE
  /\ UNCHANGED <<stored, enqueuer, copy, accepted, delivered, acked, cleared>>

Stop(f) ==
  /\ flusher[f] = "stopping"
  /\ stored' = copy[f]
  /\ flusher' = [flusher EXCEPT ![f] = "idle"]
  /\ UNCHANGED <<enqueuer, copy, faults, history>>

StopSaveFails(f) ==
  /\ flusher[f] = "stopping"
  /\ Fault
  /\ flusher' = [flusher EXCEPT ![f] = "idle"]
  /\ disturbed' = TRUE
  /\ UNCHANGED <<stored, enqueuer, copy, accepted, delivered, acked, cleared>>

-----------------------------------------------------------------------------
Clear ==
  /\ MayStart
  /\ Fault
  /\ stored' = <<>>
  /\ cleared' = cleared \cup Members(stored)
  /\ UNCHANGED <<calls, accepted, delivered, acked, disturbed>>

(* The process dies between two awaits and starts again.                    *)
Crash ==
  /\ Fault
  /\ Unfinished # {}
  /\ enqueuer' = [e \in Entries |-> IF enqueuer[e] = "loaded" THEN "failed" ELSE enqueuer[e]]
  /\ flusher' = [f \in Flushers |-> "idle"]
  /\ copy' = [c \in Entries \cup Flushers |-> <<>>]
  /\ disturbed' = TRUE
  /\ UNCHANGED <<stored, accepted, delivered, acked, cleared>>

FlushStep(f) ==
  \/ ReplayResolves(f) \/ ReplayThrows(f)
  \/ FlushSave(f) \/ FlushSaveFails(f)
  \/ Stop(f) \/ StopSaveFails(f)

Next ==
  \/ \E e \in Entries : EnqueueLoad(e) \/ EnqueueSave(e) \/ EnqueueSaveFails(e)
  \/ \E f \in Flushers : FlushLoad(f) \/ FlushStep(f)
  \/ Clear
  \/ Crash

Spec == Init /\ [][Next]_vars

-----------------------------------------------------------------------------
(* Type of every variable: a flush that replays has an entry in its copy,   *)
(* and stays within the bound on faults.                                    *)
TypeOK ==
  /\ stored \in Seq(Entries)
  /\ enqueuer \in [Entries -> {"idle", "loaded", "done", "failed"}]
  /\ flusher \in [Flushers -> {"idle", "replaying", "saving", "stopping"}]
  /\ copy \in [Entries \cup Flushers -> Seq(Entries)]
  /\ \A f \in Flushers : flusher[f] = "replaying" => copy[f] # <<>>
  /\ faults \in 0..MaxFaults
  /\ accepted \in Seq(Entries)
  /\ delivered \in Seq(Entries)
  /\ acked \subseteq Entries
  /\ cleared \subseteq Entries
  /\ disturbed \in BOOLEAN

(* "Append a request to the queue": an entry whose enqueue() resolved is in *)
(* the storage until its replay resolves or clear() drops it, through       *)
(* failed writes and crashes.                                               *)
NothingLost == Members(accepted) \subseteq Members(stored) \cup acked \cup cleared

(* "Replay queued requests in order": whatever fails, the server sees what  *)
(* a FIFO outbox that delivers at least once would send; a request, or its  *)
(* repeat, reaches it only when every entry queued earlier is acknowledged  *)
(* or cleared.                                                              *)
Promise == INSTANCE Outbox WITH done <- acked \cup cleared
KeepsOutbox == Promise!Spec

(* Without a failed write or a crash, an acknowledged entry never reaches   *)
(* the server again.                                                        *)
AckedOnce ==
  [][~disturbed /\ delivered' # delivered => delivered'[Len(delivered')] \notin acked]_vars
=============================================================================
