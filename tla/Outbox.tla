-------------------------------- MODULE Outbox --------------------------------
(***************************************************************************)
(* What the offline queue promises, without storage, copies or failures: a *)
(* FIFO outbox that delivers at least once.  An entry goes to the server   *)
(* only when all those accepted before it are done with, be it for the     *)
(* first time or again, and nothing is done with unless it was delivered   *)
(* or the outbox was emptied.                                              *)
(***************************************************************************)
EXTENDS Integers, Sequences

CONSTANT Entries

VARIABLES accepted,   \* the entries taken on, in order
          delivered,  \* every delivery, in order
          done        \* the entries nobody waits for any more

vars == <<accepted, delivered, done>>

Init == accepted = <<>> /\ delivered = <<>> /\ done = {}

Accept(e) ==
  /\ \A i \in DOMAIN accepted : accepted[i] # e
  /\ accepted' = Append(accepted, e)
  /\ UNCHANGED <<delivered, done>>

(* A delivery the sender hears about is done with; one it does not may come *)
(* again.                                                                   *)
Deliver(i) ==
  /\ \A j \in 1 .. i - 1 : accepted[j] \in done
  /\ delivered' = Append(delivered, accepted[i])
  /\ done' \in {done, done \cup {accepted[i]}}
  /\ UNCHANGED accepted

Drop ==
  /\ done' = done \cup {accepted[i] : i \in DOMAIN accepted}
  /\ UNCHANGED <<accepted, delivered>>

Next ==
  \/ \E e \in Entries : Accept(e)
  \/ \E i \in DOMAIN accepted : Deliver(i)
  \/ Drop

Spec == Init /\ [][Next]_vars
===============================================================================
