------------------------- MODULE SubmissionPromise -------------------------
(***************************************************************************)
(* What submitting an envelope promises, without network or retries: an    *)
(* envelope is applied at most once, a call is answered at most once, and  *)
(* the answer is worth something.  "success" is said only of an applied    *)
(* envelope; "rejected" only by a call that has not got its envelope       *)
(* applied and never will; "unknown" promises nothing.                     *)
(***************************************************************************)
CONSTANTS Calls, Envelopes, Env

VARIABLES told,     \* what each call answered
          fate,     \* what the ledger did with each envelope
          credit    \* the calls that got an envelope applied

vars == <<told, fate, credit>>

Verdicts == {"success", "rejected", "unknown"}

Init ==
  /\ told = [c \in Calls |-> "nothing"]
  /\ fate = [e \in Envelopes |-> "open"]
  /\ credit = [e \in Envelopes |-> {}]

Apply(e) ==
  /\ fate[e] = "open"
  /\ fate' = [fate EXCEPT ![e] = "applied"]
  /\ \E carriers \in SUBSET {c \in Calls : Env[c] = e /\ told[c] \in {"nothing", "unknown"}} :
       credit' = [credit EXCEPT ![e] = carriers]
  /\ UNCHANGED told

Drop(e) ==
  /\ fate[e] = "open"
  /\ fate' = [fate EXCEPT ![e] = "failed"]
  /\ UNCHANGED <<told, credit>>

Tell(c, verdict) ==
  /\ told[c] = "nothing"
  /\ verdict = "success" => fate[Env[c]] = "applied"
  /\ verdict = "rejected" => c \notin credit[Env[c]]
  /\ told' = [told EXCEPT ![c] = verdict]
  /\ UNCHANGED <<fate, credit>>

Next ==
  \/ \E e \in Envelopes : Apply(e) \/ Drop(e)
  \/ \E c \in Calls, verdict \in Verdicts : Tell(c, verdict)

Spec == Init /\ [][Next]_vars
=============================================================================
