----------------------------- MODULE Submission -----------------------------
(***************************************************************************)
(* Submitting signed envelopes: submitTransaction() of submit.ts (path     *)
(* "horizon"), submitTransactionToApi() with the verification of status.ts *)
(* (path "api"), submitPolicyTransaction() of policy-submitter.ts (path    *)
(* "gated") and submitPolicyTransactionWithRetry() (path "retrying").      *)
(*                                                                         *)
(* Calls run concurrently over one account.  The network may lose or delay *)
(* a request or its answer, the ledger closes when it likes, and a request *)
(* whose caller gave up can still arrive.  The ledger is external: it      *)
(* applies an envelope whose sequence number is next and whose time bound  *)
(* holds, and answers a request for an envelope it knows with what became  *)
(* of it.  The API's server is external too: it relays an envelope, and    *)
(* its record says what became of it, late but never wrong.                *)
(***************************************************************************)
EXTENDS PolicyGate

CONSTANTS
  Calls, Envelopes,
  Paths,                 \* ways to call: for each call the function called
  Env,                   \* for each call: its envelope
  Now,                   \* for each call: options.now, or Unset
  Body,                  \* for each envelope: sequence, maxTime, valid, operations
  PolicySet,             \* options.policySet
  MaxSequenceRetries,    \* options.maxSequenceRetries
  RequiredConfirmations, \* options.requiredConfirmations of the verification
  FirstHour, LastHour    \* the clock runs between these

ASSUME SubmissionAssumption ==
  /\ Paths \subseteq [Calls -> {"horizon", "api", "gated", "retrying"}]
  /\ Env \in [Calls -> Envelopes]
  /\ MaxSequenceRetries \in Int /\ RequiredConfirmations \in Nat
  /\ FirstHour \in Nat /\ LastHour \in Nat /\ FirstHour <= LastHour

VARIABLES
  path,          \* the function each call uses
  clock,
  pc,            \* where each call stands
  sends,         \* how often each call has broadcast its envelope
  result,        \* what each call resolved with: its error's code, or "success"
  wire,          \* requests on their way: <<call, number of the broadcast>>
  pool,          \* requests the network has taken in
  answer,        \* the answer on its way to a call
  lastSequence,  \* the account's sequence number in the ledger
  fate,          \* what the ledger did with each envelope
  credit         \* history: the calls whose request got an envelope applied

callVars == <<pc, sends, result>>
netVars == <<wire, pool, answer>>
ledgerVars == <<lastSequence, fate, credit>>
vars == <<path, clock, callVars, netVars, ledgerVars>>

NoAnswer == "none"
Codes == {"tx_failed", "tx_bad_seq", "tx_too_late"}
Answers == Codes \union {"success", "gateway_timeout"}
Results == Codes \union {"none", "success", "PENDING", "invalid", "policy", "NETWORK_UNAVAILABLE", "SUBMISSION_FAILED", "FAILED", "EXPIRED"}

TypeOK ==
  /\ path \in Paths /\ clock \in FirstHour .. LastHour
  /\ pc \in [Calls -> {"idle", "waiting", "reloading", "pending", "done"}]
  /\ sends \in [Calls -> 0 .. 3]
  /\ result \in [Calls -> Results]
  /\ wire \subseteq Calls \X (1 .. 3) /\ pool \subseteq Calls \X (1 .. 3)
  /\ answer \in [Calls -> Answers \union {NoAnswer}]
  /\ lastSequence \in Nat
  /\ fate \in [Envelopes -> {"open", "applied", "failed"}]
  /\ credit \in [Envelopes -> SUBSET Calls]

Init ==
  /\ path \in Paths
  /\ clock = FirstHour
  /\ pc = [c \in Calls |-> "idle"]
  /\ sends = [c \in Calls |-> 0]
  /\ result = [c \in Calls |-> "none"]
  /\ wire = {} /\ pool = {} /\ answer = [c \in Calls |-> NoAnswer]
  /\ lastSequence = 0
  /\ fate = [e \in Envelopes |-> "open"]
  /\ credit = [e \in Envelopes |-> {}]

-----------------------------------------------------------------------------
(* The gate looks at the first transfer only, and passes on a clock        *)
(* override only for an envelope that has a transfer.                      *)

IsTransfer(op) == op.type \in {"payment", "pathPaymentStrictReceive", "pathPaymentStrictSend"}
Transfers(e) == SelectSeq(Body[e].operations, IsTransfer)

IsGated(c) == path[c] \in {"gated", "retrying"}

DeriveTransactionDetails(c) ==
  LET transfers == Transfers(Env[c])
  IN [recipientAddress |-> IF transfers = <<>> THEN Blank ELSE transfers[1].destination,
      timestamp |-> IF transfers = <<>> THEN Unset ELSE Now[c],
      signedWeight |-> 0]

PassesGateOnFirstBroadcast(c) == sends[c] > 0 \/ Allows(PolicySet, DeriveTransactionDetails(c), clock)
PassesGate(c) == Allows(PolicySet, DeriveTransactionDetails(c), clock)

-----------------------------------------------------------------------------
(* A call: validate, pass the gate, broadcast, and resolve with the answer. *)

Finish(c, code) ==
  /\ pc' = [pc EXCEPT ![c] = "done"]
  /\ result' = [result EXCEPT ![c] = code]
  /\ answer' = [answer EXCEPT ![c] = NoAnswer]

Broadcast(c) ==
  /\ pc' = [pc EXCEPT ![c] = "waiting"]
  /\ sends' = [sends EXCEPT ![c] = @ + 1]
  /\ wire' = wire \union {<<c, sends[c] + 1>>}
  /\ answer' = [answer EXCEPT ![c] = NoAnswer]
  /\ UNCHANGED <<result, pool>>

Refuse(c, code) == Finish(c, code) /\ UNCHANGED <<sends, wire, pool>>

Attempt(c) ==
  \/ IsGated(c) /\ ~PassesGate(c) /\ Refuse(c, "policy")
  \/ (~IsGated(c) \/ PassesGate(c)) /\ Broadcast(c)

Call(c) ==
  /\ pc[c] = "idle"
  /\ \/ ~Body[Env[c]].valid /\ Refuse(c, "invalid")
     \/ Body[Env[c]].valid /\ Attempt(c)
  /\ UNCHANGED <<path, clock, ledgerVars>>

MaxRetries == IF MaxSequenceRetries < 0 THEN 0 ELSE IF MaxSequenceRetries > 2 THEN 2 ELSE MaxSequenceRetries

\* An answer without result codes says nothing about the envelope; the API
\* gives it as a record that is on its way.
ResultOf(c, code) ==
  IF code # "gateway_timeout" THEN code
  ELSE IF path[c] = "api" THEN "PENDING" ELSE "SUBMISSION_FAILED"

RetriesAfterAnything(c, code) == path[c] = "retrying" /\ code # "success" /\ sends[c] <= MaxRetries
RetriesAfter(c, code) == path[c] = "retrying" /\ code = "tx_bad_seq" /\ sends[c] <= MaxRetries

(* What a settled broadcast leads to: the reload before a retry, or the end. *)
Settle(c, code) ==
  /\ \/ /\ RetriesAfter(c, code)
        /\ pc' = [pc EXCEPT ![c] = "reloading"]
        /\ answer' = [answer EXCEPT ![c] = NoAnswer]
        /\ UNCHANGED result
     \/ /\ code = "PENDING"
        /\ pc' = [pc EXCEPT ![c] = "pending"]
        /\ answer' = [answer EXCEPT ![c] = NoAnswer]
        /\ UNCHANGED result
     \/ ~RetriesAfter(c, code) /\ code # "PENDING" /\ Finish(c, code)
  /\ UNCHANGED <<path, clock, sends, wire, pool, ledgerVars>>

Receive(c) ==
  /\ pc[c] = "waiting" /\ answer[c] # NoAnswer
  /\ Settle(c, ResultOf(c, answer[c]))

GiveUpUncaught(c) ==
  /\ pc[c] = "waiting" /\ path[c] = "horizon"
  /\ Settle(c, "NETWORK_UNAVAILABLE")

(* A request ends without an answer: by the timer of submitTransaction()   *)
(* or of the HTTP client or by an error of the transport.  A gated call    *)
(* has no timer of its own: it ends so only if the client it was given     *)
(* gives up.  Headers and body of an answer arrive together here; in the   *)
(* code the timer has stopped by the time the body is read. *)
GiveUp(c) ==
  /\ pc[c] = "waiting"
  /\ Settle(c, "NETWORK_UNAVAILABLE")

Reloaded(c) ==
  /\ pc[c] = "reloading"
  /\ Attempt(c)
  /\ UNCHANGED <<path, clock, ledgerVars>>

ReloadFails(c) ==
  /\ pc[c] = "reloading"
  /\ Refuse(c, "tx_bad_seq")
  /\ UNCHANGED <<path, clock, ledgerVars>>

-----------------------------------------------------------------------------
(* Verifying the record of a pending submission: CONFIRMED is a success,   *)
(* but only a final status with its confirmations settles the matter.      *)

FinalStatuses == {"COMPLETED", "REJECTED", "EXPIRED", "CANCELLED", "FAILED"}
SuccessfulStatuses == {"COMPLETED", "CONFIRMED"}

IsFinal(record) == record.status \in FinalStatuses /\ record.confirmations >= RequiredConfirmations

\* What the server may show: SUBMITTED until it knows better, EXPIRED when the
\* request has left the network unapplied; confirmations only of a success.
Records(c) ==
  LET outcome == IF fate[Env[c]] = "applied" THEN SuccessfulStatuses
                 ELSE IF fate[Env[c]] = "failed" THEN {"FAILED"}
                 ELSE IF \E r \in wire \union pool : r[1] = c THEN {} ELSE {"EXPIRED"}
  IN [status : {"SUBMITTED"} \union outcome, confirmations : {0}]
     \union [status : outcome \intersect SuccessfulStatuses, confirmations : 0 .. RequiredConfirmations]

Verify(c) ==
  /\ pc[c] = "pending"
  /\ \E record \in Records(c) :
       /\ IsFinal(record)
       /\ Finish(c, IF record.status \in SuccessfulStatuses THEN "success" ELSE record.status)
  /\ UNCHANGED <<path, clock, sends, wire, pool, ledgerVars>>

-----------------------------------------------------------------------------
(* The network and the ledger. *)

Answered(requests, code) ==
  answer' = [c \in Calls |->
    IF pc[c] = "waiting" /\ <<c, sends[c]>> \in requests THEN code ELSE answer[c]]

Verdict(e) ==
  IF fate[e] = "applied" THEN "success"
  ELSE IF fate[e] = "failed" THEN "tx_failed"
  ELSE IF Body[e].sequence # lastSequence + 1 THEN "tx_bad_seq"
  ELSE IF clock > Body[e].maxTime THEN "tx_too_late"
  ELSE NoAnswer

Deliver(r) ==
  LET verdict == Verdict(Env[r[1]])
  IN /\ r \in wire
     /\ wire' = wire \ {r}
     /\ \/ verdict # NoAnswer /\ Answered({r}, verdict) /\ UNCHANGED pool
        \/ verdict = NoAnswer /\ pool' = pool \union {r} /\ UNCHANGED answer
     /\ UNCHANGED <<path, clock, callVars, ledgerVars>>

Lose(r) ==
  /\ r \in wire
  /\ wire' = wire \ {r}
  /\ UNCHANGED <<path, clock, callVars, pool, answer, ledgerVars>>

(* Horizon stops waiting for a ledger; the envelope stays in the pool. *)
GatewayTimeout(r) ==
  /\ r \in pool
  /\ answer[r[1]] = NoAnswer /\ pc[r[1]] = "waiting" /\ sends[r[1]] = r[2]
  /\ Answered({r}, "gateway_timeout")
  /\ UNCHANGED <<path, clock, callVars, wire, pool, ledgerVars>>

RequestsOf(e) == {r \in pool : Env[r[1]] = e}

Close(e) ==
  /\ RequestsOf(e) # {}
  /\ pool' = pool \ RequestsOf(e)
  /\ \/ /\ Body[e].sequence = lastSequence + 1 /\ clock <= Body[e].maxTime
        /\ lastSequence' = lastSequence + 1
        /\ \/ /\ fate' = [fate EXCEPT ![e] = "applied"]
              /\ credit' = [credit EXCEPT ![e] = {r[1] : r \in RequestsOf(e)}]
              /\ Answered(RequestsOf(e), "success")
           \/ /\ fate' = [fate EXCEPT ![e] = "failed"]
              /\ Answered(RequestsOf(e), "tx_failed")
              /\ UNCHANGED credit
     \/ /\ Body[e].sequence # lastSequence + 1 \/ clock > Body[e].maxTime
        /\ UNCHANGED <<answer, ledgerVars>>
  /\ UNCHANGED <<path, clock, callVars, wire>>

Tick ==
  /\ clock < LastHour
  /\ clock' = clock + 1
  /\ UNCHANGED <<path, callVars, netVars, ledgerVars>>

-----------------------------------------------------------------------------

CallStep(c) == Receive(c) \/ GiveUp(c) \/ Reloaded(c) \/ ReloadFails(c)

Next ==
  \/ \E c \in Calls : Call(c) \/ CallStep(c) \/ Verify(c)
  \/ \E r \in wire : Deliver(r) \/ Lose(r)
  \/ \E r \in pool : GatewayTimeout(r)
  \/ \E e \in Envelopes : Close(e)
  \/ Tick

Spec == Init /\ [][Next]_vars

\* An answer that is there is read, and the timers run; they guard the calls
\* that are not gated.
FairSpec ==
  Spec /\ \A c \in Calls : WF_vars(Receive(c)) /\ WF_vars(~IsGated(c) /\ GiveUp(c))

-----------------------------------------------------------------------------
(* Properties. *)

(* The answers of all four functions keep the abstract promise: success    *)
(* only of an applied envelope, result codes only when this call's own     *)
(* requests have not got the envelope applied and, late ones included,     *)
(* never will.  Timeouts and answers without codes promise nothing.        *)
Told(c) ==
  CASE result[c] = "none" -> "nothing"
    [] result[c] = "success" -> "success"
    [] result[c] \in {"NETWORK_UNAVAILABLE", "SUBMISSION_FAILED"} -> "unknown"
    [] OTHER -> "rejected"

Promise == INSTANCE SubmissionPromise WITH told <- [c \in Calls |-> Told(c)]
KeepsPromise == Promise!Spec

(* Every broadcast of a gated call without a clock override, the retries   *)
(* after an account reload included, leaves within the hours of every      *)
(* enabled rule, although time passes between the attempts.                *)
BroadcastsWithinHours ==
  [][\A c \in Calls :
       (sends'[c] > sends[c] /\ IsGated(c) /\ Now[c] = Unset) =>
         \A rule \in EnabledRules(PolicySet) :
           rule.allowedHours # Unset => IsActionWithinAllowedHours(rule.allowedHours, clock)]_vars

(* What the interfaces of the injected client and loader leave open        *)
(* (policy-submitter.ts:57, :65): that what they return settles.           *)
ClientSettles(c) == WF_vars(GiveUp(c)) /\ WF_vars(Reloaded(c) \/ ReloadFails(c))

(* Every call resolves, whatever the network and the ledger do: one to     *)
(* Horizon or the API because its timer ends every broadcast, a gated one, *)
(* its bounded retries included, provided that the client it was given     *)
(* settles, as nothing else ends its waiting (policy-submitter.ts:419,     *)
(* :504). *)
EveryCallResolves ==
  \A c \in Calls :
    (IsGated(c) => ClientSettles(c)) => (pc[c] = "waiting" ~> pc[c] \in {"done", "pending"})
=============================================================================
