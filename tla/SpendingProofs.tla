--------------------------- MODULE SpendingProofs ---------------------------
(***************************************************************************)
(* What holds of Submission, Policy and Budget, the components that decide *)
(* what may be spent, for any values of their constants.  Submission and   *)
(* Policy answer to the same gate, PolicyGate; all three to Optional.      *)
(*                                                                         *)
(*   - Submission, for any calls, envelopes, policies, retries and hours:  *)
(*     above all that it implements SubmissionPromise;                     *)
(*   - Policy: drafts that the builder's validation keeps consistent, and  *)
(*     engines, answers and payments that follow from a published rule;    *)
(*   - Budget: sums over histories of any length, decisions on copies of   *)
(*     any age, warnings for any amounts.                                  *)
(***************************************************************************)
EXTENDS Submission, Policy, Budget, WellFoundedInduction, TLAPS

-----------------------------------------------------------------------------
(* Submission. *)

(* What the network still carries of a call.                                *)
Requests(c) == {r \in wire \cup pool : r[1] = c}

(* A call no request of which is left, and which got nothing applied.       *)
OutOfPlay(c) == Requests(c) = {} /\ c \notin credit[Env[c]]

(* A call that has not got its envelope applied and never will.             *)
Hopeless(c) ==
  /\ c \notin credit[Env[c]]
  /\ Requests(c) = {} \/ fate[Env[c]] # "open"

(* A request is on its way or taken in, not both, and it is the last one of *)
(* its call: a call broadcasts again only when nothing of it is left.       *)
NetInv ==
  /\ wire \cap pool = {}
  /\ \A r \in wire \cup pool : r[2] = sends[r[1]]

CallInv ==
  \A c \in Calls :
    /\ result[c] = "none" <=> pc[c] # "done"
    /\ pc[c] = "idle" => sends[c] = 0
    /\ pc[c] = "reloading" => sends[c] <= 2
    /\ pc[c] \in {"idle", "reloading"} => OutOfPlay(c)

(* What an answer on its way is worth when it arrives.                      *)
AnswerInv ==
  \A c \in Calls : pc[c] = "waiting" =>
    /\ answer[c] = "success" => fate[Env[c]] = "applied"
    /\ answer[c] \in Codes => OutOfPlay(c)
    /\ c \in credit[Env[c]] => answer[c] = "success"

(* A sequence number the ledger has used up never comes back.               *)
LedgerInv ==
  \A e \in Envelopes :
    /\ fate[e] # "open" => Body[e].sequence \in 0 .. lastSequence
    /\ fate[e] # "applied" => credit[e] = {}
    /\ \A c \in credit[e] : Env[c] = e

(* What a call has said stays true.                                         *)
ToldInv ==
  \A c \in Calls :
    /\ Told(c) = "success" => fate[Env[c]] = "applied"
    /\ Told(c) = "rejected" => Hopeless(c)

IInv == TypeOK /\ NetInv /\ CallInv /\ AnswerInv /\ LedgerInv /\ ToldInv

-----------------------------------------------------------------------------
LEMMA InitIInv == Init => IInv
<1> SUFFICES ASSUME Init PROVE IInv
  OBVIOUS
<1>1. TypeOK
  BY SubmissionAssumption DEF Init, TypeOK, Results, NoAnswer
<1>2. /\ \A c \in Calls : result[c] = "none" /\ pc[c] = "idle" /\ sends[c] = 0
      /\ \A e \in Envelopes : fate[e] = "open" /\ credit[e] = {}
      /\ \A c \in Calls : Env[c] \in Envelopes
      /\ wire = {} /\ pool = {}
  BY SubmissionAssumption DEF Init
<1>3. NetInv /\ CallInv /\ AnswerInv /\ LedgerInv
  BY <1>2 DEF NetInv, CallInv, AnswerInv, LedgerInv, OutOfPlay, Requests
<1>4. ToldInv
  BY <1>2 DEF ToldInv, Told
<1> QED BY <1>1, <1>3, <1>4 DEF IInv

(* The three things a call does: it resolves, with a code it can stand by;  *)
(* it broadcasts, when nothing of an earlier broadcast is left; or it waits *)
(* for the reload of the account or for a later look at its record.         *)
FinishStep(c) ==
  /\ pc[c] # "done"
  /\ \E code \in Results \ {"none"} :
       /\ Finish(c, code)
       /\ code = "success" => fate[Env[c]] = "applied"
       /\ code \notin {"success", "NETWORK_UNAVAILABLE", "SUBMISSION_FAILED"} => Hopeless(c)
  /\ UNCHANGED <<path, clock, sends, wire, pool, ledgerVars>>

BroadcastStep(c) ==
  /\ pc[c] \in {"idle", "reloading"}
  /\ Broadcast(c)
  /\ UNCHANGED <<path, clock, ledgerVars>>

HoldStep(c) ==
  /\ pc[c] = "waiting"
  /\ \E to \in {"reloading", "pending"} :
       /\ pc' = [pc EXCEPT ![c] = to]
       /\ to = "reloading" => OutOfPlay(c) /\ sends[c] <= 2
  /\ answer' = [answer EXCEPT ![c] = NoAnswer]
  /\ UNCHANGED <<path, clock, sends, result, wire, pool, ledgerVars>>

LEMMA AttemptSteps ==
  ASSUME IInv, NEW c \in Calls, pc[c] \in {"idle", "reloading"}, Attempt(c),
         UNCHANGED <<path, clock, ledgerVars>>
  PROVE  FinishStep(c) \/ BroadcastStep(c)
<1>1. CASE Broadcast(c)
  BY <1>1 DEF BroadcastStep
<1>2. CASE Refuse(c, "policy")
  <2>1. Hopeless(c)
    BY DEF IInv, CallInv, OutOfPlay, Hopeless
  <2> QED BY <1>2, <2>1 DEF FinishStep, Refuse, Results
<1> QED BY <1>1, <1>2 DEF Attempt

LEMMA SettleSteps ==
  ASSUME IInv, NEW c \in Calls, pc[c] = "waiting", NEW code, Settle(c, code),
         code \in Codes \cup {"success", "PENDING", "NETWORK_UNAVAILABLE", "SUBMISSION_FAILED"},
         code = "success" => fate[Env[c]] = "applied",
         code \in Codes => OutOfPlay(c)
  PROVE  FinishStep(c) \/ HoldStep(c)
<1>1. CASE RetriesAfter(c, code) /\ pc' = [pc EXCEPT ![c] = "reloading"]
  <2>1. sends[c] <= 2
    BY <1>1, SubmissionAssumption DEF RetriesAfter, MaxRetries, IInv, TypeOK
  <2> QED BY <1>1, <2>1 DEF HoldStep, Settle, RetriesAfter, Codes, Finish
<1>2. CASE code = "PENDING" /\ pc' = [pc EXCEPT ![c] = "pending"]
  BY <1>2 DEF HoldStep, Settle, RetriesAfter, Finish
<1>3. CASE code # "PENDING" /\ Finish(c, code)
  <2>1. code \in Codes => Hopeless(c)
    BY DEF OutOfPlay, Hopeless
  <2> QED BY <1>3, <2>1 DEF FinishStep, Settle, Results, Codes
<1> QED BY <1>1, <1>2, <1>3 DEF Settle

LEMMA VerifySteps ==
  ASSUME IInv, NEW c \in Calls, Verify(c)
  PROVE  FinishStep(c)
<1>1. PICK record \in Records(c) :
        /\ IsFinal(record)
        /\ Finish(c, IF record.status \in SuccessfulStatuses THEN "success" ELSE record.status)
  BY DEF Verify
<1>2. Env[c] \in Envelopes /\ fate[Env[c]] \in {"open", "applied", "failed"}
  BY SubmissionAssumption DEF IInv, TypeOK
<1>3. \/ fate[Env[c]] = "applied" /\ record.status \in {"SUBMITTED"} \cup SuccessfulStatuses
      \/ fate[Env[c]] = "failed" /\ record.status \in {"SUBMITTED", "FAILED"}
      \/ /\ fate[Env[c]] = "open" /\ record.status \in {"SUBMITTED", "EXPIRED"}
         /\ record.status = "EXPIRED" => Requests(c) = {}
  <2>1. CASE fate[Env[c]] = "applied"
    BY <2>1 DEF Records, SuccessfulStatuses
  <2>2. CASE fate[Env[c]] = "failed"
    BY <2>2 DEF Records, SuccessfulStatuses
  <2>3. CASE fate[Env[c]] = "open" /\ \E r \in wire \union pool : r[1] = c
    BY <2>3 DEF Records, SuccessfulStatuses
  <2>4. CASE fate[Env[c]] = "open" /\ ~ \E r \in wire \union pool : r[1] = c
    BY <2>4 DEF Records, SuccessfulStatuses, Requests
  <2> QED BY <1>2, <2>1, <2>2, <2>3, <2>4
<1>4. record.status # "SUBMITTED"
  BY <1>1 DEF IsFinal, FinalStatuses
<1>5. fate[Env[c]] # "applied" => c \notin credit[Env[c]]
  BY <1>2 DEF IInv, LedgerInv
<1>6. CASE fate[Env[c]] = "applied"
  <2>1. record.status \in SuccessfulStatuses
    BY <1>3, <1>4, <1>6
  <2> QED BY <1>1, <1>6, <2>1 DEF FinishStep, Verify, Results
<1>7. CASE fate[Env[c]] # "applied"
  <2>1. record.status \in {"FAILED", "EXPIRED"} /\ Hopeless(c)
    BY <1>3, <1>4, <1>5, <1>7 DEF Hopeless
  <2>2. Finish(c, record.status)
    BY <1>1, <2>1 DEF SuccessfulStatuses
  <2> QED BY <2>1, <2>2 DEF FinishStep, Verify, Results
<1> QED BY <1>6, <1>7

LEMMA CallSteps ==
  ASSUME IInv, NEW c \in Calls, Call(c) \/ CallStep(c) \/ Verify(c)
  PROVE  FinishStep(c) \/ BroadcastStep(c) \/ HoldStep(c)
<1>1. CASE Call(c)
  <2>1. CASE Refuse(c, "invalid")
    <3>1. Hopeless(c)
      BY <1>1 DEF Call, IInv, CallInv, OutOfPlay, Hopeless
    <3> QED BY <1>1, <2>1, <3>1 DEF FinishStep, Call, Refuse, Results
  <2>2. CASE Attempt(c)
    BY <1>1, <2>2, AttemptSteps DEF Call
  <2> QED BY <1>1, <2>1, <2>2 DEF Call
<1>2. CASE Receive(c)
  <2> DEFINE code == ResultOf(c, answer[c])
  <2>1. pc[c] = "waiting" /\ answer[c] \in Answers /\ Settle(c, code)
    BY <1>2 DEF Receive, IInv, TypeOK
  <2>2. /\ code \in Codes \cup {"success", "PENDING", "NETWORK_UNAVAILABLE", "SUBMISSION_FAILED"}
        /\ code \in Codes \cup {"success"} => code = answer[c]
    BY <2>1 DEF ResultOf, Answers, Codes
  <2>3. code = "success" => fate[Env[c]] = "applied"
    BY <2>1, <2>2 DEF IInv, AnswerInv
  <2>4. code \in Codes => OutOfPlay(c)
    BY <2>1, <2>2 DEF IInv, AnswerInv
  <2> HIDE DEF code
  <2> QED BY <2>1, <2>2, <2>3, <2>4, SettleSteps
<1>3. CASE GiveUp(c)
  BY <1>3, SettleSteps DEF GiveUp, Codes
<1>4. CASE Reloaded(c)
  BY <1>4, AttemptSteps DEF Reloaded
<1>5. CASE ReloadFails(c)
  <2>1. Hopeless(c)
    BY <1>5 DEF ReloadFails, IInv, CallInv, OutOfPlay, Hopeless
  <2> QED BY <1>5, <2>1 DEF FinishStep, ReloadFails, Refuse, Results, Codes
<1>6. CASE Verify(c)
  BY <1>6, VerifySteps
<1> QED BY <1>1, <1>2, <1>3, <1>4, <1>5, <1>6 DEF CallStep

-----------------------------------------------------------------------------
LEMMA FinishIInv ==
  ASSUME IInv, NEW c \in Calls, FinishStep(c)
  PROVE  IInv'
<1> USE DEF IInv
<1>1. PICK code \in Results \ {"none"} :
        /\ Finish(c, code)
        /\ code = "success" => fate[Env[c]] = "applied"
        /\ code \notin {"success", "NETWORK_UNAVAILABLE", "SUBMISSION_FAILED"} => Hopeless(c)
  BY DEF FinishStep
<1>2. /\ pc' = [pc EXCEPT ![c] = "done"] /\ result' = [result EXCEPT ![c] = code]
      /\ answer' = [answer EXCEPT ![c] = NoAnswer]
      /\ UNCHANGED <<path, clock, sends, wire, pool, lastSequence, fate, credit>>
  BY <1>1 DEF FinishStep, Finish, ledgerVars
<1>3. /\ pc'[c] = "done" /\ result'[c] = code
      /\ \A d \in Calls \ {c} : pc'[d] = pc[d] /\ result'[d] = result[d] /\ answer'[d] = answer[d]
  BY <1>2 DEF TypeOK
<1>4. TypeOK'
  BY <1>2 DEF TypeOK
<1>5. NetInv' /\ LedgerInv'
  BY <1>2 DEF NetInv, LedgerInv
<1>6. CallInv' /\ AnswerInv'
  BY <1>2, <1>3 DEF CallInv, AnswerInv, OutOfPlay, Requests
<1>7. ToldInv'
  <2>1. \A d \in Calls : Hopeless(d)' <=> Hopeless(d)
    BY <1>2 DEF Hopeless, Requests
  <2>2. \A d \in Calls \ {c} : Told(d)' = Told(d)
    BY <1>3 DEF Told
  <2>3. /\ Told(c)' = "success" => code = "success"
        /\ Told(c)' = "rejected" => code \notin {"success", "NETWORK_UNAVAILABLE", "SUBMISSION_FAILED"}
    BY <1>3 DEF Told
  <2> QED BY <1>1, <1>2, <2>1, <2>2, <2>3 DEF ToldInv
<1> QED BY <1>4, <1>5, <1>6, <1>7

LEMMA BroadcastIInv ==
  ASSUME IInv, NEW c \in Calls, BroadcastStep(c)
  PROVE  IInv'
<1> USE DEF IInv
<1> DEFINE new == <<c, sends[c] + 1>>
<1>1. /\ pc[c] \in {"idle", "reloading"} /\ pc' = [pc EXCEPT ![c] = "waiting"]
      /\ sends' = [sends EXCEPT ![c] = sends[c] + 1] /\ wire' = wire \cup {new}
      /\ answer' = [answer EXCEPT ![c] = NoAnswer]
      /\ UNCHANGED <<path, clock, result, pool, lastSequence, fate, credit>>
  BY DEF BroadcastStep, Broadcast, ledgerVars
<1>2. /\ OutOfPlay(c) /\ result[c] = "none" /\ sends[c] \in 0 .. 2
  BY <1>1 DEF CallInv, TypeOK
<1>3. new \in Calls \X (1 .. 3) /\ new[1] = c /\ new[2] = sends[c] + 1
  BY <1>2
<1> HIDE DEF new
<1>4. /\ pc'[c] = "waiting" /\ answer'[c] = NoAnswer /\ sends'[c] = sends[c] + 1
      /\ \A d \in Calls \ {c} : pc'[d] = pc[d] /\ sends'[d] = sends[d] /\ answer'[d] = answer[d]
  BY <1>1 DEF TypeOK
<1>5. TypeOK'
  <2>1. sends' \in [Calls -> 0 .. 3]
    BY <1>1, <1>2 DEF TypeOK
  <2>2. wire' \subseteq Calls \X (1 .. 3)
    BY <1>1, <1>3 DEF TypeOK
  <2> QED BY <1>1, <2>1, <2>2 DEF TypeOK
<1>6. \A r \in wire \cup pool : r[1] \in Calls /\ r[1] # c
  BY <1>2 DEF TypeOK, OutOfPlay, Requests
<1>7. NetInv'
  BY <1>1, <1>3, <1>4, <1>6 DEF NetInv
<1>8. \A d \in Calls \ {c} : Requests(d)' = Requests(d)
  BY <1>1, <1>3 DEF Requests
<1>9. CallInv' /\ LedgerInv'
  BY <1>1, <1>2, <1>4, <1>8 DEF CallInv, LedgerInv, OutOfPlay
<1>10. AnswerInv'
  BY <1>1, <1>2, <1>4, <1>8 DEF AnswerInv, OutOfPlay, NoAnswer, Codes
<1>11. ToldInv'
  <2>1. \A d \in Calls : Told(d)' = Told(d) /\ Told(c) = "nothing"
    BY <1>1, <1>2 DEF Told
  <2> QED BY <2>1, <1>1, <1>8 DEF ToldInv, Hopeless
<1> QED BY <1>5, <1>7, <1>9, <1>10, <1>11

LEMMA HoldIInv ==
  ASSUME IInv, NEW c \in Calls, HoldStep(c)
  PROVE  IInv'
<1> USE DEF IInv
<1>1. PICK to \in {"reloading", "pending"} :
        /\ pc' = [pc EXCEPT ![c] = to]
        /\ to = "reloading" => OutOfPlay(c) /\ sends[c] <= 2
  BY DEF HoldStep
<1>2. /\ pc[c] = "waiting" /\ answer' = [answer EXCEPT ![c] = NoAnswer]
      /\ UNCHANGED <<path, clock, sends, result, wire, pool, lastSequence, fate, credit>>
  BY DEF HoldStep, ledgerVars
<1>3. /\ pc'[c] = to
      /\ \A d \in Calls \ {c} : pc'[d] = pc[d] /\ answer'[d] = answer[d]
  BY <1>1, <1>2 DEF TypeOK
<1>4. TypeOK'
  BY <1>1, <1>2 DEF TypeOK
<1>5. NetInv' /\ LedgerInv' /\ ToldInv'
  BY <1>2 DEF NetInv, LedgerInv, ToldInv, Told, Hopeless, Requests
<1>6. CallInv' /\ AnswerInv'
  BY <1>1, <1>2, <1>3 DEF CallInv, AnswerInv, OutOfPlay, Requests
<1> QED BY <1>4, <1>5, <1>6

-----------------------------------------------------------------------------
(* The network: what a step may do to the requests of every call.           *)
LEMMA VerdictTrue ==
  ASSUME IInv, NEW e \in Envelopes
  PROVE  /\ Verdict(e) \in Answers \cup {NoAnswer}
         /\ Verdict(e) = "success" => fate[e] = "applied"
         /\ Verdict(e) \in Codes => credit[e] = {}
         /\ Verdict(e) = NoAnswer => fate[e] = "open"
<1>1. fate[e] \in {"open", "applied", "failed"} /\ (fate[e] # "applied" => credit[e] = {})
  BY DEF IInv, TypeOK, LedgerInv
<1>2. CASE fate[e] = "applied"
  BY <1>2 DEF Verdict, Answers, Codes, NoAnswer
<1>3. CASE fate[e] = "failed"
  BY <1>1, <1>3 DEF Verdict, Answers, Codes, NoAnswer
<1>4. CASE fate[e] = "open"
  <2>1. \/ Body[e].sequence # lastSequence + 1 /\ Verdict(e) = "tx_bad_seq"
        \/ Body[e].sequence = lastSequence + 1 /\ clock > Body[e].maxTime /\ Verdict(e) = "tx_too_late"
        \/ Body[e].sequence = lastSequence + 1 /\ ~(clock > Body[e].maxTime) /\ Verdict(e) = NoAnswer
    BY <1>4 DEF Verdict
  <2> QED BY <1>1, <1>4, <2>1 DEF Answers, Codes, NoAnswer
<1> QED BY <1>1, <1>2, <1>3, <1>4

LEMMA DeliverIInv ==
  ASSUME IInv, NEW r \in wire, Deliver(r)
  PROVE  IInv'
<1> USE DEF IInv
<1> DEFINE c == r[1]
           verdict == Verdict(Env[c])
<1>1. /\ r \in wire /\ wire' = wire \ {r}
      /\ \/ verdict # NoAnswer /\ Answered({r}, verdict) /\ UNCHANGED pool
         \/ verdict = NoAnswer /\ pool' = pool \cup {r} /\ UNCHANGED answer
      /\ UNCHANGED <<path, clock, pc, sends, result, lastSequence, fate, credit>>
  BY DEF Deliver, callVars, ledgerVars
<1>2. /\ c \in Calls /\ Env[c] \in Envelopes /\ r = <<c, sends[c]>> /\ r \in Calls \X (1 .. 3)
  BY <1>1, SubmissionAssumption DEF NetInv, TypeOK
<1>3. /\ verdict \in Answers \cup {NoAnswer}
      /\ verdict = "success" => fate[Env[c]] = "applied"
      /\ verdict \in Codes => credit[Env[c]] = {}
      /\ verdict = NoAnswer => fate[Env[c]] = "open"
  BY <1>2, VerdictTrue
<1> HIDE DEF c, verdict
<1>4. /\ answer' \in [Calls -> Answers \cup {NoAnswer}]
      /\ \A d \in Calls : answer'[d] = answer[d] \/ (d = c /\ answer'[d] = verdict /\ verdict # NoAnswer)
      /\ verdict # NoAnswer /\ pc[c] = "waiting" => answer'[c] = verdict
  <2>1. CASE verdict # NoAnswer /\ Answered({r}, verdict)
    BY <1>2, <1>3, <2>1 DEF Answered, TypeOK
  <2>2. CASE verdict = NoAnswer /\ UNCHANGED answer
    BY <2>2 DEF TypeOK
  <2> QED BY <1>1, <2>1, <2>2
<1>5. TypeOK'
  BY <1>1, <1>2, <1>4 DEF TypeOK
<1>6. NetInv'
  BY <1>1 DEF NetInv
<1>7. \A d \in Calls : Requests(d)' \subseteq Requests(d)
  BY <1>1 DEF Requests
<1>8. verdict # NoAnswer => Requests(c)' = {}
  <2>1. \A q \in wire \cup pool : q[1] = c => q = r
    BY <1>2 DEF NetInv, TypeOK
  <2> QED BY <2>1, <1>1 DEF Requests, NetInv
<1>9. CallInv' /\ LedgerInv'
  BY <1>1, <1>7 DEF CallInv, LedgerInv, OutOfPlay
<1>10. AnswerInv'
  <2> SUFFICES ASSUME NEW d \in Calls, pc[d] = "waiting"
               PROVE  /\ answer'[d] = "success" => fate[Env[d]] = "applied"
                      /\ answer'[d] \in Codes => Requests(d)' = {} /\ d \notin credit[Env[d]]
                      /\ d \in credit[Env[d]] => answer'[d] = "success"
    BY <1>1 DEF AnswerInv, OutOfPlay
  <2>1. CASE answer'[d] = answer[d]
    BY <2>1, <1>7 DEF AnswerInv, OutOfPlay
  <2>2. CASE d = c /\ answer'[d] = verdict /\ verdict # NoAnswer
    <3>1. verdict \in Codes \/ verdict = "success" \/ verdict = "gateway_timeout"
      BY <1>3, <2>2 DEF Answers
    <3>2. verdict # "gateway_timeout"
      <4>1. Verdict(Env[c]) # "gateway_timeout"
        BY DEF Verdict, NoAnswer
      <4> QED BY <4>1 DEF verdict
    <3> QED BY <2>2, <3>1, <3>2, <1>3, <1>8 DEF Codes
  <2> QED BY <2>1, <2>2, <1>4
<1>11. ToldInv'
  BY <1>1, <1>7 DEF ToldInv, Told, Hopeless
<1> QED BY <1>5, <1>6, <1>9, <1>10, <1>11

LEMMA LoseIInv ==
  ASSUME IInv, NEW r \in wire, Lose(r)
  PROVE  IInv'
<1> USE DEF IInv
<1>1. /\ wire' = wire \ {r}
      /\ UNCHANGED <<path, clock, pc, sends, result, pool, answer, lastSequence, fate, credit>>
  BY DEF Lose, callVars, ledgerVars
<1>2. \A d \in Calls : Requests(d)' \subseteq Requests(d)
  BY <1>1 DEF Requests
<1>3. TypeOK' /\ NetInv' /\ LedgerInv'
  BY <1>1 DEF TypeOK, NetInv, LedgerInv
<1>4. CallInv' /\ AnswerInv' /\ ToldInv'
  BY <1>1, <1>2 DEF CallInv, AnswerInv, ToldInv, Told, Hopeless, OutOfPlay
<1> QED BY <1>3, <1>4

LEMMA GatewayTimeoutIInv ==
  ASSUME IInv, NEW r \in pool, GatewayTimeout(r)
  PROVE  IInv'
<1> USE DEF IInv
<1> DEFINE c == r[1]
<1>1. /\ answer[c] = NoAnswer /\ pc[c] = "waiting" /\ Answered({r}, "gateway_timeout")
      /\ UNCHANGED <<path, clock, pc, sends, result, wire, pool, lastSequence, fate, credit>>
  BY DEF GatewayTimeout, callVars, ledgerVars
<1>2. /\ answer' \in [Calls -> Answers \cup {NoAnswer}]
      /\ \A d \in Calls : answer'[d] = answer[d]
                          \/ (answer[d] = NoAnswer /\ answer'[d] = "gateway_timeout")
  BY <1>1 DEF Answered, Answers, TypeOK
<1>3. TypeOK' /\ NetInv' /\ LedgerInv'
  BY <1>1, <1>2 DEF TypeOK, NetInv, LedgerInv
<1>4. CallInv' /\ ToldInv'
  BY <1>1 DEF CallInv, ToldInv, Told, Hopeless, OutOfPlay, Requests
<1>5. AnswerInv'
  BY <1>1, <1>2 DEF AnswerInv, OutOfPlay, Requests, Codes, NoAnswer
<1> QED BY <1>3, <1>4, <1>5

-----------------------------------------------------------------------------
(* A ledger closes: every request for the envelope leaves the pool, and if  *)
(* it was the envelope's turn, its sequence number is used up.              *)
LEMMA CloseFacts ==
  ASSUME IInv, NEW e \in Envelopes, Close(e)
  PROVE  /\ pool' = pool \ RequestsOf(e)
         /\ UNCHANGED <<path, clock, pc, sends, result, wire>>
         /\ \A d \in Calls : Requests(d)' \subseteq Requests(d)
         /\ \A r \in RequestsOf(e) : /\ r[1] \in Calls /\ Env[r[1]] = e
                                    /\ Requests(r[1]) = {r} /\ Requests(r[1])' = {}
                                    /\ r = <<r[1], sends[r[1]]>>
<1>1. pool' = pool \ RequestsOf(e) /\ UNCHANGED <<path, clock, pc, sends, result, wire>>
  BY DEF Close, callVars
<1>2. \A d \in Calls : Requests(d)' \subseteq Requests(d)
  BY <1>1 DEF Requests
<1>3. ASSUME NEW r \in RequestsOf(e)
      PROVE  /\ r[1] \in Calls /\ Env[r[1]] = e
             /\ Requests(r[1]) = {r} /\ Requests(r[1])' = {} /\ r = <<r[1], sends[r[1]]>>
  <2>1. r \in pool /\ Env[r[1]] = e
    BY DEF RequestsOf
  <2>2. \A q \in wire \cup pool : q = <<q[1], sends[q[1]]>> /\ q[1] \in Calls
    BY DEF IInv, TypeOK, NetInv
  <2>3. Requests(r[1]) = {r}
    BY <2>1, <2>2 DEF Requests
  <2>4. r \notin wire' \cup pool'
    BY <1>1, <2>1 DEF IInv, NetInv
  <2>5. Requests(r[1])' = {}
    <3>1. Requests(r[1])' \subseteq {r}
      BY <1>2, <2>1, <2>2, <2>3
    <3> QED BY <3>1, <2>4 DEF Requests
  <2> QED BY <2>1, <2>2, <2>3, <2>5
<1> QED BY <1>1, <1>2, <1>3

\* The three outcomes.
Applies(e) ==
  /\ fate' = [fate EXCEPT ![e] = "applied"]
  /\ credit' = [credit EXCEPT ![e] = {r[1] : r \in RequestsOf(e)}]
  /\ Answered(RequestsOf(e), "success")

Fails(e) ==
  /\ fate' = [fate EXCEPT ![e] = "failed"]
  /\ Answered(RequestsOf(e), "tx_failed")
  /\ UNCHANGED credit

InTurn(e) ==
  /\ Body[e].sequence = lastSequence + 1
  /\ lastSequence' = lastSequence + 1

LEMMA CloseCases ==
  ASSUME NEW e \in Envelopes, Close(e)
  PROVE  \/ InTurn(e) /\ (Applies(e) \/ Fails(e))
         \/ UNCHANGED <<answer, lastSequence, fate, credit>>
  BY DEF Close, InTurn, Applies, Fails, ledgerVars

LEMMA InTurnIsOpen ==
  ASSUME IInv, NEW e \in Envelopes, InTurn(e)
  PROVE  fate[e] = "open" /\ credit[e] = {} /\ lastSequence \in Nat
         /\ Body[e].sequence \in 0 .. lastSequence'
<1>1. lastSequence \in Nat /\ lastSequence + 1 \notin 0 .. lastSequence
  BY DEF IInv, TypeOK
<1>2. fate[e] = "open"
  BY <1>1 DEF IInv, LedgerInv, InTurn
<1> QED BY <1>1, <1>2 DEF IInv, LedgerInv, InTurn

LEMMA CloseIInv ==
  ASSUME IInv, NEW e \in Envelopes, Close(e)
  PROVE  IInv'
<1> USE DEF IInv
<1> DEFINE requests == RequestsOf(e)
<1>1. /\ pool' = pool \ requests
      /\ UNCHANGED <<path, clock, pc, sends, result, wire>>
      /\ \A d \in Calls : Requests(d)' \subseteq Requests(d)
      /\ \A r \in requests : /\ r[1] \in Calls /\ Env[r[1]] = e
                            /\ Requests(r[1]) = {r} /\ Requests(r[1])' = {}
                            /\ r = <<r[1], sends[r[1]]>>
  BY CloseFacts
<1> HIDE DEF requests
<1>2. NetInv'
  BY <1>1 DEF NetInv
<1>3. CASE UNCHANGED <<answer, lastSequence, fate, credit>>
  <2>1. TypeOK' /\ LedgerInv'
    BY <1>1, <1>3 DEF TypeOK, LedgerInv
  <2>2. CallInv' /\ AnswerInv' /\ ToldInv'
    BY <1>1, <1>3 DEF CallInv, AnswerInv, ToldInv, Told, Hopeless, OutOfPlay
  <2> QED BY <1>2, <2>1, <2>2
<1>4. CASE InTurn(e) /\ (Applies(e) \/ Fails(e))
  <2> DEFINE applied == Applies(e)
             word == IF applied THEN "success" ELSE "tx_failed"
             carriers == IF applied THEN {r[1] : r \in requests} ELSE {}
  <2>1. /\ fate' = [fate EXCEPT ![e] = IF applied THEN "applied" ELSE "failed"]
        /\ Answered(requests, word)
        /\ lastSequence' = lastSequence + 1
    BY <1>4 DEF Applies, Fails, InTurn, requests
  <2>2. /\ fate[e] = "open" /\ credit[e] = {} /\ lastSequence \in Nat
        /\ Body[e].sequence \in 0 .. lastSequence'
    BY <1>4, InTurnIsOpen
  <2>3. credit' = [credit EXCEPT ![e] = carriers]
    <3>1. CASE Applies(e)
      BY <3>1 DEF Applies, requests
    <3>2. CASE ~Applies(e)
      <4>1. credit' = credit /\ carriers = {}
        BY <3>2, <1>4 DEF Fails
      <4> QED BY <4>1, <2>2 DEF TypeOK
    <3> QED BY <3>1, <3>2
  <2>4. /\ carriers \subseteq Calls /\ \A c \in carriers : Env[c] = e
        /\ \A c \in carriers : applied /\ <<c, sends[c]>> \in requests
        /\ \A c \in Calls : <<c, sends[c]>> \in requests /\ applied => c \in carriers
    BY <1>1
  <2>5. word \in {"success", "tx_failed"} /\ (word = "success" <=> applied)
    <3> HIDE DEF applied
    <3> QED BY Zenon
  <2> HIDE DEF applied, word, carriers
  <2>6. \A c \in Calls : Env[c] \in Envelopes
    BY SubmissionAssumption
  <2>7. /\ fate'[e] # "open" /\ (applied <=> fate'[e] = "applied") /\ credit'[e] = carriers
        /\ \A x \in Envelopes \ {e} : fate'[x] = fate[x] /\ credit'[x] = credit[x]
    BY <2>1, <2>3 DEF TypeOK
  <2>8. /\ answer' \in [Calls -> Answers \cup {NoAnswer}]
        /\ \A c \in Calls :
             answer'[c] = IF pc[c] = "waiting" /\ <<c, sends[c]>> \in requests THEN word ELSE answer[c]
    BY <2>1, <2>5 DEF Answered, Answers, Codes, TypeOK
  <2>9. TypeOK'
    BY <1>1, <2>1, <2>2, <2>3, <2>4, <2>8 DEF TypeOK
  <2>10. LedgerInv'
    <3>1. \A x \in Envelopes \ {e} : Body[x].sequence \in 0 .. lastSequence =>
                                     Body[x].sequence \in 0 .. lastSequence'
      BY <2>1, <2>2
    <3> QED BY <3>1, <2>2, <2>4, <2>5, <2>7 DEF LedgerInv
  <2>11. \A c \in Calls : OutOfPlay(c) => OutOfPlay(c)'
    <3> SUFFICES ASSUME NEW c \in Calls, OutOfPlay(c), c \in credit'[Env[c]] PROVE FALSE
      BY <1>1 DEF OutOfPlay
    <3>1. c \in carriers
      BY <2>6, <2>7 DEF OutOfPlay
    <3>2. <<c, sends[c]>> \in requests
      BY <2>4, <3>1
    <3>3. <<c, sends[c]>>[1] = c
      OBVIOUS
    <3> QED BY <3>2, <3>3, <1>1 DEF OutOfPlay
  <2>12. CallInv'
    BY <1>1, <2>11 DEF CallInv
  <2>13. AnswerInv'
    <3> SUFFICES ASSUME NEW c \in Calls, pc[c] = "waiting"
                 PROVE  /\ answer'[c] = "success" => fate'[Env[c]] = "applied"
                        /\ answer'[c] \in Codes => OutOfPlay(c)'
                        /\ c \in credit'[Env[c]] => answer'[c] = "success"
      BY <1>1 DEF AnswerInv
    <3>1. CASE <<c, sends[c]>> \in requests
      <4>1. <<c, sends[c]>>[1] = c
        OBVIOUS
      <4>2. Env[c] = e /\ Requests(c)' = {} /\ answer'[c] = word
        BY <3>1, <4>1, <1>1, <2>8
      <4>3. word = "tx_failed" => c \notin carriers
        BY <2>4, <2>5
      <4> QED BY <4>2, <4>3, <2>4, <2>5, <2>7 DEF OutOfPlay, Codes
    <3>2. CASE <<c, sends[c]>> \notin requests
      <4>1. answer'[c] = answer[c] /\ c \notin carriers
        BY <3>2, <2>4, <2>8
      <4>2. c \in credit'[Env[c]] => c \in credit[Env[c]]
        BY <4>1, <2>6, <2>7
      <4>3. fate[Env[c]] = "applied" => fate'[Env[c]] = "applied"
        BY <2>2, <2>6, <2>7
      <4> QED BY <4>1, <4>2, <4>3, <2>11 DEF AnswerInv
    <3> QED BY <3>1, <3>2
  <2>14. ToldInv'
    <3> SUFFICES ASSUME NEW c \in Calls
                 PROVE  /\ Told(c) = "success" => fate'[Env[c]] = "applied"
                        /\ Told(c) = "rejected" => Hopeless(c)'
      BY <1>1 DEF ToldInv, Told
    <3>1. Told(c) = "success" => fate'[Env[c]] = "applied"
      BY <2>2, <2>6, <2>7 DEF ToldInv
    <3>2. ASSUME Told(c) = "rejected" PROVE Hopeless(c)'
      <4>1. CASE fate[Env[c]] # "open"
        BY <3>2, <4>1, <2>2, <2>6, <2>7 DEF ToldInv, Hopeless
      <4>2. CASE Requests(c) = {}
        <5>1. OutOfPlay(c)
          BY <3>2, <4>2 DEF ToldInv, Hopeless, OutOfPlay
        <5> QED BY <5>1, <2>11 DEF OutOfPlay, Hopeless
      <4> QED BY <3>2, <4>1, <4>2 DEF ToldInv, Hopeless
    <3> QED BY <3>1, <3>2
  <2> QED BY <1>2, <2>9, <2>10, <2>12, <2>13, <2>14
<1> QED BY <1>3, <1>4, CloseCases

LEMMA QuietIInv ==
  ASSUME IInv, UNCHANGED <<path, callVars, netVars, ledgerVars>>, clock' \in FirstHour .. LastHour
  PROVE  IInv'
  BY DEF callVars, netVars, ledgerVars, IInv, TypeOK, NetInv, CallInv, AnswerInv, LedgerInv, ToldInv,
         Told, Hopeless, OutOfPlay, Requests

LEMMA NextIInv ==
  ASSUME IInv, [Next]_vars
  PROVE  IInv'
<1>1. CASE \E c \in Calls : Call(c) \/ CallStep(c) \/ Verify(c)
  BY <1>1, CallSteps, FinishIInv, BroadcastIInv, HoldIInv
<1>2. CASE (\E r \in wire : Deliver(r) \/ Lose(r)) \/ (\E r \in pool : GatewayTimeout(r))
  BY <1>2, DeliverIInv, LoseIInv, GatewayTimeoutIInv
<1>3. CASE \E e \in Envelopes : Close(e)
  BY <1>3, CloseIInv
<1>4. CASE Tick
  <2>1. clock' \in FirstHour .. LastHour
    BY <1>4, SubmissionAssumption DEF Tick, IInv, TypeOK
  <2> QED BY <1>4, <2>1, QuietIInv DEF Tick
<1>5. CASE UNCHANGED vars
  BY <1>5, QuietIInv DEF vars, IInv, TypeOK
<1> QED BY <1>1, <1>2, <1>3, <1>4, <1>5 DEF Next

LEMMA Inductive == Spec => []IInv
<1>1. Init => IInv
  BY InitIInv
<1>2. IInv /\ [Next]_vars => IInv'
  BY NextIInv
<1> QED BY <1>1, <1>2, PTL DEF Spec

-----------------------------------------------------------------------------
(* Every variable keeps its type: no call broadcasts more than three times, *)
(* whatever maxSequenceRetries asks for, and no code out of nowhere.        *)
THEOREM TypeCorrect == Spec => []TypeOK
<1>1. IInv => TypeOK
  BY DEF IInv
<1> QED BY <1>1, Inductive, PTL

(* The refinement, step by step.  A call that resolves tells; the ledger    *)
(* that closes applies or drops; everything else is a stutter.              *)
LEMMA InitKeepsPromise == Init => Promise!Init
  BY DEF Init, Promise!Init, Told

LEMMA FinishTells ==
  ASSUME IInv, NEW c \in Calls, FinishStep(c)
  PROVE  Promise!Next
<1>1. PICK code \in Results \ {"none"} :
        /\ Finish(c, code)
        /\ code = "success" => fate[Env[c]] = "applied"
        /\ code \notin {"success", "NETWORK_UNAVAILABLE", "SUBMISSION_FAILED"} => Hopeless(c)
  BY DEF FinishStep
<1>2. /\ result[c] = "none" /\ result' = [result EXCEPT ![c] = code]
      /\ result \in [Calls -> Results] /\ fate' = fate /\ credit' = credit
  BY <1>1 DEF FinishStep, Finish, ledgerVars, IInv, TypeOK, CallInv
<1> DEFINE verdict == Told(c)'
           told == [d \in Calls |-> Told(d)]
<1>3. /\ verdict \in Promise!Verdicts
      /\ verdict = "success" => code = "success"
      /\ verdict = "rejected" => code \notin {"success", "NETWORK_UNAVAILABLE", "SUBMISSION_FAILED"}
      /\ Told(c) = "nothing"
      /\ \A d \in Calls \ {c} : Told(d)' = Told(d)
  BY <1>2 DEF Told, Promise!Verdicts
<1>4. [d \in Calls |-> Told(d)'] = [told EXCEPT ![c] = verdict]
  BY <1>3
<1>5. told[c] = "nothing"
  BY <1>3
<1>6. /\ verdict = "success" => fate[Env[c]] = "applied"
      /\ verdict = "rejected" => c \notin credit[Env[c]]
  BY <1>1, <1>3 DEF Hopeless
<1> HIDE DEF verdict
<1>7. Promise!Tell(c, verdict)
  BY <1>2, <1>4, <1>5, <1>6 DEF Promise!Tell
<1> QED BY <1>3, <1>7 DEF Promise!Next

LEMMA ToldStays ==
  ASSUME result' = result
  PROVE  [c \in Calls |-> Told(c)]' = [c \in Calls |-> Told(c)]
  BY DEF Told

LEMMA CloseApplies ==
  ASSUME IInv, NEW e \in Envelopes, Close(e)
  PROVE  [Promise!Next]_Promise!vars
<1> DEFINE told == [c \in Calls |-> Told(c)]
           carriers == {r[1] : r \in RequestsOf(e)}
<1>1. result' = result
  BY CloseFacts
<1>2. told' = told
  BY <1>1, ToldStays
<1>3. CASE UNCHANGED <<answer, lastSequence, fate, credit>>
  BY <1>2, <1>3 DEF Promise!vars
<1>4. CASE InTurn(e) /\ Fails(e)
  <2>1. Promise!Drop(e)
    BY <1>2, <1>4, InTurnIsOpen DEF Fails, Promise!Drop
  <2> QED BY <2>1 DEF Promise!Next
<1>5. CASE InTurn(e) /\ Applies(e)
  <2>1. fate[e] = "open"
    BY <1>5, InTurnIsOpen
  <2>2. ASSUME NEW c \in carriers
        PROVE  c \in Calls /\ Env[c] = e /\ told[c] \in {"nothing", "unknown"}
    <3>1. PICK r \in RequestsOf(e) : c = r[1]
      OBVIOUS
    <3>2. c \in Calls /\ Env[c] = e /\ Requests(c) = {r}
      BY <3>1, CloseFacts
    <3>3. Told(c) # "success" /\ Told(c) # "rejected"
      BY <2>1, <3>2 DEF IInv, ToldInv, Hopeless
    <3>4. Told(c) \in {"nothing", "success", "unknown", "rejected"}
      BY DEF Told
    <3> QED BY <3>2, <3>3, <3>4
  <2>3. carriers \in SUBSET {c \in Calls : Env[c] = e /\ told[c] \in {"nothing", "unknown"}}
    BY <2>2
  <2>4. credit' = [credit EXCEPT ![e] = carriers] /\ fate' = [fate EXCEPT ![e] = "applied"]
    BY <1>5 DEF Applies
  <2> HIDE DEF carriers
  <2>5. Promise!Apply(e)
    BY <1>2, <2>1, <2>3, <2>4 DEF Promise!Apply
  <2> QED BY <2>5 DEF Promise!Next
<1> QED BY <1>3, <1>4, <1>5, CloseCases

LEMMA NextKeepsPromise ==
  ASSUME IInv, [Next]_vars
  PROVE  [Promise!Next]_Promise!vars
<1>1. CASE \E c \in Calls : Call(c) \/ CallStep(c) \/ Verify(c)
  <2>1. PICK c \in Calls : FinishStep(c) \/ BroadcastStep(c) \/ HoldStep(c)
    BY <1>1, CallSteps
  <2>2. CASE FinishStep(c)
    BY <2>2, FinishTells
  <2>3. CASE BroadcastStep(c) \/ HoldStep(c)
    <3>1. UNCHANGED <<result, fate, credit>>
      BY <2>3 DEF BroadcastStep, Broadcast, HoldStep, ledgerVars
    <3> QED BY <3>1, ToldStays DEF Promise!vars
  <2> QED BY <2>1, <2>2, <2>3
<1>2. CASE \E e \in Envelopes : Close(e)
  BY <1>2, CloseApplies
<1>3. CASE \/ \E r \in wire : Deliver(r) \/ Lose(r)
           \/ \E r \in pool : GatewayTimeout(r)
           \/ Tick \/ UNCHANGED vars
  <2>1. UNCHANGED <<result, fate, credit>>
    BY <1>3 DEF Deliver, Lose, GatewayTimeout, Tick, vars, callVars, ledgerVars
  <2> QED BY <2>1, ToldStays DEF Promise!vars
<1> QED BY <1>1, <1>2, <1>3 DEF Next

(* Whatever the network loses, delays or answers late: success is said only *)
(* of an applied envelope, a rejected call never gets its envelope applied, *)
(* and no envelope is applied twice.                                        *)
THEOREM PromiseKept == Spec => KeepsPromise
<1>1. Init => Promise!Init
  BY InitKeepsPromise
<1>2. IInv /\ [Next]_vars => [Promise!Next]_Promise!vars
  BY NextKeepsPromise
<1> QED BY <1>1, <1>2, Inductive, PTL DEF Spec, KeepsPromise, Promise!Spec

-----------------------------------------------------------------------------
(* Only an attempt broadcasts, and a gated attempt has passed the gate.     *)
LEMMA OnlyAttemptsBroadcast ==
  ASSUME IInv, [Next]_vars, NEW c \in Calls, sends'[c] > sends[c]
  PROVE  ~IsGated(c) \/ PassesGate(c)
<1>1. sends[c] \in Nat /\ ~(sends[c] > sends[c])
  BY DEF IInv, TypeOK
<1>2. sends' # sends
  BY <1>1
<1>3. PICK d \in Calls : Call(d) \/ Reloaded(d)
  BY <1>2 DEF Next, CallStep, Receive, GiveUp, ReloadFails, Verify, Settle, Refuse, Deliver, Lose,
              GatewayTimeout, Close, Tick, vars, callVars
<1>4. (~IsGated(d) \/ PassesGate(d)) /\ Broadcast(d)
  BY <1>2, <1>3 DEF Call, Reloaded, Attempt, Refuse
<1>5. d = c
  BY <1>1, <1>4 DEF Broadcast, IInv, TypeOK
<1> QED BY <1>4, <1>5

(* What the gate allows without a clock override is allowed at this hour.   *)
LEMMA GateLooksAtTheClock ==
  ASSUME NEW c \in Calls, PassesGate(c), Now[c] = Unset, NEW rule \in EnabledRules(PolicySet),
         rule.allowedHours # Unset
  PROVE  IsActionWithinAllowedHours(rule.allowedHours, clock)
<1> DEFINE details == DeriveTransactionDetails(c)
<1>1. details.timestamp = Unset
  BY DEF DeriveTransactionDetails
<1>2. EvaluationDate(details, clock) = clock /\ Allows(PolicySet, details, clock)
  BY <1>1 DEF EvaluationDate, PassesGate
<1> HIDE DEF details
<1>3. FailedChecks(rule, details, clock) = {}
  BY <1>2 DEF Allows, FailedRules
<1> QED BY <1>3 DEF FailedChecks

(* No broadcast of a gated call leaves outside the hours of the policy, not *)
(* even the retry of one that was inside them.                              *)
THEOREM BroadcastsInTime == Spec => BroadcastsWithinHours
<1>1. IInv /\ [Next]_vars =>
        [\A c \in Calls :
           (sends'[c] > sends[c] /\ IsGated(c) /\ Now[c] = Unset) =>
             \A rule \in EnabledRules(PolicySet) :
               rule.allowedHours # Unset => IsActionWithinAllowedHours(rule.allowedHours, clock)]_vars
  BY OnlyAttemptsBroadcast, GateLooksAtTheClock
<1> QED BY <1>1, Inductive, PTL DEF Spec, BroadcastsWithinHours

-----------------------------------------------------------------------------
(* Policy. *)

-----------------------------------------------------------------------------
(* Rules: what a call of the builder and an import make of one.            *)

LEMMA Unlike ==
  /\ Unset \notin Int /\ Unset # TRUE /\ Unset # FALSE
  /\ Unset # "empty" /\ Unset # "listed" /\ Unset # "unreadable"
  BY PolicyAssumption

Clean(conditions) ==
  \A f \in Recipients : conditions[f] # Unset =>
    {Trimmed(a) : a \in conditions[f]} = conditions[f]

LEMMA NamesOfFamilies ==
  /\ "MAX_AMOUNT" \in Amount /\ "MIN_AMOUNT" \in Amount
  /\ Amount \union Budgets \union Recipients \union AssetLists \union {"TIME_WINDOW"} = Families
  /\ \A f \in Recipients : f \notin Amount \union Budgets \union AssetLists \union {"TIME_WINDOW"}
  /\ \A f \in AssetLists \union {"TIME_WINDOW"} : f \notin Amount \union Budgets
  BY DEF Families, Amount, Budgets, AssetLists, Recipients, Lists

LEMMA TrimmedTwice ==
  ASSUME NEW a
  PROVE  Trimmed(Trimmed(a)) = Trimmed(a)
  BY DEF Trimmed

LEMMA TrimmedAddress ==
  ASSUME NEW a, IsAddress(a), a # Blank
  PROVE  /\ IsAddress(Trimmed(a)) /\ Trimmed(a) # Blank
         /\ Trimmed(a) = [account |-> a.account, spelling |-> "exact"]
<1>1. Trimmed(a) = [account |-> a.account, spelling |-> "exact"]
  BY DEF IsAddress, Trimmed
<1> QED BY <1>1 DEF IsAddress

LEMMA TrimmedSet ==
  ASSUME NEW S
  PROVE  LET T == {Trimmed(a) : a \in S} IN {Trimmed(a) : a \in T} = T
  BY TrimmedTwice

LEMMA CleanRule ==
  ASSUME NEW rule, IsRule(rule)
  PROVE  TrimmedRecipients(rule) = rule <=> Clean(rule.conditions)
<1> DEFINE after == [f \in Families |->
      IF f \in Recipients /\ rule.conditions[f] # Unset
      THEN {Trimmed(a) : a \in rule.conditions[f]} ELSE rule.conditions[f]]
<1>1. TrimmedRecipients(rule) = [rule EXCEPT !.conditions = after]
  BY DEF TrimmedRecipients
<1>2. TrimmedRecipients(rule).conditions = after
  BY <1>1 DEF IsRule
<1>3. rule.conditions = [f \in Families |-> rule.conditions[f]]
  BY DEF IsRule
<1>4. ASSUME after = rule.conditions PROVE TrimmedRecipients(rule) = rule
  <2>1. [rule EXCEPT !.conditions = rule.conditions] = rule
    BY DEF IsRule
  <2> QED BY <1>1, <1>4, <2>1
<1>5. after = rule.conditions <=> \A f \in Families : after[f] = rule.conditions[f]
  BY <1>3
<1>6. Recipients \subseteq Families
  BY DEF Recipients, Families, Lists
<1>7. after = rule.conditions <=> Clean(rule.conditions)
  BY <1>5, <1>6 DEF Clean
<1> QED BY <1>2, <1>4, <1>7

LEMMA TrimmedRule ==
  ASSUME NEW config, IsRule(config), PolicyConfigValid(config)
  PROVE  /\ IsRule(TrimmedRecipients(config))
         /\ PolicyConfigValid(TrimmedRecipients(config))
         /\ TrimmedRecipients(TrimmedRecipients(config)) = TrimmedRecipients(config)
<1> DEFINE rule == TrimmedRecipients(config)
           kept == Families \ Recipients
<1> DEFINE after == [f \in Families |->
      IF f \in Recipients /\ config.conditions[f] # Unset
      THEN {Trimmed(a) : a \in config.conditions[f]} ELSE config.conditions[f]]
<1>1. rule = [config EXCEPT !.conditions = after]
  BY DEF TrimmedRecipients
<1>2. /\ rule = [type |-> rule.type, agentId |-> rule.agentId, enabled |-> rule.enabled,
                 conditions |-> [f \in Families |-> rule.conditions[f]],
                 asset |-> rule.asset, allowedHours |-> rule.allowedHours,
                 requiresApproval |-> rule.requiresApproval,
                 requiredSignatures |-> rule.requiredSignatures]
      /\ \A f \in Families : rule.conditions[f] =
           IF f \in Recipients /\ config.conditions[f] # Unset
           THEN {Trimmed(a) : a \in config.conditions[f]} ELSE config.conditions[f]
      /\ rule.asset = config.asset /\ rule.allowedHours = config.allowedHours
      /\ rule.requiredSignatures = config.requiredSignatures
  <2>1. rule = [type |-> config.type, agentId |-> config.agentId, enabled |-> config.enabled,
                conditions |-> after, asset |-> config.asset, allowedHours |-> config.allowedHours,
                requiresApproval |-> config.requiresApproval,
                requiredSignatures |-> config.requiredSignatures]
    <3> HIDE DEF rule, after
    <3> QED BY <1>1 DEF IsRule
  <2>2. after = [f \in Families |-> after[f]]
    OBVIOUS
  <2>3. rule.conditions = after
    BY <2>1
  <2> HIDE DEF rule
  <2>4. \A f \in Families : after[f] =
          IF f \in Recipients /\ config.conditions[f] # Unset
          THEN {Trimmed(a) : a \in config.conditions[f]} ELSE config.conditions[f]
    OBVIOUS
  <2> HIDE DEF after
  <2>5. rule = [type |-> rule.type, agentId |-> rule.agentId, enabled |-> rule.enabled,
                conditions |-> [f \in Families |-> rule.conditions[f]],
                asset |-> rule.asset, allowedHours |-> rule.allowedHours,
                requiresApproval |-> rule.requiresApproval,
                requiredSignatures |-> rule.requiredSignatures]
    BY <2>1, <2>2, <2>3
  <2> QED BY <2>1, <2>3, <2>4, <2>5
<1> HIDE DEF rule, after
<1>3. /\ Recipients \subseteq Families
      /\ Amount \union Budgets \union AssetLists \union {"TIME_WINDOW"} \subseteq kept
      /\ "MAX_AMOUNT" \in kept /\ "MIN_AMOUNT" \in kept /\ "TIME_WINDOW" \in kept
  BY DEF Families, Amount, Budgets, AssetLists, Recipients, Lists
<1>4. \A f \in kept : rule.conditions[f] = config.conditions[f]
  BY <1>2
<1>5. \A f \in Recipients : rule.conditions[f] # Unset =>
        /\ config.conditions[f] # Unset
        /\ rule.conditions[f] = {Trimmed(a) : a \in config.conditions[f]}
  BY <1>2, <1>3
<1>6. \A f \in Recipients : rule.conditions[f] # Unset =>
        \A a \in rule.conditions[f] : IsAddress(a) /\ a # Blank
  <2> SUFFICES ASSUME NEW f \in Recipients, rule.conditions[f] # Unset, NEW a \in rule.conditions[f]
               PROVE  IsAddress(a) /\ a # Blank
    OBVIOUS
  <2>1. PICK b \in config.conditions[f] : a = Trimmed(b)
    BY <1>5
  <2>2. IsAddress(b) /\ b # Blank
    BY <1>5 DEF IsRule, PolicyConfigValid, RecipientsValid, IsValidPolicyAddress
  <2> QED BY <2>1, <2>2, TrimmedAddress
<1>7. IsRule(rule)
  <2>1. \A f \in Amount \union Budgets : rule.conditions[f] \in Optional(LimitValues)
    BY <1>3, <1>4 DEF IsRule
  <2>2. rule.requiredSignatures \in Optional(Int)
    BY <1>2 DEF IsRule
  <2> QED BY <1>2, <1>6, <2>1, <2>2 DEF IsRule
<1>8. PolicyConfigValid(rule)
  <2>1. LimitsValid(rule.conditions)
    BY <1>3, <1>4 DEF PolicyConfigValid, LimitsValid
  <2>2. AssetsValid(rule)
    <3>1. {rule.conditions[f] : f \in AssetLists} = {config.conditions[f] : f \in AssetLists}
      BY <1>3, <1>4
    <3> QED BY <1>2, <3>1 DEF PolicyConfigValid, AssetsValid
  <2>3. RecipientsValid(rule.conditions)
    BY <1>6 DEF RecipientsValid, IsValidPolicyAddress
  <2>4. TimesValid(rule)
    BY <1>2, <1>3, <1>4 DEF PolicyConfigValid, TimesValid
  <2> QED BY <1>2, <2>1, <2>2, <2>3, <2>4 DEF PolicyConfigValid
<1>9. Clean(rule.conditions)
  BY <1>5, TrimmedSet DEF Clean
<1> QED BY <1>7, <1>8, <1>9, CleanRule DEF rule

\* Trimming the strings of a time window leaves all else of a rule alone.
LEMMA WindowRule ==
  ASSUME NEW config, IsRule(config)
  PROVE  /\ IsRule(TrimmedWindow(config))
         /\ PolicyConfigValid(config) => PolicyConfigValid(TrimmedWindow(config))
         /\ Clean(TrimmedWindow(config).conditions) <=> Clean(config.conditions)
         /\ TrimmedWindow(TrimmedWindow(config)) = TrimmedWindow(config)
<1> DEFINE window == config.conditions["TIME_WINDOW"]
           exact == IF window = Unset THEN Unset
                    ELSE [start |-> window.start, end |-> window.end, exact |-> TRUE]
           after == [config.conditions EXCEPT !["TIME_WINDOW"] = exact]
           rule == TrimmedWindow(config)
<1>1. rule = [type |-> config.type, agentId |-> config.agentId, enabled |-> config.enabled,
              conditions |-> after, asset |-> config.asset, allowedHours |-> config.allowedHours,
              requiresApproval |-> config.requiresApproval,
              requiredSignatures |-> config.requiredSignatures]
  <2>1. rule = [config EXCEPT !.conditions = after]
    BY DEF TrimmedWindow
  <2> HIDE DEF rule, after
  <2> QED BY <2>1 DEF IsRule
<1>2. config.conditions = [f \in Families |-> config.conditions[f]]
  BY DEF IsRule
<1>3. /\ after = [f \in Families |-> after[f]]
      /\ after["TIME_WINDOW"] = exact
      /\ \A f \in Families \ {"TIME_WINDOW"} : after[f] = config.conditions[f]
  BY <1>2, NamesOfFamilies
<1>4. /\ exact # Unset => window # Unset /\ exact.start = window.start /\ exact.end = window.end
      /\ exact = IF exact = Unset THEN Unset
                 ELSE [start |-> exact.start, end |-> exact.end, exact |-> TRUE]
  OBVIOUS
<1> HIDE DEF rule, after, exact
<1>5. \A f \in Amount \union Budgets \union Recipients \union AssetLists : after[f] = config.conditions[f]
  BY <1>3, NamesOfFamilies DEF AssetLists
<1>6. /\ rule.conditions = after /\ rule.asset = config.asset
      /\ rule.allowedHours = config.allowedHours
      /\ rule.requiredSignatures = config.requiredSignatures
  BY <1>1
<1>7. IsRule(rule)
  <2>1. rule = [type |-> rule.type, agentId |-> rule.agentId, enabled |-> rule.enabled,
                conditions |-> [f \in Families |-> rule.conditions[f]],
                asset |-> rule.asset, allowedHours |-> rule.allowedHours,
                requiresApproval |-> rule.requiresApproval,
                requiredSignatures |-> rule.requiredSignatures]
    BY <1>1, <1>3
  <2> QED BY <1>5, <1>6, <2>1 DEF IsRule
<1>8. ASSUME PolicyConfigValid(config) PROVE PolicyConfigValid(rule)
  <2>1. LimitsValid(rule.conditions)
    BY <1>5, <1>6, <1>8, NamesOfFamilies DEF PolicyConfigValid, LimitsValid
  <2>2. AssetsValid(rule)
    <3>1. {rule.conditions[f] : f \in AssetLists} = {config.conditions[f] : f \in AssetLists}
      BY <1>5, <1>6
    <3> QED BY <1>6, <1>8, <3>1 DEF PolicyConfigValid, AssetsValid
  <2>3. RecipientsValid(rule.conditions)
    BY <1>5, <1>6, <1>8 DEF PolicyConfigValid, RecipientsValid
  <2>4. TimesValid(rule)
    BY <1>3, <1>4, <1>6, <1>8 DEF PolicyConfigValid, TimesValid
  <2> QED BY <1>6, <1>8, <2>1, <2>2, <2>3, <2>4 DEF PolicyConfigValid
<1>9. Clean(rule.conditions) <=> Clean(config.conditions)
  BY <1>5, <1>6 DEF Clean
<1>10. TrimmedWindow(rule) = rule
  <2>1. TrimmedWindow(rule) = [rule EXCEPT !.conditions = [after EXCEPT !["TIME_WINDOW"] = after["TIME_WINDOW"]]]
    BY <1>3, <1>4, <1>6 DEF TrimmedWindow
  <2>2. [after EXCEPT !["TIME_WINDOW"] = after["TIME_WINDOW"]] = after
    BY <1>3
  <2>3. [rule EXCEPT !.conditions = after] = rule
    BY <1>1
  <2> QED BY <2>1, <2>2, <2>3
<1> QED BY <1>7, <1>8, <1>9, <1>10 DEF rule

\* Trimming the recipients leaves the time window alone.
LEMMA TrimmedWindowStays ==
  ASSUME NEW rule, IsRule(rule), TrimmedWindow(rule) = rule
  PROVE  TrimmedWindow(TrimmedRecipients(rule)) = TrimmedRecipients(rule)
<1> DEFINE trimmed == TrimmedRecipients(rule)
           after == [f \in Families |->
             IF f \in Recipients /\ rule.conditions[f] # Unset
             THEN {Trimmed(a) : a \in rule.conditions[f]} ELSE rule.conditions[f]]
           Exact(window) == [start |-> window.start, end |-> window.end, exact |-> TRUE]
           Fixed(window) == IF window = Unset THEN Unset ELSE Exact(window)
<1>1. trimmed = [type |-> rule.type, agentId |-> rule.agentId, enabled |-> rule.enabled,
                 conditions |-> after, asset |-> rule.asset, allowedHours |-> rule.allowedHours,
                 requiresApproval |-> rule.requiresApproval,
                 requiredSignatures |-> rule.requiredSignatures]
  <2>1. trimmed = [rule EXCEPT !.conditions = after]
    BY DEF TrimmedRecipients
  <2> HIDE DEF trimmed, after
  <2> QED BY <2>1 DEF IsRule
<1>2. after["TIME_WINDOW"] = rule.conditions["TIME_WINDOW"]
  BY NamesOfFamilies
<1>3. rule.conditions["TIME_WINDOW"] = Fixed(rule.conditions["TIME_WINDOW"])
  <2> DEFINE fixed == [rule.conditions EXCEPT !["TIME_WINDOW"] = Fixed(rule.conditions["TIME_WINDOW"])]
  <2>1. rule = [rule EXCEPT !.conditions = fixed]
    BY DEF TrimmedWindow
  <2> HIDE DEF fixed
  <2>2. rule.conditions = fixed
    BY <2>1 DEF IsRule
  <2>3. rule.conditions = [f \in Families |-> rule.conditions[f]]
    BY DEF IsRule
  <2> QED BY <2>2, <2>3, NamesOfFamilies DEF fixed
<1>4. after = [f \in Families |-> after[f]]
  OBVIOUS
<1> HIDE DEF trimmed, after
<1>5. TrimmedWindow(trimmed) = [trimmed EXCEPT !.conditions = [after EXCEPT !["TIME_WINDOW"] = Fixed(after["TIME_WINDOW"])]]
  BY <1>1 DEF TrimmedWindow
<1>6. [after EXCEPT !["TIME_WINDOW"] = Fixed(after["TIME_WINDOW"])] = after
  BY <1>2, <1>3, <1>4
<1>7. [trimmed EXCEPT !.conditions = after] = trimmed
  BY <1>1
<1> QED BY <1>5, <1>6, <1>7 DEF trimmed

LEMMA SanitizedWindow ==
  ASSUME NEW config, IsRule(config)
  PROVE  TrimmedWindow(Sanitized(config)) = Sanitized(config)
  BY WindowRule, TrimmedWindowStays DEF Sanitized

LEMMA SanitizedRule ==
  ASSUME NEW config, IsRule(config), PolicyConfigValid(config)
  PROVE  /\ IsRule(Sanitized(config))
         /\ PolicyConfigValid(Sanitized(config))
         /\ TrimmedWindow(Sanitized(config)) = Sanitized(config)
         /\ Sanitized(Sanitized(config)) = Sanitized(config)
<1> DEFINE windowed == TrimmedWindow(config)
<1>1. IsRule(windowed) /\ PolicyConfigValid(windowed) /\ TrimmedWindow(windowed) = windowed
  BY WindowRule
<1> HIDE DEF windowed
<1>2. /\ IsRule(TrimmedRecipients(windowed)) /\ PolicyConfigValid(TrimmedRecipients(windowed))
      /\ TrimmedRecipients(TrimmedRecipients(windowed)) = TrimmedRecipients(windowed)
  BY <1>1, TrimmedRule
<1>3. TrimmedWindow(TrimmedRecipients(windowed)) = TrimmedRecipients(windowed)
  BY <1>1, TrimmedWindowStays
<1> QED BY <1>2, <1>3 DEF Sanitized, windowed

\* A rule with trimmed recipients only changes in the window.
LEMMA CleanIsSanitized ==
  ASSUME NEW rule, IsRule(rule)
  PROVE  Sanitized(rule) = TrimmedWindow(rule) <=> Clean(rule.conditions)
  BY WindowRule, CleanRule DEF Sanitized

-----------------------------------------------------------------------------
(* The invariant: the draft and the published rules are rules, the draft   *)
(* has trimmed recipients and settings that only an import has are unset,  *)
(* and the published rules are consistent.                                 *)

IsDraft(builder) ==
  /\ IsRule(builder)
  /\ builder.asset = Unset /\ builder.allowedHours = Unset
  /\ Clean(builder.conditions)

PolicyInv ==
  /\ IsDraft(draft)
  /\ \A p \in policies : IsRule(p)
  /\ RulesConsistent

LEMMA NewBuilderIsDraft == IsDraft(NewBuilder)
<1>1. \A f \in Families : NewBuilder.conditions[f] = Unset
  BY DEF NewBuilder
<1>2. NewBuilder.conditions = [f \in Families |-> NewBuilder.conditions[f]]
  BY DEF NewBuilder
<1>3. NewBuilder =
        [type |-> NewBuilder.type, agentId |-> NewBuilder.agentId, enabled |-> NewBuilder.enabled,
         conditions |-> NewBuilder.conditions, asset |-> Unset, allowedHours |-> Unset,
         requiresApproval |-> NewBuilder.requiresApproval, requiredSignatures |-> Unset]
  BY DEF NewBuilder
<1>4. NewBuilder.asset = Unset /\ NewBuilder.allowedHours = Unset /\ NewBuilder.requiredSignatures = Unset
  BY DEF NewBuilder
<1>5. IsRule(NewBuilder)
  <2> \A f \in Amount \union Budgets \union Recipients : NewBuilder.conditions[f] = Unset
    BY <1>1, NamesOfFamilies
  <2> QED BY <1>2, <1>3, <1>4 DEF IsRule, Optional
<1>6. Clean(NewBuilder.conditions)
  BY <1>1, NamesOfFamilies DEF Clean
<1> QED BY <1>4, <1>5, <1>6 DEF IsDraft

LEMMA ConditionSet ==
  ASSUME NEW builder, IsDraft(builder), NEW family \in Families, NEW value,
         family \in Amount \union Budgets => value \in LimitValues,
         family \in Recipients =>
           (\A a \in value : IsAddress(a)) /\ {Trimmed(a) : a \in value} = value
  PROVE  IsDraft([builder EXCEPT !.conditions[family] = value])
<1> DEFINE after == [builder.conditions EXCEPT ![family] = value]
           rule == [builder EXCEPT !.conditions[family] = value]
<1>1. rule = [type |-> builder.type, agentId |-> builder.agentId, enabled |-> builder.enabled,
              conditions |-> after, asset |-> builder.asset, allowedHours |-> builder.allowedHours,
              requiresApproval |-> builder.requiresApproval,
              requiredSignatures |-> builder.requiredSignatures]
  <2>1. rule = [builder EXCEPT !.conditions = after]
    OBVIOUS
  <2> HIDE DEF rule, after
  <2> QED BY <2>1 DEF IsDraft, IsRule
<1>2. builder.conditions = [f \in Families |-> builder.conditions[f]]
  BY DEF IsDraft, IsRule
<1>3. /\ after = [f \in Families |-> after[f]]
      /\ after[family] = value
      /\ \A f \in Families \ {family} : after[f] = builder.conditions[f]
  BY <1>2
<1> HIDE DEF rule, after
<1>4. /\ rule.conditions = after /\ rule.requiredSignatures = builder.requiredSignatures
      /\ rule.asset = Unset /\ rule.allowedHours = Unset
  BY <1>1 DEF IsDraft
<1>5. \A f \in Amount \union Budgets : after[f] \in Optional(LimitValues)
  <2> \A f \in Amount \union Budgets : builder.conditions[f] \in Optional(LimitValues)
    BY DEF IsDraft, IsRule
  <2> QED BY <1>3, NamesOfFamilies DEF Optional
<1>6. \A f \in Recipients : after[f] # Unset =>
        (\A a \in after[f] : IsAddress(a)) /\ {Trimmed(a) : a \in after[f]} = after[f]
  <2> \A f \in Recipients : builder.conditions[f] # Unset =>
        /\ \A a \in builder.conditions[f] : IsAddress(a)
        /\ {Trimmed(a) : a \in builder.conditions[f]} = builder.conditions[f]
    BY DEF IsDraft, IsRule, Clean
  <2> QED BY <1>3, NamesOfFamilies
<1>7. rule = [type |-> rule.type, agentId |-> rule.agentId, enabled |-> rule.enabled,
              conditions |-> [f \in Families |-> rule.conditions[f]],
              asset |-> rule.asset, allowedHours |-> rule.allowedHours,
              requiresApproval |-> rule.requiresApproval,
              requiredSignatures |-> rule.requiredSignatures]
  BY <1>1, <1>3, <1>4
<1>8. rule.requiredSignatures \in Optional(Int)
  BY <1>4 DEF IsDraft, IsRule
<1>9. IsRule(rule)
  BY <1>4, <1>5, <1>6, <1>7, <1>8 DEF IsRule
<1> QED BY <1>4, <1>6, <1>9 DEF IsDraft, Clean, rule

\* What the other calls set: all but the conditions, the asset and the hours.
LEMMA SettingsSet ==
  ASSUME NEW builder, IsDraft(builder), NEW rule, NEW count \in Optional(Int),
         NEW type, NEW agentId, NEW enabled, NEW required,
         rule = [type |-> type, agentId |-> agentId, enabled |-> enabled,
                 conditions |-> builder.conditions, asset |-> builder.asset,
                 allowedHours |-> builder.allowedHours,
                 requiresApproval |-> required, requiredSignatures |-> count]
  PROVE  IsDraft(rule)
<1>1. /\ rule.conditions = builder.conditions /\ rule.requiredSignatures = count
      /\ rule.asset = Unset /\ rule.allowedHours = Unset
  BY DEF IsDraft
<1>2. builder.conditions = [f \in Families |-> builder.conditions[f]]
  BY DEF IsDraft, IsRule
<1>3. rule = [type |-> rule.type, agentId |-> rule.agentId, enabled |-> rule.enabled,
              conditions |-> [f \in Families |-> rule.conditions[f]],
              asset |-> rule.asset, allowedHours |-> rule.allowedHours,
              requiresApproval |-> rule.requiresApproval,
              requiredSignatures |-> rule.requiredSignatures]
  BY <1>2
<1>4. /\ \A f \in Amount \union Budgets : rule.conditions[f] \in Optional(LimitValues)
      /\ \A f \in Recipients : rule.conditions[f] # Unset =>
           \A address \in rule.conditions[f] : IsAddress(address)
      /\ Clean(rule.conditions)
  BY <1>1 DEF IsDraft, IsRule
<1>5. IsRule(rule)
  BY <1>1, <1>3, <1>4 DEF IsRule
<1> QED BY <1>1, <1>4, <1>5 DEF IsDraft

LEMMA DraftFields ==
  ASSUME NEW builder, IsDraft(builder)
  PROVE  /\ builder = [type |-> builder.type, agentId |-> builder.agentId, enabled |-> builder.enabled,
                       conditions |-> builder.conditions, asset |-> builder.asset,
                       allowedHours |-> builder.allowedHours,
                       requiresApproval |-> builder.requiresApproval,
                       requiredSignatures |-> builder.requiredSignatures]
         /\ builder.requiredSignatures \in Optional(Int)
<1>1. builder.conditions = [f \in Families |-> builder.conditions[f]]
  BY DEF IsDraft, IsRule
<1> QED BY <1>1 DEF IsDraft, IsRule

LEMMA BuildKeepsDraft ==
  ASSUME PolicyInv, Build
  PROVE  IsDraft(draft') /\ policies' = policies
<1>0. IsDraft(draft)
  BY DEF PolicyInv
<1>1. ASSUME NEW f \in Recipients, NEW addresses \in Addresses, NameRecipients(f, addresses)
      PROVE  IsDraft(draft') /\ policies' = policies
  <2> DEFINE named == {Trimmed(a) : a \in addresses}
             list == Listed(f) \union named
  <2>1. \A a \in named : IsAddress(a) /\ Trimmed(a) = a
    <3> SUFFICES ASSUME NEW b \in addresses PROVE IsAddress(Trimmed(b)) /\ Trimmed(Trimmed(b)) = Trimmed(b)
      OBVIOUS
    <3>1. IsAddress(b) /\ b # Blank
      BY <1>1, PolicyAssumption DEF NameRecipients, IsValidPolicyAddress
    <3> QED BY <3>1, TrimmedAddress, TrimmedTwice
  <2>2. (\A a \in Listed(f) : IsAddress(a)) /\ {Trimmed(a) : a \in Listed(f)} = Listed(f)
    BY <1>0 DEF Listed, IsDraft, IsRule, Clean
  <2>3. (\A a \in list : IsAddress(a)) /\ {Trimmed(a) : a \in list} = list
    BY <2>1, <2>2
  <2>4. draft' = [draft EXCEPT !.conditions[f] = list] /\ policies' = policies
    BY <1>1 DEF NameRecipients, With, Fork
  <2>5. f \in Families /\ f \notin Amount \union Budgets
    BY NamesOfFamilies
  <2> HIDE DEF list
  <2> QED BY <1>0, <2>3, <2>4, <2>5, ConditionSet
<1>2. ASSUME NEW f \in AssetLists, NEW assets \in Assets, NameAssets(f, assets)
      PROVE  IsDraft(draft') /\ policies' = policies
  <2>1. draft' = [draft EXCEPT !.conditions[f] = Listed(f) \union assets] /\ policies' = policies
    BY <1>2 DEF NameAssets, With, Fork
  <2>2. f \in Families /\ f \notin Amount \union Budgets /\ f \notin Recipients
    BY NamesOfFamilies
  <2> QED BY <1>0, <2>1, <2>2, ConditionSet
<1>3. ASSUME NEW f \in Amount \union Budgets, NEW amount \in Amounts, With(f, amount)
      PROVE  IsDraft(draft') /\ policies' = policies
  <2>1. draft' = [draft EXCEPT !.conditions[f] = amount] /\ policies' = policies
    BY <1>3 DEF With, Fork
  <2>2. f \in Families /\ f \notin Recipients /\ amount \in LimitValues
    BY NamesOfFamilies DEF LimitValues
  <2> QED BY <1>0, <2>1, <2>2, ConditionSet
<1>4. ASSUME NEW start \in Times, NEW end \in Times, NEW exact \in BOOLEAN,
             TimeWindow(start, end, exact)
      PROVE  IsDraft(draft') /\ policies' = policies
  <2>1. /\ draft' = [draft EXCEPT !.conditions["TIME_WINDOW"] =
            [start |-> start, end |-> end, exact |-> exact]]
        /\ policies' = policies
    BY <1>4 DEF TimeWindow, With, Fork
  <2>2. /\ "TIME_WINDOW" \in Families /\ "TIME_WINDOW" \notin Amount \union Budgets
        /\ "TIME_WINDOW" \notin Recipients
    BY NamesOfFamilies
  <2> QED BY <1>0, <2>1, <2>2, ConditionSet
<1>5. ASSUME NEW required, NEW count \in Weights, RequireApproval(required, count)
      PROVE  IsDraft(draft') /\ policies' = policies
  <2> DEFINE signatures == IF count = Unset THEN draft.requiredSignatures ELSE count
  <2>1. /\ draft' = [draft EXCEPT !.requiresApproval = required, !.requiredSignatures = signatures]
        /\ policies' = policies
    BY <1>5 DEF RequireApproval, Fork
  <2>2. signatures \in Optional(Int)
    BY <1>0, DraftFields, PolicyAssumption
  <2> HIDE DEF signatures
  <2>3. draft' = [type |-> draft.type, agentId |-> draft.agentId, enabled |-> draft.enabled,
                  conditions |-> draft.conditions, asset |-> draft.asset,
                  allowedHours |-> draft.allowedHours,
                  requiresApproval |-> required, requiredSignatures |-> signatures]
    <3> DEFINE approved == [draft EXCEPT !.requiresApproval = required]
    <3>1. draft' = [approved EXCEPT !.requiredSignatures = signatures]
      BY <2>1
    <3>2. approved = [type |-> draft.type, agentId |-> draft.agentId, enabled |-> draft.enabled,
                      conditions |-> draft.conditions, asset |-> draft.asset,
                      allowedHours |-> draft.allowedHours,
                      requiresApproval |-> required, requiredSignatures |-> draft.requiredSignatures]
      BY <1>0, DraftFields
    <3> HIDE DEF approved
    <3> QED BY <3>1, <3>2
  <2> QED BY <1>0, <2>1, <2>2, <2>3, SettingsSet
<1>6. ASSUME NEW count \in Weights \ {Unset}, RequiredSignatures(count)
      PROVE  IsDraft(draft') /\ policies' = policies
  <2>1. draft' = [draft EXCEPT !.requiredSignatures = count] /\ policies' = policies
    BY <1>6 DEF RequiredSignatures, Fork
  <2>2. draft' = [type |-> draft.type, agentId |-> draft.agentId, enabled |-> draft.enabled,
                  conditions |-> draft.conditions, asset |-> draft.asset,
                  allowedHours |-> draft.allowedHours,
                  requiresApproval |-> draft.requiresApproval, requiredSignatures |-> count]
    BY <1>0, <2>1, DraftFields
  <2>3. count \in Optional(Int)
    BY PolicyAssumption
  <2> QED BY <1>0, <2>1, <2>2, <2>3, SettingsSet
<1>7. ASSUME NEW type, NEW agentId, NEW enabled, Describe(type, agentId, enabled)
      PROVE  IsDraft(draft') /\ policies' = policies
  <2>1. /\ draft' = [draft EXCEPT !.type = type, !.agentId = agentId, !.enabled = enabled]
        /\ policies' = policies
    BY <1>7 DEF Describe, Fork
  <2>2. draft' = [type |-> type, agentId |-> agentId, enabled |-> enabled,
                  conditions |-> draft.conditions, asset |-> draft.asset,
                  allowedHours |-> draft.allowedHours,
                  requiresApproval |-> draft.requiresApproval,
                  requiredSignatures |-> draft.requiredSignatures]
    <3> DEFINE typed == [draft EXCEPT !.type = type]
               owned == [typed EXCEPT !.agentId = agentId]
    <3>1. draft' = [owned EXCEPT !.enabled = enabled]
      BY <2>1
    <3>2. typed = [type |-> type, agentId |-> draft.agentId, enabled |-> draft.enabled,
                   conditions |-> draft.conditions, asset |-> draft.asset,
                   allowedHours |-> draft.allowedHours,
                   requiresApproval |-> draft.requiresApproval,
                   requiredSignatures |-> draft.requiredSignatures]
      BY <1>0, DraftFields
    <3> HIDE DEF typed
    <3>3. owned = [type |-> type, agentId |-> agentId, enabled |-> draft.enabled,
                   conditions |-> draft.conditions, asset |-> draft.asset,
                   allowedHours |-> draft.allowedHours,
                   requiresApproval |-> draft.requiresApproval,
                   requiredSignatures |-> draft.requiredSignatures]
      BY <3>2
    <3> HIDE DEF owned
    <3> QED BY <3>1, <3>3
  <2>3. draft.requiredSignatures \in Optional(Int)
    BY <1>0, DraftFields
  <2>4. IsDraft(draft')
    BY <1>0, <2>2, <2>3, SettingsSet
  <2> QED BY <2>1, <2>4
<1>8. \A amount \in Amounts : MaxAmount(amount) \/ MinAmount(amount) =>
        IsDraft(draft') /\ policies' = policies
  BY <1>3, NamesOfFamilies DEF MaxAmount, MinAmount
<1>9. \A f \in Budgets, amount \in Amounts : Limit(f, amount) =>
        IsDraft(draft') /\ policies' = policies
  BY <1>3 DEF Limit
<1> QED BY <1>1, <1>2, <1>4, <1>5, <1>6, <1>7, <1>8, <1>9 DEF Build

-----------------------------------------------------------------------------
(* A rule that build() hands out is one that an import would accept.       *)

LEMMA BuiltRule ==
  ASSUME NEW builder, IsDraft(builder), PolicyRuleValid(Built(builder))
  PROVE  /\ IsRule(Built(builder))
         /\ PolicyConfigValid(Built(builder)) /\ Sanitized(Built(builder)) = TrimmedWindow(Built(builder))
         /\ Built(builder).requiresApproval = FALSE => Built(builder).requiredSignatures = Unset
<1> DEFINE rule == Built(builder)
<1>1. IsDraft(rule)
  <2> DEFINE type == IF builder.type = Unset THEN InferPolicyType(builder.conditions) ELSE builder.type
  <2>1. rule = [builder EXCEPT !.type = type]
    BY DEF Built
  <2> HIDE DEF type, rule
  <2>2. rule = [type |-> type, agentId |-> builder.agentId, enabled |-> builder.enabled,
                conditions |-> builder.conditions, asset |-> builder.asset,
                allowedHours |-> builder.allowedHours,
                requiresApproval |-> builder.requiresApproval,
                requiredSignatures |-> builder.requiredSignatures]
    BY <2>1, DraftFields
  <2> QED BY <2>2, DraftFields, SettingsSet
<1> HIDE DEF rule
<1>2. PolicyRuleValid(rule)
  BY DEF rule
<1>3. IsRule(rule) /\ rule.asset = Unset /\ rule.allowedHours = Unset
  BY <1>1 DEF IsDraft
<1>4. /\ rule.requiredSignatures # Unset => rule.requiredSignatures > 0 /\ rule.requiresApproval # FALSE
      /\ ValuesValid(rule.conditions)
      /\ ~Below(rule.conditions["MAX_AMOUNT"], rule.conditions["MIN_AMOUNT"])
  BY <1>2 DEF PolicyRuleValid
<1>5. LimitsValid(rule.conditions)
  <2> SUFFICES ASSUME NEW f \in Amount \union Budgets, rule.conditions[f] # Unset
               PROVE  rule.conditions[f] >= 0
    BY <1>4 DEF LimitsValid
  <2>1. rule.conditions[f] \in Int
    BY <1>3, PolicyAssumption DEF IsRule, Optional
  <2>2. rule.conditions[f] > 0
    BY <1>4 DEF ValuesValid, IsPositiveAmount
  <2> QED BY <2>1, <2>2
<1>6. AssetsValid(rule)
  <2> DEFINE lists == {{rule.asset}} \union ({rule.conditions[f] : f \in AssetLists} \ {Unset})
  <2> SUFFICES ASSUME NEW asset \in (UNION lists) \ {Unset}
               PROVE  IsValidPolicyAsset(asset)
    BY DEF AssetsValid
  <2>0. PICK list \in lists : asset \in list
    OBVIOUS
  <2>1. PICK f \in AssetLists : list = rule.conditions[f] /\ list # Unset
    <3>1. asset # Unset /\ rule.asset = Unset
      BY <1>3
    <3>2. list # {rule.asset}
      BY <2>0, <3>1
    <3>3. list \in {rule.conditions[f] : f \in AssetLists} \ {Unset}
      BY <2>0, <3>2
    <3> QED BY <3>3
  <2> QED BY <1>4, <2>0, <2>1 DEF ValuesValid
<1>7. RecipientsValid(rule.conditions)
  BY <1>4 DEF ValuesValid, RecipientsValid
<1>8. TimesValid(rule)
  BY <1>3, <1>4 DEF ValuesValid, TimesValid
<1>9. PolicyConfigValid(rule)
  BY <1>4, <1>5, <1>6, <1>7, <1>8 DEF PolicyConfigValid
<1>10. Sanitized(rule) = TrimmedWindow(rule)
  BY <1>1, CleanIsSanitized DEF IsDraft
<1> QED BY <1>3, <1>4, <1>9, <1>10 DEF rule

-----------------------------------------------------------------------------
(* Every step keeps the invariant.                                         *)

LEMMA PolicyInvInit == PolicyInit => PolicyInv
  BY NewBuilderIsDraft DEF PolicyInit, PolicyInv, RulesConsistent

LEMMA PublishKeeps == PolicyInv /\ Publish => PolicyInv'
<1> SUFFICES ASSUME PolicyInv, Publish PROVE PolicyInv'
  OBVIOUS
<1>1. IsDraft(draft) /\ PolicyRuleValid(Built(draft))
  BY DEF PolicyInv, Publish
<1>2. /\ policies' = policies \union {Built(draft)} /\ draft' = NewBuilder
  BY DEF Publish
<1>3. \A config \in Configs : Built(draft) = Sanitized(config) => Sanitized(Built(draft)) = Built(draft)
  BY <1>1, BuiltRule, SanitizedWindow, PolicyAssumption
<1>4. RulesConsistent'
  BY <1>1, <1>2, <1>3, BuiltRule DEF PolicyInv, RulesConsistent
<1> QED BY <1>1, <1>2, <1>4, BuiltRule, NewBuilderIsDraft DEF PolicyInv

LEMMA ImportKeeps ==
  ASSUME PolicyInv, NEW config \in Configs, Import(config)
  PROVE  PolicyInv'
<1>1. IsRule(config) /\ PolicyConfigValid(config)
  BY PolicyAssumption DEF Import
<1>2. /\ policies' = policies \union {Sanitized(config)} /\ draft' = draft
  BY DEF Import
<1>3. RulesConsistent'
  BY <1>1, <1>2, SanitizedRule DEF PolicyInv, RulesConsistent
<1> QED BY <1>1, <1>2, <1>3, SanitizedRule DEF PolicyInv

LEMMA PolicyInvNext == PolicyInv /\ [PolicyNext]_policyVars => PolicyInv'
<1> SUFFICES ASSUME PolicyInv, [PolicyNext]_policyVars PROVE PolicyInv'
  OBVIOUS
<1>1. CASE Build
  <2>1. IsDraft(draft') /\ policies' = policies
    BY <1>1, BuildKeepsDraft
  <2> QED BY <2>1 DEF PolicyInv, RulesConsistent
<1>2. CASE StartOver
  BY <1>2, NewBuilderIsDraft DEF StartOver, PolicyInv, RulesConsistent
<1>3. CASE Publish
  BY <1>3, PublishKeeps
<1>4. ASSUME NEW config \in Configs, Import(config) PROVE PolicyInv'
  BY <1>4, ImportKeeps
<1>5. CASE UNCHANGED policyVars
  BY <1>5 DEF policyVars, PolicyInv, RulesConsistent
<1> QED BY <1>1, <1>2, <1>3, <1>4, <1>5 DEF PolicyNext

(* In every reachable state the invariant holds.                           *)
THEOREM PolicyInductive == PolicySpec => []PolicyInv
  BY PolicyInvInit, PolicyInvNext, PTL DEF PolicySpec

(* Whatever the order of the builder's calls, the rules that build() hands *)
(* out and the sanitized imports are valid, trimmed, and, where built,     *)
(* without contradicting approval settings.                                *)
THEOREM RulesAreConsistent == PolicySpec => []RulesConsistent
<1>1. PolicyInv => RulesConsistent
  BY DEF PolicyInv
<1> QED BY <1>1, PolicyInductive, PTL

-----------------------------------------------------------------------------
(* The engines.                                                            *)

\* What breaks a rule of a list or of a maximum, in either engine.
LEMMA BreaksOf ==
  ASSUME NEW tx, NEW value
  PROVE  /\ Breaks("MAX_AMOUNT", value, tx) <=> value # Unset /\ tx.amount > value
         /\ Breaks("ALLOWED_RECIPIENTS", value, tx) <=>
              value # Unset /\ value # {} /\ tx.recipientAddress \notin value
         /\ Breaks("BLOCKED_RECIPIENTS", value, tx) <=> value # Unset /\ tx.recipientAddress \in value
         /\ Breaks("ALLOWED_ASSETS", value, tx) <=>
              value # Unset /\ value # {} /\ ~SomeMatches(value, tx.asset)
         /\ Breaks("BLOCKED_ASSETS", value, tx) <=> value # Unset /\ SomeMatches(value, tx.asset)
  BY DEF Breaks, Amount, Budgets

LEMMA SimulatedRule ==
  ASSUME NEW tx, NEW p \in SimulatePolicy(policies, tx)
  PROVE  p \in policies /\ p.enabled /\ p.type \in Evaluators /\ Breaks(p.type, p.conditions[p.type], tx)
  BY DEF SimulatePolicy

\* The limit of a published rule.
LEMMA LimitOf ==
  ASSUME PolicyInv, NEW p \in policies, p.conditions["MAX_AMOUNT"] # Unset
  PROVE  /\ p.conditions["MAX_AMOUNT"] \in LimitValues /\ p.conditions["MAX_AMOUNT"] \in Int
         /\ p.conditions["MAX_AMOUNT"] >= 0
<1>1. p.conditions["MAX_AMOUNT"] \in LimitValues
  BY NamesOfFamilies DEF PolicyInv, IsRule, Optional
<1>2. p.conditions["MAX_AMOUNT"] >= 0
  BY NamesOfFamilies DEF PolicyInv, RulesConsistent, PolicyConfigValid, LimitsValid
<1> QED BY <1>1, <1>2, PolicyAssumption

LEMMA LocalAgrees ==
  ASSUME PolicyInv, NEW tx \in Transactions, NEW p \in SimulatePolicy(policies, tx),
         p.type \in Lists \union {"MAX_AMOUNT"},
         p.type = "MAX_AMOUNT" => p.conditions["MAX_AMOUNT"] \notin {0, ParseFloat(tx.amount)},
         p.type \in AssetLists => \A a \in p.conditions[p.type] : AssetMatches(a, tx.asset) => a = tx.asset,
         tx.recipientAddress # Blank
  PROVE  p \in SimulatePolicyLocal(policies, tx)
<1> DEFINE value == p.conditions[p.type]
<1>1. p \in policies /\ p.enabled
  BY SimulatedRule
<1>2. Breaks(p.type, value, tx)
  BY SimulatedRule
<1> SUFFICES p.type \in LocalBreaks(p, tx)
  BY <1>1 DEF SimulatePolicyLocal
<1>3. CASE p.type = "MAX_AMOUNT"
  <2>1. value # Unset /\ tx.amount > value
    BY <1>2, <1>3, BreaksOf
  <2>2. value \in LimitValues /\ value \in Int /\ value >= 0
    BY <1>1, <1>3, <2>1, LimitOf
  <2>3. value <= ParseFloat(tx.amount)
    <3>1. tx.amount \in Int
      BY PolicyAssumption
    <3>2. value <= tx.amount
      BY <2>1, <2>2, <3>1
    <3> QED BY <2>2, <3>2, RoundingAssumption
  <2>4. value # 0 /\ value # ParseFloat(tx.amount)
    BY <1>3
  <2>5. value > 0 /\ ParseFloat(tx.amount) > value
    <3>1. ParseFloat(tx.amount) \in Int
      BY PolicyAssumption
    <3> QED BY <2>2, <2>3, <2>4, <3>1
  <2> QED BY <1>3, <2>1, <2>5 DEF LocalBreaks
<1>4. CASE p.type = "ALLOWED_RECIPIENTS"
  <2>1. value # Unset /\ value # {} /\ tx.recipientAddress \notin value
    BY <1>2, <1>4, BreaksOf
  <2> QED BY <1>4, <2>1 DEF LocalBreaks, Lists, Recipients
<1>5. CASE p.type = "BLOCKED_RECIPIENTS"
  <2>1. value # Unset /\ tx.recipientAddress \in value
    BY <1>2, <1>5, BreaksOf
  <2> QED BY <1>5, <2>1 DEF LocalBreaks, Lists, Recipients
<1>6. CASE p.type = "ALLOWED_ASSETS"
  <2>1. value # Unset /\ value # {} /\ ~SomeMatches(value, tx.asset)
    BY <1>2, <1>6, BreaksOf
  <2>2. tx.asset \notin value
    BY <2>1 DEF SomeMatches, AssetMatches
  <2> QED BY <1>6, <2>1, <2>2 DEF LocalBreaks, Lists, AssetLists
<1>7. CASE p.type = "BLOCKED_ASSETS"
  <2>1. value # Unset /\ SomeMatches(value, tx.asset)
    BY <1>2, <1>7, BreaksOf
  <2>2. tx.asset \in value
    BY <1>7, <2>1 DEF SomeMatches, AssetLists
  <2> QED BY <1>7, <2>1, <2>2 DEF LocalBreaks, Lists, AssetLists
<1> QED BY <1>3, <1>4, <1>5, <1>6, <1>7 DEF Lists, Recipients, AssetLists

\* The other way: what the local simulator finds in the family of a rule.
LEMMA SimulationAgrees ==
  ASSUME PolicyInv, NEW tx \in Transactions, NEW p \in policies, p.enabled,
         p.type \in LocalBreaks(p, tx), p.type # "ALLOWED_ASSETS"
  PROVE  p \in SimulatePolicy(policies, tx)
<1> DEFINE value == p.conditions[p.type]
<1>1. p.type \in Lists \union {"MAX_AMOUNT"} /\ value # Unset
  BY DEF LocalBreaks
<1>2. p.type \in Evaluators
  BY <1>1 DEF Evaluators, Amount, Lists
<1> SUFFICES Breaks(p.type, value, tx)
  BY <1>2 DEF SimulatePolicy
<1>3. CASE p.type = "MAX_AMOUNT"
  <2>1. ParseFloat(tx.amount) > value
    BY <1>3 DEF LocalBreaks
  <2>2. value \in LimitValues /\ value \in Int
    BY <1>1, <1>3, LimitOf
  <2>3. tx.amount \in Int /\ ParseFloat(tx.amount) \in Int
    BY PolicyAssumption
  <2>4. ~(tx.amount <= value)
    <3>1. tx.amount <= value => ParseFloat(tx.amount) <= value
      BY <2>2, RoundingAssumption
    <3> QED BY <2>1, <2>2, <2>3, <3>1
  <2>5. tx.amount > value
    BY <2>2, <2>3, <2>4
  <2> QED BY <1>1, <1>3, <2>5, BreaksOf
<1>4. CASE p.type = "ALLOWED_RECIPIENTS"
  <2>1. value # {} /\ tx.recipientAddress \notin value
    BY <1>4 DEF LocalBreaks, Lists, Recipients
  <2> QED BY <1>1, <1>4, <2>1, BreaksOf
<1>5. CASE p.type = "BLOCKED_RECIPIENTS"
  <2>1. tx.recipientAddress \in value
    BY <1>5 DEF LocalBreaks, Lists, Recipients
  <2> QED BY <1>1, <1>5, <2>1, BreaksOf
<1>6. CASE p.type = "BLOCKED_ASSETS"
  <2>1. tx.asset \in value
    BY <1>6 DEF LocalBreaks, Lists, AssetLists
  <2>2. SomeMatches(value, tx.asset)
    BY <2>1 DEF SomeMatches, AssetMatches
  <2> QED BY <1>1, <1>6, <2>2, BreaksOf
<1> QED BY <1>1, <1>3, <1>4, <1>5, <1>6 DEF Lists, Recipients, AssetLists

LEMMA ExactAddress ==
  ASSUME NEW a, NEW b, IsAddress(a), IsAddress(b), a # Blank, b # Blank,
         a.spelling = "exact", b.spelling = "exact"
  PROVE  AddressesMatch(a, b) <=> a = b
  BY DEF IsAddress, AddressesMatch, NormalizeAddress

LEMMA RuleAddresses ==
  ASSUME PolicyInv, NEW p \in policies, NEW f \in Recipients, p.conditions[f] # Unset,
         NEW a \in p.conditions[f]
  PROVE  IsAddress(a) /\ a # Blank /\ a.spelling = "exact"
<1>1. IsRule(p) /\ PolicyConfigValid(p) /\ Clean(p.conditions)
  BY CleanIsSanitized DEF PolicyInv, RulesConsistent
<1>2. IsAddress(a) /\ a # Blank
  BY <1>1 DEF IsRule, PolicyConfigValid, RecipientsValid, IsValidPolicyAddress
<1>3. PICK b \in p.conditions[f] : a = Trimmed(b)
  BY <1>1 DEF Clean
<1>4. IsAddress(b) /\ b # Blank
  BY <1>1 DEF IsRule, PolicyConfigValid, RecipientsValid, IsValidPolicyAddress
<1>5. a.spelling = "exact"
  BY <1>3, <1>4, TrimmedAddress
<1> QED BY <1>2, <1>5

LEMMA GateAgrees ==
  ASSUME PolicyInv, NEW tx \in Transactions, NEW p \in SimulatePolicy(policies, tx),
         p.type \in Recipients,
         tx.recipientAddress # Blank => tx.recipientAddress.spelling = "exact"
  PROVE  ~Allows(PolicySetFromPolicies(policies),
                 [recipientAddress |-> tx.recipientAddress, timestamp |-> 0, signedWeight |-> 0], 0)
<1> DEFINE value == p.conditions[p.type]
           to == tx.recipientAddress
           details == [recipientAddress |-> to, timestamp |-> 0, signedWeight |-> 0]
           at == EvaluationDate(details, 0)
           rule == GateRule(p)
<1>1. p \in policies /\ p.enabled
  BY SimulatedRule
<1>2. Breaks(p.type, value, tx)
  BY SimulatedRule
<1>3. rule \in EnabledRules(PolicySetFromPolicies(policies))
  BY <1>1 DEF EnabledRules, PolicySetFromPolicies, GateRule
<1>4. IsAddress(to)
  BY PolicyAssumption
<1> SUFFICES FailedChecks(rule, details, at) # {}
  <2> HIDE DEF rule, details, at
  <2> QED BY <1>3 DEF Allows, FailedRules, at, details
<1>5. details.recipientAddress = to
  OBVIOUS
<1>6. CASE p.type = "ALLOWED_RECIPIENTS"
  <2>1. value # Unset /\ value # {} /\ to \notin value
    BY <1>2, <1>6, BreaksOf
  <2>2. rule.allowedRecipients = value
    BY <1>6, <2>1 DEF GateRule
  <2>3. ~MatchesAny(to, value)
    <3> SUFFICES ASSUME NEW a \in value, AddressesMatch(to, a) PROVE FALSE
      BY DEF MatchesAny
    <3>1. IsAddress(a) /\ a # Blank /\ a.spelling = "exact"
      BY <1>1, <2>1, RuleAddresses
    <3>2. to # Blank
      BY DEF AddressesMatch, NormalizeAddress
    <3>3. to = a
      BY <1>4, <3>1, <3>2, ExactAddress
    <3> QED BY <2>1, <3>3
  <2> HIDE DEF details, rule, value
  <2>4. "allowed" \in FailedChecks(rule, details, at)
    BY <1>5, <2>1, <2>2, <2>3 DEF FailedChecks
  <2> QED BY <2>4
<1>7. CASE p.type = "BLOCKED_RECIPIENTS"
  <2>1. value # Unset /\ to \in value
    BY <1>2, <1>7, BreaksOf
  <2>2. rule.blockedRecipients = value
    BY <1>7, <2>1 DEF GateRule
  <2>3. MatchesAny(to, value)
    <3>1. to # Blank /\ to.spelling = "exact"
      BY <1>1, <2>1, RuleAddresses
    <3>2. AddressesMatch(to, to)
      BY <1>4, <3>1, ExactAddress
    <3> QED BY <2>1, <3>2 DEF MatchesAny
  <2> HIDE DEF details, rule, value
  <2>4. "blocked" \in FailedChecks(rule, details, at)
    BY <1>5, <2>2, <2>3 DEF FailedChecks
  <2> QED BY <2>4
<1> QED BY <1>6, <1>7 DEF Recipients

(* Selecting the rules of a payment's scope keeps those that refuse it but *)
(* those of other agents, and those with an asset or a list of allowed     *)
(* assets of their own.                                                    *)
LEMMA SelectionKeeps ==
  ASSUME NEW tx, NEW agent, NEW p \in SimulatePolicy(policies, tx),
         p.agentId \in {Unset, agent}, p.asset = Unset, p.conditions["ALLOWED_ASSETS"] = Unset
  PROVE  p \in MatchPolicies(policies, [agentId |-> agent, asset |-> tx.asset])
BY DEF SimulatePolicy, MatchPolicies, MatchesPolicyScope, MatchesAsset

(* Whatever rules are published, the local simulator and the gate refuse   *)
(* what simulatePolicy() refuses, and the other way round, but for the     *)
(* differences EnginesAgree names: a maximum of 0, an amount within the    *)
(* rounding of a maximum, assets spelled apart, missing recipients, and    *)
(* the families the local one does not look at; and selecting rules by     *)
(* scope loses no refusal but those EnginesAgree names.                    *)
THEOREM EnginesDoAgree == PolicySpec => []EnginesAgree
<1>1. PolicyInv => EnginesAgree
  <2> SUFFICES ASSUME PolicyInv, NEW tx \in Transactions
               PROVE  /\ \A p \in SimulatePolicy(policies, tx) :
                           /\ ( /\ p.type \in Lists \union {"MAX_AMOUNT"}
                                /\ p.type = "MAX_AMOUNT" => p.conditions["MAX_AMOUNT"] \notin {0, ParseFloat(tx.amount)}
                                /\ p.type \in AssetLists =>
                                     \A a \in p.conditions[p.type] : AssetMatches(a, tx.asset) => a = tx.asset
                                /\ tx.recipientAddress # Blank )
                              => p \in SimulatePolicyLocal(policies, tx)
                           /\ (p.type \in Recipients /\ (tx.recipientAddress # Blank => tx.recipientAddress.spelling = "exact"))
                              => ~Allows(PolicySetFromPolicies(policies),
                                         [recipientAddress |-> tx.recipientAddress, timestamp |-> 0, signedWeight |-> 0], 0)
                      /\ \A p \in SimulatePolicyLocal(policies, tx) :
                           p.type \in LocalBreaks(p, tx) \ {"ALLOWED_ASSETS"} => p \in SimulatePolicy(policies, tx)
    BY SelectionKeeps DEF EnginesAgree
  <2>1. \A p \in SimulatePolicyLocal(policies, tx) : p \in policies /\ p.enabled
    BY DEF SimulatePolicyLocal
  <2> QED BY <2>1, LocalAgrees, GateAgrees, SimulationAgrees
<1> QED BY <1>1, PolicyInductive, PTL

-----------------------------------------------------------------------------
(* The readers of a server's answer.                                       *)

LEMMA FirstOfTwo ==
  ASSUME NEW a, NEW b
  PROVE  FirstOf(<<a, b>>) = IF a # Unset THEN a ELSE b
<1> DEFINE pair == <<a, b>>
           given == {i \in DOMAIN pair : pair[i] # Unset}
<1>1. DOMAIN pair = {1, 2} /\ pair[1] = a /\ pair[2] = b
  OBVIOUS
<1>2. FirstOf(pair) = IF given = {} THEN Unset ELSE pair[CHOOSE i \in given : \A j \in given : i <= j]
  BY DEF FirstOf
<1> HIDE DEF pair
<1>3. CASE a # Unset
  <2>1. 1 \in given /\ \A j \in given : 1 <= j
    BY <1>1, <1>3
  <2>2. \A i \in given : (\A j \in given : i <= j) => i = 1
    BY <1>1, <2>1
  <2> HIDE DEF given
  <2>3. (CHOOSE i \in given : \A j \in given : i <= j) = 1
    BY <2>1, <2>2
  <2> QED BY <1>1, <1>2, <1>3, <2>1, <2>3 DEF pair
<1>4. CASE a = Unset /\ b # Unset
  <2>1. given = {2}
    BY <1>1, <1>4
  <2> HIDE DEF given
  <2>2. (CHOOSE i \in given : \A j \in given : i <= j) = 2
    BY <2>1
  <2> QED BY <1>1, <1>2, <1>4, <2>1, <2>2 DEF pair
<1>5. CASE a = Unset /\ b = Unset
  BY <1>1, <1>2, <1>5 DEF pair
<1> QED BY <1>3, <1>4, <1>5

LEMMA FirstOfThree ==
  ASSUME NEW a, NEW b, NEW c
  PROVE  FirstOf(<<a, b, c>>) = IF a # Unset THEN a ELSE IF b # Unset THEN b ELSE c
<1> DEFINE triple == <<a, b, c>>
           given == {i \in DOMAIN triple : triple[i] # Unset}
           first == CHOOSE i \in given : \A j \in given : i <= j
<1>1. DOMAIN triple = {1, 2, 3} /\ triple[1] = a /\ triple[2] = b /\ triple[3] = c
  OBVIOUS
<1>2. FirstOf(triple) = IF given = {} THEN Unset ELSE triple[first]
  BY DEF FirstOf
<1> HIDE DEF triple
<1>3. ASSUME NEW i \in given, \A j \in given : i <= j PROVE FirstOf(triple) = triple[i]
  <2>1. given \subseteq Int
    BY <1>1
  <2> HIDE DEF given
  <2>2. \A k \in given : (\A j \in given : k <= j) => k = i
    BY <1>3, <2>1
  <2>3. first = i
    BY <1>3, <2>2
  <2> QED BY <1>2, <2>3
<1>4. CASE a # Unset
  <2>1. 1 \in given /\ \A j \in given : 1 <= j
    BY <1>1, <1>4
  <2> QED BY <1>1, <1>3, <1>4, <2>1 DEF triple
<1>5. CASE a = Unset /\ b # Unset
  <2>1. 2 \in given /\ \A j \in given : 2 <= j
    BY <1>1, <1>5
  <2> QED BY <1>1, <1>3, <1>5, <2>1 DEF triple
<1>6. CASE a = Unset /\ b = Unset /\ c # Unset
  <2>1. 3 \in given /\ \A j \in given : 3 <= j
    BY <1>1, <1>6
  <2> QED BY <1>1, <1>3, <1>6, <2>1 DEF triple
<1>7. CASE a = Unset /\ b = Unset /\ c = Unset
  BY <1>1, <1>2, <1>7 DEF triple
<1> QED BY <1>4, <1>5, <1>6, <1>7

(* However a server phrases its answer, its readers take a refusal for a   *)
(* refusal and a permission for a permission, but for the answers that     *)
(* parseSimulationResult() makes nothing of.                               *)
THEOREM AnswersAreReadRight == PolicySpec => []AnswersAreRead
<1>1. ASSUME NEW fields \in SUBSET Fields \ {{}}, NEW violations, NEW list \in {"listed", "unreadable"}
      PROVE  LET raw == Answer(fields, violations, list)
                 verdict == Reading(violations = {})
             IN /\ ToPolicyEvaluationOutcome(raw) =
                     IF fields \subseteq {"success", "failed"} THEN "malformed" ELSE verdict
                /\ ToPolicySimulationEvaluation(raw) \in {verdict, "malformed"}
                /\ ( \/ fields \intersect {"allowed", "passed", "success"} # {}
                     \/ "violations" \in fields /\ list = "listed" )
                   => ParseSimulationResult(raw) = verdict
  <2> DEFINE raw == Answer(fields, violations, list)
             fine == violations = {}
  <2>1. /\ fine \in BOOLEAN
        /\ raw.allowed = IF "allowed" \in fields THEN fine ELSE Unset
        /\ raw.passed = IF "passed" \in fields THEN fine ELSE Unset
        /\ raw.success = IF "success" \in fields THEN fine ELSE Unset
        /\ raw.denied = IF "denied" \in fields THEN ~fine ELSE Unset
        /\ raw.violations = IF "violations" \in fields
                            THEN IF fine THEN "empty" ELSE list ELSE Unset
    BY DEF Answer
  <2>2. /\ FirstOf(<<raw.allowed, raw.passed>>) = IF raw.allowed # Unset THEN raw.allowed ELSE raw.passed
        /\ FirstOf(<<raw.passed, raw.success, raw.allowed>>) =
             IF raw.passed # Unset THEN raw.passed
             ELSE IF raw.success # Unset THEN raw.success ELSE raw.allowed
    BY FirstOfTwo, FirstOfThree
  <2> HIDE DEF raw, fine
  <2>3. fine # Unset /\ (~fine) # Unset /\ list # Unset /\ list # "empty" /\ Unset # "empty" /\ Unset # "listed"
    BY <2>1, Unlike
  <2>4. CASE "allowed" \in fields \/ "passed" \in fields
    <3>1. /\ FirstOf(<<raw.allowed, raw.passed>>) = fine
          /\ FirstOf(<<raw.passed, raw.success, raw.allowed>>) = fine
      BY <2>1, <2>2, <2>3, <2>4
    <3>2. /\ ToPolicyEvaluationOutcome(raw) = Reading(fine)
          /\ ToPolicySimulationEvaluation(raw) = Reading(fine)
          /\ ParseSimulationResult(raw) = Reading(fine)
      BY <2>3, <3>1 DEF ToPolicyEvaluationOutcome, ToPolicySimulationEvaluation, ParseSimulationResult
    <3>3. ~(fields \subseteq {"success", "failed"})
      BY <2>4
    <3> QED BY <3>2, <3>3 DEF raw, fine
  <2>5. CASE "allowed" \notin fields /\ "passed" \notin fields
    <3>1. /\ FirstOf(<<raw.allowed, raw.passed>>) = Unset
          /\ FirstOf(<<raw.passed, raw.success, raw.allowed>>) = raw.success
      BY <2>1, <2>2, <2>5
    <3>2. /\ fields \subseteq {"success", "failed"} <=> "denied" \notin fields /\ "violations" \notin fields
          /\ fields \intersect {"allowed", "passed", "success"} # {} <=> "success" \in fields
      BY <2>5 DEF Fields
    <3>3. ToPolicyEvaluationOutcome(raw) =
            IF fields \subseteq {"success", "failed"} THEN "malformed" ELSE Reading(fine)
      <4>1. CASE "denied" \in fields
        <5>1. raw.denied = ~fine
          BY <2>1, <4>1
        <5>2. Reading(~raw.denied) = Reading(fine)
          BY <2>1, <5>1 DEF Reading
        <5> QED BY <2>3, <3>1, <3>2, <4>1, <5>1, <5>2 DEF ToPolicyEvaluationOutcome
      <4>2. CASE "denied" \notin fields /\ "violations" \in fields
        <5>1. raw.denied = Unset /\ raw.violations # Unset /\ ((raw.violations = "empty") <=> fine)
          BY <2>1, <2>3, <4>2
        <5>2. Reading(raw.violations = "empty") = Reading(fine)
          BY <5>1 DEF Reading
        <5> QED BY <3>1, <3>2, <4>2, <5>1, <5>2 DEF ToPolicyEvaluationOutcome
      <4>3. CASE "denied" \notin fields /\ "violations" \notin fields
        BY <2>1, <3>1, <3>2, <4>3 DEF ToPolicyEvaluationOutcome
      <4> QED BY <4>1, <4>2, <4>3
    <3>4. ToPolicySimulationEvaluation(raw) \in {Reading(fine), "malformed"}
      <4>1. CASE "violations" \in fields
        <5>1. raw.violations # Unset /\ ((raw.violations = "empty") <=> fine)
          BY <2>1, <2>3, <4>1
        <5>2. Reading(raw.violations = "empty") = Reading(fine)
          BY <5>1 DEF Reading
        <5> QED BY <3>1, <5>1, <5>2 DEF ToPolicySimulationEvaluation
      <4>2. CASE "violations" \notin fields
        BY <2>1, <3>1, <4>2 DEF ToPolicySimulationEvaluation
      <4> QED BY <4>1, <4>2
    <3>5. ASSUME \/ "success" \in fields
                 \/ "violations" \in fields /\ list = "listed"
          PROVE  ParseSimulationResult(raw) = Reading(fine)
      <4>1. CASE "success" \in fields
        BY <2>1, <2>3, <3>1, <4>1 DEF ParseSimulationResult
      <4>2. CASE "success" \notin fields
        <5>1. raw.success = Unset /\ ((raw.violations # "listed") <=> fine)
          BY <2>1, <2>3, <3>5, <4>2
        <5>2. Reading(raw.violations # "listed") = Reading(fine)
          BY <5>1 DEF Reading
        <5> QED BY <3>1, <5>1, <5>2 DEF ParseSimulationResult
      <4> QED BY <4>1, <4>2
    <3> QED BY <3>2, <3>3, <3>4, <3>5 DEF raw, fine
  <2> QED BY <2>4, <2>5
<1>2. AnswersAreRead
  BY <1>1 DEF AnswersAreRead
<1> QED BY <1>2, PTL

-----------------------------------------------------------------------------
(* Budget. *)

LEMMA LeastExists ==
  ASSUME NEW S \in SUBSET Nat, S # {}
  PROVE  \E i \in S : \A j \in S : i <= j
<1>1. PICK i \in S : \A j \in S : <<j, i>> \notin OpToRel(<, Nat)
  BY NatLessThanWellFounded, WFMin
<1>2. \A j \in S : ~(j < i)
  BY <1>1 DEF OpToRel
<1> QED BY <1>2

-----------------------------------------------------------------------------
(* Sums.                                                                   *)

Entry == [at : Nat, amount : Nat, before : Nat]

\* The recursive function of a sum is there for every length.
LEMMA RunningTotal ==
  ASSUME NEW g, NEW N \in Nat
  PROVE  \E f : f = [n \in 0 .. N |-> IF n = 0 THEN 0 ELSE f[n - 1] + g[n]]
<1> DEFINE Exists(k) == \E f : f = [n \in 0 .. k |-> IF n = 0 THEN 0 ELSE f[n - 1] + g[n]]
           missing == {k \in Nat : ~Exists(k)}
<1>1. Exists(0)
  <2>1. [n \in 0 .. 0 |-> 0] = [n \in 0 .. 0 |-> IF n = 0 THEN 0 ELSE [m \in 0 .. 0 |-> 0][n - 1] + g[n]]
    OBVIOUS
  <2> QED BY <2>1
<1>2. ASSUME NEW k \in Nat, Exists(k) PROVE Exists(k + 1)
  <2>1. PICK f : f = [n \in 0 .. k |-> IF n = 0 THEN 0 ELSE f[n - 1] + g[n]]
    BY <1>2
  <2> DEFINE more == [n \in 0 .. k + 1 |-> IF n = k + 1 THEN f[k] + g[n] ELSE f[n]]
  <2>2. \A n \in 0 .. k : f[n] = IF n = 0 THEN 0 ELSE f[n - 1] + g[n]
    BY <2>1
  <2>3. ASSUME NEW n \in 0 .. k + 1
        PROVE  more[n] = IF n = 0 THEN 0 ELSE more[n - 1] + g[n]
    <3>1. CASE n = k + 1
      <4>1. n # 0 /\ n - 1 = k /\ k # k + 1 /\ k \in 0 .. k + 1
        BY <3>1
      <4> QED BY <3>1, <4>1
    <3>2. CASE n = 0
      <4>1. n # k + 1 /\ n \in 0 .. k
        BY <3>2
      <4> QED BY <2>2, <3>2, <4>1
    <3>3. CASE n \in 1 .. k
      <4>1. n # k + 1 /\ n - 1 # k + 1 /\ n \in 0 .. k /\ n - 1 \in 0 .. k + 1 /\ n # 0
        BY <3>3
      <4> QED BY <2>2, <4>1
    <3> QED BY <3>1, <3>2, <3>3
  <2>4. more = [n \in 0 .. k + 1 |-> more[n]]
    OBVIOUS
  <2> HIDE DEF more
  <2>5. more = [n \in 0 .. k + 1 |-> IF n = 0 THEN 0 ELSE more[n - 1] + g[n]]
    BY <2>3, <2>4
  <2> QED BY <2>5
<1>3. missing = {}
  <2> SUFFICES ASSUME missing # {} PROVE FALSE
    OBVIOUS
  <2> HIDE DEF Exists
  <2>1. PICK k \in missing : \A j \in missing : k <= j
    BY LeastExists
  <2>2. k # 0 /\ k - 1 \in Nat /\ k - 1 \notin missing /\ k = (k - 1) + 1
    BY <1>1, <2>1
  <2>3. Exists(k - 1)
    BY <2>2
  <2>4. Exists((k - 1) + 1)
    BY <1>2, <2>2, <2>3
  <2> QED BY <2>1, <2>2, <2>4
<1> QED BY <1>3

LEMMA SumIsTotal ==
  ASSUME NEW h, NEW S, Len(h) \in Nat
  PROVE  \E f : /\ \A n \in 0 .. Len(h) :
                     f[n] = IF n = 0 THEN 0 ELSE f[n - 1] + IF n \in S THEN h[n].amount ELSE 0
                /\ Sum(h, S) = f[Len(h)]
<1> DEFINE g == [n \in 1 .. Len(h) |-> IF n \in S THEN h[n].amount ELSE 0]
           total == CHOOSE f : f = [n \in 0 .. Len(h) |->
             IF n = 0 THEN 0 ELSE f[n - 1] + IF n \in S THEN h[n].amount ELSE 0]
<1>1. PICK f : f = [n \in 0 .. Len(h) |-> IF n = 0 THEN 0 ELSE f[n - 1] + g[n]]
  BY RunningTotal
<1>2. [n \in 0 .. Len(h) |-> IF n = 0 THEN 0 ELSE f[n - 1] + g[n]] =
      [n \in 0 .. Len(h) |-> IF n = 0 THEN 0 ELSE f[n - 1] + IF n \in S THEN h[n].amount ELSE 0]
  OBVIOUS
<1>3. f = [n \in 0 .. Len(h) |-> IF n = 0 THEN 0 ELSE f[n - 1] + IF n \in S THEN h[n].amount ELSE 0]
  BY <1>1, <1>2
<1>4. total = [n \in 0 .. Len(h) |->
                IF n = 0 THEN 0 ELSE total[n - 1] + IF n \in S THEN h[n].amount ELSE 0]
  BY <1>3
<1>5. Sum(h, S) = total[Len(h)]
  BY DEF Sum
<1> HIDE DEF total
<1>6. \A n \in 0 .. Len(h) :
        total[n] = IF n = 0 THEN 0 ELSE total[n - 1] + IF n \in S THEN h[n].amount ELSE 0
  BY <1>4
<1> QED BY <1>5, <1>6

\* Of two running totals the one that grows no faster is never ahead.
LEMMA NeverAhead ==
  ASSUME NEW N \in Nat, NEW f, NEW g,
         \A n \in 0 .. N : f[n] \in Int /\ g[n] \in Int,
         f[0] <= g[0],
         \A n \in 1 .. N : f[n] - f[n - 1] <= g[n] - g[n - 1]
  PROVE  \A n \in 0 .. N : f[n] <= g[n]
<1> DEFINE ahead == {n \in 0 .. N : ~(f[n] <= g[n])}
<1> SUFFICES ASSUME ahead # {} PROVE FALSE
  OBVIOUS
<1>1. PICK n \in ahead : \A m \in ahead : n <= m
  <2> ahead \in SUBSET Nat
    OBVIOUS
  <2> HIDE DEF ahead
  <2> QED BY LeastExists
<1>2. n \in 1 .. N /\ n - 1 \in 0 .. N /\ n - 1 \notin ahead /\ n \in 0 .. N
  BY <1>1
<1>3. f[n - 1] <= g[n - 1] /\ f[n] - f[n - 1] <= g[n] - g[n - 1]
  BY <1>2
<1>4. f[n] \in Int /\ g[n] \in Int /\ f[n - 1] \in Int /\ g[n - 1] \in Int
  BY <1>2
<1>5. f[n] <= g[n]
  BY <1>3, <1>4
<1> QED BY <1>1, <1>5

LEMMA TotalsAreNumbers ==
  ASSUME NEW N \in Nat, NEW f, NEW g, \A n \in 1 .. N : g[n] \in Nat,
         \A n \in 0 .. N : f[n] = IF n = 0 THEN 0 ELSE f[n - 1] + g[n]
  PROVE  \A n \in 0 .. N : f[n] \in Nat
<1> DEFINE odd == {n \in 0 .. N : f[n] \notin Nat}
<1> SUFFICES ASSUME odd # {} PROVE FALSE
  OBVIOUS
<1>1. PICK n \in odd : \A m \in odd : n <= m
  <2> odd \in SUBSET Nat
    OBVIOUS
  <2> HIDE DEF odd
  <2> QED BY LeastExists
<1>2. n \in 1 .. N /\ n - 1 \in 0 .. N /\ n - 1 \notin odd /\ n # 0 /\ n \in 0 .. N
  BY <1>1
<1>3. f[n - 1] \in Nat /\ g[n] \in Nat /\ f[n] = f[n - 1] + g[n]
  BY <1>2
<1>4. f[n] \in Nat
  BY <1>3
<1> QED BY <1>1, <1>4

LEMMA SumsAreNumbers ==
  ASSUME NEW h \in Seq(Entry)
  PROVE  /\ Len(h) \in Nat /\ DOMAIN h = 1 .. Len(h)
         /\ \A n \in 1 .. Len(h) : h[n].amount \in Nat
<1>1. \A n \in 1 .. Len(h) : h[n] \in Entry
  OBVIOUS
<1> QED BY <1>1 DEF Entry

Totals(f, h, S) ==
  \A n \in 0 .. Len(h) :
    /\ f[n] \in Nat
    /\ f[n] = IF n = 0 THEN 0 ELSE f[n - 1] + IF n \in S THEN h[n].amount ELSE 0

LEMMA SumTotals ==
  ASSUME NEW h \in Seq(Entry), NEW S
  PROVE  \E f : Totals(f, h, S) /\ Sum(h, S) = f[Len(h)]
<1>1. Len(h) \in Nat /\ \A n \in 1 .. Len(h) : h[n].amount \in Nat
  BY SumsAreNumbers
<1>2. PICK f : /\ \A n \in 0 .. Len(h) :
                    f[n] = IF n = 0 THEN 0 ELSE f[n - 1] + IF n \in S THEN h[n].amount ELSE 0
               /\ Sum(h, S) = f[Len(h)]
  BY <1>1, SumIsTotal
<1> DEFINE g == [n \in 1 .. Len(h) |-> IF n \in S THEN h[n].amount ELSE 0]
<1>3. \A n \in 1 .. Len(h) : g[n] \in Nat
  BY <1>1
<1>4. \A n \in 0 .. Len(h) : f[n] = IF n = 0 THEN 0 ELSE f[n - 1] + g[n]
  BY <1>1, <1>2
<1> HIDE DEF g
<1>5. \A n \in 0 .. Len(h) : f[n] \in Nat
  BY <1>1, <1>3, <1>4, TotalsAreNumbers
<1> QED BY <1>2, <1>5 DEF Totals

LEMMA SumIsNumber ==
  ASSUME NEW h \in Seq(Entry), NEW S
  PROVE  Sum(h, S) \in Nat
<1>1. Len(h) \in 0 .. Len(h)
  OBVIOUS
<1> QED BY <1>1, SumTotals DEF Totals

\* What counts more positions is no less.
LEMMA SumOfMore ==
  ASSUME NEW h \in Seq(Entry), NEW S, NEW T, \A i \in DOMAIN h : i \in S => i \in T
  PROVE  Sum(h, S) <= Sum(h, T)
<1>1. PICK f : Totals(f, h, S) /\ Sum(h, S) = f[Len(h)]
  BY SumTotals
<1>2. PICK g : Totals(g, h, T) /\ Sum(h, T) = g[Len(h)]
  BY SumTotals
<1>3. /\ Len(h) \in Nat /\ DOMAIN h = 1 .. Len(h)
      /\ \A n \in 1 .. Len(h) : h[n].amount \in Nat
  BY SumsAreNumbers
<1>4. \A n \in 0 .. Len(h) : f[n] \in Int /\ g[n] \in Int
  BY <1>1, <1>2 DEF Totals
<1>5. f[0] <= g[0]
  BY <1>1, <1>2, <1>3 DEF Totals
<1>6. ASSUME NEW n \in 1 .. Len(h) PROVE f[n] - f[n - 1] <= g[n] - g[n - 1]
  <2>1. n \in 0 .. Len(h) /\ n - 1 \in 0 .. Len(h) /\ n # 0
    BY <1>3
  <2>2. /\ f[n] = f[n - 1] + IF n \in S THEN h[n].amount ELSE 0
        /\ g[n] = g[n - 1] + IF n \in T THEN h[n].amount ELSE 0
    BY <1>1, <1>2, <2>1 DEF Totals
  <2>3. /\ f[n] \in Int /\ f[n - 1] \in Int /\ g[n] \in Int /\ g[n - 1] \in Int
        /\ h[n].amount \in Nat /\ (n \in S => n \in T)
    BY <1>3, <1>4, <2>1
  <2> QED BY <2>2, <2>3
<1>7. \A n \in 0 .. Len(h) : f[n] <= g[n]
  BY <1>3, <1>4, <1>5, <1>6, NeverAhead
<1> QED BY <1>1, <1>2, <1>3, <1>7

LEMMA SumOfSame ==
  ASSUME NEW h \in Seq(Entry), NEW S, NEW T, \A i \in DOMAIN h : i \in S <=> i \in T
  PROVE  Sum(h, S) = Sum(h, T)
  BY SumOfMore, SumIsNumber

LEMMA SumOfNone ==
  ASSUME NEW h \in Seq(Entry), NEW S, \A i \in DOMAIN h : i \notin S
  PROVE  Sum(h, S) = 0
<1>1. PICK f : Totals(f, h, S) /\ Sum(h, S) = f[Len(h)]
  BY SumTotals
<1> DEFINE g == [n \in 0 .. Len(h) |-> 0]
<1>2. Len(h) \in Nat /\ DOMAIN h = 1 .. Len(h)
  OBVIOUS
<1>3. /\ \A n \in 0 .. Len(h) : f[n] \in Int /\ g[n] \in Int
      /\ \A n \in 0 .. Len(h) : f[n] >= 0 /\ g[n] = 0
  BY <1>1 DEF Totals
<1>4. f[0] <= g[0]
  BY <1>1, <1>2 DEF Totals
<1>5. ASSUME NEW n \in 1 .. Len(h) PROVE f[n] - f[n - 1] <= g[n] - g[n - 1]
  <2>1. n \in 0 .. Len(h) /\ n - 1 \in 0 .. Len(h) /\ n # 0 /\ n \notin S
    BY <1>2
  <2>2. f[n] = f[n - 1] + 0
    BY <1>1, <2>1 DEF Totals
  <2> QED BY <1>3, <2>1, <2>2
<1> HIDE DEF g
<1>6. \A n \in 0 .. Len(h) : f[n] <= g[n]
  BY <1>2, <1>3, <1>4, <1>5, NeverAhead
<1>7. f[Len(h)] <= 0 /\ f[Len(h)] >= 0 /\ f[Len(h)] \in Int
  BY <1>2, <1>3, <1>6
<1> QED BY <1>1, <1>7

\* A new entry adds its amount where its position counts.
LEMMA SumOfAppended ==
  ASSUME NEW h \in Seq(Entry), NEW e \in Entry, NEW S
  PROVE  Sum(Append(h, e), S) = Sum(h, S) + IF Len(h) + 1 \in S THEN e.amount ELSE 0
<1> DEFINE k == Append(h, e)
<1>1. /\ k \in Seq(Entry) /\ Len(h) \in Nat /\ Len(k) = Len(h) + 1
      /\ k[Len(h) + 1] = e /\ \A n \in 1 .. Len(h) : k[n] = h[n]
      /\ e.amount \in Nat
  BY DEF Entry
<1> HIDE DEF k
<1>2. PICK f : Totals(f, h, S) /\ Sum(h, S) = f[Len(h)]
  BY SumTotals
<1>3. PICK g : Totals(g, k, S) /\ Sum(k, S) = g[Len(k)]
  BY <1>1, SumTotals
<1>4. \A n \in 0 .. Len(h) : n \in 0 .. Len(k) /\ f[n] \in Int /\ g[n] \in Int
  BY <1>1, <1>2, <1>3 DEF Totals
<1>5. f[0] <= g[0] /\ g[0] <= f[0]
  BY <1>1, <1>2, <1>3 DEF Totals
<1>6. ASSUME NEW n \in 1 .. Len(h) PROVE f[n] - f[n - 1] = g[n] - g[n - 1]
  <2>1. /\ n \in 0 .. Len(h) /\ n - 1 \in 0 .. Len(h) /\ n # 0
        /\ n \in 0 .. Len(k)
    BY <1>1
  <2>2. /\ f[n] = f[n - 1] + IF n \in S THEN h[n].amount ELSE 0
        /\ g[n] = g[n - 1] + IF n \in S THEN h[n].amount ELSE 0
    BY <1>1, <1>2, <1>3, <2>1 DEF Totals
  <2>3. /\ f[n] \in Int /\ f[n - 1] \in Int /\ g[n] \in Int /\ g[n - 1] \in Int
        /\ h[n].amount \in Nat
    BY <1>4, <2>1, SumsAreNumbers
  <2> QED BY <2>2, <2>3
<1>7. \A n \in 0 .. Len(h) : f[n] <= g[n]
  <2>1. \A n \in 1 .. Len(h) : f[n] - f[n - 1] <= g[n] - g[n - 1]
    <3> TAKE n \in 1 .. Len(h)
    <3>1. n \in 0 .. Len(h) /\ n - 1 \in 0 .. Len(h)
      BY <1>1
    <3> QED BY <1>4, <1>6, <3>1
  <2> QED BY <1>1, <1>4, <1>5, <2>1, NeverAhead
<1>8. \A n \in 0 .. Len(h) : g[n] <= f[n]
  <2>1. \A n \in 1 .. Len(h) : g[n] - g[n - 1] <= f[n] - f[n - 1]
    <3> TAKE n \in 1 .. Len(h)
    <3>1. n \in 0 .. Len(h) /\ n - 1 \in 0 .. Len(h)
      BY <1>1
    <3> QED BY <1>4, <1>6, <3>1
  <2> QED BY <1>1, <1>4, <1>5, <2>1, NeverAhead
<1>9. g[Len(h)] = f[Len(h)]
  BY <1>1, <1>4, <1>7, <1>8
<1>10. g[Len(k)] = g[Len(h)] + IF Len(h) + 1 \in S THEN e.amount ELSE 0
  <2>1. Len(k) \in 0 .. Len(k) /\ Len(k) # 0 /\ Len(k) - 1 = Len(h)
    BY <1>1
  <2> QED BY <1>1, <1>3, <2>1 DEF Totals
<1> QED BY <1>2, <1>3, <1>9, <1>10 DEF k

-----------------------------------------------------------------------------
(* The invariant.  What was consumed lies behind, in the window of the     *)
(* record or in an earlier one; the record's spent is never more than what *)
(* the history has in the window; a copy that missed no consumption and no *)
(* cut allows no more than the record does; and so a draw decided on such  *)
(* copies still fits.                                                      *)

Record == [limit : Nat, spent : Nat, enabled : BOOLEAN, period : DOMAIN LengthOf, periodStart : Nat]
Copy == [budget : Record, at : Nat]
Intent ==
  [phase : {"idle", "simulating", "cleared"}, spending : BOOLEAN, draw : Nat, own : BOOLEAN, basis : Int]

SpentIn(b) == Sum(history, OfWindow(b, history))
SpentToday == Sum(history, Today(history, time))
SpentEver == Sum(history, DOMAIN history)

BudgetTypes ==
  /\ time \in Nat /\ version \in Nat
  /\ stale \in BOOLEAN /\ others \in BOOLEAN /\ wasReset \in BOOLEAN
  /\ budget \in Record /\ history \in Seq(Entry) /\ past \subseteq Copy
  /\ intent \in [Spenders -> Intent]

InOrder ==
  /\ WindowStart(budget) <= time /\ time < WindowEnd(budget)
  /\ \A i \in DOMAIN history : history[i].at <= time /\ history[i].before < version
  /\ \A copy \in past : copy.at <= version
  /\ \A a \in Spenders : /\ intent[a].basis <= version
                         /\ intent[a].phase = "simulating" => ~intent[a].spending

SpentIsRecorded ==
  /\ budget.spent <= SpentIn(budget)
  /\ ~wasReset => budget.spent = SpentIn(budget)

CurrentCopiesAreSafe ==
  \A copy \in past : copy.at = version =>
    /\ copy.budget.limit <= budget.limit
    /\ budget.spent <= copy.budget.spent /\ budget.spent <= SpentIn(copy.budget)

Fits(draw) == draw <= budget.limit - budget.spent
FitsToday(draw) ==
  /\ DailyLimit # Unset => draw + SpentToday <= DailyLimit
  /\ AssetCap # Unset => draw + SpentEver <= AssetCap

CurrentDrawsFit ==
  \A a \in Spenders :
    intent[a].phase # "idle" /\ intent[a].basis = version /\ intent[a].draw > 0 =>
      Fits(intent[a].draw) /\ (intent[a].spending => FitsToday(intent[a].draw))

BudgetInv ==
  /\ BudgetTypes /\ InOrder /\ SpentIsRecorded
  /\ CurrentCopiesAreSafe /\ CurrentDrawsFit
  /\ OverspendingIsStale /\ DailyLimitsHold

-----------------------------------------------------------------------------
(* Windows and days.                                                       *)

LEMMA Lengths ==
  /\ Day \in Nat \ {0}
  /\ \A b \in Record : LengthOf[b.period] \in Nat \ {0}
  /\ Limits \subseteq Nat /\ Draws \subseteq Nat
  /\ \A rate \in Rates : rate[1] \in Nat /\ rate[2] \in Nat \ {0}
  BY BudgetAssumption DEF Record

LEMMA Quotient ==
  ASSUME NEW t \in Nat, NEW d \in Nat \ {0}
  PROVE  t \div d \in Nat
  OBVIOUS

LEMMA Remainder ==
  ASSUME NEW t \in Nat, NEW d \in Nat \ {0}
  PROVE  t % d \in Nat /\ t % d <= t /\ t % d < d
  OBVIOUS

LEMMA NextMultiple ==
  ASSUME NEW t \in Nat, NEW d \in Nat \ {0}
  PROVE  ((t - (t % d)) + d) % d = 0
  OBVIOUS

LEMMA OneRemainder ==
  ASSUME NEW d \in Nat \ {0}, NEW p \in Int, NEW q \in Int, NEW r \in Nat, NEW s \in Nat,
         r < d, s < d, p * d + r = q * d + s
  PROVE  r = s
  OBVIOUS

LEMMA BeforeNextMultiple ==
  ASSUME NEW t \in Nat, NEW d \in Nat \ {0}, t + 1 < (t - (t % d)) + d
  PROVE  (t + 1) % d = (t % d) + 1
<1> DEFINE p == t \div d
           q == (t + 1) \div d
           r == t % d
           s == (t + 1) % d
<1>1. r \in Nat /\ r < d /\ p \in Nat /\ t = p * d + r
  OBVIOUS
<1>2. s \in Nat /\ s < d /\ q \in Nat /\ t + 1 = q * d + s
  OBVIOUS
<1>3. t + 1 < (t - r) + d
  OBVIOUS
<1> HIDE DEF p, q, r, s
<1>4. p * d \in Nat /\ q * d \in Nat
  BY <1>1, <1>2
<1>5. p * d + (r + 1) = q * d + s /\ r + 1 \in Nat /\ r + 1 < d
  BY <1>1, <1>2, <1>3, <1>4
<1>6. r + 1 = s
  <2> DEFINE more == r + 1
  <2>1. more \in Nat /\ more < d /\ p * d + more = q * d + s
    BY <1>5
  <2>2. p \in Int /\ q \in Int
    BY <1>1, <1>2
  <2> HIDE DEF more
  <2>3. more = s
    BY <1>2, <2>1, <2>2, OneRemainder
  <2> QED BY <2>3 DEF more
<1> QED BY <1>6 DEF r, s

LEMMA WindowOfRecord ==
  ASSUME NEW b \in Record
  PROVE  /\ WindowStart(b) \in Nat /\ WindowEnd(b) \in Nat
         /\ WindowStart(b) <= b.periodStart /\ b.periodStart < WindowEnd(b)
         /\ WindowEnd(b) = WindowStart(b) + LengthOf[b.period]
<1>1. b.periodStart \in Nat /\ LengthOf[b.period] \in Nat \ {0}
  BY Lengths DEF Record
<1>2. /\ b.periodStart % LengthOf[b.period] \in Nat
      /\ b.periodStart % LengthOf[b.period] <= b.periodStart
      /\ b.periodStart % LengthOf[b.period] < LengthOf[b.period]
  BY <1>1, Remainder
<1>3. /\ WindowEnd(b) = WindowStart(b) + LengthOf[b.period]
      /\ WindowStart(b) = b.periodStart - (IF b.period = "ONE_TIME" THEN 0 ELSE b.periodStart % LengthOf[b.period])
  BY DEF WindowStart, WindowEnd
<1> QED BY <1>1, <1>2, <1>3

\* A window that begins where the last one ends begins there exactly.
LEMMA WindowAfter ==
  ASSUME NEW b \in Record, NEW t \in Nat, WindowStart(b) <= t, t < WindowEnd(b), t + 1 >= WindowEnd(b),
         NEW c \in Record, c.period = b.period, c.periodStart = t + 1
  PROVE  WindowStart(c) = t + 1
<1> DEFINE L == LengthOf[b.period]
<1>1. L \in Nat \ {0} /\ b.periodStart \in Nat
  BY Lengths DEF Record
<1>2. /\ WindowEnd(b) = WindowStart(b) + L /\ WindowStart(b) \in Nat
      /\ t + 1 = WindowStart(b) + L
  BY WindowOfRecord
<1> HIDE DEF L
<1>3. CASE b.period = "ONE_TIME"
  BY <1>3 DEF WindowStart
<1>4. CASE b.period # "ONE_TIME"
  <2>1. WindowStart(b) = b.periodStart - (b.periodStart % L)
    BY <1>4 DEF WindowStart, L
  <2>2. (t + 1) % L = 0
    BY <1>1, <1>2, <2>1, NextMultiple
  <2> QED BY <1>4, <2>2 DEF WindowStart, L
<1> QED BY <1>3, <1>4

LEMMA DayContains ==
  ASSUME NEW t \in Nat
  PROVE  /\ StartOfDay(t) \in Nat /\ StartOfDay(t) <= t /\ t < StartOfDay(t) + Day
         /\ StartOfDay(t + 1) \in {StartOfDay(t), t + 1}
<1>1. Day \in Nat \ {0}
  BY Lengths
<1>2. t % Day \in Nat /\ t % Day <= t /\ t % Day < Day
  BY <1>1, Remainder
<1>3. StartOfDay(t) = t - (t % Day) /\ StartOfDay(t + 1) = (t + 1) - ((t + 1) % Day)
  BY DEF StartOfDay
<1>4. StartOfDay(t) \in Nat /\ StartOfDay(t) <= t /\ t < StartOfDay(t) + Day
  BY <1>1, <1>2, <1>3
<1>5. CASE t + 1 < (t - (t % Day)) + Day
  <2>1. (t + 1) % Day = (t % Day) + 1
    BY <1>1, <1>5, BeforeNextMultiple
  <2> QED BY <1>2, <1>3, <1>4, <2>1
<1>6. CASE ~(t + 1 < (t - (t % Day)) + Day)
  <2>1. t + 1 = (t - (t % Day)) + Day
    BY <1>1, <1>2, <1>6
  <2>2. (t + 1) % Day = 0
    BY <1>1, <2>1, NextMultiple
  <2> QED BY <1>3, <1>4, <2>2
<1> QED BY <1>4, <1>5, <1>6

LEMMA SpentOfAppended ==
  ASSUME NEW h \in Seq(Entry), NEW e \in Entry, NEW start \in Int, NEW end \in Int
  PROVE  Sum(Append(h, e), Within(Append(h, e), start, end)) =
           Sum(h, Within(h, start, end)) + IF e.at >= start /\ e.at < end THEN e.amount ELSE 0
<1> DEFINE k == Append(h, e)
           S == Within(k, start, end)
<1>1. /\ Len(h) \in Nat /\ DOMAIN k = 1 .. Len(h) + 1 /\ DOMAIN h = 1 .. Len(h)
      /\ k[Len(h) + 1] = e /\ \A i \in 1 .. Len(h) : k[i] = h[i]
  OBVIOUS
<1> HIDE DEF k
<1>2. \A i \in DOMAIN h : i \in S <=> i \in Within(h, start, end)
  BY <1>1 DEF Within
<1>3. Len(h) + 1 \in S <=> e.at >= start /\ e.at < end
  BY <1>1 DEF Within
<1> HIDE DEF S
<1>4. Sum(k, S) = Sum(h, S) + IF Len(h) + 1 \in S THEN e.amount ELSE 0
  BY SumOfAppended DEF k
<1>5. Sum(h, S) = Sum(h, Within(h, start, end))
  BY <1>2, SumOfSame
<1> QED BY <1>3, <1>4, <1>5 DEF S, k

LEMMA SpentAreNumbers ==
  ASSUME BudgetTypes
  PROVE  /\ \A b : SpentIn(b) \in Nat
         /\ SpentToday \in Nat /\ SpentEver \in Nat
  BY SumIsNumber DEF BudgetTypes, SpentIn, SpentToday, SpentEver

-----------------------------------------------------------------------------
(* What a check lets pass.                                                 *)

LEMMA CopyAllowsNoMore ==
  ASSUME BudgetInv, NEW copy \in Copies, copy.at = version
  PROVE  /\ copy.budget \in Record /\ copy.budget.limit <= budget.limit
         /\ budget.spent <= copy.budget.spent /\ budget.spent <= SpentIn(copy.budget)
<1>1. CASE copy \in past
  BY <1>1 DEF BudgetInv, BudgetTypes, CurrentCopiesAreSafe, Copy
<1>2. CASE copy = [budget |-> budget, at |-> version]
  BY <1>2 DEF BudgetInv, BudgetTypes, SpentIsRecorded, Record
<1> QED BY <1>1, <1>2 DEF Copies

LEMMA DrawIsNumber ==
  ASSUME NEW request \in DrawRequests
  PROVE  Draw(request) \in Nat /\ (request.own => Draw(request) = request.amount)
<1>1. request.amount \in Nat /\ request.rate \in Rates \union {Unset}
  BY Lengths DEF DrawRequests
<1>2. ASSUME request.rate \in Rates PROVE (request.amount * request.rate[1]) \div request.rate[2] \in Nat
  <2>1. request.rate[1] \in Nat /\ request.rate[2] \in Nat \ {0}
    BY <1>2, Lengths
  <2>2. request.amount * request.rate[1] \in Nat
    BY <1>1, <2>1
  <2> QED BY <2>1, <2>2, Quotient
<1> QED BY <1>1, <1>2 DEF Draw

LEMMA BasisIsCurrent ==
  ASSUME BudgetInv, NEW copy \in Copies, NEW n \in 0 .. Len(history),
         OlderOf(copy.at, EntriesAt(n)) = version
  PROVE  copy.at = version /\ SubSeq(history, 1, n) = history
<1>1. copy.at \in Nat /\ copy.at <= version /\ version \in Nat
  BY DEF Copies, BudgetInv, BudgetTypes, InOrder, Copy
<1>2. CASE n = Len(history)
  <2>1. EntriesAt(n) = version
    BY <1>2 DEF EntriesAt
  <2>2. SubSeq(history, 1, n) = history
    BY <1>2 DEF BudgetInv, BudgetTypes
  <2> QED BY <1>1, <2>1, <2>2 DEF OlderOf
<1>3. CASE n # Len(history)
  <2>1. EntriesAt(n) = history[n + 1].before
    BY <1>3 DEF EntriesAt
  <2>2. history \in Seq(Entry)
    BY DEF BudgetInv, BudgetTypes
  <2>3. n + 1 \in DOMAIN history
    BY <1>3, <2>2
  <2>4. history[n + 1] \in Entry
    BY <2>2, <2>3
  <2>5. EntriesAt(n) < version /\ EntriesAt(n) \in Nat
    BY <2>1, <2>3, <2>4 DEF BudgetInv, InOrder, Entry
  <2> QED BY <1>1, <2>5 DEF OlderOf
<1> QED BY <1>2, <1>3

LEMMA PassedFits ==
  ASSUME BudgetInv, NEW copy \in Copies, copy.at = version,
         NEW request \in DrawRequests, Draw(request) > 0
  PROVE  /\ ValidateSimulationRequest(copy.budget, request, time) => Fits(Draw(request))
         /\ request.own =>
              /\ \A recorded \in BOOLEAN :
                   ValidateBudgetSpending(copy.budget, request, history, recorded, time) =>
                     Fits(Draw(request)) /\ FitsToday(Draw(request))
              /\ copy.budget.enabled /\ CheckBudgetLimit(copy.budget, history, request) =>
                   Fits(Draw(request))
<1> DEFINE b == copy.budget
           draw == Draw(request)
<1>1. BudgetTypes
  BY DEF BudgetInv
<1>2. /\ b \in Record /\ b.limit <= budget.limit
      /\ budget.spent <= b.spent /\ budget.spent <= SpentIn(b)
  BY CopyAllowsNoMore
<1>3. /\ b.limit \in Nat /\ b.spent \in Nat /\ SpentIn(b) \in Nat
      /\ budget.limit \in Nat /\ budget.spent \in Nat
  BY <1>1, <1>2, SpentAreNumbers DEF BudgetTypes, Record
<1>4. draw \in Nat /\ (request.own => draw = request.amount)
  BY DrawIsNumber
<1> HIDE DEF b, draw
<1>5. \A used \in Nat : budget.spent <= used /\ draw + used <= b.limit => Fits(draw)
  BY <1>2, <1>3, <1>4 DEF Fits
<1>6. draw > 0
  BY DEF draw
<1>7. ASSUME ValidateSimulationRequest(b, request, time) PROVE Fits(draw)
  <2>1. request.own \/ request.rate # Unset
    BY <1>7 DEF ValidateSimulationRequest, Violations
  <2>2. ~WouldExceed(draw, b.limit - b.spent)
    BY <1>7, <2>1 DEF ValidateSimulationRequest, Violations, draw
  <2>3. draw + b.spent <= b.limit
    BY <1>3, <1>4, <1>6, <2>2 DEF WouldExceed, Sub
  <2> QED BY <1>2, <1>3, <1>5, <2>3
<1>8. ASSUME request.own, NEW recorded \in BOOLEAN,
             ValidateBudgetSpending(b, request, history, recorded, time)
      PROVE  Fits(draw) /\ FitsToday(draw)
  <2>1. Fits(draw)
    <3>1. ~WouldExceed(draw, Sub(b.limit, IF recorded THEN b.spent ELSE SpentIn(b)))
      BY <1>4, <1>8 DEF ValidateBudgetSpending, ValidateRemainingAllowance, RemainingAllowance, SpentIn
    <3>2. CASE recorded
      <4>1. draw + b.spent <= b.limit
        BY <1>3, <1>4, <1>6, <3>1, <3>2 DEF WouldExceed, Sub
      <4> QED BY <1>2, <1>3, <1>5, <4>1
    <3>3. CASE ~recorded
      <4>1. draw + SpentIn(b) <= b.limit
        BY <1>3, <1>4, <1>6, <3>1, <3>3 DEF WouldExceed, Sub
      <4> QED BY <1>2, <1>3, <1>5, <4>1
    <3> QED BY <3>2, <3>3
  <2>2. SpentToday \in Nat /\ SpentEver \in Nat
    BY <1>1, SpentAreNumbers
  <2>3. ASSUME DailyLimit # Unset PROVE draw + SpentToday <= DailyLimit
    <3>1. DailyLimitOf(b) = DailyLimit /\ DailyLimit \in Nat
      BY <2>3, BudgetAssumption DEF DailyLimitOf
    <3>2. ~WouldExceed(draw, Sub(DailyLimit, SpentToday))
      BY <1>4, <1>8, <2>3, <3>1 DEF ValidateBudgetSpending, ValidateDailyLimit, SpentToday
    <3> QED BY <1>4, <1>6, <2>2, <3>1, <3>2 DEF WouldExceed, Sub
  <2>4. ASSUME AssetCap # Unset PROVE draw + SpentEver <= AssetCap
    <3>1. AssetCap \in Nat
      BY <2>4, BudgetAssumption
    <3>2. ~WouldExceed(draw, Sub(AssetCap, SpentEver))
      BY <1>4, <1>8, <2>4 DEF ValidateBudgetSpending, ValidateAssetSpendingCap, SpentEver
    <3> QED BY <1>4, <1>6, <2>2, <3>1, <3>2 DEF WouldExceed, Sub
  <2> QED BY <2>1, <2>3, <2>4 DEF FitsToday
<1>9. ASSUME request.own, b.enabled, CheckBudgetLimit(b, history, request) PROVE Fits(draw)
  <2>1. ~WouldExceed(draw, Sub(b.limit, SpentIn(b)))
    BY <1>4, <1>9 DEF CheckBudgetLimit, SpentIn
  <2>2. draw + SpentIn(b) <= b.limit
    BY <1>3, <1>4, <1>6, <2>1 DEF WouldExceed, Sub
  <2> QED BY <1>2, <1>3, <1>5, <2>2
<1> QED BY <1>7, <1>8, <1>9 DEF b, draw

-----------------------------------------------------------------------------
(* Every step keeps the invariant.                                         *)

LEMMA InitBudgetInv == BudgetInit => BudgetInv
<1> SUFFICES ASSUME BudgetInit PROVE BudgetInv
  OBVIOUS
<1>1. time \in Nat /\ time = Day - 1 /\ budget.periodStart = time
  BY Lengths DEF BudgetInit
<1>2. BudgetTypes
  <2>1. budget \in Record
    <3>1. Limits \subseteq Nat /\ {0} \subseteq Nat /\ {TRUE} \subseteq BOOLEAN /\ {time} \subseteq Nat
      BY <1>1, Lengths
    <3>2. budget \in [limit : Limits, spent : {0}, enabled : {TRUE}, period : DOMAIN LengthOf, periodStart : {time}]
      BY DEF BudgetInit
    <3> QED BY <3>1, <3>2 DEF Record
  <2>2. history \in Seq(Entry)
    BY DEF BudgetInit
  <2>3. intent \in [Spenders -> Intent]
    BY DEF BudgetInit, Idle, Intent
  <2> QED BY <1>1, <2>1, <2>2, <2>3 DEF BudgetInit, BudgetTypes
<1>3. \A S : Sum(history, S) = 0
  <2>1. history \in Seq(Entry) /\ DOMAIN history = {}
    BY DEF BudgetInit
  <2> QED BY <2>1, SumOfNone
<1>4. budget.spent = 0 /\ budget.limit \in Nat
  BY <1>2 DEF BudgetInit, BudgetTypes, Record
<1>5. InOrder
  <2>1. WindowStart(budget) <= time /\ time < WindowEnd(budget)
    BY <1>1, <1>2, WindowOfRecord DEF BudgetTypes
  <2> QED BY <2>1 DEF BudgetInit, InOrder, Idle
<1>6. SpentIsRecorded
  BY <1>3, <1>4 DEF SpentIsRecorded, SpentIn
<1>7. CurrentCopiesAreSafe /\ CurrentDrawsFit
  BY DEF BudgetInit, CurrentCopiesAreSafe, CurrentDrawsFit, Idle
<1>8. OverspendingIsStale /\ DailyLimitsHold
  BY <1>3, <1>4, BudgetAssumption DEF OverspendingIsStale, DailyLimitsHold
<1> QED BY <1>2, <1>5, <1>6, <1>7, <1>8 DEF BudgetInv

\* A step that changes nothing but one draw.
LEMMA IntentKeeps ==
  ASSUME BudgetInv, UNCHANGED <<time, serverVars, past, stale, others>>,
         NEW a \in Spenders, NEW i \in Intent, intent' = [intent EXCEPT ![a] = i],
         i.basis <= version, i.phase = "simulating" => ~i.spending,
         i.phase # "idle" /\ i.basis = version /\ i.draw > 0 =>
           Fits(i.draw) /\ (i.spending => FitsToday(i.draw))
  PROVE  BudgetInv'
<1>1. UNCHANGED <<time, budget, history, version, wasReset, past, stale, others>>
  BY DEF serverVars
<1>2. intent \in [Spenders -> Intent]
  BY DEF BudgetInv, BudgetTypes
<1>3. intent' \in [Spenders -> Intent] /\ intent'[a] = i /\ \A c \in Spenders \ {a} : intent'[c] = intent[c]
  BY <1>2
<1>4. BudgetTypes'
  BY <1>1, <1>3 DEF BudgetInv, BudgetTypes
<1>5. InOrder'
  BY <1>1, <1>3 DEF BudgetInv, InOrder, WindowStart, WindowEnd
<1>6. SpentIsRecorded' /\ CurrentCopiesAreSafe' /\ OverspendingIsStale' /\ DailyLimitsHold'
  BY <1>1 DEF BudgetInv, SpentIsRecorded, CurrentCopiesAreSafe, OverspendingIsStale, DailyLimitsHold, SpentIn
<1>7. \A draw : (Fits(draw) => Fits(draw)') /\ (FitsToday(draw) => FitsToday(draw)')
  BY <1>1 DEF Fits, FitsToday, SpentToday, SpentEver
<1>8. CurrentDrawsFit'
  BY <1>1, <1>3, <1>7 DEF BudgetInv, CurrentDrawsFit
<1> QED BY <1>4, <1>5, <1>6, <1>8 DEF BudgetInv

LEMMA AskKeeps ==
  ASSUME BudgetInv, NEW a \in Spenders, NEW check \in Checks, NEW request \in DrawRequests,
         Ask(a, check, request)
  PROVE  BudgetInv'
<1>1. PICK copy \in Copies, n \in 0 .. Len(history) :
        /\ Passes(copy, SubSeq(history, 1, n), check, request)
        /\ intent' = [intent EXCEPT ![a] =
             [phase |-> IF check = "dry run" THEN "simulating" ELSE "cleared",
              spending |-> check = "spending", draw |-> Draw(request), own |-> request.own,
              basis |-> CASE check = "dry run" -> copy.at
                          [] check = "limit" /\ ~copy.budget.enabled -> -1
                          [] OTHER -> OlderOf(copy.at, EntriesAt(n))]]
  BY DEF Ask
<1> DEFINE basis == CASE check = "dry run" -> copy.at
                      [] check = "limit" /\ ~copy.budget.enabled -> -1
                      [] OTHER -> OlderOf(copy.at, EntriesAt(n))
           i == [phase |-> IF check = "dry run" THEN "simulating" ELSE "cleared",
                 spending |-> check = "spending", draw |-> Draw(request), own |-> request.own,
                 basis |-> basis]
<1>2. check \in {"dry run", "spending", "limit"} /\ (check = "dry run" \/ request.own)
  BY DEF Ask, Checks
<1>3. /\ copy.at \in Nat /\ copy.at <= version /\ version \in Nat
  BY DEF Copies, BudgetInv, BudgetTypes, InOrder, Copy
<1>4. EntriesAt(n) \in Nat /\ EntriesAt(n) <= version
  <2>1. CASE n = Len(history)
    BY <1>3, <2>1 DEF EntriesAt
  <2>2. CASE n # Len(history)
    <3>1. history \in Seq(Entry)
      BY DEF BudgetInv, BudgetTypes
    <3>2. n + 1 \in DOMAIN history
      BY <2>2, <3>1
    <3>3. history[n + 1] \in Entry
      BY <3>1, <3>2
    <3> QED BY <1>3, <2>2, <3>2, <3>3 DEF EntriesAt, BudgetInv, InOrder, Entry
  <2> QED BY <2>1, <2>2
<1>5. OlderOf(copy.at, EntriesAt(n)) \in Int /\ OlderOf(copy.at, EntriesAt(n)) <= version
  BY <1>3, <1>4 DEF OlderOf
<1>6. /\ basis \in Int /\ basis <= version
      /\ check = "limit" /\ ~copy.budget.enabled => basis # version
  <2>1. CASE check = "dry run"
    <3>1. basis = copy.at /\ check # "limit"
      BY <2>1
    <3> HIDE DEF basis
    <3> QED BY <1>3, <3>1
  <2>2. CASE check = "limit" /\ ~copy.budget.enabled
    <3>1. basis = -1
      BY <2>2
    <3> HIDE DEF basis
    <3> QED BY <1>3, <3>1
  <2>3. CASE check # "dry run" /\ ~(check = "limit" /\ ~copy.budget.enabled)
    <3>1. basis = OlderOf(copy.at, EntriesAt(n))
      BY <2>3
    <3> HIDE DEF basis
    <3> QED BY <1>5, <2>3, <3>1
  <2> QED BY <2>1, <2>2, <2>3
<1>7. i \in Intent
  BY <1>6, DrawIsNumber DEF Intent, DrawRequests
<1>8. ASSUME basis = version, Draw(request) > 0
      PROVE  Fits(Draw(request)) /\ (check = "spending" => FitsToday(Draw(request)))
  <2>1. CASE check = "dry run"
    <3>1. copy.at = version
      BY <1>8, <2>1
    <3>2. ValidateSimulationRequest(copy.budget, request, time)
      BY <1>1, <2>1 DEF Passes
    <3> QED BY <1>8, <2>1, <3>1, <3>2, PassedFits
  <2>2. CASE check = "limit"
    <3>1. copy.budget.enabled
      <4> HIDE DEF basis
      <4> QED BY <1>6, <1>8, <2>2
    <3>2. OlderOf(copy.at, EntriesAt(n)) = version
      BY <1>8, <2>2, <3>1
    <3>3. copy.at = version /\ SubSeq(history, 1, n) = history
      BY <3>2, BasisIsCurrent
    <3>4. CheckBudgetLimit(copy.budget, history, request)
      BY <1>1, <2>2, <3>3 DEF Passes
    <3> QED BY <1>2, <1>8, <2>2, <3>1, <3>3, <3>4, PassedFits
  <2>3. CASE check = "spending"
    <3>1. OlderOf(copy.at, EntriesAt(n)) = version
      BY <1>8, <2>3
    <3>2. copy.at = version /\ SubSeq(history, 1, n) = history
      BY <3>1, BasisIsCurrent
    <3>3. PICK recorded \in BOOLEAN : ValidateBudgetSpending(copy.budget, request, history, recorded, time)
      BY <1>1, <2>3, <3>2 DEF Passes
    <3> QED BY <1>2, <1>8, <2>3, <3>2, <3>3, PassedFits
  <2> QED BY <1>2, <2>1, <2>2, <2>3
<1>9. UNCHANGED <<time, serverVars, past, stale, others>> /\ intent' = [intent EXCEPT ![a] = i]
  BY <1>1 DEF Ask
<1>10. /\ i.basis = basis /\ i.draw = Draw(request) /\ (i.spending <=> check = "spending")
       /\ i.phase = "simulating" => check = "dry run"
  OBVIOUS
<1> HIDE DEF i, basis
<1> QED BY <1>6, <1>7, <1>8, <1>9, <1>10, IntentKeeps

LEMMA SimulateKeeps ==
  ASSUME BudgetInv, NEW a \in Spenders, Simulate(a)
  PROVE  BudgetInv'
<1>1. /\ UNCHANGED <<time, serverVars, past, stale, others>>
      /\ intent[a].phase = "simulating"
  BY DEF Simulate
<1>2. /\ intent \in [Spenders -> Intent] /\ version \in Nat
      /\ intent[a] \in Intent /\ intent[a].basis <= version /\ ~intent[a].spending
  <2>1. intent \in [Spenders -> Intent] /\ version \in Nat
    BY DEF BudgetInv, BudgetTypes
  <2>2. intent[a].basis <= version /\ ~intent[a].spending
    BY <1>1 DEF BudgetInv, InOrder
  <2> QED BY <2>1, <2>2
<1>3. CASE intent' = [intent EXCEPT ![a] = Idle]
  <2>1. Idle \in Intent /\ Idle.basis <= version /\ Idle.phase = "idle"
    BY <1>2 DEF Idle, Intent
  <2> QED BY <1>1, <1>3, <2>1, IntentKeeps
<1>4. CASE /\ ApiVerdict(a)
           /\ intent' = [intent EXCEPT ![a].phase = "cleared", ![a].basis = IF intent[a].own THEN version ELSE @]
  <2> DEFINE basis == IF intent[a].own THEN version ELSE intent[a].basis
             i == [intent[a] EXCEPT !.phase = "cleared", !.basis = basis]
  <2>1. intent' = [intent EXCEPT ![a] = i]
    BY <1>2, <1>4
  <2>2. basis \in Int /\ basis <= version
    BY <1>2 DEF Intent
  <2>3. /\ i \in Intent /\ i.basis = basis /\ i.phase = "cleared"
        /\ i.draw = intent[a].draw /\ ~i.spending
    <3> HIDE DEF basis
    <3> QED BY <1>2, <2>2 DEF Intent
  <2>4. ASSUME basis = version, i.draw > 0 PROVE Fits(i.draw)
    <3>1. CASE intent[a].own
      BY <1>4, <2>3, <3>1 DEF ApiVerdict, RemoteAllows, Fits
    <3>2. CASE ~intent[a].own
      BY <1>1, <1>2, <2>3, <2>4, <3>2 DEF BudgetInv, CurrentDrawsFit
    <3> QED BY <3>1, <3>2
  <2> HIDE DEF i, basis
  <2> QED BY <1>1, <2>1, <2>2, <2>3, <2>4, IntentKeeps
<1> QED BY <1>3, <1>4 DEF Simulate

LEMMA AbandonKeeps ==
  ASSUME BudgetInv, NEW a \in Spenders, Abandon(a)
  PROVE  BudgetInv'
<1>1. Idle \in Intent /\ Idle.basis <= version /\ Idle.phase = "idle"
  BY DEF Idle, Intent, BudgetInv, BudgetTypes
<1> QED BY <1>1, IntentKeeps DEF Abandon

LEMMA ConsumeKeeps ==
  ASSUME BudgetInv, NEW a \in Spenders, Consume(a)
  PROVE  BudgetInv'
<1> DEFINE draw == intent[a].draw
           e == [at |-> time, amount |-> draw, before |-> version]
<1>0. BudgetTypes /\ InOrder /\ SpentIsRecorded /\ CurrentDrawsFit
  BY DEF BudgetInv
<1>1. /\ intent \in [Spenders -> Intent] /\ intent[a] \in Intent /\ draw \in Nat
      /\ intent[a].basis <= version /\ intent[a].basis \in Int
      /\ version \in Nat /\ time \in Nat /\ history \in Seq(Entry)
      /\ budget \in Record /\ budget.spent \in Nat /\ budget.limit \in Nat
  <2>1. /\ intent \in [Spenders -> Intent] /\ version \in Nat /\ time \in Nat
        /\ history \in Seq(Entry) /\ budget \in Record
    BY <1>0 DEF BudgetTypes
  <2>2. intent[a].basis <= version
    BY <1>0 DEF InOrder
  <2>3. intent[a] \in Intent
    BY <2>1
  <2> QED BY <2>1, <2>2, <2>3 DEF Intent, Record
<1>2. /\ budget' = [budget EXCEPT !.spent = @ + draw] /\ past' = Copies
      /\ history' = Append(history, e) /\ version' = version + 1
      /\ stale' = (stale \/ intent[a].basis < version) /\ others' = (others \/ ~intent[a].spending)
      /\ intent' = [intent EXCEPT ![a] = Idle] /\ time' = time /\ wasReset' = wasReset
      /\ intent[a].phase = "cleared"
  BY DEF Consume
<1>3. e \in Entry /\ e.at = time /\ e.amount = draw
  BY <1>1 DEF Entry
<1> HIDE DEF e
<1>4. /\ budget' \in Record /\ budget'.spent = budget.spent + draw /\ budget'.limit = budget.limit
      /\ budget'.period = budget.period /\ budget'.periodStart = budget.periodStart
  <2> DEFINE total == budget.spent + draw
  <2>1. total \in Nat /\ budget' = [budget EXCEPT !.spent = total]
    BY <1>1, <1>2
  <2> HIDE DEF total
  <2>2. /\ budget' \in Record /\ budget'.spent = total /\ budget'.limit = budget.limit
        /\ budget'.period = budget.period /\ budget'.periodStart = budget.periodStart
    BY <1>1, <2>1 DEF Record
  <2> QED BY <2>2 DEF total
<1>5. WindowStart(budget') = WindowStart(budget) /\ WindowEnd(budget') = WindowEnd(budget)
  BY <1>4 DEF WindowStart, WindowEnd
<1>6. /\ WindowStart(budget) \in Nat /\ WindowEnd(budget) \in Nat
      /\ WindowStart(budget) <= time /\ time < WindowEnd(budget)
  BY <1>0, <1>1, WindowOfRecord DEF InOrder
<1>7. SpentIn(budget)' = SpentIn(budget) + draw
  <2>1. SpentIn(budget)' = Sum(Append(history, e), Within(Append(history, e), WindowStart(budget), WindowEnd(budget)))
    BY <1>2, <1>5 DEF SpentIn, OfWindow
  <2> QED BY <1>1, <1>3, <1>6, <2>1, SpentOfAppended DEF SpentIn, OfWindow
<1>8. SpentToday' = SpentToday + draw
  <2>1. /\ StartOfDay(time) \in Nat /\ StartOfDay(time) + Day \in Nat
        /\ time >= StartOfDay(time) /\ time < StartOfDay(time) + Day
    BY <1>1, DayContains, Lengths
  <2>2. SpentToday' = Sum(Append(history, e),
                          Within(Append(history, e), StartOfDay(time), StartOfDay(time) + Day))
    BY <1>2 DEF SpentToday, Today
  <2> QED BY <1>1, <1>3, <2>1, <2>2, SpentOfAppended DEF SpentToday, Today
<1>9. SpentEver' = SpentEver + draw
  <2>1. /\ DOMAIN history = 1 .. Len(history) /\ DOMAIN history' = 1 .. Len(history) + 1
        /\ Len(history) \in Nat
    BY <1>1, <1>2
  <2>2. Sum(history', DOMAIN history') =
          Sum(history, DOMAIN history') + IF Len(history) + 1 \in DOMAIN history' THEN e.amount ELSE 0
    BY <1>1, <1>2, <1>3, SumOfAppended
  <2>3. Sum(history, DOMAIN history') = Sum(history, DOMAIN history)
    BY <1>1, <2>1, SumOfSame
  <2> QED BY <1>3, <2>1, <2>2, <2>3 DEF SpentEver
<1>10. /\ intent' \in [Spenders -> Intent] /\ intent'[a] = Idle
       /\ \A c \in Spenders \ {a} : intent'[c] = intent[c]
  BY <1>1, <1>2 DEF Idle, Intent
<1>11. BudgetTypes'
  <2>1. history' \in Seq(Entry)
    BY <1>1, <1>2, <1>3
  <2>2. past' \subseteq Copy
    BY <1>0, <1>1, <1>2 DEF Copies, Copy, BudgetTypes
  <2> QED BY <1>0, <1>1, <1>2, <1>4, <1>10, <2>1, <2>2 DEF BudgetTypes
<1>12. \A copy \in past' : copy.at <= version
  BY <1>0, <1>1, <1>2 DEF Copies, InOrder
<1>13. InOrder'
  <2>1. \A i \in DOMAIN history' : history'[i].at <= time /\ history'[i].before < version + 1
    <3>1. /\ DOMAIN history = 1 .. Len(history) /\ DOMAIN history' = 1 .. Len(history) + 1
          /\ Len(history) \in Nat /\ history'[Len(history) + 1] = e
          /\ \A i \in DOMAIN history : history'[i] = history[i] /\ history[i] \in Entry
      BY <1>1, <1>2
    <3>2. e.at <= time /\ e.before < version + 1
      BY <1>1 DEF e
    <3>3. \A i \in DOMAIN history : history[i].at <= time /\ history[i].before < version + 1
      BY <1>0, <1>1, <3>1 DEF InOrder, Entry
    <3> QED BY <3>1, <3>2, <3>3
  <2>2. \A copy \in past' : copy.at <= version + 1
    BY <1>1, <1>12, <1>11 DEF BudgetTypes, Copy
  <2>3. \A c \in Spenders : /\ intent'[c].basis <= version + 1
                            /\ intent'[c].phase = "simulating" => ~intent'[c].spending
    <3>1. /\ Idle.basis = 0 /\ Idle.phase = "idle"
          /\ \A c \in Spenders : intent[c] \in Intent
      BY <1>1 DEF Idle
    <3>2. \A c \in Spenders : /\ intent[c].basis \in Int /\ intent[c].basis <= version
                              /\ intent[c].phase = "simulating" => ~intent[c].spending
      BY <1>0, <3>1 DEF InOrder, Intent
    <3> QED BY <1>1, <1>10, <3>1, <3>2
  <2> QED BY <1>2, <1>5, <1>6, <2>1, <2>2, <2>3 DEF InOrder
<1>14. SpentIsRecorded'
  <2>1. SpentIn(budget) \in Nat
    BY <1>0, SpentAreNumbers
  <2> QED BY <1>0, <1>1, <1>2, <1>4, <1>7, <2>1 DEF SpentIsRecorded
<1>15. CurrentCopiesAreSafe'
  BY <1>1, <1>2, <1>12, <1>11 DEF CurrentCopiesAreSafe, BudgetTypes, Copy
<1>16. CurrentDrawsFit'
  <2> SUFFICES ASSUME NEW c \in Spenders, intent'[c].phase # "idle" PROVE intent'[c].basis # version'
    BY DEF CurrentDrawsFit
  <2>1. c # a /\ intent'[c] = intent[c] /\ intent[c] \in Intent
    BY <1>1, <1>10 DEF Idle
  <2>2. intent[c].basis \in Int /\ intent[c].basis <= version
    BY <1>0, <2>1 DEF InOrder, Intent
  <2> QED BY <1>1, <1>2, <2>1, <2>2
<1>17. ASSUME ~stale' PROVE ~stale /\ (draw > 0 => Fits(draw) /\ (intent[a].spending => FitsToday(draw)))
  <2>1. ~stale /\ ~(intent[a].basis < version)
    BY <1>2, <1>17
  <2>2. intent[a].basis = version
    BY <1>1, <2>1
  <2> QED BY <1>0, <1>2, <2>1, <2>2 DEF CurrentDrawsFit
<1>18. OverspendingIsStale'
  BY <1>1, <1>4, <1>17 DEF BudgetInv, OverspendingIsStale, Fits
<1>19. DailyLimitsHold'
  <2> SUFFICES ASSUME ~stale', ~others'
               PROVE  /\ DailyLimit # Unset => SpentToday' <= DailyLimit
                      /\ AssetCap # Unset => SpentEver' <= AssetCap
    BY DEF DailyLimitsHold, SpentToday, SpentEver
  <2>1. ~stale /\ ~others /\ intent[a].spending
    BY <1>2, <1>17
  <2>2. /\ DailyLimit # Unset => SpentToday <= DailyLimit
        /\ AssetCap # Unset => SpentEver <= AssetCap
    BY <2>1 DEF BudgetInv, DailyLimitsHold, SpentToday, SpentEver
  <2>3. SpentToday \in Nat /\ SpentEver \in Nat
    BY <1>0, SpentAreNumbers
  <2>4. CASE draw > 0
    BY <1>1, <1>8, <1>9, <1>17, <2>1, <2>3, <2>4 DEF FitsToday
  <2>5. CASE draw = 0
    BY <1>8, <1>9, <2>2, <2>3, <2>5
  <2> QED BY <1>1, <2>4, <2>5
<1> QED BY <1>11, <1>13, <1>14, <1>15, <1>16, <1>18, <1>19 DEF BudgetInv

\* A step that replaces the record and leaves the history and the draws.
LEMMA RecordKeeps ==
  ASSUME BudgetInv, UNCHANGED <<history, intent, others>>, past' \subseteq Copies,
         time' \in {time, time + 1},
         budget' \in Record, WindowStart(budget') <= time', time' < WindowEnd(budget'),
         budget'.spent <= budget.spent, budget'.spent <= SpentIn(budget'),
         wasReset' \in BOOLEAN, ~wasReset' => budget'.spent = SpentIn(budget'),
         version' \in {version, version + 1},
         version' = version => budget'.limit >= budget.limit,
         stale' \in BOOLEAN, ~stale' => ~stale /\ budget'.spent <= budget'.limit
  PROVE  BudgetInv'
<1>0. BudgetTypes /\ InOrder /\ CurrentDrawsFit /\ CurrentCopiesAreSafe
  BY DEF BudgetInv
<1>1. /\ time \in Nat /\ version \in Nat /\ history \in Seq(Entry) /\ budget \in Record
      /\ past \subseteq Copy /\ intent \in [Spenders -> Intent]
      /\ stale \in BOOLEAN /\ others \in BOOLEAN
  BY <1>0 DEF BudgetTypes
<1>2. /\ budget.spent \in Nat /\ budget.limit \in Nat /\ budget'.spent \in Nat /\ budget'.limit \in Nat
      /\ \A copy \in past' : copy \in Copy /\ copy.at \in Nat /\ copy.budget.limit \in Nat
                            /\ copy.budget.spent \in Nat
  BY <1>1 DEF Copies, Copy, Record
<1>3. \A copy \in Copies : /\ copy.at <= version
                           /\ copy.at = version =>
                                /\ copy.budget.limit <= budget.limit
                                /\ budget.spent <= copy.budget.spent
                                /\ budget.spent <= SpentIn(copy.budget)
  <2> SUFFICES ASSUME NEW copy \in Copies
               PROVE  copy.at <= version
    BY CopyAllowsNoMore
  <2> QED BY <1>0, <1>1 DEF Copies, InOrder
<1>4. BudgetTypes'
  BY <1>1, <1>2 DEF BudgetTypes
<1>5. \A i \in DOMAIN history : /\ history[i].at \in Nat /\ history[i].at <= time
                                /\ history[i].before \in Nat /\ history[i].before < version
  <2>1. \A i \in DOMAIN history : history[i] \in Entry
    BY <1>1
  <2> QED BY <1>0, <2>1 DEF InOrder, Entry
<1>6. InOrder'
  <2>1. \A a \in Spenders : /\ intent[a].basis <= version'
                            /\ intent[a].phase = "simulating" => ~intent[a].spending
    <3>1. \A a \in Spenders : intent[a].basis \in Int
      BY <1>1 DEF Intent
    <3> QED BY <1>0, <1>1, <3>1 DEF InOrder
  <2>2. \A i \in DOMAIN history : history[i].at <= time' /\ history[i].before < version'
    BY <1>1, <1>5
  <2>3. \A copy \in past' : copy.at <= version'
    BY <1>1, <1>2, <1>3
  <2> QED BY <2>1, <2>2, <2>3 DEF InOrder
<1>7. SpentIsRecorded'
  BY DEF SpentIsRecorded, SpentIn
<1>8. CurrentCopiesAreSafe'
  <2> SUFFICES ASSUME NEW copy \in past', copy.at = version'
               PROVE  /\ copy.budget.limit <= budget'.limit
                      /\ budget'.spent <= copy.budget.spent
                      /\ budget'.spent <= SpentIn(copy.budget)
    BY DEF CurrentCopiesAreSafe, SpentIn
  <2>1. version' = version
    BY <1>1, <1>2, <1>3
  <2>2. SpentIn(copy.budget) \in Nat
    BY <1>0, SpentAreNumbers
  <2> QED BY <1>2, <1>3, <2>1, <2>2
<1>9. \A S, T : (\A i \in DOMAIN history : i \in S => i \in T) => Sum(history, S) <= Sum(history, T)
  BY <1>1, SumOfMore
<1>10. SpentToday' <= SpentToday
  <2> DEFINE today == Today(history, time)
             new == Today(history, time')
  <2>1. \A i \in DOMAIN history : i \in new => i \in today
    <3> SUFFICES ASSUME NEW i \in DOMAIN history, i \in new PROVE i \in today
      OBVIOUS
    <3>1. history[i].at >= StartOfDay(time')
      BY DEF Today, Within
    <3>2. /\ StartOfDay(time) \in Nat /\ time < StartOfDay(time) + Day
          /\ StartOfDay(time + 1) \in {StartOfDay(time), time + 1} /\ Day \in Nat
      BY <1>1, DayContains, Lengths
    <3>3. StartOfDay(time') = StartOfDay(time)
      BY <1>1, <1>5, <3>1, <3>2
    <3>4. history[i].at >= StartOfDay(time) /\ history[i].at < StartOfDay(time) + Day
      BY <1>1, <1>5, <3>1, <3>2, <3>3
    <3> QED BY <3>4 DEF Today, Within
  <2> HIDE DEF today, new
  <2>2. Sum(history, new) <= Sum(history, today)
    BY <1>9, <2>1
  <2> QED BY <2>2 DEF SpentToday, today, new
<1>11. SpentToday' \in Nat /\ SpentToday \in Nat /\ SpentEver \in Nat /\ SpentEver' = SpentEver
  BY <1>1, SumIsNumber DEF SpentEver, SpentToday
<1>12. CurrentDrawsFit'
  <2> SUFFICES ASSUME NEW a \in Spenders, intent[a].phase # "idle", intent[a].basis = version',
                      intent[a].draw > 0
               PROVE  /\ intent[a].draw <= budget'.limit - budget'.spent
                      /\ intent[a].spending => FitsToday(intent[a].draw)'
    BY DEF CurrentDrawsFit, Fits
  <2>1. intent[a].basis \in Int /\ intent[a].basis <= version /\ intent[a].draw \in Nat
    BY <1>0, <1>1 DEF InOrder, Intent
  <2>2. version' = version
    BY <1>1, <2>1
  <2>3. Fits(intent[a].draw) /\ (intent[a].spending => FitsToday(intent[a].draw))
    BY <1>0, <2>2 DEF CurrentDrawsFit
  <2>4. intent[a].draw <= budget'.limit - budget'.spent
    BY <1>2, <2>1, <2>2, <2>3 DEF Fits
  <2>5. ASSUME intent[a].spending PROVE FitsToday(intent[a].draw)'
    <3>1. FitsToday(intent[a].draw)
      BY <2>3, <2>5
    <3>2. DailyLimit # Unset => intent[a].draw + SpentToday' <= DailyLimit
      BY <1>10, <1>11, <2>1, <3>1, BudgetAssumption DEF FitsToday
    <3>3. AssetCap # Unset => intent[a].draw + SpentEver' <= AssetCap
      BY <1>11, <3>1 DEF FitsToday
    <3>4. intent[a]' = intent[a]
      OBVIOUS
    <3> QED BY <3>2, <3>3, <3>4 DEF FitsToday
  <2> QED BY <2>4, <2>5
<1>13. OverspendingIsStale'
  BY <1>2 DEF OverspendingIsStale
<1>14. DailyLimitsHold'
  <2> SUFFICES ASSUME ~stale', ~others'
               PROVE  /\ DailyLimit # Unset => SpentToday' <= DailyLimit
                      /\ AssetCap # Unset => SpentEver' <= AssetCap
    BY DEF DailyLimitsHold, SpentToday, SpentEver
  <2>1. /\ DailyLimit # Unset => SpentToday <= DailyLimit
        /\ AssetCap # Unset => SpentEver <= AssetCap
    BY DEF BudgetInv, DailyLimitsHold, SpentToday, SpentEver
  <2> QED BY <1>10, <1>11, <2>1, BudgetAssumption
<1> QED BY <1>4, <1>6, <1>7, <1>8, <1>12, <1>13, <1>14 DEF BudgetInv

LEMMA UpdateKeeps ==
  ASSUME BudgetInv, NEW b \in Record, b.spent = budget.spent, b.period = budget.period,
         b.periodStart = budget.periodStart, Update(b)
  PROVE  BudgetInv'
<1>1. /\ BudgetTypes /\ budget \in Record /\ version \in Nat /\ stale \in BOOLEAN /\ wasReset \in BOOLEAN
      /\ budget.limit \in Nat /\ b.limit \in Nat /\ budget.spent \in Nat
  BY DEF BudgetInv, BudgetTypes, Record
<1>2. /\ budget' = b /\ past' = Copies
      /\ version' = IF b.limit < budget.limit THEN version + 1 ELSE version
      /\ stale' = (stale \/ b.spent > b.limit)
      /\ UNCHANGED <<time, history, intent, others, wasReset>>
  BY DEF Update
<1>3. WindowStart(b) = WindowStart(budget) /\ WindowEnd(b) = WindowEnd(budget)
  BY DEF WindowStart, WindowEnd
<1>4. SpentIn(b) = SpentIn(budget)
  BY <1>3 DEF SpentIn, OfWindow
<1>5. /\ WindowStart(b) <= time /\ time < WindowEnd(b)
      /\ b.spent <= SpentIn(b) /\ (~wasReset => b.spent = SpentIn(b))
  BY <1>3, <1>4 DEF BudgetInv, InOrder, SpentIsRecorded
<1>6. /\ time' \in {time, time + 1} /\ wasReset' \in BOOLEAN /\ stale' \in BOOLEAN
      /\ budget'.spent <= budget.spent /\ budget'.spent <= SpentIn(budget')
      /\ ~wasReset' => budget'.spent = SpentIn(budget')
      /\ budget' \in Record /\ WindowStart(budget') <= time' /\ time' < WindowEnd(budget')
  BY <1>1, <1>2, <1>5
<1>7. /\ version' \in {version, version + 1}
      /\ version' = version => budget'.limit >= budget.limit
  <2>1. CASE b.limit < budget.limit
    BY <1>1, <1>2, <2>1
  <2>2. CASE ~(b.limit < budget.limit)
    BY <1>1, <1>2, <2>2
  <2> QED BY <2>1, <2>2
<1>8. ~stale' => ~stale /\ budget'.spent <= budget'.limit
  <2>1. budget'.spent = b.spent /\ budget'.limit = b.limit
    BY <1>2
  <2>2. b.spent \in Nat /\ b.limit \in Nat
    BY <1>1
  <2>3. ~stale' => ~stale /\ ~(b.spent > b.limit)
    BY <1>1, <1>2
  <2> QED BY <2>1, <2>2, <2>3
<1> QED BY <1>2, <1>6, <1>7, <1>8, RecordKeeps

LEMMA UpdateBudgetKeeps ==
  ASSUME BudgetInv, UpdateBudget
  PROVE  BudgetInv'
<1>1. budget \in Record
  BY DEF BudgetInv, BudgetTypes
<1>2. ASSUME NEW l \in Limits, Update([budget EXCEPT !.limit = l]) PROVE BudgetInv'
  <2> DEFINE b == [budget EXCEPT !.limit = l]
  <2>1. /\ b \in Record /\ b.spent = budget.spent /\ b.period = budget.period
        /\ b.periodStart = budget.periodStart
    BY <1>1, Lengths DEF Record
  <2>2. Update(b)
    BY <1>2
  <2> HIDE DEF b
  <2> QED BY <2>1, <2>2, UpdateKeeps
<1>3. ASSUME Update([budget EXCEPT !.enabled = ~@]) PROVE BudgetInv'
  <2> DEFINE b == [budget EXCEPT !.enabled = ~@]
  <2>1. /\ b \in Record /\ b.spent = budget.spent /\ b.period = budget.period
        /\ b.periodStart = budget.periodStart
    BY <1>1 DEF Record
  <2>2. Update(b)
    BY <1>3
  <2> HIDE DEF b
  <2> QED BY <2>1, <2>2, UpdateKeeps
<1> QED BY <1>2, <1>3 DEF UpdateBudget

\* A step that leaves all but the time, within the window.
LEMMA StandingKeeps ==
  ASSUME BudgetInv, UNCHANGED <<budget, history, past, intent, version, stale, others, wasReset>>,
         time' \in {time, time + 1}, ~(time' >= WindowEnd(budget))
  PROVE  BudgetInv'
<1>1. /\ BudgetTypes /\ budget \in Record /\ version \in Nat /\ stale \in BOOLEAN /\ wasReset \in BOOLEAN
      /\ budget.limit \in Nat /\ budget.spent \in Nat /\ time \in Nat
      /\ SpentIsRecorded /\ OverspendingIsStale
  BY DEF BudgetInv, BudgetTypes, Record
<1>2. /\ WindowStart(budget) <= time /\ WindowStart(budget) \in Nat /\ WindowEnd(budget) \in Nat
  BY <1>1, WindowOfRecord DEF BudgetInv, InOrder
<1>3. WindowStart(budget) <= time' /\ time' < WindowEnd(budget)
  BY <1>1, <1>2
<1>4. /\ WindowStart(budget') <= time' /\ time' < WindowEnd(budget')
      /\ budget'.spent <= SpentIn(budget') /\ (~wasReset' => budget'.spent = SpentIn(budget'))
      /\ budget' \in Record /\ budget'.spent <= budget.spent /\ budget'.limit >= budget.limit
  BY <1>1, <1>3 DEF SpentIsRecorded
<1>5. ~stale' => ~stale /\ budget'.spent <= budget'.limit
  BY <1>1 DEF OverspendingIsStale
<1>6. past' \subseteq Copies
  BY DEF Copies
<1> QED BY <1>1, <1>4, <1>5, <1>6, RecordKeeps

LEMMA ResetBudgetKeeps ==
  ASSUME BudgetInv, ResetBudget
  PROVE  BudgetInv'
<1>1. /\ BudgetTypes /\ budget \in Record /\ version \in Nat /\ stale \in BOOLEAN
      /\ budget.limit \in Nat /\ budget.spent \in Nat
  BY DEF BudgetInv, BudgetTypes, Record
<1>2. /\ budget' = [budget EXCEPT !.spent = 0] /\ past' = Copies /\ wasReset' = TRUE
      /\ UNCHANGED <<time, history, version, intent, stale, others>>
  BY DEF ResetBudget
<1>3. /\ budget' \in Record /\ budget'.spent = 0 /\ budget'.limit = budget.limit
      /\ budget'.period = budget.period /\ budget'.periodStart = budget.periodStart
  BY <1>1, <1>2 DEF Record
<1>4. WindowStart(budget') <= time' /\ time' < WindowEnd(budget')
  BY <1>2, <1>3 DEF WindowStart, WindowEnd, BudgetInv, InOrder
<1>5. SpentIn(budget') \in Nat
  BY <1>1, SpentAreNumbers
<1>6. budget'.spent <= budget.spent /\ budget'.spent <= SpentIn(budget') /\ budget'.limit >= budget.limit
  BY <1>1, <1>3, <1>5
<1>7. ~stale' => ~stale /\ budget'.spent <= budget'.limit
  BY <1>1, <1>2, <1>3
<1> QED BY <1>1, <1>2, <1>3, <1>4, <1>6, <1>7, RecordKeeps

LEMMA TimePassesKeeps ==
  ASSUME BudgetInv, TimePasses
  PROVE  BudgetInv'
<1>1. /\ BudgetTypes /\ budget \in Record /\ version \in Nat /\ stale \in BOOLEAN /\ wasReset \in BOOLEAN
      /\ budget.limit \in Nat /\ budget.spent \in Nat /\ time \in Nat /\ history \in Seq(Entry)
      /\ others \in BOOLEAN
  BY DEF BudgetInv, BudgetTypes, Record
<1>2. time' = time + 1 /\ UNCHANGED <<history, version, edits, intent, stale, others>>
  BY DEF TimePasses
<1>3. /\ WindowStart(budget) <= time /\ time < WindowEnd(budget)
      /\ WindowStart(budget) \in Nat /\ WindowEnd(budget) \in Nat
  BY <1>1, WindowOfRecord DEF BudgetInv, InOrder
<1>4. CASE time' >= WindowEnd(budget)
  <2>1. /\ budget' = [budget EXCEPT !.spent = 0, !.periodStart = time + 1]
        /\ wasReset' = FALSE /\ past' = Copies
    BY <1>2, <1>4 DEF TimePasses
  <2>2. /\ budget' \in Record /\ budget'.spent = 0 /\ budget'.limit = budget.limit
        /\ budget'.period = budget.period /\ budget'.periodStart = time + 1
    <3> DEFINE reset == [budget EXCEPT !.spent = 0]
    <3>1. /\ reset \in Record /\ reset.spent = 0 /\ reset.limit = budget.limit
          /\ reset.period = budget.period
      BY <1>1 DEF Record
    <3>2. budget' = [reset EXCEPT !.periodStart = time + 1]
      BY <2>1
    <3>3. time + 1 \in Nat
      BY <1>1
    <3> HIDE DEF reset
    <3> QED BY <3>1, <3>2, <3>3 DEF Record
  <2>3. WindowStart(budget') = time + 1
    BY <1>1, <1>2, <1>3, <1>4, <2>2, WindowAfter
  <2>4. WindowStart(budget') <= time' /\ time' < WindowEnd(budget')
    BY <1>1, <1>2, <2>2, <2>3, WindowOfRecord
  <2>5. SpentIn(budget') = 0
    <3>1. \A i \in DOMAIN history : history[i].at <= time /\ history[i] \in Entry
      BY <1>1 DEF BudgetInv, InOrder
    <3>2. \A i \in DOMAIN history : i \notin OfWindow(budget', history)
      BY <1>1, <2>3, <3>1 DEF OfWindow, Within, Entry
    <3> QED BY <1>1, <3>2, SumOfNone DEF SpentIn
  <2>6. /\ budget'.spent <= budget.spent /\ budget'.spent <= SpentIn(budget')
        /\ budget'.spent = SpentIn(budget') /\ budget'.limit >= budget.limit
        /\ budget'.spent <= budget'.limit
    BY <1>1, <2>2, <2>5
  <2> QED BY <1>1, <1>2, <2>1, <2>2, <2>4, <2>6, RecordKeeps
<1>5. CASE ~(time' >= WindowEnd(budget))
  <2>1. UNCHANGED <<budget, wasReset, past>>
    BY <1>2, <1>5 DEF TimePasses
  <2> QED BY <1>2, <1>3, <1>5, <2>1, StandingKeeps
<1> QED BY <1>4, <1>5

LEMMA NextBudgetInv == BudgetInv /\ [BudgetNext]_budgetVars => BudgetInv'
<1> SUFFICES ASSUME BudgetInv, [BudgetNext]_budgetVars PROVE BudgetInv'
  OBVIOUS
<1>1. CASE UNCHANGED budgetVars
  <2>1. time' = time /\ ~(time' >= WindowEnd(budget))
    <3>1. time \in Nat /\ WindowEnd(budget) \in Nat /\ time < WindowEnd(budget)
      BY WindowOfRecord DEF BudgetInv, BudgetTypes, InOrder
    <3> QED BY <1>1, <3>1 DEF budgetVars
  <2> QED BY <1>1, <2>1, StandingKeeps DEF budgetVars, serverVars
<1> QED BY <1>1, AskKeeps, SimulateKeeps, ConsumeKeeps, AbandonKeeps,
           UpdateBudgetKeeps, ResetBudgetKeeps, TimePassesKeeps DEF BudgetNext

(* In every reachable state the invariant holds.                           *)
THEOREM BudgetInductive == BudgetSpec => []BudgetInv
  BY InitBudgetInv, NextBudgetInv, PTL DEF BudgetSpec

(* Whatever the limits, draws and rates and however many spenders, copies, *)
(* edits and rollovers: a budget is overspent only after a draw that was   *)
(* consumed on a decision that missed something.                           *)
THEOREM OverspendingNeedsAnOldDecision == BudgetSpec => []OverspendingIsStale
<1>1. BudgetInv => OverspendingIsStale
  BY DEF BudgetInv
<1> QED BY <1>1, BudgetInductive, PTL

(* Where every draw was decided by validateBudgetSpending() and none on an *)
(* old decision, no day exceeds the daily limit and the asset its cap.     *)
THEOREM DaysStayWithinLimits == BudgetSpec => []DailyLimitsHold
<1>1. BudgetInv => DailyLimitsHold
  BY DEF BudgetInv
<1> QED BY <1>1, BudgetInductive, PTL

(* Until spent is reset, the record, the history and the four checks agree *)
(* on what is left and on whether a draw fits.                             *)
THEOREM ChecksDoAgree == BudgetSpec => []ChecksAgree
<1>1. BudgetInv => ChecksAgree
  <2> SUFFICES ASSUME BudgetInv, ~wasReset, NEW amount \in Draws
               PROVE  LET request == [own |-> TRUE, amount |-> amount, rate |-> Unset]
                          byRecord == ValidateRemainingAllowance(budget, request, <<>>, TRUE)
                      IN /\ byRecord <=> ValidateRemainingAllowance(budget, request, history, FALSE)
                         /\ byRecord <=> ValidateSimulationRequest(budget, request, time)
                         /\ budget.enabled => (byRecord <=> CheckBudgetLimit(budget, history, request))
                         /\ IsOverBudget(budget, history) <=> budget.spent > budget.limit
    BY DEF ChecksAgree
  <2> DEFINE request == [own |-> TRUE, amount |-> amount, rate |-> Unset]
             used == SpentIn(budget)
             fits == ~WouldExceed(amount, Sub(budget.limit, budget.spent))
  <2>1. /\ budget \in Record /\ budget.spent \in Nat /\ budget.limit \in Nat /\ amount \in Nat
        /\ time \in Nat /\ WindowEnd(budget) \in Nat /\ time < WindowEnd(budget)
        /\ budget.enabled \in BOOLEAN
    BY Lengths, WindowOfRecord DEF BudgetInv, BudgetTypes, InOrder, Record
  <2>2. used = budget.spent
    BY DEF BudgetInv, SpentIsRecorded
  <2>3. request.own /\ request.amount = amount
    OBVIOUS
  <2> HIDE DEF request, fits
  <2>4. ValidateRemainingAllowance(budget, request, <<>>, TRUE) <=> budget.enabled /\ fits
    BY <2>3 DEF ValidateRemainingAllowance, RemainingAllowance, fits
  <2>5. ValidateRemainingAllowance(budget, request, history, FALSE) <=> budget.enabled /\ fits
    BY <2>2, <2>3 DEF ValidateRemainingAllowance, RemainingAllowance, fits, SpentIn
  <2>6. CheckBudgetLimit(budget, history, request) <=> ~budget.enabled \/ fits
    BY <2>2, <2>3 DEF CheckBudgetLimit, fits, SpentIn
  <2>7. IsOverBudget(budget, history) <=> budget.spent > budget.limit
    BY <2>2 DEF IsOverBudget, SpentIn
  <2>8. ValidateSimulationRequest(budget, request, time) <=> budget.enabled /\ fits
    <3>1. Draw(request) = amount
      BY <2>3 DEF Draw
    <3>2. ~(time >= WindowEnd(budget))
      BY <2>1
    <3>3. WouldExceed(amount, budget.limit - budget.spent) <=> ~fits
      BY <2>1 DEF WouldExceed, Sub, fits
    <3>4. Violations(budget, request, time) = {} <=> budget.enabled /\ fits
      <4>1. "CURRENCY_MISMATCH" \notin Violations(budget, request, time)
        BY <2>3 DEF Violations
      <4>2. "EXPIRED_BUDGET" \notin Violations(budget, request, time)
        BY <3>2 DEF Violations
      <4>3. "DISABLED" \in Violations(budget, request, time) <=> ~budget.enabled
        BY DEF Violations
      <4>4. "LIMIT_OVERFLOW" \in Violations(budget, request, time) <=> ~fits
        BY <2>3, <3>1, <3>3 DEF Violations
      <4>5. Violations(budget, request, time) \subseteq {"CURRENCY_MISMATCH", "EXPIRED_BUDGET", "DISABLED", "LIMIT_OVERFLOW"}
        BY DEF Violations
      <4> QED BY <4>1, <4>2, <4>3, <4>4, <4>5
    <3> QED BY <3>4 DEF ValidateSimulationRequest
  <2> QED BY <2>4, <2>5, <2>6, <2>7, <2>8 DEF request
<1> QED BY <1>1, BudgetInductive, PTL
=============================================================================
