---------------------------- MODULE SessionProofs ----------------------------
(***************************************************************************)
(* Theorems about Session, for every set of requests and refreshes, every  *)
(* number of attempts and every number of tokens.                          *)
(*                                                                         *)
(* FlowInv says that activeRefreshPromise is the one refresh in flight and *)
(* that whoever waits, waits for it.  CallInv keeps the account of a       *)
(* request's transport calls: one for each attempt begun, and one more     *)
(* after its 401 has been handled.                                         *)
(***************************************************************************)
EXTENDS Session, TLAPS

WaitStates == {"proactive", "queued", "awaiting401"}

FlowInv ==
  /\ \A f \in Flows : flow[f] # "idle" => activeRefresh = f
  /\ \A r \in Requests : waitsFor[r] # NoFlow => pc[r] \in WaitStates

(* What the states of a request say of the calls made for it so far.        *)
CallAccount(r) ==
  /\ attempt[r] <= Attempts(r)
  /\ sends[r] <= attempt[r] + 1
  /\ pc[r] \in {"idle", "proactive", "queued"} => sends[r] = 0 /\ ~retried401[r]
  /\ pc[r] \in {"sent", "backoff", "awaiting401", "expired401"} /\ ~retried401[r] =>
       sends[r] <= attempt[r]
  /\ pc[r] \in {"awaiting401", "expired401"} => sends[r] <= attempt[r]
  /\ pc[r] = "backoff" => sends[r] <= attempt[r]
  /\ pc[r] = "backoff" /\ ~retried401[r] => sends[r] < attempt[r]
  /\ pc[r] \in {"awaiting401", "replay"} => retried401[r]
  /\ pc[r] \in {"sent", "replay", "backoff", "awaiting401", "expired401"} => sends[r] >= 1

CallInv == \A r \in Requests : CallAccount(r)

IInv == TypeOK /\ FlowInv /\ CallInv

-----------------------------------------------------------------------------
LEMMA NoToken == 0 \in Token
BY SessionAssumption DEF Token

LEMMA AvoidableType == TypeOK => Avoidable \in SUBSET Token
BY DEF TypeOK, Avoidable

(* While no refresh is in flight there is an identity for the next one.     *)
LEMMA FreeFlowExists ==
  ASSUME TypeOK, FlowInv, activeRefresh = NoFlow
  PROVE  FreeFlow \in Flows /\ flow[FreeFlow] = "idle"
<1>1. \A f \in Flows : flow[f] = "idle"
  BY SessionAssumption DEF FlowInv
<1>2. \E f \in Flows : flow[f] = "idle"
  BY <1>1, SessionAssumption
<1> QED BY <1>2 DEF FreeFlow

(* Joining or starting a refresh leaves one refresh in flight at most, with *)
(* the caller waiting for it.                                               *)
LEMMA JoinOrStartKeeps ==
  ASSUME IInv, NEW r \in Requests, NEW state \in WaitStates, JoinOrStart(r, state)
  PROVE  /\ FlowInv'
         /\ pc' = [pc EXCEPT ![r] = state]
         /\ waitsFor' \in [Requests -> Flows \cup {NoFlow}]
         /\ activeRefresh' \in Flows \cup {NoFlow}
         /\ flow' \in [Flows -> FlowStates]
         /\ flowRefresh' \in [Flows -> Token]
         /\ flowMinted' \in [Flows -> Token]
<1> USE DEF IInv
<1>1. CASE activeRefresh # NoFlow /\ Wait(r, activeRefresh, state) /\ UNCHANGED flows
  BY <1>1 DEF Wait, flows, FlowInv, TypeOK, CallStates
<1>2. CASE activeRefresh = NoFlow /\ Wait(r, FreeFlow, state) /\ StartFlow(FreeFlow)
  <2>1. FreeFlow \in Flows
    BY <1>2, FreeFlowExists
  <2>2. /\ flow' = [flow EXCEPT ![FreeFlow] = "posted"]
        /\ flowRefresh' = [flowRefresh EXCEPT ![FreeFlow] = refresh]
        /\ activeRefresh' = FreeFlow
        /\ UNCHANGED flowMinted
        /\ pc' = [pc EXCEPT ![r] = state]
        /\ waitsFor' = [waitsFor EXCEPT ![r] = FreeFlow]
    BY <1>2 DEF StartFlow, Wait
  <2>3. \A f \in Flows : flow[f] = "idle"
    BY <1>2, SessionAssumption DEF FlowInv
  <2> HIDE DEF FreeFlow
  <2>4. FlowInv'
    BY <2>1, <2>2, <2>3 DEF FlowInv, TypeOK
  <2> QED BY <2>1, <2>2, <2>4 DEF TypeOK, FlowStates
<1> QED BY <1>1, <1>2 DEF JoinOrStart

-----------------------------------------------------------------------------
LEMMA InitIInv == Init => IInv
<1> SUFFICES ASSUME Init PROVE IInv
  OBVIOUS
<1>1. 0 \in Token /\ 1 \in Token /\ 1 \in 1..MaxAttempts
  BY SessionAssumption DEF Token
<1>2. TypeOK
  BY <1>1 DEF Init, TypeOK, CallStates, FlowStates, ExchangeStates
<1>3. FlowInv
  BY DEF Init, FlowInv
<1>4. ASSUME NEW r \in Requests PROVE CallAccount(r)
  <2>1. /\ pc[r] = "idle" /\ attempt[r] = 1 /\ sends[r] = 0 /\ retried401[r] = FALSE
        /\ 1 <= Attempts(r)
    BY SessionAssumption DEF Init, Attempts
  <2> QED BY <2>1 DEF CallAccount
<1> QED BY <1>2, <1>3, <1>4 DEF IInv, CallInv

-----------------------------------------------------------------------------
(* A step that touches one request keeps the account of the others.         *)
LEMMA OneCall ==
  ASSUME CallInv, NEW r \in Requests, CallAccount(r)',
         \A q \in Requests \ {r} : /\ pc'[q] = pc[q] /\ attempt'[q] = attempt[q]
                                  /\ sends'[q] = sends[q] /\ retried401'[q] = retried401[q]
  PROVE  CallInv'
<1> SUFFICES ASSUME NEW q \in Requests \ {r} PROVE CallAccount(q)'
  BY DEF CallInv
<1>1. CallAccount(q) /\ Attempts(q)' = Attempts(q)
  BY DEF CallInv, Attempts
<1>2. /\ pc'[q] = pc[q] /\ attempt'[q] = attempt[q]
      /\ sends'[q] = sends[q] /\ retried401'[q] = retried401[q]
  OBVIOUS
<1> QED BY <1>1, <1>2 DEF CallAccount

(* A call that is over, successfully or not, has a clean account.           *)
LEMMA EndKeeps ==
  ASSUME TypeOK, CallInv, NEW r \in Requests, NEW state \in {"ok", "failed"}, End(r, state)
  PROVE  /\ CallInv'
         /\ pc' \in [Requests -> CallStates]
         /\ header' \in [Requests -> Token]
         /\ attempt' \in [Requests -> 1..MaxAttempts]
         /\ retried401' \in [Requests -> BOOLEAN]
         /\ sends' \in [Requests -> Nat]
<1>1. /\ pc'[r] = state /\ attempt'[r] = 1 /\ sends'[r] = 0 /\ retried401'[r] = FALSE
      /\ 1 <= Attempts(r)'
  BY SessionAssumption DEF End, TypeOK, Attempts
<1>2. CallAccount(r)'
  BY <1>1 DEF CallAccount
<1>3. \A q \in Requests \ {r} : /\ pc'[q] = pc[q] /\ attempt'[q] = attempt[q]
                              /\ sends'[q] = sends[q] /\ retried401'[q] = retried401[q]
  BY DEF End, TypeOK
<1>4. CallInv'
  BY <1>2, <1>3, OneCall
<1>5. 1 \in 1..MaxAttempts
  BY SessionAssumption
<1> QED BY <1>4, <1>5, NoToken DEF End, TypeOK, CallStates

LEMMA CallStep ==
  ASSUME IInv, NEW r \in Requests, Call(r) PROVE IInv'
<1> USE DEF IInv
<1>1. CASE CallRefreshing(r)
  <2>1. TypeOK' /\ FlowInv'
    BY <1>1, JoinOrStartKeeps, AvoidableType DEF CallRefreshing, Prepare, Remember, TypeOK, tokens, http, server, outside, history, CallStates, WaitStates
  <2>2. CallInv'
    BY <1>1, OneCall, JoinOrStartKeeps DEF CallRefreshing, Prepare, TypeOK, CallInv, CallAccount, WaitStates, Attempts
  <2> QED BY <2>1, <2>2
<1>2. CASE CallWithDeadSession(r)
  <2>1. TypeOK'
    BY <1>2, NoToken DEF CallWithDeadSession, Prepare, RefreshTokenExpired, ClearTokens, TypeOK, flows, server, outside, history, CallStates, http, tokens
  <2>2. FlowInv'
    BY <1>2 DEF CallWithDeadSession, Prepare, RefreshTokenExpired, FlowInv, TypeOK, flows, WaitStates
  <2>3. CallInv'
    BY <1>2, OneCall DEF CallWithDeadSession, Prepare, RefreshTokenExpired, TypeOK, CallInv, CallAccount, Attempts
  <2> QED BY <2>1, <2>2, <2>3
<1>3. CASE CallQueued(r)
  <2>1. TypeOK'
    BY <1>3, AvoidableType DEF CallQueued, Prepare, Remember, Wait, TypeOK, tokens, http, flows, server, outside, history, CallStates
  <2>2. FlowInv'
    BY <1>3 DEF CallQueued, Prepare, Wait, FlowInv, TypeOK, flows, WaitStates
  <2>3. CallInv'
    BY <1>3, OneCall DEF CallQueued, Prepare, Wait, TypeOK, CallInv, CallAccount, Attempts
  <2> QED BY <2>1, <2>2, <2>3
<1>4. CASE CallSent(r)
  <2>1. TypeOK'
    BY <1>4 DEF CallSent, Prepare, Send, TypeOK, tokens, http, flows, server, outside, history, CallStates
  <2>2. FlowInv'
    BY <1>4 DEF CallSent, Prepare, Send, FlowInv, TypeOK, flows, WaitStates
  <2>3. CallInv'
    BY <1>4, OneCall DEF CallSent, Prepare, Send, TypeOK, CallInv, CallAccount, Attempts
  <2> QED BY <2>1, <2>2, <2>3
<1> QED BY <1>1, <1>2, <1>3, <1>4 DEF Call

-----------------------------------------------------------------------------
(* The two ways an attempt without a usable answer goes on.                 *)
LEMMA RetryOrFailKeeps ==
  ASSUME IInv, NEW r \in Requests, pc[r] \in {"sent", "replay"}, RetryOrFail(r),
         UNCHANGED <<waitsFor, tokens, flows, server, history>>
  PROVE  IInv'
<1> USE DEF IInv
<1>1. CASE attempt[r] >= Attempts(r) /\ End(r, "failed")
  <2>1. TypeOK'
    BY <1>1, NoToken, SessionAssumption DEF End, TypeOK, tokens, http, flows, server, outside, history, CallStates
  <2>2. FlowInv'
    BY <1>1 DEF End, FlowInv, TypeOK, flows, WaitStates
  <2> QED BY <1>1, <2>1, <2>2, EndKeeps
<1>2. CASE /\ attempt[r] < Attempts(r)
           /\ pc' = [pc EXCEPT ![r] = "backoff"]
           /\ attempt' = [attempt EXCEPT ![r] = @ + 1]
           /\ UNCHANGED <<header, retried401, sends>>
  <2>1. attempt[r] + 1 \in 1..MaxAttempts
    BY <1>2, SessionAssumption DEF TypeOK, Attempts
  <2>2. TypeOK'
    BY <1>2, <2>1 DEF TypeOK, tokens, http, flows, server, outside, history, CallStates
  <2>3. FlowInv'
    BY <1>2 DEF FlowInv, TypeOK, flows, WaitStates
  <2>4. CallInv'
    <3>1. CallAccount(r) /\ Attempts(r)' = Attempts(r) /\ Attempts(r) \in Nat
          /\ attempt[r] \in Nat /\ sends[r] \in Nat
      BY SessionAssumption DEF CallInv, TypeOK, Attempts
    <3>2. /\ pc'[r] = "backoff" /\ attempt'[r] = attempt[r] + 1
          /\ sends'[r] = sends[r] /\ retried401'[r] = retried401[r]
      BY <1>2 DEF TypeOK
    <3>3. CallAccount(r)'
      BY <1>2, <3>1, <3>2 DEF CallAccount
    <3> QED BY <1>2, <3>3, OneCall DEF TypeOK
  <2> QED BY <2>2, <2>3, <2>4
<1> QED BY <1>1, <1>2 DEF RetryOrFail

LEMMA RespondStep ==
  ASSUME IInv, NEW r \in Requests, Respond(r) PROVE IInv'
<1> USE DEF IInv
<1>1. CASE RespondOk(r)
  <2>1. TypeOK'
    BY <1>1, NoToken, SessionAssumption DEF RespondOk, End, TypeOK, tokens, http, flows, server, outside, history, CallStates
  <2>2. FlowInv'
    BY <1>1 DEF RespondOk, End, FlowInv, TypeOK, flows, WaitStates
  <2> QED BY <1>1, <2>1, <2>2, EndKeeps DEF RespondOk
<1>2. CASE Refresh401(r)
  <2> DEFINE marked == retried401' = [retried401 EXCEPT ![r] = TRUE]
  <2>1. /\ pc[r] = "sent" /\ ~retried401[r] /\ marked
        /\ UNCHANGED <<header, attempt, sends, server, history>>
    BY <1>2 DEF Refresh401, May401Refresh
  <2>2. CASE JoinOrStart(r, "awaiting401") /\ UNCHANGED tokens
    <3>1. TypeOK' /\ FlowInv'
      BY <2>1, <2>2, JoinOrStartKeeps DEF TypeOK, tokens, http, server, outside, history, CallStates, WaitStates
    <3>2. pc' = [pc EXCEPT ![r] = "awaiting401"]
      BY <2>2, JoinOrStartKeeps DEF WaitStates
    <3>3. CallInv'
      BY <2>1, <3>2, OneCall DEF TypeOK, CallInv, CallAccount, Attempts
    <3> QED BY <3>1, <3>3
  <2>3. CASE RefreshTokenExpired(r, "expired401") /\ UNCHANGED <<http, flows>>
    <3>1. TypeOK'
      BY <2>1, <2>3, NoToken DEF RefreshTokenExpired, ClearTokens, TypeOK, flows, server, outside, history, CallStates, http, tokens
    <3>2. FlowInv'
      BY <2>1, <2>3 DEF RefreshTokenExpired, FlowInv, TypeOK, flows, WaitStates
    <3>3. CallInv'
      BY <2>1, <2>3, OneCall DEF RefreshTokenExpired, TypeOK, CallInv, CallAccount, Attempts
    <3> QED BY <3>1, <3>2, <3>3
  <2> QED BY <1>2, <2>2, <2>3 DEF Refresh401
<1>3. CASE Reject401(r)
  <2>1. TypeOK'
    BY <1>3 DEF Reject401, TypeOK, tokens, http, flows, server, outside, history, CallStates
  <2>2. FlowInv'
    BY <1>3 DEF Reject401, FlowInv, TypeOK, flows, WaitStates
  <2>3. CallInv'
    BY <1>3, OneCall DEF Reject401, TypeOK, CallInv, CallAccount, Attempts
  <2> QED BY <2>1, <2>2, <2>3
<1>4. CASE RespondServerError(r)
  <2>1. CASE pc[r] = "sent" /\ RetryOrFail(r)
    BY <1>4, <2>1, RetryOrFailKeeps DEF RespondServerError
  <2>2. CASE pc[r] = "replay" /\ End(r, "failed")
    <3>1. TypeOK'
      BY <1>4, <2>2, NoToken, SessionAssumption
      DEF RespondServerError, End, TypeOK, tokens, http, flows, server, outside, history, CallStates
    <3>2. FlowInv'
      BY <1>4, <2>2 DEF RespondServerError, End, FlowInv, TypeOK, flows, WaitStates
    <3> QED BY <2>2, <3>1, <3>2, EndKeeps
  <2> QED BY <1>4, <2>1, <2>2 DEF RespondServerError
<1>5. CASE LoseResponse(r)
  BY <1>5, RetryOrFailKeeps DEF LoseResponse
<1> QED BY <1>1, <1>2, <1>3, <1>4, <1>5 DEF Respond

LEMMA ContinueStep ==
  ASSUME IInv, NEW r \in Requests, Continue(r) PROVE IInv'
<1> USE DEF IInv
<1>1. CASE Resend(r)
  <2>1. TypeOK'
    BY <1>1 DEF Resend, Send, TypeOK, tokens, http, flows, server, outside, history, CallStates
  <2>2. FlowInv'
    BY <1>1 DEF Resend, Send, FlowInv, TypeOK, flows, WaitStates
  <2>3. CallInv'
    BY <1>1, OneCall DEF Resend, Send, TypeOK, CallInv, CallAccount, Attempts
  <2> QED BY <2>1, <2>2, <2>3
<1>2. CASE EscalateError(r)
  <2>1. TypeOK'
    <3>1. CASE End(r, "failed") /\ UNCHANGED <<access, refresh>>
      BY <1>2, <3>1, EndKeeps DEF EscalateError, TypeOK, flows, server, outside, history, http, tokens
    <3>2. CASE ClearTokens /\ pc' = [pc EXCEPT ![r] = "reporting"]
                 /\ UNCHANGED <<header, attempt, retried401, sends>>
      BY <1>2, <3>2, NoToken DEF EscalateError, ClearTokens, TypeOK, flows, server, outside, history, CallStates, http, tokens
    <3> QED BY <1>2, <3>1, <3>2 DEF EscalateError
  <2>2. FlowInv'
    BY <1>2 DEF EscalateError, End, FlowInv, TypeOK, flows, WaitStates
  <2>3. CallInv'
    BY <1>2, OneCall, EndKeeps DEF EscalateError, TypeOK, CallInv, CallAccount, Attempts
  <2> QED BY <2>1, <2>2, <2>3
<1>3. CASE CallbackReturns(r)
  <2>1. TypeOK'
    <3>1. CASE End(r, "failed")
      BY <1>3, <3>1, EndKeeps DEF CallbackReturns, TypeOK, tokens, http, flows, server, outside, history
    <3>2. CASE pc' = [pc EXCEPT ![r] = "rejected"] /\ UNCHANGED <<header, attempt, retried401, sends>>
      BY <1>3, <3>2 DEF CallbackReturns, TypeOK, tokens, http, flows, server, outside, history, CallStates
    <3> QED BY <1>3, <3>1, <3>2 DEF CallbackReturns
  <2>2. FlowInv'
    BY <1>3 DEF CallbackReturns, End, FlowInv, TypeOK, flows, WaitStates
  <2>3. CallInv'
    BY <1>3, OneCall, EndKeeps DEF CallbackReturns, TypeOK, CallInv, CallAccount, Attempts
  <2> QED BY <2>1, <2>2, <2>3
<1>4. CASE LogoutFinally(r)
  <2>1. TypeOK'
    BY <1>4, NoToken DEF LogoutFinally, SetHttpToken, ClearTokens, TypeOK, flows, server, outside, history, CallStates
  <2>2. FlowInv'
    BY <1>4 DEF LogoutFinally, SetHttpToken, FlowInv, TypeOK, flows, WaitStates
  <2>3. CallInv'
    BY <1>4, OneCall DEF LogoutFinally, SetHttpToken, TypeOK, CallInv, CallAccount, Attempts
  <2> QED BY <2>1, <2>2, <2>3
<1> QED BY <1>1, <1>2, <1>3, <1>4 DEF Continue

-----------------------------------------------------------------------------
(* Whoever a settled refresh wakes goes on within its account.              *)
LEMMA SettleStep ==
  ASSUME IInv, NEW f \in Flows, Settle(f) PROVE IInv'
<1> USE DEF IInv
<1> DEFINE succeeded == flow[f] = "updating"
<1>1. /\ flow[f] \in {"updating", "failing"}
      /\ flow' = [flow EXCEPT ![f] = "idle"]
      /\ activeRefresh' = NoFlow
      /\ pc' = [r \in Requests |-> IF r \in Wakes(f) THEN Resumed(r, succeeded) ELSE pc[r]]
      /\ header' = [r \in Requests |->
                      IF r \in Wakes(f) THEN ResumedHeader(r, f, succeeded) ELSE header[r]]
      /\ sends' = [r \in Requests |->
                     IF r \in Wakes(f) /\ Resumed(r, succeeded) \in {"sent", "replay"}
                       THEN sends[r] + 1 ELSE sends[r]]
      /\ waitsFor' = [r \in Requests |-> IF r \in Wakes(f) THEN NoFlow ELSE waitsFor[r]]
      /\ flowRefresh' = [flowRefresh EXCEPT ![f] = 0]
      /\ flowMinted' = [flowMinted EXCEPT ![f] = 0]
      /\ shunned' = [r \in Requests |-> IF r \in Wakes(f) THEN {} ELSE shunned[r]]
      /\ UNCHANGED <<attempt, retried401, tokens, server, loggedOut>>
  BY DEF Settle
<1>2. ASSUME NEW r \in Wakes(f)
      PROVE  /\ r \in Requests /\ waitsFor[r] = f /\ pc[r] \in WaitStates
             /\ Resumed(r, succeeded) \in {"sent", "replay", "rejected", "failed"}
             /\ ResumedHeader(r, f, succeeded) \in Token
  BY <1>2, NoToken, SessionAssumption DEF Wakes, FlowInv, WaitStates, TypeOK, Resumed, ResumedHeader
<1>3. TypeOK'
  <2>1. /\ pc' \in [Requests -> CallStates]
        /\ header' \in [Requests -> Token]
        /\ sends' \in [Requests -> Nat]
        /\ waitsFor' \in [Requests -> Flows \cup {NoFlow}]
    BY <1>1, <1>2 DEF TypeOK, CallStates
  <2>2. /\ flow' \in [Flows -> FlowStates]
        /\ flowRefresh' \in [Flows -> Token]
        /\ flowMinted' \in [Flows -> Token]
    BY <1>1, NoToken DEF TypeOK, FlowStates
  <2> QED BY <1>1, <2>1, <2>2 DEF TypeOK, tokens, http, server, outside, history
<1>4. FlowInv'
  <2>1. \A g \in Flows : flow'[g] = "idle"
    BY <1>1 DEF FlowInv, TypeOK
  <2>2. ASSUME NEW r \in Requests, waitsFor'[r] # NoFlow PROVE pc'[r] \in WaitStates
    BY <1>1, <2>2 DEF FlowInv, TypeOK
  <2> QED BY <2>1, <2>2 DEF FlowInv
<1>5. CallInv'
  <2> SUFFICES ASSUME NEW r \in Requests PROVE CallAccount(r)'
    BY DEF CallInv
  <2>1. /\ CallAccount(r) /\ Attempts(r)' = Attempts(r)
        /\ attempt'[r] = attempt[r] /\ retried401'[r] = retried401[r]
        /\ attempt[r] \in Nat \ {0} /\ sends[r] \in Nat
    BY <1>1, SessionAssumption DEF CallInv, Attempts, TypeOK
  <2>2. CASE r \notin Wakes(f)
    <3>1. pc'[r] = pc[r] /\ sends'[r] = sends[r]
      BY <1>1, <2>2
    <3> QED BY <2>1, <3>1 DEF CallAccount
  <2>3. CASE r \in Wakes(f)
    <3>1. /\ pc'[r] = Resumed(r, succeeded)
          /\ sends'[r] = IF Resumed(r, succeeded) \in {"sent", "replay"}
                           THEN sends[r] + 1 ELSE sends[r]
          /\ pc[r] \in WaitStates
      BY <1>1, <1>2, <2>3
    <3> HIDE DEF succeeded
    <3> QED BY <2>1, <3>1 DEF CallAccount, Resumed, WaitStates
  <2> QED BY <2>2, <2>3
<1> QED BY <1>3, <1>4, <1>5

LEMMA ProceedStep ==
  ASSUME IInv, NEW f \in Flows, Proceed(f) PROVE IInv'
<1> USE DEF IInv
<1>1. CASE RefreshSucceeds(f)
  <2>1. minted + 1 \in Token
    BY <1>1, SessionAssumption DEF RefreshSucceeds, TypeOK, Token
  <2>2. TypeOK'
    BY <1>1, <2>1 DEF RefreshSucceeds, AdoptRefreshed, AdoptTokens, SetHttpToken, TypeOK, calls, FlowStates, http, outside, history, server, tokens
  <2>3. FlowInv' /\ CallInv'
    BY <1>1 DEF RefreshSucceeds, FlowInv, CallInv, CallAccount, Attempts, TypeOK, calls
  <2> QED BY <2>2, <2>3
<1>2. CASE RefreshRefused(f)
  <2>1. TypeOK'
    <3>1. retired' \in SUBSET Token
      BY <1>2 DEF RefreshRefused, TypeOK
    <3>2. /\ access' \in Token /\ refresh' \in Token /\ httpToken' \in Token
          /\ overridden' \in BOOLEAN /\ flow' \in [Flows -> FlowStates]
      BY <1>2, NoToken
      DEF RefreshRefused, FailRefresh, SetHttpToken, ClearTokens, TypeOK, FlowStates, http
    <3> QED BY <1>2, <3>1, <3>2 DEF RefreshRefused, TypeOK, calls, outside, history
  <2>2. FlowInv' /\ CallInv'
    BY <1>2 DEF RefreshRefused, FailRefresh, SetHttpToken, FlowInv, CallInv, CallAccount, Attempts, TypeOK, calls
  <2> QED BY <2>1, <2>2
<1>3. CASE EscalationReported(f)
  <2>1. TypeOK'
    BY <1>3, NoToken DEF EscalationReported, FailRefresh, SetHttpToken, ClearTokens, TypeOK, calls, server, outside, history, FlowStates
  <2>2. FlowInv' /\ CallInv'
    BY <1>3 DEF EscalationReported, FailRefresh, SetHttpToken, FlowInv, CallInv, CallAccount, Attempts, TypeOK, calls
  <2> QED BY <2>1, <2>2
<1>4. CASE Settle(f)
  BY <1>4, SettleStep
<1> QED BY <1>1, <1>2, <1>3, <1>4 DEF Proceed

(* What goes past the session touches no request and no refresh of its own. *)
LEMMA OutsideStep ==
  ASSUME IInv,
         \/ Login \/ Expire \/ SetAccessToken
         \/ \E x \in Exchanges : Exchange(x)
  PROVE  IInv'
<1>1. UNCHANGED <<calls, flows>>
  BY DEF Login, Expire, SetAccessToken, Exchange, ExchangeCalled, ExchangeCarriedOut,
         ExchangeAdopted, ExchangeFails
<1>2. FlowInv' /\ CallInv'
  BY <1>1 DEF IInv, FlowInv, CallInv, CallAccount, Attempts, calls, flows
<1>3. TypeOK'
  <2> USE DEF IInv
  <2>1. ASSUME minted < MaxTokens PROVE minted + 1 \in Token
    BY <2>1, SessionAssumption DEF TypeOK, Token
  <2>2. CASE Login
    BY <2>1, <2>2 DEF Login, AdoptTokens, SetHttpToken, TypeOK, calls, flows, outside
  <2>3. CASE Expire
    BY <2>3 DEF Expire, TypeOK, calls, tokens, http, flows, outside, history
  <2>4. CASE SetAccessToken
    <3>1. \A t \in Overrides : t <= minted => t \in Token
      BY SessionAssumption DEF TypeOK, Token
    <3> QED BY <2>4, <3>1 DEF SetAccessToken, TypeOK, calls, flows, server, outside, history
  <2>5. ASSUME NEW x \in Exchanges, ExchangeCalled(x) PROVE TypeOK'
    <3>1. KnownTokens \subseteq Token
      BY SessionAssumption DEF KnownTokens, TypeOK, Token
    <3> QED
      BY <2>5, <3>1 DEF ExchangeCalled, TypeOK, ExchangeStates, calls, tokens, http, flows, history
  <2>6. ASSUME NEW x \in Exchanges, ExchangeCarriedOut(x) PROVE TypeOK'
    BY <2>1, <2>6 DEF ExchangeCarriedOut, TypeOK, ExchangeStates, calls, tokens, http, flows, history
  <2>7. ASSUME NEW x \in Exchanges, ExchangeAdopted(x) PROVE TypeOK'
    BY <2>7, NoToken DEF ExchangeAdopted, EndExchange, AdoptTokens, SetHttpToken, TypeOK,
       ExchangeStates, calls, flows, history
  <2>8. ASSUME NEW x \in Exchanges, ExchangeFails(x) PROVE TypeOK'
    BY <2>8, NoToken DEF ExchangeFails, EndExchange, ClearTokens, TypeOK, ExchangeStates,
       calls, tokens, http, flows, history
  <2> QED BY <2>2, <2>3, <2>4, <2>5, <2>6, <2>7, <2>8 DEF Exchange
<1> QED BY <1>2, <1>3 DEF IInv

LEMMA NextIInv == IInv /\ [Next]_vars => IInv'
<1> SUFFICES ASSUME IInv, [Next]_vars PROVE IInv'
  OBVIOUS
<1>1. ASSUME NEW r \in Requests, Call(r) \/ Respond(r) \/ Continue(r) PROVE IInv'
  BY <1>1, CallStep, RespondStep, ContinueStep
<1>2. ASSUME NEW f \in Flows, Proceed(f) PROVE IInv'
  BY <1>2, ProceedStep
<1>3. CASE \/ Login \/ Expire \/ SetAccessToken
           \/ \E x \in Exchanges : Exchange(x)
  BY <1>3, OutsideStep
<1>4. CASE UNCHANGED vars
  BY <1>4 DEF IInv, TypeOK, FlowInv, CallInv, CallAccount, Attempts, vars, calls, tokens, http, flows, server, outside, history
<1> QED BY <1>1, <1>2, <1>3, <1>4 DEF Next

-----------------------------------------------------------------------------
LEMMA Inductive == Spec => []IInv
<1>1. Init => IInv
  BY InitIInv
<1>2. IInv /\ [Next]_vars => IInv'
  BY NextIInv
<1> QED BY <1>1, <1>2, PTL DEF Spec

(* Every variable of the session keeps its type: a request that waits for a *)
(* refresh resumes in a state of its own, with a token the server minted.   *)
THEOREM TypeCorrect == Spec => []TypeOK
<1>1. IInv => TypeOK
  BY DEF IInv
<1> QED BY <1>1, Inductive, PTL

(* Concurrent 401s and expired tokens share one refresh (activeRefreshPromise *)
(* of SessionManager), for any number of callers.                           *)
THEOREM OneRefreshAtATime == Spec => []SingleFlight
<1>1. IInv => SingleFlight
  BY DEF IInv, FlowInv, SingleFlight
<1> QED BY <1>1, Inductive, PTL

(* The retry loop and the 401 replay of HttpClient.request() never put one  *)
(* request on the wire more than once per attempt plus once.                *)
THEOREM NoRequestStorm == Spec => []SendsBounded
<1>1. IInv => SendsBounded
  <2> SUFFICES ASSUME IInv, NEW r \in Requests PROVE sends[r] <= Attempts(r) + 1
    BY DEF SendsBounded
  <2>1. CallAccount(r) /\ attempt[r] \in Nat /\ sends[r] \in Nat /\ Attempts(r) \in Nat
    BY SessionAssumption DEF IInv, CallInv, TypeOK, Attempts
  <2> QED BY <2>1 DEF CallAccount
<1> QED BY <1>1, Inductive, PTL

(* The SessionManager and the HttpClient it is wired to disagree on the     *)
(* access token only when the application has set the client's: every place *)
(* where the SDK sets the session's sets the client's in the same step,     *)
(* before anything is awaited.                                              *)
THEOREM SessionAndHttpAgree == Spec => []SessionMatchesHttp
<1>1. Init => SessionMatchesHttp
  BY DEF Init, SessionMatchesHttp
<1>2. SessionMatchesHttp /\ [Next]_vars => SessionMatchesHttp'
  <2> SUFFICES ASSUME SessionMatchesHttp, [Next]_vars PROVE SessionMatchesHttp'
    OBVIOUS
  <2>1. ASSUME NEW r \in Requests, Call(r) PROVE SessionMatchesHttp'
    BY <2>1 DEF Call, CallRefreshing, CallWithDeadSession, CallQueued, CallSent,
                RefreshTokenExpired, ClearTokens, tokens, http, SessionMatchesHttp
  <2>2. ASSUME NEW r \in Requests, Respond(r) PROVE SessionMatchesHttp'
    BY <2>2 DEF Respond, RespondOk, Refresh401, Reject401, RespondServerError, LoseResponse,
                RefreshTokenExpired, ClearTokens, tokens, http, SessionMatchesHttp
  <2>3. ASSUME NEW r \in Requests, Continue(r) PROVE SessionMatchesHttp'
    BY <2>3 DEF Continue, Resend, EscalateError, CallbackReturns, LogoutFinally, SetHttpToken,
                ClearTokens, tokens, http, SessionMatchesHttp
  <2>4. ASSUME NEW f \in Flows, Proceed(f) PROVE SessionMatchesHttp'
    BY <2>4 DEF Proceed, RefreshSucceeds, AdoptRefreshed, AdoptTokens, SetHttpToken, RefreshRefused,
                FailRefresh, SetHttpToken, EscalationReported, ClearTokens, Settle, tokens, http, SessionMatchesHttp
  <2>5. CASE Login
    BY <2>5 DEF Login, AdoptTokens, SetHttpToken, SessionMatchesHttp
  <2>6. CASE Expire
    BY <2>6 DEF Expire, tokens, http, SessionMatchesHttp
  <2>7. ASSUME NEW x \in Exchanges, Exchange(x) PROVE SessionMatchesHttp'
    BY <2>7 DEF Exchange, ExchangeCalled, ExchangeCarriedOut, ExchangeAdopted, ExchangeFails,
                AdoptTokens, SetHttpToken, ClearTokens, tokens, http, SessionMatchesHttp
  <2>8. CASE SetAccessToken
    BY <2>8 DEF SetAccessToken, SessionMatchesHttp
  <2>9. CASE UNCHANGED vars
    BY <2>9 DEF vars, tokens, http, SessionMatchesHttp
  <2> QED BY <2>1, <2>2, <2>3, <2>4, <2>5, <2>6, <2>7, <2>8, <2>9 DEF Next
<1> QED BY <1>1, <1>2, PTL DEF Spec

-----------------------------------------------------------------------------
(* What the tokens of answers under way have in common: nobody knows them,  *)
(* so they were neither sent, nor replaced, nor held.                       *)
Fresh(n) ==
  /\ n \notin retired \cup expired
  /\ n # access /\ n # refresh
  /\ \A f \in Flows : n # flowRefresh[f]
  /\ \A x \in Exchanges : n # presented[x]

TokenInv ==
  /\ retired \cup expired \subseteq 0..minted /\ 0 \notin expired
  /\ access <= minted /\ refresh <= minted
  /\ \A f \in Flows : flowRefresh[f] <= minted /\ flowMinted[f] <= minted
  /\ \A x \in Exchanges :
       /\ presented[x] <= minted /\ issued[x] <= minted
       /\ exchange[x] \in {"rotated", "renewed"} <=> issued[x] # 0
       /\ issued[x] # 0 => Fresh(issued[x])
       /\ \A y \in Exchanges : y # x /\ issued[x] # 0 => issued[y] # issued[x]

(* A replaced refresh token is held only for want of the answer that        *)
(* replaces it.                                                             *)
RefreshInv == refresh \in retired => refresh = 0 \/ refresh \in unheard

(* What a waiting call should not go out with, it will not: neither the     *)
(* token it was given, nor the session's, nor a refresh's.                  *)
ShunInv ==
  \A r \in Requests :
    /\ shunned[r] \subseteq expired
    /\ \A f \in Flows : flowMinted[f] \notin shunned[r]
    /\ pc[r] = "queued" => access \notin shunned[r] /\ header[r] \notin shunned[r]

LEMMA TokenTypes ==
  ASSUME TypeOK
  PROVE  /\ minted \in Nat /\ access \in Nat /\ refresh \in Nat
         /\ \A f \in Flows : flowRefresh[f] \in Nat /\ flowMinted[f] \in Nat
         /\ \A x \in Exchanges : presented[x] \in Nat /\ issued[x] \in Nat
         /\ \A r \in Requests : header[r] \in Nat
BY SessionAssumption DEF TypeOK, Token

(* What a request does to the tokens: it can clear the session's, and hand  *)
(* its refresh token to a refresh.                                          *)
LEMMA RequestTokens ==
  ASSUME IInv, NEW r \in Requests, Call(r) \/ Respond(r) \/ Continue(r)
  PROVE  /\ minted' = minted /\ expired' = expired
         /\ retired' = retired /\ UNCHANGED outside /\ flowMinted' = flowMinted
         /\ access' \in {access, 0} /\ refresh' \in {refresh, 0}
         /\ \A f \in Flows : flowRefresh'[f] \in {flowRefresh[f], refresh}
<1>1. /\ UNCHANGED server
      /\ access' \in {access, 0} /\ refresh' \in {refresh, 0}
  BY DEF Call, CallRefreshing, CallWithDeadSession, CallQueued, CallSent, Prepare,
         Respond, RespondOk, Refresh401, Reject401, RespondServerError, LoseResponse,
         Continue, Resend, EscalateError, CallbackReturns, LogoutFinally,
         RefreshTokenExpired, ClearTokens, tokens
<1>2. flowMinted' = flowMinted /\ \A f \in Flows : flowRefresh'[f] \in {flowRefresh[f], refresh}
  <2>1. CASE UNCHANGED flows
    BY <2>1 DEF flows
  <2>2. CASE \E state \in WaitStates : JoinOrStart(r, state)
    BY <2>2 DEF JoinOrStart, StartFlow, flows, IInv, TypeOK
  <2> QED
    BY <2>1, <2>2
    DEF Call, CallRefreshing, CallWithDeadSession, CallQueued, CallSent,
        Respond, RespondOk, Refresh401, Reject401, RespondServerError, LoseResponse,
        Continue, Resend, EscalateError, CallbackReturns, LogoutFinally, WaitStates
<1> QED BY <1>1, <1>2 DEF server

(* TokenInv where the server mints nothing and nothing new is given out.    *)
LEMMA TokensKept ==
  ASSUME TypeOK, TypeOK', TokenInv, UNCHANGED <<minted, exchange, presented, issued>>,
         access' \in {access, 0}, refresh' \in {refresh, 0},
         retired' \subseteq retired \cup {flowRefresh[f] : f \in Flows},
         expired' \subseteq expired \cup ({access} \ {0}),
         \A f \in Flows : /\ flowRefresh'[f] \in {flowRefresh[f], refresh, 0}
                          /\ flowMinted'[f] \in {flowMinted[f], 0}
  PROVE  TokenInv'
<1> USE TokenTypes
<1>1. retired' \cup expired' \subseteq 0..minted' /\ 0 \notin expired'
  BY DEF TokenInv
<1>2. ASSUME NEW n, n # 0, Fresh(n) PROVE Fresh(n)'
  BY <1>2 DEF Fresh
<1> QED BY <1>1, <1>2 DEF TokenInv

(* TokenInv where the server mints a pair and hands it over at once.        *)
LEMMA TokensMinted ==
  ASSUME TypeOK, TypeOK', TokenInv, UNCHANGED <<exchange, presented, issued, expired, flowRefresh>>,
         minted' = minted + 1, access' = minted + 1, refresh' \in {refresh, minted + 1},
         retired' \subseteq retired \cup {flowRefresh[f] : f \in Flows},
         \A f \in Flows : flowMinted'[f] \in {flowMinted[f], minted + 1}
  PROVE  TokenInv'
<1> USE TokenTypes
<1>1. retired' \cup expired' \subseteq 0..minted' /\ 0 \notin expired'
  BY DEF TokenInv
<1>2. ASSUME NEW x \in Exchanges, issued[x] # 0 PROVE Fresh(issued[x])'
  <2>1. Fresh(issued[x]) /\ issued[x] <= minted
    BY <1>2 DEF TokenInv
  <2> QED BY <1>2, <2>1 DEF Fresh
<1> QED BY <1>1, <1>2 DEF TokenInv

LEMMA TokenStep ==
  ASSUME IInv, TokenInv, [Next]_vars
  PROVE  TokenInv'
<1>1. TypeOK /\ TypeOK'
  BY NextIInv DEF IInv
<1>2. ASSUME NEW r \in Requests, Call(r) \/ Respond(r) \/ Continue(r) PROVE TokenInv'
  BY <1>1, <1>2, RequestTokens, TokensKept DEF outside
<1>3. ASSUME NEW f \in Flows, RefreshSucceeds(f) PROVE TokenInv'
  BY <1>1, <1>3, TokensMinted DEF RefreshSucceeds, AdoptRefreshed, AdoptTokens, outside, TypeOK
<1>4. ASSUME NEW f \in Flows, RefreshRefused(f) \/ EscalationReported(f) \/ Settle(f)
      PROVE  TokenInv'
  <2>1. /\ UNCHANGED <<minted, exchange, presented, issued, expired>>
        /\ access' \in {access, 0} /\ refresh' \in {refresh, 0}
        /\ retired' \subseteq retired \cup {flowRefresh[f]}
    BY <1>4 DEF RefreshRefused, EscalationReported, Settle, FailRefresh, ClearTokens,
                tokens, server, outside
  <2>2. \A g \in Flows : /\ flowRefresh'[g] \in {flowRefresh[g], 0}
                         /\ flowMinted'[g] \in {flowMinted[g], 0}
    BY <1>1, <1>4 DEF RefreshRefused, EscalationReported, Settle, TypeOK
  <2> QED BY <1>1, <2>1, <2>2, TokensKept
<1>5. CASE Login
  BY <1>1, <1>5, TokensMinted DEF Login, AdoptTokens, flows, outside
<1>6. CASE Expire
  BY <1>1, <1>6, TokensKept DEF Expire, tokens, flows, outside
<1>7. CASE SetAccessToken
  BY <1>1, <1>7, TokensKept DEF SetAccessToken, flows, server, outside
<1>8. ASSUME NEW x \in Exchanges, Exchange(x) PROVE TokenInv'
  <2> USE TokenTypes, <1>1
  <2>1. CASE ExchangeCalled(x)
    <3>1. PICK t \in KnownTokens : presented' = [presented EXCEPT ![x] = t]
      BY <2>1 DEF ExchangeCalled
    <3>2. t \in 1..minted /\ \A y \in Exchanges : t # issued[y]
      BY <3>1 DEF KnownTokens
    <3>3. /\ UNCHANGED <<minted, access, refresh, retired, expired, issued, flowRefresh, flowMinted>>
          /\ exchange[x] = "idle" /\ exchange' = [exchange EXCEPT ![x] = "posted"]
      BY <2>1 DEF ExchangeCalled, tokens, flows
    <3>4. ASSUME NEW y \in Exchanges, issued[y] # 0 PROVE Fresh(issued[y])'
      BY <3>1, <3>2, <3>3, <3>4 DEF TokenInv, Fresh, TypeOK
    <3>5. \A y \in Exchanges : /\ presented'[y] <= minted
                               /\ exchange'[y] \in {"rotated", "renewed"} <=> issued[y] # 0
      BY <3>1, <3>2, <3>3 DEF TokenInv, TypeOK
    <3> QED BY <3>3, <3>4, <3>5 DEF TokenInv
  <2>2. CASE ExchangeCarriedOut(x)
    <3>1. /\ minted' = minted + 1 /\ issued' = [issued EXCEPT ![x] = minted + 1]
          /\ retired' \subseteq retired \cup {presented[x]}
          /\ UNCHANGED <<access, refresh, expired, presented, flowRefresh, flowMinted>>
      BY <2>2 DEF ExchangeCarriedOut, tokens, flows
    <3>2. /\ exchange'[x] \in {"rotated", "renewed"}
          /\ \A y \in Exchanges \ {x} : exchange'[y] = exchange[y]
      BY <2>2 DEF ExchangeCarriedOut, TypeOK
    <3>3. issued'[x] = minted + 1 /\ \A y \in Exchanges \ {x} : issued'[y] = issued[y]
      BY <3>1 DEF TypeOK
    <3>4. ASSUME NEW y \in Exchanges, NEW n, n = issued'[y], n # 0 PROVE Fresh(n)'
      <4>1. CASE y = x
        BY <3>1, <3>3, <3>4, <4>1 DEF TokenInv, Fresh
      <4>2. CASE y # x
        <5>1. n = issued[y] /\ Fresh(n) /\ n # presented[x]
          BY <3>3, <3>4, <4>2 DEF TokenInv, Fresh
        <5> QED BY <3>1, <5>1 DEF Fresh
      <4> QED BY <4>1, <4>2
    <3>5. retired' \cup expired' \subseteq 0..minted' /\ 0 \notin expired'
      BY <3>1 DEF TokenInv
    <3>6. /\ access' <= minted' /\ refresh' <= minted'
          /\ \A f \in Flows : flowRefresh'[f] <= minted' /\ flowMinted'[f] <= minted'
      BY <3>1 DEF TokenInv
    <3>7. ASSUME NEW y \in Exchanges
          PROVE  /\ presented'[y] <= minted' /\ issued'[y] <= minted'
                 /\ exchange'[y] \in {"rotated", "renewed"} <=> issued'[y] # 0
                 /\ \A z \in Exchanges : z # y /\ issued'[y] # 0 => issued'[z] # issued'[y]
      BY <3>1, <3>2, <3>3 DEF TokenInv
    <3> QED BY <3>4, <3>5, <3>6, <3>7 DEF TokenInv, Fresh
  <2>3. CASE ExchangeAdopted(x)
    <3> DEFINE t == issued[x]
    <3>1. /\ access' = t /\ refresh' \in {refresh, t} /\ EndExchange(x)
          /\ UNCHANGED <<minted, expired, retired, flowRefresh, flowMinted>>
      BY <2>3 DEF ExchangeAdopted, AdoptTokens, flows
    <3>2. /\ exchange'[x] = "idle" /\ presented'[x] = 0 /\ issued'[x] = 0
          /\ \A y \in Exchanges \ {x} : /\ exchange'[y] = exchange[y]
                                       /\ presented'[y] = presented[y] /\ issued'[y] = issued[y]
      BY <3>1 DEF EndExchange, TypeOK
    <3>3. ASSUME NEW y \in Exchanges, NEW n, n = issued'[y], n # 0 PROVE Fresh(n)'
      <4>1. y # x /\ n = issued[y] /\ Fresh(n)
        BY <3>2, <3>3 DEF TokenInv
      <4>2. n # t
        BY <3>3, <4>1 DEF TokenInv
      <4> QED BY <3>1, <3>2, <3>3, <4>1, <4>2 DEF Fresh
    <3>4. t <= minted
      BY DEF TokenInv
    <3>5. /\ retired' \cup expired' \subseteq 0..minted' /\ 0 \notin expired'
          /\ access' <= minted' /\ refresh' <= minted'
          /\ \A f \in Flows : flowRefresh'[f] <= minted' /\ flowMinted'[f] <= minted'
      BY <3>1, <3>4 DEF TokenInv
    <3>6. ASSUME NEW y \in Exchanges
          PROVE  /\ presented'[y] <= minted' /\ issued'[y] <= minted'
                 /\ exchange'[y] \in {"rotated", "renewed"} <=> issued'[y] # 0
                 /\ \A z \in Exchanges : z # y /\ issued'[y] # 0 => issued'[z] # issued'[y]
      BY <3>1, <3>2 DEF TokenInv
    <3> QED BY <3>3, <3>5, <3>6 DEF TokenInv, Fresh
  <2>4. CASE ExchangeFails(x)
    <3>1. /\ access' \in {access, 0} /\ refresh' \in {refresh, 0} /\ EndExchange(x)
          /\ UNCHANGED <<minted, expired, retired, flowRefresh, flowMinted>>
      BY <2>4 DEF ExchangeFails, ClearTokens, tokens, flows
    <3>2. /\ exchange'[x] = "idle" /\ presented'[x] = 0 /\ issued'[x] = 0
          /\ \A y \in Exchanges \ {x} : /\ exchange'[y] = exchange[y]
                                       /\ presented'[y] = presented[y] /\ issued'[y] = issued[y]
      BY <3>1 DEF EndExchange, TypeOK
    <3>3. ASSUME NEW y \in Exchanges, NEW n, n = issued'[y], n # 0 PROVE Fresh(n)'
      <4>1. y # x /\ n = issued[y] /\ Fresh(n)
        BY <3>2, <3>3 DEF TokenInv
      <4> QED BY <3>1, <3>2, <3>3, <4>1 DEF Fresh
    <3>5. /\ retired' \cup expired' \subseteq 0..minted' /\ 0 \notin expired'
          /\ access' <= minted' /\ refresh' <= minted'
          /\ \A f \in Flows : flowRefresh'[f] <= minted' /\ flowMinted'[f] <= minted'
      BY <3>1 DEF TokenInv
    <3>6. ASSUME NEW y \in Exchanges
          PROVE  /\ presented'[y] <= minted' /\ issued'[y] <= minted'
                 /\ exchange'[y] \in {"rotated", "renewed"} <=> issued'[y] # 0
                 /\ \A z \in Exchanges : z # y /\ issued'[y] # 0 => issued'[z] # issued'[y]
      BY <3>1, <3>2 DEF TokenInv
    <3> QED BY <3>3, <3>5, <3>6 DEF TokenInv, Fresh
  <2> QED BY <1>8, <2>1, <2>2, <2>3, <2>4 DEF Exchange
<1>9. CASE UNCHANGED vars
  BY <1>9 DEF vars, tokens, flows, server, outside, TokenInv, Fresh
<1> QED BY <1>2, <1>3, <1>4, <1>5, <1>6, <1>7, <1>8, <1>9 DEF Next, Proceed

LEMMA TokensAlways == Spec => []TokenInv
<1>1. Init => TokenInv
  BY DEF Init, TokenInv
<1>2. IInv /\ TokenInv /\ [Next]_vars => TokenInv'
  BY TokenStep
<1> QED BY <1>1, <1>2, Inductive, PTL DEF Spec

(* The session never reuses a refresh token on its own account: every step  *)
(* that has one replaced sets the session's in the same step, except that   *)
(* of an auth.refresh().                                                    *)
THEOREM NoTokenReuse == Spec => RetiredNeverSent
<1>1. Init => RefreshInv
  BY DEF Init, RefreshInv
<1>2. IInv /\ TokenInv /\ RefreshInv /\ [Next]_vars => RefreshInv'
  <2> SUFFICES ASSUME IInv, TokenInv, RefreshInv, [Next]_vars PROVE RefreshInv'
    OBVIOUS
  <2> USE TokenTypes DEF RefreshInv
  <2>0. TypeOK
    BY DEF IInv
  <2>1. ASSUME NEW r \in Requests, Call(r) \/ Respond(r) \/ Continue(r) PROVE RefreshInv'
    BY <2>1, RequestTokens DEF outside
  <2>2. ASSUME NEW f \in Flows, Proceed(f) PROVE RefreshInv'
    <3>1. CASE RefreshSucceeds(f)
      <4>1. PICK rotates \in BOOLEAN :
              /\ refresh' = IF rotates THEN minted + 1 ELSE refresh
              /\ retired' = IF rotates THEN retired \cup {flowRefresh[f]} ELSE retired
        BY <3>1 DEF RefreshSucceeds, AdoptRefreshed, AdoptTokens
      <4>2. minted + 1 \notin retired \cup {flowRefresh[f]}
        BY <2>0 DEF TokenInv
      <4>3. unheard' = unheard
        BY <3>1 DEF RefreshSucceeds, outside
      <4> QED BY <4>1, <4>2, <4>3
    <3>2. CASE RefreshRefused(f)
      BY <3>2 DEF RefreshRefused, ClearTokens, FailRefresh, outside
    <3>3. CASE EscalationReported(f) \/ Settle(f)
      BY <3>3 DEF EscalationReported, Settle, FailRefresh, ClearTokens, tokens, server, outside
    <3> QED BY <2>2, <3>1, <3>2, <3>3 DEF Proceed
  <2>3. CASE Login
    <3>1. refresh' = minted + 1 /\ retired' = retired
      BY <2>3 DEF Login, AdoptTokens
    <3> QED BY <2>0, <3>1 DEF TokenInv
  <2>4. CASE Expire \/ SetAccessToken
    BY <2>4 DEF Expire, SetAccessToken, tokens, server, outside
  <2>5. ASSUME NEW x \in Exchanges, Exchange(x) PROVE RefreshInv'
    <3>1. CASE ExchangeCalled(x) \/ ExchangeFails(x)
      BY <3>1 DEF ExchangeCalled, ExchangeFails, ClearTokens, tokens
    <3>2. CASE ExchangeCarriedOut(x)
      BY <3>2 DEF ExchangeCarriedOut, tokens
    <3>3. CASE ExchangeAdopted(x)
      <4>1. CASE exchange[x] = "rotated"
        <5>1. refresh' = issued[x] /\ retired' = retired
          BY <3>3, <4>1 DEF ExchangeAdopted, AdoptTokens
        <5>2. issued[x] \notin retired
          BY <4>1 DEF TokenInv, Fresh
        <5> QED BY <5>1, <5>2
      <4>2. CASE exchange[x] # "rotated"
        BY <3>3, <4>2 DEF ExchangeAdopted, AdoptTokens
      <4> QED BY <4>1, <4>2
    <3> QED BY <2>5, <3>1, <3>2, <3>3 DEF Exchange
  <2>6. CASE UNCHANGED vars
    BY <2>6 DEF vars, tokens, server, outside
  <2> QED BY <2>1, <2>2, <2>3, <2>4, <2>5, <2>6 DEF Next
<1>3. IInv /\ RefreshInv /\ [Next]_vars
        => [\A f \in Flows :
              flow[f] = "idle" /\ flow'[f] = "posted" /\ flowRefresh'[f] \in retired
              => flowRefresh'[f] \in unheard]_vars
  <2> SUFFICES ASSUME IInv, RefreshInv, Next, NEW f \in Flows,
                      flow[f] = "idle", flow'[f] = "posted", flowRefresh'[f] \in retired
               PROVE  flowRefresh'[f] \in unheard
    BY DEF vars, flows
  <2>1. flowRefresh'[f] = refresh /\ refresh # 0
    <3>1. ASSUME NEW r \in Requests, NEW state, JoinOrStart(r, state) PROVE flowRefresh'[f] = refresh
      BY <3>1 DEF JoinOrStart, StartFlow, flows, IInv, TypeOK
    <3>2. ASSUME NEW r \in Requests, Call(r) PROVE flowRefresh'[f] = refresh /\ refresh # 0
      BY <3>1, <3>2 DEF Call, CallRefreshing, ProactiveRefreshNeeded, CallWithDeadSession,
                        CallQueued, CallSent, flows
    <3>3. ASSUME NEW r \in Requests, Respond(r) PROVE flowRefresh'[f] = refresh /\ refresh # 0
      BY <3>1, <3>3 DEF Respond, RespondOk, Refresh401, Reject401, RespondServerError,
                        LoseResponse, flows
    <3>4. ASSUME NEW r \in Requests, Continue(r) PROVE FALSE
      BY <3>4 DEF Continue, Resend, EscalateError, CallbackReturns, LogoutFinally, flows
    <3>5. ASSUME NEW g \in Flows, Proceed(g) PROVE FALSE
      BY <3>5 DEF Proceed, RefreshSucceeds, RefreshRefused, FailRefresh, EscalationReported,
                  Settle, IInv, TypeOK
    <3>6. ~Login /\ ~SetAccessToken /\ ~Expire /\ \A x \in Exchanges : ~Exchange(x)
      BY DEF Login, SetAccessToken, Expire, Exchange, ExchangeCalled, ExchangeCarriedOut,
             ExchangeAdopted, ExchangeFails, flows
    <3> QED BY <3>2, <3>3, <3>4, <3>5, <3>6 DEF Next
  <2> QED BY <2>1 DEF RefreshInv
<1> QED BY <1>1, <1>2, <1>3, Inductive, TokensAlways, PTL DEF Spec, RetiredNeverSent

LEMMA AvoidableTokens ==
         /\ Avoidable \subseteq expired
         /\ \A f \in Flows : flowMinted[f] \notin Avoidable
BY DEF Avoidable

(* What a call is not held back for: with a token of the session's that it  *)
(* should not go out with.                                                  *)
LEMMA NotHeldBack ==
  ASSUME TokenInv, SessionMatchesHttp, ~ProactiveRefreshNeeded
  PROVE  access \notin Avoidable /\ httpToken \notin Avoidable
BY DEF Avoidable, SessionMatchesHttp, ProactiveRefreshNeeded, IsAccessTokenExpired, TokenInv

LEMMA ShunStep ==
  ASSUME IInv, TokenInv, SessionMatchesHttp, ShunInv, [Next]_vars
  PROVE  ShunInv'
<1> USE TokenTypes, AvoidableTokens
<1>0. TypeOK
  BY DEF IInv
<1>1. ASSUME UNCHANGED <<flowMinted, shunned>>, expired \subseteq expired', access' \in {access, 0},
             \A r \in Requests : pc'[r] = "queued" => pc[r] = "queued" /\ header'[r] = header[r]
      PROVE  ShunInv'
  BY <1>1 DEF ShunInv, TokenInv
<1>2. ASSUME UNCHANGED <<calls, shunned, expired>>, access' \notin expired,
             \A f \in Flows : flowMinted'[f] = flowMinted[f] \/ flowMinted'[f] \notin expired
      PROVE  ShunInv'
  BY <1>2 DEF ShunInv, calls
<1>3. ASSUME NEW r \in Requests, Call(r) PROVE ShunInv'
  <2>1. UNCHANGED <<flowMinted, expired>> /\ access' \in {access, 0}
    BY <1>3, RequestTokens
  <2>2. CASE CallRefreshing(r) \/ CallQueued(r)
    <3>1. /\ shunned' = [shunned EXCEPT ![r] = Avoidable]
          /\ header' = [header EXCEPT ![r] = httpToken]
          /\ access' = access
      BY <2>2 DEF CallRefreshing, CallQueued, Remember, tokens
    <3>2. ASSUME NEW q \in Requests, q # r PROVE pc'[q] = pc[q]
      BY <1>0, <2>2, <3>2 DEF CallRefreshing, CallQueued, JoinOrStart, Wait, TypeOK
    <3>3. pc'[r] = "queued" => ~ProactiveRefreshNeeded
      BY <1>0, <2>2 DEF CallRefreshing, CallQueued, JoinOrStart, Wait, TypeOK
    <3> QED BY <1>0, <2>1, <3>1, <3>2, <3>3, NotHeldBack DEF ShunInv, TypeOK
  <2>3. CASE CallWithDeadSession(r) \/ CallSent(r)
    <3>1. /\ shunned' = shunned
          /\ \A q \in Requests : pc'[q] = "queued" => pc[q] = "queued" /\ header'[q] = header[q]
      BY <1>0, <2>3 DEF CallWithDeadSession, RefreshTokenExpired, CallSent, Send, TypeOK
    <3> QED BY <1>1, <2>1, <3>1
  <2> QED BY <1>3, <2>2, <2>3 DEF Call
<1>4. ASSUME NEW r \in Requests, Respond(r) \/ Continue(r) PROVE ShunInv'
  <2>1. UNCHANGED <<flowMinted, expired>> /\ access' \in {access, 0}
    BY <1>4, RequestTokens
  <2>2. shunned' = shunned
    BY <1>4 DEF Respond, RespondOk, Refresh401, Reject401, RespondServerError, LoseResponse,
                Continue, Resend, EscalateError, CallbackReturns, LogoutFinally, history
  <2>3. \A q \in Requests \ {r} : pc'[q] = pc[q] /\ header'[q] = header[q]
    BY <1>0, <1>4
    DEF Respond, RespondOk, Refresh401, JoinOrStart, Wait, RefreshTokenExpired, Reject401,
        RespondServerError, LoseResponse, RetryOrFail, End, Continue, Resend, Send,
        EscalateError, CallbackReturns, LogoutFinally, TypeOK
  <2>4. pc'[r] # "queued"
    <3>1. ASSUME Respond(r) PROVE pc'[r] # "queued"
      BY <1>0, <3>1 DEF Respond, RespondOk, Refresh401, JoinOrStart, Wait, RefreshTokenExpired,
                  Reject401, RespondServerError, LoseResponse, RetryOrFail, End, TypeOK
    <3>2. ASSUME Continue(r) PROVE pc'[r] # "queued"
      BY <1>0, <3>2 DEF Continue, Resend, Send, EscalateError, End, CallbackReturns,
                  LogoutFinally, TypeOK
    <3> QED BY <1>4, <3>1, <3>2
  <2>5. \A q \in Requests : pc'[q] = "queued" => pc[q] = "queued" /\ header'[q] = header[q]
    BY <2>3, <2>4
  <2> QED BY <1>1, <2>1, <2>2, <2>5
<1>5. ASSUME NEW f \in Flows, Proceed(f) PROVE ShunInv'
  <2>1. CASE RefreshSucceeds(f)
    <3>1. /\ UNCHANGED <<calls, shunned, expired>> /\ access' = minted + 1
          /\ flowMinted' = [flowMinted EXCEPT ![f] = minted + 1]
      BY <2>1 DEF RefreshSucceeds, AdoptRefreshed, AdoptTokens, history
    <3>2. minted + 1 \notin expired
      BY <1>0 DEF TokenInv
    <3>3. \A g \in Flows : flowMinted'[g] \in {flowMinted[g], minted + 1}
      BY <1>0, <3>1 DEF TypeOK
    <3> QED BY <1>2, <3>1, <3>2, <3>3
  <2>2. CASE RefreshRefused(f) \/ EscalationReported(f)
    <3>1. UNCHANGED <<calls, flowMinted, shunned, expired>> /\ access' \in {access, 0}
      BY <2>2 DEF RefreshRefused, EscalationReported, FailRefresh, ClearTokens, server, history
    <3> QED BY <1>1, <3>1 DEF calls
  <2>3. CASE Settle(f)
    <3>1. /\ UNCHANGED <<expired, access>>
          /\ \A g \in Flows : flowMinted'[g] \in {flowMinted[g], 0}
      BY <1>0, <2>3 DEF Settle, tokens, server, TypeOK
    <3>2. \A r \in Requests :
            \/ shunned'[r] = {}
            \/ shunned'[r] = shunned[r] /\ pc'[r] = pc[r] /\ header'[r] = header[r]
      BY <2>3, Zenon DEF Settle
    <3>3. \A r \in Requests : 0 \notin shunned[r]
      BY DEF ShunInv, TokenInv
    <3> QED BY <3>1, <3>2, <3>3 DEF ShunInv
  <2> QED BY <1>5, <2>1, <2>2, <2>3 DEF Proceed
<1>6. CASE Login
  <2>1. minted + 1 \notin expired
    BY <1>0 DEF TokenInv
  <2> QED BY <1>2, <1>6, <2>1 DEF Login, AdoptTokens, flows
<1>7. CASE SetAccessToken \/ Expire
  BY <1>1, <1>7 DEF SetAccessToken, Expire, calls, tokens, flows, server, history
<1>8. ASSUME NEW x \in Exchanges, Exchange(x) PROVE ShunInv'
  <2>1. CASE ExchangeCalled(x) \/ ExchangeCarriedOut(x) \/ ExchangeFails(x)
    BY <1>1, <2>1 DEF ExchangeCalled, ExchangeCarriedOut, ExchangeFails, ClearTokens,
                      calls, tokens, flows, history
  <2>2. CASE ExchangeAdopted(x)
    <3>1. access' = issued[x] /\ UNCHANGED <<calls, flows, expired, shunned>>
      BY <2>2 DEF ExchangeAdopted, AdoptTokens, history
    <3>2. issued[x] \notin expired
      BY <2>2 DEF ExchangeAdopted, TokenInv, Fresh
    <3> QED BY <1>2, <3>1, <3>2 DEF flows
  <2> QED BY <1>8, <2>1, <2>2 DEF Exchange
<1>9. CASE UNCHANGED vars
  BY <1>1, <1>9 DEF vars, calls, tokens, flows, server, history
<1> QED BY <1>3, <1>4, <1>5, <1>6, <1>7, <1>8, <1>9 DEF Next

(* A call that is sent at once carries a token that has not expired, as far *)
(* as can be known; one that had to wait carries none of those that made it *)
(* wait, whatever refreshes, logs in or expires while it waits.             *)
THEOREM ExpiredNotSent == Spec => NotSentExpired
<1>1. Init => ShunInv
  BY DEF Init, ShunInv
<1>2. IInv /\ TokenInv /\ SessionMatchesHttp /\ ShunInv /\ [Next]_vars => ShunInv'
  BY ShunStep
<1>3. IInv /\ TokenInv /\ SessionMatchesHttp /\ ShunInv /\ [Next]_vars
        => [\A r \in Requests :
              sends[r] = 0 /\ sends'[r] = 1
              => header'[r] \notin IF pc[r] = "idle" THEN Avoidable ELSE shunned[r]]_vars
  <2> SUFFICES ASSUME IInv, TokenInv, SessionMatchesHttp, ShunInv, Next, NEW r \in Requests,
                      sends[r] = 0, sends'[r] = 1
               PROVE  header'[r] \notin IF pc[r] = "idle" THEN Avoidable ELSE shunned[r]
    BY DEF vars, calls
  <2>0. TypeOK
    BY DEF IInv
  <2>1. pc[r] \notin {"awaiting401", "backoff"}
    BY DEF IInv, CallInv, CallAccount
  <2>2. ASSUME NEW q \in Requests, Call(q)
        PROVE  header'[r] \notin IF pc[r] = "idle" THEN Avoidable ELSE shunned[r]
    <3>1. CallSent(q) /\ q = r
      BY <2>0, <2>2 DEF Call, CallRefreshing, CallWithDeadSession, CallQueued, CallSent, Send, TypeOK
    <3>2. pc[r] = "idle" /\ header'[r] = httpToken /\ ~ProactiveRefreshNeeded
      BY <2>0, <3>1 DEF CallSent, Prepare, Send, TypeOK
    <3> QED BY <3>2, NotHeldBack
  <2>3. ASSUME NEW q \in Requests, Respond(q) PROVE FALSE
    BY <2>0, <2>3 DEF Respond, RespondOk, Refresh401, Reject401, RespondServerError,
                      LoseResponse, RetryOrFail, End, TypeOK
  <2>4. ASSUME NEW q \in Requests, Continue(q) PROVE FALSE
    BY <2>0, <2>1, <2>4 DEF Continue, Resend, Send, EscalateError, CallbackReturns,
                            LogoutFinally, End, TypeOK
  <2>5. ASSUME NEW f \in Flows, Proceed(f)
        PROVE  header'[r] \notin IF pc[r] = "idle" THEN Avoidable ELSE shunned[r]
    <3>1. Settle(f)
      BY <2>5 DEF Proceed, RefreshSucceeds, RefreshRefused, EscalationReported, calls
    <3>2. /\ r \in Wakes(f) /\ Resumed(r, flow[f] = "updating") \in {"sent", "replay"}
          /\ header'[r] = ResumedHeader(r, f, flow[f] = "updating")
      BY <3>1 DEF Settle
    <3>3. pc[r] \in {"proactive", "queued"}
      <4>1. pc[r] \in WaitStates
        BY <2>0, <3>2, SessionAssumption DEF Wakes, IInv, FlowInv
      <4> QED BY <2>1, <4>1 DEF WaitStates
    <3>4. CASE pc[r] = "proactive"
      BY <3>2, <3>4 DEF Resumed, ResumedHeader, ShunInv
    <3>5. CASE pc[r] = "queued"
      BY <3>2, <3>5 DEF ResumedHeader, ShunInv
    <3> QED BY <3>3, <3>4, <3>5
  <2>6. ASSUME Login \/ SetAccessToken \/ Expire \/ \E x \in Exchanges : Exchange(x)
        PROVE  FALSE
    <3>1. sends' = sends
      BY <2>6, Zenon
      DEF Login, SetAccessToken, Expire, Exchange, ExchangeCalled, ExchangeCarriedOut,
          ExchangeAdopted, ExchangeFails, calls
    <3> QED BY <3>1
  <2> QED BY <2>2, <2>3, <2>4, <2>5, <2>6 DEF Next
<1> QED
  BY <1>1, <1>2, <1>3, Inductive, TokensAlways, SessionAndHttpAgree, PTL DEF Spec, NotSentExpired

=============================================================================
