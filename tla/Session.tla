------------------------------- MODULE Session -------------------------------
(***************************************************************************)
(* The authenticated request path of the Astroid client: the request loop  *)
(* of core/http-client.ts, the SessionManager and its middleware           *)
(* (auth/session.ts), the 401 handler and the refresh queue                *)
(* (client/token-refresh.ts) and AuthResource's login and logout, wired    *)
(* the way the Astroid constructor wires them.                             *)
(*                                                                         *)
(* Tokens are numbered in the order the server mints them; 0 is no token.  *)
(* An action is what runs between two awaits of something external: a      *)
(* response, an application callback, a back-off.  What promise callbacks  *)
(* do among themselves is part of the action that resolves the promise.    *)
(***************************************************************************)
EXTENDS Integers

CONSTANTS
  Requests,     \* the calls the application makes
  Logouts,      \* those of them that are auth.logout()
  Flows,        \* identities for refreshes in flight
  NoFlow,       \* activeRefreshPromise = null
  Exchanges,    \* the calls of auth.refresh(); one that is over may be made again
  Overrides,    \* the tokens it may give to Astroid.setAccessToken(), 0 for none
  MaxAttempts,  \* attempts of a retryable request (maxRetries + 1)
  MaxTokens     \* bound: token pairs the server mints

ASSUME SessionAssumption ==
  /\ Logouts \subseteq Requests
  /\ Flows # {} /\ NoFlow \notin Flows
  /\ Overrides \subseteq Nat
  /\ MaxAttempts \in Nat \ {0}
  /\ MaxTokens \in Nat \ {0}

VARIABLES
  pc,             \* where each request stands
  header,         \* the token in its authorization header
  attempt,        \* the attempt it is on
  retried401,     \* its context._is401Retry
  waitsFor,       \* the refresh whose promise it awaits
  access,         \* SessionManager.accessToken
  refresh,        \* SessionManager.refreshToken
  httpToken,      \* HttpClient.config.auth.accessToken
  overridden,     \* the application was the last to set httpToken
  activeRefresh,  \* SessionManager.activeRefreshPromise
  flow,           \* where each refresh stands
  flowRefresh,    \* the refresh token it sent
  flowMinted,     \* the access token it got
  exchange,       \* where each auth.refresh() stands
  presented,      \* the refresh token it sent
  issued,         \* the tokens it was answered with
  minted,         \* the server's last token
  expired,        \* access tokens whose exp claim has passed
  expiredRefresh, \* refresh tokens whose exp claim has passed
  sends,          \* history: transport calls made for each request
  retired,        \* history: refresh tokens the server has replaced
  unheard,        \* history: those an auth.refresh() replaced, its answer not come
  shunned,        \* history: expired tokens a waiting call should not go out with
  loggedOut       \* history: logged out and not logged in since

http    == <<httpToken, overridden>>
tokens  == <<access, refresh, http>>
flows   == <<activeRefresh, flow, flowRefresh, flowMinted>>
calls   == <<pc, header, attempt, retried401, waitsFor, sends>>
outside == <<exchange, presented, issued, unheard>>
server  == <<minted, expired, expiredRefresh, retired, outside>>
history == <<shunned, loggedOut>>
vars    == <<calls, tokens, flows, server, history>>

Token == 0..MaxTokens

CallStates == {"idle", "proactive", "queued", "sent", "replay", "backoff", "awaiting401",
               "expired401", "rejected", "reporting", "ok", "failed", "closed"}
FlowStates == {"idle", "posted", "updating", "escalating", "failing"}
ExchangeStates == {"idle", "posted", "rotated", "renewed"}

Init ==
  /\ pc = [r \in Requests |-> "idle"]
  /\ header = [r \in Requests |-> 0]
  /\ attempt = [r \in Requests |-> 1]
  /\ retried401 = [r \in Requests |-> FALSE]
  /\ waitsFor = [r \in Requests |-> NoFlow]
  /\ access = 1 /\ refresh = 1 /\ httpToken = 1 /\ overridden = FALSE
  /\ activeRefresh = NoFlow
  /\ flow = [f \in Flows |-> "idle"]
  /\ flowRefresh = [f \in Flows |-> 0]
  /\ flowMinted = [f \in Flows |-> 0]
  /\ exchange = [x \in Exchanges |-> "idle"]
  /\ presented = [x \in Exchanges |-> 0]
  /\ issued = [x \in Exchanges |-> 0]
  /\ minted = 1
  /\ expired = {} /\ expiredRefresh = {}
  /\ sends = [r \in Requests |-> 0]
  /\ retired = {} /\ unheard = {}
  /\ shunned = [r \in Requests |-> {}]
  /\ loggedOut = FALSE

-----------------------------------------------------------------------------
HoldsTokens == access # 0 \/ refresh # 0

ClearTokens == access' = 0 /\ refresh' = 0

IsAccessTokenExpired == access = 0 \/ access \in expired

(* Logout is a POST without an idempotency key, so it is not retryable.     *)
Attempts(r) == IF r \in Logouts THEN 1 ELSE MaxAttempts

(* refreshSession(): join the refresh in flight, or start one.  The caller  *)
(* r waits for it in the state given.                                       *)
Wait(r, f, state) ==
  /\ pc' = [pc EXCEPT ![r] = state]
  /\ waitsFor' = [waitsFor EXCEPT ![r] = f]

StartFlow(f) ==
  /\ flow[f] = "idle"
  /\ flow' = [flow EXCEPT ![f] = "posted"]
  /\ flowRefresh' = [flowRefresh EXCEPT ![f] = refresh]
  /\ activeRefresh' = f
  /\ UNCHANGED flowMinted

FreeFlow == CHOOSE f \in Flows : flow[f] = "idle"

JoinOrStartAlwaysStarts(r, state) ==
  /\ refresh \notin expiredRefresh
  /\ Wait(r, FreeFlow, state)
  /\ StartFlow(FreeFlow)

JoinOrStart(r, state) ==
  \/ /\ activeRefresh # NoFlow
     /\ Wait(r, activeRefresh, state)
     /\ UNCHANGED flows
  \/ /\ activeRefresh = NoFlow
     /\ refresh \notin expiredRefresh
     /\ Wait(r, FreeFlow, state)
     /\ StartFlow(FreeFlow)

(* refreshSession() with an expired refresh token: handleAuthFailure()      *)
(* clears the session and r awaits the onAuthFailure callback.              *)
RefreshTokenExpired(r, state) ==
  /\ activeRefresh = NoFlow
  /\ refresh \in expiredRefresh
  /\ ClearTokens
  /\ pc' = [pc EXCEPT ![r] = state]
  /\ UNCHANGED waitsFor

(* The call is over: what prepare() and the loop kept for it is gone.       *)
End(r, state) ==
  /\ pc' = [pc EXCEPT ![r] = state]
  /\ header' = [header EXCEPT ![r] = 0]
  /\ attempt' = [attempt EXCEPT ![r] = 1]
  /\ retried401' = [retried401 EXCEPT ![r] = FALSE]
  /\ sends' = [sends EXCEPT ![r] = 0]

Send(r, state, token) ==
  /\ pc' = [pc EXCEPT ![r] = state]
  /\ header' = [header EXCEPT ![r] = token]
  /\ sends' = [sends EXCEPT ![r] = @ + 1]

-----------------------------------------------------------------------------
(* request(): prepare() takes the header from the HTTP client, then the     *)
(* session middleware refreshes an expired access token first, and the      *)
(* refresh queue holds the request back while a refresh is in flight.       *)
Prepare(r) ==
  /\ pc[r] = "idle"
  /\ UNCHANGED <<attempt, retried401, server, loggedOut>>

(* The tokens a call had better not go out with: it can be known that they  *)
(* have expired, there is a refresh token to replace them with, and nobody  *)
(* has put another token into the HTTP client.  A refresh that has only to  *)
(* tell the application of its token still hands that token out.            *)
Avoidable ==
  IF overridden \/ refresh = 0 THEN {} ELSE expired \ {flowMinted[f] : f \in Flows}

Remember(r) == shunned' = [shunned EXCEPT ![r] = Avoidable]

ProactiveOnlyWithoutToken == refresh # 0 /\ access = 0

ProactiveRefreshNeeded == refresh # 0 /\ IsAccessTokenExpired

CallRefreshing(r) ==
  /\ Prepare(r)
  /\ ProactiveRefreshNeeded
  /\ JoinOrStart(r, "proactive")
  /\ Remember(r)
  /\ header' = [header EXCEPT ![r] = httpToken]
  /\ UNCHANGED <<sends, tokens>>

CallWithDeadSession(r) ==
  /\ Prepare(r)
  /\ ProactiveRefreshNeeded
  /\ RefreshTokenExpired(r, "reporting")
  /\ UNCHANGED <<header, sends, http, flows, shunned>>

CallQueued(r) ==
  /\ Prepare(r)
  /\ ~ProactiveRefreshNeeded
  /\ activeRefresh # NoFlow
  /\ Wait(r, activeRefresh, "queued")
  /\ Remember(r)
  /\ header' = [header EXCEPT ![r] = httpToken]
  /\ UNCHANGED <<sends, tokens, flows>>

CallSent(r) ==
  /\ Prepare(r)
  /\ ~ProactiveRefreshNeeded
  /\ activeRefresh = NoFlow
  /\ Send(r, "sent", httpToken)
  /\ UNCHANGED <<waitsFor, tokens, flows, shunned>>

-----------------------------------------------------------------------------
(* Responses to r, in the first pass of an attempt ("sent") or to the one   *)
(* replay after a refresh ("replay").                                       *)
RespondOk(r) ==
  /\ pc[r] \in {"sent", "replay"}
  /\ End(r, "ok")
  /\ UNCHANGED <<waitsFor, tokens, flows, server, history>>

(* A first 401 goes to handleUnauthorized(), which refreshes if it can.     *)
May401Refresh(r) == pc[r] = "sent" /\ ~retried401[r]

Refresh401(r) ==
  /\ pc[r] \in {"sent", "replay"}
  /\ May401Refresh(r)
  /\ refresh # 0
  /\ retried401' = [retried401 EXCEPT ![r] = TRUE]
  /\ \/ JoinOrStart(r, "awaiting401") /\ UNCHANGED tokens
     \/ RefreshTokenExpired(r, "expired401") /\ UNCHANGED <<http, flows>>
  /\ UNCHANGED <<header, attempt, sends, server, history>>

(* Any other 401 becomes the request's error.                               *)
Reject401(r) ==
  /\ pc[r] \in {"sent", "replay"}
  /\ May401Refresh(r) => refresh = 0
  /\ retried401' = [retried401 EXCEPT ![r] = TRUE]
  /\ pc' = [pc EXCEPT ![r] = "rejected"]
  /\ UNCHANGED <<header, attempt, waitsFor, sends, tokens, flows, server, history>>

RetryOrFail(r) ==
  \/ /\ attempt[r] < Attempts(r)
     /\ pc' = [pc EXCEPT ![r] = "backoff"]
     /\ attempt' = [attempt EXCEPT ![r] = @ + 1]
     /\ UNCHANGED <<header, retried401, sends>>
  \/ attempt[r] >= Attempts(r) /\ End(r, "failed")

(* A retryable error status: the replay's is thrown without another try.    *)
RespondServerError(r) ==
  /\ \/ pc[r] = "sent" /\ RetryOrFail(r)
     \/ pc[r] = "replay" /\ End(r, "failed")
  /\ UNCHANGED <<waitsFor, tokens, flows, server, history>>

LoseResponseUncounted(r) ==
  /\ \/ pc[r] = "sent" /\ RetryOrFail(r)
     \/ /\ pc[r] = "replay"
        /\ pc' = [pc EXCEPT ![r] = "backoff"]
        /\ UNCHANGED <<header, attempt, retried401, sends>>
  /\ UNCHANGED <<waitsFor, tokens, flows, server, history>>

(* No response at all: retried even when it was the replay that got lost.   *)
LoseResponse(r) ==
  /\ pc[r] \in {"sent", "replay"}
  /\ RetryOrFail(r)
  /\ UNCHANGED <<waitsFor, tokens, flows, server, history>>

Resend(r) ==
  /\ pc[r] = "backoff"
  /\ Send(r, "sent", header[r])
  /\ UNCHANGED <<attempt, retried401, waitsFor, tokens, flows, server, history>>

(* applyError() on a 401: the session middleware ends the session if the    *)
(* error is an AuthenticationError and the session still holds tokens.      *)
EscalateError(r) ==
  /\ pc[r] = "rejected"
  /\ \/ /\ HoldsTokens
        /\ ClearTokens
        /\ pc' = [pc EXCEPT ![r] = "reporting"]
        /\ UNCHANGED <<header, attempt, retried401, sends>>
     \/ End(r, "failed") /\ UNCHANGED <<access, refresh>>
  /\ UNCHANGED <<waitsFor, http, flows, server, history>>

(* The application's onAuthFailure callback returns.                        *)
CallbackReturns(r) ==
  /\ \/ pc[r] = "reporting" /\ End(r, "failed")
     \/ /\ pc[r] = "expired401"
        /\ pc' = [pc EXCEPT ![r] = "rejected"]
        /\ UNCHANGED <<header, attempt, retried401, sends>>
  /\ UNCHANGED <<waitsFor, tokens, flows, server, history>>

-----------------------------------------------------------------------------
(* POST /auth/refresh succeeds: refreshTokens() updates the HTTP client and *)
(* setTokens() the session, which then awaits onTokenUpdate.                *)
SetHttpToken(n) == httpToken' = n /\ overridden' = FALSE

AdoptTokens(n, rotates) ==
  /\ SetHttpToken(n)
  /\ access' = n
  /\ refresh' = IF rotates THEN n ELSE refresh

AdoptTokensKeepsOldRefresh(n, rotates) ==
  /\ SetHttpToken(n)
  /\ access' = n
  /\ UNCHANGED refresh

AdoptTokensInSessionOnly(n, rotates) ==
  /\ access' = n
  /\ refresh' = IF rotates THEN n ELSE refresh
  /\ UNCHANGED http

AdoptRefreshed(n, rotates) == AdoptTokens(n, rotates)

RefreshSucceeds(f) ==
  /\ flow[f] = "posted"
  /\ minted < MaxTokens
  /\ minted' = minted + 1
  /\ \E rotates \in BOOLEAN :
       /\ AdoptRefreshed(minted + 1, rotates)
       /\ retired' = IF rotates THEN retired \cup {flowRefresh[f]} ELSE retired
  /\ flow' = [flow EXCEPT ![f] = "updating"]
  /\ flowMinted' = [flowMinted EXCEPT ![f] = minted + 1]
  /\ UNCHANGED <<calls, activeRefresh, flowRefresh, expired, expiredRefresh, outside, history>>

(* The catch of refreshTokens(), then that of refreshSession().             *)
FailRefresh(f) ==
  /\ SetHttpToken(0)
  /\ ClearTokens
  /\ flow' = [flow EXCEPT ![f] = "failing"]

(* The refresh is answered with an error, or not at all, and then the       *)
(* server may have carried it out.  An answer that                          *)
(* maps to AuthenticationError passes the session middleware's onError      *)
(* first, because /auth/refresh goes through the same client.               *)
RefreshRefused(f) ==
  /\ flow[f] = "posted"
  /\ \/ /\ HoldsTokens
        /\ ClearTokens
        /\ flow' = [flow EXCEPT ![f] = "escalating"]
        /\ UNCHANGED <<http, retired>>
     \/ FailRefresh(f) /\ retired' \in {retired, retired \cup {flowRefresh[f]}}
  /\ UNCHANGED <<calls, activeRefresh, flowRefresh, flowMinted>>
  /\ UNCHANGED <<minted, expired, expiredRefresh, outside, history>>

EscalationReported(f) ==
  /\ flow[f] = "escalating"
  /\ FailRefresh(f)
  /\ UNCHANGED <<calls, activeRefresh, flowRefresh, flowMinted, server, history>>

(* The last callback returns: the promise settles, activeRefreshPromise is  *)
(* reset, and whoever awaited it goes on.  A replay takes the HTTP client's *)
(* token if there is one, a queued request the session's, a proactive one   *)
(* the token the refresh returned.                                          *)
Resumed(r, succeeded) ==
  CASE pc[r] = "awaiting401" -> IF succeeded THEN "replay" ELSE "rejected"
    [] pc[r] = "proactive"   -> IF succeeded THEN "sent" ELSE "failed"
    [] pc[r] = "queued"      -> "sent"

ResumedHeader(r, f, succeeded) ==
  CASE pc[r] = "awaiting401" /\ succeeded /\ httpToken # 0 -> httpToken
    [] pc[r] = "proactive" /\ succeeded                    -> flowMinted[f]
    [] pc[r] = "proactive" /\ ~succeeded                   -> 0
    [] pc[r] = "queued" /\ access # 0                      -> access
    [] OTHER                                               -> header[r]

WakesOnlySuccess(f) ==
  {r \in Requests : waitsFor[r] = f /\ (pc[r] = "queued" => flow[f] = "updating")}

Wakes(f) == {r \in Requests : waitsFor[r] = f}

Settle(f) ==
  LET succeeded == flow[f] = "updating"
      woken     == Wakes(f)
  IN /\ flow[f] \in {"updating", "failing"}
     /\ flow' = [flow EXCEPT ![f] = "idle"]
     /\ activeRefresh' = NoFlow
     /\ pc' = [r \in Requests |-> IF r \in woken THEN Resumed(r, succeeded) ELSE pc[r]]
     /\ header' = [r \in Requests |->
                     IF r \in woken THEN ResumedHeader(r, f, succeeded) ELSE header[r]]
     /\ sends' = [r \in Requests |->
                    IF r \in woken /\ Resumed(r, succeeded) \in {"sent", "replay"}
                      THEN sends[r] + 1 ELSE sends[r]]
     /\ waitsFor' = [r \in Requests |-> IF r \in woken THEN NoFlow ELSE waitsFor[r]]
     /\ flowRefresh' = [flowRefresh EXCEPT ![f] = 0]
     /\ flowMinted' = [flowMinted EXCEPT ![f] = 0]
     /\ shunned' = [r \in Requests |-> IF r \in woken THEN {} ELSE shunned[r]]
     /\ UNCHANGED <<attempt, retried401, tokens, server, loggedOut>>

-----------------------------------------------------------------------------
(* login(), register() or passkeyVerify() completes: adoptToken().  Their   *)
(* own requests never wait for a refresh.                                   *)
Login ==
  /\ minted < MaxTokens
  /\ minted' = minted + 1
  /\ AdoptTokens(minted + 1, TRUE)
  /\ loggedOut' = FALSE
  /\ UNCHANGED <<calls, flows, expired, expiredRefresh, retired, outside, shunned>>

(* The finally block of logout(), whichever way its request ended.          *)
LogoutFinally(r) ==
  /\ r \in Logouts
  /\ pc[r] \in {"ok", "failed"}
  /\ pc' = [pc EXCEPT ![r] = "closed"]
  /\ SetHttpToken(0)
  /\ ClearTokens
  /\ loggedOut' = TRUE
  /\ UNCHANGED <<header, attempt, retried401, waitsFor, sends, flows, server, shunned>>

(* Astroid.setAccessToken(): the application hands the HTTP client a token  *)
(* there is, or none.  The session is not told.                             *)
SetAccessToken ==
  /\ \E t \in Overrides : t <= minted /\ httpToken' = t
  /\ overridden' = TRUE
  /\ UNCHANGED <<calls, access, refresh, flows, server, history>>

-----------------------------------------------------------------------------
(* auth.refresh(): POST /auth/refresh with a refresh token of the           *)
(* application's choice, past refreshSession() and its promise.  The        *)
(* endpoint is exempt from the 401 handler and from waiting.                *)
KnownTokens == (1..minted) \ {issued[x] : x \in Exchanges}

ExchangeCalled(x) ==
  /\ exchange[x] = "idle"
  /\ exchange' = [exchange EXCEPT ![x] = "posted"]
  /\ \E t \in KnownTokens : presented' = [presented EXCEPT ![x] = t]
  /\ UNCHANGED <<calls, tokens, flows, minted, expired, expiredRefresh, retired, issued>>
  /\ UNCHANGED <<unheard, history>>

(* The server carries it out, with or without a new refresh token; the      *)
(* answer is under way.                                                     *)
ExchangeCarriedOut(x) ==
  /\ exchange[x] = "posted"
  /\ minted < MaxTokens
  /\ minted' = minted + 1
  /\ issued' = [issued EXCEPT ![x] = minted + 1]
  /\ \/ /\ exchange' = [exchange EXCEPT ![x] = "rotated"]
        /\ retired' = retired \cup {presented[x]}
        /\ unheard' = unheard \cup {presented[x]}
     \/ /\ exchange' = [exchange EXCEPT ![x] = "renewed"]
        /\ UNCHANGED <<retired, unheard>>
  /\ UNCHANGED <<calls, tokens, flows, expired, expiredRefresh, presented, history>>

EndExchange(x) ==
  /\ exchange' = [exchange EXCEPT ![x] = "idle"]
  /\ presented' = [presented EXCEPT ![x] = 0]
  /\ issued' = [issued EXCEPT ![x] = 0]

ExchangeAdopted(x) ==
  /\ exchange[x] \in {"rotated", "renewed"}
  /\ AdoptTokens(issued[x], exchange[x] = "rotated")
  /\ unheard' = IF exchange[x] = "rotated" THEN unheard \ {presented[x]} ELSE unheard
  /\ EndExchange(x)
  /\ UNCHANGED <<calls, flows, minted, expired, expiredRefresh, retired, history>>

(* It is refused, or its answer is lost.  A 401 that maps to                *)
(* AuthenticationError ends the session, as any request's does.             *)
ExchangeFails(x) ==
  /\ exchange[x] # "idle"
  /\ EndExchange(x)
  /\ \/ exchange[x] = "posted" /\ HoldsTokens /\ ClearTokens /\ UNCHANGED http
     \/ UNCHANGED tokens
  /\ UNCHANGED <<calls, flows, minted, expired, expiredRefresh, retired, unheard, history>>

(* The exp claim of a token the session holds passes.                       *)
Expire ==
  /\ \/ /\ access # 0 /\ access \notin expired
        /\ expired' = expired \cup {access}
        /\ UNCHANGED expiredRefresh
     \/ /\ refresh # 0 /\ refresh \notin expiredRefresh
        /\ expiredRefresh' = expiredRefresh \cup {refresh}
        /\ UNCHANGED expired
  /\ UNCHANGED <<calls, tokens, flows, minted, retired, outside, history>>

Call(r) == CallRefreshing(r) \/ CallWithDeadSession(r) \/ CallQueued(r) \/ CallSent(r)

Respond(r) ==
  RespondOk(r) \/ Refresh401(r) \/ Reject401(r) \/ RespondServerError(r) \/ LoseResponse(r)

Continue(r) == Resend(r) \/ EscalateError(r) \/ CallbackReturns(r) \/ LogoutFinally(r)

Proceed(f) ==
  RefreshSucceeds(f) \/ RefreshRefused(f) \/ EscalationReported(f) \/ Settle(f)

Exchange(x) ==
  ExchangeCalled(x) \/ ExchangeCarriedOut(x) \/ ExchangeAdopted(x) \/ ExchangeFails(x)

Next ==
  \/ \E r \in Requests : Call(r) \/ Respond(r) \/ Continue(r)
  \/ \E f \in Flows : Proceed(f)
  \/ \E x \in Exchanges : Exchange(x)
  \/ Login
  \/ SetAccessToken
  \/ Expire

Spec == Init /\ [][Next]_vars

(* Every request is answered or times out, back-offs end, and the           *)
(* application's callbacks return.                                          *)
FairSpec ==
  /\ Spec
  /\ \A r \in Requests : WF_vars(Respond(r)) /\ WF_vars(Continue(r))
  /\ \A f \in Flows : WF_vars(Proceed(f))

-----------------------------------------------------------------------------
(* Type of every variable: attempts stay within the retry budget, and every *)
(* token held anywhere is one the server minted.                            *)
TypeOK ==
  /\ pc \in [Requests -> CallStates]
  /\ header \in [Requests -> Token]
  /\ attempt \in [Requests -> 1..MaxAttempts]
  /\ retried401 \in [Requests -> BOOLEAN]
  /\ waitsFor \in [Requests -> Flows \cup {NoFlow}]
  /\ access \in Token /\ refresh \in Token /\ httpToken \in Token
  /\ overridden \in BOOLEAN
  /\ activeRefresh \in Flows \cup {NoFlow}
  /\ flow \in [Flows -> FlowStates]
  /\ flowRefresh \in [Flows -> Token]
  /\ flowMinted \in [Flows -> Token]
  /\ exchange \in [Exchanges -> ExchangeStates]
  /\ presented \in [Exchanges -> Token]
  /\ issued \in [Exchanges -> Token]
  /\ minted \in Token
  /\ expired \subseteq Token /\ expiredRefresh \subseteq Token
  /\ sends \in [Requests -> Nat]
  /\ retired \subseteq Token /\ unheard \subseteq Token
  /\ shunned \in [Requests -> SUBSET Token]
  /\ loggedOut \in BOOLEAN

(* Concurrent 401s and expired-token calls share one refresh: no two        *)
(* refreshes of the session are ever in flight, whatever logs in or out and *)
(* whatever auth.refresh() does meanwhile.                                  *)
SingleFlight == \A f, g \in Flows : flow[f] # "idle" /\ flow[g] # "idle" => f = g

(* The session and the HTTP client do not drift apart by anything the SDK   *)
(* does: an access token the session holds is the one the HTTP client       *)
(* sends, unless the application has set another with setAccessToken() and  *)
(* the SDK none since.                                                      *)
SessionMatchesHttp == access # 0 /\ ~overridden => httpToken = access

(* Loop safety: a request is put on the wire at most once per attempt plus  *)
(* once for the replay after a refresh, however its 401s, errors and losses *)
(* alternate.                                                               *)
SendsBounded == \A r \in Requests : sends[r] <= Attempts(r) + 1

(* The session does not send a refresh token the server has replaced, which *)
(* a server that detects token reuse would answer by ending the session.    *)
(* The exception: an auth.refresh() had it replaced, past the session, and  *)
(* its answer is still to come, or lost.                                    *)
RetiredNeverSent ==
  [][\A f \in Flows :
       flow[f] = "idle" /\ flow'[f] = "posted" /\ flowRefresh'[f] \in retired
       => flowRefresh'[f] \in unheard]_vars

(* No request first goes out, at once or after waiting for a refresh, with  *)
(* a token that was known to be expired when it was called.                 *)
NotSentExpired ==
  [][\A r \in Requests :
       sends[r] = 0 /\ sends'[r] = 1
       => header'[r] \notin IF pc[r] = "idle" THEN Avoidable ELSE shunned[r]]_vars

(* Every call ends, in success or failure: no request is left waiting for a *)
(* refresh that is over.                                                    *)
EveryCallEnds ==
  \A r \in Requests : pc[r] # "idle" ~> pc[r] \in {"ok", "failed", "closed"}

-----------------------------------------------------------------------------

(* logout() is documented to "clear the local token": after it the client   *)
(* holds no token until the application logs in again.                      *)
LogoutClears == loggedOut => ~HoldsTokens
=============================================================================
