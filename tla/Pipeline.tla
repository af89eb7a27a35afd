------------------------------ MODULE Pipeline ------------------------------
(***************************************************************************)
(* One request through the HTTP client and its middlewares                 *)
(* (packages/core/src/http-client.ts, packages/client/src): attempts,      *)
(* retries and the replay after a 401, and the hooks that turn a failed    *)
(* answer into a typed error.  Concurrent calls interleave wherever a hook *)
(* is awaited, and share the error parser's map of bodies, whose key is    *)
(* the request's method and URL.                                           *)
(*                                                                         *)
(* The middlewares are those of the Astroid constructor, which answers and *)
(* errors pass in the reverse order: error parser, interceptors, session,  *)
(* error translator; the retry middleware may be installed too.            *)
(* Interceptors, telemetry and callbacks return what they were given, the  *)
(* refresh of a session is one step (module Session has its own), and a    *)
(* caller aborts with the default reason.  A body is what the parsers tell *)
(* apart: an API error and its code, Stellar result codes, an `error` that *)
(* is not an object ("text"), or another text ("none").                    *)
(***************************************************************************)
EXTENDS Integers, FiniteSets

CONSTANTS
  Calls,         \* callers of request(), one call each
  Kinds,         \* [key, method, idempotencyKey, retryable, aborts]: what is called, and how
  Answers,       \* [status, body]: the answers the API may give
  ConfigRetry,   \* [maxRetries, statuses]: the client's retry configuration, or Unset
  RetryMiddlewares, \* [maxRetries, statuses, allMethods]: the retry middlewares the client may install, or Unset
  Unset, None    \* an option not given; nothing

ASSUME ConfigsOK ==
  /\ \A m \in RetryMiddlewares : m # Unset => m.maxRetries \in Nat
  /\ ConfigRetry # Unset => ConfigRetry.maxRetries \in Nat

\* An answer has a status and a body; nothing is neither.
ASSUME AnswersOK ==
  /\ Unset \notin 100 .. 599 /\ None \notin Answers
  /\ \A raw \in Answers : raw.status \in 100 .. 599 /\ raw.body # None

VARIABLES
  retryMiddleware, \* the retry middleware installed, or Unset
  kind,     \* what each call asks for
  state,    \* idle, send, sending, hooks, answered, refreshing, erring, sleeping, done
  attempt,  \* attempts made, counted from 1
  replayed, \* _is401Retry of the call's context
  replaying,\* whether the request in the air is the replay
  aborted,  \* whether the caller's signal has fired
  answer,   \* the last answer of the call, or None when it got none
  stellar,  \* _stellarCode of the call's context
  error,    \* the error being handed through the hooks, or the one the call ended with
  pendingBodies, \* the error parser's map
  applied,  \* effects of the call on the server
  signedOut,\* calls whose error made the session give up its tokens
  shared    \* calls that ran while another one used their key

vars == <<retryMiddleware, kind, state, attempt, replayed, replaying, aborted, answer, stellar, error,
          pendingBodies, applied, signedOut, shared>>
progressVars == <<retryMiddleware, kind, attempt, replayed, replaying, shared>>

Keys == {k.key : k \in Kinds}

\* ---- statuses, codes and classes -----------------------------------------

DefaultStatuses == {429, 500, 502, 503, 504}

CodeForStatus(status) ==
  CASE status = 401 -> "AUTHENTICATION_ERROR"
    [] status = 403 -> "FORBIDDEN"
    [] status = 404 -> "NOT_FOUND"
    [] status = 409 -> "CONFLICT"
    [] status \in {400, 422} -> "VALIDATION_ERROR"
    [] status = 429 -> "RATE_LIMITED"
    [] status >= 500 -> "INTERNAL_ERROR"
    [] OTHER -> "BAD_REQUEST"

ErrorClassForCode(code) ==
  CASE code \in {"AUTHENTICATION_ERROR", "UNAUTHORIZED", "TOKEN_EXPIRED"} -> "AuthenticationError"
    [] code = "FORBIDDEN" -> "ForbiddenError"
    [] code \in {"VALIDATION_ERROR", "BAD_REQUEST", "INVALID_SIGNATURE"} -> "ValidationError"
    [] code = "NOT_FOUND" -> "NotFoundError"
    [] code \in {"CONFLICT", "PROPOSAL_EXPIRED"} -> "ConflictError"
    [] code = "POLICY_VIOLATION" -> "PolicyViolationError"
    [] code \in {"INSUFFICIENT_FUNDS", "WALLET_FROZEN", "op_underfunded", "op_low_reserve"}
         -> "InsufficientFundsError"
    [] code = "RATE_LIMITED" -> "RateLimitError"
    [] code = "NETWORK_ERROR" -> "NetworkError"
    [] code = "REQUEST_TIMEOUT" -> "AstroidTimeoutError"
    [] code = "INTERNAL_ERROR" -> "InternalServerError"
    [] OTHER -> "AstroidError"

\* What each class extends.
Parents(class) ==
  {class, "AstroidError"} \cup
  (CASE class = "InsufficientBalanceError" -> {"InsufficientFundsError"}
     [] class \in {"TrustlineMissingError", "StellarMalformedError"} -> {"ValidationError"}
     [] class = "StellarAuthError" -> {"AuthenticationError"}
     [] class = "SequenceConflictError" -> {"ConflictError"}
     [] class = "AstroidTimeoutError" -> {"NetworkError"}
     [] OTHER -> {})

IsInstance(e, class) == class \in Parents(e.class)

ErrorClassForStellarCode(code) ==
  CASE code \in {"op_underfunded", "op_low_reserve"} -> "InsufficientBalanceError"
    [] code \in {"op_no_trust", "op_line_full"} -> "TrustlineMissingError"
    [] code \in {"op_bad_auth", "tx_bad_auth"} -> "StellarAuthError"
    [] code = "tx_bad_seq" -> "SequenceConflictError"
    [] code = "tx_malformed" -> "StellarMalformedError"
    [] OTHER -> "StellarNetworkError"

StellarStatus(code, status) ==
  CASE code \in {"op_underfunded", "op_low_reserve"} -> 402
    [] code \in {"op_no_trust", "op_line_full"} -> 422
    [] code \in {"op_bad_auth", "tx_bad_auth"} -> 401
    [] code = "tx_bad_seq" -> 409
    [] code = "tx_malformed" -> 400
    [] OTHER -> status

AnError(class, code, status) == [class |-> class, code |-> code, status |-> status, stellarCode |-> None]

ASSUME AnErrorIsSomething == AnError("InsufficientFundsError", "INSUFFICIENT_FUNDS", 402) # None

DetectStellarCode(body) == IF body.type = "stellar" THEN body.code ELSE None

\* An error of unknown code is an ApiError, which only AstroidError catches.
FromApiError(code, status) ==
  LET class == ErrorClassForCode(code)
  IN AnError(IF class = "AstroidError" THEN "ApiError" ELSE class, code, status)

\* Any truthy `error` of the body is taken for an API error, a text too.
ToError(raw) ==
  CASE raw.body.type = "api" -> FromApiError(raw.body.code, raw.status)
    [] raw.body.type = "text" -> FromApiError(None, raw.status)
    [] OTHER -> LET code == CodeForStatus(raw.status)
                IN AnError(ErrorClassForCode(code), code, raw.status)

\* The error the translator throws for an answer, or None.
TranslateErrorBody(raw) ==
  LET body == raw.body
      class == CASE body.type = "stellar" -> ErrorClassForStellarCode(body.code)
                 [] body.type = "api" -> ErrorClassForCode(body.code)
                 [] body.type \notin {"stellar", "api"} /\ raw.status = 402 -> "InsufficientFundsError"
                 [] OTHER -> "AstroidError"
      code == IF body.type \in {"stellar", "api"} THEN body.code ELSE "INSUFFICIENT_FUNDS"
  IN IF class \in {"AstroidError", "StellarNetworkError"} THEN None
     ELSE AnError(class, code, IF body.type = "stellar" THEN StellarStatus(code, raw.status) ELSE raw.status)

\* The code parseErrorBody() reads from a body.
ParsedCode(status, body) ==
  IF body.type \in {"stellar", "api"} THEN body.code
  ELSE CodeForStatus(IF status = Unset THEN 500 ELSE status)

\* ---- what may be retried -------------------------------------------------

Idempotent(k) == k.method \in {"GET", "PUT", "DELETE"} \/ k.idempotencyKey

Retryable(c) ==
  LET k == kind[c]
  IN IF k.retryable # Unset THEN k.retryable
     ELSE Idempotent(k) \/ (retryMiddleware # Unset /\ retryMiddleware.allMethods)

Retry == IF retryMiddleware # Unset THEN retryMiddleware ELSE ConfigRetry

MayRetry(c) == Retry # Unset /\ Retryable(c) /\ attempt[c] < Retry.maxRetries + 1

\* Plausible bug: a lost answer is retried whatever the method.
MayRetryTransportAlways(c) == Retry # Unset /\ attempt[c] < Retry.maxRetries + 1
MayRetryTransport(c) == MayRetry(c)

ShouldRetryStatus(status) ==
  status \in (IF Retry.statuses \in {Unset, {}} THEN DefaultStatuses ELSE Retry.statuses)

\* ---- the call ------------------------------------------------------------

Init ==
  /\ retryMiddleware \in RetryMiddlewares
  /\ kind \in [Calls -> Kinds]
  /\ state = [c \in Calls |-> "idle"]
  /\ attempt = [c \in Calls |-> 1]
  /\ replayed = [c \in Calls |-> FALSE]
  /\ replaying = [c \in Calls |-> FALSE]
  /\ aborted = [c \in Calls |-> FALSE]
  /\ answer = [c \in Calls |-> None]
  /\ stellar = [c \in Calls |-> None]
  /\ error = [c \in Calls |-> None]
  /\ pendingBodies = [k \in Keys |-> None]
  /\ applied = [c \in Calls |-> 0]
  /\ signedOut = {}
  /\ shared = {}

Rivals(c) ==
  {d \in Calls \ {c} : kind[d].key = kind[c].key /\ state[d] \notin {"idle", "done"}}

\* prepare(): the hooks of the request, once per call.
Prepare(c) ==
  /\ state[c] = "idle"
  /\ state' = [state EXCEPT ![c] = "send"]
  /\ shared' = shared \cup Rivals(c) \cup (IF Rivals(c) = {} THEN {} ELSE {c})
  /\ UNCHANGED <<retryMiddleware, kind, attempt, replayed, replaying, aborted, answer, stellar, error,
                 pendingBodies, applied, signedOut>>

EndWith(c, e) ==
  /\ state' = [state EXCEPT ![c] = "done"]
  /\ error' = [error EXCEPT ![c] = e]

AbortError == AnError("AbortError", None, Unset)

\* send(): a signal that has fired stops the request before it leaves.
Send(c) ==
  /\ state[c] = "send"
  /\ IF aborted[c] THEN EndWith(c, AbortError)
     ELSE state' = [state EXCEPT ![c] = "sending"] /\ UNCHANGED error
  /\ answer' = [answer EXCEPT ![c] = None]
  /\ UNCHANGED <<progressVars, aborted, stellar, pendingBodies, applied, signedOut>>

Ok(status) == status \in 200 .. 299

\* The server has acted on a request it answers with 2xx, and on none that it
\* answers with 4xx; otherwise it may have.
MayApply(status) == IF Ok(status) THEN {1} ELSE IF status \in 400 .. 499 THEN {0} ELSE {0, 1}

\* Plausible bug: a body still in the map is kept.
StoredOnce(c, body) ==
  [pendingBodies EXCEPT ![kind[c].key] = IF @ = None THEN body ELSE @]
\* What the error parser's map holds after a failed answer.
Stored(c, body) == [pendingBodies EXCEPT ![kind[c].key] = body]

\* An answer arrives; the error parser is the first to see it.
Arrive(c) ==
  /\ state[c] = "sending"
  /\ \E raw \in Answers, effect \in {0, 1} :
       /\ effect \in MayApply(raw.status)
       /\ answer' = [answer EXCEPT ![c] = raw]
       /\ applied' = [applied EXCEPT ![c] = @ + effect]
       /\ IF raw.status >= 400
          THEN /\ pendingBodies' = Stored(c, raw.body)
               /\ stellar' = [stellar EXCEPT ![c] = IF DetectStellarCode(raw.body) = None THEN @
                                                    ELSE DetectStellarCode(raw.body)]
          ELSE UNCHANGED <<pendingBodies, stellar>>
  /\ state' = [state EXCEPT ![c] = "hooks"]
  /\ UNCHANGED <<progressVars, aborted, error, signedOut>>

\* onError of the error parser: takes the body, if there is one, and copies
\* what it says into the error.
TakeBody(c, e) ==
  LET body == pendingBodies[kind[c].key]
  IN /\ pendingBodies' = [pendingBodies EXCEPT ![kind[c].key] = None]
     /\ error' = [error EXCEPT ![c] =
          IF body = None THEN e
          ELSE [e EXCEPT !.code = ParsedCode(e.status, body),
                         !.stellarCode = IF DetectStellarCode(body) # None THEN DetectStellarCode(body)
                                         ELSE stellar[c]]]
     /\ state' = [state EXCEPT ![c] = "erring"]

\* Plausible bug: the errors the translator throws pass the hooks as well.
RethrownThroughHooks(c, e) == TakeBody(c, e)
\* A thrown error that already carries a status leaves request() as it is.
Rethrown(c, e) == EndWith(c, e) /\ UNCHANGED pendingBodies

\* onResponse of the error translator, the last one.
Translates(raw) ==
  raw.status >= 400 /\ raw.status # 401 /\ raw.status \notin DefaultStatuses

Translate(c) ==
  /\ state[c] = "hooks"
  /\ IF Translates(answer[c]) /\ TranslateErrorBody(answer[c]) # None
     THEN Rethrown(c, TranslateErrorBody(answer[c]))
     ELSE state' = [state EXCEPT ![c] = "answered"] /\ UNCHANGED <<error, pendingBodies>>
  /\ UNCHANGED <<progressVars, aborted, answer, stellar, applied, signedOut>>

Success(c) ==
  /\ state[c] = "answered" /\ Ok(answer[c].status)
  /\ EndWith(c, None)
  /\ UNCHANGED <<progressVars, aborted, answer, stellar, pendingBodies, applied, signedOut>>

\* The first 401 asks the token provider or the 401 handler for a new token.
Refresh(c) ==
  /\ state[c] = "answered" /\ answer[c].status = 401 /\ ~replayed[c]
  /\ replayed' = [replayed EXCEPT ![c] = TRUE]
  /\ state' = [state EXCEPT ![c] = "refreshing"]
  /\ UNCHANGED <<retryMiddleware, kind, attempt, replaying, aborted, answer, stellar, error, pendingBodies,
                 applied, signedOut, shared>>

Refreshed(c) ==
  /\ state[c] = "refreshing"
  /\ replaying' = [replaying EXCEPT ![c] = TRUE]
  /\ state' = [state EXCEPT ![c] = "send"]
  /\ UNCHANGED <<retryMiddleware, kind, attempt, replayed, aborted, answer, stellar, error, pendingBodies,
                 applied, signedOut, shared>>

\* Any answer but a 2xx, or a failed refresh, becomes an error.
Fail(c) ==
  /\ \/ state[c] = "answered" /\ ~Ok(answer[c].status) /\ (answer[c].status = 401 => replayed[c])
     \/ state[c] = "refreshing"
  /\ TakeBody(c, ToError(answer[c]))
  /\ UNCHANGED <<progressVars, aborted, answer, stellar, applied, signedOut>>

\* onError of the session middleware.
SignsOut(e) == IsInstance(e, "AuthenticationError") /\ e.status = 401

\* onError of the error translator: the class the error's code asks for.
Refined(e) ==
  LET class == ErrorClassForCode(e.code)
  IN IF class # "AstroidError" /\ ~IsInstance(e, class)
     THEN AnError(class, e.code, e.status)
     ELSE e

Sleep(c) ==
  /\ attempt' = [attempt EXCEPT ![c] = @ + 1]
  /\ replaying' = [replaying EXCEPT ![c] = FALSE]
  /\ state' = [state EXCEPT ![c] = "sleeping"]

\* The other hooks of the error, and what becomes of the call: an error the
\* translator throws ends it, as does one of a replay or of the last attempt.
Decide(c) ==
  /\ state[c] = "erring"
  /\ signedOut' = IF SignsOut(error[c]) THEN signedOut \cup {c} ELSE signedOut
  /\ IF /\ Refined(error[c]) = error[c]
        /\ answer[c] # None /\ ~replaying[c]
        /\ MayRetry(c) /\ ShouldRetryStatus(answer[c].status)
     THEN Sleep(c) /\ error' = [error EXCEPT ![c] = None]
     ELSE EndWith(c, Refined(error[c])) /\ UNCHANGED <<attempt, replaying>>
  /\ UNCHANGED <<retryMiddleware, kind, replayed, aborted, answer, stellar, pendingBodies, applied, shared>>

TransportErrors == {AnError("NetworkError", "NETWORK_ERROR", Unset),
                    AnError("AstroidTimeoutError", "REQUEST_TIMEOUT", Unset)}

\* No answer comes: the connection fails or the timeout fires; the request
\* may have been acted on all the same.
LoseAnswer(c) ==
  /\ state[c] = "sending"
  /\ \E effect \in {0, 1} : applied' = [applied EXCEPT ![c] = @ + effect]
  /\ \/ MayRetryTransport(c) /\ Sleep(c) /\ UNCHANGED <<error, pendingBodies>>
     \/ /\ ~MayRetryTransport(c)
        /\ \E e \in TransportErrors : TakeBody(c, e)
        /\ UNCHANGED <<attempt, replaying>>
  /\ UNCHANGED <<retryMiddleware, kind, replayed, aborted, answer, stellar, signedOut, shared>>

WakeUp(c) ==
  /\ state[c] = "sleeping"
  /\ state' = [state EXCEPT ![c] = "send"]
  /\ UNCHANGED <<progressVars, aborted, answer, stellar, error, pendingBodies, applied, signedOut>>

\* The caller's signal fires: a request in the air and a sleep end at once.
Abort(c) ==
  /\ state[c] \notin {"idle", "done"} /\ ~aborted[c] /\ kind[c].aborts
  /\ aborted' = [aborted EXCEPT ![c] = TRUE]
  /\ IF state[c] \in {"sending", "sleeping"} THEN EndWith(c, AbortError)
     ELSE UNCHANGED <<state, error>>
  /\ \E effect \in {0, IF state[c] = "sending" THEN 1 ELSE 0} :
       applied' = [applied EXCEPT ![c] = @ + effect]
  /\ UNCHANGED <<progressVars, answer, stellar, pendingBodies, signedOut>>

Step(c) ==
  \/ Prepare(c) \/ Send(c) \/ Arrive(c) \/ Translate(c) \/ Success(c) \/ Refresh(c)
  \/ Refreshed(c) \/ Fail(c) \/ Decide(c) \/ LoseAnswer(c) \/ WakeUp(c) \/ Abort(c)

Next == \E c \in Calls : Step(c)

Spec == Init /\ [][Next]_vars

-----------------------------------------------------------------------------
Failed(c) == state[c] = "done" /\ error[c] # None /\ error[c].class # "AbortError"

\* The code an answer speaks of.
OwnCode(raw) ==
  IF raw.body.type \in {"api", "stellar"} THEN raw.body.code
  ELSE IF raw.status = 402 THEN "INSUFFICIENT_FUNDS" ELSE CodeForStatus(raw.status)

(* A request that may not be repeated (a POST or PATCH without idempotency *)
(* key, unless the caller says otherwise) takes effect at most once: it is *)
(* sent again only after a 401, which the API gives before it acts         *)
(* (http-client.ts:151, :224, :246, :259).                                 *)
AppliedOnce == \A c \in Calls : ~Retryable(c) => applied[c] <= 1

(* The session gives up its tokens only over a call the API answered with  *)
(* 401: neither a Stellar failure that the translator gives the status 401 *)
(* (error.ts:314, stellar.ts:147) nor a code taken from another body ends  *)
(* a session (session.ts:598).                                             *)
NoForeignSignOut ==
  [][\A c \in signedOut' \ signedOut : answer[c] # None /\ answer[c].status = 401]_vars

(* A call that did not run beside another one of its method and URL ends,  *)
(* if it was answered with 4xx or 5xx, with the code its own last answer   *)
(* speaks of and an error of that code's class, whichever of the hooks     *)
(* built it and whatever earlier calls left in the parser's map            *)
(* (error-parser-middleware.ts:12-37, error.ts:304-357).  An answer below  *)
(* 400, a 304 say, fails too (http-client.ts:159), but the parser does not *)
(* store it, and the error may then speak of an older body.                *)
ErrorIsOwn ==
  \A c \in Calls \ shared :
    Failed(c) /\ answer[c] # None /\ answer[c].status >= 400 =>
      /\ error[c].code = OwnCode(answer[c])
      /\ IsInstance(error[c], ErrorClassForCode(error[c].code))
=============================================================================
