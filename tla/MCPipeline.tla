----------------------------- MODULE MCPipeline -----------------------------
(* Two calls, on one key or on two, of every kind of request, and answers  *)
(* of every way the hooks tell apart.                                      *)
EXTENDS Pipeline, TLC

CONSTANTS first, second

Kind(key, method, idempotencyKey, retryable, aborts) ==
  [key |-> key, method |-> method, idempotencyKey |-> idempotencyKey,
   retryable |-> retryable, aborts |-> aborts]

MCKinds ==
  {Kind("GET /wallets", "GET", FALSE, Unset, TRUE),
   Kind("POST /payments", "POST", FALSE, Unset, FALSE),
   Kind("POST /payments", "POST", TRUE, Unset, FALSE)}

Body(type, code) == [type |-> type, code |-> code]
MCAnswers ==
  {[status |-> 200, body |-> Body("none", None)],
   [status |-> 304, body |-> Body("none", None)],
   [status |-> 401, body |-> Body("api", "TOKEN_EXPIRED")],
   [status |-> 404, body |-> Body("text", None)],
   [status |-> 402, body |-> Body("none", None)],
   [status |-> 409, body |-> Body("api", "CONFLICT")],
   [status |-> 400, body |-> Body("stellar", "op_bad_auth")],
   [status |-> 400, body |-> Body("stellar", "tx_failed")],
   [status |-> 503, body |-> Body("none", None)],
   [status |-> 503, body |-> Body("text", None)]}

MCConfigRetry == [maxRetries |-> 1, statuses |-> Unset]
MCRetryMiddlewares ==
  {Unset, [maxRetries |-> 1, statuses |-> {409, 503}, allMethods |-> TRUE]}
Symmetry == Permutations(Calls)
=============================================================================
