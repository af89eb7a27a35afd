---------------------------- MODULE PipelineProofs ----------------------------
(***************************************************************************)
(* What holds of Pipeline for any calls, kinds of request, answers and     *)
(* retry configurations.                                                   *)
(***************************************************************************)
EXTENDS Pipeline, TLAPS

States == {"idle", "send", "sending", "hooks", "answered", "refreshing", "erring", "sleeping", "done"}

Shapes ==
  /\ kind \in [Calls -> Kinds]
  /\ state \in [Calls -> States]
  /\ answer \in [Calls -> Answers \cup {None}]
  /\ DOMAIN error = Calls
  /\ DOMAIN pendingBodies = Keys
  /\ applied \in [Calls -> Nat]

Running(c) == state[c] \notin {"idle", "done"}

(* What each state says of the answer at hand.                              *)
AnswerOK(c) ==
  /\ state[c] \in {"hooks", "answered", "refreshing"} => answer[c] # None
  /\ state[c] = "sending" => answer[c] = None
  /\ state[c] = "refreshing" => answer[c].status = 401
  /\ state[c] \in {"answered", "refreshing"} =>
       ~(Translates(answer[c]) /\ TranslateErrorBody(answer[c]) # None)

(* A request that may not be repeated goes out again only after a 401,      *)
(* which had no effect.                                                     *)
OnceOK(c) ==
  ~Retryable(c) =>
    /\ applied[c] <= 1
    /\ state[c] # "sleeping"
    /\ state[c] \in {"idle", "send", "sending", "refreshing"} => applied[c] = 0
    /\ state[c] \in {"hooks", "answered"} /\ answer[c].status = 401 => applied[c] = 0

(* The parser's map holds the body of the answer a call is handling, unless *)
(* another call shared its key.                                             *)
BodyOK(c) ==
  c \notin shared /\ state[c] \in {"hooks", "answered", "refreshing"} /\ answer[c].status >= 400 =>
    pendingBodies[kind[c].key] = answer[c].body

(* The error on its way through the hooks speaks of the answer.             *)
ErringOK(c) ==
  state[c] = "erring" =>
    /\ error[c].status = 401 => answer[c] # None /\ answer[c].status = 401
    /\ c \notin shared /\ answer[c] # None /\ answer[c].status >= 400 =>
         error[c].code = OwnCode(answer[c])

(* The error the call ended with does so, too.                              *)
EndedOK(c) ==
  c \notin shared /\ Failed(c) /\ answer[c] # None /\ answer[c].status >= 400 =>
    /\ error[c].code = OwnCode(answer[c])
    /\ IsInstance(error[c], ErrorClassForCode(error[c].code))

CallOK(c) == AnswerOK(c) /\ OnceOK(c) /\ BodyOK(c) /\ ErringOK(c) /\ EndedOK(c)

(* Calls that run side by side with the same key know it.                   *)
SharedInv ==
  \A c, d \in Calls : c # d /\ Running(c) /\ Running(d) /\ kind[c].key = kind[d].key => c \in shared

IInv == Shapes /\ SharedInv /\ \A c \in Calls : CallOK(c)

-----------------------------------------------------------------------------
(* The error the translator builds: the code is the answer's, the class is  *)
(* one of the code.                                                         *)
LEMMA TranslatedIsOwn ==
  ASSUME NEW raw, TranslateErrorBody(raw) # None
  PROVE  /\ TranslateErrorBody(raw).code = OwnCode(raw)
         /\ IsInstance(TranslateErrorBody(raw), ErrorClassForCode(OwnCode(raw)))
<1> DEFINE e == TranslateErrorBody(raw)
           code == raw.body.code
<1>1. CASE raw.body.type = "stellar"
  <2> DEFINE class == ErrorClassForStellarCode(code)
  <2>1. class # "StellarNetworkError" /\ e = AnError(class, code, StellarStatus(code, raw.status))
    BY <1>1 DEF TranslateErrorBody
  <2>2. e.code = code /\ e.class = class /\ OwnCode(raw) = code
    BY <1>1, <2>1 DEF AnError, OwnCode
  <2>3. ErrorClassForCode(code) \in Parents(class)
    <3>1. code \in {"op_underfunded", "op_low_reserve", "op_no_trust", "op_line_full", "op_bad_auth",
                   "tx_bad_auth", "tx_bad_seq", "tx_malformed"}
      BY <2>1 DEF ErrorClassForStellarCode
    <3>2. CASE code \in {"op_underfunded", "op_low_reserve"}
      <4>1. class = "InsufficientBalanceError"
        BY <3>2 DEF ErrorClassForStellarCode
      <4>2. ErrorClassForCode(code) = "InsufficientFundsError"
        BY <3>2 DEF ErrorClassForCode
      <4>3. "InsufficientFundsError" \in Parents("InsufficientBalanceError")
        BY DEF Parents
      <4> QED BY <4>1, <4>2, <4>3
    <3>3. CASE code \notin {"op_underfunded", "op_low_reserve"}
      <4>1. ErrorClassForCode(code) = "AstroidError"
        BY <3>1, <3>3 DEF ErrorClassForCode
      <4> QED BY <4>1 DEF Parents
    <3> QED BY <3>2, <3>3
  <2> QED BY <2>2, <2>3 DEF IsInstance
<1>2. CASE raw.body.type = "api"
  <2> DEFINE class == ErrorClassForCode(code)
  <2>1. e = AnError(class, code, raw.status)
    BY <1>2 DEF TranslateErrorBody
  <2>2. e.code = code /\ e.class = class /\ OwnCode(raw) = code
    BY <1>2, <2>1 DEF AnError, OwnCode
  <2> QED BY <2>2 DEF IsInstance, Parents
<1>3. CASE raw.body.type \notin {"stellar", "api"}
  <2>1. raw.status = 402 /\ e = AnError("InsufficientFundsError", "INSUFFICIENT_FUNDS", raw.status)
    BY <1>3 DEF TranslateErrorBody
  <2>2. e.code = "INSUFFICIENT_FUNDS" /\ e.class = "InsufficientFundsError"
        /\ OwnCode(raw) = "INSUFFICIENT_FUNDS"
    BY <1>3, <2>1 DEF AnError, OwnCode
  <2>3. ErrorClassForCode("INSUFFICIENT_FUNDS") = "InsufficientFundsError"
    BY DEF ErrorClassForCode
  <2> QED BY <2>2, <2>3 DEF IsInstance, Parents
<1> QED BY <1>1, <1>2, <1>3

(* The error the parser fills in from the body of an answer nobody          *)
(* translated.                                                              *)
LEMMA ParsedIsOwn ==
  ASSUME NEW raw \in Answers, ~(Translates(raw) /\ TranslateErrorBody(raw) # None), raw.status >= 400
  PROVE  ParsedCode(raw.status, raw.body) = OwnCode(raw)
<1>1. CASE raw.body.type \in {"stellar", "api"}
  BY <1>1 DEF ParsedCode, OwnCode
<1>2. CASE raw.body.type \notin {"stellar", "api"}
  <2>1. raw.status # 402
    <3> SUFFICES ASSUME raw.status = 402 PROVE FALSE
      OBVIOUS
    <3>1. TranslateErrorBody(raw) = AnError("InsufficientFundsError", "INSUFFICIENT_FUNDS", 402)
      BY <1>2 DEF TranslateErrorBody
    <3> QED BY <3>1, AnErrorIsSomething DEF Translates, DefaultStatuses
  <2> QED BY <1>2, <2>1, AnswersOK DEF ParsedCode, OwnCode
<1> QED BY <1>1, <1>2

(* What the translator makes of an error keeps its code and is of a class   *)
(* of that code.                                                            *)
LEMMA RefinedIsInstance ==
  ASSUME NEW e
  PROVE  /\ Refined(e).code = e.code
         /\ IsInstance(Refined(e), ErrorClassForCode(e.code))
<1> DEFINE class == ErrorClassForCode(e.code)
<1>1. CASE class # "AstroidError" /\ ~IsInstance(e, class)
  BY <1>1 DEF Refined, AnError, IsInstance, Parents
<1>2. CASE class = "AstroidError" \/ IsInstance(e, class)
  BY <1>2 DEF Refined, IsInstance, Parents
<1> QED BY <1>1, <1>2

(* Taking a body leaves the status of an error alone, and takes its code    *)
(* from the body if there is one.                                           *)
LEMMA TakenBody ==
  ASSUME IInv, NEW c \in Calls, NEW class, NEW code, NEW status, TakeBody(c, AnError(class, code, status))
  PROVE  /\ DOMAIN pendingBodies' = Keys
         /\ \A k \in Keys \ {kind[c].key} : pendingBodies'[k] = pendingBodies[k]
         /\ state' = [state EXCEPT ![c] = "erring"]
         /\ DOMAIN error' = Calls /\ \A d \in Calls \ {c} : error'[d] = error[d]
         /\ error'[c].status = status
         /\ pendingBodies[kind[c].key] # None =>
              error'[c].code = ParsedCode(status, pendingBodies[kind[c].key])
<1> DEFINE e == AnError(class, code, status)
           body == pendingBodies[kind[c].key]
<1>1. /\ pendingBodies' = [pendingBodies EXCEPT ![kind[c].key] = None]
      /\ state' = [state EXCEPT ![c] = "erring"]
      /\ DOMAIN error = Calls /\ DOMAIN pendingBodies = Keys
  BY DEF TakeBody, IInv, Shapes
<1>2. \E stellarCode :
        error' = [error EXCEPT ![c] = IF body = None THEN e
                    ELSE [e EXCEPT !.code = ParsedCode(e.status, body), !.stellarCode = stellarCode]]
  BY DEF TakeBody
<1>3. e.status = status
  BY DEF AnError
<1>4. PICK stellarCode :
        error' = [error EXCEPT ![c] = IF body = None THEN e
                    ELSE [e EXCEPT !.code = ParsedCode(status, body), !.stellarCode = stellarCode]]
  BY <1>2, <1>3
<1>5. error'[c] = IF body = None THEN e
                  ELSE [e EXCEPT !.code = ParsedCode(status, body), !.stellarCode = stellarCode]
  BY <1>1, <1>4
<1>6. ASSUME NEW x PROVE /\ [e EXCEPT !.code = x, !.stellarCode = stellarCode].status = status
                         /\ [e EXCEPT !.code = x, !.stellarCode = stellarCode].code = x
  BY DEF AnError
<1> HIDE DEF e, body
<1>7. error'[c].status = status /\ (body # None => error'[c].code = ParsedCode(status, body))
  BY <1>3, <1>5, <1>6
<1> QED BY <1>1, <1>4, <1>7 DEF body

-----------------------------------------------------------------------------
LEMMA InitIInv == Init => IInv
<1> SUFFICES ASSUME Init PROVE IInv
  OBVIOUS
<1>1. /\ \A c \in Calls : state[c] = "idle" /\ applied[c] = 0
      /\ state = [c \in Calls |-> "idle"]
  BY DEF Init
<1>2. Shapes
  BY DEF Init, Shapes, States
<1>3. SharedInv
  BY <1>1 DEF SharedInv, Running
<1>4. ASSUME NEW c \in Calls PROVE CallOK(c)
  BY <1>1 DEF CallOK, AnswerOK, OnceOK, BodyOK, ErringOK, EndedOK, Failed
<1> QED BY <1>2, <1>3, <1>4 DEF IInv

(* A step of a running call touches what is its own, and in the parser's    *)
(* map its own key: it has to show only that it is well itself.             *)
Untouched(c) ==
  /\ UNCHANGED <<retryMiddleware, kind, shared>>
  /\ \A d \in Calls \ {c} : /\ state'[d] = state[d] /\ answer'[d] = answer[d]
                           /\ error'[d] = error[d] /\ applied'[d] = applied[d]
  /\ \A k \in Keys \ {kind[c].key} : pendingBodies'[k] = pendingBodies[k]

LEMMA LocalIInv ==
  ASSUME IInv, NEW c \in Calls, Running(c), Untouched(c), Shapes', CallOK(c)'
  PROVE  IInv'
<1> USE DEF IInv
<1>1. SharedInv'
  BY DEF SharedInv, Untouched, Running
<1>2. ASSUME NEW d \in Calls, d # c PROVE CallOK(d)'
  <2>1. /\ state'[d] = state[d] /\ answer'[d] = answer[d] /\ error'[d] = error[d]
        /\ applied'[d] = applied[d] /\ kind' = kind /\ shared' = shared
        /\ Retryable(d)' <=> Retryable(d)
    BY <1>2 DEF Untouched, Retryable
  <2>2. AnswerOK(d)' /\ ErringOK(d)' /\ EndedOK(d)'
    BY <2>1 DEF CallOK, AnswerOK, ErringOK, EndedOK, Failed
  <2>3. OnceOK(d)'
    BY <2>1 DEF CallOK, OnceOK
  <2>4. BodyOK(d)'
    <3> SUFFICES ASSUME d \notin shared, state[d] \in {"hooks", "answered", "refreshing"},
                        answer[d].status >= 400
                 PROVE  pendingBodies'[kind[d].key] = answer[d].body
      BY <2>1 DEF BodyOK
    <3>1. kind[d].key # kind[c].key
      BY <1>2 DEF SharedInv, Running
    <3>2. kind[d].key \in Keys
      BY DEF Shapes, Keys
    <3>3. pendingBodies'[kind[d].key] = pendingBodies[kind[d].key]
      BY <3>1, <3>2 DEF Untouched
    <3> QED BY <3>3 DEF CallOK, BodyOK
  <2> QED BY <2>2, <2>3, <2>4 DEF CallOK
<1> QED BY <1>1, <1>2

LEMMA PrepareIInv ==
  ASSUME IInv, NEW c \in Calls, Prepare(c)
  PROVE  IInv'
<1> USE DEF IInv
<1>1. /\ state[c] = "idle" /\ state' = [state EXCEPT ![c] = "send"]
      /\ shared' = shared \cup Rivals(c) \cup (IF Rivals(c) = {} THEN {} ELSE {c})
      /\ UNCHANGED <<retryMiddleware, kind, answer, error, pendingBodies, applied>>
  BY DEF Prepare
<1>2. state'[c] = "send" /\ \A d \in Calls \ {c} : state'[d] = state[d]
  BY <1>1 DEF Shapes
<1>3. Shapes'
  BY <1>1 DEF Shapes, States, Keys
<1>4. SharedInv'
  <2> SUFFICES ASSUME NEW a \in Calls, NEW b \in Calls, a # b, Running(a)', Running(b)',
                      kind[a].key = kind[b].key
               PROVE  a \in shared'
    BY <1>1 DEF SharedInv
  <2>1. CASE a = c
    <3>1. b \in Rivals(c)
      BY <2>1, <1>2 DEF Rivals, Running
    <3> QED BY <3>1, <2>1, <1>1
  <2>2. CASE b = c
    <3>1. a \in Rivals(c)
      BY <2>2, <1>2 DEF Rivals, Running
    <3> QED BY <3>1, <1>1
  <2>3. CASE a # c /\ b # c
    BY <2>3, <1>1, <1>2 DEF SharedInv, Running
  <2> QED BY <2>1, <2>2, <2>3
<1>5. ASSUME NEW d \in Calls PROVE CallOK(d)'
  <2>1. Retryable(d)' <=> Retryable(d)
    BY <1>1 DEF Retryable
  <2>2. AnswerOK(d)' /\ BodyOK(d)' /\ ErringOK(d)' /\ EndedOK(d)'
    BY <1>1, <1>2 DEF CallOK, AnswerOK, BodyOK, ErringOK, EndedOK, Failed
  <2>3. OnceOK(d)'
    BY <1>1, <1>2, <2>1 DEF CallOK, OnceOK
  <2> QED BY <2>2, <2>3 DEF CallOK
<1> QED BY <1>3, <1>4, <1>5

(* The steps that only move the call on.                                    *)
LEMMA MoveIInv ==
  ASSUME IInv, NEW c \in Calls, Send(c) \/ Success(c) \/ Refresh(c) \/ Refreshed(c) \/ WakeUp(c)
  PROVE  IInv'
<1> USE DEF IInv
<1>1. CallOK(c)
  OBVIOUS
<1>2. Running(c) /\ UNCHANGED <<retryMiddleware, kind, shared, pendingBodies, applied>>
  BY DEF Send, Success, Refresh, Refreshed, WakeUp, Running, progressVars
<1>3. Retryable(c)' <=> Retryable(c)
  BY <1>2 DEF Retryable
<1>4. CASE Send(c)
  <2>1. /\ answer' = [answer EXCEPT ![c] = None]
        /\ \/ state' = [state EXCEPT ![c] = "sending"] /\ error' = error
           \/ /\ state' = [state EXCEPT ![c] = "done"] /\ error' = [error EXCEPT ![c] = AbortError]
              /\ error'[c].class = "AbortError"
    BY <1>4 DEF Send, EndWith, AbortError, AnError, Shapes
  <2>2. Shapes'
    BY <1>2, <2>1 DEF Shapes, States, Keys
  <2>3. Untouched(c)
    BY <1>2, <2>1 DEF Untouched, Shapes
  <2>4. answer'[c] = None /\ state'[c] \in {"sending", "done"} /\ state[c] = "send"
    BY <1>4, <2>1 DEF Shapes, Send
  <2>5. CallOK(c)'
    BY <1>1, <1>2, <1>3, <2>1, <2>4
    DEF CallOK, AnswerOK, OnceOK, BodyOK, ErringOK, EndedOK, Failed
  <2> QED BY <1>2, <2>2, <2>3, <2>5, LocalIInv
<1>5. CASE Success(c)
  <2>1. /\ state' = [state EXCEPT ![c] = "done"] /\ error' = [error EXCEPT ![c] = None] /\ answer' = answer
    BY <1>5 DEF Success, EndWith
  <2>2. Shapes' /\ Untouched(c)
    BY <1>2, <2>1 DEF Shapes, States, Keys, Untouched
  <2>3. state'[c] = "done" /\ error'[c] = None
    BY <2>1 DEF Shapes
  <2>4. CallOK(c)'
    BY <1>1, <1>2, <1>3, <2>3 DEF CallOK, AnswerOK, OnceOK, BodyOK, ErringOK, EndedOK, Failed
  <2> QED BY <1>2, <2>2, <2>4, LocalIInv
<1>6. CASE Refresh(c) \/ Refreshed(c) \/ WakeUp(c)
  <2>1. /\ \/ /\ state[c] = "answered" /\ answer[c].status = 401
              /\ state' = [state EXCEPT ![c] = "refreshing"]
           \/ state[c] \in {"refreshing", "sleeping"} /\ state' = [state EXCEPT ![c] = "send"]
        /\ UNCHANGED <<answer, error>>
    BY <1>6 DEF Refresh, Refreshed, WakeUp
  <2>2. Shapes' /\ Untouched(c)
    BY <1>2, <2>1 DEF Shapes, States, Keys, Untouched
  <2>3. \/ state[c] = "answered" /\ answer[c].status = 401 /\ state'[c] = "refreshing"
        \/ state[c] \in {"refreshing", "sleeping"} /\ state'[c] = "send"
    BY <2>1 DEF Shapes
  <2>4. CallOK(c)'
    BY <1>1, <1>2, <1>3, <2>1, <2>3 DEF CallOK, AnswerOK, OnceOK, BodyOK, ErringOK, EndedOK, Failed
  <2> QED BY <1>2, <2>2, <2>4, LocalIInv
<1> QED BY <1>4, <1>5, <1>6

LEMMA ArriveIInv ==
  ASSUME IInv, NEW c \in Calls, Arrive(c)
  PROVE  IInv'
<1> USE DEF IInv
<1>1. PICK raw \in Answers, effect \in {0, 1} :
        /\ effect \in MayApply(raw.status)
        /\ answer' = [answer EXCEPT ![c] = raw]
        /\ applied' = [applied EXCEPT ![c] = @ + effect]
        /\ IF raw.status >= 400 THEN pendingBodies' = Stored(c, raw.body) ELSE UNCHANGED pendingBodies
  BY DEF Arrive
<1>2. /\ state[c] = "sending" /\ state' = [state EXCEPT ![c] = "hooks"]
      /\ UNCHANGED <<retryMiddleware, kind, shared, error>>
  BY DEF Arrive, progressVars
<1>3. /\ raw.status \in 100 .. 599 /\ raw # None /\ kind[c].key \in Keys
  BY AnswersOK DEF Shapes, Keys
<1>4. Shapes'
  BY <1>1, <1>2 DEF Shapes, States, Keys, Stored
<1>5. Running(c) /\ Untouched(c)
  BY <1>1, <1>2, <1>3 DEF Running, Untouched, Shapes, Stored
<1>6. /\ state'[c] = "hooks" /\ answer'[c] = raw /\ applied'[c] = applied[c] + effect
      /\ raw.status >= 400 => pendingBodies'[kind[c].key] = raw.body
  BY <1>1, <1>2, <1>3 DEF Shapes, Stored
<1>7. raw.status = 401 => effect = 0
  BY <1>1, <1>3 DEF MayApply, Ok
<1>8. Retryable(c)' <=> Retryable(c)
  BY <1>2 DEF Retryable
<1>9. OnceOK(c)'
  BY <1>2, <1>6, <1>7, <1>8 DEF CallOK, OnceOK, Shapes
<1>10. CallOK(c)'
  BY <1>2, <1>3, <1>6, <1>9 DEF CallOK, AnswerOK, BodyOK, ErringOK, EndedOK, Failed
<1> QED BY <1>4, <1>5, <1>10, LocalIInv

LEMMA TranslateIInv ==
  ASSUME IInv, NEW c \in Calls, Translate(c)
  PROVE  IInv'
<1> USE DEF IInv
<1> DEFINE raw == answer[c]
           e == TranslateErrorBody(raw)
<1>1. /\ state[c] = "hooks" /\ raw # None /\ Running(c)
      /\ UNCHANGED <<retryMiddleware, kind, shared, answer, applied, pendingBodies>>
  BY DEF Translate, Rethrown, EndWith, progressVars, CallOK, AnswerOK, Running
<1>2. Retryable(c)' <=> Retryable(c)
  BY <1>1 DEF Retryable
<1>3. CASE Translates(raw) /\ e # None
  <2>1. state' = [state EXCEPT ![c] = "done"] /\ error' = [error EXCEPT ![c] = e]
    BY <1>3 DEF Translate, Rethrown, EndWith
  <2>2. Shapes' /\ Untouched(c)
    BY <1>1, <2>1 DEF Shapes, States, Keys, Untouched
  <2>3. state'[c] = "done" /\ error'[c] = e
    BY <2>1 DEF Shapes
  <2>4. e.code = OwnCode(raw) /\ IsInstance(e, ErrorClassForCode(OwnCode(raw)))
    BY <1>3, TranslatedIsOwn
  <2> HIDE DEF e
  <2>5. CallOK(c)'
    BY <1>1, <1>2, <2>3, <2>4 DEF CallOK, AnswerOK, OnceOK, BodyOK, ErringOK, EndedOK, Failed
  <2> QED BY <1>1, <2>2, <2>5, LocalIInv
<1>4. CASE ~(Translates(raw) /\ e # None)
  <2>1. state' = [state EXCEPT ![c] = "answered"] /\ error' = error
    BY <1>4 DEF Translate
  <2>2. Shapes' /\ Untouched(c)
    BY <1>1, <2>1 DEF Shapes, States, Keys, Untouched
  <2>3. state'[c] = "answered"
    BY <2>1 DEF Shapes
  <2>4. CallOK(c)'
    BY <1>1, <1>2, <1>4, <2>3 DEF CallOK, AnswerOK, OnceOK, BodyOK, ErringOK, EndedOK, Failed
  <2> QED BY <1>1, <2>2, <2>4, LocalIInv
<1> QED BY <1>3, <1>4

LEMMA ToErrorKeepsStatus ==
  ASSUME NEW raw
  PROVE  \E class, code : ToError(raw) = AnError(class, code, raw.status)
  BY DEF ToError, FromApiError

LEMMA FailIInv ==
  ASSUME IInv, NEW c \in Calls, Fail(c)
  PROVE  IInv'
<1> USE DEF IInv
<1> DEFINE raw == answer[c]
           body == pendingBodies[kind[c].key]
<1>1. /\ state[c] \in {"answered", "refreshing"} /\ Running(c) /\ raw \in Answers /\ raw # None
      /\ TakeBody(c, ToError(raw))
      /\ UNCHANGED <<retryMiddleware, kind, shared, answer, applied>>
  <2>1. raw \in Answers /\ raw # None
    BY DEF Fail, Shapes, CallOK, AnswerOK
  <2> QED BY <2>1 DEF Fail, progressVars, Running
<1>2. PICK class, code : ToError(raw) = AnError(class, code, raw.status)
  BY ToErrorKeepsStatus
<1> HIDE DEF raw, body
<1>3. TakeBody(c, AnError(class, code, raw.status))
  BY <1>1, <1>2
<1>4. /\ DOMAIN pendingBodies' = Keys
      /\ \A k \in Keys \ {kind[c].key} : pendingBodies'[k] = pendingBodies[k]
      /\ state' = [state EXCEPT ![c] = "erring"]
      /\ DOMAIN error' = Calls /\ \A d \in Calls \ {c} : error'[d] = error[d]
      /\ error'[c].status = raw.status
      /\ body # None => error'[c].code = ParsedCode(raw.status, body)
  BY <1>3, TakenBody DEF body
<1>5. Shapes' /\ Untouched(c)
  BY <1>1, <1>4 DEF Shapes, States, Keys, Untouched
<1>6. state'[c] = "erring"
  BY <1>4 DEF Shapes
<1>7. c \notin shared /\ raw.status >= 400 => error'[c].code = OwnCode(raw)
  <2> SUFFICES ASSUME c \notin shared, raw.status >= 400 PROVE error'[c].code = OwnCode(raw)
    OBVIOUS
  <2>1. body = raw.body /\ body # None
    BY <1>1, AnswersOK DEF CallOK, BodyOK, body, raw
  <2>2. ~(Translates(raw) /\ TranslateErrorBody(raw) # None)
    BY <1>1 DEF CallOK, AnswerOK, raw
  <2> QED BY <1>1, <1>4, <2>1, <2>2, ParsedIsOwn
<1>8. OnceOK(c)'
  BY <1>1, <1>6 DEF CallOK, OnceOK, Retryable
<1>9. CallOK(c)'
  BY <1>1, <1>4, <1>6, <1>7, <1>8 DEF CallOK, AnswerOK, BodyOK, ErringOK, EndedOK, Failed, raw
<1> QED BY <1>1, <1>5, <1>9, LocalIInv

LEMMA DecideIInv ==
  ASSUME IInv, NEW c \in Calls, Decide(c)
  PROVE  IInv'
<1> USE DEF IInv
<1>1. /\ state[c] = "erring" /\ Running(c)
      /\ UNCHANGED <<retryMiddleware, kind, shared, answer, applied, pendingBodies>>
  BY DEF Decide, Running
<1>2. Retryable(c)' <=> Retryable(c)
  BY <1>1 DEF Retryable
<1>3. CASE /\ MayRetry(c) /\ Sleep(c) /\ error' = [error EXCEPT ![c] = None]
  <2>1. Retryable(c) /\ state' = [state EXCEPT ![c] = "sleeping"]
    BY <1>3 DEF MayRetry, Sleep
  <2>2. Shapes' /\ Untouched(c)
    BY <1>1, <1>3, <2>1 DEF Shapes, States, Keys, Untouched
  <2>3. state'[c] = "sleeping"
    BY <2>1 DEF Shapes
  <2>4. CallOK(c)'
    BY <1>1, <1>2, <2>1, <2>3 DEF CallOK, AnswerOK, OnceOK, BodyOK, ErringOK, EndedOK, Failed
  <2> QED BY <1>1, <2>2, <2>4, LocalIInv
<1>4. CASE EndWith(c, Refined(error[c]))
  <2> DEFINE e == Refined(error[c])
  <2>1. state' = [state EXCEPT ![c] = "done"] /\ error' = [error EXCEPT ![c] = e]
    BY <1>4 DEF EndWith
  <2>2. e.code = error[c].code /\ IsInstance(e, ErrorClassForCode(e.code))
    BY RefinedIsInstance
  <2> HIDE DEF e
  <2>3. Shapes' /\ Untouched(c)
    BY <1>1, <2>1 DEF Shapes, States, Keys, Untouched
  <2>4. state'[c] = "done" /\ error'[c] = e
    BY <2>1 DEF Shapes
  <2>5. CallOK(c)'
    BY <1>1, <1>2, <2>2, <2>4 DEF CallOK, AnswerOK, OnceOK, BodyOK, ErringOK, EndedOK, Failed
  <2> QED BY <1>1, <2>3, <2>5, LocalIInv
<1> QED BY <1>3, <1>4 DEF Decide

LEMMA LoseAnswerIInv ==
  ASSUME IInv, NEW c \in Calls, LoseAnswer(c)
  PROVE  IInv'
<1> USE DEF IInv
<1>1. PICK effect \in {0, 1} : applied' = [applied EXCEPT ![c] = @ + effect]
  BY DEF LoseAnswer
<1>2. /\ state[c] = "sending" /\ Running(c) /\ answer[c] = None
      /\ UNCHANGED <<retryMiddleware, kind, shared, answer>>
      /\ applied'[c] = applied[c] + effect /\ applied' \in [Calls -> Nat]
      /\ \A d \in Calls \ {c} : applied'[d] = applied[d]
  BY <1>1 DEF LoseAnswer, Running, CallOK, AnswerOK, Shapes
<1>3. ~Retryable(c) => applied'[c] <= 1
  BY <1>2 DEF CallOK, OnceOK
<1>4. Retryable(c)' <=> Retryable(c)
  BY <1>2 DEF Retryable
<1>5. CASE MayRetryTransport(c) /\ Sleep(c) /\ UNCHANGED <<error, pendingBodies>>
  <2>1. Retryable(c) /\ state' = [state EXCEPT ![c] = "sleeping"]
    BY <1>5 DEF MayRetryTransport, MayRetry, Sleep
  <2>2. Shapes' /\ Untouched(c)
    BY <1>2, <1>5, <2>1 DEF Shapes, States, Keys, Untouched
  <2>3. state'[c] = "sleeping"
    BY <2>1 DEF Shapes
  <2>4. CallOK(c)'
    BY <1>2, <1>4, <2>1, <2>3 DEF CallOK, AnswerOK, OnceOK, BodyOK, ErringOK, EndedOK, Failed
  <2> QED BY <1>2, <2>2, <2>4, LocalIInv
<1>6. CASE \E e \in TransportErrors : TakeBody(c, e)
  <2>1. \E class, code : TakeBody(c, AnError(class, code, Unset))
    BY <1>6 DEF TransportErrors
  <2>2. PICK class, code : TakeBody(c, AnError(class, code, Unset))
    BY <2>1
  <2>3. /\ DOMAIN pendingBodies' = Keys
        /\ \A k \in Keys \ {kind[c].key} : pendingBodies'[k] = pendingBodies[k]
        /\ state' = [state EXCEPT ![c] = "erring"]
        /\ DOMAIN error' = Calls /\ \A d \in Calls \ {c} : error'[d] = error[d]
        /\ error'[c].status = Unset
    BY <2>2, TakenBody
  <2>4. Shapes' /\ Untouched(c)
    BY <1>2, <2>3 DEF Shapes, States, Keys, Untouched
  <2>5. state'[c] = "erring" /\ Unset # 401
    BY <2>3, AnswersOK DEF Shapes
  <2>6. CallOK(c)'
    BY <1>2, <1>3, <1>4, <2>3, <2>5 DEF CallOK, AnswerOK, OnceOK, BodyOK, ErringOK, EndedOK, Failed
  <2> QED BY <1>2, <2>4, <2>6, LocalIInv
<1> QED BY <1>5, <1>6 DEF LoseAnswer

LEMMA AbortIInv ==
  ASSUME IInv, NEW c \in Calls, Abort(c)
  PROVE  IInv'
<1> USE DEF IInv
<1>1. PICK effect \in {0, IF state[c] = "sending" THEN 1 ELSE 0} :
        applied' = [applied EXCEPT ![c] = @ + effect]
  BY DEF Abort
<1>2. /\ Running(c) /\ UNCHANGED <<retryMiddleware, kind, shared, answer, pendingBodies>>
      /\ applied'[c] = applied[c] + effect /\ applied' \in [Calls -> Nat]
      /\ \A d \in Calls \ {c} : applied'[d] = applied[d]
  BY <1>1 DEF Abort, Running, progressVars, Shapes
<1>3. Retryable(c)' <=> Retryable(c)
  BY <1>2 DEF Retryable
<1>4. CASE state[c] \in {"sending", "sleeping"} /\ EndWith(c, AbortError)
  <2>1. /\ state' = [state EXCEPT ![c] = "done"] /\ error' = [error EXCEPT ![c] = AbortError]
        /\ AbortError.class = "AbortError"
    BY <1>4 DEF EndWith, AbortError, AnError
  <2>2. Shapes' /\ Untouched(c)
    BY <1>2, <2>1 DEF Shapes, States, Keys, Untouched
  <2>3. state'[c] = "done" /\ error'[c].class = "AbortError"
    BY <2>1 DEF Shapes
  <2>4. ~Retryable(c) => applied'[c] <= 1
    BY <1>1, <1>2, <1>4 DEF CallOK, OnceOK
  <2>5. CallOK(c)'
    BY <1>2, <1>3, <2>3, <2>4 DEF CallOK, AnswerOK, OnceOK, BodyOK, ErringOK, EndedOK, Failed
  <2> QED BY <1>2, <2>2, <2>5, LocalIInv
<1>5. CASE state[c] \notin {"sending", "sleeping"} /\ UNCHANGED <<state, error>>
  <2>1. Shapes' /\ Untouched(c)
    BY <1>2, <1>5 DEF Shapes, Untouched, Keys
  <2>2. applied'[c] = applied[c]
    BY <1>1, <1>2, <1>5 DEF Shapes
  <2>3. CallOK(c)'
    BY <1>2, <1>3, <1>5, <2>2 DEF CallOK, AnswerOK, OnceOK, BodyOK, ErringOK, EndedOK, Failed
  <2> QED BY <1>2, <2>1, <2>3, LocalIInv
<1> QED BY <1>4, <1>5 DEF Abort

LEMMA NextIInv ==
  ASSUME IInv, [Next]_vars
  PROVE  IInv'
<1>1. CASE UNCHANGED vars
  <2>1. \A c \in Calls : Retryable(c)' <=> Retryable(c)
    BY <1>1 DEF vars, Retryable
  <2>2. Shapes' /\ SharedInv'
    BY <1>1 DEF vars, IInv, Shapes, SharedInv, Running, Keys
  <2>3. \A c \in Calls : CallOK(c)'
    BY <1>1, <2>1 DEF vars, IInv, CallOK, AnswerOK, OnceOK, BodyOK, ErringOK, EndedOK, Failed
  <2> QED BY <2>2, <2>3 DEF IInv
<1>2. CASE Next
  BY <1>2, PrepareIInv, MoveIInv, ArriveIInv, TranslateIInv, FailIInv, DecideIInv, LoseAnswerIInv,
     AbortIInv DEF Next, Step
<1> QED BY <1>1, <1>2

LEMMA Inductive == Spec => []IInv
<1>1. Init => IInv
  BY InitIInv
<1>2. IInv /\ [Next]_vars => IInv'
  BY NextIInv
<1> QED BY <1>1, <1>2, PTL DEF Spec

-----------------------------------------------------------------------------
(* However answers, timeouts, 401 replays, retries and aborts alternate, a  *)
(* request that may not be repeated takes effect at most once.              *)
THEOREM NoDoubleEffect == Spec => []AppliedOnce
<1>1. IInv => AppliedOnce
  BY DEF IInv, CallOK, OnceOK, AppliedOnce
<1> QED BY <1>1, Inductive, PTL

(* A call that was answered with 4xx or 5xx and had its key to itself ends  *)
(* with the code and the class of its own last answer.                      *)
THEOREM ErrorsAreOwn == Spec => []ErrorIsOwn
<1>1. IInv => ErrorIsOwn
  BY DEF IInv, CallOK, EndedOK, ErrorIsOwn
<1> QED BY <1>1, Inductive, PTL

(* Only a call the API answered with 401 makes the session give up its      *)
(* tokens, shared keys or not.                                              *)
THEOREM OnlyA401SignsOut == Spec => NoForeignSignOut
<1>1. IInv /\ [Next]_vars =>
        [\A c \in signedOut' \ signedOut : answer[c] # None /\ answer[c].status = 401]_vars
  <2> SUFFICES ASSUME IInv, [Next]_vars, NEW c \in signedOut', c \notin signedOut
               PROVE  answer[c] # None /\ answer[c].status = 401
    OBVIOUS
  <2>1. PICK d \in Calls : Decide(d)
    BY DEF Next, Step, vars, Prepare, Send, Arrive, Translate, Success, Refresh, Refreshed, Fail,
           LoseAnswer, WakeUp, Abort
  <2>2. c = d /\ SignsOut(error[d]) /\ state[d] = "erring"
    BY <2>1 DEF Decide
  <2> QED BY <2>2 DEF IInv, CallOK, ErringOK, SignsOut
<1> QED BY <1>1, Inductive, PTL DEF Spec, NoForeignSignOut
=============================================================================
