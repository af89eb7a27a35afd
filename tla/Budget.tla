------------------------------- MODULE Budget -------------------------------
(***************************************************************************)
(* Budgets (packages/budget).  Spenders draw on one budget of the server:  *)
(* each has a copy of the budget and of its history, fetched at any times  *)
(* before, decides with one of the SDK's checks whether a draw fits, and   *)
(* consumes it.  The checks are validateBudgetSpend() ("dry run": local    *)
(* check, then the API's simulation), validateBudgetSpending()             *)
(* ("spending") and checkBudgetLimit() ("limit").                          *)
(*                                                                         *)
(* Decimal strings, which these checks add and compare digit by digit, are *)
(* integers of the smallest unit.  Time counts from a first day of week,   *)
(* month and quarter, so that every calendar period begins at a multiple   *)
(* of its length.  What warns of a budget that runs low is computed in     *)
(* floating point and not modelled.  The server is external: it rolls the  *)
(* budget over when its window ends, and adds a consumption to spent and   *)
(* to the history.                                                         *)
(***************************************************************************)
EXTENDS Integers, Sequences, Optional

CONSTANTS
  Spenders,
  Day, LengthOf,           \* the length of a day, and of each period
  Limits, Draws, Rates,    \* limits, draws and conversion rates <<n, d>> to try
  DailyLimit, AssetCap,    \* options of validateBudgetSpending()
  MaxTime, MaxEntries,     \* bounds: of the clock and of the history
  MaxEdits                 \* bound: updates and resets of the budget

ASSUME BudgetAssumption ==
  /\ Day \in Nat \ {0}
  /\ \A p \in DOMAIN LengthOf : LengthOf[p] \in Nat \ {0}
  /\ Limits \subseteq Nat /\ Draws \subseteq Nat
  /\ \A rate \in Rates : rate[1] \in Nat /\ rate[2] \in Nat \ {0}
  /\ DailyLimit \in Nat \union {Unset} /\ AssetCap \in Nat \union {Unset}

VARIABLES
  time,
  budget,    \* the server's record
  history,   \* its consumptions
  past,      \* the records agents may still hold, with the last version each was current at
  intent,    \* where each agent's draw stands
  version,   \* history: how often what a decision must know has changed
  stale,     \* history: a draw was consumed on a decision that had missed a change,
             \* or a limit was cut below what is spent
  others,    \* history: a draw was decided by another check than validateBudgetSpending()
  wasReset,  \* history: spent was reset in the window
  edits      \* updates and resets so far

serverVars == <<budget, history, version, wasReset, edits>>
budgetVars == <<time, serverVars, past, intent, stale, others>>

Checks == {"dry run", "spending", "limit"}
Idle == [phase |-> "idle", spending |-> FALSE, draw |-> 0, own |-> TRUE, basis |-> 0]

BudgetInit ==
  /\ time = Day - 1
  /\ budget \in [limit : Limits, spent : {0}, enabled : {TRUE}, period : DOMAIN LengthOf, periodStart : {time}]
  /\ history = <<>>
  /\ past = {}
  /\ intent = [a \in Spenders |-> Idle]
  /\ version = 0 /\ stale = FALSE /\ others = FALSE /\ wasReset = FALSE /\ edits = 0

-----------------------------------------------------------------------------
(* Windows and sums: of the entries at the positions that count. *)

Sum(entries, counted) ==
  LET total[n \in 0 .. Len(entries)] ==
        IF n = 0 THEN 0 ELSE total[n - 1] + IF n \in counted THEN entries[n].amount ELSE 0
  IN total[Len(entries)]
Sub(a, b) == IF a > b THEN a - b ELSE 0

(* resolveBudgetWindow() and the two getWindow(). *)
WindowStart(b) == b.periodStart - (IF b.period = "ONE_TIME" THEN 0 ELSE b.periodStart % LengthOf[b.period])
WindowEnd(b) == WindowStart(b) + LengthOf[b.period]

WithinAfterStart(entries, start, end) == {i \in DOMAIN entries : entries[i].at > start /\ entries[i].at < end}
Within(entries, start, end) == {i \in DOMAIN entries : entries[i].at >= start /\ entries[i].at < end}
OfWindow(b, entries) == Within(entries, WindowStart(b), WindowEnd(b))

StartOfDay(t) == t - (t % Day)
Today(entries, t) == Within(entries, StartOfDay(t), StartOfDay(t) + Day)

WouldExceed(amount, remaining) == amount > 0 /\ amount > remaining

-----------------------------------------------------------------------------
(* validateSimulationRequest(): a foreign asset needs a rate.              *)

Draw(request) ==
  IF request.own \/ request.rate = Unset THEN request.amount
  ELSE (request.amount * request.rate[1]) \div request.rate[2]

Violations(b, request, now) ==
  {v \in {"CURRENCY_MISMATCH", "EXPIRED_BUDGET", "DISABLED", "LIMIT_OVERFLOW"} :
     CASE v = "CURRENCY_MISMATCH" -> ~request.own /\ request.rate = Unset
       [] v = "EXPIRED_BUDGET" -> now >= WindowEnd(b)
       [] v = "DISABLED" -> ~b.enabled
       [] v = "LIMIT_OVERFLOW" -> (request.own \/ request.rate # Unset) /\ WouldExceed(Draw(request), b.limit - b.spent)}

ValidateSimulationRequest(b, request, now) == Violations(b, request, now) = {}

-----------------------------------------------------------------------------
(* validation.ts.  recorded says whether the caller's (partial) budget     *)
(* carries spent; without it the history of the window stands in.          *)

RemainingAllowance(b, entries, recorded) ==
  Sub(b.limit, IF recorded THEN b.spent ELSE Sum(entries, OfWindow(b, entries)))

ValidateRemainingAllowance(b, request, entries, recorded) ==
  b.enabled /\ request.own /\ ~WouldExceed(request.amount, RemainingAllowance(b, entries, recorded))

DailyLimitOf(b) ==
  IF DailyLimit # Unset THEN DailyLimit
  ELSE IF b.period = "DAILY" THEN b.limit ELSE Unset

ValidateDailyLimitOfFirstDay(b, request, entries, now) ==
  DailyLimitOf(b) = Unset
    \/ ~WouldExceed(request.amount, Sub(DailyLimitOf(b), Sum(entries, Today(entries, b.periodStart))))
ValidateDailyLimit(b, request, entries, now) ==
  DailyLimitOf(b) = Unset
    \/ ~WouldExceed(request.amount, Sub(DailyLimitOf(b), Sum(entries, Today(entries, now))))

(* The caller counts what it knows the asset to have cost so far. *)
ValidateAssetSpendingCap(request, entries) ==
  AssetCap = Unset \/ ~request.own \/ ~WouldExceed(request.amount, Sub(AssetCap, Sum(entries, DOMAIN entries)))

ValidateBudgetSpending(b, request, entries, recorded, now) ==
  /\ ValidateRemainingAllowance(b, request, entries, recorded)
  /\ ValidateDailyLimit(b, request, entries, now)
  /\ ValidateAssetSpendingCap(request, entries)

(* A budget that is disabled, or of another currency, restricts nothing. *)
CheckBudgetLimit(b, entries, request) ==
  ~b.enabled \/ ~request.own \/ ~WouldExceed(request.amount, Sub(b.limit, Sum(entries, OfWindow(b, entries))))

(* utils.ts *)
IsOverBudget(b, entries) == Sum(entries, OfWindow(b, entries)) > b.limit

-----------------------------------------------------------------------------
(* The agents. *)

(* What an agent may have fetched: a record, and the first n entries. *)
Copies == past \union {[budget |-> budget, at |-> version]}
EntriesAt(n) == IF n = Len(history) THEN version ELSE history[n + 1].before
OlderOf(x, y) == IF x < y THEN x ELSE y

Passes(copy, entries, check, request) ==
  CASE check = "dry run" -> ValidateSimulationRequest(copy.budget, request, time)
    [] check = "spending" ->
         \E recorded \in BOOLEAN : ValidateBudgetSpending(copy.budget, request, entries, recorded, time)
    [] check = "limit" -> CheckBudgetLimit(copy.budget, entries, request)

(* A draw of another currency that the check lets pass without a rate is   *)
(* no draw on this budget.                                                 *)
Ask(a, check, request) ==
  /\ intent[a].phase = "idle" /\ Len(history) < MaxEntries
  /\ check = "dry run" \/ request.own
  /\ \E copy \in Copies, n \in 0 .. Len(history) :
       /\ Passes(copy, SubSeq(history, 1, n), check, request)
       /\ intent' = [intent EXCEPT ![a] =
            [phase |-> IF check = "dry run" THEN "simulating" ELSE "cleared",
             spending |-> check = "spending", draw |-> Draw(request), own |-> request.own,
             basis |-> CASE check = "dry run" -> copy.at
                         [] check = "limit" /\ ~copy.budget.enabled -> -1   \* rests on nothing
                         [] OTHER -> OlderOf(copy.at, EntriesAt(n))]]
  /\ UNCHANGED <<time, serverVars, past, stale, others>>

(* What the API makes of a draw of its own currency; of another it may say *)
(* either, for the rate is not passed on.                                  *)
RemoteAllows(draw) == budget.enabled /\ draw <= budget.limit - budget.spent

AnyApiVerdict(a) == TRUE
ApiVerdict(a) == ~intent[a].own \/ RemoteAllows(intent[a].draw)

Simulate(a) ==
  /\ intent[a].phase = "simulating"
  /\ \/ /\ ApiVerdict(a)
        /\ intent' = [intent EXCEPT ![a].phase = "cleared", ![a].basis = IF intent[a].own THEN version ELSE @]
     \/ /\ ~intent[a].own \/ ~RemoteAllows(intent[a].draw)
        /\ intent' = [intent EXCEPT ![a] = Idle]
  /\ UNCHANGED <<time, serverVars, past, stale, others>>

Consume(a) ==
  /\ intent[a].phase = "cleared" /\ Len(history) < MaxEntries
  /\ budget' = [budget EXCEPT !.spent = @ + intent[a].draw] /\ past' = Copies
  /\ history' = Append(history, [at |-> time, amount |-> intent[a].draw, before |-> version])
  /\ version' = version + 1
  /\ stale' = (stale \/ intent[a].basis < version)
  /\ others' = (others \/ ~intent[a].spending)
  /\ intent' = [intent EXCEPT ![a] = Idle]
  /\ UNCHANGED <<time, wasReset, edits>>

Abandon(a) ==
  /\ intent[a].phase = "cleared"
  /\ intent' = [intent EXCEPT ![a] = Idle]
  /\ UNCHANGED <<time, serverVars, past, stale, others>>

-----------------------------------------------------------------------------
(* The operator, and time. *)

Edit == edits < MaxEdits /\ edits' = edits + 1

Update(b) ==
  /\ Edit
  /\ budget' = b /\ past' = Copies
  /\ version' = IF b.limit < budget.limit THEN version + 1 ELSE version
  /\ stale' = (stale \/ b.spent > b.limit)
  /\ UNCHANGED <<time, history, intent, others, wasReset>>

UpdateBudget ==
  \/ \E l \in Limits \ {budget.limit} : Update([budget EXCEPT !.limit = l])
  \/ Update([budget EXCEPT !.enabled = ~@])

ResetBudget ==
  /\ Edit
  /\ budget.spent > 0
  /\ budget' = [budget EXCEPT !.spent = 0] /\ past' = Copies
  /\ wasReset' = TRUE
  /\ UNCHANGED <<time, history, version, intent, stale, others>>

TimePasses ==
  /\ time < MaxTime
  /\ time' = time + 1
  /\ IF time' >= WindowEnd(budget)
     THEN budget' = [budget EXCEPT !.spent = 0, !.periodStart = time'] /\ wasReset' = FALSE /\ past' = Copies
     ELSE UNCHANGED <<budget, wasReset, past>>
  /\ UNCHANGED <<history, version, edits, intent, stale, others>>

DrawRequests == [own : BOOLEAN, amount : Draws, rate : Rates \union {Unset}]

BudgetNext ==
  \/ \E a \in Spenders :
       Simulate(a) \/ Consume(a) \/ Abandon(a)
         \/ \E check \in Checks, request \in DrawRequests : Ask(a, check, request)
  \/ UpdateBudget \/ ResetBudget \/ TimePasses

BudgetSpec == BudgetInit /\ [][BudgetNext]_budgetVars
-----------------------------------------------------------------------------
(* Properties. *)

(* With a history (validateBudgetSpending, checkBudgetLimit) or a copy of  *)
(* the record (validateBudgetSpend), a draw that fits is decided the same  *)
(* way: no budget is overspent unless some draw was consumed on a decision *)
(* that missed a consumption or a cut of the limit made before it, or on a *)
(* disabled copy, which checkBudgetLimit() takes for no limit at all, or   *)
(* the operator himself cut the limit below what was spent.  The API's     *)
(* simulation is what makes a dry run on an old copy safe.                 *)
OverspendingIsStale == budget.spent > budget.limit => stale

(* As long as every draw was decided by validateBudgetSpending() and none  *)
(* on an old decision, no day exceeds the daily limit, whatever the period *)
(* of the budget and however it is rolled over or reset, and the asset     *)
(* never exceeds its cap.                                                  *)
DailyLimitsHold ==
  ~stale /\ ~others =>
    /\ DailyLimit # Unset => Sum(history, Today(history, time)) <= DailyLimit
    /\ AssetCap # Unset => Sum(history, DOMAIN history) <= AssetCap

(* The five ways to ask whether a draw fits agree while the record and the *)
(* history are those of the server: the record's spent is what the history *)
(* has in the window (unless it was reset), and remaining, simulated,      *)
(* checked and recomputed allowances follow from the same window.          *)
ChecksAgree ==
  ~wasReset => \A amount \in Draws :
    LET request == [own |-> TRUE, amount |-> amount, rate |-> Unset]
        byRecord == ValidateRemainingAllowance(budget, request, <<>>, TRUE)
    IN /\ byRecord <=> ValidateRemainingAllowance(budget, request, history, FALSE)
       /\ byRecord <=> ValidateSimulationRequest(budget, request, time)
       /\ budget.enabled => (byRecord <=> CheckBudgetLimit(budget, history, request))
       /\ IsOverBudget(budget, history) <=> budget.spent > budget.limit
=============================================================================
