# A verification of astroid-sdk in TLA+

The SDK (`src/packages/*`) is a TypeScript client for an agent-payments API on
Stellar. What is hard in it lies in two places. One is the few objects that keep
state across `await`s and are shared by concurrent callers: the session, the HTTP
client's request loop and its hooks, the rate limiter, the offline queue, the
analytics client, the submission of envelopes, the optimistic cache. The other is
code in several modules that has to agree about one thing: who builds, checks and
bumps a fee; which engine refuses a payment; how much of a budget is left. This
project models both kinds, model-checks them with TLC and proves the central
safety properties of all of them with TLAPS, a refinement among them.

JavaScript runs one callback at a time, so in every module a step is the code
between two suspension points (an `await`, a timer, a promise callback), and
interleaving happens only there.

## Inventory

| Part | State | Operations | Interacts with | Hard behaviour | Correct when | Status |
|---|---|---|---|---|---|---|
| client: rate limiter (`client/src/middleware/rate-limiter.ts`) | tokens, refill time, cool-down, waiter queue, one refill timer, a timeout per waiter | acquire, abort, timeout, drain, noteRetryAfter | request loop, clock | timers armed before a 429, late timers, aborts from the middle of the queue | rate bounded, nobody forgotten, FIFO, no token in a cool-down | `RateLimiter` |
| auth: session (`auth/src/session.ts`) | access and refresh token, active refresh, storage | refreshSession, setTokens, clearTokens, handleAuthFailure, waitForRefresh; middleware hooks | HTTP client, callbacks, storage | concurrent 401s, rotation, refresh failing through its own middleware | one refresh, no token reuse, nobody left waiting | `Session`; storage awaits not |
| client: token refresh wiring (`client/src/token-refresh.ts`, `client/src/index.ts`) | none of its own | handleUnauthorized, queue interceptor, refreshTokens, setAccessToken | session, HTTP client | two copies of the access token, one of which the application may set | the copies differ only where the application set one | `Session` |
| core: request loop (`core/src/http-client.ts`) | attempt, replay mark, headers, token | prepare, send, retry, replay after a 401 | middleware, session | 401s, losses and aborts alternating; two retry rules | bounded sends, nothing unrepeatable repeated, every call ends | `Session`, `Pipeline` |
| client, errors: error parser, translator, retry middleware (`client/src/error-parser-middleware.ts`, `middleware/error.ts`, `middleware/retry.ts`, `errors/src`) | bodies by method and URL | onResponse, onError | request loop, session | hooks in reverse order, each replacing the error; a shared map | an error is its answer's own, and signs out only on a 401 | `Pipeline` |
| auth: login, logout, refresh (`auth/src/index.ts`) | tokens | login, logout, refresh | session, HTTP client | a refresh in flight; a second one past the single flight | logout clears; no replaced token goes out | `Session` |
| core: offline queue (`core/src/offline-queue.ts`) | the stored queue | enqueue, flush, clear | storage, replayer | crash or failed write between replay and save, overlapping calls | nothing lost, order, no duplicate without a fault | `OfflineQueue` |
| analytics: event client (`analytics/src/client.ts`) | queue, drain in flight, counters, interval | record, flush, retries, requeue, shutdown | transport, timers, microtasks | recording while a batch is out, overflow by two paths | counters add up, order, oldest dropped first, drained | `AnalyticsClient` |
| transaction: builders, fees (`builder.ts`, `multi-operation.ts`, `policy-builders.ts`, `budget-delegation.ts`, `feeBump.ts`, `validator.ts`, `fees.ts`, `fee-*.ts`) | one envelope handed on | build, sign, bump, validate, advise | Stellar SDK | a bid divided, floored, multiplied, rounded | what one produces the next accepts | `Envelope` |
| transaction: batch (`batch.ts`) | list of operations, settings, cached payload | add, clear, reorder, validate, resolve, build | — | implicit edges, cycles, a cache | a legal order, found iff one exists; a fresh payload | `Batch` |
| transaction: submission (`submit.ts`, `policy-submitter.ts`, `status.ts`) | none across calls | submit, submit through the API, verify a record, gate, retry | network, ledger, API, policy engine | an answer lost after the ledger applied the envelope; time passing between attempts | no false verdict; every broadcast within its rules | `Submission` |
| policy (`policy/src`) | the builder's draft; published rules | build, import, simulate, evaluate, parse | submission, API | three engines and three readers of one rule | a rule handed out is consistent; engines and readers agree | `PolicyGate`, `Policy` |
| budget (`budget/src`) | the server's record, copies of it | check, consume, update, reset | API, policy | check-then-consume on copies, period ends | only an old decision overspends; checks agree | `Budget` |
| react: optimistic cache (`react/src/hooks/optimistic-agent.ts`, `useAgents.ts`) | query cache, snapshots | snapshot, patch, rollback, invalidate | query library | overlapping mutations and fetches | what is believed fresh is true | `AgentCache` |
| auth: TokenRotator (`auth/src/rotation.ts`) | active rotation | rotate | callbacks | joining an older rotation | one rotation | not modelled |
| client: typed emitter (`client/src/index.ts`) | listener sets | on, once, off, emit | application | changes during emit, throwing listeners | once means once | not modelled |
| wallet: multisig (`wallet/src/multisig.ts`) | signer list | threshold evaluation | — | a signer listed twice | weight counted once | not modelled |
| pagination (`core/src/pagination.ts`) | cursor | paginate | resource | a server whose cursors cycle | ends | not modelled |
| agent: batchStatus (`agent/src/agent.ts`) | shared index | workers | HTTP client | abort between lookups | each id once | not modelled |
| types, utils, notification, webhook, cli, analytics queries, wallet crypto, react hooks | none | — | — | — | — | not modelled: stateless, cryptographic, UI or declarations |

`PROJECT.json` lists the hazards, each at the line where it bites, with the
properties that cover it or the reason none does.

## Modules

- `RateLimiter`: `TokenBucketLimiter` and its middleware over one bucket. The
  level is kept in milliseconds of refill, one token being `TokenCost` of them,
  so the arithmetic is exact where the code uses floats. `Acquire`, `Abort`,
  `FailWaiter`, `RefillTimer` and `NoteRetryAfter` are the methods; `Tick` is the
  clock, which cannot pass a due timer by more than `TimerLag`. `OpenWindow` only
  moves a history mark, the start of the window `RateBounded` speaks of; it changes
  nothing the code reads.
- `Session`: the session manager, session middleware, refresh interceptor, the
  wiring in `Astroid`, and the request loop, composed in one module because a step
  of one is a step of the others: `handleUnauthorized` runs inside `request()`,
  and the refresh itself is a request through the same client. A request is a
  program counter `pc[r]`, a refresh is a flow `flow[f]`. Tokens are numbers in the
  order the server mints them; 0 is no token. `Call` is `prepare()` with the
  `onRequest` hooks, `Respond` what one answer leads to, `Continue` what follows a
  back-off or a callback, `Proceed` the steps of a refresh. `SetAccessToken` is the
  application's call, which changes the HTTP client's copy only; `exchange[x]` is
  `auth.refresh()`, a second way to `/auth/refresh` past the single flight, with a
  refresh token of the application's choice. History: `overridden` (the application was
  the last to set the HTTP client's token), `unheard` (tokens such a call had replaced,
  its answer not adopted), `shunned` (expired tokens a waiting call should not go out with).
- `Pipeline`: the same request loop seen from the errors. A call is sent, its answer
  passes the parser, session and translator hooks in their order, and is retried,
  replayed or thrown; losses and aborts strike while it is in the air or asleep. A
  body is what the parsers tell apart. The session's refresh, which `Session` has
  in full, is one step here. `Fail` takes every answer outside 2xx, as the code does.
- `OfflineQueue`: the queue over an asynchronous storage that survives a crash.
  Each operation loads the whole array, works on its copy and saves it whole;
  every await is a step. `Overlapping` says whether calls may overlap.
- `Outbox`: what the queue promises: an outbox that takes entries on, delivers them in
  order and at least once, and can be emptied. `OfflineQueue` implements it, see below.
- `AnalyticsClient`: the queue, the drain in flight, automatic flushes on the
  microtask queue, the interval and shutdown. `inFlight` keeps the value "settled"
  between the end of a drain and the microtask that clears it, which `flush()` can
  observe. The wait between two attempts is part of the attempt.
- `FeeRules`: the limits, the order of checks and the fee checks that `Envelope` and
  `Batch` share.
- `Envelope`: one envelope passed from adviser to builder to signer to bumper.
  `BuildEnvelope` takes one of the builders (single, multi-operation, from operations, policy,
  budget), `Receive` brings an envelope from elsewhere, `Bump` and `BumpByDefault`
  wrap it, `Advice` records what one of the three advisers recommends (from
  statistics, from an envelope, from the API's answer); the checks are operators
  that return the issues found. Multipliers are hundredths, as the
  code rounds them.
- `Batch`: the batch builder. `Edges` are the dependencies, `Kahn` the resolution,
  a recursive function; `DependenciesError` is what `validate()` checks by comparing
  indexes. Building takes a sequence number, and the cached payload is kept. `Trim` is
  the trimming of ids: the checks know an operation by its trimmed id (`IdOf`), the
  edges by the one it was given.
  `PositionalIds` are the names `op_0`, `op_1`, ... that `dependsOn` may use for an
  operation without id. `Unambiguous` says for which batches order and checks agree:
  ids are without blanks, and a name, an account's creation and a trust line stand for
  one operation each.
- `PolicyGate`: the local policy engine as pure operators. `Submission` and `Policy`
  both extend it.
- `SubmissionPromise`: what submitting an envelope promises: it is applied at most
  once, and an answer "success" or "rejected" is worth something. `Submission`
  implements it, see below.
- `Submission`: four submitting functions (`path` says which one a call uses), a network
  (`wire`, `pool`, `answer`), a ledger with sequence numbers and time bounds and the
  API's record of an envelope, all external. A call through the API may resolve with a
  record that is still pending; `Verify` is the caller looking again. `credit` is history:
  whose request got an envelope applied.
- `Policy`: builder calls in any order, imports and publication, and the verdicts of
  the engines and of the readers of an answer on every payment. Nobody pays here: the
  engines judge one payment and record nothing. A rule's conditions are a function of
  the rule families; an amount counts in a unit of which seven decimals, the precision
  the builder allows, are a multiple of ten, and `ParseFloat` is the double nearest to
  an amount. An `Answer` gives the fields a server likes, its violations listed or
  unreadable. `MatchPolicies` is the selection by scope.
- `Budget`: the server's record and history, the copies agents still hold (`past`), a
  decision by one of the SDK's checks and the consumption that follows it. `version`
  and `stale` are history: what a decision missed. Amounts are whole: the checks that
  are modelled compare decimals exactly.
- `AgentCache`: the mutation hooks over an external query cache, whose rules
  (`Write`, `Invalidate`, `Fetch`, `Land`) are those the hooks rely on. Components
  fetch, and answers land, between any two steps of a mutation. `missed` is history.
- `Optional`: the value of a field that is left out, one for `PolicyGate`, `Policy`,
  `Submission` and `Budget`.
- `RateLimiterProofs`, `SessionProofs`, `PipelineProofs`, `OfflineQueueProofs`,
  `AnalyticsClientProofs` and `AgentCacheProofs`: the theorems about the module of
  that name. `SpendingProofs`: those about `Submission`, `Policy` and `Budget`.
  `TransactionProofs`: those about `Envelope` and `Batch`.
- `MC*` modules and `.cfg` files instantiate these for TLC.

Definitions whose names say how they differ from a neighbour (`JoinOrStartAlwaysStarts`,
`RequeuedAtBack`, ...) are mutants: a plausible mistake each, not part of `Next`.
Substituted for the original, TLC finds the property they are paired with violated.

## Refinement

`Submission!KeepsPromise` is the specification of `SubmissionPromise` under the
mapping `told <- Told`: a resolved call with a result code has told "rejected", a
timeout, a transport error or an answer without codes "unknown". The ledger's
`fate` and `credit` are shared. Every step of `Submission` is then a step of the
promise or a stutter; in particular no call that was told "rejected" is later
found among those whose request, still under way when it was told, applied the
envelope. That the code answers `FAILED` with a `NetworkError` to a timeout promises
nothing, and callers have to read it so.

`OfflineQueue!KeepsOutbox` is the specification of `Outbox` under the mapping
`done <- acked \cup cleared`; what was accepted and what the server saw are shared. The
step that saves a new entry accepts it, a replay that reaches the server delivers, and
finds the entry done with only when it resolves; `clear()` drops. All else (loading,
writing, failing to write, dying) is a stutter. The outbox orders acknowledgements
(`InOrder`, in `OfflineQueueProofs`), and also the requests that reached the server and
then seemed to fail, and those sent again after a restart.

## Runs

| Run | Asks | Bounds, and why they suffice |
|---|---|---|
| `rate_limiter` | rate, order, cool-down, liveness | four requests through a bucket of two tokens and a queue of two: a burst of two, or, when a 429 emptied the bucket, two queued and one refused; a token costs 2, a timeout takes 1, a 429 asks for 2, so timeouts fall before, and cool-downs across, a refill; timers up to 1 late; the clock runs to 8, long enough for every queue to drain |
| `session` | single flight, sends, drift, reuse, expiry, liveness | a call of two attempts, a logout, an `auth.refresh()` repeated at will, an application that hands back the token it signed in with, two token pairs: the first is retired, set again and resent. A second flow identity exists so that a second flight could be seen. Only one refresh can succeed, so that a call replays once; that more of them do not add up is the theorem's |
| `session_logout` | is the client without tokens after logout? (no) | a call and a logout |
| `pipeline` | repetition, foreign errors, sign-out | two calls on one URL or two, three kinds of request, answers of every way the hooks tell apart (a 304 among them), with and without the retry middleware; two attempts, so that an attempt has a predecessor whose traces it may find |
| `offline_queue` | loss, order, duplicates, the outbox | calls one after the other (`Overlapping` is FALSE), three entries, two flush() calls that repeat, two faults: a failed write and a crash can hit the same entry; five deliveries |
| `analytics_client` | accounting, order, overflow, draining | six events through a queue of three and batches of two, two attempts, five failures: two batches can fail for good, and the queue overflows through both paths |
| `envelope` | do builders, validator, bumper and advisers agree? | up to six operations against a limit of five (the largest budget builder has five), bids around the floor, the ceiling and the multiples where a division has a remainder, foreign envelopes with and without a resource fee |
| `batch` | cache, cycles, order | eight operations to choose three from: every pair of kinds that depend on each other, by id, position and implicitly, a cycle among them, and an id with a blank behind it; two builds, so that a payload can be stale |
| `submission` | the promise, the hours, termination | four calls on three envelopes: one straight to Horizon or through the API, two race on one envelope, one waits for its predecessor's sequence number, one is garbled; the clock crosses both ends of the allowed hours and of the time bounds while the retries last |
| `policy` | consistent rules, agreement of engines and of readers | three builder calls or imports, addresses and assets in several spellings, valid, blank and unissued, amounts on both sides of the seventh decimal, at a maximum, and one that a double cannot tell from it, maxima of 0; every set of fields an answer may have |
| `budget` | overspending, daily limits, agreement | two agents, two draws in the history, one edit, time across a day and a period; two limits, so that one can be cut below what was spent |
| `agent_cache` | fresh entries | two mutations of any two hooks over one agent, a page, an infinite list and a detail, three fetches by components |

Deadlock is checked for `policy`, where a builder can always be started over. The other systems stop when their bounded calls, faults or
events are used up, so it is off there.

## What was found

A run shows this one:

- A refresh in flight when `logout()` completes signs the client in again
  (`auth/src/index.ts:103`; its comment says the token is cleared).

TLC showed these on the same models with a property that states what the comment
says. No run is kept for them; each is the reason for an exception a property above
names, or for a hazard without one:

- `buildTransactionFromOperations()` never checks the bid (`multi-operation.ts:375`;
  its comment, `:320`, says it is validated as its neighbour's).
- An id with blanks around it is known to the dependency checks of a batch and not to
  the resolution (`batch.ts:645`, `:807`), whose order is said to satisfy all
  dependencies (`:797`).
- `matchPolicies()` drops a rule with a list of allowed assets exactly when the payment
  breaks it (`policy/src/matchers.ts:139`), so that selecting the applicable rules and
  simulating them, as the package's example does (`:16`), never refuses an asset by it.
- Between the cancelling of fetches and the optimistic write another one can begin, and
  land on the write (`react/src/hooks/optimistic-agent.ts:67`; cancelling is awaited
  against just that, `:50`).
- What was absent before a mutation and was fetched meanwhile is not removed by the
  rollback (`react/src/hooks/optimistic-agent.ts:98`; its comment, `:88`, says it is).
- `auth.refresh()` posts past the single flight (`auth/src/index.ts:92`): until its answer
  is adopted, the session may send the refresh token the server has just replaced. And
  `setAccessToken()` leaves the session with its old access token
  (`client/src/index.ts:602`), which the next request that waits for a refresh goes out with.
- An answer between 300 and 399 fails a call (`http-client.ts:159`), but the parser does
  not store it (`error-parser-middleware.ts:13`), and reports an older body of the same
  method and URL instead (`:21`).
- `estimateFee()` starts from what the envelope pays and has no floor
  (`fee-estimation.ts:293`): for one that is too cheap it advises too low a bid.
- `simulatePolicyLocal()` compares doubles (`policy/src/simulator.ts:404`) and takes a
  maximum of 0 for none (`:449`), where `simulatePolicy()` compares decimals.
- The builder keeps blanks around the strings of a time window
  (`policy/src/builder.ts:826`), which `validatePolicyConfig()` trims
  (`validation.ts:253`): a built rule that is imported again may change in them.
- A waiter whose queue timeout fired stays in the queue (`rate-limiter.ts:171`;
  its comment says it is removed), counts against `maxQueueLength` and is later
  given a token nobody uses.
- A refresh answered with a plain 401 emits `unauthorized_401` and then
  `refresh_failed` (`session.ts:604`; the comment above says it must not).
- Overlapping `enqueue()` calls lose an entry (`offline-queue.ts:58`).
- `flush()` joins a drain that is already over: `flush(); record(e); await
  shutdown()` leaves `e` unsent (`analytics/src/client.ts:347`).
- A body kept by the error parser (`error-parser-middleware.ts:14`) and not taken
  again, because the answer was translated, replayed or aborted, is read by the next
  transport failure on the same URL, which is then reported as, say, an
  authentication error.
- The translator's `onError` throws before the retry decision
  (`http-client.ts:208`), so an answer with a known code is not retried although
  its status is listed; `middleware/error.ts` says it runs after retries.
- `buildTransaction()` takes the bid as the fee of one operation while its neighbour
  takes it as the total (`builder.ts:310`): several operations exceed the ceiling
  that was checked.
- An answer of `/transactions/estimate-fee` that leaves out the total and the count is
  taken for one operation even if the question was about an envelope of several
  (`fees.ts:125`): the bid is then below the minimum.
- `reorderOperationsByDependencies()` may put a payment into a merged account behind
  the merge (`batch.ts:877`), which `validate()` then refuses.
- The gate of `policy-submitter.ts:530` reads the first transfer of an envelope only,
  passes no signatures, and ignores `now` for an envelope without a transfer.
- `parseSimulationResult()` reports a pass for an answer that says only "denied" or
  "failed", and for violations none of which it can read, as `[null]` or `['']`
  (`policy/src/parser.ts:169`, `:203`); COMPOSITE and TIME_WINDOW rules are not evaluated by
  the local simulator (`policy/src/simulator.ts:335`).
- `checkBudgetLimit()` passes every draw on a disabled budget
  (`budget/src/validation.ts:682`), which the dry run refuses.
- While an infinite list is cached, `onMutate` throws on it
  (`react/src/hooks/optimistic-agent.ts:125`) and the mutation is never sent.
- Read, not run: a record that failed for good has no confirmations, so with the
  default of one required it is never final (`status.ts:106`); the runs ask for none.
- Read, not run: `buildBudgetRevocationTransaction()` deletes `budget_expiration_` also
  when the delegation never wrote it (`budget-delegation.ts:400`), which the ledger
  refuses together with the other deletions.
- Read, not run: `record()` returns `true` at capacity (`analytics/src/client.ts:322`)
  where its comment says `false`, and the option `maxQueueSize` is said to drop new
  events (`:70`) where the code, the comment of `flush()` and the tests drop the oldest.
- Read, not run: the metrics add amounts up in doubles (`budget/src/metrics.ts:28`,
  `:50`): entries of 0.7 and 0.1 are below the warning threshold of a limit of 1 that a
  record of 0.8 reaches (`budget.ts:269`).

## Fairness

Every fairness condition is weak and on something the code or the event loop does
by itself. `RateLimiter`: the clock advances and due timers fire. `Session`: every
request is answered or times out (the transport has a timeout), back-offs end and
callbacks return; logins, logouts, new calls and expiry are not fair.
`AnalyticsClient`: posts settle, microtasks run, and the interval fires while it is
not stopped; `record()`, `flush()` and `shutdown()` are not fair. `Submission`: an
answer that is there is received, and the timers of `submitTransaction()` and of the
HTTP client fire; network, ledger and clock are not fair. So a call of these two resolves
even if nobody answers: with a verdict, an error, or, through the API, a record that is
pending; looking at it again is the application's, and not fair. The gated functions
await an injected client and an injected loader without a timer of their own
(`policy-submitter.ts:419`, `:504`): that they resolve is claimed only of clients and
loaders that settle (`ClientSettles`, the hypothesis of `EveryCallResolves`).
The bounds on failures mean that the endpoint recovers in the end, which
`TimerDrains` needs and claims nothing without. The other modules claim safety only.

## Proofs

TLC shows the properties on the instances above; the theorems hold for every value
of the constants under the module's named assumptions. Those say of what type the
parameters are: capacities, costs and attempts are positive, identities are distinct,
an answer has a status and a body, the allowed hours are a range, amounts and limits
are numbers, a day and a period last, an exchange rate is a fraction, what is left out
is none of the values it could be taken for, rounding to a double takes no amount across
a limit that is a double itself (`RoundingAssumption`), an envelope may have
at least the five operations of the largest budget builder, fees from elsewhere are
not negative. TLC evaluates each on its run. Two theorems have a hypothesis besides:

- `~Overlapping` for `OfflineQueue`. With overlapping calls the queue does lose entries,
  see "What was found"; the theorems are about an application that awaits each call.
- `NetworkFloor` for the advice: the base fee in the statistics is at least the
  minimum the builders ask for, which a Stellar ledger's is. `fee-optimizer.ts` takes
  the ledger's word for it.

In every module the property to prove is not inductive by itself; `IInv` names the
strengthening, which TLC checked before it was proved, and the proof has one lemma per
action.

- `RateLimiterProofs`. The inductive invariant is `TypeOK`, `WaitersHaveTimer` and
  `BucketInv`. The rate bound alone is not inductive: a refill long overdue would
  grant more. `BucketInv` keeps an account instead: what was spent since the window
  opened, plus what the bucket holds, is at most a full bucket plus the time that
  has been refilled. Refilling moves time into the level, granting moves level into
  spent, and the bound follows. The same account gives the cool-down: while it
  lasts the refill time lies ahead of the clock and the level is zero. That waiters
  are served in order needs `QueueInv`, nobody stands in the queue twice: the queue
  only ever loses its front or one aborted waiter.
  Theorems: `TypeCorrect`, `NobodyForgotten`, `RateIsBounded`, `CooldownHolds`,
  `ServedInOrder`.
- `SessionProofs`. `IInv` is `TypeOK`, `FlowInv` and `CallInv`. `FlowInv` ties
  `activeRefresh` to the one flow that is not idle, says which flow may hold which
  tokens, and that the session's refresh token is not retired unless the running
  flow is the one replacing it; `CallInv` ties where a request stands to its sends,
  its replay mark and the flow it waits for. Single flight alone is not inductive:
  it needs that a flow identity is free exactly when nobody is active. Three more
  invariants rest on it. `TokenInv`: nobody knows a token the server has not minted, and
  what an `auth.refresh()` was answered with is known to nobody else until it is adopted.
  `RefreshInv`: the session holds a replaced refresh token only for want of such an
  answer. `ShunInv`: what a waiting call should not go out with is neither its header, nor
  the session's token, nor what a refresh got. Theorems:
  `TypeCorrect`, `OneRefreshAtATime`, `NoRequestStorm`, `SessionAndHttpAgree`,
  `ExpiredNotSent`, `NoTokenReuse`.
- `PipelineProofs`. `CallOK` says of each state of a call what it knows of its
  answer: while the answer passes the hooks the parser's map holds its body, unless
  another call shared the key; the error on its way speaks of it; and a request that
  may not be repeated has gone out a second time only after a 401. `SharedInv` says
  that calls which run side by side on one key know it. A step of one call changes
  nothing of another but the map at its own key, so each lemma shows the step's own
  call to be well and `LocalIInv` the others.
  `ErrorsAreOwn` is about answers of 400 and above: below, the code does report
  another body. Theorems: `NoDoubleEffect`, `ErrorsAreOwn`, `OnlyA401SignsOut`.
- `OfflineQueueProofs`. Without overlap at most one call is unfinished (`Serial`), so
  its copy is all that matters. `CopyInv` says that the storage, and the copy, follow
  what was accepted: accepted entries only, in their order, none of those still owed
  missing. The order of acknowledgement then follows from the head of a sound copy
  being ahead of the rest. `CleanInv` says where an acknowledged entry may still be stored
  before anything failed: between its replay and the save.
  The refinement rests on the same lemma (`HeadIsNext`): a replay is an outbox's delivery
  since all before the head have been dealt with, and `clear()` empties the outbox since
  a sound storage holds all that is still owed.
  Theorems: `TypeCorrect`, `NothingIsLost`, `ReplayedInOrder`, `OutboxKept`,
  `NoSecondReplay`.
- `AnalyticsClientProofs`. `IInv` is `TypeOK`, `Accounted` and `QueueIsNewest` with
  `BatchInv` and `AckedInv`. That the queue holds the newest events is not inductive: when a batch
  fails, one must know that it ended right before the queue begins. It did when it
  was taken, and `record()` can open a gap between them only by dropping from a
  full queue, which then leaves the batch no room to return to; `BatchInv` says
  just that. `AckedInv` says that what was acknowledged is older than both,
  from which `SentInOrder` follows.
  Theorems: `TypeCorrect`, `CountersAddUp`, `NewestAreKept`, `OrderKept`.
- `SpendingProofs`, of `Submission`. The refinement is shown step by step: a call that resolves
  tells, a ledger that closes applies, everything else is a stutter. For that a
  "rejected" must be known to be final: `NetInv` says that a call has at most one
  request on its way or taken in, and broadcasts again only when nothing of the last
  one is left; `AnswerInv` what an answer on its way is worth when it arrives;
  `LedgerInv` that a sequence number used up does not come back; and `ToldInv` that
  what a call has said stays true. That broadcasts stay within the hours follows
  from the gate looking at the clock in the step that broadcasts.
  Theorems: `TypeCorrect`, `PromiseKept`, `BroadcastsInTime`.
- `SpendingProofs`, of `Policy`. That published rules are consistent is about a draft
  of which nothing is known but what its setters left: `IsDraft` says that recipients
  are trimmed and that the settings only an import has are unset, so that a rule that
  passes `validatePolicyRule()` also passes `validatePolicyConfig()` and is left as it
  is but for the blanks of a time window. The agreement of the engines follows from the
  published rules being rules and from rounding being monotone, that of the readers from
  what each makes of every combination of fields.
  Theorems: `RulesAreConsistent`, `EnginesDoAgree`, `AnswersAreReadRight`.
- `SpendingProofs`, of `Budget`. Four facts make `BudgetInv` inductive: what was
  consumed lies behind, in or before the record's window; the record's spent is never
  more than the history has in the window; a copy that missed no consumption and no cut
  allows no more than the record; a draw decided on such a copy still fits. Sums over a
  history are lemmas about positions: one more entry adds its amount, fewer positions
  never sum to more. Theorems: `OverspendingNeedsAnOldDecision`, `DaysStayWithinLimits`,
  `ChecksDoAgree`.
- `TransactionProofs`, of `Envelope`. `TxInv` keeps for an envelope what its builder checked, and for a
  bid that was shared out that the shares together are within it; `BumpInv` that a
  bump's base fee is at least the inner rate, its resource fee left out. What remains is arithmetic
  of division and rounding, stated as lemmas (`SharedOut`, `CeilDivCovers`,
  `ShareIsWithinBid`). All builders are covered: of the two that do not check the
  fee they end up with it is shown that nothing but the ceiling is missed.
  `AdviceIsEnough` names the two answers that may be below the minimum, those of
  `estimateFee()` for an envelope that is and of an API that gives no count.
  Theorems: `ValidatorAcceptsBuilt`, `BumpOutbidsInner`, `AdviceIsEnough`.
- `TransactionProofs`, of `Batch`. The cache needs only that every setter drops it.
  The two properties of the resolution need Kahn's algorithm to be right: `KahnInv`
  says that after k steps k positions are in order, unless the queue ran dry; that what
  is in order or queued, each once, is exactly what has no obstacle left; and that every
  edge into the order begins further in front. An order of full length is then a
  permutation with all edges forward, and in one that stops short the operation a
  permutation puts first among those left would have been free. `Placed` carries this
  to the reordered list, where each comparison of `validateDependencies()` is an edge;
  this is where ids must be without blanks.
  Theorems: `CacheStaysFresh`, `CycleIsReal`, `ReorderingValidates`.
- `AgentCacheProofs`. `FreshIsTrue` speaks of moments when nothing is in progress.
  `EntriesInv` and `FetchesInv` say what leads there: the last mutation to settle
  marks every entry stale, and a fetch that began before that is known to have, so
  only what was read afterwards can be believed. Theorems: `TypeCorrect`, `SettledIsTrue`.

`TypeCorrect` is the foundation of the other theorems of its module; no run checks it
by itself.

The prover does not choose between the arms of a CASE that overlap, as TLA+ does not:
in `Budget`, `Envelope`, `Pipeline`, `Policy` and `Submission` some arms overlapped where
the code asks one question after the other. They are IF chains, or disjoint, since.

What a recursive definition computes for every input would be an induction over data,
whose theorems the prover cannot instantiate. The recursive functions here (`Sum`,
`Ascending`, `Kahn`) are reasoned about without: a set of naturals that is not empty has
a least member (`LeastExists`, `Recursion`), so a first position where the claim fails
would have a predecessor where it holds.

Only model-checked: the liveness properties (`QueueEmpties`, `EveryCallEnds`,
`TimerDrains`, `EveryCallResolves`), as fairness and `ENABLED` are beyond the prover.
Every other property of the passing runs is a theorem.

## Plan

Models next: the awaits of session storage with callbacks that sign in again, and
the standalone rotator; the typed emitter, pagination, multisig and `batchStatus` as
small modules.

## Not modelled

Wording of errors, logging, correlation ids, header formatting, validation of
options, response parsing, cryptography, encoding by the Stellar SDK, React
rendering and the CLI. Type declarations and schemas (`types/src`), formatters,
exporters and statistics (`analytics/src` but its client), query-string builders and
resources whose methods are one HTTP call each hold no state and take no decision a
property could be about. In `RateLimiter`: several buckets (they share nothing). In
`Session`: a token given as a function, storage, callbacks that call the client back,
and an application that calls the session manager itself. In
`AnalyticsClient`: the disabled client and event normalisation. In `Submission`:
`submitSignedTransaction()`, a single call; a 2xx of Horizon that cannot be read or is
empty, which is told as a success (`submit.ts:298`); a client that answers with a bare
string or hash (`policy-submitter.ts:320`); a body that never ends, as the timer covers
the wait for the headers only (`submit.ts:289`). In `Envelope`: what the entries of a
budget delegation become in the ledger. In `Budget`: alerts and adjustments, and the
warning thresholds and metrics, which round and add in doubles. In `Policy`: the CRUD
calls, the comparison of two policies, the other names under which the local simulator
looks for a limit or a list, and payments, which are the caller's.
