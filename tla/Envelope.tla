------------------------------ MODULE Envelope ------------------------------
(***************************************************************************)
(* Building, validating and fee-bumping a Stellar transaction envelope:     *)
(* transaction/src/builder.ts, multi-operation.ts, policy-builders.ts,      *)
(* feeBump.ts, validator.ts and the fee advisers fee-optimizer.ts and       *)
(* fee-estimation.ts.                                                       *)
(*                                                                          *)
(* Three actors meet here: an adviser that recommends a fee bid, a builder  *)
(* that turns a bid into a per-operation base fee, and a bumper that wraps  *)
(* what was built.  Each checks the fee in its own way; what is hard is     *)
(* that one has to accept what another produced.                            *)
(*                                                                          *)
(* A transaction is a record: its operations (a sequence of types), its     *)
(* total fee, the resource fee included in it, its memo, whether it is      *)
(* signed, the bid it was built from and the builder.  Multipliers are      *)
(* hundredths, as the code rounds them.                                     *)
(***************************************************************************)
EXTENDS FeeRules

CONSTANTS BusyFee,        \* 1000 stroops in fee-optimizer.ts
          CongestedFee,   \* 5000 stroops in fee-optimizer.ts
          OpLists,        \* the operation lists tried: sequences of types
          Bids,           \* the fee bids tried
          Memos,          \* the memos tried: see Memo
          Received,       \* transactions that come from elsewhere
          Stats,          \* fee statistics: [base, fee, reference, usage]
          Buffers         \* buffer percentages

\* An operation's type; every type that nothing here asks about is "other".
OpTypes == {"payment", "createAccount", "changeTrust", "accountMerge", "manageData", "other"}

\* The longest envelope of a fixed number of operations, of the budget
\* builders, has five.  An envelope's fee and its resource fee are not negative.
ASSUME EnvelopeAssumption ==
  /\ MinBaseFee \in Nat \ {0}
  /\ MaxTotalFee \in Nat
  /\ MaxOperations \in Nat /\ MaxOperations >= 5
  /\ OpLists \subseteq Seq(OpTypes)
  /\ Bids \subseteq Int
  /\ \A t \in Received :
       t \in [by : {"received"}, bid : Int, ops : Seq(OpTypes), fee : Nat, resource : Nat,
             memo : Memos, signed : BOOLEAN]
  /\ \A s \in Stats : s.base \in Nat \ {0} /\ s.fee \in Nat /\ s.reference \in Nat
  /\ Buffers \subseteq Nat

VARIABLES tx,       \* the inner transaction in hand, or None
          bump,     \* its fee-bump envelope, or None
          advice    \* the last recommendation, or None

vars == <<tx, bump, advice>>

None == [by |-> "none"]

-----------------------------------------------------------------------------
(* Arithmetic.                                                              *)

AtMost(x, ceiling) == IF x > ceiling THEN ceiling ELSE x
CeilDiv(x, y) == (x + y - 1) \div y

-----------------------------------------------------------------------------
(* Memos: how many of the four fields are set, of which type, and whether   *)
(* the value fits the type (28 bytes, uint64, 64 hex digits).               *)

MemoTypes == {"none", "text", "id", "hash", "return"}

\* resolveMemo()
MemoError(memo) ==
  FirstOf(<<Fails(memo.fields > 1, "CONFLICTING_MEMO"),
            Fails(memo.type # "none" /\ ~memo.fits, "INVALID_MEMO")>>)

\* validateMemo() of the envelope validator
MemoIssues(memo) ==
  IF memo.type = "none" \/ memo.fits THEN {}
  ELSE CASE memo.type = "text" -> {"MEMO_TEXT_TOO_LONG"}
         [] memo.type = "id" -> {"INVALID_MEMO_ID"}
         [] memo.type \in {"hash", "return"} -> {"INVALID_MEMO_HASH"}
         [] OTHER -> {"INVALID_MEMO_TYPE"}

-----------------------------------------------------------------------------
(* The builders.                                                            *)

\* assertFeeWithinBounds()
FeeError(fee) ==
  FirstOf(<<Fails(fee < 0, "INVALID_FEE"),
            Fails(fee < MinBaseFee, "FEE_BELOW_MINIMUM"),
            Fails(fee > MaxTotalFee, "FEE_BID_TOO_HIGH")>>)

CountError(n) ==
  FirstOf(<<Fails(n = 0, "EMPTY_OPERATIONS"), Fails(n > MaxOperations, "TOO_MANY_OPERATIONS")>>)

\* TransactionBuilder.build() of stellar-base, which multiplies the base fee
Built(by, bid, perOp, ops, memo) ==
  [by |-> by, bid |-> bid, ops |-> ops, fee |-> perOp * Len(ops), resource |-> 0,
   memo |-> memo, signed |-> FALSE]

\* buildTransaction(): the bid is checked as a total and handed on as a base fee
SingleError(ops, bid, memo) ==
  FirstOf(<<CountError(Len(ops)), FeeError(bid), BidError(bid, Len(ops)), MemoError(memo)>>)

BuildTransaction(ops, bid, memo) ==
  /\ SingleError(ops, bid, memo) = "ok"
  /\ tx' = Built("buildTransaction", bid, bid, ops, memo)
  /\ bump' = None
  /\ advice' = None

\* buildMultiOperationTransaction()
MultiError(ops, bid, memo) ==
  FirstOf(<<CountError(Len(ops)), BidError(bid, Len(ops)), MemoError(memo)>>)

BuildMultiOperation(ops, bid, memo) ==
  /\ MultiError(ops, bid, memo) = "ok"
  /\ tx' = Built("buildMultiOperation", bid, PerOperationFee(bid, Len(ops)), ops, memo)
  /\ bump' = None
  /\ advice' = None

MergeNotLast(ops) ==
  LET merges == {i \in DOMAIN ops : ops[i] = "accountMerge"}
  IN  merges # {} /\ (CHOOSE i \in merges : \A j \in merges : i <= j) # Len(ops)

\* buildTransactionFromOperations(): only the share per operation is checked
FromOperationsError(ops, bid, memo) ==
  IF CountError(Len(ops)) # "ok" THEN CountError(Len(ops))
  ELSE FirstOf(<<Fails(MergeNotLast(ops), "INVALID_OPERATION_SEQUENCE"),
                 FeeError(PerOperationFee(bid, Len(ops))),
                 MemoError(memo)>>)

BuildFromOperations(ops, bid, memo) ==
  /\ FromOperationsError(ops, bid, memo) = "ok"
  /\ tx' = Built("buildFromOperations", bid, PerOperationFee(bid, Len(ops)), ops, memo)
  /\ bump' = None
  /\ advice' = None

\* assembleTransaction() of the policy builders: one or two manageData
\* operations carry the policy envelope and count as operations
PolicyOps(ops, withIds) ==
  ops \o (IF withIds THEN <<"manageData", "manageData">> ELSE <<"manageData">>)

\* The policy builders take a memo text only.
PolicyError(ops, bid, memo) ==
  FirstOf(<<Fails(Len(ops) > MaxOperations, "TOO_MANY_OPERATIONS"),
            BidError(bid, Len(ops)),
            MemoError(memo)>>)

BuildPolicy(op, withIds, bid, memo) ==
  LET ops == PolicyOps(<<op>>, withIds)
  IN  /\ memo.type \in {"none", "text"}
      /\ PolicyError(ops, bid, memo) = "ok"
      /\ tx' = Built("buildPolicy", bid, PerOperationFee(bid, Len(ops)), ops, memo)
      /\ bump' = None
      /\ advice' = None

\* The builders of budget-delegation.ts: manageData entries of a fixed number
\* and perhaps a payment, at a base fee that nothing bounds from above
BudgetOps == {<<"manageData", "manageData", "manageData", "manageData">>,
              <<"manageData", "manageData", "manageData", "manageData", "manageData">>,
              <<"manageData", "payment">>, <<"manageData", "manageData", "payment">>}

BudgetError(baseFee, memo) ==
  FirstOf(<<Fails(baseFee < 0, "INVALID_FEE"),
            Fails(memo.type # "none" /\ ~memo.fits, "INVALID_MEMO")>>)

BuildBudget(ops, baseFee, memo) ==
  /\ memo.type \in {"none", "text"}
  /\ BudgetError(baseFee, memo) = "ok"
  /\ tx' = Built("buildBudget", baseFee, baseFee, ops, memo)
  /\ bump' = None
  /\ advice' = None

\* An envelope from elsewhere, as XDR
Receive ==
  /\ tx = None
  /\ tx' \in Received
  /\ bump' = None
  /\ advice' = None

Sign ==
  /\ tx # None
  /\ ~tx.signed
  /\ bump = None
  /\ tx' = [tx EXCEPT !.signed = TRUE]
  /\ advice' = None
  /\ UNCHANGED bump

-----------------------------------------------------------------------------
(* Fee bumps.                                                               *)

MinimumBumpBaseFloored(inner) ==
  AtLeast((inner.fee - inner.resource) \div Len(inner.ops), MinBaseFee)

\* The lowest base fee a bump may offer: the inner inclusion fee per operation
MinimumBumpBase(inner) ==
  AtLeast(CeilDiv(inner.fee - inner.resource, Len(inner.ops)), MinBaseFee)

BumpFeeTotal(base, inner) == base * (Len(inner.ops) + 1) + inner.resource

\* ceil(minimum * (1 + buffer / 100)) in floating point: the product can land
\* just above an exact integer and round up to the next one
DefaultBumpBases(inner, buffer) ==
  LET exact == CeilDiv(MinimumBumpBase(inner) * (100 + buffer), 100)
  IN  IF buffer = 0 THEN {exact} ELSE {exact, exact + 1}

\* analyzeFeeBump(): every issue of severity "error", for an inner transaction,
\* a base fee, a buffer and a fee source
SourceIssues(source) ==
  CASE source = "keypair" -> {}
    [] source = "publicKey" -> {}
    [] source = "mismatch" -> {"FEE_SOURCE_KEY_MISMATCH"}
    [] OTHER -> {"MISSING_FEE_SOURCE"}

BaseFeeIssues(inner, base) ==
  IF base < 0 THEN {"INVALID_BASE_FEE"}
  ELSE IF base < MinBaseFee THEN {"BASE_FEE_BELOW_MINIMUM"}
  ELSE IF base < MinimumBumpBase(inner) THEN {"BASE_FEE_BELOW_INNER"}
  ELSE {}

BumpIssues(inner, base, source) ==
  IF inner.ops = <<>> THEN {"EMPTY_OPERATIONS"}
  ELSE SourceIssues(source) \cup BaseFeeIssues(inner, base)
       \cup IF base >= 0 /\ BumpFeeTotal(base, inner) > MaxTotalFee
            THEN {"FEE_BID_TOO_HIGH"} ELSE {}

\* bumpFee(): the base fee asked for, or the default with a buffer.  A second
\* bump replaces the first: both wrap the same inner transaction.
BumpFee(base, source) ==
  /\ tx # None
  /\ BumpIssues(tx, base, source) = {}
  /\ bump' = [by |-> "bumpFee", base |-> base, fee |-> BumpFeeTotal(base, tx),
              signed |-> source = "keypair"]
  /\ advice' = None
  /\ UNCHANGED tx

BumpByDefault(buffer, source) ==
  /\ tx # None
  /\ tx.ops # <<>>
  /\ \E base \in DefaultBumpBases(tx, buffer) : BumpFee(base, source)

-----------------------------------------------------------------------------
(* The validator.                                                           *)

FeeIssues(fee, n) ==
  IF fee < 0 THEN {"INVALID_FEE"}
  ELSE (IF fee < AtLeast(n, 1) * MinBaseFee THEN {"FEE_BELOW_MINIMUM"} ELSE {})
       \cup (IF fee > MaxTotalFee THEN {"FEE_BID_TOO_HIGH"} ELSE {})

CountIssues(n) ==
  IF n = 0 THEN {"NO_OPERATIONS"}
  ELSE IF n > MaxOperations THEN {"TOO_MANY_OPERATIONS"} ELSE {}

\* validateTransactionEnvelope(): a fee bump is judged by its own fee and by
\* the operations, memo and source of the inner transaction
EnvelopeIssues(inner, outer) ==
  CountIssues(Len(inner.ops)) \cup MemoIssues(inner.memo)
  \cup FeeIssues(IF outer = None THEN inner.fee ELSE outer.fee, Len(inner.ops))

-----------------------------------------------------------------------------
(* The fee advisers.                                                        *)

Priorities == <<"low", "normal", "high", "urgent">>
PriorityHundredths == [low |-> 90, normal |-> 100, high |-> 125, urgent |-> 150]
PriorityBuffer == [low |-> 10, normal |-> 20, high |-> 35, urgent |-> 50]

\* calculateSurgeMultiplier(): stats.fee is the largest percentile, usage the
\* ledger's load in percent; the result is in hundredths, clamped to 1..10
SurgeFactor(usage) ==
  IF usage >= 95 THEN 20 ELSE IF usage >= 80 THEN 15 ELSE IF usage >= 60 THEN 12 ELSE 10

SurgeFloor(usage) ==
  IF usage >= 95 THEN 300 ELSE IF usage >= 80 THEN 200 ELSE IF usage >= 60 THEN 130 ELSE 100

SurgeMultiplier(s) ==
  LET representative == AtLeast(s.fee, s.base)
      loaded == (representative * 100 * SurgeFactor(s.usage) + 5 * s.base) \div (10 * s.base)
      scarce == IF representative >= CongestedFee THEN 300
                ELSE IF representative >= BusyFee THEN 150 ELSE 100
  IN  AtMost(AtLeast(AtLeast(loaded, SurgeFloor(s.usage)), scarce), 1000)

\* deriveNetworkCongestionState()
NetworkState(s) ==
  LET representative == AtLeast(s.fee, s.base)
  IN  IF representative >= CongestedFee \/ SurgeMultiplier(s) >= 250 \/ s.usage >= 90 THEN "congested"
      ELSE IF 2 * representative > 3 * s.base \/ SurgeMultiplier(s) > 120 \/ s.usage >= 60 THEN "busy"
      ELSE "normal"

\* calculateRecommendedFee(): the fee per operation for a priority; the code's
\* ceil of a floating-point product can be one more than the exact one
BufferedFee(s, priority) ==
  CeilDiv(AtLeast(s.reference, s.base) * SurgeMultiplier(s)
            * (PriorityHundredths[priority] \div 5) * (100 + PriorityBuffer[priority]),
          200000)

RecommendedBaseFeeUnfloored(s, priority) == BufferedFee(s, priority)

RecommendedBaseFee(s, priority) == AtLeast(BufferedFee(s, priority), s.base)

\* estimateFee(): from the envelope in hand, or from the network's live fee
EnvelopeBaseFee(inner) ==
  IF inner.fee > 0 THEN CeilDiv(inner.fee, Len(inner.ops)) ELSE MinBaseFee

LiveFee(live, base, buffer) == AtLeast(CeilDiv(live * (100 + buffer), 100), base)

LiveNetworkState(live, base) ==
  IF live >= CongestedFee THEN "congested" ELSE IF live > base * 2 THEN "busy" ELSE "normal"

\* calculateRecommendedFee() for n operations, asked before anything is built.
\* (The adviser keeps no state: the next operation drops the recommendation.)
Advise(s, priority, n) ==
  /\ tx = None
  /\ advice' = [by |-> "optimizer", ops |-> n, state |-> NetworkState(s),
                total |-> RecommendedBaseFee(s, priority) * n]
  /\ UNCHANGED <<tx, bump>>

\* estimateFee({ transaction }): with the live fee, or 0 when Horizon is down
AdviseFromEnvelope(live, buffer) ==
  /\ tx # None
  /\ bump = None
  /\ tx.ops # <<>>
  /\ LET base == EnvelopeBaseFee(tx)
         perOp == IF live = 0 THEN base ELSE LiveFee(live, base, buffer)
     IN  advice' = [by |-> "estimate", ops |-> Len(tx.ops), total |-> perOp * Len(tx.ops),
                    state |-> IF live = 0 THEN "unknown" ELSE LiveNetworkState(live, base)]
  /\ UNCHANGED <<tx, bump>>

\* estimateTransactionFee(): the API's figures for n operations, of an envelope
\* or counted by the caller.  What the answer leaves out is 0; what it holds is
\* right, so that only the code's fallbacks can be wrong.
ApiAnswers(n) ==
  {[perOp |-> p, total |-> t, count |-> c] : p \in {0, MinBaseFee, MinBaseFee + 50},
                                             t \in {0, n * MinBaseFee}, c \in {0, n}}

OperationCount(raw, asked) ==
  IF raw.count > 0 THEN raw.count ELSE IF asked > 0 THEN asked ELSE 1

MaxFeeBid(raw, asked) == IF raw.total > 0 THEN raw.total ELSE raw.perOp * OperationCount(raw, asked)

AdviseFromApi(n, asked) ==
  /\ \E raw \in ApiAnswers(n) :
       /\ raw.total > 0 \/ raw.perOp > 0
       /\ advice' = [by |-> "api", ops |-> n, state |-> "unknown", total |-> MaxFeeBid(raw, asked),
                     counted |-> OperationCount(raw, asked)]
  /\ UNCHANGED <<tx, bump>>

-----------------------------------------------------------------------------
Init == tx = None /\ bump = None /\ advice = None

\* One envelope per behaviour: the builders keep no state between calls.
BuildEnvelope ==
  tx = None /\
  \E bid \in Bids, memo \in Memos :
    \/ \E ops \in OpLists :
         \/ BuildTransaction(ops, bid, memo)
         \/ BuildMultiOperation(ops, bid, memo)
         \/ BuildFromOperations(ops, bid, memo)
         \/ Len(ops) = 1 /\ \E withIds \in BOOLEAN : BuildPolicy(ops[1], withIds, bid, memo)
    \/ \E ops \in BudgetOps : BuildBudget(ops, bid, memo)

Bump ==
  \E source \in {"keypair", "publicKey", "mismatch", "none"} :
    \/ \E base \in Bids : BumpFee(base, source)
    \/ \E buffer \in Buffers : BumpByDefault(buffer, source)

Advice ==
  \/ \E s \in Stats, i \in 1 .. 4, n \in 1 .. MaxOperations : Advise(s, Priorities[i], n)
  \/ \E live \in {0} \cup {s.fee : s \in Stats}, buffer \in Buffers : AdviseFromEnvelope(live, buffer)
  \/ tx = None /\ \E n \in 1 .. MaxOperations : AdviseFromApi(n, n)
  \/ tx # None /\ tx.ops # <<>> /\ AdviseFromApi(Len(tx.ops), 0)

Next == BuildEnvelope \/ Receive \/ Sign \/ Bump \/ Advice

Spec == Init /\ [][Next]_vars

-----------------------------------------------------------------------------
(* Properties.                                                              *)

\* What the package builds its own validator accepts.  What the multi-operation
\* and the policy builder return, entirely, and its fee stays within the
\* caller's bid although the bid was shared out and multiplied back
\* (multi-operation.ts:309, policy-builders.ts:425); what the budget builders
\* return for a base fee whose multiple is within the bounds
\* (budget-delegation.ts:173); what buildTransaction() and
\* buildTransactionFromOperations() return, unless its fee is above the ceiling,
\* which the one checks before it multiplies and the other not at all
\* (builder.ts:310, multi-operation.ts:375).  A bump of an envelope adds no
\* fault to it and mends a fee that is too low (feeBump.ts:370).
BuiltIsAccepted ==
  /\ (tx # None /\ tx.by \in {"buildMultiOperation", "buildPolicy"})
       => (EnvelopeIssues(tx, None) = {} /\ tx.fee <= tx.bid)
  /\ (tx # None /\ tx.by = "buildBudget" /\ tx.bid \in MinBaseFee .. MaxTotalFee \div Len(tx.ops))
       => EnvelopeIssues(tx, None) = {}
  /\ (tx # None /\ tx.by \in {"buildTransaction", "buildFromOperations"})
       => EnvelopeIssues(tx, None) \subseteq {"FEE_BID_TOO_HIGH"}
  /\ bump # None => EnvelopeIssues(tx, bump) \subseteq EnvelopeIssues(tx, None) \ {"FEE_BELOW_MINIMUM"}

\* A bump pays at least the inner transaction's inclusion fee per operation,
\* counting itself as one more operation (the network's rule for replacing a
\* transaction), and never more than the ceiling (feeBump.ts:389, :527).
BumpOutbids ==
  bump # None =>
    /\ (bump.fee - tx.resource) * Len(tx.ops) >= (tx.fee - tx.resource) * (Len(tx.ops) + 1)
    /\ bump.fee <= MaxTotalFee

\* A caller who bids what an adviser recommended is told that the bid is below
\* the minimum in two cases only.  estimateFee() starts from what the envelope
\* pays and knows no minimum of its own, so that it can hand back too low a fee
\* (fee-estimation.ts:293, :308).  And an answer of the API with neither a total
\* nor a count is taken for one operation (fees.ts:125).  A recommendation may
\* be above the ceiling: the advisers do not know one.  The statistics are those
\* of a network whose base fee is at least the minimum: the optimizer does not
\* compare the two (fee-optimizer.ts:232).
AdviceCoversMinimum ==
  advice # None /\ BidError(advice.total, advice.ops) \notin {"ok", "FEE_BID_TOO_HIGH"} =>
    \/ advice.by = "estimate" /\ tx.fee \in 1 .. MinBaseFee * Len(tx.ops) - 1
    \/ advice.by = "api" /\ advice.counted # advice.ops
=============================================================================
