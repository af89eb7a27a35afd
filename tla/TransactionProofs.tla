-------------------------- MODULE TransactionProofs --------------------------
(***************************************************************************)
(* What holds of Envelope and Batch, the components that build             *)
(* transactions, for any values of their constants.                        *)
(*                                                                         *)
(*   - Envelope: what the package builds its validator accepts, a bump     *)
(*     outbids what it wraps, and the advised bid is enough;               *)
(*   - Batch: the cached payload is never stale, a cycle is reported only  *)
(*     where there is one, and what is put in order validates, for batches *)
(*     of any length.                                                      *)
(***************************************************************************)
EXTENDS Envelope, Batch, FiniteSetTheorems, SequenceTheorems, WellFoundedInduction, TLAPS

-----------------------------------------------------------------------------
(* Envelope. *)

-----------------------------------------------------------------------------
(* The assumption, part by part.                                           *)

LEMMA Limits ==
  /\ MinBaseFee \in Nat \ {0} /\ MaxTotalFee \in Nat
  /\ MaxOperations \in Nat /\ MaxOperations >= 5
  BY EnvelopeAssumption

LEMMA Inputs ==
  /\ \A ops \in OpLists : ops \in Seq(OpTypes)
  /\ \A bid \in Bids : bid \in Int
  /\ \A buffer \in Buffers : buffer \in Nat
  BY EnvelopeAssumption

-----------------------------------------------------------------------------
(* The first failing check.                                                *)

LEMMA LeastExists ==
  ASSUME NEW S \in SUBSET Nat, S # {}
  PROVE  \E i \in S : \A j \in S : i <= j
<1>1. PICK i \in S : \A j \in S : <<j, i>> \notin OpToRel(<, Nat)
  BY NatLessThanWellFounded, WFMin
<1>2. \A j \in S : ~(j < i)
  BY <1>1 DEF OpToRel
<1> QED BY <1>2

LEMMA FirstOfOk ==
  ASSUME NEW codes, DOMAIN codes \subseteq Nat
  PROVE  FirstOf(codes) = "ok" <=> \A i \in DOMAIN codes : codes[i] = "ok"
<1> DEFINE failing == {i \in DOMAIN codes : codes[i] # "ok"}
<1>1. CASE failing = {}
  BY <1>1 DEF FirstOf
<1>2. CASE failing # {}
  <2>1. \E i \in failing : \A j \in failing : i <= j
    <3>1. failing \in SUBSET Nat
      OBVIOUS
    <3> HIDE DEF failing
    <3> QED BY <1>2, <3>1, LeastExists
  <2>2. (CHOOSE i \in failing : \A j \in failing : i <= j) \in failing
    <3> HIDE DEF failing
    <3> QED BY <2>1
  <2> QED BY <1>2, <2>2 DEF FirstOf
<1> QED BY <1>1, <1>2

LEMMA TwoOk ==
  ASSUME NEW a, NEW b
  PROVE  FirstOf(<<a, b>>) = "ok" <=> a = "ok" /\ b = "ok"
<1>1. DOMAIN <<a, b>> = 1 .. 2 /\ 1 .. 2 \subseteq Nat
  OBVIOUS
<1>2. FirstOf(<<a, b>>) = "ok" <=> \A i \in 1 .. 2 : <<a, b>>[i] = "ok"
  BY <1>1, FirstOfOk
<1> QED BY <1>2

LEMMA ThreeOk ==
  ASSUME NEW a, NEW b, NEW c
  PROVE  FirstOf(<<a, b, c>>) = "ok" <=> a = "ok" /\ b = "ok" /\ c = "ok"
<1>1. DOMAIN <<a, b, c>> = 1 .. 3 /\ 1 .. 3 \subseteq Nat
  OBVIOUS
<1>2. FirstOf(<<a, b, c>>) = "ok" <=> \A i \in 1 .. 3 : <<a, b, c>>[i] = "ok"
  BY <1>1, FirstOfOk
<1> QED BY <1>2

LEMMA FourOk ==
  ASSUME NEW a, NEW b, NEW c, NEW d
  PROVE  FirstOf(<<a, b, c, d>>) = "ok" <=> a = "ok" /\ b = "ok" /\ c = "ok" /\ d = "ok"
<1>1. DOMAIN <<a, b, c, d>> = 1 .. 4 /\ 1 .. 4 \subseteq Nat
  OBVIOUS
<1>2. FirstOf(<<a, b, c, d>>) = "ok" <=> \A i \in 1 .. 4 : <<a, b, c, d>>[i] = "ok"
  BY <1>1, FirstOfOk
<1> QED BY <1>2

\* When all but the last of three checks succeed, the last one decides.
LEMMA LastOfThree ==
  ASSUME NEW c
  PROVE  FirstOf(<<"ok", "ok", c>>) = c
<1> DEFINE codes == <<"ok", "ok", c>>
           failing == {i \in DOMAIN codes : codes[i] # "ok"}
<1>1. DOMAIN codes = 1 .. 3 /\ codes[1] = "ok" /\ codes[2] = "ok" /\ codes[3] = c
  OBVIOUS
<1>2. FirstOf(codes)
        = IF failing = {} THEN "ok" ELSE codes[CHOOSE i \in failing : \A j \in failing : i <= j]
  BY DEF FirstOf
<1>3. failing = IF c = "ok" THEN {} ELSE {3}
  BY <1>1
<1>4. (CHOOSE i \in {3} : \A j \in {3} : i <= j) = 3
  OBVIOUS
<1> HIDE DEF codes, failing
<1>5. FirstOf(codes) = c
  BY <1>1, <1>2, <1>3, <1>4
<1> QED BY <1>5 DEF codes

-----------------------------------------------------------------------------
(* What the checks of the builders let through.                            *)

LEMMA BidOk ==
  ASSUME NEW bid \in Int, NEW n \in Nat, BidError(bid, n) = "ok"
  PROVE  bid >= 0 /\ bid >= n * MinBaseFee /\ bid <= MaxTotalFee
<1>1. n * MinBaseFee \in Int
  BY EnvelopeAssumption
<1>2. /\ Fails(bid < 0, "INVALID_FEE") = "ok"
      /\ Fails(bid < n * MinBaseFee, "FEE_BELOW_MINIMUM") = "ok"
      /\ Fails(bid > MaxTotalFee, "FEE_BID_TOO_HIGH") = "ok"
  BY ThreeOk DEF BidError
<1> QED BY <1>1, <1>2, EnvelopeAssumption DEF Fails

\* A bid of at least the minimum can only be too high.
LEMMA BidEnough ==
  ASSUME NEW bid \in Int, NEW n \in Nat, bid >= n * MinBaseFee
  PROVE  BidError(bid, n) \in {"ok", "FEE_BID_TOO_HIGH"}
<1>1. n * MinBaseFee \in Nat
  BY EnvelopeAssumption
<1>2. /\ Fails(bid < 0, "INVALID_FEE") = "ok"
      /\ Fails(bid < n * MinBaseFee, "FEE_BELOW_MINIMUM") = "ok"
  BY <1>1 DEF Fails
<1>3. BidError(bid, n) = Fails(bid > MaxTotalFee, "FEE_BID_TOO_HIGH")
  BY <1>2, LastOfThree DEF BidError
<1> QED BY <1>3 DEF Fails

LEMMA FeeOk ==
  ASSUME NEW bid \in Int, FeeError(bid) = "ok"
  PROVE  bid >= MinBaseFee
BY ThreeOk, Limits DEF FeeError, Fails

LEMMA CountOk ==
  ASSUME NEW n \in Nat, CountError(n) = "ok"
  PROVE  n \in 1 .. MaxOperations
<1>1. Fails(n = 0, "EMPTY_OPERATIONS") = "ok" /\ Fails(n > MaxOperations, "TOO_MANY_OPERATIONS") = "ok"
  BY TwoOk DEF CountError
<1> QED BY <1>1, EnvelopeAssumption DEF Fails

LEMMA MemoOk ==
  ASSUME NEW memo, MemoError(memo) = "ok"
  PROVE  MemoIssues(memo) = {}
<1>1. Fails(memo.type # "none" /\ ~memo.fits, "INVALID_MEMO") = "ok"
  BY TwoOk DEF MemoError
<1> QED BY <1>1 DEF Fails, MemoIssues

-----------------------------------------------------------------------------
(* Arithmetic.                                                             *)

LEMMA SharedOut ==
  ASSUME NEW bid \in Int, NEW n \in Nat \ {0}
  PROVE  bid \div n \in Int /\ (bid \div n) * n <= bid /\ (bid \div n) * n > bid - n
  OBVIOUS

LEMMA CeilDivCovers ==
  ASSUME NEW x \in Int, NEW n \in Nat \ {0}
  PROVE  CeilDiv(x, n) \in Int /\ CeilDiv(x, n) * n >= x
<1>1. x + n - 1 \in Int
  OBVIOUS
<1>2. ((x + n - 1) \div n) \in Int /\ ((x + n - 1) \div n) * n > x + n - 1 - n
  BY <1>1, SharedOut
<1> QED BY <1>2 DEF CeilDiv

LEMMA TimesMonotone ==
  ASSUME NEW a \in Int, NEW b \in Int, a <= b, NEW n \in Nat
  PROVE  a * n <= b * n
  OBVIOUS

LEMMA ShareIsWithinBid ==
  ASSUME NEW bid \in Int, NEW n \in Nat \ {0}, bid >= n * MinBaseFee
  PROVE  /\ PerOperationFee(bid, n) \in Int
         /\ n * MinBaseFee <= PerOperationFee(bid, n) * n
         /\ PerOperationFee(bid, n) * n <= bid
<1> DEFINE share == bid \div n
<1>1. share \in Int /\ share * n <= bid /\ share * n > bid - n
  BY SharedOut
<1> HIDE DEF share
<1>2. MinBaseFee \in Nat
  BY EnvelopeAssumption
<1>3. share >= MinBaseFee
  <2> SUFFICES ASSUME share + 1 <= MinBaseFee PROVE FALSE
    BY <1>1, <1>2
  <2>1. (share + 1) * n <= MinBaseFee * n
    BY <1>1, <1>2, TimesMonotone
  <2>2. (share + 1) * n = share * n + n /\ MinBaseFee * n = n * MinBaseFee
    BY <1>1, <1>2
  <2> QED BY <1>1, <1>2, <2>1, <2>2
<1>4. PerOperationFee(bid, n) = share
  BY <1>1, <1>2, <1>3 DEF PerOperationFee, AtLeast, share
<1>5. MinBaseFee * n <= share * n
  BY <1>1, <1>2, <1>3, TimesMonotone
<1> QED BY <1>1, <1>2, <1>4, <1>5
-----------------------------------------------------------------------------
(* The invariant.                                                          *)

Origins ==
  {"buildTransaction", "buildMultiOperation", "buildFromOperations", "buildPolicy", "buildBudget",
   "received"}

Envelopes ==
  [by : Origins, bid : Int, ops : Seq(OpTypes), fee : Int, resource : Nat, memo : Memos,
   signed : BOOLEAN]

\* An envelope keeps what its builder checked; for the builders that share a
\* bid out, that the shares together are within the bid.
TxInv ==
  tx # None =>
    /\ tx \in Envelopes
    /\ tx.by \in {"buildMultiOperation", "buildPolicy"} =>
         EnvelopeIssues(tx, None) = {} /\ tx.fee <= tx.bid
    /\ tx.by = "buildBudget" /\ tx.bid \in MinBaseFee .. MaxTotalFee \div Len(tx.ops) =>
         EnvelopeIssues(tx, None) = {}
    /\ tx.by \in {"buildTransaction", "buildFromOperations"} =>
         EnvelopeIssues(tx, None) \subseteq {"FEE_BID_TOO_HIGH"}

\* A bump remembers the base fee it was made with; it is at least the inner
\* transaction's own rate, and its total is within the ceiling.
BumpInv ==
  bump # None =>
    /\ tx # None /\ tx.ops # <<>>
    /\ bump.base \in Int /\ bump.base >= MinimumBumpBase(tx)
    /\ bump.fee = BumpFeeTotal(bump.base, tx) /\ bump.fee <= MaxTotalFee

IInv == TxInv /\ BumpInv

\* The base fee of a ledger is at least the network's minimum.
NetworkFloor == \A s \in Stats : s.base >= MinBaseFee

-----------------------------------------------------------------------------
(* The builders.                                                           *)

\* The validator asks of an envelope what this says, and nothing else.
LEMMA Accepted ==
  ASSUME NEW t, Len(t.ops) \in 1 .. MaxOperations, MemoIssues(t.memo) = {},
         t.fee \in Int, t.fee >= Len(t.ops) * MinBaseFee, t.fee <= MaxTotalFee
  PROVE  EnvelopeIssues(t, None) = {}
<1> DEFINE n == Len(t.ops)
<1>1. n * MinBaseFee \in Nat
  BY Limits, Inputs
<1>2. CountIssues(n) = {}
  BY Limits, Inputs DEF CountIssues
<1>3. AtLeast(n, 1) = n
  BY Limits, Inputs DEF AtLeast
<1>4. FeeIssues(t.fee, n) = {}
  BY <1>1, <1>3, Limits, Inputs DEF FeeIssues
<1> QED BY <1>2, <1>4 DEF EnvelopeIssues

\* And of one whose fee nobody compared with the ceiling.
LEMMA AcceptedButForCeiling ==
  ASSUME NEW t, Len(t.ops) \in 1 .. MaxOperations, MemoIssues(t.memo) = {},
         t.fee \in Int, t.fee >= Len(t.ops) * MinBaseFee
  PROVE  EnvelopeIssues(t, None) \subseteq {"FEE_BID_TOO_HIGH"}
<1> DEFINE n == Len(t.ops)
<1>1. n * MinBaseFee \in Nat
  BY Limits, Inputs
<1>2. CountIssues(n) = {}
  BY Limits, Inputs DEF CountIssues
<1>3. AtLeast(n, 1) = n
  BY Limits, Inputs DEF AtLeast
<1>4. FeeIssues(t.fee, n) \subseteq {"FEE_BID_TOO_HIGH"}
  BY <1>1, <1>3, Limits, Inputs DEF FeeIssues
<1> QED BY <1>2, <1>4 DEF EnvelopeIssues

LEMMA BuiltTyped ==
  ASSUME NEW by \in Origins, NEW bid \in Int, NEW perOp \in Int, NEW ops \in Seq(OpTypes), NEW memo \in Memos
  PROVE  LET t == Built(by, bid, perOp, ops, memo)
         IN  /\ t # None /\ t \in Envelopes
             /\ t.by = by /\ t.bid = bid /\ t.ops = ops /\ t.memo = memo /\ t.fee = perOp * Len(ops)
<1> DEFINE t == Built(by, bid, perOp, ops, memo)
<1>1. Len(ops) \in Nat /\ perOp * Len(ops) \in Int
  OBVIOUS
<1>2. t \in Envelopes
  BY <1>1 DEF Built, Envelopes
<1>3. t.by = by /\ None.by = "none" /\ by # "none"
  BY DEF Built, None, Origins
<1> QED BY <1>2, <1>3 DEF Built

\* Only tx is left behind by a builder.
LEMMA OnlyTx == ASSUME TxInv', bump' = None PROVE IInv'
  BY DEF IInv, BumpInv

\* What the two builders return that do not share a checked bid out.
LEMMA UncheckedKeeps ==
  ASSUME NEW by \in {"buildTransaction", "buildFromOperations"}, NEW bid \in Int, NEW perOp \in Int,
         NEW ops \in Seq(OpTypes), NEW memo \in Memos, Len(ops) \in 1 .. MaxOperations,
         perOp >= MinBaseFee, MemoError(memo) = "ok",
         tx' = Built(by, bid, perOp, ops, memo), bump' = None
  PROVE  IInv'
<1> DEFINE n == Len(ops)
<1>1. n \in Nat \ {0}
  BY Inputs
<1>2. /\ tx' \in Envelopes /\ tx'.by = by /\ tx'.ops = ops /\ tx'.memo = memo
      /\ tx'.fee = perOp * n
  <2>1. by \in Origins
    BY DEF Origins
  <2> QED BY <2>1, BuiltTyped
<1>3. MinBaseFee * n <= perOp * n /\ perOp * n \in Int /\ MinBaseFee * n = n * MinBaseFee
  BY <1>1, Limits, TimesMonotone
<1>4. EnvelopeIssues(tx', None) \subseteq {"FEE_BID_TOO_HIGH"}
  BY <1>2, <1>3, MemoOk, AcceptedButForCeiling
<1>5. TxInv'
  BY <1>2, <1>4 DEF TxInv
<1> QED BY <1>5 DEF IInv, BumpInv

LEMMA SingleKeeps ==
  ASSUME NEW ops \in OpLists, NEW bid \in Bids, NEW memo \in Memos, BuildTransaction(ops, bid, memo)
  PROVE  IInv'
<1>1. ops \in Seq(OpTypes) /\ bid \in Int
  BY Inputs
<1>2. tx' = Built("buildTransaction", bid, bid, ops, memo) /\ bump' = None
  BY DEF BuildTransaction
<1>3. /\ CountError(Len(ops)) = "ok" /\ FeeError(bid) = "ok" /\ MemoError(memo) = "ok"
  BY FourOk DEF BuildTransaction, SingleError
<1>4. Len(ops) \in 1 .. MaxOperations /\ bid >= MinBaseFee
  <2>1. Len(ops) \in 1 .. MaxOperations
    BY <1>3, CountOk, Inputs
  <2>2. bid >= MinBaseFee
    BY <1>1, <1>3, FeeOk
  <2> QED BY <2>1, <2>2
<1> QED BY <1>1, <1>2, <1>3, <1>4, UncheckedKeeps

LEMMA FromOperationsKeeps ==
  ASSUME NEW ops \in OpLists, NEW bid \in Bids, NEW memo \in Memos, BuildFromOperations(ops, bid, memo)
  PROVE  IInv'
<1>1. CountError(Len(ops)) = "ok"
  <2>1. CASE CountError(Len(ops)) # "ok"
    BY <2>1 DEF BuildFromOperations, FromOperationsError
  <2> QED BY <2>1
<1>2. Len(ops) \in Nat \ {0}
  BY <1>1, CountOk, Inputs
<1>3. ops \in Seq(OpTypes) /\ bid \in Int
  BY Inputs
<1>4. PerOperationFee(bid, Len(ops)) \in Int
  BY <1>2, <1>3, SharedOut, Limits DEF PerOperationFee, AtLeast
<1>5. /\ tx' = Built("buildFromOperations", bid, PerOperationFee(bid, Len(ops)), ops, memo)
      /\ bump' = None
  BY DEF BuildFromOperations
<1>6. PerOperationFee(bid, Len(ops)) >= MinBaseFee
  <2>1. bid \div Len(ops) \in Int /\ MinBaseFee \in Int
    BY <1>2, <1>3, SharedOut, Limits
  <2>2. ASSUME NEW share \in Int PROVE AtLeast(share, MinBaseFee) >= MinBaseFee
    BY <2>1 DEF AtLeast
  <2> QED BY <2>1, <2>2 DEF PerOperationFee
<1>7. MemoError(memo) = "ok"
  BY <1>1, ThreeOk DEF BuildFromOperations, FromOperationsError
<1>8. Len(ops) \in 1 .. MaxOperations
  BY <1>1, CountOk, Inputs
<1> QED BY <1>3, <1>4, <1>5, <1>6, <1>7, <1>8, UncheckedKeeps

\* What is shared out and multiplied back: above the minimum, within the bid.
LEMMA SharedKeeps ==
  ASSUME NEW by \in {"buildMultiOperation", "buildPolicy"}, NEW ops \in Seq(OpTypes),
         Len(ops) \in 1 .. MaxOperations, NEW bid \in Bids, NEW memo \in Memos,
         BidError(bid, Len(ops)) = "ok", MemoError(memo) = "ok",
         tx' = Built(by, bid, PerOperationFee(bid, Len(ops)), ops, memo), bump' = None
  PROVE  IInv'
<1> DEFINE n == Len(ops)
<1>1. n \in Nat \ {0} /\ bid \in Int
  BY Inputs
<1>2. bid >= n * MinBaseFee /\ bid <= MaxTotalFee
  BY <1>1, BidOk
<1>3. /\ PerOperationFee(bid, n) \in Int
      /\ n * MinBaseFee <= PerOperationFee(bid, n) * n
      /\ PerOperationFee(bid, n) * n <= bid
  BY <1>1, <1>2, ShareIsWithinBid
<1>4. /\ tx' \in Envelopes /\ tx'.by = by /\ tx'.bid = bid /\ tx'.ops = ops /\ tx'.memo = memo
      /\ tx'.fee = PerOperationFee(bid, n) * n
  <2>1. by \in Origins
    BY DEF Origins
  <2>2. bid \in Int /\ PerOperationFee(bid, Len(ops)) \in Int
    BY <1>1, <1>3
  <2>3. Built(by, bid, PerOperationFee(bid, Len(ops)), ops, memo) \in Envelopes
    BY <2>1, <2>2, BuiltTyped
  <2> QED BY <2>3 DEF Built
<1>5. tx'.fee \in Int /\ tx'.fee >= n * MinBaseFee /\ tx'.fee <= bid /\ tx'.fee <= MaxTotalFee
  <2>1. PerOperationFee(bid, n) * n \in Int /\ n * MinBaseFee \in Int /\ MaxTotalFee \in Int
    BY <1>1, <1>3, Limits, Inputs
  <2> HIDE DEF n
  <2> QED BY <1>1, <1>2, <1>3, <1>4, <2>1
<1>6. EnvelopeIssues(tx', None) = {}
  BY <1>4, <1>5, MemoOk, Accepted
<1>7. TxInv'
  BY <1>4, <1>5, <1>6 DEF TxInv
<1> QED BY <1>7, OnlyTx

LEMMA MultiKeeps ==
  ASSUME NEW ops \in OpLists, NEW bid \in Bids, NEW memo \in Memos, BuildMultiOperation(ops, bid, memo)
  PROVE  IInv'
<1>1. CountError(Len(ops)) = "ok" /\ BidError(bid, Len(ops)) = "ok" /\ MemoError(memo) = "ok"
  BY ThreeOk DEF BuildMultiOperation, MultiError
<1>2. ops \in Seq(OpTypes) /\ Len(ops) \in 1 .. MaxOperations
  BY <1>1, CountOk, Limits, Inputs
<1> QED BY <1>1, <1>2, SharedKeeps DEF BuildMultiOperation

LEMMA PolicyKeeps ==
  ASSUME NEW op \in OpTypes, NEW withIds \in BOOLEAN, NEW bid \in Bids, NEW memo \in Memos,
         BuildPolicy(op, withIds, bid, memo)
  PROVE  IInv'
<1> DEFINE ops == PolicyOps(<<op>>, withIds)
<1>1. ops \in Seq(OpTypes) /\ (Len(ops) = 2 \/ Len(ops) = 3)
  <2>1. /\ <<op>> \in Seq(OpTypes) /\ Len(<<op>>) = 1
        /\ <<"manageData">> \in Seq(OpTypes) /\ Len(<<"manageData">>) = 1
        /\ <<"manageData", "manageData">> \in Seq(OpTypes) /\ Len(<<"manageData", "manageData">>) = 2
    BY DEF OpTypes
  <2>2. ASSUME NEW head \in Seq(OpTypes), NEW tail \in Seq(OpTypes)
        PROVE  head \o tail \in Seq(OpTypes) /\ Len(head \o tail) = Len(head) + Len(tail)
    OBVIOUS
  <2>3. ops = <<op>> \o <<"manageData", "manageData">> \/ ops = <<op>> \o <<"manageData">>
    BY DEF PolicyOps
  <2> HIDE DEF ops
  <2>4. CASE ops = <<op>> \o <<"manageData", "manageData">>
    BY <2>1, <2>2, <2>4
  <2>5. CASE ops = <<op>> \o <<"manageData">>
    BY <2>1, <2>2, <2>5
  <2> QED BY <2>3, <2>4, <2>5
<1> HIDE DEF ops
<1>2. /\ PolicyError(ops, bid, memo) = "ok"
      /\ tx' = Built("buildPolicy", bid, PerOperationFee(bid, Len(ops)), ops, memo)
      /\ bump' = None
  BY DEF BuildPolicy, ops
<1>3. /\ Fails(Len(ops) > MaxOperations, "TOO_MANY_OPERATIONS") = "ok"
      /\ BidError(bid, Len(ops)) = "ok" /\ MemoError(memo) = "ok"
  BY <1>2, ThreeOk DEF PolicyError
<1>4. Len(ops) \in 1 .. MaxOperations
  <2>1. 2 \in 1 .. MaxOperations /\ 3 \in 1 .. MaxOperations
    BY Limits
  <2> QED BY <1>1, <2>1, Zenon
<1> QED BY <1>1, <1>2, <1>3, <1>4, SharedKeeps

\* The budget builders multiply a base fee by two to five operations.
LEMMA BudgetKeeps ==
  ASSUME NEW ops \in BudgetOps, NEW baseFee \in Bids, NEW memo \in Memos, BuildBudget(ops, baseFee, memo)
  PROVE  IInv'
<1> DEFINE n == Len(ops)
<1>1. ops \in Seq(OpTypes) /\ n \in 2 .. 5
  <2>1. CASE ops = <<"manageData", "manageData", "manageData", "manageData">>
    BY <2>1 DEF OpTypes
  <2>2. CASE ops = <<"manageData", "manageData", "manageData", "manageData", "manageData">>
    BY <2>2 DEF OpTypes
  <2>3. CASE ops = <<"manageData", "payment">>
    BY <2>3 DEF OpTypes
  <2>4. CASE ops = <<"manageData", "manageData", "payment">>
    BY <2>4 DEF OpTypes
  <2> QED BY <2>1, <2>2, <2>3, <2>4 DEF BudgetOps
<1>2. baseFee \in Int /\ MinBaseFee \in Nat /\ MaxTotalFee \in Nat /\ n \in 1 .. MaxOperations
  <2>1. baseFee \in Int
    BY Inputs
  <2>2. n \in 1 .. MaxOperations
    <3> HIDE DEF n
    <3> QED BY <1>1, Limits
  <2> QED BY <2>1, <2>2, Limits
<1>3. MemoIssues(memo) = {}
  <2>1. Fails(memo.type # "none" /\ ~memo.fits, "INVALID_MEMO") = "ok"
    BY TwoOk DEF BuildBudget, BudgetError
  <2> QED BY <2>1 DEF Fails, MemoIssues
<1>4. /\ tx' \in Envelopes /\ tx'.by = "buildBudget" /\ tx'.bid = baseFee /\ tx'.ops = ops
      /\ tx'.memo = memo /\ tx'.fee = baseFee * n
  <2>1. tx' = Built("buildBudget", baseFee, baseFee, ops, memo)
    BY DEF BuildBudget
  <2>2. "buildBudget" \in Origins
    BY DEF Origins
  <2> QED BY <1>1, <1>2, <2>1, <2>2, BuiltTyped
<1>5. ASSUME baseFee \in MinBaseFee .. MaxTotalFee \div n PROVE EnvelopeIssues(tx', None) = {}
  <2>1. baseFee * n \in Int
    BY <1>1, <1>2
  <2>2. baseFee * n >= n * MinBaseFee
    <3>1. MinBaseFee * n <= baseFee * n
      BY <1>1, <1>2, <1>5, TimesMonotone
    <3> QED BY <1>1, <1>2, <3>1
  <2>3. baseFee * n <= MaxTotalFee
    <3>1. MaxTotalFee \div n \in Int /\ (MaxTotalFee \div n) * n <= MaxTotalFee
      BY <1>1, <1>2, SharedOut
    <3>2. baseFee * n <= (MaxTotalFee \div n) * n
      BY <1>1, <1>2, <1>5, <3>1, TimesMonotone
    <3> HIDE DEF n
    <3> QED BY <1>1, <1>2, <2>1, <3>1, <3>2
  <2> QED BY <1>2, <1>3, <1>4, <2>1, <2>2, <2>3, Accepted
<1>6. TxInv'
  BY <1>4, <1>5 DEF TxInv
<1> QED BY <1>6, OnlyTx DEF BuildBudget
LEMMA BuildKeeps == ASSUME BuildEnvelope PROVE IInv'
<1>1. PICK bid \in Bids, memo \in Memos :
        \/ \E ops \in OpLists :
             \/ BuildTransaction(ops, bid, memo)
             \/ BuildMultiOperation(ops, bid, memo)
             \/ BuildFromOperations(ops, bid, memo)
             \/ Len(ops) = 1 /\ \E withIds \in BOOLEAN : BuildPolicy(ops[1], withIds, bid, memo)
        \/ \E ops \in BudgetOps : BuildBudget(ops, bid, memo)
  BY DEF BuildEnvelope
<1>2. CASE \E ops \in BudgetOps : BuildBudget(ops, bid, memo)
  BY <1>2, BudgetKeeps
<1>3. ASSUME NEW ops \in OpLists,
             \/ BuildTransaction(ops, bid, memo)
             \/ BuildMultiOperation(ops, bid, memo)
             \/ BuildFromOperations(ops, bid, memo)
      PROVE  IInv'
  BY <1>3, SingleKeeps, MultiKeeps, FromOperationsKeeps
<1>4. ASSUME NEW ops \in OpLists, Len(ops) = 1, NEW withIds \in BOOLEAN,
             BuildPolicy(ops[1], withIds, bid, memo)
      PROVE  IInv'
  <2>1. ops[1] \in OpTypes
    BY <1>4, Inputs
  <2> QED BY <1>4, <2>1, PolicyKeeps
<1> QED BY <1>1, <1>2, <1>3, <1>4

LEMMA ReceiveKeeps == ASSUME Receive PROVE IInv'
<1>1. /\ tx' \in [by : {"received"}, bid : Int, ops : Seq(OpTypes), fee : Nat, resource : Nat,
                  memo : Memos, signed : BOOLEAN]
      /\ bump' = None
  BY EnvelopeAssumption DEF Receive
<1>2. tx' \in Envelopes /\ tx'.by = "received"
  BY <1>1 DEF Envelopes, Origins
<1>3. TxInv'
  BY <1>2 DEF TxInv
<1> QED BY <1>1, <1>3, OnlyTx

LEMMA SignKeeps == ASSUME IInv, Sign PROVE IInv'
<1> USE DEF Sign
<1>1. /\ tx' \in Envelopes
      /\ tx'.by = tx.by /\ tx'.bid = tx.bid /\ tx'.ops = tx.ops /\ tx'.fee = tx.fee
      /\ tx'.memo = tx.memo
  BY DEF IInv, TxInv, Envelopes
<1>2. EnvelopeIssues(tx', None) = EnvelopeIssues(tx, None)
  BY <1>1 DEF EnvelopeIssues
<1>3. TxInv'
  BY <1>1, <1>2 DEF IInv, TxInv
<1> QED BY <1>3, OnlyTx

-----------------------------------------------------------------------------
(* Fee bumps.                                                              *)

LEMMA BumpBase ==
  ASSUME NEW t \in Envelopes, t.ops # <<>>
  PROVE  /\ Len(t.ops) \in Nat \ {0}
         /\ MinimumBumpBase(t) \in Int /\ MinimumBumpBase(t) >= MinBaseFee
         /\ MinimumBumpBase(t) >= CeilDiv(t.fee - t.resource, Len(t.ops))
<1>1. t.fee \in Int /\ t.resource \in Int /\ t.ops \in Seq(OpTypes)
  BY DEF Envelopes
<1>2. Len(t.ops) \in Nat \ {0}
  BY <1>1
<1>3. t.fee - t.resource \in Int
  BY <1>1
<1>4. CeilDiv(t.fee - t.resource, Len(t.ops)) \in Int
  BY <1>2, <1>3, CeilDivCovers
<1> QED BY <1>2, <1>4, Limits DEF MinimumBumpBase, AtLeast

LEMMA BumpFeeKeeps ==
  ASSUME IInv, NEW base \in Int, NEW signer, BumpFee(base, signer)
  PROVE  IInv'
<1>1. /\ tx # None /\ BumpIssues(tx, base, signer) = {} /\ tx' = tx
      /\ bump' = [by |-> "bumpFee", base |-> base, fee |-> BumpFeeTotal(base, tx),
                  signed |-> signer = "keypair"]
  BY DEF BumpFee
<1>2. /\ tx \in Envelopes /\ tx.ops # <<>>
      /\ BaseFeeIssues(tx, base) = {}
      /\ ~(base >= 0 /\ BumpFeeTotal(base, tx) > MaxTotalFee)
  BY <1>1 DEF IInv, TxInv, BumpIssues
<1>3. /\ Len(tx.ops) \in Nat \ {0} /\ tx.resource \in Int
      /\ MinimumBumpBase(tx) \in Int
  BY <1>2, BumpBase DEF Envelopes
<1>4. base >= 0 /\ base >= MinimumBumpBase(tx)
  <2>1. CASE base < 0
    BY <1>2, <2>1 DEF BaseFeeIssues
  <2>2. CASE ~(base < 0) /\ base < MinimumBumpBase(tx)
    BY <1>2, <2>2 DEF BaseFeeIssues
  <2>3. CASE ~(base < 0) /\ ~(base < MinimumBumpBase(tx))
    BY <1>3, <2>3
  <2> QED BY <2>1, <2>2, <2>3
<1>5. BumpFeeTotal(base, tx) \in Int
  BY <1>3 DEF BumpFeeTotal
<1>6. BumpFeeTotal(base, tx) <= MaxTotalFee
  BY <1>2, <1>4, <1>5, Limits
<1>7. bump'.base = base /\ bump'.fee = BumpFeeTotal(base, tx)
  BY <1>1
<1>8. BumpInv'
  BY <1>1, <1>2, <1>4, <1>6, <1>7 DEF BumpInv
<1>9. TxInv'
  BY <1>1 DEF IInv, TxInv
<1> QED BY <1>8, <1>9 DEF IInv

LEMMA BumpByDefaultKeeps ==
  ASSUME IInv, NEW buffer \in Buffers, NEW signer, BumpByDefault(buffer, signer)
  PROVE  IInv'
<1>1. tx # None /\ tx.ops # <<>> /\ buffer \in Nat
  BY Inputs DEF BumpByDefault
<1>2. PICK base \in DefaultBumpBases(tx, buffer) : BumpFee(base, signer)
  BY DEF BumpByDefault
<1>3. MinimumBumpBase(tx) * (100 + buffer) \in Int
  BY <1>1, BumpBase DEF IInv, TxInv
<1>4. CeilDiv(MinimumBumpBase(tx) * (100 + buffer), 100) \in Int
  BY <1>3, CeilDivCovers
<1>5. base \in Int
  BY <1>2, <1>4 DEF DefaultBumpBases
<1> QED BY <1>2, <1>5, BumpFeeKeeps

LEMMA BumpKeeps == ASSUME IInv, Bump PROVE IInv'
<1>1. ASSUME NEW signer, NEW base \in Bids, BumpFee(base, signer) PROVE IInv'
  BY <1>1, Inputs, BumpFeeKeeps
<1>2. ASSUME NEW signer, NEW buffer \in Buffers, BumpByDefault(buffer, signer) PROVE IInv'
  BY <1>2, BumpByDefaultKeeps
<1> QED BY <1>1, <1>2 DEF Bump

-----------------------------------------------------------------------------
(* The invariant is inductive.                                             *)

LEMMA UntouchedKeeps == ASSUME IInv, UNCHANGED <<tx, bump>> PROVE IInv'
  BY DEF IInv, TxInv, BumpInv

LEMMA AdviceKeeps == ASSUME IInv, Advice PROVE IInv'
<1>1. UNCHANGED <<tx, bump>>
  BY DEF Advice, Advise, AdviseFromEnvelope, AdviseFromApi
<1> QED BY <1>1, UntouchedKeeps

LEMMA InitIInv == Init => IInv
  BY DEF Init, IInv, TxInv, BumpInv

LEMMA NextIInv == IInv /\ [Next]_vars => IInv'
<1> SUFFICES ASSUME IInv, [Next]_vars PROVE IInv'
  OBVIOUS
<1>1. CASE UNCHANGED vars
  BY <1>1, UntouchedKeeps DEF vars
<1> QED BY <1>1, BuildKeeps, ReceiveKeeps, SignKeeps, BumpKeeps, AdviceKeeps DEF Next

LEMMA Inductive == Spec => []IInv
  BY InitIInv, NextIInv, PTL DEF Spec

-----------------------------------------------------------------------------
(* What follows.                                                           *)

\* A bump pays for every operation of the inner transaction, and for itself.
LEMMA BumpPays ==
  ASSUME IInv, bump # None
  PROVE  LET n == Len(tx.ops)
         IN  /\ n \in Nat \ {0} /\ bump.fee \in Int
             /\ bump.fee >= n * MinBaseFee
             /\ (bump.fee - tx.resource) * n >= (tx.fee - tx.resource) * (n + 1)
<1> DEFINE n == Len(tx.ops)
           rest == tx.fee - tx.resource
<1>1. /\ tx \in Envelopes /\ tx.ops # <<>> /\ bump.base \in Int
      /\ bump.base >= MinimumBumpBase(tx) /\ bump.fee = BumpFeeTotal(bump.base, tx)
  BY DEF IInv, TxInv, BumpInv
<1>2. /\ n \in Nat \ {0} /\ tx.resource \in Nat /\ rest \in Int
  BY <1>1, BumpBase DEF Envelopes
<1>3. CeilDiv(rest, n) \in Int /\ CeilDiv(rest, n) * n >= rest
  BY <1>2, CeilDivCovers
<1>4. bump.base >= MinBaseFee /\ bump.base >= CeilDiv(rest, n)
  BY <1>1, <1>3, BumpBase, Limits
<1>5. bump.fee = bump.base * (n + 1) + tx.resource
  BY <1>1 DEF BumpFeeTotal
<1> HIDE DEF n, rest
<1>6. bump.base * n >= rest
  <2>1. CeilDiv(rest, n) * n <= bump.base * n
    BY <1>1, <1>2, <1>3, <1>4, TimesMonotone
  <2> QED BY <1>1, <1>2, <1>3, <2>1
<1>7. MinBaseFee * n <= bump.base * n
  BY <1>1, <1>2, <1>4, Limits, TimesMonotone
<1>8. bump.fee \in Int /\ bump.fee >= n * MinBaseFee
  BY <1>1, <1>2, <1>4, <1>5, <1>7, Limits
<1>9. (bump.fee - tx.resource) * n >= rest * (n + 1)
  <2>1. rest * (n + 1) <= (bump.base * n) * (n + 1)
    <3>1. bump.base * n \in Int /\ n + 1 \in Nat
      BY <1>1, <1>2
    <3> QED BY <1>2, <1>6, <3>1, TimesMonotone
  <2>2. (bump.base * n) * (n + 1) = (bump.fee - tx.resource) * n
    BY <1>1, <1>2, <1>5
  <2> QED BY <1>1, <1>2, <1>5, <2>1, <2>2
<1> QED BY <1>2, <1>8, <1>9 DEF n, rest

\* BuiltIsAccepted: the package's validator accepts what the multi-operation
\* and policy builders return, within the caller's bid, and the budget builders
\* for a base fee within the bounds; of what buildTransaction() and
\* buildTransactionFromOperations() return it only objects to a fee above the
\* ceiling; a bump adds no fault (multi-operation.ts:309, :375, builder.ts:310,
\* policy-builders.ts:425, budget-delegation.ts:173, feeBump.ts:370).
THEOREM ValidatorAcceptsBuilt == Spec => []BuiltIsAccepted
<1>1. ASSUME IInv, bump # None
      PROVE  EnvelopeIssues(tx, bump) \subseteq EnvelopeIssues(tx, None) \ {"FEE_BELOW_MINIMUM"}
  <2>1. /\ Len(tx.ops) \in Nat \ {0} /\ bump.fee \in Int
        /\ bump.fee >= Len(tx.ops) * MinBaseFee
    BY <1>1, BumpPays
  <2>2. bump.fee <= MaxTotalFee /\ Len(tx.ops) * MinBaseFee \in Nat
    BY <1>1, <2>1, Limits DEF IInv, BumpInv
  <2>3. AtLeast(Len(tx.ops), 1) = Len(tx.ops)
    BY <2>1 DEF AtLeast
  <2>4. FeeIssues(bump.fee, Len(tx.ops)) = {}
    BY <2>1, <2>2, <2>3, Limits DEF FeeIssues
  <2>5. "FEE_BELOW_MINIMUM" \notin CountIssues(Len(tx.ops)) \cup MemoIssues(tx.memo)
    BY DEF CountIssues, MemoIssues
  <2>6. EnvelopeIssues(tx, bump) = CountIssues(Len(tx.ops)) \cup MemoIssues(tx.memo)
    BY <1>1, <2>4 DEF EnvelopeIssues
  <2> QED BY <2>5, <2>6 DEF EnvelopeIssues
<1>2. IInv => BuiltIsAccepted
  BY <1>1 DEF IInv, TxInv, BuiltIsAccepted
<1> QED BY <1>2, Inductive, PTL

\* BumpOutbids: a bump pays at least the inner inclusion fee per operation,
\* itself counted as one more, and no more than the ceiling (feeBump.ts:389).
THEOREM BumpOutbidsInner == Spec => []BumpOutbids
<1>1. IInv => BumpOutbids
  BY BumpPays DEF IInv, BumpInv, BumpOutbids
<1> QED BY <1>1, Inductive, PTL
-----------------------------------------------------------------------------
(* The advisers.                                                           *)

LEMMA AtLeastIs ==
  ASSUME NEW x \in Int, NEW floor \in Int
  PROVE  AtLeast(x, floor) \in Int /\ AtLeast(x, floor) >= x /\ AtLeast(x, floor) >= floor
  BY DEF AtLeast

LEMMA SurgeTyped ==
  ASSUME NEW s \in Stats
  PROVE  SurgeMultiplier(s) \in Int
<1>1. s.base \in Nat \ {0} /\ s.fee \in Nat
  BY EnvelopeAssumption
<1> DEFINE representative == AtLeast(s.fee, s.base)
           loaded == (representative * 100 * SurgeFactor(s.usage) + 5 * s.base) \div (10 * s.base)
           scarce == IF representative >= CongestedFee THEN 300
                     ELSE IF representative >= BusyFee THEN 150 ELSE 100
<1>2. representative \in Int
  BY <1>1 DEF AtLeast
<1>3. SurgeFactor(s.usage) \in Int /\ SurgeFloor(s.usage) \in Int
  BY DEF SurgeFactor, SurgeFloor
<1>4. loaded \in Int
  <2>1. /\ representative * 100 * SurgeFactor(s.usage) + 5 * s.base \in Int
        /\ 10 * s.base \in Nat \ {0}
    BY <1>1, <1>2, <1>3
  <2> QED BY <2>1, SharedOut
<1>5. scarce \in Int
  OBVIOUS
<1>6. SurgeMultiplier(s) = AtMost(AtLeast(AtLeast(loaded, SurgeFloor(s.usage)), scarce), 1000)
  BY DEF SurgeMultiplier
<1> HIDE DEF loaded, scarce
<1>7. AtLeast(AtLeast(loaded, SurgeFloor(s.usage)), scarce) \in Int
  BY <1>3, <1>4, <1>5, AtLeastIs
<1> QED BY <1>6, <1>7 DEF AtMost

LEMMA RecommendedIsEnough ==
  ASSUME NEW s \in Stats, NEW i \in 1 .. 4
  PROVE  LET advised == RecommendedBaseFee(s, Priorities[i])
         IN  advised \in Int /\ advised >= s.base
<1> DEFINE p == Priorities[i]
<1>1. s.base \in Nat \ {0} /\ s.reference \in Nat
  BY EnvelopeAssumption
<1>2. p \in {"low", "normal", "high", "urgent"}
  BY DEF Priorities
<1> HIDE DEF p
<1>3. PriorityHundredths[p] \in Nat /\ PriorityBuffer[p] \in Nat
  BY <1>2 DEF PriorityHundredths, PriorityBuffer
<1>4. PriorityHundredths[p] \div 5 \in Int
  BY <1>3
<1>5. AtLeast(s.reference, s.base) \in Int /\ SurgeMultiplier(s) \in Int
  <2>1. AtLeast(s.reference, s.base) \in Int
    BY <1>1 DEF AtLeast
  <2> QED BY <2>1, SurgeTyped
<1>6. AtLeast(s.reference, s.base) * SurgeMultiplier(s)
        * (PriorityHundredths[p] \div 5) * (100 + PriorityBuffer[p]) \in Int
  BY <1>3, <1>4, <1>5
<1>7. BufferedFee(s, p) \in Int
  BY <1>6, CeilDivCovers DEF BufferedFee
<1>8. RecommendedBaseFee(s, p) \in Int /\ RecommendedBaseFee(s, p) >= s.base
  BY <1>1, <1>7 DEF RecommendedBaseFee, AtLeast
<1> QED BY <1>8 DEF p

\* A fee per operation of at least the minimum makes a bid that is enough.
LEMMA EnoughPerOperation ==
  ASSUME NEW perOp \in Int, NEW n \in Nat, perOp >= MinBaseFee
  PROVE  BidError(perOp * n, n) \in {"ok", "FEE_BID_TOO_HIGH"}
<1>1. MinBaseFee * n <= perOp * n /\ perOp * n \in Int /\ n * MinBaseFee = MinBaseFee * n
  BY Limits, TimesMonotone
<1> QED BY <1>1, BidEnough

LEMMA AdviseCovers ==
  ASSUME NetworkFloor, NEW s \in Stats, NEW i \in 1 .. 4, NEW n \in 1 .. MaxOperations,
         Advise(s, Priorities[i], n)
  PROVE  AdviceCoversMinimum'
<1>1. /\ RecommendedBaseFee(s, Priorities[i]) \in Int
      /\ RecommendedBaseFee(s, Priorities[i]) >= s.base
  BY RecommendedIsEnough
<1>2. s.base >= MinBaseFee /\ s.base \in Int
  BY EnvelopeAssumption DEF NetworkFloor
<1>3. BidError(RecommendedBaseFee(s, Priorities[i]) * n, n) \in {"ok", "FEE_BID_TOO_HIGH"}
  BY <1>1, <1>2, Limits, EnoughPerOperation
<1>4. advice'.total = RecommendedBaseFee(s, Priorities[i]) * n /\ advice'.ops = n
  BY DEF Advise
<1> QED BY <1>3, <1>4 DEF AdviceCoversMinimum

LEMMA EnvelopeRate ==
  ASSUME NEW paid \in Int, NEW n \in Nat \ {0}, NEW base,
         base = IF paid > 0 THEN CeilDiv(paid, n) ELSE MinBaseFee
  PROVE  /\ base \in Int
         /\ (paid > 0 /\ base * n >= paid) \/ (paid <= 0 /\ base = MinBaseFee)
<1>1. CeilDiv(paid, n) \in Int /\ CeilDiv(paid, n) * n >= paid
  BY CeilDivCovers
<1>2. CASE paid > 0
  <2>1. base = CeilDiv(paid, n)
    BY <1>2
  <2>2. base \in Int /\ base * n >= paid
    BY <1>1, <2>1, Zenon
  <2> QED BY <1>2, <2>2, Zenon
<1>3. CASE paid <= 0
  BY <1>3, Limits
<1> QED BY <1>2, <1>3

LEMMA LiveRate ==
  ASSUME NEW live \in Nat, NEW base \in Int, NEW buffer \in Nat
  PROVE  LiveFee(live, base, buffer) \in Int /\ LiveFee(live, base, buffer) >= base
<1>1. CeilDiv(live * (100 + buffer), 100) \in Int
  BY CeilDivCovers
<1> QED BY <1>1, AtLeastIs DEF LiveFee

LEMMA EstimateCovers ==
  ASSUME IInv, NEW live \in {0} \cup {s.fee : s \in Stats}, NEW buffer \in Buffers,
         AdviseFromEnvelope(live, buffer)
  PROVE  AdviceCoversMinimum'
<1> DEFINE n == Len(tx.ops)
           base == EnvelopeBaseFee(tx)
           perOp == IF live = 0 THEN base ELSE LiveFee(live, base, buffer)
<1>1. /\ tx \in Envelopes /\ tx.ops # <<>> /\ UNCHANGED tx
      /\ advice'.total = perOp * n /\ advice'.ops = n /\ advice'.by = "estimate"
  BY DEF AdviseFromEnvelope, IInv, TxInv
<1>2. n \in Nat \ {0} /\ tx.fee \in Int /\ live \in Nat /\ buffer \in Nat
  BY <1>1, BumpBase, Inputs, EnvelopeAssumption DEF Envelopes
<1>3. base = IF tx.fee > 0 THEN CeilDiv(tx.fee, n) ELSE MinBaseFee
  BY DEF EnvelopeBaseFee
<1> HIDE DEF n, base
<1>4. /\ base \in Int
      /\ (tx.fee > 0 /\ base * n >= tx.fee) \/ (tx.fee <= 0 /\ base = MinBaseFee)
  <2>1. \A f \in Int, m \in Nat \ {0} : \A b :
          b = (IF f > 0 THEN CeilDiv(f, m) ELSE MinBaseFee) =>
            b \in Int /\ ((f > 0 /\ b * m >= f) \/ (f <= 0 /\ b = MinBaseFee))
    BY EnvelopeRate
  <2> DEFINE f == tx.fee
  <2>2. f \in Int /\ base = IF f > 0 THEN CeilDiv(f, n) ELSE MinBaseFee
    BY <1>2, <1>3
  <2> HIDE DEF f
  <2>3. base \in Int /\ ((f > 0 /\ base * n >= f) \/ (f <= 0 /\ base = MinBaseFee))
    BY <1>2, <2>1, <2>2
  <2> QED BY <2>3 DEF f
<1>5. perOp \in Int /\ perOp >= base
  BY <1>2, <1>4, LiveRate
<1> HIDE DEF perOp
<1>6. ASSUME tx.fee \notin 1 .. MinBaseFee * n - 1
      PROVE  BidError(perOp * n, n) \in {"ok", "FEE_BID_TOO_HIGH"}
  <2>1. MinBaseFee * n \in Int /\ n * MinBaseFee = MinBaseFee * n /\ perOp * n \in Int /\ base * n \in Int
    BY <1>2, <1>4, <1>5, Limits
  <2>2. tx.fee <= 0 \/ tx.fee >= MinBaseFee * n
    BY <1>2, <1>6, <2>1
  <2>3. base * n <= perOp * n
    BY <1>2, <1>4, <1>5, TimesMonotone
  <2>4. base * n >= MinBaseFee * n
    BY <1>2, <1>4, <2>1, <2>2
  <2>5. perOp * n >= n * MinBaseFee
    BY <2>1, <2>3, <2>4
  <2> QED BY <1>2, <2>1, <2>5, BidEnough
<1> QED BY <1>1, <1>6 DEF AdviceCoversMinimum, n

LEMMA ApiCovers ==
  ASSUME NEW n \in Nat \ {0}, NEW asked, AdviseFromApi(n, asked)
  PROVE  AdviceCoversMinimum'
<1>1. PICK raw \in ApiAnswers(n) :
        /\ raw.total > 0 \/ raw.perOp > 0
        /\ advice' = [by |-> "api", ops |-> n, state |-> "unknown", total |-> MaxFeeBid(raw, asked),
                      counted |-> OperationCount(raw, asked)]
  BY DEF AdviseFromApi
<1>2. /\ raw.perOp \in {0, MinBaseFee, MinBaseFee + 50}
      /\ raw.total \in {0, n * MinBaseFee}
  BY DEF ApiAnswers
<1>3. ASSUME OperationCount(raw, asked) = n
      PROVE  BidError(MaxFeeBid(raw, asked), n) \in {"ok", "FEE_BID_TOO_HIGH"}
  <2>1. CASE raw.total > 0
    <3>1. MaxFeeBid(raw, asked) = n * MinBaseFee /\ n * MinBaseFee \in Int
      BY <1>2, <2>1, Limits DEF MaxFeeBid
    <3> QED BY <3>1, BidEnough
  <2>2. CASE ~(raw.total > 0)
    <3>1. MaxFeeBid(raw, asked) = raw.perOp * n
      BY <1>3, <2>2 DEF MaxFeeBid
    <3>2. raw.perOp \in Int /\ raw.perOp >= MinBaseFee
      BY <1>1, <1>2, <2>2, Limits
    <3> QED BY <3>1, <3>2, EnoughPerOperation
  <2> QED BY <2>1, <2>2
<1>4. /\ advice'.by = "api" /\ advice'.ops = n /\ advice'.total = MaxFeeBid(raw, asked)
      /\ advice'.counted = OperationCount(raw, asked)
  BY <1>1
<1> QED BY <1>3, <1>4 DEF AdviceCoversMinimum

\* AdviceCoversMinimum: on a network whose ledgers ask for at least the minimum
\* base fee, a recommendation is too low only when it was read off an envelope
\* that pays too little itself, or from an answer of the API that says nothing
\* of the number of operations (fee-optimizer.ts:232, fee-estimation.ts:293,
\* fees.ts:125).
THEOREM AdviceIsEnough == NetworkFloor => (Spec => []AdviceCoversMinimum)
<1> SUFFICES ASSUME NetworkFloor PROVE Spec => []AdviceCoversMinimum
  OBVIOUS
<1>1. Init => AdviceCoversMinimum
  BY DEF Init, AdviceCoversMinimum
<1>2. IInv /\ AdviceCoversMinimum /\ [Next]_vars => AdviceCoversMinimum'
  <2> SUFFICES ASSUME IInv, AdviceCoversMinimum, [Next]_vars PROVE AdviceCoversMinimum'
    OBVIOUS
  <2>1. CASE advice' = None
    BY <2>1 DEF AdviceCoversMinimum
  <2>2. CASE UNCHANGED vars
    BY <2>2 DEF vars, AdviceCoversMinimum
  <2>3. CASE Advice
    <3>1. ASSUME NEW n \in 1 .. MaxOperations, AdviseFromApi(n, n) PROVE AdviceCoversMinimum'
      BY <3>1, ApiCovers
    <3>2. ASSUME tx # None, tx.ops # <<>>, AdviseFromApi(Len(tx.ops), 0) PROVE AdviceCoversMinimum'
      BY <3>2, BumpBase, ApiCovers DEF IInv, TxInv
    <3> QED BY <2>3, <3>1, <3>2, AdviseCovers, EstimateCovers DEF Advice
  <2>4. CASE BuildEnvelope \/ Receive \/ Sign \/ Bump
    <3>1. advice' = None
      BY <2>4 DEF BuildEnvelope, BuildTransaction, BuildMultiOperation, BuildFromOperations, BuildPolicy,
                  BuildBudget, Receive, Sign, Bump, BumpByDefault, BumpFee
    <3> QED BY <3>1, <2>1
  <2> QED BY <2>2, <2>3, <2>4 DEF Next
<1> QED BY <1>1, <1>2, Inductive, PTL DEF Spec

-----------------------------------------------------------------------------
(* Batch. *)

-----------------------------------------------------------------------------
(* Recursive functions: one that starts in a set and stays in it exists.   *)

IsRun(f, V, base, N, next) ==
  /\ f \in [0 .. N -> V]
  /\ f[0] = base
  /\ \A k \in 1 .. N : f[k] = next[k][f[k - 1]]

LEMMA Recursion ==
  ASSUME NEW V, NEW base \in V, NEW N \in Nat, NEW next \in [1 .. N -> [V -> V]]
  PROVE  \E f : IsRun(f, V, base, N, next)
<1> DEFINE Grows(f, m) == /\ \A k \in 0 .. m : f[k] \in V
                          /\ f = [k \in 0 .. m |-> IF k = 0 THEN base ELSE next[k][f[k - 1]]]
           missing == {m \in 0 .. N : ~ \E f : Grows(f, m)}
<1>1. \E f : Grows(f, 0)
  <2> DEFINE f == [k \in 0 .. 0 |-> base]
  <2>1. f = [k \in 0 .. 0 |-> IF k = 0 THEN base ELSE next[k][f[k - 1]]]
    OBVIOUS
  <2>2. \A k \in 0 .. 0 : f[k] \in V
    OBVIOUS
  <2> QED BY <2>1, <2>2
<1>2. ASSUME NEW m \in Nat, m < N, NEW f, Grows(f, m)
      PROVE  \E g : Grows(g, m + 1)
  <2> DEFINE g == [k \in 0 .. m + 1 |-> IF k = m + 1 THEN next[k][f[m]] ELSE f[k]]
  <2>1. /\ \A k \in 0 .. m : f[k] \in V /\ f[k] = IF k = 0 THEN base ELSE next[k][f[k - 1]]
        /\ m + 1 \in 1 .. N /\ m \in 0 .. m
    BY <1>2
  <2>2. ASSUME NEW k \in 0 .. m + 1
        PROVE  g[k] \in V /\ g[k] = IF k = 0 THEN base ELSE next[k][g[k - 1]]
    <3>1. CASE k = m + 1
      <4>1. k - 1 = m /\ m \in 0 .. m + 1 /\ m # m + 1 /\ k # 0
        BY <3>1
      <4>2. g[k] = next[k][f[m]] /\ g[k - 1] = f[m]
        BY <3>1, <4>1
      <4>3. f[m] \in V /\ k \in 1 .. N
        BY <2>1, <3>1
      <4> HIDE DEF g
      <4>4. next[k] \in [V -> V]
        BY <4>3
      <4> QED BY <4>1, <4>2, <4>3, <4>4
    <3>2. CASE k = 0
      <4>1. k # m + 1 /\ k \in 0 .. m
        BY <3>2
      <4> QED BY <2>1, <3>2, <4>1
    <3>3. CASE k \in 1 .. m
      <4>1. k # m + 1 /\ k - 1 # m + 1 /\ k \in 0 .. m /\ k - 1 \in 0 .. m + 1 /\ k # 0
        BY <3>3
      <4> QED BY <2>1, <4>1
    <3> QED BY <3>1, <3>2, <3>3
  <2>3. g = [k \in 0 .. m + 1 |-> g[k]]
    OBVIOUS
  <2> HIDE DEF g
  <2>4. g = [k \in 0 .. m + 1 |-> IF k = 0 THEN base ELSE next[k][g[k - 1]]]
    BY <2>2, <2>3
  <2> QED BY <2>2, <2>4
<1>3. missing = {}
  <2> SUFFICES ASSUME missing # {} PROVE FALSE
    OBVIOUS
  <2> HIDE DEF Grows
  <2>1. PICK m \in missing : \A j \in missing : m <= j
    <3>1. missing \in SUBSET Nat
      OBVIOUS
    <3> HIDE DEF missing
    <3> QED BY <3>1, LeastExists
  <2>2. m # 0
    BY <1>1, <2>1
  <2>3. m - 1 \in Nat /\ m - 1 < N /\ m - 1 \in 0 .. N /\ m - 1 \notin missing /\ m = (m - 1) + 1
    BY <2>1, <2>2
  <2>4. PICK f : Grows(f, m - 1)
    BY <2>3
  <2>5. \E g : Grows(g, (m - 1) + 1)
    BY <1>2, <2>3, <2>4
  <2> QED BY <2>1, <2>3, <2>5
<1>4. PICK f : Grows(f, N)
  <2> HIDE DEF Grows
  <2> QED BY <1>3
<1>5. \A k \in 0 .. N : f[k] = IF k = 0 THEN base ELSE next[k][f[k - 1]]
  BY <1>4
<1>6. f \in [0 .. N -> V]
  BY <1>4
<1>7. f[0] = base
  <2>1. 0 \in 0 .. N
    OBVIOUS
  <2> QED BY <1>5, <2>1
<1>8. ASSUME NEW k \in 1 .. N PROVE f[k] = next[k][f[k - 1]]
  <2>1. k \in 0 .. N /\ k # 0
    OBVIOUS
  <2> QED BY <1>5, <2>1
<1> QED BY <1>6, <1>7, <1>8 DEF IsRun

-----------------------------------------------------------------------------
(* Positions of a list.                                                    *)

LEMMA LastOfIs ==
  ASSUME NEW n \in Nat, NEW S \in SUBSET (1 .. n), S # {}
  PROVE  LastOf(S) \in S /\ \A j \in S : j <= LastOf(S)
<1> DEFINE after == {n - j : j \in S}
<1>1. after \in SUBSET Nat /\ after # {}
  <2>1. \A j \in 1 .. n : n - j \in Nat
    OBVIOUS
  <2>2. \A j \in S : n - j \in Nat
    BY <2>1
  <2>3. after \in SUBSET Nat
    BY <2>2
  <2> QED BY <2>3
<1>2. PICK a \in after : \A b \in after : a <= b
  <2> HIDE DEF after
  <2> QED BY <1>1, LeastExists
<1>3. PICK i \in S : a = n - i
  BY <1>2
<1>4. \A j \in S : j <= i
  <2> TAKE j \in S
  <2>1. n - j \in after
    OBVIOUS
  <2>2. n - i <= n - j
    BY <1>2, <1>3, <2>1
  <2> QED BY <2>2
<1>5. \E k \in S : \A j \in S : j <= k
  BY <1>4
<1> QED BY <1>5 DEF LastOf

-----------------------------------------------------------------------------
(* Sequences and what is in them.                                          *)

LEMMA SequenceIs ==
  ASSUME NEW T, NEW s \in Seq(T)
  PROVE  /\ Len(s) \in Nat /\ DOMAIN s = 1 .. Len(s)
         /\ Range(s) \subseteq T
         /\ \A x : x \in Range(s) <=> \E i \in 1 .. Len(s) : s[i] = x
         /\ IsInjective(s) <=> \A i, j \in 1 .. Len(s) : s[i] = s[j] => i = j
<1>1. Len(s) \in Nat /\ DOMAIN s = 1 .. Len(s) /\ \A i \in 1 .. Len(s) : s[i] \in T
  OBVIOUS
<1> QED BY <1>1 DEF Range, IsInjective

LEMMA AppendIs ==
  ASSUME NEW T, NEW s \in Seq(T), NEW x \in T
  PROVE  /\ Append(s, x) \in Seq(T) /\ Len(Append(s, x)) = Len(s) + 1
         /\ Range(Append(s, x)) = Range(s) \cup {x}
         /\ IsInjective(s) /\ x \notin Range(s) => IsInjective(Append(s, x))
<1> DEFINE t == Append(s, x)
           n == Len(s)
<1>1. /\ t \in Seq(T) /\ Len(t) = n + 1 /\ n \in Nat
      /\ \A i \in 1 .. n : t[i] = s[i]
      /\ t[n + 1] = x
      /\ \A i \in 1 .. n + 1 : i \in 1 .. n \/ i = n + 1
      /\ \A i \in 1 .. n : i \in 1 .. n + 1
      /\ n + 1 \in 1 .. n + 1
  OBVIOUS
<1> HIDE DEF t, n
<1>2. /\ \A y : y \in Range(s) <=> \E i \in 1 .. n : s[i] = y
      /\ IsInjective(s) <=> \A i, j \in 1 .. n : s[i] = s[j] => i = j
  BY SequenceIs DEF n
<1>3. /\ \A y : y \in Range(t) <=> \E i \in 1 .. n + 1 : t[i] = y
      /\ IsInjective(t) <=> \A i, j \in 1 .. n + 1 : t[i] = t[j] => i = j
  BY <1>1, SequenceIs
<1>4. \A y : y \in Range(t) <=> y \in Range(s) \/ y = x
  BY <1>1, <1>2, <1>3
<1>5. Range(t) = Range(s) \cup {x}
  BY <1>4
<1>6. ASSUME IsInjective(s), x \notin Range(s) PROVE IsInjective(t)
  <2>1. ASSUME NEW i \in 1 .. n + 1, NEW j \in 1 .. n + 1, t[i] = t[j] PROVE i = j
    <3>1. CASE i \in 1 .. n /\ j \in 1 .. n
      BY <1>1, <1>2, <1>6, <2>1, <3>1
    <3>2. CASE i = n + 1 /\ j \in 1 .. n
      BY <1>1, <1>2, <1>6, <2>1, <3>2
    <3>3. CASE j = n + 1 /\ i \in 1 .. n
      BY <1>1, <1>2, <1>6, <2>1, <3>3
    <3>4. CASE i = n + 1 /\ j = n + 1
      BY <3>4
    <3> QED BY <1>1, <3>1, <3>2, <3>3, <3>4
  <2> QED BY <1>3, <2>1
<1> QED BY <1>1, <1>5, <1>6 DEF t, n

LEMMA ConcatIs ==
  ASSUME NEW T, NEW s \in Seq(T), NEW t \in Seq(T)
  PROVE  /\ s \o t \in Seq(T) /\ Len(s \o t) = Len(s) + Len(t)
         /\ Range(s \o t) = Range(s) \cup Range(t)
         /\ IsInjective(s) /\ IsInjective(t) /\ Range(s) \cap Range(t) = {} => IsInjective(s \o t)
<1> DEFINE u == s \o t
           n == Len(s)
           m == Len(t)
<1>1. u \in Seq(T) /\ Len(u) = n + m /\ n \in Nat /\ m \in Nat
  OBVIOUS
<1>2. \A i \in 1 .. n + m : u[i] = IF i <= n THEN s[i] ELSE t[i - n]
  BY ConcatProperties
<1> HIDE DEF u, n, m
<1>3. /\ \A i \in 1 .. n : i \in 1 .. n + m /\ u[i] = s[i]
      /\ \A i \in 1 .. m : i + n \in 1 .. n + m /\ ~(i + n <= n) /\ (i + n) - n = i
      /\ \A i \in 1 .. n + m : i \in 1 .. n \/ (i - n \in 1 .. m /\ i = (i - n) + n)
  BY <1>1, <1>2
<1>4. \A i \in 1 .. m : u[i + n] = t[i]
  BY <1>1, <1>2, <1>3
<1>5. /\ \A y : y \in Range(s) <=> \E i \in 1 .. n : s[i] = y
      /\ IsInjective(s) <=> \A i, j \in 1 .. n : s[i] = s[j] => i = j
  BY SequenceIs DEF n
<1>6. /\ \A y : y \in Range(t) <=> \E i \in 1 .. m : t[i] = y
      /\ IsInjective(t) <=> \A i, j \in 1 .. m : t[i] = t[j] => i = j
  BY SequenceIs DEF m
<1>7. /\ \A y : y \in Range(u) <=> \E i \in 1 .. n + m : u[i] = y
      /\ IsInjective(u) <=> \A i, j \in 1 .. n + m : u[i] = u[j] => i = j
  BY <1>1, SequenceIs
<1>8. ASSUME NEW i \in 1 .. n + m
      PROVE  \/ i \in 1 .. n /\ u[i] = s[i]
             \/ i - n \in 1 .. m /\ i = (i - n) + n /\ u[i] = t[i - n]
  BY <1>3, <1>4
<1>9. Range(u) = Range(s) \cup Range(t)
  <2>1. ASSUME NEW y \in Range(u) PROVE y \in Range(s) \cup Range(t)
    BY <1>5, <1>6, <1>7, <1>8
  <2>2. ASSUME NEW y \in Range(s) PROVE y \in Range(u)
    BY <1>3, <1>5, <1>7
  <2>3. ASSUME NEW y \in Range(t) PROVE y \in Range(u)
    BY <1>3, <1>4, <1>6, <1>7
  <2> QED BY <2>1, <2>2, <2>3
<1>10. ASSUME IsInjective(s), IsInjective(t), Range(s) \cap Range(t) = {} PROVE IsInjective(u)
  <2>1. ASSUME NEW i \in 1 .. n + m, NEW j \in 1 .. n + m, u[i] = u[j] PROVE i = j
    <3>1. CASE i \in 1 .. n /\ j \in 1 .. n
      BY <1>3, <1>5, <1>10, <2>1, <3>1
    <3>2. CASE i \notin 1 .. n /\ j \notin 1 .. n
      <4>1. i - n \in 1 .. m /\ j - n \in 1 .. m /\ t[i - n] = t[j - n]
        BY <1>8, <2>1, <3>2
      <4>2. i - n = j - n
        BY <1>6, <1>10, <4>1
      <4> QED BY <1>1, <4>2
    <3>3. CASE i \in 1 .. n /\ j \notin 1 .. n
      <4>1. u[i] \in Range(s)
        BY <1>3, <1>5, <3>3
      <4>2. u[j] \in Range(t)
        BY <1>6, <1>8, <3>3
      <4> QED BY <1>10, <2>1, <4>1, <4>2
    <3>4. CASE j \in 1 .. n /\ i \notin 1 .. n
      <4>1. u[j] \in Range(s)
        BY <1>3, <1>5, <3>4
      <4>2. u[i] \in Range(t)
        BY <1>6, <1>8, <3>4
      <4> QED BY <1>10, <2>1, <4>1, <4>2
    <3> QED BY <3>1, <3>2, <3>3, <3>4
  <2> QED BY <1>7, <2>1
<1> QED BY <1>1, <1>9, <1>10 DEF u, n, m

LEMMA HeadTailIs ==
  ASSUME NEW T, NEW s \in Seq(T), s # <<>>
  PROVE  /\ Head(s) \in T /\ Tail(s) \in Seq(T)
         /\ Range(s) = {Head(s)} \cup Range(Tail(s))
         /\ IsInjective(s) => IsInjective(Tail(s)) /\ Head(s) \notin Range(Tail(s))
<1> DEFINE t == Tail(s)
           m == Len(t)
<1>1. /\ Head(s) \in T /\ t \in Seq(T) /\ Len(s) = m + 1 /\ m \in Nat
      /\ Head(s) = s[1]
  OBVIOUS
<1>2. \A i \in 1 .. m : t[i] = s[i + 1]
  BY HeadTailProperties
<1> HIDE DEF t, m
<1>3. /\ \A i \in 1 .. m : i + 1 \in 1 .. m + 1 /\ i + 1 # 1
      /\ \A i \in 1 .. m + 1 : i = 1 \/ (i - 1 \in 1 .. m /\ i = (i - 1) + 1)
      /\ 1 \in 1 .. m + 1
  BY <1>1
<1>4. /\ \A y : y \in Range(s) <=> \E i \in 1 .. m + 1 : s[i] = y
      /\ IsInjective(s) <=> \A i, j \in 1 .. m + 1 : s[i] = s[j] => i = j
  BY <1>1, SequenceIs
<1>5. /\ \A y : y \in Range(t) <=> \E i \in 1 .. m : t[i] = y
      /\ IsInjective(t) <=> \A i, j \in 1 .. m : t[i] = t[j] => i = j
  BY <1>1, SequenceIs DEF m
<1>6. Range(s) = {Head(s)} \cup Range(t)
  <2>1. ASSUME NEW y \in Range(s) PROVE y \in {Head(s)} \cup Range(t)
    <3>1. PICK i \in 1 .. m + 1 : s[i] = y
      BY <1>4
    <3>2. CASE i = 1
      BY <1>1, <3>1, <3>2
    <3>3. CASE i - 1 \in 1 .. m /\ i = (i - 1) + 1
      <4>1. t[i - 1] = y
        BY <1>2, <3>1, <3>3
      <4> QED BY <1>5, <3>3, <4>1
    <3> QED BY <1>3, <3>2, <3>3
  <2>2. Head(s) \in Range(s)
    BY <1>1, <1>3, <1>4
  <2>3. ASSUME NEW y \in Range(t) PROVE y \in Range(s)
    BY <1>2, <1>3, <1>4, <1>5
  <2> QED BY <2>1, <2>2, <2>3
<1>7. ASSUME IsInjective(s) PROVE IsInjective(t) /\ Head(s) \notin Range(t)
  <2>1. ASSUME NEW i \in 1 .. m, NEW j \in 1 .. m, t[i] = t[j] PROVE i = j
    <3>1. s[i + 1] = s[j + 1] /\ i + 1 \in 1 .. m + 1 /\ j + 1 \in 1 .. m + 1
      BY <1>2, <1>3, <2>1
    <3>2. i + 1 = j + 1
      BY <1>4, <1>7, <3>1
    <3> QED BY <3>2
  <2>2. ASSUME NEW i \in 1 .. m PROVE t[i] # s[1]
    <3>1. i + 1 \in 1 .. m + 1 /\ i + 1 # 1 /\ t[i] = s[i + 1]
      BY <1>2, <1>3
    <3> QED BY <1>3, <1>4, <1>7, <3>1
  <2> QED BY <1>1, <1>5, <2>1, <2>2
<1> QED BY <1>1, <1>6, <1>7 DEF t

\* Ascending() lists a set of positions, each once.
LEMMA AscendingSteps ==
  ASSUME NEW n \in Nat, NEW S
  PROVE  \E f : /\ Ascending(n, S) = f[n]
                /\ f[0] = <<>>
                /\ \A i \in 1 .. n : f[i] = IF i \in S THEN Append(f[i - 1], i) ELSE f[i - 1]
<1> DEFINE upTo == CHOOSE f : f = [i \in 0 .. n |->
             IF i = 0 THEN <<>> ELSE IF i \in S THEN Append(f[i - 1], i) ELSE f[i - 1]]
           next == [i \in 1 .. n |-> [s \in Seq(1 .. n) |-> IF i \in S THEN Append(s, i) ELSE s]]
           V == Seq(1 .. n)
           empty == <<>>
<1>1. next \in [1 .. n -> [V -> V]]
  <2>1. ASSUME NEW i \in 1 .. n, NEW s \in Seq(1 .. n)
        PROVE  (IF i \in S THEN Append(s, i) ELSE s) \in Seq(1 .. n)
    BY AppendIs
  <2> QED BY <2>1
<1>2. empty \in V
  OBVIOUS
<1>3. ASSUME NEW i \in 1 .. n, NEW s \in V
      PROVE  next[i][s] = IF i \in S THEN Append(s, i) ELSE s
  OBVIOUS
<1> HIDE DEF next, V
<1>4. PICK f \in [0 .. n -> V] : f[0] = empty /\ \A i \in 1 .. n : f[i] = next[i][f[i - 1]]
  <2> HIDE DEF empty
  <2>1. PICK f : IsRun(f, V, empty, n, next)
    BY <1>1, <1>2, Recursion
  <2> QED BY <2>1 DEF IsRun
<1>5. ASSUME NEW i \in 0 .. n
      PROVE  f[i] = IF i = 0 THEN <<>> ELSE IF i \in S THEN Append(f[i - 1], i) ELSE f[i - 1]
  <2>1. CASE i = 0
    BY <1>4, <2>1
  <2>2. CASE i # 0
    <3>1. i \in 1 .. n /\ i - 1 \in 0 .. n
      BY <2>2
    <3>2. f[i - 1] \in V
      BY <3>1
    <3> QED BY <1>3, <1>4, <2>2, <3>1, <3>2
  <2> QED BY <2>1, <2>2
<1>6. f = [i \in 0 .. n |-> IF i = 0 THEN <<>> ELSE IF i \in S THEN Append(f[i - 1], i) ELSE f[i - 1]]
  <2>1. f = [i \in 0 .. n |-> f[i]]
    OBVIOUS
  <2> QED BY <1>5, <2>1
<1>7. upTo = [i \in 0 .. n |->
                IF i = 0 THEN <<>> ELSE IF i \in S THEN Append(upTo[i - 1], i) ELSE upTo[i - 1]]
  BY <1>6
<1>8. Ascending(n, S) = upTo[n]
  BY DEF Ascending
<1> HIDE DEF upTo
<1>9. \A i \in 0 .. n :
        upTo[i] = IF i = 0 THEN <<>> ELSE IF i \in S THEN Append(upTo[i - 1], i) ELSE upTo[i - 1]
  BY <1>7
<1>10. upTo[0] = <<>>
  <2>1. 0 \in 0 .. n
    OBVIOUS
  <2> QED BY <1>9, <2>1
<1>11. ASSUME NEW i \in 1 .. n
       PROVE  upTo[i] = IF i \in S THEN Append(upTo[i - 1], i) ELSE upTo[i - 1]
  <2>1. i \in 0 .. n /\ i # 0
    OBVIOUS
  <2> QED BY <1>9, <2>1
<1> QED BY <1>8, <1>10, <1>11

LEMMA AscendingIs ==
  ASSUME NEW n \in Nat, NEW S \in SUBSET (1 .. n)
  PROVE  /\ Ascending(n, S) \in Seq(1 .. n)
         /\ Range(Ascending(n, S)) = S
         /\ IsInjective(Ascending(n, S))
<1>1. PICK f : /\ Ascending(n, S) = f[n]
               /\ f[0] = <<>>
               /\ \A i \in 1 .. n : f[i] = IF i \in S THEN Append(f[i - 1], i) ELSE f[i - 1]
  BY AscendingSteps
<1> DEFINE Lists(i) == /\ f[i] \in Seq(1 .. n)
                       /\ Range(f[i]) = S \cap (1 .. i)
                       /\ IsInjective(f[i])
           odd == {i \in 0 .. n : ~Lists(i)}
<1>2. Lists(0)
  <2>1. <<>> \in Seq(1 .. n) /\ Range(<<>>) = {} /\ IsInjective(<<>>) /\ S \cap (1 .. 0) = {}
    BY DEF Range, IsInjective
  <2> QED BY <1>1, <2>1
<1>3. ASSUME NEW i \in 1 .. n, Lists(i - 1) PROVE Lists(i)
  <2>1. f[i] = IF i \in S THEN Append(f[i - 1], i) ELSE f[i - 1]
    BY <1>1
  <2>2. i \notin 1 .. (i - 1) /\ 1 .. i = (1 .. (i - 1)) \cup {i}
    OBVIOUS
  <2> DEFINE s == f[i - 1]
  <2>3. s \in Seq(1 .. n) /\ Range(s) = S \cap (1 .. (i - 1)) /\ IsInjective(s)
    BY <1>3
  <2>4. f[i] = IF i \in S THEN Append(s, i) ELSE s
    BY <2>1
  <2> HIDE DEF s
  <2>5. CASE i \in S
    <3>1. i \notin Range(s)
      BY <2>2, <2>3
    <3>2. /\ Append(s, i) \in Seq(1 .. n)
          /\ Range(Append(s, i)) = Range(s) \cup {i}
          /\ IsInjective(Append(s, i))
      BY <2>3, <3>1, AppendIs
    <3>3. Range(s) \cup {i} = S \cap (1 .. i)
      BY <2>2, <2>3, <2>5
    <3> QED BY <2>4, <2>5, <3>2, <3>3
  <2>6. CASE i \notin S
    BY <2>2, <2>3, <2>4, <2>6
  <2> QED BY <2>5, <2>6
<1> HIDE DEF Lists
<1>4. odd = {}
  <2> SUFFICES ASSUME odd # {} PROVE FALSE
    OBVIOUS
  <2>1. PICK i \in odd : \A j \in odd : i <= j
    <3>1. odd \in SUBSET Nat
      OBVIOUS
    <3> HIDE DEF odd
    <3> QED BY <3>1, LeastExists
  <2>2. i # 0
    BY <1>2, <2>1
  <2>3. i \in 1 .. n /\ i - 1 \in 0 .. n /\ i - 1 \notin odd
    BY <2>1, <2>2
  <2> QED BY <1>3, <2>1, <2>3
<1>5. Lists(n)
  <2>1. n \in 0 .. n
    OBVIOUS
  <2> QED BY <1>4, <2>1
<1>6. S \cap (1 .. n) = S
  OBVIOUS
<1> QED BY <1>1, <1>5, <1>6 DEF Lists
-----------------------------------------------------------------------------
(* Kahn's algorithm.                                                       *)

EdgesOf(n) == {e \in (1 .. n) \X (1 .. n) : e[1] # e[2]}
States(n) == [order : Seq(1 .. n), queue : Seq(1 .. n)]

\* No obstacle of v is missing in an order.
Free(edges, order, v) == \A e \in edges : e[2] = v => e[1] \in Range(order)

\* Every edge into an order comes from further in front.
InFront(edges, order) ==
  \A j \in 1 .. Len(order) : \A e \in edges :
    e[2] = order[j] => \E i \in 1 .. j - 1 : order[i] = e[1]

\* After k steps: k positions are in order unless the queue ran dry, and what
\* is in order or queued, each once, is what has no obstacle left.
KahnInv(n, edges, k, s) ==
  /\ s \in States(n)
  /\ Len(s.order) <= k /\ (s.queue # <<>> => Len(s.order) = k)
  /\ IsInjective(s.order) /\ IsInjective(s.queue)
  /\ Range(s.order) \cap Range(s.queue) = {}
  /\ \A v \in 1 .. n : Free(edges, s.order, v) <=> v \in Range(s.order) \cup Range(s.queue)
  /\ InFront(edges, s.order)

LEMMA BegunKahnInv ==
  ASSUME NEW n \in Nat, NEW edges \in SUBSET EdgesOf(n)
  PROVE  KahnInv(n, edges, 0, Begun(n, edges))
<1> DEFINE first == {i \in 1 .. n : \A e \in edges : e[2] # i}
           s == Begun(n, edges)
<1>1. s = [order |-> <<>>, queue |-> Ascending(n, first)]
  BY DEF Begun
<1>2. /\ Ascending(n, first) \in Seq(1 .. n) /\ Range(Ascending(n, first)) = first
      /\ IsInjective(Ascending(n, first))
  <2>1. first \in SUBSET (1 .. n)
    OBVIOUS
  <2> HIDE DEF first
  <2> QED BY <2>1, AscendingIs
<1>3. s.order = <<>> /\ s.queue = Ascending(n, first)
  BY <1>1
<1>4. <<>> \in Seq(1 .. n) /\ Len(<<>>) = 0 /\ Range(<<>>) = {} /\ IsInjective(<<>>)
  BY DEF Range, IsInjective
<1>5. s \in States(n)
  BY <1>1, <1>2, <1>4 DEF States
<1>6. \A v \in 1 .. n : Free(edges, <<>>, v) <=> v \in first
  BY <1>4 DEF Free
<1>7. InFront(edges, <<>>)
  BY <1>4 DEF InFront
<1> HIDE DEF s, first
<1> QED BY <1>2, <1>3, <1>4, <1>5, <1>6, <1>7 DEF KahnInv, s

LEMMA FreedIs ==
  ASSUME NEW n \in Nat, NEW edges \in SUBSET EdgesOf(n), NEW order, NEW u
  PROVE  /\ Freed(edges, order, u) \in SUBSET (1 .. n)
         /\ \A v : v \in Freed(edges, order, u) <=>
                     (\E e \in edges : e[1] = u /\ e[2] = v) /\ Free(edges, order, v)
<1>1. \A e \in edges : e[2] \in 1 .. n
  BY DEF EdgesOf
<1> QED BY <1>1 DEF Freed, Free

LEMMA AdvancedKahnInv ==
  ASSUME NEW n \in Nat, NEW edges \in SUBSET EdgesOf(n), NEW k \in Nat, NEW s, KahnInv(n, edges, k, s)
  PROVE  KahnInv(n, edges, k + 1, Advanced(n, edges, s))
<1>1. s \in States(n) /\ s.order \in Seq(1 .. n) /\ s.queue \in Seq(1 .. n) /\ Len(s.order) \in Nat
  BY DEF KahnInv, States
<1>2. CASE s.queue = <<>>
  <2>1. Advanced(n, edges, s) = s
    BY <1>2 DEF Advanced
  <2>2. Len(s.order) <= k + 1
    BY <1>1 DEF KahnInv
  <2> QED BY <1>2, <2>1, <2>2 DEF KahnInv
<1>3. CASE s.queue # <<>>
  <2> DEFINE u == Head(s.queue)
             rest == Tail(s.queue)
             order == Append(s.order, u)
             freed == Freed(edges, order, u)
             t == Advanced(n, edges, s)
  <2>1. /\ u \in 1 .. n /\ rest \in Seq(1 .. n)
        /\ Range(s.queue) = {u} \cup Range(rest)
        /\ IsInjective(rest) /\ u \notin Range(rest)
    BY <1>1, <1>3, HeadTailIs DEF KahnInv
  <2>2. u \notin Range(s.order)
    BY <2>1 DEF KahnInv
  <2>3. /\ order \in Seq(1 .. n) /\ Len(order) = Len(s.order) + 1
        /\ Range(order) = Range(s.order) \cup {u} /\ IsInjective(order)
    <3> HIDE DEF u
    <3> QED BY <1>1, <2>1, <2>2, AppendIs DEF KahnInv
  <2>4. t = [order |-> order, queue |-> rest \o Ascending(n, freed)]
    BY <1>3 DEF Advanced
  <2>5. /\ freed \in SUBSET (1 .. n)
        /\ \A v : v \in freed <=> (\E e \in edges : e[1] = u /\ e[2] = v) /\ Free(edges, order, v)
    <3> HIDE DEF u, order
    <3> QED BY FreedIs
  <2>6. /\ \A j \in 1 .. Len(s.order) : order[j] = s.order[j]
        /\ order[Len(s.order) + 1] = u
    BY <1>1
  <2> HIDE DEF u, rest, order, freed, t
  <2>7. /\ Ascending(n, freed) \in Seq(1 .. n) /\ Range(Ascending(n, freed)) = freed
        /\ IsInjective(Ascending(n, freed))
    BY <2>5, AscendingIs
  \* What is freed was neither in order nor queued: u was missing.
  <2>8. ASSUME NEW v \in freed PROVE v \notin Range(s.order) /\ v \notin Range(s.queue)
    <3>1. PICK e \in edges : e[1] = u /\ e[2] = v
      BY <2>5
    <3>2. ~Free(edges, s.order, v)
      BY <2>2, <3>1 DEF Free
    <3>3. v \in 1 .. n
      BY <2>5
    <3> QED BY <3>2, <3>3 DEF KahnInv
  <2>9. freed \cap Range(order) = {} /\ freed \cap Range(rest) = {}
    BY <2>1, <2>3, <2>8
  <2>10. /\ t.order = order /\ t.queue \in Seq(1 .. n)
         /\ Range(t.queue) = Range(rest) \cup freed /\ IsInjective(t.queue)
    <3>1. t.order = order /\ t.queue = rest \o Ascending(n, freed)
      BY <2>4
    <3> QED BY <2>1, <2>7, <2>9, <3>1, ConcatIs
  <2>11. t \in States(n)
    BY <2>3, <2>4, <2>10 DEF States
  <2>12. Len(t.order) = k + 1
    BY <1>1, <1>3, <2>3, <2>10 DEF KahnInv
  <2>13. Range(t.order) \cap Range(t.queue) = {}
    BY <2>1, <2>3, <2>9, <2>10 DEF KahnInv
  <2>14. ASSUME NEW v \in 1 .. n
         PROVE  Free(edges, t.order, v) <=> v \in Range(t.order) \cup Range(t.queue)
    <3>1. ASSUME Free(edges, order, v) PROVE v \in Range(order) \cup Range(rest) \cup freed
      <4>1. CASE \E e \in edges : e[1] = u /\ e[2] = v
        BY <2>5, <3>1, <4>1
      <4>2. CASE ~ \E e \in edges : e[1] = u /\ e[2] = v
        <5>1. Free(edges, s.order, v)
          BY <2>3, <3>1, <4>2 DEF Free
        <5> QED BY <2>1, <2>3, <5>1 DEF KahnInv
      <4> QED BY <4>1, <4>2
    <3>2. ASSUME v \in Range(order) \cup Range(rest) PROVE Free(edges, order, v)
      <4>1. v \in Range(s.order) \cup Range(s.queue)
        BY <2>1, <2>3, <3>2
      <4>2. Free(edges, s.order, v)
        BY <4>1 DEF KahnInv
      <4> QED BY <2>3, <4>2 DEF Free
    <3>3. ASSUME v \in freed PROVE Free(edges, order, v)
      BY <2>5, <3>3
    <3> QED BY <2>10, <3>1, <3>2, <3>3
  <2>15. InFront(edges, order)
    <3> SUFFICES ASSUME NEW j \in 1 .. Len(order), NEW e \in edges, e[2] = order[j]
                 PROVE  \E i \in 1 .. j - 1 : order[i] = e[1]
      BY DEF InFront
    <3>1. CASE j \in 1 .. Len(s.order)
      <4>1. PICK i \in 1 .. j - 1 : s.order[i] = e[1]
        BY <2>6, <3>1 DEF KahnInv, InFront
      <4>2. i \in 1 .. Len(s.order)
        BY <1>1, <3>1
      <4> QED BY <2>6, <4>1, <4>2
    <3>2. CASE j = Len(s.order) + 1
      <4>1. e[2] = u /\ u \in 1 .. n /\ u \in Range(s.queue)
        BY <2>1, <2>6, <3>2
      <4>2. Free(edges, s.order, u)
        BY <4>1 DEF KahnInv
      <4>3. e[1] \in Range(s.order)
        BY <4>1, <4>2 DEF Free
      <4>4. PICK i \in 1 .. Len(s.order) : s.order[i] = e[1]
        <5> DEFINE o == s.order
        <5>1. o \in Seq(1 .. n)
          BY <1>1
        <5>2. \A x : x \in Range(o) <=> \E i \in 1 .. Len(o) : o[i] = x
          <6> HIDE DEF o
          <6> QED BY <5>1, SequenceIs
        <5> QED BY <4>3, <5>2
      <4>5. i \in 1 .. j - 1
        BY <1>1, <3>2
      <4> QED BY <2>6, <4>4, <4>5
    <3>3. j \in 1 .. Len(s.order) \/ j = Len(s.order) + 1
      BY <1>1, <2>3
    <3> QED BY <3>1, <3>2, <3>3
  <2>16. InFront(edges, t.order) /\ IsInjective(t.order)
    BY <2>3, <2>10, <2>15
  <2>17. Len(t.order) <= k + 1
    BY <2>12
  <2> QED BY <2>10, <2>11, <2>12, <2>13, <2>14, <2>16, <2>17 DEF KahnInv, t
<1> QED BY <1>2, <1>3
LEMMA AdvancedIsState ==
  ASSUME NEW n \in Nat, NEW edges \in SUBSET EdgesOf(n), NEW s \in States(n)
  PROVE  Advanced(n, edges, s) \in States(n)
<1>1. s.order \in Seq(1 .. n) /\ s.queue \in Seq(1 .. n)
  BY DEF States
<1>2. CASE s.queue = <<>>
  BY <1>2 DEF Advanced
<1>3. CASE s.queue # <<>>
  <2> DEFINE u == Head(s.queue)
             order == Append(s.order, u)
             freed == Freed(edges, order, u)
             queue == Tail(s.queue) \o Ascending(n, freed)
  <2>1. u \in 1 .. n /\ Tail(s.queue) \in Seq(1 .. n)
    BY <1>1, <1>3, HeadTailIs
  <2>2. order \in Seq(1 .. n)
    <3> HIDE DEF u
    <3> QED BY <1>1, <2>1, AppendIs
  <2>3. freed \in SUBSET (1 .. n)
    <3> HIDE DEF u, order
    <3> QED BY FreedIs
  <2>4. Ascending(n, freed) \in Seq(1 .. n)
    <3> HIDE DEF freed
    <3> QED BY <2>3, AscendingIs
  <2>5. queue \in Seq(1 .. n)
    <3> HIDE DEF freed
    <3> QED BY <2>1, <2>4, ConcatIs
  <2>6. Advanced(n, edges, s) = [order |-> order, queue |-> queue]
    BY <1>3 DEF Advanced
  <2> HIDE DEF order, queue
  <2> QED BY <2>2, <2>5, <2>6 DEF States
<1> QED BY <1>2, <1>3

LEMMA KahnSteps ==
  ASSUME NEW n \in Nat, NEW edges \in SUBSET EdgesOf(n)
  PROVE  \E f : /\ Kahn(n, edges) = f[n].order
                /\ f[0] = Begun(n, edges)
                /\ \A k \in 1 .. n : f[k] = Advanced(n, edges, f[k - 1])
<1> DEFINE step == CHOOSE f : f = [k \in 0 .. n |->
             IF k = 0 THEN Begun(n, edges) ELSE Advanced(n, edges, f[k - 1])]
           V == States(n)
           next == [k \in 1 .. n |-> [s \in V |-> Advanced(n, edges, s)]]
           begun == Begun(n, edges)
<1>1. next \in [1 .. n -> [V -> V]]
  BY AdvancedIsState
<1>2. begun \in V
  <2>1. KahnInv(n, edges, 0, begun)
    BY BegunKahnInv
  <2> QED BY <2>1 DEF KahnInv
<1>3. ASSUME NEW k \in 1 .. n, NEW s \in V PROVE next[k][s] = Advanced(n, edges, s)
  OBVIOUS
<1> HIDE DEF next, V
<1>4. PICK f \in [0 .. n -> V] : f[0] = begun /\ \A k \in 1 .. n : f[k] = next[k][f[k - 1]]
  <2> HIDE DEF begun
  <2>1. PICK f : IsRun(f, V, begun, n, next)
    BY <1>1, <1>2, Recursion
  <2> QED BY <2>1 DEF IsRun
<1>5. ASSUME NEW k \in 0 .. n
      PROVE  f[k] = IF k = 0 THEN Begun(n, edges) ELSE Advanced(n, edges, f[k - 1])
  <2>1. CASE k = 0
    BY <1>4, <2>1
  <2>2. CASE k # 0
    <3>1. k \in 1 .. n /\ k - 1 \in 0 .. n
      BY <2>2
    <3>2. f[k - 1] \in V
      BY <3>1
    <3> QED BY <1>3, <1>4, <2>2, <3>1, <3>2
  <2> QED BY <2>1, <2>2
<1>6. f = [k \in 0 .. n |-> IF k = 0 THEN Begun(n, edges) ELSE Advanced(n, edges, f[k - 1])]
  <2>1. f = [k \in 0 .. n |-> f[k]]
    OBVIOUS
  <2> QED BY <1>5, <2>1
<1>7. step = [k \in 0 .. n |-> IF k = 0 THEN Begun(n, edges) ELSE Advanced(n, edges, step[k - 1])]
  BY <1>6
<1>8. Kahn(n, edges) = step[n].order
  BY DEF Kahn
<1> HIDE DEF step
<1>9. \A k \in 0 .. n : step[k] = IF k = 0 THEN Begun(n, edges) ELSE Advanced(n, edges, step[k - 1])
  BY <1>7
<1>10. step[0] = Begun(n, edges)
  <2>1. 0 \in 0 .. n
    OBVIOUS
  <2> QED BY <1>9, <2>1
<1>11. ASSUME NEW k \in 1 .. n PROVE step[k] = Advanced(n, edges, step[k - 1])
  <2>1. k \in 0 .. n /\ k # 0
    OBVIOUS
  <2> QED BY <1>9, <2>1
<1> QED BY <1>8, <1>10, <1>11

\* The order found: each position at most once, every edge forward, and
\* nothing left out that has all its obstacles in order.
LEMMA KahnOrder ==
  ASSUME NEW n \in Nat, NEW edges \in SUBSET EdgesOf(n)
  PROVE  LET order == Kahn(n, edges)
         IN  /\ order \in Seq(1 .. n) /\ Len(order) <= n
             /\ IsInjective(order) /\ InFront(edges, order)
             /\ Len(order) # n => \A v \in 1 .. n : Free(edges, order, v) => v \in Range(order)
<1>1. PICK f : /\ Kahn(n, edges) = f[n].order
               /\ f[0] = Begun(n, edges)
               /\ \A k \in 1 .. n : f[k] = Advanced(n, edges, f[k - 1])
  BY KahnSteps
<1> DEFINE odd == {k \in 0 .. n : ~KahnInv(n, edges, k, f[k])}
<1>2. odd = {}
  <2> SUFFICES ASSUME odd # {} PROVE FALSE
    OBVIOUS
  <2>1. PICK k \in odd : \A j \in odd : k <= j
    <3>1. odd \in SUBSET Nat
      OBVIOUS
    <3> HIDE DEF odd
    <3> QED BY <3>1, LeastExists
  <2>2. k # 0
    BY <1>1, <2>1, BegunKahnInv
  <2>3. k \in 1 .. n /\ k - 1 \in 0 .. n /\ k - 1 \in Nat /\ k - 1 \notin odd /\ (k - 1) + 1 = k
    BY <2>1, <2>2
  <2>4. KahnInv(n, edges, k - 1, f[k - 1])
    BY <2>3
  <2>5. KahnInv(n, edges, (k - 1) + 1, Advanced(n, edges, f[k - 1]))
    BY <2>3, <2>4, AdvancedKahnInv
  <2> QED BY <1>1, <2>1, <2>3, <2>5
<1>3. KahnInv(n, edges, n, f[n])
  <2>1. n \in 0 .. n
    OBVIOUS
  <2> QED BY <1>2, <2>1
<1> DEFINE s == f[n]
<1>4. Kahn(n, edges) = s.order /\ KahnInv(n, edges, n, s)
  BY <1>1, <1>3
<1> HIDE DEF s
<1>5. s.order \in Seq(1 .. n) /\ s.queue \in Seq(1 .. n)
  BY <1>4 DEF KahnInv, States
<1>6. ASSUME Len(s.order) # n, NEW v \in 1 .. n, Free(edges, s.order, v) PROVE v \in Range(s.order)
  <2>1. s.queue = <<>>
    BY <1>4, <1>6 DEF KahnInv
  <2>2. Range(<<>>) = {}
    BY DEF Range
  <2> QED BY <1>4, <1>6, <2>1, <2>2 DEF KahnInv
<1> QED BY <1>4, <1>5, <1>6 DEF KahnInv

-----------------------------------------------------------------------------
(* The edges of a batch.                                                   *)

LEMMA EdgesTyped ==
  ASSUME NEW ops, NEW txSource, NEW n \in Nat, DOMAIN ops = 1 .. n
  PROVE  Edges(ops, txSource) \in SUBSET EdgesOf(n)
<1>1. \A S \in SUBSET (1 .. n) : S # {} => LastOf(S) \in 1 .. n
  BY LastOfIs
<1>2. ASSUME NEW e \in DeclaredEdges(ops) PROVE e \in (1 .. n) \X (1 .. n)
  <2>1. PICK v \in 1 .. n : \E d : Named(ops, d) # {} /\ e = <<LastOf(Named(ops, d)), v>>
    BY <1>2 DEF DeclaredEdges
  <2>2. PICK d : Named(ops, d) # {} /\ e = <<LastOf(Named(ops, d)), v>>
    BY <2>1
  <2>3. Named(ops, d) \in SUBSET (1 .. n)
    BY DEF Named
  <2> QED BY <1>1, <2>2, <2>3
<1>3. ASSUME NEW e \in CreationEdges(ops, txSource) PROVE e \in (1 .. n) \X (1 .. n)
  <2>1. PICK v \in 1 .. n :
          e \in {<<LastOf(Creations(ops, a)), v>> :
                   a \in {a \in UsesAccounts(ops[v], txSource) : Creations(ops, a) # {}}}
    BY <1>3 DEF CreationEdges
  <2>2. PICK a : Creations(ops, a) # {} /\ e = <<LastOf(Creations(ops, a)), v>>
    BY <2>1
  <2>3. Creations(ops, a) \in SUBSET (1 .. n)
    BY DEF Creations
  <2> QED BY <1>1, <2>2, <2>3
<1>4. ASSUME NEW e \in TrustEdges(ops, txSource) PROVE e \in (1 .. n) \X (1 .. n)
  <2>1. PICK v \in 1 .. n : /\ Trusts(ops, ops[v].dst, ops[v].asset, txSource) # {}
                            /\ e = <<LastOf(Trusts(ops, ops[v].dst, ops[v].asset, txSource)), v>>
    BY <1>4 DEF TrustEdges
  <2>2. Trusts(ops, ops[v].dst, ops[v].asset, txSource) \in SUBSET (1 .. n)
    BY DEF Trusts
  <2> QED BY <1>1, <2>1, <2>2
<1>5. ASSUME NEW e \in MergeEdges(ops, txSource) PROVE e \in (1 .. n) \X (1 .. n)
  BY <1>5 DEF MergeEdges
<1> QED BY <1>2, <1>3, <1>4, <1>5 DEF Edges, EdgesOf
-----------------------------------------------------------------------------
(* The inductive invariant: a list of operations, and a payload, if one is *)
(* cached, of just these settings.                                         *)

BatchInv == operations \in Seq(OpSpecs) /\ CacheIsFresh

LEMMA ListIs ==
  ASSUME NEW ops \in Seq(OpSpecs), NEW txSource
  PROVE  /\ Len(ops) \in Nat /\ DOMAIN ops = 1 .. Len(ops)
         /\ \A i \in 1 .. Len(ops) : ops[i] \in OpSpecs
         /\ Edges(ops, txSource) \in SUBSET EdgesOf(Len(ops))
<1>1. Len(ops) \in Nat /\ DOMAIN ops = 1 .. Len(ops) /\ \A i \in 1 .. Len(ops) : ops[i] \in OpSpecs
  OBVIOUS
<1> QED BY <1>1, EdgesTyped

\* An order of full length is a permutation with every edge forward.
LEMMA OrderIsPermutation ==
  ASSUME NEW ops \in Seq(OpSpecs), NEW txSource, Resolves(ops, txSource)
  PROVE  LET n == Len(ops)
             order == Order(ops, txSource)
         IN  /\ order \in [1 .. n -> 1 .. n]
             /\ \A i, j \in 1 .. n : order[i] = order[j] => i = j
             /\ \A v \in 1 .. n : \E i \in 1 .. n : order[i] = v
             /\ \A e \in Edges(ops, txSource), i, j \in 1 .. n :
                  order[i] = e[1] /\ order[j] = e[2] => i < j
<1> DEFINE n == Len(ops)
           order == Order(ops, txSource)
           edges == Edges(ops, txSource)
<1>1. n \in Nat /\ edges \in SUBSET EdgesOf(n) /\ order = Kahn(n, edges) /\ Len(order) = n
  BY ListIs DEF Order, Resolves
<1> HIDE DEF n, order, edges
<1>2. order \in Seq(1 .. n) /\ IsInjective(order) /\ InFront(edges, order)
  BY <1>1, KahnOrder
<1>3. order \in [1 .. n -> 1 .. n] /\ \A i, j \in 1 .. n : order[i] = order[j] => i = j
  <2>1. order \in [1 .. n -> 1 .. n]
    BY <1>1, <1>2
  <2>2. \A i, j \in 1 .. n : order[i] = order[j] => i = j
    BY <1>1, <1>2, SequenceIs
  <2> QED BY <2>1, <2>2
<1>4. order \in Surjection(1 .. n, 1 .. n)
  <2>1. order \in Injection(1 .. n, 1 .. n)
    BY <1>3 DEF Injection, IsInjective
  <2>2. IsFiniteSet(1 .. n)
    BY <1>1, FS_Interval
  <2> QED BY <2>1, <2>2, FS_Injection
<1>5. \A v \in 1 .. n : \E i \in 1 .. n : order[i] = v
  BY <1>4 DEF Surjection
<1>6. ASSUME NEW e \in edges, NEW i \in 1 .. n, NEW j \in 1 .. n, order[i] = e[1], order[j] = e[2]
      PROVE  i < j
  <2>1. PICK h \in 1 .. j - 1 : order[h] = e[1]
    BY <1>1, <1>2, <1>6 DEF InFront
  <2>2. h \in 1 .. n /\ h < j
    BY <1>1
  <2> QED BY <1>3, <1>6, <2>1, <2>2
<1> QED BY <1>3, <1>5, <1>6 DEF n, order, edges

LEMMA ResolvedIs ==
  ASSUME NEW ops \in Seq(OpSpecs), NEW txSource, Resolves(ops, txSource)
  PROVE  /\ Resolved(ops, txSource) \in Seq(OpSpecs)
         /\ Len(Resolved(ops, txSource)) = Len(ops)
         /\ \A i \in 1 .. Len(ops) : Resolved(ops, txSource)[i] = ops[Order(ops, txSource)[i]]
<1> DEFINE n == Len(ops)
           order == Order(ops, txSource)
<1>1. n \in Nat /\ DOMAIN ops = 1 .. n /\ \A i \in 1 .. n : ops[i] \in OpSpecs
  BY ListIs
<1>2. order \in [1 .. n -> 1 .. n]
  BY OrderIsPermutation
<1>3. Resolved(ops, txSource) = [i \in 1 .. n |-> ops[order[i]]]
  BY <1>1 DEF Resolved
<1> HIDE DEF n, order
<1>4. \A i \in 1 .. n : ops[order[i]] \in OpSpecs
  BY <1>1, <1>2
<1>5. /\ [i \in 1 .. n |-> ops[order[i]]] \in Seq(OpSpecs)
      /\ Len([i \in 1 .. n |-> ops[order[i]]]) = n
  BY <1>1, <1>4
<1> QED BY <1>3, <1>5 DEF n, order

LEMMA BatchInvInit == BatchInit => BatchInv
<1> SUFFICES ASSUME BatchInit PROVE BatchInv
  OBVIOUS
<1>1. operations = <<>> /\ cached = NoPayload
  BY DEF BatchInit
<1>2. <<>> \in Seq(OpSpecs)
  OBVIOUS
<1> QED BY <1>1, <1>2 DEF BatchInv, CacheIsFresh

LEMMA BatchInvNext == BatchInv /\ [BatchNext]_batchVars => BatchInv'
<1> SUFFICES ASSUME BatchInv, [BatchNext]_batchVars PROVE BatchInv'
  OBVIOUS
<1>1. operations \in Seq(OpSpecs) /\ CacheIsFresh
  BY DEF BatchInv
<1>2. ASSUME operations' \in Seq(OpSpecs), cached' = NoPayload PROVE BatchInv'
  BY <1>2 DEF BatchInv, CacheIsFresh
<1>3. ASSUME NEW op \in OpSpecs, AddOperation(op) PROVE BatchInv'
  <2>1. Append(operations, op) \in Seq(OpSpecs)
    BY <1>1, AppendIs
  <2> QED BY <1>2, <1>3, <2>1 DEF AddOperation, Invalidated
<1>4. CASE Clear
  BY <1>2, <1>4 DEF Clear, Invalidated
<1>5. ASSUME NEW a \in Accounts, SetSource(a) PROVE BatchInv'
  BY <1>1, <1>2, <1>5 DEF SetSource, Invalidated
<1>6. ASSUME NEW f \in Fees, SetFee(f) PROVE BatchInv'
  BY <1>1, <1>2, <1>6 DEF SetFee, Invalidated
<1>7. ASSUME NEW field \in MemoFields, SetMemo(field) PROVE BatchInv'
  BY <1>1, <1>2, <1>7 DEF SetMemo, Invalidated
<1>8. CASE Reorder
  <2>1. Resolved(operations, source) \in Seq(OpSpecs)
    BY <1>1, <1>8, ResolvedIs DEF Reorder
  <2> QED BY <1>2, <1>8, <2>1 DEF Reorder, Invalidated
<1>9. CASE Build
  BY <1>1, <1>9 DEF Build, BatchInv, CacheIsFresh
<1>10. CASE UNCHANGED batchVars
  BY <1>1, <1>10 DEF batchVars, BatchInv, CacheIsFresh
<1> QED BY <1>3, <1>4, <1>5, <1>6, <1>7, <1>8, <1>9, <1>10 DEF BatchNext

LEMMA BatchInductive == BatchSpec => []BatchInv
<1> QED BY BatchInvInit, BatchInvNext, PTL DEF BatchSpec

(* What build() hands out from its cache is what the present settings give, *)
(* for any operations, settings and number of builds (batch.ts:938).        *)
THEOREM CacheStaysFresh == BatchSpec => []CacheIsFresh
<1>1. BatchInv => CacheIsFresh
  BY DEF BatchInv
<1> QED BY <1>1, BatchInductive, PTL

(* CIRCULAR_DEPENDENCY is thrown only of operations that no permutation     *)
(* puts in order, however many and whatever they depend on (batch.ts:912).  *)
THEOREM CycleIsReal == BatchSpec => []CycleMeansNoOrder
<1>1. BatchInv => CycleMeansNoOrder
  <2> SUFFICES ASSUME BatchInv, ~Resolves(operations, source),
                      NEW p \in Injection(DOMAIN operations, DOMAIN operations)
               PROVE  \E e \in Edges(operations, source) : p[e[1]] > p[e[2]]
    BY DEF CycleMeansNoOrder
  <2> DEFINE n == Len(operations)
             edges == Edges(operations, source)
             order == Order(operations, source)
             left == {v \in 1 .. n : v \notin Range(order)}
  <2>1. /\ n \in Nat /\ DOMAIN operations = 1 .. n
        /\ edges \in SUBSET EdgesOf(n) /\ order = Kahn(n, edges) /\ Len(order) # n
    BY ListIs DEF BatchInv, Order, Resolves
  <2>2. p \in [1 .. n -> 1 .. n] /\ \A u, v \in 1 .. n : p[u] = p[v] => u = v
    BY <2>1 DEF Injection, IsInjective
  <2> SUFFICES ASSUME \A e \in edges : ~(p[e[1]] > p[e[2]]) PROVE FALSE
    OBVIOUS
  <2> HIDE DEF n, edges, order
  <2>3. /\ order \in Seq(1 .. n) /\ Len(order) \in Nat /\ Len(order) < n
        /\ \A v \in 1 .. n : Free(edges, order, v) => v \in Range(order)
    <3>1. /\ order \in Seq(1 .. n) /\ Len(order) <= n
          /\ \A v \in 1 .. n : Free(edges, order, v) => v \in Range(order)
      BY <2>1, KahnOrder
    <3>2. Len(order) \in Nat
      BY <3>1
    <3> QED BY <2>1, <3>1, <3>2
  \* Fewer positions than operations: some operation is left.
  <2>4. left # {}
    <3> SUFFICES ASSUME left = {} PROVE FALSE
      OBVIOUS
    <3>1. \A v \in 1 .. n : \E i \in 1 .. Len(order) : order[i] = v
      <4>1. \A x : x \in Range(order) <=> \E i \in 1 .. Len(order) : order[i] = x
        BY <2>3, SequenceIs
      <4> QED BY <4>1
    <3>2. order \in Surjection(1 .. Len(order), 1 .. n)
      <4>1. order \in [1 .. Len(order) -> 1 .. n]
        BY <2>3, LenProperties
      <4> QED BY <3>1, <4>1 DEF Surjection
    <3>3. /\ IsFiniteSet(1 .. Len(order)) /\ Cardinality(1 .. Len(order)) = Len(order)
          /\ Cardinality(1 .. n) = n
      <4>1. \A m \in Nat : IsFiniteSet(1 .. m) /\ Cardinality(1 .. m) = m
        <5> TAKE m \in Nat
        <5>1. 1 \in Int /\ m \in Int /\ (IF 1 > m THEN 0 ELSE m - 1 + 1) = m
          OBVIOUS
        <5> QED BY <5>1, FS_Interval
      <4> QED BY <2>1, <2>3, <4>1
    <3>4. Cardinality(1 .. n) <= Cardinality(1 .. Len(order))
      BY <3>2, <3>3, FS_Surjection
    <3> QED BY <2>1, <2>3, <3>3, <3>4
  \* The one that p puts first has no obstacle among them.
  <2>5. PICK v \in left : \A u \in left : p[v] <= p[u]
    <3> DEFINE places == {p[u] : u \in left}
    <3>1. places \in SUBSET Nat /\ places # {}
      BY <2>2, <2>4
    <3>2. PICK x \in places : \A y \in places : x <= y
      <4> HIDE DEF places
      <4> QED BY <3>1, LeastExists
    <3> QED BY <3>2
  <2>6. ASSUME NEW e \in edges, e[2] = v PROVE e[1] \in Range(order)
    <3>1. e[1] \in 1 .. n /\ e[2] \in 1 .. n /\ e[1] # e[2]
      BY <2>1 DEF EdgesOf
    <3>2. p[e[1]] \in 1 .. n /\ p[v] \in 1 .. n /\ p[e[1]] # p[v]
      BY <2>2, <2>6, <3>1
    <3>3. ~(p[v] <= p[e[1]])
      BY <2>1, <2>6, <3>2
    <3> QED BY <2>5, <3>1, <3>3
  <2>7. Free(edges, order, v)
    BY <2>6 DEF Free
  <2> QED BY <2>3, <2>5, <2>7
<1> QED BY <1>1, BatchInductive, PTL
-----------------------------------------------------------------------------
(* What is resolved validates.                                             *)

\* Sequences of codes that are all "ok", and their concatenation.
LEMMA AllOk ==
  ASSUME NEW codes \in Seq({"ok"})
  PROVE  FirstOf(codes) = "ok"
<1>1. DOMAIN codes \subseteq Nat /\ \A i \in DOMAIN codes : codes[i] = "ok"
  OBVIOUS
<1> QED BY <1>1, FirstOfOk

\* Every edge of a resolved batch points forward, stated of the positions
\* that two operations have got.
Placed(ops, txSource, n, order, new) ==
  /\ n \in Nat /\ DOMAIN ops = 1 .. n /\ DOMAIN new = 1 .. n
  /\ order \in [1 .. n -> 1 .. n]
  /\ \A i, j \in 1 .. n : order[i] = order[j] => i = j
  /\ \A v \in 1 .. n : \E i \in 1 .. n : order[i] = v
  /\ \A i \in 1 .. n : new[i] = ops[order[i]]
  /\ \A e \in Edges(ops, txSource), i, j \in 1 .. n : order[i] = e[1] /\ order[j] = e[2] => i < j

LEMMA ResolvedIsPlaced ==
  ASSUME NEW ops \in Seq(OpSpecs), NEW txSource, Resolves(ops, txSource)
  PROVE  Placed(ops, txSource, Len(ops), Order(ops, txSource), Resolved(ops, txSource))
<1>1. /\ Len(ops) \in Nat /\ DOMAIN ops = 1 .. Len(ops)
      /\ Resolved(ops, txSource) \in Seq(OpSpecs)
      /\ Len(Resolved(ops, txSource)) = Len(ops)
      /\ \A i \in 1 .. Len(ops) : Resolved(ops, txSource)[i] = ops[Order(ops, txSource)[i]]
  BY ListIs, ResolvedIs
<1>2. DOMAIN Resolved(ops, txSource) = 1 .. Len(ops)
  BY <1>1
<1> DEFINE n == Len(ops)
           order == Order(ops, txSource)
<1>3. /\ order \in [1 .. n -> 1 .. n]
      /\ \A i, j \in 1 .. n : order[i] = order[j] => i = j
      /\ \A v \in 1 .. n : \E i \in 1 .. n : order[i] = v
  BY OrderIsPermutation
<1>4. \A e \in Edges(ops, txSource), i, j \in 1 .. n : order[i] = e[1] /\ order[j] = e[2] => i < j
  BY OrderIsPermutation
<1> QED BY ONLY <1>1, <1>2, <1>3, <1>4 DEF Placed, n, order

\* A set with at most one member has just the one that is in it.
LEMMA OnlyOne ==
  ASSUME NEW n \in Nat, NEW S \in SUBSET (1 .. n), Cardinality(S) <= 1, NEW c \in S
  PROVE  S = {c} /\ LastOf(S) = c
<1>1. IsFiniteSet(S)
  <2>1. IsFiniteSet(1 .. n)
    BY FS_Interval
  <2> QED BY <2>1, FS_Subset
<1>2. Cardinality(S \ {c}) = Cardinality(S) - 1 /\ IsFiniteSet(S \ {c})
  BY <1>1, FS_RemoveElement
<1>3. Cardinality(S) \in Nat /\ Cardinality(S \ {c}) \in Nat
  BY <1>1, <1>2, FS_CardinalityType
<1>4. Cardinality(S \ {c}) = 0
  BY <1>2, <1>3
<1>5. S \ {c} = {}
  BY <1>2, <1>4, FS_EmptySet
<1>6. S = {c}
  BY <1>5
<1>7. LastOf(S) \in S
  BY LastOfIs
<1> QED BY <1>6, <1>7

\* The places that the operations at the positions S have got.
PlacesOf(S, n, order) == {i \in 1 .. n : order[i] \in S}

LEMMA SamePlaces ==
  ASSUME NEW ops, NEW txSource, NEW n, NEW order, NEW new, Placed(ops, txSource, n, order, new)
  PROVE  /\ \A a : Creations(new, a) = PlacesOf(Creations(ops, a), n, order)
         /\ \A h, a : Trusts(new, h, a, txSource) = PlacesOf(Trusts(ops, h, a, txSource), n, order)
         /\ \A a : Merges(new, a, txSource) = PlacesOf(Merges(ops, a, txSource), n, order)
         /\ IdsTaken(new) = IdsTaken(ops)
<1>1. /\ DOMAIN ops = 1 .. n /\ DOMAIN new = 1 .. n
      /\ \A i \in 1 .. n : new[i] = ops[order[i]] /\ order[i] \in 1 .. n
      /\ \A v \in 1 .. n : \E i \in 1 .. n : order[i] = v
  BY DEF Placed
<1>2. ASSUME NEW a PROVE Creations(new, a) = PlacesOf(Creations(ops, a), n, order)
  BY <1>1 DEF Creations, PlacesOf
<1>3. ASSUME NEW h, NEW a
      PROVE  Trusts(new, h, a, txSource) = PlacesOf(Trusts(ops, h, a, txSource), n, order)
  BY <1>1 DEF Trusts, PlacesOf
<1>4. ASSUME NEW a PROVE Merges(new, a, txSource) = PlacesOf(Merges(ops, a, txSource), n, order)
  BY <1>1 DEF Merges, PlacesOf
<1>5. ASSUME NEW d PROVE d \in IdsTaken(new) <=> d \in IdsTaken(ops)
  <2>1. \A i \in 1 .. n : \E v \in 1 .. n : IdOf(new[i]) = IdOf(ops[v])
    BY <1>1
  <2>2. \A v \in 1 .. n : \E i \in 1 .. n : IdOf(new[i]) = IdOf(ops[v])
    BY <1>1
  <2>3. d \in IdsTaken(new) <=> d # "" /\ \E i \in 1 .. n : IdOf(new[i]) = d
    BY <1>1 DEF IdsTaken
  <2>4. d \in IdsTaken(ops) <=> d # "" /\ \E i \in 1 .. n : IdOf(ops[i]) = d
    BY <1>1 DEF IdsTaken
  <2> QED BY <2>1, <2>2, <2>3, <2>4
<1> QED BY <1>2, <1>3, <1>4, <1>5

\* A single operation v waits for is never placed behind it.
LEMMA NotTooEarly ==
  ASSUME NEW ops, NEW txSource, NEW n, NEW order, NEW new, Placed(ops, txSource, n, order, new),
         NEW S \in SUBSET (1 .. n), Cardinality(S) <= 1, NEW i \in 1 .. n,
         \A c \in S : c # order[i] => <<c, order[i]>> \in Edges(ops, txSource),
         PlacesOf(S, n, order) # {}
  PROVE  ~(LastOf(PlacesOf(S, n, order)) > i)
<1>1. /\ n \in Nat /\ order \in [1 .. n -> 1 .. n]
      /\ \A h, j \in 1 .. n : order[h] = order[j] => h = j
      /\ \A e \in Edges(ops, txSource), h, j \in 1 .. n : order[h] = e[1] /\ order[j] = e[2] => h < j
  BY DEF Placed
<1> DEFINE P == PlacesOf(S, n, order)
           j == LastOf(P)
<1>2. P \in SUBSET (1 .. n) /\ P # {}
  BY DEF PlacesOf
<1>3. j \in P
  <2> HIDE DEF P
  <2> QED BY <1>1, <1>2, LastOfIs
<1>4. j \in 1 .. n /\ order[j] \in S
  BY <1>3 DEF PlacesOf
<1> HIDE DEF P, j
<1>5. CASE order[j] = order[i]
  <2>1. j = i
    BY <1>1, <1>4, <1>5
  <2> QED BY <1>1, <2>1 DEF j, P
<1>6. CASE order[j] # order[i]
  <2> DEFINE e == <<order[j], order[i]>>
  <2>1. e \in Edges(ops, txSource) /\ e[1] = order[j] /\ e[2] = order[i]
    BY <1>4, <1>6
  <2>2. j < i
    BY <1>1, <1>4, <2>1
  <2>3. i \in Int /\ j \in Int
    BY <1>4
  <2>4. ~(j > i)
    BY <2>2, <2>3
  <2> QED BY <2>4 DEF j, P
<1> QED BY <1>5, <1>6
\* The edges, by the operations that ask for them.
LEMMA EdgeOf ==
  ASSUME NEW ops, NEW txSource, NEW n \in Nat, DOMAIN ops = 1 .. n, NEW v \in 1 .. n
  PROVE  /\ \A d \in ops[v].deps : Named(ops, d) # {} /\ LastOf(Named(ops, d)) # v =>
               <<LastOf(Named(ops, d)), v>> \in Edges(ops, txSource)
         /\ \A a \in UsesAccounts(ops[v], txSource) :
               Creations(ops, a) # {} /\ LastOf(Creations(ops, a)) # v =>
                 <<LastOf(Creations(ops, a)), v>> \in Edges(ops, txSource)
         /\ LET trusts == Trusts(ops, ops[v].dst, ops[v].asset, txSource)
            IN  IsCreditPayment(ops[v]) /\ trusts # {} /\ LastOf(trusts) # v =>
                  <<LastOf(trusts), v>> \in Edges(ops, txSource)
         /\ \A m \in Merges(ops, SourceOf(ops[v], txSource), txSource) :
               m # v => <<v, m>> \in Edges(ops, txSource)
<1>1. ASSUME NEW d \in ops[v].deps, Named(ops, d) # {}
      PROVE  <<LastOf(Named(ops, d)), v>> \in DeclaredEdges(ops)
  BY <1>1 DEF DeclaredEdges
<1>2. ASSUME NEW a \in UsesAccounts(ops[v], txSource), Creations(ops, a) # {}
      PROVE  <<LastOf(Creations(ops, a)), v>> \in CreationEdges(ops, txSource)
  BY <1>2 DEF CreationEdges
<1>3. ASSUME IsCreditPayment(ops[v]), Trusts(ops, ops[v].dst, ops[v].asset, txSource) # {}
      PROVE  <<LastOf(Trusts(ops, ops[v].dst, ops[v].asset, txSource)), v>> \in TrustEdges(ops, txSource)
  BY <1>3 DEF TrustEdges
<1>4. ASSUME NEW m \in Merges(ops, SourceOf(ops[v], txSource), txSource)
      PROVE  <<v, m>> \in MergeEdges(ops, txSource)
  <2>1. m \in 1 .. n /\ ops[m].type = "accountMerge"
        /\ SourceOf(ops[m], txSource) = SourceOf(ops[v], txSource)
    BY DEF Merges
  <2> QED BY <2>1 DEF MergeEdges
<1>5. \A e : (\/ e \in DeclaredEdges(ops) \/ e \in CreationEdges(ops, txSource)
              \/ e \in TrustEdges(ops, txSource) \/ e \in MergeEdges(ops, txSource))
               /\ e[1] # e[2] => e \in Edges(ops, txSource)
  BY DEF Edges
<1> QED BY <1>1, <1>2, <1>3, <1>4, <1>5

LEMMA IdsStayDistinct ==
  ASSUME NEW ops, NEW txSource, NEW n \in Nat, NEW order, NEW new, Placed(ops, txSource, n, order, new),
         ~DuplicateIds(ops)
  PROVE  ~DuplicateIds(new)
<1>1. /\ n \in Nat /\ DOMAIN ops = 1 .. n /\ DOMAIN new = 1 .. n
      /\ \A k \in 1 .. n : new[k] = ops[order[k]]
      /\ order \in [1 .. n -> 1 .. n]
      /\ \A i, j \in 1 .. n : order[i] = order[j] => i = j
  BY DEF Placed
<1>2. ASSUME NEW i \in 1 .. n, NEW j \in 1 .. n, i < j
      PROVE  IdOf(new[i]) = "" \/ IdOf(new[i]) # IdOf(new[j])
  <2> DEFINE v == order[i]
             w == order[j]
  <2>1. v \in 1 .. n /\ w \in 1 .. n /\ v # w
    <3>1. i # j
      BY <1>2
    <3> QED BY <1>1, <3>1
  <2>2. new[i] = ops[v] /\ new[j] = ops[w]
    BY <1>1
  <2> HIDE DEF v, w
  <2>3. v < w \/ w < v
    BY <2>1
  <2>4. \A x, y \in 1 .. n : x < y => IdOf(ops[x]) = "" \/ IdOf(ops[x]) # IdOf(ops[y])
    BY <1>1 DEF DuplicateIds
  <2>5. IdOf(ops[v]) = "" \/ IdOf(ops[v]) # IdOf(ops[w])
    BY <2>1, <2>3, <2>4
  <2> QED BY <2>2, <2>5
<1> QED BY <1>1, <1>2 DEF DuplicateIds

LEMMA DeclaredOk ==
  ASSUME NEW ops, NEW txSource, NEW n, NEW order, NEW new, Placed(ops, txSource, n, order, new),
         Unambiguous(ops, txSource), NEW i \in 1 .. n
  PROVE  DependencyError(new, i) = "ok"
<1>1. /\ n \in Nat /\ DOMAIN ops = 1 .. n /\ DOMAIN new = 1 .. n
      /\ \A k \in 1 .. n : new[k] = ops[order[k]] /\ order[k] \in 1 .. n
      /\ \A e \in Edges(ops, txSource), h, j \in 1 .. n : order[h] = e[1] /\ order[j] = e[2] => h < j
  BY DEF Placed
<1> DEFINE v == order[i]
<1>2. v \in 1 .. n /\ new[i].deps = ops[v].deps
  BY <1>1
<1>3. \A d \in ops[v].deps : d \in IdsTaken(new)
  <2>1. IdsTaken(new) = IdsTaken(ops)
    BY SamePlaces
  <2>2. ops[v].deps \subseteq IdsTaken(ops)
    <3> HIDE DEF v
    <3> QED BY <1>1, <1>2 DEF Unambiguous
  <2> QED BY <2>1, <2>2
<1>4. ASSUME NEW d \in ops[v].deps, NEW j \in 1 .. n, IdOf(new[j]) = d PROVE j < i
  <2> DEFINE w == order[j]
  <2>1. w \in 1 .. n /\ IdOf(ops[w]) = d
    BY <1>1, <1>4
  <2>2. d \in IdsTaken(ops)
    BY <1>1, <1>2 DEF Unambiguous
  <2>3. d # ""
    BY <2>2 DEF IdsTaken
  <2>4. w # v
    BY <1>1, <1>2, <2>1 DEF Unambiguous
  \* No other operation goes by that name, given or positional.
  <2>5. \A u \in 1 .. n : EdgeId(ops, u) = d => u = w
    <3> SUFFICES ASSUME NEW u \in 1 .. n, EdgeId(ops, u) = d PROVE u = w
      OBVIOUS
    <3>1. CASE ops[u].id = Unset
      <4>1. PositionalIds[u] \notin IdsTaken(ops)
        BY <1>1, <3>1 DEF Unambiguous
      <4> QED BY <2>2, <3>1, <4>1 DEF EdgeId
    <3>2. CASE ops[u].id # Unset
      <4>1. IdOf(ops[u]) = IdOf(ops[w]) /\ IdOf(ops[u]) # ""
        BY <1>1, <2>1, <3>2 DEF EdgeId, Unambiguous
      <4>2. ~(u < w) /\ ~(w < u)
        BY <1>1, <2>1, <2>3, <3>2, <4>1 DEF Unambiguous, DuplicateIds
      <4> QED BY <2>1, <4>2
    <3> QED BY <3>1, <3>2
  <2>6. Named(ops, d) = {w}
    <3>1. ops[w].id # Unset
      BY <2>1, <2>3 DEF IdOf
    <3>2. ops[w].id = d
      BY <1>1, <2>1, <3>1 DEF Unambiguous
    <3>3. EdgeId(ops, w) = d
      BY <3>1, <3>2 DEF EdgeId
    <3> HIDE DEF w
    <3> QED BY <1>1, <2>1, <2>5, <3>3 DEF Named
  <2>7. LastOf(Named(ops, d)) = w
    <3>1. LastOf({w}) \in {w}
      <4>1. {w} \in SUBSET (1 .. n) /\ {w} # {}
        BY <2>1
      <4> HIDE DEF w
      <4> QED BY <1>1, <4>1, LastOfIs
    <3> QED BY <2>6, <3>1
  <2>8. <<w, v>> \in Edges(ops, txSource)
    <3> HIDE DEF w, v
    <3> QED BY <1>1, <1>2, <2>4, <2>6, <2>7, EdgeOf
  <2> DEFINE e == <<w, v>>
  <2>9. e[1] = order[j] /\ e[2] = order[i]
    OBVIOUS
  <2> QED BY <1>1, <2>8, <2>9
<1>5. \A d \in new[i].deps : d \in IdsTaken(new)
  BY <1>2, <1>3
<1>6. ~ \E d \in new[i].deps : \E j \in DOMAIN new : IdOf(new[j]) = d /\ j >= i
  <2>1. \A d \in new[i].deps, j \in 1 .. n : IdOf(new[j]) = d => j < i
    BY <1>2, <1>4
  <2>2. \A j \in 1 .. n : j < i => ~(j >= i)
    BY <1>1
  <2> QED BY <1>1, <2>1, <2>2
<1> QED BY <1>5, <1>6 DEF DependencyError

LEMMA ImplicitOk ==
  ASSUME NEW ops, NEW txSource, NEW n, NEW order, NEW new, Placed(ops, txSource, n, order, new),
         Unambiguous(ops, txSource), NEW i \in 1 .. n
  PROVE  ImplicitError(new, i, txSource) = "ok"
<1> DEFINE v == order[i]
           op == ops[v]
           src == SourceOf(op, txSource)
           TooEarly(S) == S # {} /\ LastOf(S) > i
           TooLate(S) == S # {} /\ i > LastOf(S)
<1>1. /\ n \in Nat /\ DOMAIN ops = 1 .. n /\ order \in [1 .. n -> 1 .. n]
      /\ \A h, j \in 1 .. n : order[h] = order[j] => h = j
      /\ \A k \in 1 .. n : new[k] = ops[order[k]]
      /\ \A e \in Edges(ops, txSource), h, j \in 1 .. n : order[h] = e[1] /\ order[j] = e[2] => h < j
  BY DEF Placed
<1>2. v \in 1 .. n /\ new[i] = op
  BY <1>1
<1>3. /\ Cardinality(Trusts(ops, op.dst, op.asset, txSource)) <= 1
      /\ op.dst # "" => Merges(ops, op.dst, txSource) = {}
      /\ \A c \in 1 .. n : Cardinality(Creations(ops, ops[c].dst)) <= 1
  <2> HIDE DEF v
  <2> QED BY <1>1, <1>2 DEF Unambiguous, op
<1> HIDE DEF v
<1>4. ASSUME NEW a \in UsesAccounts(op, txSource) PROVE ~TooEarly(Creations(new, a))
  <2> DEFINE S == Creations(ops, a)
             P == PlacesOf(S, n, order)
  <2>1. Creations(new, a) = P
    BY SamePlaces
  <2>2. S \in SUBSET (1 .. n) /\ \A c \in S : ops[c].dst = a
    BY <1>1 DEF Creations
  <2>3. ASSUME S # {}, P # {} PROVE ~(LastOf(P) > i)
    <3>1. PICK c \in S : TRUE
      BY <2>3
    <3>2. Cardinality(S) <= 1
      BY <1>3, <2>2, <3>1
    <3>3. \A d \in S : LastOf(S) = d
      <4> HIDE DEF S
      <4> QED BY <1>1, <2>2, <3>2, OnlyOne
    <3>4. \A d \in S : d # v => <<d, v>> \in Edges(ops, txSource)
      BY <1>1, <1>2, <2>3, <3>3, EdgeOf
    <3>5. \A d \in S : d # order[i] => <<d, order[i]>> \in Edges(ops, txSource)
      BY <3>4 DEF v
    <3> HIDE DEF S
    <3> QED BY <2>2, <2>3, <3>2, <3>5, NotTooEarly
  <2>4. S = {} => P = {}
    BY DEF PlacesOf
  <2> QED BY <2>1, <2>3, <2>4
<1>5. IsCreditPayment(op) => ~TooEarly(Trusts(new, op.dst, op.asset, txSource))
  <2> SUFFICES ASSUME IsCreditPayment(op) PROVE ~TooEarly(Trusts(new, op.dst, op.asset, txSource))
    OBVIOUS
  <2> DEFINE S == Trusts(ops, op.dst, op.asset, txSource)
             P == PlacesOf(S, n, order)
  <2>1. Trusts(new, op.dst, op.asset, txSource) = P
    BY SamePlaces
  <2>2. S \in SUBSET (1 .. n) /\ Cardinality(S) <= 1
    BY <1>1, <1>3 DEF Trusts
  <2>3. ASSUME P # {} PROVE ~(LastOf(P) > i)
    <3>1. \A d \in S : LastOf(S) = d
      <4> HIDE DEF S
      <4> QED BY <1>1, <2>2, OnlyOne
    <3>2. \A d \in S : d # v => <<d, v>> \in Edges(ops, txSource)
      BY <1>1, <1>2, <3>1, EdgeOf
    <3>3. \A d \in S : d # order[i] => <<d, order[i]>> \in Edges(ops, txSource)
      BY <3>2 DEF v
    <3> HIDE DEF S
    <3> QED BY <2>2, <2>3, <3>3, NotTooEarly
  <2> QED BY <2>1, <2>3
<1>6. ~TooLate(Merges(new, src, txSource))
  <2> DEFINE S == Merges(ops, src, txSource)
             P == PlacesOf(S, n, order)
             j == LastOf(P)
  <2>1. Merges(new, src, txSource) = P
    BY SamePlaces
  <2>2. ASSUME P # {} PROVE ~(i > j)
    <3>1. j \in P
      <4>1. P \in SUBSET (1 .. n)
        BY DEF PlacesOf
      <4> HIDE DEF P
      <4> QED BY <1>1, <2>2, <4>1, LastOfIs
    <3>2. j \in 1 .. n /\ order[j] \in S
      BY <3>1 DEF PlacesOf
    <3> DEFINE m == order[j]
    <3> HIDE DEF j
    <3>3. m # v => <<v, m>> \in Edges(ops, txSource)
      <4>1. m \in Merges(ops, SourceOf(ops[v], txSource), txSource)
        BY <3>2
      <4> HIDE DEF m
      <4> QED BY <1>1, <1>2, <4>1, EdgeOf
    <3>4. CASE m = v
      <4>1. j = i
        BY <1>1, <3>2, <3>4 DEF v
      <4> QED BY <4>1
    <3>5. CASE m # v
      <4> DEFINE e == <<v, m>>
      <4>1. order[i] = e[1] /\ order[j] = e[2]
        BY DEF v
      <4>2. i < j
        BY <1>1, <3>2, <3>3, <3>5, <4>1
      <4>3. i \in Int /\ j \in Int
        BY <3>2
      <4> QED BY <4>2, <4>3
    <3> QED BY <3>4, <3>5
  <2> QED BY <2>1, <2>2
<1>7. op.dst # "" => ~TooLate(Merges(new, op.dst, txSource))
  <2>1. Merges(new, op.dst, txSource) = PlacesOf(Merges(ops, op.dst, txSource), n, order)
    BY SamePlaces
  <2>2. PlacesOf({}, n, order) = {}
    BY DEF PlacesOf
  <2> QED BY <1>3, <2>1, <2>2
<1> DEFINE codes ==
      <<Fails(\E a \in UsesAccounts(op, txSource) : TooEarly(Creations(new, a)),
              "UNCREATED_ACCOUNT_DEPENDENCY"),
        Fails(IsCreditPayment(op) /\ TooEarly(Trusts(new, op.dst, op.asset, txSource)),
              "UNTRUSTED_ASSET_DEPENDENCY"),
        Fails(TooLate(Merges(new, src, txSource)), "ACCOUNT_MERGED_VIOLATION"),
        Fails(op.dst # "" /\ TooLate(Merges(new, op.dst, txSource)), "ACCOUNT_MERGED_VIOLATION")>>
<1>8. ImplicitError(new, i, txSource) = FirstOf(codes)
  BY <1>2 DEF ImplicitError
<1>9. codes = <<"ok", "ok", "ok", "ok">>
  <2>1. \A holds, code : ~holds => Fails(holds, code) = "ok"
    BY DEF Fails
  <2> HIDE DEF op, src, TooEarly, TooLate
  <2>2. Fails(\E a \in UsesAccounts(op, txSource) : TooEarly(Creations(new, a)),
              "UNCREATED_ACCOUNT_DEPENDENCY") = "ok"
    BY <1>4 DEF Fails
  <2>3. Fails(IsCreditPayment(op) /\ TooEarly(Trusts(new, op.dst, op.asset, txSource)),
              "UNTRUSTED_ASSET_DEPENDENCY") = "ok"
    BY <1>5 DEF Fails
  <2>4. Fails(TooLate(Merges(new, src, txSource)), "ACCOUNT_MERGED_VIOLATION") = "ok"
    BY <1>6 DEF Fails
  <2>5. Fails(op.dst # "" /\ TooLate(Merges(new, op.dst, txSource)), "ACCOUNT_MERGED_VIOLATION") = "ok"
    BY <1>7 DEF Fails
  <2> QED BY <2>2, <2>3, <2>4, <2>5
<1>10. <<"ok", "ok", "ok", "ok">> \in Seq({"ok"})
  OBVIOUS
<1> HIDE DEF codes
<1> QED BY <1>8, <1>9, <1>10, AllOk

\* All the checks of validateDependencies(), in its order.
LEMMA DependenciesOk ==
  ASSUME NEW ops, NEW txSource, NEW n, NEW order, NEW new, Placed(ops, txSource, n, order, new),
         Unambiguous(ops, txSource)
  PROVE  DependenciesError(new, txSource) = "ok"
<1> DEFINE first == <<Fails(DuplicateIds(new), "DUPLICATE_OPERATION_ID")>>
           declared == [i \in DOMAIN new |-> DependencyError(new, i)]
           implicit == [i \in DOMAIN new |-> ImplicitError(new, i, txSource)]
<1>1. n \in Nat /\ DOMAIN new = 1 .. n
  BY DEF Placed
<1>2. first \in Seq({"ok"})
  <2>1. ~DuplicateIds(new)
    BY <1>1, IdsStayDistinct DEF Unambiguous
  <2>2. Fails(DuplicateIds(new), "DUPLICATE_OPERATION_ID") = "ok"
    BY <2>1 DEF Fails
  <2> QED BY <2>2
<1>3. declared \in Seq({"ok"})
  <2>1. declared \in [1 .. n -> {"ok"}]
    BY <1>1, DeclaredOk
  <2> HIDE DEF declared
  <2> QED BY <1>1, <2>1
<1>4. implicit \in Seq({"ok"})
  <2>1. implicit \in [1 .. n -> {"ok"}]
    BY <1>1, ImplicitOk
  <2> HIDE DEF implicit
  <2> QED BY <1>1, <2>1
<1>5. DependenciesError(new, txSource) = FirstOf(first \o declared \o implicit)
  BY DEF DependenciesError
<1> HIDE DEF first, declared, implicit
<1>6. first \o declared \o implicit \in Seq({"ok"})
  BY <1>2, <1>3, <1>4, ConcatProperties
<1> QED BY <1>5, <1>6, AllOk

(* Put in order, an unambiguous batch of any operations passes the          *)
(* dependency checks of validate(): what the edges of resolveDependencies() *)
(* know of dependencies and what the index comparisons of                   *)
(* validateDependencies() know of them agree (batch.ts:638).  A batch that  *)
(* has an id with blanks around it is none of those: there they differ.     *)
THEOREM ReorderingValidates == BatchSpec => []ReorderedIsValid
<1>1. BatchInv => ReorderedIsValid
  <2> SUFFICES ASSUME BatchInv, Unambiguous(operations, source), Resolves(operations, source)
               PROVE  DependenciesError(Resolved(operations, source), source) = "ok"
    BY DEF ReorderedIsValid
  <2> DEFINE new == Resolved(operations, source)
  <2>1. Placed(operations, source, Len(operations), Order(operations, source), new)
    BY ResolvedIsPlaced DEF BatchInv
  <2> HIDE DEF new
  <2>2. DependenciesError(new, source) = "ok"
    BY <2>1, DependenciesOk
  <2> QED BY <2>2 DEF new
<1> QED BY <1>1, BatchInductive, PTL
=============================================================================
