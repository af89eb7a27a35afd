------------------------------ MODULE FeeRules ------------------------------
(***************************************************************************)
(* What the builders of the transaction package share: the limits of an    *)
(* envelope, the order of checks and the checks of a fee bid.              *)
(***************************************************************************)
EXTENDS Integers, Sequences

CONSTANTS MinBaseFee,     \* MIN_BASE_FEE_STROOPS
          MaxTotalFee,    \* MAX_TOTAL_FEE_STROOPS
          MaxOperations   \* MAX_OPERATIONS

AtLeast(x, floor) == IF x < floor THEN floor ELSE x

\* The code of a check that fails, and the first failing check of a function
\* that throws: the order of the codes is the order of the checks.
Fails(condition, code) == IF condition THEN code ELSE "ok"

FirstOf(codes) ==
  LET failing == {i \in DOMAIN codes : codes[i] # "ok"}
  IN  IF failing = {} THEN "ok" ELSE codes[CHOOSE i \in failing : \A j \in failing : i <= j]

\* The fee checks of validateOperationSequence() and of the batch's validate()
BidError(fee, n) ==
  FirstOf(<<Fails(fee < 0, "INVALID_FEE"),
            Fails(fee < n * MinBaseFee, "FEE_BELOW_MINIMUM"),
            Fails(fee > MaxTotalFee, "FEE_BID_TOO_HIGH")>>)

PerOperationFeeRoundedUp(bid, n) == AtLeast((bid + n - 1) \div n, MinBaseFee)

\* A bid for the whole transaction, shared out over its operations
PerOperationFee(bid, n) == AtLeast(bid \div n, MinBaseFee)
=============================================================================
