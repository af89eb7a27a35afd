---------------------------- MODULE MCSubmission ----------------------------
(* Calls over two envelopes of consecutive sequence numbers: one straight  *)
(* to Horizon or through the API, one gated, one that retries the later    *)
(* envelope until its predecessor has landed, one with a garbled envelope. *)
(* The night window of the policy opens at 23 and closes at 1; the clock   *)
(* runs across both.                                                       *)
EXTENDS Submission, TLC

CONSTANTS direct, gated, retrying, broken, first, second, garbled

MCPath(function) == (direct :> function) @@ (gated :> "gated") @@ (retrying :> "retrying") @@ (broken :> "gated")
MCPaths == {MCPath("horizon"), MCPath("api")}
MCEnv == (direct :> second) @@ (gated :> first) @@ (retrying :> second) @@ (broken :> garbled)
MCNow == [c \in Calls |-> Unset]

Address(account) == [account |-> account, spelling |-> "lower"]
Listed(account) == [account |-> account, spelling |-> "upper"]
Payment(account, amount) == [type |-> "payment", destination |-> Address(account), amount |-> amount]
Data == [type |-> "manageData", destination |-> Blank, amount |-> 0]

MCBody ==
  (first :> [sequence |-> 1, maxTime |-> 25, valid |-> TRUE, operations |-> <<Data, Payment("shop", 1)>>]) @@
  (second :> [sequence |-> 2, maxTime |-> 26, valid |-> TRUE,
              operations |-> <<Payment("shop", 1), Payment("casino", 9)>>]) @@
  (garbled :> [sequence |-> 3, maxTime |-> 26, valid |-> FALSE, operations |-> <<>>])

MCPolicySet ==
  {[name |-> "night", enabled |-> TRUE, allowedRecipients |-> {}, blockedRecipients |-> {Listed("casino")},
    allowedHours |-> [startHour |-> 23, endHour |-> 1, zone |-> 0, days |-> {}], requiredSignatures |-> Unset],
   [name |-> "off", enabled |-> FALSE, allowedRecipients |-> {}, blockedRecipients |-> {Listed("shop")},
    allowedHours |-> Unset, requiredSignatures |-> 2]}
=============================================================================
