------------------------------ MODULE MCPolicy ------------------------------
(* Two agents, two accounts and two currencies, one of them by an issuer   *)
(* or without; a few builder calls or imports.                             *)
EXTENDS Policy

CONSTANTS here, there

Address(account) == [account |-> account, spelling |-> "exact"]
Padded(account) == [account |-> account, spelling |-> "padded"]
Asset(code, issuer) == [code |-> code, issuer |-> issuer, spelling |-> "upper"]
Lower(code, issuer) == [code |-> code, issuer |-> issuer, spelling |-> "lower"]

MCAddresses == {{Address("shop")}, {Padded("casino")}, {Blank}}
MCAssets == {{Asset("USDC", Unset)}, {Asset("USDC", "circle")}, {Asset(Blank, Unset)}}
MCAmounts == {5, 10, 20}
MCTimes == {0, 1}
MCWeights == {Unset, 0, 2}
MCExplicit == {Unset, "DAILY_BUDGET"}

Config(family, value) == [NewBuilder EXCEPT !.type = family, !.conditions[family] = value]

MCConfigs ==
  {Config("MAX_AMOUNT", 0), Config("ALLOWED_RECIPIENTS", {Padded("shop")}), Config("BLOCKED_ASSETS", {}),
   [Config("MAX_AMOUNT", 10) EXCEPT !.asset = Lower("XLM", Unset)],
   [Config("BLOCKED_RECIPIENTS", {Address("casino")}) EXCEPT
      !.allowedHours = [startHour |-> 22, endHour |-> 6, zone |-> 0, days |-> {0}]],
   Config("TIME_WINDOW", [start |-> 0, end |-> 1, exact |-> FALSE]),
   [Config("MIN_AMOUNT", 20) EXCEPT !.conditions["MAX_AMOUNT"] = 10]}

(* One unit is below the precision of a double. *)
MCParseFloat(amount) == amount - (amount % 5)

Transfer(asset, amount, recipient, spent) ==
  [asset |-> asset, amount |-> amount, recipientAddress |-> recipient, spentInWindow |-> spent]

MCTransactions ==
  {Transfer(Asset("USDC", "circle"), 10, Address("shop"), Unset),
   Transfer(Lower("USDC", "other"), 20, Address("casino"), 0),
   Transfer(Asset("XLM", Unset), 11, Padded("casino"), 10),
   Transfer(Asset("XLM", Unset), 20, Blank, Unset)}
=============================================================================
