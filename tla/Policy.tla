------------------------------- MODULE Policy -------------------------------
(***************************************************************************)
(* Spending policies (packages/policy): an operator composes rules with    *)
(* PolicyRuleBuilder, or imports a configuration through                   *)
(* validatePolicyConfig(), and publishes them; agents may select the rules *)
(* of their scope and simulate a payment against them.  Three engines      *)
(* judge the same rules: simulatePolicy(), simulatePolicyLocal(), and the  *)
(* gate of PolicyGate; and three parsers read what a server says of a      *)
(* payment.                                                                *)
(*                                                                         *)
(* A rule's conditions are a function of the families of rule types, Unset *)
(* where a family is not configured; lists are sets.  An amount counts in  *)
(* a unit of which an amount of seven decimals has a multiple of ten; a    *)
(* payment's amount is a string of any precision, a configured limit is a  *)
(* number, and ParseFloat is the number nearest to a string.  The other    *)
(* names under which simulatePolicyLocal() looks for a limit or a list     *)
(* (limit, assets, recipients, destinationDenylist) are not modelled.      *)
(***************************************************************************)
EXTENDS PolicyGate

CONSTANTS
  Agents, Addresses, Assets, Amounts, Times, Weights,   \* what builder calls are given
  Configs,         \* configurations to import
  Transactions,    \* payments: asset, amount, recipientAddress, spentInWindow
  Explicit,        \* the types given to ofType()
  ParseFloat(_),   \* the double nearest to an amount
  MaxCalls         \* bound: calls of builders and imports

Amount == {"MAX_AMOUNT", "MIN_AMOUNT"}
Budgets == {"DAILY_BUDGET", "WEEKLY_BUDGET", "MONTHLY_BUDGET"}
Recipients == {"ALLOWED_RECIPIENTS", "BLOCKED_RECIPIENTS"}
AssetLists == {"ALLOWED_ASSETS", "BLOCKED_ASSETS"}
Lists == Recipients \union AssetLists
Families == Amount \union Budgets \union Lists \union {"TIME_WINDOW"}
Types == Families \union {"DEPARTMENT_RULE", "AGENT_RULE", "EMERGENCY_LOCK", "COMPOSITE"}

VARIABLES
  draft,      \* the state of the builder at hand
  calls,      \* builder calls and imports so far
  policies    \* the published rules

policyVars == <<draft, calls, policies>>

NewBuilder ==
  [type |-> Unset, agentId |-> Unset, enabled |-> TRUE,
   conditions |-> [f \in Families |-> Unset], asset |-> Unset, allowedHours |-> Unset,
   requiresApproval |-> Unset, requiredSignatures |-> Unset]

(* What an optional number, an address and a rule are. *)

Optional(numbers) == numbers \union {Unset}

IsAddress(address) ==
  \/ address = Blank
  \/ /\ address = [account |-> address.account, spelling |-> address.spelling]
     /\ address.account # Blank
     /\ [account |-> address.account, spelling |-> "exact"] # Blank

(* The numbers that a builder call or an import may give as a limit. *)
LimitValues ==
  Amounts \union ({config.conditions[f] : config \in Configs, f \in Amount \union Budgets} \ {Unset})

IsRule(rule) ==
  /\ rule = [type |-> rule.type, agentId |-> rule.agentId, enabled |-> rule.enabled,
             conditions |-> [f \in Families |-> rule.conditions[f]],
             asset |-> rule.asset, allowedHours |-> rule.allowedHours,
             requiresApproval |-> rule.requiresApproval,
             requiredSignatures |-> rule.requiredSignatures]
  /\ \A f \in Amount \union Budgets : rule.conditions[f] \in Optional(LimitValues)
  /\ \A f \in Recipients : rule.conditions[f] # Unset =>
       \A address \in rule.conditions[f] : IsAddress(address)
  /\ rule.requiredSignatures \in Optional(Int)

ASSUME PolicyAssumption ==
  /\ Unset \notin Int \union BOOLEAN \union {"empty", "listed", "unreadable"}
  /\ LimitValues \subseteq Int /\ Weights \subseteq Optional(Int)
  /\ \A addresses \in Addresses : \A address \in addresses : IsAddress(address)
  /\ \A config \in Configs : IsRule(config)
  /\ \A tx \in Transactions :
       /\ tx.amount \in Nat /\ ParseFloat(tx.amount) \in Int
       /\ tx.spentInWindow \in Optional(Nat) /\ IsAddress(tx.recipientAddress)

(* LimitValues are doubles, so that rounding to the nearest double takes no     *)
(* amount across a limit.                                                  *)
ASSUME RoundingAssumption ==
  \A tx \in Transactions, limit \in LimitValues :
    /\ tx.amount <= limit => ParseFloat(tx.amount) <= limit
    /\ limit <= tx.amount => limit <= ParseFloat(tx.amount)

PolicyInit ==
  /\ draft = NewBuilder /\ calls = 0
  /\ policies = {}

-----------------------------------------------------------------------------
(* What is valid. *)

IsValidPolicyAddress(address) == address # Blank
IsValidPolicyAsset(asset) == asset.code # Blank
Trimmed(address) == [address EXCEPT !.spelling = "exact"]

IsPositiveAmount(amount) == amount > 0 /\ amount % 10 = 0

Below(a, b) == a # Unset /\ b # Unset /\ a < b
Configured(conditions) ==
  {f \in Families : conditions[f] # Unset /\ (f \in Lists => conditions[f] # {})}

InferPolicyType(conditions) ==
  LET families == Configured(conditions)
  IN CASE families = {} -> Unset
       [] Cardinality(families) = 1 -> CHOOSE f \in families : TRUE
       [] OTHER -> "COMPOSITE"

(* validatePolicyRule() *)
ValuesValid(conditions) ==
  /\ \A f \in Amount \union Budgets : conditions[f] # Unset => IsPositiveAmount(conditions[f])
  /\ \A f \in Recipients : conditions[f] # Unset =>
       conditions[f] # {} /\ \A a \in conditions[f] : IsValidPolicyAddress(a)
  /\ \A f \in AssetLists : conditions[f] # Unset =>
       conditions[f] # {} /\ \A a \in conditions[f] : IsValidPolicyAsset(a)
  /\ conditions["TIME_WINDOW"] # Unset => conditions["TIME_WINDOW"].start < conditions["TIME_WINDOW"].end

PolicyRuleValidInParts(rule) ==
  /\ rule.type # Unset
  /\ rule.type \in Families => rule.conditions[rule.type] # Unset
  /\ ValuesValid(rule.conditions)
  /\ rule.requiredSignatures # Unset => rule.requiredSignatures > 0

PolicyRuleValid(rule) ==
  /\ rule.type # Unset
  /\ rule.type \in Families => rule.conditions[rule.type] # Unset
  /\ ValuesValid(rule.conditions)
  /\ ~Below(rule.conditions["MAX_AMOUNT"], rule.conditions["MIN_AMOUNT"])
  /\ rule.requiredSignatures # Unset => rule.requiredSignatures > 0 /\ rule.requiresApproval # FALSE

(* validatePolicyConfig() *)
LimitsValid(conditions) ==
  /\ \A f \in Amount \union Budgets : conditions[f] # Unset => conditions[f] >= 0
  /\ ~Below(conditions["MAX_AMOUNT"], conditions["MIN_AMOUNT"])

AssetsValid(config) ==
  \A asset \in (UNION ({{config.asset}} \union ({config.conditions[f] : f \in AssetLists} \ {Unset}))) \ {Unset} :
    IsValidPolicyAsset(asset)

RecipientsValid(conditions) ==
  \A f \in Recipients : conditions[f] # Unset => \A a \in conditions[f] : IsValidPolicyAddress(a)

TimesValid(config) ==
  /\ config.conditions["TIME_WINDOW"] # Unset =>
       config.conditions["TIME_WINDOW"].start < config.conditions["TIME_WINDOW"].end
  /\ config.allowedHours # Unset =>
       /\ {config.allowedHours.startHour, config.allowedHours.endHour} \subseteq 0 .. 23
       /\ config.allowedHours.days \subseteq 0 .. 6

PolicyConfigValid(config) ==
  /\ LimitsValid(config.conditions) /\ AssetsValid(config) /\ RecipientsValid(config.conditions)
  /\ TimesValid(config)
  /\ config.requiredSignatures # Unset => config.requiredSignatures > 0

(* What it returns: recipients and the strings of a time window trimmed,   *)
(* the window being exact when none of its strings has blanks around it.   *)
(* Assets are trimmed here and in the builder, so the model has no padded  *)
(* ones; a zone of allowed hours is the one its trimmed name names.        *)
TrimmedWindow(config) ==
  LET Exact(window) == [start |-> window.start, end |-> window.end, exact |-> TRUE]
  IN [config EXCEPT !.conditions["TIME_WINDOW"] = IF @ = Unset THEN Unset ELSE Exact(@)]

TrimmedRecipients(config) ==
  [config EXCEPT !.conditions =
     [f \in Families |-> IF f \in Recipients /\ @[f] # Unset THEN {Trimmed(a) : a \in @[f]} ELSE @[f]]]

Sanitized(config) == TrimmedRecipients(TrimmedWindow(config))

-----------------------------------------------------------------------------
(* The builder: every call forks it; one that throws leaves it as it was. *)

Fork(builder) ==
  /\ calls < MaxCalls /\ calls' = calls + 1
  /\ draft' = builder
  /\ policies' = policies

With(family, value) == Fork([draft EXCEPT !.conditions[family] = value])

Listed(family) == IF draft.conditions[family] = Unset THEN {} ELSE draft.conditions[family]

NameRecipients(family, addresses) ==
  /\ \A a \in addresses : IsValidPolicyAddress(a)
  /\ With(family, Listed(family) \union {Trimmed(a) : a \in addresses})

NameAssets(family, assets) ==
  /\ \A a \in assets : IsValidPolicyAsset(a)
  /\ With(family, Listed(family) \union assets)

MaxAmount(amount) == IsPositiveAmount(amount) /\ With("MAX_AMOUNT", amount)

MinAmount(amount) ==
  /\ IsPositiveAmount(amount) /\ ~Below(draft.conditions["MAX_AMOUNT"], amount)
  /\ With("MIN_AMOUNT", amount)

Limit(family, amount) == IsPositiveAmount(amount) /\ With(family, amount)

(* The strings are kept as they are given. *)
TimeWindow(start, end, exact) ==
  start < end /\ With("TIME_WINDOW", [start |-> start, end |-> end, exact |-> exact])

RequireApproval(required, count) ==
  /\ count # Unset => count > 0
  /\ Fork([draft EXCEPT !.requiresApproval = required,
                        !.requiredSignatures = IF count = Unset THEN @ ELSE count])

RequiredSignatures(count) == count > 0 /\ Fork([draft EXCEPT !.requiredSignatures = count])

Describe(type, agentId, enabled) ==
  Fork([draft EXCEPT !.type = type, !.agentId = agentId, !.enabled = enabled])

Built(builder) ==
  [builder EXCEPT !.type = IF @ = Unset THEN InferPolicyType(builder.conditions) ELSE @]

(* Another builder is made, this one forgotten. *)
StartOver == draft' = NewBuilder /\ UNCHANGED <<calls, policies>>

Publish ==
  /\ PolicyRuleValid(Built(draft))
  /\ policies' = policies \union {Built(draft)}
  /\ draft' = NewBuilder
  /\ calls' = calls

Import(config) ==
  /\ calls < MaxCalls /\ calls' = calls + 1
  /\ PolicyConfigValid(config)
  /\ policies' = policies \union {Sanitized(config)}
  /\ draft' = draft

-----------------------------------------------------------------------------
(* Which rules apply: asset lists that allow narrow the scope of a rule,   *)
(* lists that block do not.                                                *)

AssetMatches(configured, actual) ==
  /\ configured.code = actual.code
  /\ configured.issuer \in {Unset, actual.issuer}

SomeMatches(assets, actual) == \E a \in assets : AssetMatches(a, actual)

MatchesAsset(policy, asset) ==
  /\ policy.asset # Unset => AssetMatches(policy.asset, asset)
  /\ policy.conditions["ALLOWED_ASSETS"] \notin {Unset, {}} =>
       SomeMatches(policy.conditions["ALLOWED_ASSETS"], asset)

MatchesPolicyScope(policy, scope) ==
  /\ policy.enabled
  /\ policy.agentId \in {Unset, scope.agentId}
  /\ MatchesAsset(policy, scope.asset)

MatchPolicies(rules, scope) == {p \in rules : MatchesPolicyScope(p, scope)}

-----------------------------------------------------------------------------
(* simulatePolicy(): one evaluator for each type; a rule of a type without *)
(* one is not evaluated.                                                   *)

Projected(tx) == IF tx.spentInWindow = Unset THEN tx.amount ELSE tx.spentInWindow + tx.amount

Breaks(family, value, tx) ==
  /\ value # Unset
  /\ CASE family = "MAX_AMOUNT" -> tx.amount > value
       [] family = "MIN_AMOUNT" -> tx.amount < value
       [] family \in Budgets -> Projected(tx) > value
       [] family = "ALLOWED_RECIPIENTS" -> value # {} /\ tx.recipientAddress \notin value
       [] family = "BLOCKED_RECIPIENTS" -> tx.recipientAddress \in value
       [] family = "ALLOWED_ASSETS" -> value # {} /\ ~SomeMatches(value, tx.asset)
       [] family = "BLOCKED_ASSETS" -> SomeMatches(value, tx.asset)

Evaluators == Amount \union Budgets \union Lists

SimulatePolicy(rules, tx) ==
  {p \in rules : p.enabled /\ p.type \in Evaluators /\ Breaks(p.type, p.conditions[p.type], tx)}

(* simulatePolicyLocal(), for one operation: whatever its type, a rule's   *)
(* maximum and lists are checked, by exact spelling, where the operation   *)
(* names what they are about.  Amounts are compared as doubles, a maximum  *)
(* of 0 is none, and minima and budgets are not looked at.                 *)
LocalBreaksByCode(p, op) ==
  {f \in Lists \union {"MAX_AMOUNT"} :
     /\ p.conditions[f] # Unset
     /\ CASE f = "MAX_AMOUNT" -> p.conditions[f] > 0 /\ ParseFloat(op.amount) > p.conditions[f]
          [] f = "ALLOWED_ASSETS" -> p.conditions[f] # {} /\ ~SomeMatches(p.conditions[f], op.asset)
          [] f = "BLOCKED_ASSETS" -> \E a \in p.conditions[f] : a.code = op.asset.code /\ a.issuer = Unset
          [] f = "ALLOWED_RECIPIENTS" -> p.conditions[f] # {} /\ op.recipientAddress \notin p.conditions[f] \union {Blank}
          [] f = "BLOCKED_RECIPIENTS" -> op.recipientAddress \in p.conditions[f]}
LocalBreaks(p, op) ==
  {f \in Lists \union {"MAX_AMOUNT"} :
     /\ p.conditions[f] # Unset
     /\ CASE f = "MAX_AMOUNT" -> p.conditions[f] > 0 /\ ParseFloat(op.amount) > p.conditions[f]
          [] f = "ALLOWED_ASSETS" -> p.conditions[f] # {} /\ op.asset \notin p.conditions[f]
          [] f = "BLOCKED_ASSETS" -> op.asset \in p.conditions[f]
          [] f = "ALLOWED_RECIPIENTS" -> p.conditions[f] # {} /\ op.recipientAddress \notin p.conditions[f] \union {Blank}
          [] f = "BLOCKED_RECIPIENTS" -> op.recipientAddress \in p.conditions[f]}

SimulatePolicyLocal(rules, op) == {p \in rules : p.enabled /\ LocalBreaks(p, op) # {}}

(* policySetFromPolicies(): what the gate makes of a rule. *)
GateRule(p) ==
  [enabled |-> TRUE,
   allowedRecipients |-> IF p.conditions["ALLOWED_RECIPIENTS"] = Unset THEN {} ELSE p.conditions["ALLOWED_RECIPIENTS"],
   blockedRecipients |-> IF p.conditions["BLOCKED_RECIPIENTS"] = Unset THEN {} ELSE p.conditions["BLOCKED_RECIPIENTS"],
   allowedHours |-> p.allowedHours, requiredSignatures |-> p.requiredSignatures]

PolicySetFromPolicies(rules) == {GateRule(p) : p \in {q \in rules : q.enabled}}

-----------------------------------------------------------------------------
(* What a server says of a payment: any of these fields, and three readers *)
(* of them.  A reading is "allowed", "denied", or "malformed", an error.   *)
(* Of a list of violations it matters whether it is empty and whether an   *)
(* entry of it can be read, which one of null or '' cannot.                *)

FirstOf(values) ==
  LET given == {i \in DOMAIN values : values[i] # Unset}
  IN IF given = {} THEN Unset ELSE values[CHOOSE i \in given : \A j \in given : i <= j]

Reading(allowed) == IF allowed THEN "allowed" ELSE "denied"

ToPolicySimulationEvaluation(raw) ==
  LET reported == FirstOf(<<raw.allowed, raw.passed>>)
  IN IF reported # Unset THEN Reading(reported)
     ELSE IF raw.violations # Unset THEN Reading(raw.violations = "empty") ELSE "malformed"

ToPolicyEvaluationOutcomeWithoutDenied(raw) ==
  LET reported == FirstOf(<<raw.allowed, raw.passed>>)
  IN IF reported # Unset THEN Reading(reported) ELSE Reading(raw.violations \in {Unset, "empty"})
ToPolicyEvaluationOutcome(raw) ==
  LET reported == FirstOf(<<raw.allowed, raw.passed>>)
  IN IF reported # Unset THEN Reading(reported)
     ELSE IF raw.denied # Unset THEN Reading(~raw.denied)
     ELSE IF raw.violations # Unset THEN Reading(raw.violations = "empty") ELSE "malformed"

(* The one that reads "success" too; it counts the violations that it can  *)
(* read, and makes nothing of "denied" and "failed".                       *)
ParseSimulationResult(raw) ==
  LET reported == FirstOf(<<raw.passed, raw.success, raw.allowed>>)
  IN IF reported # Unset THEN Reading(reported) ELSE Reading(raw.violations # "listed")

(* A server's answer, in the field or fields it likes. *)
Answer(fields, violations, list) ==
  LET Said(field, value) == IF field \in fields THEN value ELSE Unset
      fine == violations = {}
  IN [allowed |-> Said("allowed", fine), passed |-> Said("passed", fine), success |-> Said("success", fine),
      denied |-> Said("denied", ~fine), failed |-> Said("failed", ~fine),
      violations |-> Said("violations", IF fine THEN "empty" ELSE list)]

Fields == {"allowed", "passed", "success", "denied", "failed", "violations"}

-----------------------------------------------------------------------------

Build ==
  \/ \E f \in Recipients, addresses \in Addresses : NameRecipients(f, addresses)
  \/ \E f \in AssetLists, assets \in Assets : NameAssets(f, assets)
  \/ \E amount \in Amounts : MaxAmount(amount) \/ MinAmount(amount)
  \/ \E f \in Budgets, amount \in Amounts : Limit(f, amount)
  \/ \E start, end \in Times, exact \in BOOLEAN : TimeWindow(start, end, exact)
  \/ \E required \in BOOLEAN, count \in Weights : RequireApproval(required, count)
  \/ \E count \in Weights \ {Unset} : RequiredSignatures(count)
  \/ \E type \in Explicit, agentId \in Agents \union {Unset}, enabled \in BOOLEAN :
       Describe(type, agentId, enabled)

PolicyNext ==
  \/ Build
  \/ StartOver
  \/ Publish
  \/ \E config \in Configs : Import(config)

PolicySpec == PolicyInit /\ [][PolicyNext]_policyVars

-----------------------------------------------------------------------------
(* Properties. *)

(* However the calls are ordered, maxAmount() after minAmount() or an      *)
(* approval withdrawn, a rule that build() hands out is one that           *)
(* validatePolicyConfig() accepts and leaves as it is but for blanks       *)
(* around the strings of a time window, which the builder keeps; and its   *)
(* approval settings do not contradict each other.  An imported rule can   *)
(* be imported again and stays as it is.                                   *)
RulesConsistent ==
  \A p \in policies :
    LET imported == p \in {Sanitized(config) : config \in Configs}
    IN /\ PolicyConfigValid(p) /\ Sanitized(p) = TrimmedWindow(p)
       /\ imported => Sanitized(p) = p
       /\ ~imported /\ p.requiresApproval = FALSE => p.requiredSignatures = Unset

(* The engines agree on the families that both look at.  What              *)
(* simulatePolicy() finds, simulatePolicyLocal() finds too, but for a      *)
(* maximum of 0, an amount that a double cannot tell from the maximum,     *)
(* assets that are spelled apart and a payment without a recipient; what   *)
(* the local one finds in the family of a rule's type, simulatePolicy()    *)
(* finds, but for a list of allowed assets; and a recipient that           *)
(* simulatePolicy() refuses, written as the builder writes it, the gate    *)
(* refuses.  Selecting the rules of the payment's scope first loses no     *)
(* refusal but those by rules of another agent, by rules pinned to an      *)
(* asset, and by rules with a list of allowed assets, which                *)
(* matchesPolicyScope() drops when the list does not have the asset.       *)
EnginesAgree ==
  \A tx \in Transactions :
    /\ \A p \in SimulatePolicy(policies, tx) :
         /\ ( /\ p.type \in Lists \union {"MAX_AMOUNT"}
              /\ p.type = "MAX_AMOUNT" => p.conditions["MAX_AMOUNT"] \notin {0, ParseFloat(tx.amount)}
              /\ p.type \in AssetLists => \A a \in p.conditions[p.type] : AssetMatches(a, tx.asset) => a = tx.asset
              /\ tx.recipientAddress # Blank )
            => p \in SimulatePolicyLocal(policies, tx)
         /\ (p.type \in Recipients /\ (tx.recipientAddress # Blank => tx.recipientAddress.spelling = "exact"))
            => ~Allows(PolicySetFromPolicies(policies),
                       [recipientAddress |-> tx.recipientAddress, timestamp |-> 0, signedWeight |-> 0], 0)
    /\ \A p \in SimulatePolicyLocal(policies, tx) :
         p.type \in LocalBreaks(p, tx) \ {"ALLOWED_ASSETS"} => p \in SimulatePolicy(policies, tx)
    /\ \A agent \in Agents, p \in SimulatePolicy(policies, tx) :
         p.agentId \in {Unset, agent} /\ p.asset = Unset /\ p.conditions["ALLOWED_ASSETS"] = Unset
         => p \in MatchPolicies(policies, [agentId |-> agent, asset |-> tx.asset])

(* Whatever fields a server answers with, no reader takes a refusal for a  *)
(* permission or a permission for a refusal, and the reader of rule        *)
(* evaluations makes something of every answer with a field it reads.  Not *)
(* so parseSimulationResult(): an answer that decides by nothing but       *)
(* "denied", "failed" or violations that cannot be read is left out, as it *)
(* reports a pass.                                                         *)
AnswersAreRead ==
  \A tx \in Transactions, fields \in SUBSET Fields \ {{}}, list \in {"listed", "unreadable"} :
    LET violations == SimulatePolicy(policies, tx)
        raw == Answer(fields, violations, list)
        verdict == Reading(violations = {})
    IN /\ ToPolicyEvaluationOutcome(raw) =
            IF fields \subseteq {"success", "failed"} THEN "malformed" ELSE verdict
       /\ ToPolicySimulationEvaluation(raw) \in {verdict, "malformed"}
       /\ ( \/ fields \intersect {"allowed", "passed", "success"} # {}
            \/ "violations" \in fields /\ list = "listed" )
          => ParseSimulationResult(raw) = verdict
=============================================================================
