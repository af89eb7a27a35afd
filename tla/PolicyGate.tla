----------------------------- MODULE PolicyGate -----------------------------
(***************************************************************************)
(* The local policy engine (packages/policy/src/evaluation.ts): whether a  *)
(* set of rules allows one spend at one moment.  Pure definitions, used by *)
(* the modules that gate something on a policy.                            *)
(*                                                                         *)
(* An address is a record of the account it names and the spelling it is   *)
(* written in; Blank is the missing or empty one.  A clock value is a      *)
(* number of hours since the midnight before a Sunday, UTC.                *)
(***************************************************************************)
EXTENDS Integers, FiniteSets, Sequences, Optional

CONSTANT Blank        \* no address

-----------------------------------------------------------------------------
(* Addresses: case, padding and the like never tell two spellings of one   *)
(* account apart, and a missing address equals nothing, itself included.   *)

NormalizeAddress(address) == IF address = Blank THEN Blank ELSE address.account

AddressesMatch(a, b) ==
  /\ NormalizeAddress(a) # Blank
  /\ NormalizeAddress(a) = NormalizeAddress(b)

MatchesAny(address, list) == \E entry \in list : AddressesMatch(address, entry)

-----------------------------------------------------------------------------
(* Hours: a window of whole hours in the zone of the rule, which may wrap  *)
(* past midnight; a window with a missing or odd bound restricts nothing.  *)

HourOf(at, zone) == (at + zone) % 24
DayOf(at, zone) == ((at + zone) \div 24) % 7

InWindow(hour, start, end) ==
  \/ start = end
  \/ start < end /\ hour \in start .. end - 1
  \/ start > end /\ (hour >= start \/ hour < end)

IsActionWithinAllowedHours(hours, at) ==
  \/ Unset \in {hours.startHour, hours.endHour}
  \/ /\ hours.days = {} \/ DayOf(at, hours.zone) \in hours.days
     /\ InWindow(HourOf(at, hours.zone), hours.startHour, hours.endHour)

-----------------------------------------------------------------------------
(* One rule, and all of them: every enabled rule must pass every check it  *)
(* configures, so an empty set of rules allows everything.                 *)

FailedChecks(rule, details, at) ==
  {check \in {"allowed", "blocked", "time", "signatures"} :
     \/ /\ check = "allowed" /\ rule.allowedRecipients # {}
        /\ ~MatchesAny(details.recipientAddress, rule.allowedRecipients)
     \/ check = "blocked" /\ MatchesAny(details.recipientAddress, rule.blockedRecipients)
     \/ /\ check = "time" /\ rule.allowedHours # Unset
        /\ ~IsActionWithinAllowedHours(rule.allowedHours, at)
     \/ /\ check = "signatures" /\ rule.requiredSignatures # Unset
        /\ details.signedWeight < rule.requiredSignatures}

EnabledRules(policySet) == {rule \in policySet : rule.enabled}

FailedRules(policySet, details, at) ==
  {rule \in EnabledRules(policySet) : FailedChecks(rule, details, at) # {}}

EvaluationDate(details, now) == IF details.timestamp # Unset THEN details.timestamp ELSE now

Allows(policySet, details, now) ==
  FailedRules(policySet, details, EvaluationDate(details, now)) = {}
=============================================================================
