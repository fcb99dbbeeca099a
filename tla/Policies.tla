------------------------------ MODULE Policies ------------------------------
(***************************************************************************)
(* The evaluation of policies for one action on one resource               *)
(* (swx_core/services/policy/policy_engine.py).                            *)
(*                                                                         *)
(* The policies are those of the database and those of the registry.  The  *)
(* conditions compare one attribute, which actual describes.  The loop     *)
(* takes the policies by priority, equal ones in any order, and stops at   *)
(* the first that denies.                                                  *)
(***************************************************************************)
EXTENDS Integers

CONSTANTS
    PolicyIds,
    Operators,      \* operators of conditions, among them unknown ones
    Priorities

ASSUME PoliciesAssumption == Priorities \subseteq Int

VARIABLES
    policy,         \* policy[p]: its configuration
    actual,         \* the attribute: "equal" to the value, "different", "missing"
    left,           \* policies the loop has still to look at
    allowed,        \* allow_policy_matched
    decision        \* "none" while the loop is running

policyVars == <<policy, actual, left, allowed, decision>>

Configuration ==
    [effect: {"allow", "conditional", "deny"}, applies: BOOLEAN, enabled: BOOLEAN,
     conditions: SUBSET Operators, priority: Priorities]

PolicyTypeOK ==
    /\ policy \in [PolicyIds -> Configuration]
    /\ actual \in {"equal", "different", "missing"}
    /\ left \subseteq PolicyIds
    /\ allowed \in BOOLEAN
    /\ decision \in {"none", "allow", "deny"}
    /\ decision = "allow" => left = {}

(***************************************************************************)
(* A missing attribute passes not_exists only; an unknown operator never   *)
(* passes.                                                                 *)
(***************************************************************************)
Passes(operator) ==
    CASE operator = "eq" -> actual = "equal"
      [] operator = "ne" -> actual = "different"
      [] operator = "exists" -> actual # "missing"
      [] operator = "not_exists" -> actual = "missing"
      [] OTHER -> FALSE

Found(p) == policy[p].applies /\ policy[p].enabled

Matched(p) == \A c \in policy[p].conditions : Passes(c)

PolicyInit ==
    /\ policy \in [PolicyIds -> Configuration]
    /\ actual \in {"equal", "different", "missing"}
    /\ left = {p \in PolicyIds : Found(p)}
    /\ allowed = FALSE
    /\ decision = "none"

Foremost(p) == p \in left /\ \A q \in left : policy[q].priority <= policy[p].priority

(* Mutant: a denial counts only if nothing was allowed before it. *)
Evaluate_Outranked(p) ==
    /\ decision = "none"
    /\ Foremost(p)
    /\ left' = left \ {p}
    /\ allowed' = (allowed \/ (Matched(p) /\ policy[p].effect # "deny"))
    /\ decision' = IF Matched(p) /\ policy[p].effect = "deny" /\ ~ allowed THEN "deny" ELSE "none"
    /\ UNCHANGED <<policy, actual>>

Evaluate(p) ==
    /\ decision = "none"
    /\ Foremost(p)
    /\ left' = left \ {p}
    /\ allowed' = (allowed \/ (Matched(p) /\ policy[p].effect # "deny"))
    /\ decision' = IF Matched(p) /\ policy[p].effect = "deny" THEN "deny" ELSE "none"
    /\ UNCHANGED <<policy, actual>>

Decide ==
    /\ decision = "none"
    /\ left = {}
    /\ decision' = IF allowed THEN "allow" ELSE "deny"
    /\ UNCHANGED <<policy, actual, left, allowed>>

PolicyNext == Decide \/ \E p \in PolicyIds : Evaluate(p)

PolicySpec == PolicyInit /\ [][PolicyNext]_policyVars

-----------------------------------------------------------------------------

(***************************************************************************)
(* The result does not depend on priorities or on the order of the loop:   *)
(* allowed is what some applicable policy allows and none denies, however  *)
(* low the priority of the denial; everything else is denied.              *)
(***************************************************************************)
DecisionRight ==
    LET Speaks(effects) ==
            \E p \in PolicyIds : Found(p) /\ Matched(p) /\ policy[p].effect \in effects
    IN  decision # "none" =>
            (decision = "allow" <=> Speaks({"allow", "conditional"}) /\ ~ Speaks({"deny"}))
=============================================================================
