------------------------------- MODULE Catalog -------------------------------
(***************************************************************************)
(* The billing catalog and the questions the enforcer asks of it           *)
(* (plancraft/core/models.py, registry.py and the lookups of enforcer.py). *)
(*                                                                         *)
(* A plan is the set of features it lists and, for each resource, its hard *)
(* limit, or None where plan.limits has no entry.  An int entry and a      *)
(* LimitConfig with that `hard' are the same thing here: `soft' only       *)
(* triggers a log line and `grace_days' is never read.                     *)
(***************************************************************************)
EXTENDS Integers, FiniteSets

CONSTANTS
  FeatureKeys,   \* feature keys a catalog or a route may name
  PlanKeys,      \* plan keys, those an entity may carry by mistake included
  Resources,     \* countable resources
  None           \* Python's None: no such entry

ASSUME NoneAssumption == None \notin Int /\ None \notin [features : SUBSET FeatureKeys, limits : [Resources -> Int \cup {None}]]

Unlimited == -1                          \* LimitConfig.hard = -1

Plan == [features : SUBSET FeatureKeys, limits : [Resources -> Int \cup {None}]]

(* The arguments of reload_catalog(); `plans' maps an absent key to None. *)
CatalogData == [features : SUBSET FeatureKeys,
                plans    : [PlanKeys -> Plan \cup {None}],
                default  : PlanKeys]

-----------------------------------------------------------------------------
(* Plan.get_limit(r).hard: a resource the plan does not mention has quota 0. *)
PlanLimit(plan, r) == IF plan.limits[r] = None THEN 0 ELSE plan.limits[r]

(* Registry.get_plan(k): an unknown key falls back to the default plan; None *)
(* stands for the ValueError raised when the default is missing as well.     *)
GetPlan(reg, k) == IF reg.plans[k] # None THEN reg.plans[k] ELSE reg.plans[reg.default]

(* Registry.register(): entries are added over those already there. *)
Register(reg, cat, counters) ==
  [features |-> reg.features \cup cat.features,
   plans    |-> [k \in PlanKeys |-> IF cat.plans[k] # None THEN cat.plans[k] ELSE reg.plans[k]],
   default  |-> cat.default,
   counters |-> reg.counters \cup counters]

(* PlanCraft.reload_catalog(): clear features and plans, keep the counters. *)
Reload(reg, cat) ==
  Register([reg EXCEPT !.features = {}, !.plans = [k \in PlanKeys |-> None]],
           cat, reg.counters)

(* Enforcer.can() without overrides: "error" is the ValueError of an unknown *)
(* feature or of a catalog without even a default plan.                      *)
FeatureVerdict(reg, k, f) ==
  IF f \notin reg.features \/ GetPlan(reg, k) = None THEN "error"
  ELSE IF f \in GetPlan(reg, k).features THEN "allowed" ELSE "refused"
=============================================================================
