------------------------------- MODULE MCGate -------------------------------
(***************************************************************************)
(* Instances of the admission gate for TLC: one feature, and plan keys     *)
(* free and pro, which not every catalog defines.                          *)
(***************************************************************************)
EXTENDS AdmissionGate, TLC

CONSTANTS monitoring, projects, seats, free, pro

PlanWith(features, hard) == [features |-> features, limits |-> [r \in Resources |-> hard]]

CatalogOf(plans, default) ==
  [features |-> UNION {plans[k].features : k \in DOMAIN plans},
   plans    |-> plans @@ [k \in PlanKeys |-> None],
   default  |-> default]

(* Free has one row and no feature, pro two and monitoring. *)
Tiers == CatalogOf(free :> PlanWith({}, 1) @@ pro :> PlanWith({monitoring}, 2), free)
(* pro is withdrawn and free gets monitoring, but its resources are not listed. *)
Withdrawn == CatalogOf(free :> PlanWith({monitoring}, None), free)
(* pro is unlimited; the default is not among the plans, so free is no plan. *)
NoDefault == CatalogOf(pro :> PlanWith({monitoring}, Unlimited), free)

(* One plan only, with one row or with two. *)
One == CatalogOf(free :> PlanWith({}, 1), free)
Two == CatalogOf(free :> PlanWith({}, 2), free)

AllCatalogs == {Tiers, Withdrawn, NoDefault}
OneAndTwo   == {One, Two}
JustTiers   == {Tiers}
JustOne     == {One}

FeatureCheck     == [kind |-> "feature", key |-> monitoring]
LimitCheck(r)    == [kind |-> "limit", key |-> r]
LimitRoutes      == {<<LimitCheck(r)>> : r \in Resources}
CombinedRoutes   == {<<FeatureCheck, LimitCheck(r)>> : r \in Resources}
CreateRoutes     == {<<LimitCheck(projects)>>, <<LimitCheck(projects), LimitCheck(seats)>>}
AllRoutes        == LimitRoutes \cup CombinedRoutes
                      \cup {<<FeatureCheck>>, <<[kind |-> "other"], FeatureCheck>>}

Symmetry == Permutations(Workers)
=============================================================================
