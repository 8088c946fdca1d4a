-------------------------- MODULE MCCatalogReload --------------------------
(***************************************************************************)
(* Instances of catalog reloads for TLC: two catalogs of tiers that share  *)
(* their default plan.                                                     *)
(***************************************************************************)
EXTENDS CatalogReload

CONSTANTS monitoring, projects, free, pro, team

PlanWith(features, hard) == [features |-> features, limits |-> [res \in Resources |-> hard]]

CatalogOf(order, plans, default) ==
  [features |-> UNION {plans[k].features : k \in DOMAIN plans},
   plans    |-> plans @@ [k \in PlanKeys |-> None],
   default  |-> default, order |-> order]

(* The feature is in two plans, and the one that is listed first sorts last. *)
Tiers == CatalogOf(<<free, team, pro>>,
  free :> PlanWith({}, 1) @@ team :> PlanWith({monitoring}, 2) @@ pro :> PlanWith({monitoring}, 2), free)
(* In another order; pro is gone, and so is the quota of free. *)
Renamed == CatalogOf(<<team, free>>, free :> PlanWith({}, None) @@ team :> PlanWith({monitoring}, Unlimited), free)
SomeCatalogs == {Tiers, Renamed}

OverrideOf(mine, live, granted) == [mine |-> mine, live |-> live, granted |-> granted, about |-> monitoring]
(* Reloaders do not differ, and the run checks invariants only. *)
ReloaderSymmetry == Permutations(Reloaders)

NoOverrides   == {<<>>}
SomeOverrides == {
  <<OverrideOf(FALSE, TRUE, TRUE), OverrideOf(TRUE, FALSE, TRUE)>>,
  <<OverrideOf(TRUE, FALSE, TRUE), OverrideOf(TRUE, TRUE, FALSE), OverrideOf(TRUE, TRUE, TRUE)>>}
=============================================================================
