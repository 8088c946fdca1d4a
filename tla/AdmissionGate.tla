---------------------------- MODULE AdmissionGate ----------------------------
(***************************************************************************)
(* Requests going through plancraft's checks on one event loop.            *)
(*                                                                         *)
(* A route is guarded by require_feature(f), require_limit(r) or           *)
(* require(...), that is by a sequence of checks run in order and stopped  *)
(* at the first failure (integrations/fastapi/depends.py).  A feature      *)
(* check never awaits.  A limit check reads the quota, awaits the host's   *)
(* counter, and only then compares (core/enforcer.py), so other requests,  *)
(* a catalog reload and the host's own writes run in between.  Code        *)
(* between two awaits is one action.                                       *)
(*                                                                         *)
(* The host owns the rows and the plan of an entity: inserting a row once  *)
(* every check has passed, deleting one and changing a plan are its steps. *)
(***************************************************************************)
EXTENDS Catalog, Sequences

CONSTANTS
  Workers,       \* requests that can be in progress at the same time
  Entities,      \* billing entities
  Routes,        \* routes of the application, each its sequence of checks
  Catalogs,      \* catalogs the application is started with or reloaded to
  Countable,     \* resources a counter may be registered for
  InitRows,      \* bound on the rows an account starts with
  MaxRows        \* bound on the rows of an account

Check    == [kind : {"feature"}, key : FeatureKeys] \cup [kind : {"limit"}, key : Resources]
              \cup {[kind |-> "other"]}      \* neither prefix: a misspelt check
Accounts == Entities \X Resources

(* The plans of the catalogs, and the quotas they set. *)
CatalogPlans == {cat.plans[k] : cat \in Catalogs, k \in PlanKeys} \ {None}
Quotas       == {PlanLimit(plan, r) : plan \in CatalogPlans, r \in Resources}

ASSUME WorkersAssumption  == IsFiniteSet(Workers) /\ Workers # {}
ASSUME RoutesAssumption   == Routes \subseteq Seq(Check)
ASSUME CatalogsAssumption == Catalogs \subseteq CatalogData /\ Countable \subseteq Resources
ASSUME RowsAssumption     == InitRows \in Nat /\ MaxRows \in Nat

VARIABLES
  registry,      \* the catalog in force
  planOf,        \* plan key stored on each entity
  usage,         \* rows of each account, as the host's database counts them
  req            \* per worker, the request it is serving

vars == <<registry, planOf, usage, req>>

(* step     "checking", or "counting" while suspended in counter.count     *)
(* entity, plan   the entity and its plan key, resolved once by Depends    *)
(* route, next    the checks of the route and the index of the next one    *)
(* quota    limit_config.hard, read before the counter was awaited         *)
(* granted  resources whose limit check has passed and is not used yet     *)
Request == [step : {"checking", "counting"}, entity : Entities, plan : PlanKeys,
            route : Routes, next : Nat \ {0}, quota : Quotas \cup {0},
            granted : SUBSET Resources]

(* A worker that serves no request, and how it answered the last one: 200, *)
(* 402, or the 500 of an uncaught exception.                               *)
Idle(outcome) == [step |-> "idle", outcome |-> outcome]
Outcomes      == {"none", "allowed", "refused", "error"}

TypeOK ==
  /\ registry \in [features : SUBSET FeatureKeys, plans : [PlanKeys -> CatalogPlans \cup {None}],
                   default : PlanKeys, counters : SUBSET Resources]
  /\ planOf \in [Entities -> PlanKeys]
  /\ usage \in [Accounts -> Nat]
  /\ req \in [Workers -> Request \cup {Idle(outcome) : outcome \in Outcomes}]
  /\ \A w \in Workers :
       req[w].step = "counting" =>
         req[w].next \in DOMAIN req[w].route /\ req[w].route[req[w].next].kind = "limit"

Current(w)  == req[w].route[req[w].next]
Checking(w) == req[w].step = "checking" /\ req[w].next <= Len(req[w].route)
Admitted(w) == req[w].step = "checking" /\ req[w].next > Len(req[w].route)
Quota(k, r) == PlanLimit(GetPlan(registry, k), r)

-----------------------------------------------------------------------------
Init ==
  /\ \E cat \in Catalogs, counters \in SUBSET Countable :
       registry = Register([features |-> {}, plans |-> [k \in PlanKeys |-> None],
                            default |-> cat.default, counters |-> {}], cat, counters)
  /\ planOf \in [Entities -> PlanKeys]
  /\ usage \in [Accounts -> 0 .. InitRows]
  /\ req = [w \in Workers |-> Idle("none")]

(* The framework resolves the entity dependency and enters the check. *)
Start(w, e, route) ==
  /\ req[w].step = "idle"
  /\ req' = [req EXCEPT ![w] =
       [step |-> "checking", entity |-> e, plan |-> planOf[e], route |-> route, next |-> 1,
        quota |-> 0, granted |-> {}]]
  /\ UNCHANGED <<registry, planOf, usage>>

(* Slips of Pass: any check lets the request in; it stays suspended. *)
PassAny(w, gained) ==
  req' = [req EXCEPT ![w].step = "checking", ![w].next = Len(req[w].route) + 1,
                     ![w].granted = @ \cup gained]
PassSuspended(w, gained) ==
  req' = [req EXCEPT ![w].next = @ + 1, ![w].granted = @ \cup gained]

(* The three ways a check ends: the next one is due, or the request is     *)
(* answered, with 402 or with the 500 of an uncaught exception.            *)
Pass(w, gained) ==
  req' = [req EXCEPT ![w].step = "checking", ![w].next = @ + 1,
                     ![w].granted = @ \cup gained]
Answer(w, outcome) == req' = [req EXCEPT ![w] = Idle(outcome)]

CheckFeature(w) ==
  /\ Checking(w) /\ Current(w).kind = "feature"
  /\ LET verdict == FeatureVerdict(registry, req[w].plan, Current(w).key)
     IN  IF verdict = "allowed" THEN Pass(w, {}) ELSE Answer(w, verdict)
  /\ UNCHANGED <<registry, planOf, usage>>

(* The combined dependency runs nothing for a check it does not recognise. *)
SkipOther(w) ==
  /\ Checking(w) /\ Current(w).kind = "other"
  /\ Pass(w, {})
  /\ UNCHANGED <<registry, planOf, usage>>

(* within_limit() up to `await counter.count': an unlimited plan passes    *)
(* without counting; no plan at all, or no counter, raises ValueError.     *)
BeginLimit(w) ==
  /\ Checking(w) /\ Current(w).kind = "limit"
  /\ LET r == Current(w).key  k == req[w].plan IN
       \/ GetPlan(registry, k) = None /\ Answer(w, "error")
       \/ /\ GetPlan(registry, k) # None
          /\ \/ /\ Quota(k, r) = Unlimited
                /\ req' = [req EXCEPT ![w].quota = Unlimited, ![w].next = @ + 1,
                                    ![w].granted = @ \cup {r}]
             \/ /\ Quota(k, r) # Unlimited /\ r \notin registry.counters
                /\ Answer(w, "error")
             \/ /\ Quota(k, r) # Unlimited /\ r \in registry.counters
                /\ req' = [req EXCEPT ![w].step = "counting", ![w].quota = Quota(k, r)]
  /\ UNCHANGED <<registry, planOf, usage>>

(* The slip of comparing with > where the code has >=. *)
UpToLimit(count, quota)  == ~ count > quota
UnderLimit(count, quota) == ~ count >= quota

(* The database answers the count and the coroutine compares it with the   *)
(* quota it read before; nothing it does in between is visible to others.  *)
FinishLimit(w) ==
  /\ req[w].step = "counting"
  /\ LET r == Current(w).key IN
       IF UnderLimit(usage[<<req[w].entity, r>>], req[w].quota)
       THEN Pass(w, {r})
       ELSE Answer(w, "refused")
  /\ UNCHANGED <<registry, planOf, usage>>

(* The host's counter raises. *)
CountFails(w) ==
  /\ req[w].step = "counting"
  /\ Answer(w, "error")
  /\ UNCHANGED <<registry, planOf, usage>>

-----------------------------------------------------------------------------
(* A slip of Insert: one check for many rows. *)
InsertMany(w, r) ==
  /\ Admitted(w) /\ r \in req[w].granted
  /\ usage[<<req[w].entity, r>>] < MaxRows
  /\ usage' = [usage EXCEPT ![<<req[w].entity, r>>] = @ + 1]
  /\ UNCHANGED <<registry, planOf, req>>

(* The route's handler, once every check has passed: it inserts at most    *)
(* one row of each resource it was checked for, then responds.             *)
Insert(w, r) ==
  /\ Admitted(w) /\ r \in req[w].granted
  /\ usage[<<req[w].entity, r>>] < MaxRows
  /\ usage' = [usage EXCEPT ![<<req[w].entity, r>>] = @ + 1]
  /\ req' = [req EXCEPT ![w].granted = @ \ {r}]
  /\ UNCHANGED <<registry, planOf>>

Respond(w) ==
  /\ Admitted(w)
  /\ Answer(w, "allowed")
  /\ UNCHANGED <<registry, planOf, usage>>

Delete(e, r) ==
  /\ usage[<<e, r>>] > 0
  /\ usage' = [usage EXCEPT ![<<e, r>>] = @ - 1]
  /\ UNCHANGED <<registry, planOf, req>>

ChangePlan(e, k) ==
  /\ planOf' = [planOf EXCEPT ![e] = k]
  /\ UNCHANGED <<registry, usage, req>>

(* One synchronous call: no coroutine runs between the clear and the fill. *)
ReloadCatalog(cat) ==
  /\ registry' = Reload(registry, cat)
  /\ UNCHANGED <<planOf, usage, req>>

Serve(w) ==
  \/ CheckFeature(w) \/ SkipOther(w) \/ BeginLimit(w) \/ FinishLimit(w) \/ CountFails(w)
  \/ \E r \in Resources : Insert(w, r)
  \/ Respond(w)

Next ==
  \/ \E w \in Workers : Serve(w)
  \/ \E w \in Workers, e \in Entities, route \in Routes : Start(w, e, route)
  \/ \E e \in Entities : \/ \E r \in Resources : Delete(e, r)
                         \/ \E k \in PlanKeys : ChangePlan(e, k)
  \/ \E cat \in Catalogs : ReloadCatalog(cat)

Spec == Init /\ [][Next]_vars
=============================================================================
