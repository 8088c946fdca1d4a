----------------------------- MODULE GateProofs -----------------------------
(***************************************************************************)
(* Theorems about the admission gate, for every catalog, set of routes and *)
(* number of requests in progress.                                         *)
(***************************************************************************)
EXTENDS GateHistory, FiniteSetTheorems, TLAPS

USE DEF Accounts

-----------------------------------------------------------------------------
(* What a lookup in a well-typed registry can return. *)

Registries == [features : SUBSET FeatureKeys, plans : [PlanKeys -> CatalogPlans \cup {None}],
               default : PlanKeys, counters : SUBSET Resources]

LEMMA CatalogPlansTyped == CatalogPlans \subseteq Plan
  BY CatalogsAssumption, NoneAssumption DEF CatalogPlans, CatalogData, Plan

LEMMA GetPlanTyped ==
  ASSUME NEW reg \in Registries, NEW k \in PlanKeys
  PROVE  GetPlan(reg, k) \in CatalogPlans \cup {None}
  BY DEF Registries, GetPlan

LEMMA PlanLimitTyped ==
  ASSUME NEW plan \in CatalogPlans, NEW r \in Resources
  PROVE  PlanLimit(plan, r) \in Quotas
  BY DEF Quotas

LEMMA QuotasAreIntegers == Quotas \subseteq Int
  BY CatalogPlansTyped DEF Quotas, PlanLimit, Plan

LEMMA RegisterTyped ==
  ASSUME NEW cat \in Catalogs, NEW reg, NEW counters \in SUBSET Resources,
         reg.features \subseteq FeatureKeys, reg.counters \subseteq Resources,
         reg.plans \in [PlanKeys -> CatalogPlans \cup {None}]
  PROVE  Register(reg, cat, counters) \in Registries
<1>1. cat.features \in SUBSET FeatureKeys /\ cat.default \in PlanKeys
  BY CatalogsAssumption DEF CatalogData
<1>2. \A k \in PlanKeys : cat.plans[k] \in CatalogPlans \cup {None}
  BY DEF CatalogPlans
<1>. QED BY <1>1, <1>2 DEF Register, Registries

LEMMA CheckTyped ==
  ASSUME NEW route \in Routes, NEW i \in DOMAIN route
  PROVE  /\ route[i] \in Check
         /\ route[i].kind = "limit" => route[i].key \in Resources
<1>1. route \in Seq(Check)
  BY RoutesAssumption
<1>2. route[i] \in Check
  BY <1>1
<1>. QED BY <1>2 DEF Check

-----------------------------------------------------------------------------
(* Type correctness. *)

IdleRecords == {Idle(outcome) : outcome \in Outcomes}

ReqTyped ==
  /\ req \in [Workers -> Request \cup IdleRecords]
  /\ \A w \in Workers :
       req[w].step = "counting" =>
         req[w].next \in DOMAIN req[w].route /\ req[w].route[req[w].next].kind = "limit"

(* A worker that is not idle holds a request. *)
LEMMA BusyIsRequest ==
  ASSUME ReqTyped, NEW w \in Workers
  PROVE  /\ req[w].step = "idle" <=> req[w] \in IdleRecords
         /\ req[w].step # "idle" <=> req[w] \in Request
         /\ req[w].step # "idle" => req[w].step \in {"checking", "counting"}
  BY DEF ReqTyped, IdleRecords, Idle, Request

(* The checks of a request are checks of the application. *)
LEMMA CurrentTyped ==
  ASSUME ReqTyped, NEW w \in Workers, Checking(w) \/ req[w].step = "counting"
  PROVE  /\ req[w].next \in DOMAIN req[w].route
         /\ Current(w) \in Check
         /\ Current(w).kind = "limit" => Current(w).key \in Resources
         /\ req[w].step = "counting" => Current(w).kind = "limit"
<1>1. req[w] \in Request
  BY BusyIsRequest DEF Checking
<1>2. req[w].route \in Routes /\ req[w].next \in Nat \ {0}
  BY <1>1 DEF Request
<1>3. req[w].route \in Seq(Check)
  BY <1>2, RoutesAssumption
<1>4. req[w].next \in DOMAIN req[w].route
  <2>1. CASE Checking(w)
    <3>1. DOMAIN req[w].route = 1 .. Len(req[w].route) /\ Len(req[w].route) \in Nat
      BY <1>3
    <3>. QED BY <2>1, <3>1, <1>2 DEF Checking
  <2>2. CASE req[w].step = "counting"
    BY <2>2 DEF ReqTyped
  <2>. QED BY <2>1, <2>2
<1>. QED BY <1>2, <1>4, CheckTyped DEF Current, ReqTyped

(* Replacing one worker's record by a well-typed one keeps the types. *)
LEMMA ReplaceTyped ==
  ASSUME ReqTyped, NEW w \in Workers, NEW new \in Request \cup IdleRecords,
         req' = [req EXCEPT ![w] = new],
         new.step = "counting" =>
           new.next \in DOMAIN new.route /\ new.route[new.next].kind = "limit"
  PROVE  ReqTyped'
<1>1. \A v \in Workers : req'[v] = IF v = w THEN new ELSE req[v]
  BY DEF ReqTyped
<1>2. req' \in [Workers -> Request \cup IdleRecords]
  BY DEF ReqTyped
<1>. QED BY <1>1, <1>2 DEF ReqTyped

LEMMA AnswerTyped ==
  ASSUME ReqTyped, NEW w \in Workers, NEW outcome \in Outcomes, Answer(w, outcome)
  PROVE  ReqTyped'
<1>1. Idle(outcome) \in IdleRecords /\ Idle(outcome).step # "counting"
  BY DEF IdleRecords, Idle
<1>. QED BY <1>1, ReplaceTyped DEF Answer

LEMMA AdvanceTyped ==
  ASSUME NEW old \in Request, NEW next \in Nat \ {0}, NEW granted \in SUBSET Resources
  PROVE  [old EXCEPT !.step = "checking", !.next = next, !.granted = granted] \in Request
  BY DEF Request

LEMMA PassTyped ==
  ASSUME ReqTyped, NEW w \in Workers, req[w].step # "idle",
         NEW gained \in SUBSET Resources, Pass(w, gained)
  PROVE  ReqTyped'
<1>. DEFINE next    == req[w].next + 1
            granted == req[w].granted \cup gained
            new     == [req[w] EXCEPT !.step = "checking", !.next = next, !.granted = granted]
<1>1. req[w] \in Request
  BY BusyIsRequest
<1>2. next \in Nat \ {0} /\ granted \in SUBSET Resources
  BY <1>1 DEF Request
<1>3. req' = [req EXCEPT ![w] = new]
  BY <1>1 DEF Pass, Request, ReqTyped
<1>4. new \in Request
  <2>. HIDE DEF next, granted
  <2>. QED BY <1>1, <1>2, AdvanceTyped
<1>5. new.step # "counting"
  BY <1>1 DEF Request
<1>. HIDE DEF new
<1>. QED BY <1>3, <1>4, <1>5, ReplaceTyped

-----------------------------------------------------------------------------
(* Type correctness of each action. *)

LEMMA TypeOKParts == TypeOK <=> /\ registry \in Registries
                                /\ planOf \in [Entities -> PlanKeys]
                                /\ usage \in [Accounts -> Nat]
                                /\ ReqTyped
  BY DEF TypeOK, Registries, ReqTyped, IdleRecords

LEMMA TypeOKPartsPrimed ==
  ASSUME registry' \in Registries, planOf' \in [Entities -> PlanKeys],
         usage' \in [Accounts -> Nat], ReqTyped'
  PROVE  TypeOK'
  BY DEF TypeOK, Registries, ReqTyped, IdleRecords

LEMMA FeatureVerdictTyped ==
  ASSUME NEW k, NEW f
  PROVE  FeatureVerdict(registry, k, f) \in {"allowed", "refused", "error"}
  BY DEF FeatureVerdict

LEMMA QuotaTyped ==
  ASSUME registry \in Registries, NEW k \in PlanKeys, NEW r \in Resources,
         GetPlan(registry, k) # None
  PROVE  Quota(k, r) \in Quotas
  BY GetPlanTyped, PlanLimitTyped DEF Quota

LEMMA StartTyped ==
  ASSUME TypeOK, NEW w \in Workers, NEW e \in Entities, NEW route \in Routes,
         Start(w, e, route)
  PROVE  ReqTyped'
<1>. DEFINE new == [step |-> "checking", entity |-> e, plan |-> planOf[e], route |-> route,
                    next |-> 1, quota |-> 0, granted |-> {}]
<1>1. new \in Request /\ new.step # "counting"
  BY TypeOKParts DEF Request
<1>2. req' = [req EXCEPT ![w] = new]
  BY DEF Start
<1>. HIDE DEF new
<1>. QED BY <1>1, <1>2, ReplaceTyped, TypeOKParts

LEMMA BeginLimitTyped ==
  ASSUME TypeOK, NEW w \in Workers, BeginLimit(w)
  PROVE  ReqTyped'
<1>. DEFINE r == Current(w).key
            k == req[w].plan
<1>1. /\ registry \in Registries
      /\ ReqTyped
      /\ Checking(w)
      /\ req[w].step # "idle"
      /\ req[w] \in Request
      /\ Current(w).kind = "limit"
      /\ r \in Resources
      /\ req[w].next \in DOMAIN req[w].route
  BY TypeOKParts, CurrentTyped, BusyIsRequest DEF BeginLimit, Checking
<1>2. CASE Answer(w, "error")
  BY <1>1, <1>2, AnswerTyped DEF Outcomes
<1>3. ASSUME GetPlan(registry, k) # None PROVE Quota(k, r) \in Quotas \cup {0}
  BY <1>1, <1>3, QuotaTyped DEF Request
<1>4. CASE /\ GetPlan(registry, k) # None
           /\ Quota(k, r) = Unlimited
           /\ req' = [req EXCEPT ![w].quota = Unlimited, ![w].next = @ + 1,
                                 ![w].granted = @ \cup {r}]
  <2>. DEFINE next    == req[w].next + 1
              granted == req[w].granted \cup {r}
              new     == [req[w] EXCEPT !.quota = Unlimited, !.next = next, !.granted = granted]
  <2>1. next \in Nat \ {0} /\ granted \in SUBSET Resources /\ Unlimited \in Quotas \cup {0}
    BY <1>1, <1>3, <1>4 DEF Request
  <2>2. req' = [req EXCEPT ![w] = new]
    BY <1>1, <1>4 DEF ReqTyped
  <2>3. new \in Request
    <3>. HIDE DEF next, granted
    <3>. QED BY <1>1, <2>1 DEF Request
  <2>4. new.step # "counting"
    BY <1>1 DEF Checking, Request
  <2>. HIDE DEF new
  <2>. QED BY <1>1, <2>2, <2>3, <2>4, ReplaceTyped
<1>5. CASE /\ GetPlan(registry, k) # None
           /\ req' = [req EXCEPT ![w].step = "counting", ![w].quota = Quota(k, r)]
  <2>. DEFINE new == [req[w] EXCEPT !.step = "counting", !.quota = Quota(k, r)]
  <2>1. req' = [req EXCEPT ![w] = new]
    BY <1>1, <1>5 DEF ReqTyped
  <2>2. new \in Request
    BY <1>1, <1>3, <1>5 DEF Request
  <2>3. new.next = req[w].next /\ new.route = req[w].route
    BY <1>1 DEF Request
  <2>4. new.next \in DOMAIN new.route /\ new.route[new.next].kind = "limit"
    BY <1>1, <2>3 DEF Current
  <2>. HIDE DEF new
  <2>. QED BY <1>1, <2>1, <2>2, <2>4, ReplaceTyped
<1>. QED BY <1>2, <1>4, <1>5 DEF BeginLimit

LEMMA ServeTyped ==
  ASSUME TypeOK, NEW w \in Workers, Serve(w)
  PROVE  TypeOK'
<1>1. /\ registry \in Registries /\ ReqTyped
      /\ planOf \in [Entities -> PlanKeys] /\ usage \in [Accounts -> Nat]
  BY TypeOKParts
<1>2. req[w].step # "idle" => req[w] \in Request
  BY <1>1, BusyIsRequest
<1>3. SUFFICES ReqTyped' /\ UNCHANGED <<registry, planOf>> /\ usage' \in [Accounts -> Nat]
  BY <1>1, TypeOKParts, TypeOKPartsPrimed
<1>4. CASE CheckFeature(w)
  <2>. DEFINE verdict == FeatureVerdict(registry, req[w].plan, Current(w).key)
  <2>1. verdict \in Outcomes
    BY FeatureVerdictTyped DEF Outcomes
  <2>2. Pass(w, {}) \/ Answer(w, verdict)
    BY <1>4 DEF CheckFeature
  <2>3. req[w].step # "idle"
    BY <1>4 DEF CheckFeature, Checking
  <2>. HIDE DEF verdict
  <2>4. ReqTyped'
    BY <1>1, <2>1, <2>2, <2>3, PassTyped, AnswerTyped
  <2>. QED BY <1>1, <1>4, <2>4 DEF CheckFeature
<1>5. CASE SkipOther(w)
  BY <1>1, <1>5, PassTyped DEF SkipOther, Checking
<1>6. CASE BeginLimit(w)
  BY <1>1, <1>6, BeginLimitTyped DEF BeginLimit
<1>7. CASE FinishLimit(w)
  <2>1. req[w].step # "idle" /\ Current(w).key \in Resources
    BY <1>1, <1>7, CurrentTyped DEF FinishLimit
  <2>2. Pass(w, {Current(w).key}) \/ Answer(w, "refused")
    BY <1>7 DEF FinishLimit
  <2>3. ReqTyped'
    BY <1>1, <2>1, <2>2, PassTyped, AnswerTyped DEF Outcomes
  <2>. QED BY <1>1, <1>7, <2>3 DEF FinishLimit
<1>8. CASE CountFails(w)
  BY <1>1, <1>8, AnswerTyped DEF CountFails, Outcomes
<1>9. ASSUME NEW r \in Resources, Insert(w, r) PROVE ReqTyped' /\ usage' \in [Accounts -> Nat]
  <2>. DEFINE granted == req[w].granted \ {r}
              new     == [req[w] EXCEPT !.granted = granted]
  <2>1. req[w] \in Request /\ req[w].step = "checking"
    BY <1>2, <1>9 DEF Insert, Admitted
  <2>2. granted \in SUBSET Resources
    BY <2>1 DEF Request
  <2>3. req' = [req EXCEPT ![w] = new]
    BY <1>1, <1>9, <2>1 DEF Insert, ReqTyped
  <2>4. new \in Request /\ new.step # "counting"
    BY <2>1, <2>2 DEF Request
  <2>. HIDE DEF new
  <2>5. ReqTyped'
    BY <1>1, <2>3, <2>4, ReplaceTyped
  <2>6. <<req[w].entity, r>> \in Accounts
    BY <2>1 DEF Request
  <2>7. usage' \in [Accounts -> Nat]
    BY <1>1, <1>9, <2>6 DEF Insert
  <2>. QED BY <2>5, <2>7
<1>10. CASE Respond(w)
  BY <1>1, <1>10, AnswerTyped DEF Respond, Outcomes
<1>. QED BY <1>1, <1>4, <1>5, <1>6, <1>7, <1>8, <1>9, <1>10 DEF Serve, Insert, CheckFeature, SkipOther, BeginLimit,
        FinishLimit, CountFails, Respond

LEMMA NextTyped ==
  ASSUME TypeOK, Next
  PROVE  TypeOK'
<1>1. /\ registry \in Registries /\ ReqTyped
      /\ planOf \in [Entities -> PlanKeys] /\ usage \in [Accounts -> Nat]
  BY TypeOKParts
<1>2. ASSUME NEW w \in Workers, Serve(w) PROVE TypeOK'
  BY <1>2, ServeTyped
<1>3. ASSUME NEW w \in Workers, NEW e \in Entities, NEW route \in Routes, Start(w, e, route)
      PROVE  TypeOK'
  BY <1>1, <1>3, StartTyped, TypeOKPartsPrimed DEF Start
<1>4. ASSUME NEW e \in Entities, NEW r \in Resources, Delete(e, r) PROVE TypeOK'
  <2>1. usage' \in [Accounts -> Nat]
    BY <1>1, <1>4 DEF Delete
  <2>. QED BY <1>1, <1>4, <2>1, TypeOKPartsPrimed DEF Delete, ReqTyped
<1>5. ASSUME NEW e \in Entities, NEW k \in PlanKeys, ChangePlan(e, k) PROVE TypeOK'
  BY <1>1, <1>5, TypeOKPartsPrimed DEF ChangePlan, ReqTyped
<1>6. ASSUME NEW cat \in Catalogs, ReloadCatalog(cat) PROVE TypeOK'
  <2>. DEFINE empty == [registry EXCEPT !.features = {}, !.plans = [k \in PlanKeys |-> None]]
  <2>1. /\ empty.features \subseteq FeatureKeys /\ empty.counters \subseteq Resources
        /\ empty.plans \in [PlanKeys -> CatalogPlans \cup {None}]
        /\ registry.counters \subseteq Resources
    BY <1>1 DEF Registries
  <2>2. registry' = Register(empty, cat, registry.counters)
    BY <1>6 DEF ReloadCatalog, Reload
  <2>. HIDE DEF empty
  <2>3. registry' \in Registries
    BY <2>1, <2>2, RegisterTyped
  <2>. QED BY <1>1, <1>6, <2>3, TypeOKPartsPrimed DEF ReloadCatalog, ReqTyped
<1>. QED BY <1>2, <1>3, <1>4, <1>5, <1>6 DEF Next

LEMMA InitTyped == Init => TypeOK
<1>. SUFFICES ASSUME Init PROVE TypeOK
  OBVIOUS
<1>1. registry \in Registries
  <2>. DEFINE empty(cat) == [features |-> {}, plans |-> [k \in PlanKeys |-> None],
                             default |-> cat.default, counters |-> {}]
  <2>1. PICK cat \in Catalogs, counters \in SUBSET Countable :
          registry = Register(empty(cat), cat, counters)
    BY DEF Init
  <2>2. /\ empty(cat).features \subseteq FeatureKeys /\ empty(cat).counters \subseteq Resources
        /\ empty(cat).plans \in [PlanKeys -> CatalogPlans \cup {None}]
    OBVIOUS
  <2>. HIDE DEF empty
  <2>. QED BY <2>1, <2>2, RegisterTyped, CatalogsAssumption
<1>2. ReqTyped
  BY DEF Init, ReqTyped, IdleRecords, Idle, Outcomes
<1>3. usage \in [Accounts -> Nat]
  BY RowsAssumption DEF Init
<1>. QED BY <1>1, <1>2, <1>3, TypeOKParts DEF Init

(* Registry, plan keys, rows and requests of every reachable state have the  *)
(* declared types; a request suspended on a counter is at a limit check.     *)
THEOREM GateTypeCorrect == Spec => []TypeOK
<1>1. TypeOK /\ [Next]_vars => TypeOK'
  <2>. SUFFICES ASSUME TypeOK, [Next]_vars PROVE TypeOK'
    OBVIOUS
  <2>1. CASE Next
    BY <2>1, NextTyped
  <2>2. CASE UNCHANGED vars
    BY <2>2, TypeOKParts, TypeOKPartsPrimed DEF vars, ReqTyped
  <2>. QED BY <2>1, <2>2
<1>. QED BY InitTyped, <1>1, PTL DEF Spec

(* The history variables: a step lets at most one request through, and what  *)
(* it raises the ceiling to is a quota.                                      *)

LEMMA RaiseToTyped ==
  ASSUME NEW old \in Nat \cup {Unlimited}, NEW limit \in Int
  PROVE  /\ RaiseTo(old, limit) \in Nat \cup {Unlimited}
         /\ RaiseTo(old, limit) # Unlimited =>
              old # Unlimited /\ RaiseTo(old, limit) >= old /\ RaiseTo(old, limit) >= limit
  BY DEF RaiseTo, Unlimited

LEMMA GainedTyped ==
  ASSUME ReqTyped, ReqTyped', NEW w \in Workers, NEW r, Gained(w, r)
  PROVE  /\ req[w] \in Request /\ req'[w] \in Request
         /\ r \in Resources
         /\ req'[w].quota \in Int
<1>1. req'[w] \in Request
  BY DEF Gained, Busy, ReqTyped, IdleRecords, Idle, Request
<1>2. req[w] \in Request
  BY BusyIsRequest DEF Gained, Busy
<1>3. r \in req'[w].granted
  BY DEF Gained
<1>4. req'[w].granted \in SUBSET Resources /\ req'[w].quota \in Quotas \cup {0}
  BY <1>1 DEF Request
<1>5. r \in Resources
  BY <1>3, <1>4
<1>6. req'[w].quota \in Int
  <2>1. \A quota \in Quotas \cup {0} : quota \in Int
    BY QuotasAreIntegers
  <2>. QED BY <1>4, <2>1
<1>. QED BY <1>1, <1>2, <1>5, <1>6

LEMMA RecordTyped ==
  ASSUME HistoryTypeOK, ReqTyped, ReqTyped', Record
  PROVE  /\ ceiling' \in [Accounts -> Nat \cup {Unlimited}]
         /\ settled' \in [Workers -> BOOLEAN]
         /\ standing' \in [Workers -> [Resources -> Standings]]
<1>1. ceiling' \in [Accounts -> Nat \cup {Unlimited}]
  <2>. DEFINE Lucky(a, w) == Gained(w, a[2]) /\ req[w].entity = a[1]
              raised(a) == RaiseTo(ceiling[a], req'[CHOOSE w \in Workers : Lucky(a, w)].quota)
  <2>1. ceiling' = [a \in Accounts |-> IF \E w \in Workers : Lucky(a, w) THEN raised(a)
                                                                       ELSE ceiling[a]]
    BY DEF Record
  <2>2. ASSUME NEW a \in Accounts, \E w \in Workers : Lucky(a, w)
        PROVE  raised(a) \in Nat \cup {Unlimited}
    <3>1. PICK w \in Workers : w = (CHOOSE v \in Workers : Lucky(a, v)) /\ Lucky(a, w)
      BY <2>2
    <3>2. req'[w].quota \in Int
      BY <3>1, GainedTyped
    <3>3. ceiling[a] \in Nat \cup {Unlimited}
      BY DEF HistoryTypeOK
    <3>. QED BY <3>1, <3>2, <3>3, RaiseToTyped
  <2>. HIDE DEF Lucky, raised
  <2>. QED BY <2>1, <2>2 DEF HistoryTypeOK
<1>2. settled' \in [Workers -> BOOLEAN]
  BY DEF HistoryTypeOK, Record
<1>3. standing' \in [Workers -> [Resources -> Standings]]
  <2>1. \A e, r : StandingOf(e, r)' \in Standings
    BY DEF StandingOf, Standings
  <2>. DEFINE now(w, r) == StandingOf(req[w].entity, r)'
              next(w, r) == IF ~Busy(w)' THEN "mixed"
                            ELSE IF Starting(w) THEN now(w, r)
                                 ELSE IF standing[w][r] = now(w, r) THEN now(w, r) ELSE "mixed"
  <2>2. standing' = [w \in Workers |-> [r \in Resources |-> next(w, r)]]
    BY DEF Record
  <2>3. \A w \in Workers, r \in Resources : next(w, r) \in Standings
    BY <2>1 DEF Standings
  <2>. HIDE DEF next
  <2>. QED BY <2>2, <2>3
<1>. QED BY <1>1, <1>2, <1>3

(* The same of the history variables: ceilings, settled flags, standings.    *)
THEOREM HistoryTypeCorrect == HistorySpec => []HistoryTypeOK
<1>1. HistoryInit => HistoryTypeOK
  BY InitTyped DEF HistoryInit, HistoryTypeOK, TypeOK, Standings
<1>2. HistoryTypeOK /\ [HistoryNext]_allVars => HistoryTypeOK'
  <2>. SUFFICES ASSUME HistoryTypeOK, [HistoryNext]_allVars PROVE HistoryTypeOK'
    OBVIOUS
  <2>1. CASE HistoryNext
    <3>1. TypeOK /\ TypeOK'
      BY <2>1, NextTyped DEF HistoryNext, HistoryTypeOK
    <3>2. ReqTyped /\ ReqTyped'
      BY <3>1 DEF TypeOK, ReqTyped, IdleRecords
    <3>. QED BY <2>1, <3>1, <3>2, RecordTyped DEF HistoryNext, HistoryTypeOK
  <2>2. CASE UNCHANGED allVars
    BY <2>2, TypeOKParts, TypeOKPartsPrimed DEF allVars, HistoryTypeOK, ReqTyped
  <2>. QED BY <2>1, <2>2
<1>. QED BY <1>1, <1>2, PTL DEF HistorySpec
=============================================================================
