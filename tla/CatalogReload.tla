---------------------------- MODULE CatalogReload ----------------------------
(***************************************************************************)
(* reload_catalog() in one thread while other threads read the catalog:    *)
(* synchronous Django views, direct calls of PlanCraft, and the pages of   *)
(* the billing router.  There is no lock, so every access to a dict of the *)
(* registry is a step of its own, and a loop over a live dict is one step  *)
(* per entry.                                                              *)
(*                                                                         *)
(* A reload takes its counters from the registry and registers the same    *)
(* instances again, under the same keys; no reload changes them and they   *)
(* are left out.                                                           *)
(***************************************************************************)
EXTENDS Catalog, Sequences, SequencesExt

CONSTANTS
  Reloaders,     \* threads that reload the catalog
  Readers,       \* threads that read it
  Catalogs,      \* what the application is started with or reloaded to
  Overrides      \* override lists a caller may pass to can()

(* plans is a dict: `order' has its keys in the order of their insertion.  *)
OrderedCatalog == [features : SUBSET FeatureKeys, plans : [PlanKeys -> Plan \cup {None}],
                   default : PlanKeys, order : Seq(PlanKeys)]

Consistent(reg) ==
  /\ IsInjective(reg.order)
  /\ ToSet(reg.order) = {k \in PlanKeys : reg.plans[k] # None}

ASSUME OrderedAssumption == Catalogs \subseteq OrderedCatalog /\ \A cat \in Catalogs : Consistent(cat)

(* An EntitlementOverride, seen from one call: whether it is for the       *)
(* entity that asks, for what, not expired yet, and what it says.          *)
Override == [mine : BOOLEAN, about : FeatureKeys, live : BOOLEAN, granted : BOOLEAN]

(* What is asked about tells by its name what it is. *)
ASSUME NamesAssumption == FeatureKeys \cap Resources = {} /\ None \notin FeatureKeys \cup Resources

ASSUME OverridesAssumption == Overrides \subseteq Seq(Override)

VARIABLES
  registry,      \* the catalog in force, as far as it has been filled
  reload,        \* per reloader, how far it is
  call,          \* per reader, the call it makes and its last answer
  origin,        \* history: catalogs whose entries the registry may hold
  settled        \* history: the catalog left by a reload that overlapped no
                 \* other and has been followed by none, else None

vars == <<registry, reload, call, origin, settled>>

Resting == [step |-> "resting"]

(* left, next  features and index of the plan still to insert *)
(* alone       no other reload has been in progress since it started *)
Reloading == [step : {"clear features", "clear plans", "fill"}, cat : Catalogs,
            left : SUBSET FeatureKeys, next : Nat \ {0}, alone : BOOLEAN]

Kinds    == {"can", "limit", "plan page", "usage page", "catalog page"}
Steps    == {"overrides", "feature", "plan", "fallback", "default", "copy", "scan", "hint", "answered"}
Verdicts == {"none", "granted", "denied", "allowed", "refused", "quota", "shown", "error"}

(* key, about   plan key of the entity, feature or resource asked about     *)
(* wanted       default plan key, once read                                *)
(* pos, size    place in the loop over the plans, and their number then    *)
(* todo         features or resources a page has still to go through       *)
(* answer       the last verdict, with its quota or upgrade_to             *)
(* seen, settled  history: every catalog that was in the registry during   *)
(*              the call; the one that was, when no reload touched the call *)
Call == [step : Steps, kind : Kinds, key : PlanKeys \cup {None}, about : FeatureKeys \cup Resources \cup {None},
         overrides : Overrides \cup {<<>>}, wanted : PlanKeys \cup {None}, pos : Nat, size : Nat,
         todo : SUBSET (FeatureKeys \cup Resources), seen : SUBSET Catalogs, settled : Catalogs \cup {None},
         answer : [verdict : Verdicts, value : Int \cup PlanKeys \cup {None}]]

NoAnswer == [verdict |-> "none", value |-> None]
NoCall   == [step |-> "answered", kind |-> "can", key |-> None, about |-> None, overrides |-> <<>>,
             wanted |-> None, pos |-> 0, size |-> 0, todo |-> {}, answer |-> NoAnswer,
             seen |-> {}, settled |-> None]

TypeOK ==
  /\ registry \in OrderedCatalog /\ Consistent(registry)
  /\ reload \in [Reloaders -> Reloading \cup {Resting}]
  /\ call \in [Readers -> Call]
  /\ origin \in SUBSET Catalogs /\ settled \in Catalogs \cup {None}

-----------------------------------------------------------------------------
Init ==
  /\ settled \in Catalogs /\ registry = settled /\ origin = {settled}
  /\ reload = [t \in Reloaders |-> Resting]
  /\ call = [r \in Readers |-> NoCall]

Running(t) == reload[t].step # "resting"
Idle(r)    == call[r].step = "answered" /\ call[r].todo = {}

StartReload(t, cat) ==
  /\ ~Running(t)
  /\ reload' = [u \in Reloaders |->
       IF u = t THEN [step |-> "clear features", cat |-> cat, left |-> cat.features, next |-> 1,
                      alone |-> \A v \in Reloaders : ~Running(v)]
       ELSE IF Running(u) THEN [reload[u] EXCEPT !.alone = FALSE] ELSE Resting]
  /\ origin' = origin \cup {cat} /\ settled' = None
  /\ call' = [r \in Readers |-> IF Idle(r) THEN call[r]
                                ELSE [call[r] EXCEPT !.seen = @ \cup {cat}, !.settled = None]]
  /\ UNCHANGED registry

Doing(t, step) == reload[t].step = step /\ UNCHANGED <<call, origin, settled>>

ClearFeatures(t) ==
  /\ Doing(t, "clear features")
  /\ registry' = [registry EXCEPT !.features = {}]
  /\ reload' = [reload EXCEPT ![t].step = "clear plans"]

(* Slip of ClearPlans: the new plans go over the old ones. *)
KeepPlans(t) ==
  /\ Doing(t, "clear plans")
  /\ reload' = [reload EXCEPT ![t].step = "fill"]
  /\ UNCHANGED registry

ClearPlans(t) ==
  /\ Doing(t, "clear plans")
  /\ registry' = [registry EXCEPT !.plans = [k \in PlanKeys |-> None], !.order = <<>>]
  /\ reload' = [reload EXCEPT ![t].step = "fill"]

Filled(t) ==
  reload[t].step = "fill" /\ reload[t].left = {} /\ reload[t].next > Len(reload[t].cat.order)

PutFeature(t) ==
  /\ Doing(t, "fill")
  /\ \E f \in reload[t].left :
       /\ registry' = [registry EXCEPT !.features = @ \cup {f}]
       /\ reload' = [reload EXCEPT ![t].left = @ \ {f}]

(* Slip of PutPlan: every insertion goes to the end. *)
PutPlanLast(t) ==
  /\ Doing(t, "fill") /\ reload[t].left = {} /\ ~Filled(t)
  /\ LET k == reload[t].cat.order[reload[t].next] IN
       registry' = [registry EXCEPT !.plans[k] = reload[t].cat.plans[k], !.order = Append(@, k)]
  /\ reload' = [reload EXCEPT ![t].next = @ + 1]

(* Once the features are in.  A key that is there already keeps its place. *)
PutPlan(t) ==
  /\ Doing(t, "fill") /\ reload[t].left = {} /\ ~Filled(t)
  /\ LET k == reload[t].cat.order[reload[t].next] IN
       registry' = [registry EXCEPT
         !.plans[k] = reload[t].cat.plans[k],
         !.order    = IF registry.plans[k] = None THEN Append(@, k) ELSE @]
  /\ reload' = [reload EXCEPT ![t].next = @ + 1]

(* The default plan comes last, and the reload is done. *)
SetDefault(t) ==
  /\ Filled(t)
  /\ registry' = [registry EXCEPT !.default = reload[t].cat.default]
  /\ reload' = [reload EXCEPT ![t] = Resting]
  /\ IF reload[t].alone
     THEN settled' = reload[t].cat /\ origin' = {reload[t].cat}
     ELSE UNCHANGED <<settled, origin>>
  /\ UNCHANGED call

(* An argument that is no dict of Features or Plans raises on the way; what *)
(* has been cleared and filled so far stays as it is.                      *)
RaiseHalfway(t) ==
  /\ Doing(t, "fill") /\ ~Filled(t)
  /\ reload' = [reload EXCEPT ![t] = Resting]
  /\ UNCHANGED registry

-----------------------------------------------------------------------------
At(r, step)   == call[r].step = step /\ UNCHANGED <<registry, reload, origin, settled>>
GoTo(r, step) == call' = [call EXCEPT ![r].step = step]
(* The answer of a call; a guard passes on "allowed" and makes of "refused" *)
(* a 402 with upgrade_to.  An exception ends a page and is a 500.          *)
Answer(r, verdict, value) ==
  call' = [call EXCEPT ![r].step = "answered", ![r].wanted = None, ![r].pos = 0, ![r].size = 0,
                       ![r].answer = [verdict |-> verdict, value |-> value]]
Raise(r) ==
  call' = [call EXCEPT ![r].step = "answered", ![r].wanted = None, ![r].pos = 0, ![r].size = 0,
                       ![r].answer = [verdict |-> "error", value |-> None], ![r].todo = {}]

First(kind) == CASE kind = "can" -> "overrides" [] kind = "catalog page" -> "copy" [] OTHER -> "plan"

Begin(r, kind, key, about, overrides) ==
  /\ Idle(r)
  /\ call' = [call EXCEPT ![r] = [NoCall EXCEPT
       !.step = First(kind), !.kind = kind, !.key = key, !.about = about, !.overrides = overrides,
       !.seen = origin, !.settled = settled]]
  /\ UNCHANGED <<registry, reload, origin, settled>>

(* The feature guard of a view calls can() without overrides; only a direct *)
(* call of the enforcer has any.                                           *)
BeginCan(r) ==
  \E key \in PlanKeys, f \in FeatureKeys, overrides \in Overrides : Begin(r, "can", key, f, overrides)

BeginLimit(r) == \E key \in PlanKeys, res \in Resources : Begin(r, "limit", key, res, <<>>)

BeginPage(r) ==
  \/ \E key \in PlanKeys, kind \in {"plan page", "usage page"} : Begin(r, kind, key, None, <<>>)
  \/ Begin(r, "catalog page", None, None, <<>>)

Says(o) == IF o.granted THEN "granted" ELSE "denied"

(* _find_override() returns the first of these. *)
Applicable(overrides, f) ==
  {i \in DOMAIN overrides : overrides[i].mine /\ overrides[i].about = f /\ overrides[i].live}

CheckOverrides(r) ==
  /\ At(r, "overrides")
  /\ LET applicable == Applicable(call[r].overrides, call[r].about) IN
       IF applicable # {} THEN Answer(r, Says(call[r].overrides[Min(applicable)]), None)
       ELSE GoTo(r, "feature")

GetFeature(r) ==
  /\ At(r, "feature")
  /\ IF call[r].about \in registry.features THEN GoTo(r, "plan") ELSE Raise(r)

(* A page goes through a copy of the features, or the limits of its plan. *)
GoThrough(r, keys) == call' = [call EXCEPT ![r].step = "answered", ![r].todo = keys]

(* What the caller of get_plan() does with the plan it gets. *)
Found(r, plan) ==
  CASE call[r].about \in Resources       -> Answer(r, "quota", PlanLimit(plan, call[r].about))
    [] call[r].about = None /\ call[r].kind = "usage page" ->
         GoThrough(r, {res \in Resources : plan.limits[res] # None})
    [] call[r].about = None /\ call[r].kind # "usage page" -> GoTo(r, "copy")
    [] call[r].about \in plan.features   -> Answer(r, "allowed", None)
    [] OTHER                             -> GoTo(r, "scan")

(* Slip of FindPlan: any plan rather than none. *)
FindAnyPlan(r) ==
  /\ At(r, "plan")
  /\ IF registry.plans[call[r].key] # None THEN Found(r, registry.plans[call[r].key])
     ELSE IF registry.order # <<>> THEN Found(r, registry.plans[registry.order[1]])
     ELSE GoTo(r, "fallback")

FindPlan(r) ==
  /\ At(r, "plan")
  /\ IF registry.plans[call[r].key] # None THEN Found(r, registry.plans[call[r].key])
     ELSE GoTo(r, "fallback")

ReadDefault(r) ==
  /\ At(r, "fallback")
  /\ call' = [call EXCEPT ![r].step = "default", ![r].wanted = registry.default]

FindDefault(r) ==
  /\ At(r, "default")
  /\ IF registry.plans[call[r].wanted] # None THEN Found(r, registry.plans[call[r].wanted])
     ELSE Raise(r)

CopyFeatures(r) == At(r, "copy") /\ GoThrough(r, registry.features)

ForEach(kind) == CASE kind = "plan page" -> "feature" [] kind = "usage page" -> "plan" [] OTHER -> "scan"

NextOfPage(r) ==
  /\ At(r, "answered")
  /\ \E x \in call[r].todo :
       call' = [call EXCEPT ![r].step = ForEach(call[r].kind), ![r].about = x, ![r].todo = @ \ {x}]

(* which_plan_has_feature() on the live dict.  Its iterator notices that    *)
(* the number of entries changed, and nothing else.                        *)
Scan(r) ==
  /\ At(r, "scan")
  /\ call' = [call EXCEPT ![r].step = "hint", ![r].pos = 1, ![r].size = Len(registry.order)]

HintOf(r, key) == Answer(r, IF call[r].kind = "catalog page" THEN "shown" ELSE "refused", key)

(* Slips of Hint: the plan after the one that matches; the last that does. *)
HintNext(r) ==
  /\ At(r, "hint")
  /\ IF Len(registry.order) # call[r].size THEN Raise(r)
     ELSE IF call[r].pos > Len(registry.order) THEN HintOf(r, None)
     ELSE IF call[r].about \in registry.plans[registry.order[call[r].pos]].features
          THEN HintOf(r, registry.order[IF call[r].pos < call[r].size THEN call[r].pos + 1 ELSE 1])
          ELSE call' = [call EXCEPT ![r].pos = @ + 1]

HintLast(r) ==
  /\ At(r, "hint")
  /\ IF Len(registry.order) # call[r].size THEN Raise(r)
     ELSE IF call[r].pos > Len(registry.order) THEN HintOf(r, None)
     ELSE LET k == registry.order[1 + call[r].size - call[r].pos] IN
          IF call[r].about \in registry.plans[k].features THEN HintOf(r, k)
          ELSE call' = [call EXCEPT ![r].pos = @ + 1]

Hint(r) ==
  /\ At(r, "hint")
  /\ IF Len(registry.order) # call[r].size THEN Raise(r)
     ELSE IF call[r].pos > Len(registry.order) THEN HintOf(r, None)
     ELSE LET k == registry.order[call[r].pos] IN
          IF call[r].about \in registry.plans[k].features THEN HintOf(r, k)
          ELSE call' = [call EXCEPT ![r].pos = @ + 1]

Next ==
  \/ \E t \in Reloaders :
       \/ \E cat \in Catalogs : StartReload(t, cat)
       \/ ClearFeatures(t) \/ ClearPlans(t) \/ PutFeature(t) \/ PutPlan(t)
       \/ SetDefault(t) \/ RaiseHalfway(t)
  \/ \E r \in Readers :
       \/ BeginCan(r) \/ BeginLimit(r) \/ BeginPage(r)
       \/ CheckOverrides(r) \/ GetFeature(r)
       \/ FindPlan(r) \/ ReadDefault(r) \/ FindDefault(r)
       \/ CopyFeatures(r) \/ NextOfPage(r) \/ Scan(r) \/ Hint(r)

Spec == Init /\ [][Next]_vars

-----------------------------------------------------------------------------
(* "Fully replaces registry contents": a reload that no other overlaps      *)
(* leaves exactly its own catalog, in its own order, whatever an earlier    *)
(* one that failed or was overlapped had left there.                       *)
LoneReloadReplaces == settled # None => registry = settled

(* What a catalog answers when it is read in one piece. *)
FirstPlanWith(cat, f) ==
  LET having == {i \in DOMAIN cat.order : f \in cat.plans[cat.order[i]].features}
  IN  IF having = {} THEN None ELSE cat.order[Min(having)]

AnswerOf(cat, c) ==
  LET plan    == GetPlan(cat, c.key)
      verdict == FeatureVerdict(cat, c.key, c.about)
      hint    == FirstPlanWith(cat, c.about)
  IN  CASE c.about = None        -> IF plan = None THEN [verdict |-> "error", value |-> None] ELSE NoAnswer
        [] c.about \in Resources -> IF plan = None THEN [verdict |-> "error", value |-> None]
                                    ELSE [verdict |-> "quota", value |-> PlanLimit(plan, c.about)]
        [] c.about \in FeatureKeys /\ c.kind = "catalog page" -> [verdict |-> "shown", value |-> hint]
        [] c.about \in FeatureKeys /\ c.kind # "catalog page" ->
             [verdict |-> verdict, value |-> IF verdict = "refused" THEN hint ELSE None]

ByCatalog(r) == call[r].step = "answered" /\ call[r].answer.verdict \notin {"none", "granted", "denied"}

(* A call that no reload touched gives the answer of the catalog in force,  *)
(* upgrade_to included: the first plan with the feature, in the order of    *)
(* that catalog.  The docstring of which_plan_has_feature() calls it the    *)
(* lowest; it is if the application lists its plans from low to high, which *)
(* nothing in the code sees to.                                            *)
UndisturbedIsExact ==
  \A r \in Readers : ByCatalog(r) /\ call[r].settled # None =>
    call[r].answer = AnswerOf(call[r].settled, call[r])

NoMoreThan(p, q) == q = Unlimited \/ (p # Unlimited /\ p <= q)

(* Plans are tiers above one default, and their features are registered. *)
Tiered(cats) ==
  \A a, b \in cats :
    /\ a.default = b.default /\ a.plans[a.default] # None
    /\ \A k \in ToSet(a.order) :
         /\ a.plans[a.default].features \subseteq a.plans[k].features
         /\ \A res \in Resources : NoMoreThan(PlanLimit(a.plans[a.default], res), PlanLimit(a.plans[k], res))
         /\ a.plans[k].features \subseteq a.features

(* The cleared and half-filled registry errs on the side of refusing: a     *)
(* feature or a quota given during reloads is given by one of the catalogs  *)
(* that were loaded meanwhile, if those are tiers above the same default.   *)
NeverMoreGenerous ==
  \A r \in Readers : ByCatalog(r) /\ Tiered(call[r].seen) =>
    /\ call[r].answer.verdict = "allowed" =>
         \E cat \in call[r].seen : FeatureVerdict(cat, call[r].key, call[r].about) = "allowed"
    /\ call[r].answer.verdict = "quota" =>
         \E cat \in call[r].seen :
           NoMoreThan(call[r].answer.value, PlanLimit(GetPlan(cat, call[r].key), call[r].about))

(* An upgrade hint is never made up of two catalogs: some catalog loaded    *)
(* during the call has that plan, with that feature.                       *)
HintIsOfACatalog ==
  \A r \in Readers : ByCatalog(r) /\ call[r].answer.verdict \in {"refused", "shown"} /\ call[r].answer.value # None =>
    \E cat \in call[r].seen :
      LET plan == cat.plans[call[r].answer.value] IN plan # None /\ call[r].about \in plan.features

-----------------------------------------------------------------------------
(* "The replace is atomic from the caller's perspective" (plancraft.py):    *)
(* every answer is that of a catalog that was loaded before, during or      *)
(* after the call.                                                         *)
ReloadIsAtomic ==
  \A r \in Readers : ByCatalog(r) =>
    \E cat \in call[r].seen : call[r].answer = AnswerOf(cat, call[r])
=============================================================================
