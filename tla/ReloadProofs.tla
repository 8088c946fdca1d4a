---------------------------- MODULE ReloadProofs ----------------------------
(***************************************************************************)
(* Theorems about reloads and the calls they run under, for any catalogs,  *)
(* override lists and numbers of threads.                                  *)
(***************************************************************************)
EXTENDS CatalogReload, WellFoundedInduction, SequenceTheorems, TLAPS

-----------------------------------------------------------------------------
(* The registry: what it holds is of catalogs that are in `origin', and a  *)
(* reload that is alone has put there just what it has gone through.        *)

OfOrigin ==
  /\ \A k \in PlanKeys : registry.plans[k] # None => \E cat \in origin : cat.plans[k] = registry.plans[k]
  /\ \E cat \in origin : registry.default = cat.default

Underway(t) ==
  Running(t) =>
    /\ reload[t].cat \in origin /\ settled = None
    /\ reload[t].left \subseteq reload[t].cat.features
    /\ reload[t].step \in {"clear features", "clear plans"} =>
         reload[t].left = reload[t].cat.features /\ reload[t].next = 1

(* The first plans of cat, n of them, are the plans of the registry. *)
HoldsFirst(cat, n) ==
  /\ Len(registry.order) = n /\ n <= Len(cat.order)
  /\ \A i \in 1 .. n : /\ registry.order[i] = cat.order[i]
                       /\ registry.plans[cat.order[i]] = cat.plans[cat.order[i]]

Lone(t) ==
  Running(t) /\ reload[t].alone =>
    /\ \A u \in Reloaders : Running(u) => u = t
    /\ reload[t].step = "clear plans" => registry.features = {}
    /\ reload[t].step = "fill" => /\ registry.features = reload[t].cat.features \ reload[t].left
                                  /\ HoldsFirst(reload[t].cat, reload[t].next - 1)

RegistryInv ==
  /\ registry \in OrderedCatalog /\ Consistent(registry)
  /\ reload \in [Reloaders -> Reloading \cup {Resting}]
  /\ origin \in SUBSET Catalogs /\ settled \in Catalogs \cup {None}
  /\ OfOrigin /\ LoneReloadReplaces
  /\ \A t \in Reloaders : Underway(t) /\ Lone(t)

-----------------------------------------------------------------------------
(* A call, from its own record c. *)

Done(c)   == c.step = "answered" /\ c.todo = {}
Counts(c) == c.step = "answered" /\ c.answer.verdict \notin {"none", "granted", "denied"}

(* What each kind of call is about, and the steps it takes. *)
Shaped(c) ==
  /\ c.step = "overrides" => c.kind = "can"
  /\ c.step = "feature"   => c.kind \in {"can", "plan page"} /\ c.about \in FeatureKeys
  /\ c.step \in {"plan", "fallback", "default"} => c.kind # "catalog page" /\ c.key \in PlanKeys
  /\ c.step = "default"   => c.wanted \in PlanKeys
  /\ c.step = "copy"      => c.kind \in {"plan page", "catalog page"} /\ c.about = None
  /\ c.step \in {"scan", "hint"} => c.kind \notin {"limit", "usage page"} /\ c.about \in FeatureKeys
  /\ c.step = "hint"      => c.pos # 0
  /\ ~Done(c) =>
       /\ c.kind = "can"   => c.about \in FeatureKeys /\ c.todo = {} /\ c.answer = NoAnswer
       /\ c.kind = "limit" => c.about \in Resources /\ c.todo = {}
       /\ c.kind = "plan page"    => c.about \in FeatureKeys \cup {None} /\ c.todo \subseteq FeatureKeys
       /\ c.kind = "usage page"   => c.about \in Resources \cup {None} /\ c.todo \subseteq Resources
       /\ c.kind = "catalog page" => c.about \in FeatureKeys \cup {None} /\ c.todo \subseteq FeatureKeys
       /\ c.kind # "catalog page" => c.key \in PlanKeys
       /\ c.about = None => c.answer = NoAnswer

(* What a call under way has seen, where `loaded' is the origin of the       *)
(* registry and `inForce' the settled catalog.                              *)
Informed(c, loaded, inForce) ==
  ~Done(c) =>
    /\ loaded \subseteq c.seen
    /\ c.step = "default" => \E cat \in c.seen : c.wanted = cat.default
    /\ c.settled # None => c.settled = inForce

(* What a call that no reload has touched knows of the catalog. *)
Knows(cat, c) ==
  /\ c.step \in {"plan", "fallback", "default", "scan", "hint"} /\ c.about \in FeatureKeys
       /\ c.kind # "catalog page" => c.about \in cat.features
  /\ c.step \in {"fallback", "default"} => cat.plans[c.key] = None
  /\ c.step = "default" => c.wanted = cat.default
  /\ c.step \in {"scan", "hint"} /\ c.kind # "catalog page" =>
       GetPlan(cat, c.key) # None /\ c.about \notin GetPlan(cat, c.key).features
  /\ c.step = "hint" =>
       /\ c.size = Len(cat.order) /\ c.pos <= Len(cat.order) + 1
       /\ \A i \in 1 .. c.pos - 1 : c.about \notin cat.plans[cat.order[i]].features

Undisturbed(c) == ~Done(c) /\ c.settled # None => Knows(c.settled, c)

(* What its last answer is worth. *)
Exact(c) == Counts(c) /\ c.settled # None => c.answer = AnswerOf(c.settled, c)

Modest(c) ==
  Counts(c) /\ Tiered(c.seen) =>
    /\ c.answer.verdict = "allowed" => \E cat \in c.seen : FeatureVerdict(cat, c.key, c.about) = "allowed"
    /\ c.answer.verdict = "quota" =>
         \E cat \in c.seen : NoMoreThan(c.answer.value, PlanLimit(GetPlan(cat, c.key), c.about))

OfOneCatalog(c) ==
  Counts(c) /\ c.answer.verdict \in {"refused", "shown"} /\ c.answer.value # None =>
    \E cat \in c.seen : LET plan == cat.plans[c.answer.value] IN plan # None /\ c.about \in plan.features

CallOK(c, loaded, inForce) ==
  /\ c \in Call /\ Shaped(c) /\ Informed(c, loaded, inForce) /\ Undisturbed(c)
  /\ Exact(c) /\ Modest(c) /\ OfOneCatalog(c)

CallsInv == call \in [Readers -> Call] /\ \A r \in Readers : CallOK(call[r], origin, settled)

ReloadInv == RegistryInv /\ CallsInv

-----------------------------------------------------------------------------
(* The registry under the steps of a reload. *)

LEMMA CatalogTyped ==
  ASSUME NEW cat \in Catalogs
  PROVE  /\ cat \in OrderedCatalog /\ IsInjective(cat.order)
         /\ cat.features \in SUBSET FeatureKeys /\ cat.default \in PlanKeys
         /\ cat.order \in Seq(PlanKeys) /\ Len(cat.order) \in Nat
         /\ DOMAIN cat.order = 1 .. Len(cat.order)
         /\ \A k \in PlanKeys : cat.plans[k] \in Plan \cup {None}
         /\ \A k \in PlanKeys : cat.plans[k] # None <=> \E i \in DOMAIN cat.order : cat.order[i] = k
<1>1. cat \in OrderedCatalog /\ Consistent(cat)
  BY OrderedAssumption
<1>2. /\ cat.features \in SUBSET FeatureKeys /\ cat.default \in PlanKeys /\ cat.order \in Seq(PlanKeys)
      /\ \A k \in PlanKeys : cat.plans[k] \in Plan \cup {None}
  BY <1>1 DEF OrderedCatalog
<1>3. Len(cat.order) \in Nat /\ DOMAIN cat.order = 1 .. Len(cat.order)
  BY <1>2
<1>4. \A k \in PlanKeys : cat.plans[k] # None <=> \E i \in DOMAIN cat.order : cat.order[i] = k
  BY <1>1 DEF Consistent, ToSet
<1>. QED BY <1>1, <1>2, <1>3, <1>4 DEF Consistent

(* The same of the registry. *)
LEMMA RegistryTyped ==
  ASSUME RegistryInv
  PROVE  /\ IsInjective(registry.order)
         /\ registry.features \in SUBSET FeatureKeys /\ registry.default \in PlanKeys
         /\ registry.plans \in [PlanKeys -> Plan \cup {None}]
         /\ registry.order \in Seq(PlanKeys) /\ Len(registry.order) \in Nat
         /\ DOMAIN registry.order = 1 .. Len(registry.order)
         /\ \A k \in PlanKeys : registry.plans[k] \in Plan \cup {None}
         /\ \A k \in PlanKeys : registry.plans[k] # None <=> \E i \in DOMAIN registry.order : registry.order[i] = k
<1>1. registry \in OrderedCatalog /\ Consistent(registry)
  BY DEF RegistryInv
<1>2. /\ registry.features \in SUBSET FeatureKeys /\ registry.default \in PlanKeys
      /\ registry.order \in Seq(PlanKeys) /\ registry.plans \in [PlanKeys -> Plan \cup {None}]
  BY <1>1 DEF OrderedCatalog
<1>3. Len(registry.order) \in Nat /\ DOMAIN registry.order = 1 .. Len(registry.order)
  BY <1>2
<1>4. \A k \in PlanKeys : registry.plans[k] # None <=> \E i \in DOMAIN registry.order : registry.order[i] = k
  BY <1>1 DEF Consistent, ToSet
<1>. QED BY <1>1, <1>2, <1>3, <1>4 DEF Consistent

LEMMA RegistryStarts ==
  Init => RegistryInv
<1>. SUFFICES ASSUME Init  PROVE RegistryInv
  OBVIOUS
<1>1. /\ settled \in Catalogs /\ registry = settled /\ origin = {settled}
      /\ registry \in OrderedCatalog /\ Consistent(registry)
  BY OrderedAssumption DEF Init
<1>2. \A t \in Reloaders : ~Running(t)
  BY DEF Init, Running, Resting
<1>3. reload \in [Reloaders -> Reloading \cup {Resting}]
  BY DEF Init
<1>. QED BY <1>1, <1>2, <1>3 DEF RegistryInv, OfOrigin, LoneReloadReplaces, Underway, Lone

(* Who is running. *)
LEMMA RunningTyped ==
  ASSUME RegistryInv, NEW t \in Reloaders
  PROVE  /\ Running(t) <=> reload[t] \in Reloading
         /\ Running(t) => /\ reload[t].cat \in Catalogs /\ reload[t].left \in SUBSET FeatureKeys
                          /\ reload[t].next \in Nat \ {0} /\ reload[t].alone \in BOOLEAN
                          /\ reload[t].step \in {"clear features", "clear plans", "fill"}
         /\ ~Running(t) => reload[t] = Resting
<1>1. reload[t] \in Reloading \/ reload[t] = Resting
  BY DEF RegistryInv
<1>2. ASSUME reload[t] \in Reloading
      PROVE  /\ reload[t].cat \in Catalogs /\ reload[t].left \in SUBSET FeatureKeys
             /\ reload[t].next \in Nat \ {0} /\ reload[t].alone \in BOOLEAN
             /\ reload[t].step \in {"clear features", "clear plans", "fill"}
  BY <1>2 DEF Reloading
<1>3. reload[t] \in Reloading => Running(t)
  BY <1>2 DEF Running
<1>4. reload[t] = Resting => ~Running(t)
  BY DEF Running, Resting
<1>. QED BY <1>1, <1>2, <1>3, <1>4

LEMMA StartKeepsRegistry ==
  ASSUME RegistryInv, NEW t \in Reloaders, NEW cat \in Catalogs, StartReload(t, cat)
  PROVE  RegistryInv'
<1>. DEFINE mine == [step |-> "clear features", cat |-> cat, left |-> cat.features, next |-> 1,
                     alone |-> \A v \in Reloaders : ~Running(v)]
<1>0. ~Running(t) /\ registry' = registry /\ origin' = origin \cup {cat} /\ settled' = None
  BY DEF StartReload
<1>1. /\ reload' = [u \in Reloaders |-> IF u = t THEN mine
                      ELSE IF Running(u) THEN [reload[u] EXCEPT !.alone = FALSE] ELSE Resting]
  BY DEF StartReload
<1>2. mine \in Reloading /\ mine.step = "clear features" /\ mine.cat = cat /\ mine.left = cat.features
      /\ mine.next = 1 /\ (mine.alone <=> \A v \in Reloaders : ~Running(v))
  BY CatalogTyped DEF Reloading
<1>. HIDE DEF mine
<1>3. reload'[t] = mine
  BY <1>1
<1>4. ASSUME NEW u \in Reloaders, u # t
      PROVE  /\ reload'[u] \in Reloading \cup {Resting} /\ (Running(u)' <=> Running(u))
             /\ Running(u) => /\ ~reload'[u].alone /\ reload'[u].step = reload[u].step
                              /\ reload'[u].cat = reload[u].cat /\ reload'[u].left = reload[u].left
                              /\ reload'[u].next = reload[u].next
  <2>1. CASE Running(u)
    <3>1. reload'[u] = [reload[u] EXCEPT !.alone = FALSE] /\ reload[u] \in Reloading
      BY <1>1, <1>4, <2>1, RunningTyped
    <3>. QED BY <2>1, <3>1 DEF Reloading, Running
  <2>2. CASE ~Running(u)
    BY <1>1, <1>4, <2>2 DEF Running, Resting
  <2>. QED BY <2>1, <2>2
<1>5. reload' \in [Reloaders -> Reloading \cup {Resting}]
  <2>1. \A u \in Reloaders : reload'[u] \in Reloading \cup {Resting}
    BY <1>2, <1>3, <1>4
  <2>. QED BY <1>1, <2>1
<1>6. OfOrigin'
  BY <1>0 DEF RegistryInv, OfOrigin
<1>7. ASSUME NEW u \in Reloaders  PROVE Underway(u)' /\ Lone(u)'
  <2>1. CASE u = t
    <3>1. Running(t)' /\ Underway(t)'
      BY <1>0, <1>2, <1>3 DEF Underway, Running
    <3>2. Lone(t)'
      BY <1>2, <1>3, <1>4 DEF Lone
    <3>. QED BY <2>1, <3>1, <3>2
  <2>2. CASE u # t
    <3>1. Underway(u)
      BY DEF RegistryInv
    <3>2. Underway(u)'
      BY <1>0, <1>4, <2>2, <3>1 DEF Underway
    <3>3. Lone(u)'
      BY <1>4, <2>2 DEF Lone
    <3>. QED BY <3>2, <3>3
  <2>. QED BY <2>1, <2>2
<1>. QED BY <1>0, <1>5, <1>6, <1>7 DEF RegistryInv, LoneReloadReplaces

LEMMA UnderwayKept ==
  ASSUME NEW u, Underway(u), reload'[u] = reload[u], origin' = origin, settled' = settled
  PROVE  Underway(u)'
<1>. DEFINE before == reload[u]
            after  == reload'[u]
<1>1. after = before
  OBVIOUS
<1>2. before.step # "resting" =>
        /\ before.cat \in origin /\ settled = None /\ before.left \subseteq before.cat.features
        /\ before.step \in {"clear features", "clear plans"} =>
             before.left = before.cat.features /\ before.next = 1
  BY DEF Underway, Running
<1>. HIDE DEF before, after
<1>3. after.step # "resting" =>
        /\ after.cat \in origin' /\ settled' = None /\ after.left \subseteq after.cat.features
        /\ after.step \in {"clear features", "clear plans"} =>
             after.left = after.cat.features /\ after.next = 1
  BY <1>1, <1>2
<1>. QED BY <1>3 DEF Underway, Running, after

(* A step of one reload leaves the others as they were; none of them is alone. *)
LEMMA OthersKeep ==
  ASSUME RegistryInv, NEW t \in Reloaders, Running(t), NEW new \in Reloading \cup {Resting},
         reload' = [reload EXCEPT ![t] = new], origin' = origin, settled' = settled
  PROVE  /\ reload' \in [Reloaders -> Reloading \cup {Resting}] /\ reload'[t] = new
         /\ \A u \in Reloaders : u # t => reload'[u] = reload[u] /\ Underway(u)' /\ Lone(u)'
         /\ reload[t].alone => \A u \in Reloaders : Running(u)' => u = t
         /\ settled = None
<1>1. reload \in [Reloaders -> Reloading \cup {Resting}] /\ Underway(t) /\ Lone(t)
  BY DEF RegistryInv
<1>2. ASSUME NEW u \in Reloaders, u # t
      PROVE  reload'[u] = reload[u] /\ Underway(u)' /\ Lone(u)'
  <2>1. reload'[u] = reload[u]
    BY <1>1, <1>2
  <2>2. Underway(u) /\ Lone(u)
    BY DEF RegistryInv
  <2>3. Underway(u)'
    BY <2>1, <2>2, UnderwayKept
  <2>4. ~ (Running(u) /\ reload[u].alone)
    BY <1>2, <2>2 DEF Lone
  <2>5. Lone(u)'
    BY <2>1, <2>4 DEF Lone, Running
  <2>. QED BY <2>1, <2>3, <2>5
<1>3. reload[t].alone => \A u \in Reloaders : Running(u)' => u = t
  BY <1>1, <1>2 DEF Lone, Running
<1>4. settled = None
  BY <1>1 DEF Underway
<1>5. reload' \in [Reloaders -> Reloading \cup {Resting}] /\ reload'[t] = new
  BY <1>1
<1>. QED BY <1>2, <1>3, <1>4, <1>5

LEMMA ClearFeaturesKeeps ==
  ASSUME RegistryInv, NEW t \in Reloaders, ClearFeatures(t)
  PROVE  RegistryInv'
<1>. DEFINE new == [reload[t] EXCEPT !.step = "clear plans"]
<1>0. reload[t].step = "clear features" /\ origin' = origin /\ settled' = settled
      /\ registry' = [registry EXCEPT !.features = {}]
  BY DEF ClearFeatures, Doing
<1>1. Running(t) /\ reload[t] \in Reloading /\ Underway(t)
  BY <1>0, RunningTyped DEF Running, RegistryInv
<1>2. reload' = [reload EXCEPT ![t] = new]
  BY DEF ClearFeatures
<1>3. /\ new \in Reloading /\ new.step = "clear plans" /\ new.cat = reload[t].cat /\ new.left = reload[t].left
      /\ new.next = reload[t].next /\ new.alone = reload[t].alone
  BY <1>1 DEF Reloading
<1>. HIDE DEF new
<1>4. /\ reload' \in [Reloaders -> Reloading \cup {Resting}] /\ reload'[t] = new /\ settled = None
      /\ \A u \in Reloaders : u # t => Underway(u)' /\ Lone(u)'
      /\ reload[t].alone => \A u \in Reloaders : Running(u)' => u = t
  BY <1>0, <1>1, <1>2, <1>3, OthersKeep
<1>5. /\ registry' \in OrderedCatalog /\ registry'.features = {} /\ registry'.plans = registry.plans
      /\ registry'.order = registry.order /\ registry'.default = registry.default
  BY <1>0 DEF RegistryInv, OrderedCatalog
<1>6. Consistent(registry)' /\ OfOrigin' /\ LoneReloadReplaces'
  BY <1>0, <1>4, <1>5 DEF RegistryInv, Consistent, OfOrigin, LoneReloadReplaces
<1>7. Underway(t)'
  BY <1>0, <1>1, <1>3, <1>4 DEF Underway, Running
<1>8. Lone(t)'
  BY <1>3, <1>4, <1>5 DEF Lone
<1>. QED BY <1>0, <1>4, <1>5, <1>6, <1>7, <1>8 DEF RegistryInv

LEMMA ClearPlansKeeps ==
  ASSUME RegistryInv, NEW t \in Reloaders, ClearPlans(t)
  PROVE  RegistryInv'
<1>. DEFINE new   == [reload[t] EXCEPT !.step = "fill"]
            empty == [k \in PlanKeys |-> None]
<1>0. reload[t].step = "clear plans" /\ origin' = origin /\ settled' = settled
      /\ registry' = [registry EXCEPT !.plans = empty, !.order = <<>>]
  BY DEF ClearPlans, Doing
<1>1. Running(t) /\ reload[t] \in Reloading /\ Underway(t) /\ Lone(t)
  BY <1>0, RunningTyped DEF Running, RegistryInv
<1>2. reload' = [reload EXCEPT ![t] = new]
  BY DEF ClearPlans
<1>3. /\ new \in Reloading /\ new.step = "fill" /\ new.cat = reload[t].cat /\ new.left = reload[t].left
      /\ new.next = reload[t].next /\ new.alone = reload[t].alone
  BY <1>1 DEF Reloading
<1>. HIDE DEF new
<1>4. /\ reload' \in [Reloaders -> Reloading \cup {Resting}] /\ reload'[t] = new /\ settled = None
      /\ \A u \in Reloaders : u # t => Underway(u)' /\ Lone(u)'
      /\ reload[t].alone => \A u \in Reloaders : Running(u)' => u = t
  BY <1>0, <1>1, <1>2, <1>3, OthersKeep
<1>5. /\ registry' \in OrderedCatalog /\ registry'.features = registry.features /\ registry'.plans = empty
      /\ registry'.order = <<>> /\ registry'.default = registry.default
  <2>1. empty \in [PlanKeys -> Plan \cup {None}] /\ <<>> \in Seq(PlanKeys)
    OBVIOUS
  <2>. HIDE DEF empty
  <2>. QED BY <1>0, <2>1 DEF RegistryInv, OrderedCatalog
<1>6. Consistent(registry)'
  BY <1>5 DEF Consistent, ToSet, IsInjective
<1>7. OfOrigin' /\ LoneReloadReplaces'
  BY <1>0, <1>4, <1>5 DEF RegistryInv, OfOrigin, LoneReloadReplaces
<1>8. Underway(t)'
  BY <1>0, <1>1, <1>3, <1>4 DEF Underway, Running
<1>9. Lone(t)'
  <2>. SUFFICES ASSUME reload[t].alone
                PROVE  /\ registry'.features = reload'[t].cat.features \ reload'[t].left
                       /\ HoldsFirst(reload[t].cat, reload[t].next - 1)'
    BY <1>3, <1>4 DEF Lone
  <2>1. registry'.features = {} /\ reload[t].left = reload[t].cat.features /\ reload[t].next = 1
    BY <1>0, <1>1, <1>5 DEF Lone, Underway
  <2>2. Len(reload[t].cat.order) \in Nat
    BY <1>1, RunningTyped, CatalogTyped
  <2>. QED BY <1>3, <1>4, <1>5, <2>1, <2>2 DEF HoldsFirst
<1>. QED BY <1>0, <1>4, <1>5, <1>6, <1>7, <1>8, <1>9 DEF RegistryInv

LEMMA PutFeatureKeeps ==
  ASSUME RegistryInv, NEW t \in Reloaders, PutFeature(t)
  PROVE  RegistryInv'
<1>0. reload[t].step = "fill" /\ origin' = origin /\ settled' = settled
  BY DEF PutFeature, Doing
<1>1. Running(t) /\ reload[t] \in Reloading /\ Underway(t) /\ Lone(t)
  BY <1>0, RunningTyped DEF Running, RegistryInv
<1>2. PICK f \in reload[t].left : /\ registry' = [registry EXCEPT !.features = @ \cup {f}]
                                  /\ reload' = [reload EXCEPT ![t].left = @ \ {f}]
  BY DEF PutFeature
<1>. DEFINE left == reload[t].left \ {f}
            new  == [reload[t] EXCEPT !.left = left]
<1>3. reload' = [reload EXCEPT ![t] = new]
  BY <1>2 DEF RegistryInv
<1>4. reload[t].left \in SUBSET FeatureKeys
  BY <1>1 DEF Reloading
<1>5. /\ new \in Reloading /\ new.step = "fill" /\ new.cat = reload[t].cat /\ new.left = left
      /\ new.next = reload[t].next /\ new.alone = reload[t].alone
  BY <1>0, <1>1, <1>4 DEF Reloading
<1>. HIDE DEF new
<1>6. /\ reload' \in [Reloaders -> Reloading \cup {Resting}] /\ reload'[t] = new /\ settled = None
      /\ \A u \in Reloaders : u # t => Underway(u)' /\ Lone(u)'
      /\ reload[t].alone => \A u \in Reloaders : Running(u)' => u = t
  BY <1>0, <1>1, <1>3, <1>5, OthersKeep
<1>7. /\ registry' \in OrderedCatalog /\ registry'.features = registry.features \cup {f}
      /\ registry'.plans = registry.plans
      /\ registry'.order = registry.order /\ registry'.default = registry.default
  BY <1>2, <1>4 DEF RegistryInv, OrderedCatalog
<1>8. Consistent(registry)' /\ OfOrigin' /\ LoneReloadReplaces'
  BY <1>0, <1>6, <1>7 DEF RegistryInv, Consistent, OfOrigin, LoneReloadReplaces
<1>9. Underway(t)'
  BY <1>0, <1>1, <1>5, <1>6 DEF Underway
<1>10. Lone(t)'
  <2>. SUFFICES ASSUME reload[t].alone
                PROVE  /\ registry'.features = reload'[t].cat.features \ reload'[t].left
                       /\ HoldsFirst(reload[t].cat, reload[t].next - 1)'
    BY <1>5, <1>6 DEF Lone
  <2>1. /\ registry.features = reload[t].cat.features \ reload[t].left
        /\ HoldsFirst(reload[t].cat, reload[t].next - 1)
        /\ reload[t].left \subseteq reload[t].cat.features
    BY <1>0, <1>1 DEF Lone, Underway
  <2>2. registry'.features = reload[t].cat.features \ left
    BY <1>2, <1>7, <2>1
  <2>. QED BY <1>5, <1>6, <1>7, <2>1, <2>2 DEF HoldsFirst
<1>. QED BY <1>0, <1>6, <1>7, <1>8, <1>9, <1>10 DEF RegistryInv

LEMMA RaiseKeepsRegistry ==
  ASSUME RegistryInv, NEW t \in Reloaders, RaiseHalfway(t)
  PROVE  RegistryInv'
<1>0. Running(t) /\ origin' = origin /\ settled' = settled /\ registry' = registry
      /\ reload' = [reload EXCEPT ![t] = Resting]
  BY DEF RaiseHalfway, Doing, Running
<1>1. /\ reload' \in [Reloaders -> Reloading \cup {Resting}] /\ reload'[t] = Resting
      /\ \A u \in Reloaders : u # t => Underway(u)' /\ Lone(u)'
  BY <1>0, OthersKeep
<1>2. Underway(t)' /\ Lone(t)'
  <2>1. ~ Running(t)'
    BY <1>1 DEF Running, Resting
  <2>. QED BY <2>1 DEF Underway, Lone
<1>3. Consistent(registry)' /\ OfOrigin' /\ LoneReloadReplaces'
  BY <1>0 DEF RegistryInv, Consistent, OfOrigin, LoneReloadReplaces
<1>. QED BY <1>0, <1>1, <1>2, <1>3 DEF RegistryInv

(* Putting a plan into the dict: a new key goes to the end. *)
LEMMA PutPlanOrder ==
  ASSUME NEW order \in Seq(PlanKeys), IsInjective(order), NEW k \in PlanKeys,
         \A i \in 1 .. Len(order) : order[i] # k
  PROVE  /\ Append(order, k) \in Seq(PlanKeys) /\ Len(Append(order, k)) = Len(order) + 1
         /\ \A i \in 1 .. Len(order) : Append(order, k)[i] = order[i]
         /\ Append(order, k)[Len(order) + 1] = k
         /\ IsInjective(Append(order, k))
<1>. DEFINE longer == Append(order, k)
            n      == Len(order)
<1>1. n \in Nat /\ DOMAIN order = 1 .. n
  OBVIOUS
<1>2. /\ longer \in Seq(PlanKeys) /\ Len(longer) = n + 1
      /\ \A i \in 1 .. n : longer[i] = order[i]
      /\ longer[n + 1] = k
  OBVIOUS
<1>. HIDE DEF longer
<1>3. DOMAIN longer = 1 .. n + 1
  BY <1>1, <1>2
<1>. HIDE DEF n
<1>4. \A i, j \in 1 .. n : order[i] = order[j] => i = j
  BY <1>1 DEF IsInjective
<1>5. \A i \in 1 .. n : order[i] # k
  BY DEF n
<1>6. IsInjective(longer)
  <2>. SUFFICES ASSUME NEW i \in 1 .. n + 1, NEW j \in 1 .. n + 1, longer[i] = longer[j]  PROVE i = j
    BY <1>3 DEF IsInjective
  <2>1. CASE i \in 1 .. n /\ j \in 1 .. n
    BY <1>2, <1>4, <2>1
  <2>2. CASE i = n + 1 /\ j \in 1 .. n
    BY <1>2, <1>5, <2>2
  <2>3. CASE i \in 1 .. n /\ j = n + 1
    BY <1>2, <1>5, <2>3
  <2>. QED BY <1>1, <2>1, <2>2, <2>3
<1>. QED BY <1>2, <1>6 DEF longer, n

LEMMA PutPlanRegistry ==
  ASSUME RegistryInv, NEW k \in PlanKeys, NEW plan \in Plan, plan # None,
         registry' = [registry EXCEPT !.plans[k] = plan,
                        !.order = IF registry.plans[k] = None THEN Append(registry.order, k) ELSE registry.order]
  PROVE  /\ registry' \in OrderedCatalog /\ Consistent(registry)'
         /\ registry'.features = registry.features /\ registry'.default = registry.default
         /\ registry'.plans = [registry.plans EXCEPT ![k] = plan]
         /\ registry.plans[k] = None => registry'.order = Append(registry.order, k)
<1>. DEFINE plans == [registry.plans EXCEPT ![k] = plan]
            order == IF registry.plans[k] = None THEN Append(registry.order, k) ELSE registry.order
<1>1. /\ registry \in OrderedCatalog /\ registry.order \in Seq(PlanKeys) /\ IsInjective(registry.order)
      /\ registry.plans \in [PlanKeys -> Plan \cup {None}]
      /\ Len(registry.order) \in Nat /\ DOMAIN registry.order = 1 .. Len(registry.order)
      /\ \A j \in PlanKeys : registry.plans[j] # None <=> \E i \in DOMAIN registry.order : registry.order[i] = j
  BY RegistryTyped DEF RegistryInv
<1>2. registry' = [registry EXCEPT !.plans = plans, !.order = order]
  BY <1>1 DEF OrderedCatalog
<1>3. /\ plans \in [PlanKeys -> Plan \cup {None}]
      /\ \A j \in PlanKeys : plans[j] = IF j = k THEN plan ELSE registry.plans[j]
  BY <1>1
<1>4. /\ order \in Seq(PlanKeys) /\ IsInjective(order)
      /\ \A j \in PlanKeys : (\E i \in DOMAIN order : order[i] = j) <=> j = k \/ registry.plans[j] # None
  <2>1. CASE registry.plans[k] = None
    <3>. DEFINE n == Len(registry.order)
    <3>1. \A i \in 1 .. n : registry.order[i] # k
      BY <1>1, <2>1
    <3>2. /\ order \in Seq(PlanKeys) /\ IsInjective(order) /\ Len(order) = n + 1 /\ n \in Nat
          /\ \A i \in 1 .. n : order[i] = registry.order[i]
          /\ order[n + 1] = k
      BY <1>1, <2>1, <3>1, PutPlanOrder
    <3>3. DOMAIN order = 1 .. n + 1
      BY <3>2, LenProperties
    <3>4. \A j \in PlanKeys : registry.plans[j] # None <=> \E i \in 1 .. n : registry.order[i] = j
      BY <1>1
    <3>. HIDE DEF order, n
    <3>5. \A j \in PlanKeys : (\E i \in 1 .. n + 1 : order[i] = j) <=> j = k \/ \E i \in 1 .. n : registry.order[i] = j
      <4>. SUFFICES ASSUME NEW j \in PlanKeys
                    PROVE  (\E i \in 1 .. n + 1 : order[i] = j) <=> j = k \/ \E i \in 1 .. n : registry.order[i] = j
        OBVIOUS
      <4>1. ASSUME NEW i \in 1 .. n + 1, order[i] = j  PROVE j = k \/ \E h \in 1 .. n : registry.order[h] = j
        <5>1. CASE i = n + 1
          BY <3>2, <4>1, <5>1
        <5>2. CASE i \in 1 .. n
          BY <3>2, <4>1, <5>2
        <5>. QED BY <3>2, <5>1, <5>2
      <4>2. ASSUME NEW i \in 1 .. n, registry.order[i] = j  PROVE \E h \in 1 .. n + 1 : order[h] = j
        BY <3>2, <4>2
      <4>3. j = k => \E i \in 1 .. n + 1 : order[i] = j
        BY <3>2
      <4>. QED BY <4>1, <4>2, <4>3
    <3>. QED BY <3>2, <3>3, <3>4, <3>5
  <2>2. CASE registry.plans[k] # None
    <3>1. order = registry.order
      BY <2>2
    <3>. HIDE DEF order
    <3>. QED BY <1>1, <2>2, <3>1
  <2>. QED BY <2>1, <2>2
<1>5. registry.plans[k] = None => order = Append(registry.order, k)
  OBVIOUS
<1>. HIDE DEF plans, order
<1>6. /\ registry' \in OrderedCatalog /\ registry'.features = registry.features
      /\ registry'.default = registry.default /\ registry'.plans = plans /\ registry'.order = order
  BY <1>1, <1>2, <1>3, <1>4 DEF OrderedCatalog
<1>7. Consistent(registry)'
  <2>1. ToSet(order) = {j \in PlanKeys : plans[j] # None}
    <3>1. \A j : j \in ToSet(order) <=> \E i \in DOMAIN order : order[i] = j
      BY DEF ToSet
    <3>2. \A i \in DOMAIN order : order[i] \in PlanKeys
      BY <1>4
    <3>. QED BY <1>3, <1>4, <3>1, <3>2
  <2>. QED BY <1>4, <1>6, <2>1 DEF Consistent
<1>. QED BY <1>5, <1>6, <1>7 DEF plans

LEMMA PutPlanKeeps ==
  ASSUME RegistryInv, NEW t \in Reloaders, PutPlan(t)
  PROVE  RegistryInv'
<1>. DEFINE cat  == reload[t].cat
            n    == reload[t].next
            k    == cat.order[n]
            plan == cat.plans[k]
            new  == [reload[t] EXCEPT !.next = n + 1]
<1>0. reload[t].step = "fill" /\ origin' = origin /\ settled' = settled /\ reload[t].left = {} /\ ~Filled(t)
  BY DEF PutPlan, Doing
<1>1. Running(t) /\ reload[t] \in Reloading /\ Underway(t) /\ Lone(t) /\ cat \in Catalogs /\ n \in Nat \ {0}
  BY <1>0, RunningTyped DEF Running, RegistryInv
<1>2. /\ IsInjective(cat.order) /\ cat.order \in Seq(PlanKeys) /\ Len(cat.order) \in Nat
      /\ DOMAIN cat.order = 1 .. Len(cat.order)
  BY <1>1, CatalogTyped
<1>3. n \in 1 .. Len(cat.order)
  BY <1>0, <1>1, <1>2 DEF Filled
<1>4. k \in PlanKeys /\ plan \in Plan /\ plan # None
  <2>1. k \in PlanKeys
    BY <1>2, <1>3
  <2>2. plan # None
    BY <1>1, <1>2, <1>3, <2>1, CatalogTyped
  <2>. QED BY <1>1, <2>1, <2>2, CatalogTyped
<1>5. reload' = [reload EXCEPT ![t] = new]
  BY DEF PutPlan, RegistryInv
<1>6. /\ new \in Reloading /\ new.step = "fill" /\ new.cat = cat /\ new.left = {}
      /\ new.next = n + 1 /\ new.alone = reload[t].alone
  <2>1. n + 1 \in Nat \ {0}
    BY <1>1
  <2>. DEFINE next == n + 1
  <2>. HIDE DEF next
  <2>2. new = [reload[t] EXCEPT !.next = next]
    BY DEF next
  <2>. HIDE DEF new
  <2>. QED BY <1>0, <1>1, <2>1, <2>2 DEF Reloading, next
<1>7. registry' = [registry EXCEPT !.plans[k] = plan,
                     !.order = IF registry.plans[k] = None THEN Append(registry.order, k) ELSE registry.order]
  BY DEF PutPlan, RegistryInv, OrderedCatalog
<1>. HIDE DEF new, plan, k
<1>8. /\ registry' \in OrderedCatalog /\ Consistent(registry)'
      /\ registry'.features = registry.features /\ registry'.default = registry.default
      /\ registry'.plans = [registry.plans EXCEPT ![k] = plan]
      /\ registry.plans[k] = None => registry'.order = Append(registry.order, k)
  BY <1>4, <1>7, PutPlanRegistry
<1>9. /\ reload' \in [Reloaders -> Reloading \cup {Resting}] /\ reload'[t] = new /\ settled = None
      /\ \A u \in Reloaders : u # t => Underway(u)' /\ Lone(u)'
      /\ reload[t].alone => \A u \in Reloaders : Running(u)' => u = t
  BY <1>0, <1>1, <1>5, <1>6, OthersKeep
<1>10. \A j \in PlanKeys : registry'.plans[j] = IF j = k THEN plan ELSE registry.plans[j]
  BY <1>8, RegistryTyped
<1>11. OfOrigin' /\ LoneReloadReplaces'
  <2>1. cat \in origin /\ cat.plans[k] = plan
    BY <1>1 DEF Underway, plan
  <2>. HIDE DEF cat
  <2>2. \A j \in PlanKeys : registry'.plans[j] # None => \E c \in origin : c.plans[j] = registry'.plans[j]
    BY <1>10, <2>1 DEF RegistryInv, OfOrigin
  <2>3. \E c \in origin : registry'.default = c.default
    BY <1>8 DEF RegistryInv, OfOrigin
  <2>. QED BY <1>0, <1>9, <2>2, <2>3 DEF OfOrigin, LoneReloadReplaces
<1>12. Underway(t)'
  BY <1>0, <1>1, <1>6, <1>9 DEF Underway
<1>13. Lone(t)'
  <2>. SUFFICES ASSUME reload[t].alone
                PROVE  /\ registry'.features = cat.features \ {}
                       /\ Len(registry'.order) = n /\ n <= Len(cat.order)
                       /\ \A i \in 1 .. n : /\ registry'.order[i] = cat.order[i]
                                            /\ registry'.plans[cat.order[i]] = cat.plans[cat.order[i]]
    <3>1. (n + 1) - 1 = n
      BY <1>1
    <3>2. reload'[t].cat = cat /\ reload'[t].left = {} /\ reload'[t].next = n + 1
      BY <1>6, <1>9
    <3>3. \A u \in Reloaders : reload[t].alone /\ Running(u)' => u = t
      BY <1>9
    <3>4. reload'[t].step = "fill" /\ reload'[t].alone = reload[t].alone
      BY <1>6, <1>9
    <3>. HIDE DEF cat, n
    <3>. QED BY <3>1, <3>2, <3>3, <3>4 DEF Lone, HoldsFirst
  <2>1. /\ registry.features = cat.features \ {}
        /\ HoldsFirst(cat, n - 1)
    BY <1>0, <1>1 DEF Lone
  <2>2. /\ Len(registry.order) = n - 1 /\ n - 1 <= Len(cat.order)
        /\ \A i \in 1 .. n - 1 : registry.order[i] = cat.order[i] /\ registry.plans[cat.order[i]] = cat.plans[cat.order[i]]
    BY <2>1 DEF HoldsFirst
  <2>3. \A i \in 1 .. n - 1 : cat.order[i] # k
    <3>. SUFFICES ASSUME NEW i \in 1 .. n - 1  PROVE cat.order[i] # cat.order[n]
      BY DEF k
    <3>1. i \in 1 .. Len(cat.order) /\ i # n
      BY <1>2, <1>3
    <3>. QED BY <1>2, <1>3, <3>1 DEF IsInjective
  <2>4. registry.plans[k] = None
    BY <1>4, <2>2, <2>3, RegistryTyped
  <2>5. /\ Len(registry'.order) = n
        /\ \A i \in 1 .. n - 1 : registry'.order[i] = registry.order[i]
        /\ registry'.order[n] = k
    <3>1. registry.order \in Seq(PlanKeys) /\ IsInjective(registry.order) /\ Len(registry.order) + 1 = n
      BY <1>3, <2>2, RegistryTyped
    <3>2. \A i \in 1 .. Len(registry.order) : registry.order[i] # k
      BY <2>2, <2>3
    <3>3. registry'.order = Append(registry.order, k)
      BY <1>8, <2>4
    <3>. DEFINE order == registry.order
    <3>4. order \in Seq(PlanKeys) /\ IsInjective(order) /\ (\A i \in 1 .. Len(order) : order[i] # k)
      BY <3>1, <3>2
    <3>. HIDE DEF order
    <3>5. /\ Len(Append(order, k)) = Len(order) + 1
          /\ \A i \in 1 .. Len(order) : Append(order, k)[i] = order[i]
          /\ Append(order, k)[Len(order) + 1] = k
      BY <1>4, <3>4, PutPlanOrder
    <3>6. Len(order) = n - 1 /\ Len(order) + 1 = n
      BY <2>2, <3>1 DEF order
    <3>. QED BY <3>3, <3>5, <3>6 DEF order
  <2>6. ASSUME NEW i \in 1 .. n
        PROVE  registry'.order[i] = cat.order[i] /\ registry'.plans[cat.order[i]] = cat.plans[cat.order[i]]
    <3>1. CASE i = n
      BY <1>4, <1>10, <2>5, <3>1 DEF k, plan
    <3>2. CASE i \in 1 .. n - 1
      <4>1. cat.order[i] # k /\ cat.order[i] \in PlanKeys
        BY <1>2, <1>3, <2>3, <3>2
      <4>. QED BY <1>10, <2>2, <2>5, <3>2, <4>1
    <3>. QED BY <1>3, <3>1, <3>2
  <2>. QED BY <1>3, <1>8, <2>1, <2>5, <2>6
<1>. QED BY <1>0, <1>8, <1>9, <1>11, <1>12, <1>13 DEF RegistryInv

(* A reload that is alone and has gone through its catalog leaves just that. *)
LEMMA LoneFillIsExact ==
  ASSUME RegistryInv, NEW cat \in Catalogs, registry.features = cat.features, HoldsFirst(cat, Len(cat.order))
  PROVE  [registry EXCEPT !.default = cat.default] = cat
<1>1. /\ cat.order \in Seq(PlanKeys) /\ registry.order \in Seq(PlanKeys) /\ Len(cat.order) \in Nat
      /\ Len(registry.order) = Len(cat.order)
      /\ \A i \in 1 .. Len(cat.order) : /\ registry.order[i] = cat.order[i]
                                        /\ registry.plans[cat.order[i]] = cat.plans[cat.order[i]]
  BY RegistryTyped, CatalogTyped DEF HoldsFirst
<1>2. registry.order = cat.order
  BY <1>1, SeqEqual
<1>3. cat.plans \in [PlanKeys -> Plan \cup {None}] /\ registry.plans \in [PlanKeys -> Plan \cup {None}]
  BY RegistryTyped, CatalogTyped DEF OrderedCatalog
<1>4. ASSUME NEW k \in PlanKeys  PROVE registry.plans[k] = cat.plans[k]
  <2>1. DOMAIN cat.order = 1 .. Len(cat.order)
    BY CatalogTyped
  <2>2. CASE \E i \in DOMAIN cat.order : cat.order[i] = k
    BY <1>1, <2>1, <2>2
  <2>3. CASE ~ \E i \in DOMAIN cat.order : cat.order[i] = k
    BY <1>2, <2>3, RegistryTyped, CatalogTyped
  <2>. QED BY <2>2, <2>3
<1>5. registry.plans = cat.plans
  BY <1>3, <1>4
<1>6. registry \in OrderedCatalog /\ cat \in OrderedCatalog
  BY CatalogTyped DEF RegistryInv
<1>. QED BY <1>2, <1>5, <1>6 DEF OrderedCatalog

LEMMA SetDefaultKeeps ==
  ASSUME RegistryInv, NEW t \in Reloaders, SetDefault(t)
  PROVE  RegistryInv' /\ origin' \subseteq origin
<1>0. /\ reload[t].step = "fill" /\ reload[t].left = {} /\ reload[t].next > Len(reload[t].cat.order)
      /\ registry' = [registry EXCEPT !.default = reload[t].cat.default]
      /\ reload' = [reload EXCEPT ![t] = Resting]
  BY DEF SetDefault, Filled
<1>1. PICK cat \in Catalogs : cat = reload[t].cat
  BY <1>0, RunningTyped DEF Running
<1>2. Running(t) /\ Underway(t) /\ Lone(t) /\ reload[t].next \in Nat
  BY <1>0, RunningTyped DEF Running, RegistryInv
<1>3. /\ registry' \in OrderedCatalog /\ registry'.features = registry.features /\ registry'.plans = registry.plans
      /\ registry'.order = registry.order /\ registry'.default = cat.default
  <2>1. cat.default \in PlanKeys
    BY CatalogTyped
  <2>. QED BY <1>0, <1>1, <2>1 DEF RegistryInv, OrderedCatalog
<1>4. Consistent(registry)'
  BY <1>3 DEF RegistryInv, Consistent
<1>5. CASE ~reload[t].alone
  <2>1. settled' = settled /\ origin' = origin
    BY <1>5 DEF SetDefault
  <2>2. /\ reload' \in [Reloaders -> Reloading \cup {Resting}] /\ reload'[t] = Resting /\ settled = None
        /\ \A u \in Reloaders : u # t => Underway(u)' /\ Lone(u)'
    BY <1>0, <1>2, <2>1, OthersKeep
  <2>3. Underway(t)' /\ Lone(t)'
    <3>1. ~ Running(t)'
      BY <2>2 DEF Running, Resting
    <3>. QED BY <3>1 DEF Underway, Lone
  <2>4. cat \in origin
    BY <1>1, <1>2 DEF Underway
  <2>5. OfOrigin' /\ LoneReloadReplaces'
    BY <1>3, <2>1, <2>2, <2>4 DEF RegistryInv, OfOrigin, LoneReloadReplaces
  <2>. QED BY <1>3, <1>4, <1>5, <2>1, <2>2, <2>3, <2>5 DEF RegistryInv
<1>6. CASE reload[t].alone
  <2>1. settled' = cat /\ origin' = {cat}
    BY <1>1, <1>6 DEF SetDefault
  <2>2. registry.features = cat.features /\ HoldsFirst(cat, Len(cat.order))
    <3>1. registry.features = cat.features \ {} /\ HoldsFirst(cat, reload[t].next - 1)
      BY <1>0, <1>1, <1>2, <1>6 DEF Lone
    <3>2. reload[t].next - 1 = Len(cat.order)
      BY <1>0, <1>1, <1>2, <3>1, CatalogTyped DEF HoldsFirst
    <3>. QED BY <3>1, <3>2
  <2>3. registry' = cat
    BY <1>0, <1>1, <2>2, LoneFillIsExact
  <2>4. ASSUME NEW u \in Reloaders  PROVE ~Running(u)'
    <3>1. CASE u = t
      BY <1>0, <3>1 DEF Running, Resting, RegistryInv
    <3>2. CASE u # t
      <4>1. reload'[u] = reload[u]
        BY <1>0, <3>2 DEF RegistryInv
      <4>2. ~Running(u)
        BY <1>2, <1>6, <3>2 DEF Lone
      <4>. QED BY <4>1, <4>2 DEF Running
    <3>. QED BY <3>1, <3>2
  <2>5. reload' \in [Reloaders -> Reloading \cup {Resting}]
    BY <1>0 DEF RegistryInv
  <2>6. OfOrigin' /\ LoneReloadReplaces'
    BY <2>1, <2>3 DEF OfOrigin, LoneReloadReplaces
  <2>7. \A u \in Reloaders : Underway(u)' /\ Lone(u)'
    BY <2>4 DEF Underway, Lone
  <2>8. cat \in origin
    BY <1>1, <1>2 DEF Underway
  <2>. QED BY <1>3, <1>4, <2>1, <2>5, <2>6, <2>7, <2>8 DEF RegistryInv
<1>. QED BY <1>5, <1>6

(* Calls leave the registry alone. *)
LEMMA RegistryStays ==
  ASSUME RegistryInv, UNCHANGED <<registry, reload, origin, settled>>
  PROVE  RegistryInv'
<1>1. ASSUME NEW u \in Reloaders  PROVE Underway(u)' /\ Lone(u)'
  <2>1. Underway(u) /\ Lone(u) /\ reload'[u] = reload[u]
    BY DEF RegistryInv
  <2>2. Underway(u)'
    BY <2>1, UnderwayKept
  <2>3. Lone(u)'
    BY <2>1, Zenon DEF Lone, HoldsFirst, Running
  <2>. QED BY <2>2, <2>3
<1>. QED BY <1>1 DEF RegistryInv, OfOrigin, LoneReloadReplaces, Consistent

LEMMA RegistryStep ==
  ASSUME RegistryInv, [Next]_vars
  PROVE  RegistryInv'
<1>1. ASSUME NEW t \in Reloaders, NEW cat \in Catalogs, StartReload(t, cat)  PROVE RegistryInv'
  BY <1>1, StartKeepsRegistry
<1>2. ASSUME NEW t \in Reloaders, ClearFeatures(t)  PROVE RegistryInv'
  BY <1>2, ClearFeaturesKeeps
<1>3. ASSUME NEW t \in Reloaders, ClearPlans(t)  PROVE RegistryInv'
  BY <1>3, ClearPlansKeeps
<1>4. ASSUME NEW t \in Reloaders, PutFeature(t)  PROVE RegistryInv'
  BY <1>4, PutFeatureKeeps
<1>5. ASSUME NEW t \in Reloaders, PutPlan(t)  PROVE RegistryInv'
  BY <1>5, PutPlanKeeps
<1>6. ASSUME NEW t \in Reloaders, SetDefault(t)  PROVE RegistryInv'
  BY <1>6, SetDefaultKeeps
<1>7. ASSUME NEW t \in Reloaders, RaiseHalfway(t)  PROVE RegistryInv'
  BY <1>7, RaiseKeepsRegistry
<1>8. ASSUME NEW r \in Readers,
             \/ BeginCan(r) \/ BeginLimit(r) \/ BeginPage(r)
             \/ CheckOverrides(r) \/ GetFeature(r) \/ FindPlan(r) \/ ReadDefault(r) \/ FindDefault(r)
             \/ CopyFeatures(r) \/ NextOfPage(r) \/ Scan(r) \/ Hint(r)
      PROVE  RegistryInv'
  <2>1. UNCHANGED <<registry, reload, origin, settled>>
    BY <1>8 DEF BeginCan, BeginLimit, BeginPage, Begin, CheckOverrides, GetFeature, FindPlan, ReadDefault,
                FindDefault, CopyFeatures, NextOfPage, Scan, Hint, At
  <2>. QED BY <2>1, RegistryStays
<1>9. CASE UNCHANGED vars
  BY <1>9, RegistryStays DEF vars
<1>. QED BY <1>1, <1>2, <1>3, <1>4, <1>5, <1>6, <1>7, <1>8, <1>9 DEF Next

(* What the registry holds comes of the catalogs in `origin', and a reload   *)
(* that is alone has put there exactly what it has gone through.            *)
THEOREM RegistryInvariant == Spec => []RegistryInv
<1>. QED BY RegistryStarts, RegistryStep, PTL DEF Spec

(* "Fully replaces registry contents": what a reload that no other overlaps *)
(* leaves is its own catalog, in its own order, for any catalogs and any     *)
(* number of threads, whatever an earlier reload had left half-done.        *)
THEOREM ReloadLoneReplaces == Spec => []LoneReloadReplaces
<1>1. RegistryInv => LoneReloadReplaces
  BY DEF RegistryInv
<1>. QED BY <1>1, RegistryInvariant, PTL

-----------------------------------------------------------------------------
(* The records a call goes through. *)

StepTo(c, step) == [c EXCEPT !.step = step]
Answered(c, verdict, value) ==
  [c EXCEPT !.step = "answered", !.wanted = None, !.pos = 0, !.size = 0,
            !.answer = [verdict |-> verdict, value |-> value]]
Raised(c)        == [Answered(c, "error", None) EXCEPT !.todo = {}]
Through(c, keys) == [c EXCEPT !.step = "answered", !.todo = keys]

(* What a step of a call does not touch. *)
SameCall(new, c) ==
  /\ new.kind = c.kind /\ new.key = c.key /\ new.overrides = c.overrides
  /\ new.seen = c.seen /\ new.settled = c.settled

LEMMA StepToFields ==
  ASSUME NEW c \in Call, NEW step \in Steps
  PROVE  /\ StepTo(c, step) \in Call /\ SameCall(StepTo(c, step), c) /\ StepTo(c, step).step = step
         /\ StepTo(c, step).about = c.about /\ StepTo(c, step).wanted = c.wanted
         /\ StepTo(c, step).pos = c.pos /\ StepTo(c, step).size = c.size
         /\ StepTo(c, step).todo = c.todo /\ StepTo(c, step).answer = c.answer
BY DEF StepTo, Call, SameCall

LEMMA AnsweredFields ==
  ASSUME NEW c \in Call, NEW verdict \in Verdicts, NEW value \in Int \cup PlanKeys \cup {None}
  PROVE  LET new == Answered(c, verdict, value) IN
         /\ new \in Call /\ SameCall(new, c) /\ new.step = "answered" /\ new.about = c.about
         /\ new.todo = c.todo /\ new.answer = [verdict |-> verdict, value |-> value]
<1>. DEFINE answer == [verdict |-> verdict, value |-> value]
            first  == [c EXCEPT !.step = "answered", !.wanted = None]
            second == [first EXCEPT !.pos = 0, !.size = 0]
            third  == [second EXCEPT !.answer = answer]
<1>1. answer \in [verdict : Verdicts, value : Int \cup PlanKeys \cup {None}]
  OBVIOUS
<1>2. "answered" \in Steps
  BY DEF Steps
<1>. HIDE DEF answer
<1>3. /\ first \in Call /\ SameCall(first, c) /\ first.step = "answered" /\ first.about = c.about
      /\ first.todo = c.todo
  BY <1>2 DEF Call, SameCall
<1>4. Answered(c, verdict, value) = third
  BY DEF Answered, Call, answer
<1>. HIDE DEF first
<1>5. /\ second \in Call /\ SameCall(second, first) /\ second.step = first.step /\ second.about = first.about
      /\ second.todo = first.todo
  BY <1>3 DEF Call, SameCall
<1>. HIDE DEF second
<1>6. /\ third \in Call /\ SameCall(third, second) /\ third.step = second.step /\ third.about = second.about
      /\ third.todo = second.todo /\ third.answer = answer
  BY <1>1, <1>5 DEF Call, SameCall
<1>. HIDE DEF third
<1>7. SameCall(third, c)
  BY <1>3, <1>5, <1>6 DEF SameCall
<1>. QED BY <1>3, <1>4, <1>5, <1>6, <1>7 DEF answer

LEMMA RaisedFields ==
  ASSUME NEW c \in Call
  PROVE  LET new == Raised(c) IN
         /\ new \in Call /\ SameCall(new, c) /\ new.step = "answered" /\ new.about = c.about
         /\ new.todo = {} /\ new.answer = [verdict |-> "error", value |-> None]
<1>. DEFINE old == Answered(c, "error", None)
<1>1. /\ old \in Call /\ SameCall(old, c) /\ old.step = "answered" /\ old.about = c.about
      /\ old.answer = [verdict |-> "error", value |-> None]
  <2>1. "error" \in Verdicts /\ None \in Int \cup PlanKeys \cup {None}
    BY DEF Verdicts
  <2>. QED BY <2>1, AnsweredFields
<1>2. Raised(c) = [old EXCEPT !.todo = {}]
  BY DEF Raised
<1>. HIDE DEF old
<1>. QED BY <1>1, <1>2 DEF Call, SameCall

LEMMA ThroughFields ==
  ASSUME NEW c \in Call, NEW keys \in SUBSET (FeatureKeys \cup Resources)
  PROVE  LET new == Through(c, keys) IN
         /\ new \in Call /\ SameCall(new, c) /\ new.step = "answered" /\ new.about = c.about
         /\ new.todo = keys /\ new.answer = c.answer
BY DEF Through, Call, SameCall, Steps

(* Each of these is what the operator of the same name does to a call. *)
LEMMA CallMoves ==
  ASSUME call \in [Readers -> Call], NEW r \in Readers
  PROVE  /\ \A step : GoTo(r, step) => call' = [call EXCEPT ![r] = StepTo(call[r], step)]
         /\ \A verdict, value : Answer(r, verdict, value) =>
              call' = [call EXCEPT ![r] = Answered(call[r], verdict, value)]
         /\ Raise(r) => call' = [call EXCEPT ![r] = Raised(call[r])]
         /\ \A keys : GoThrough(r, keys) => call' = [call EXCEPT ![r] = Through(call[r], keys)]
<1>1. \A step : GoTo(r, step) => call' = [call EXCEPT ![r] = StepTo(call[r], step)]
  BY DEF GoTo, StepTo
<1>2. \A verdict, value : Answer(r, verdict, value) =>
        call' = [call EXCEPT ![r] = Answered(call[r], verdict, value)]
  BY DEF Answer, Answered
<1>3. Raise(r) => call' = [call EXCEPT ![r] = Raised(call[r])]
  BY DEF Raise, Raised, Answered, Call
<1>4. \A keys : GoThrough(r, keys) => call' = [call EXCEPT ![r] = Through(call[r], keys)]
  BY DEF GoThrough, Through
<1>. QED BY <1>1, <1>2, <1>3, <1>4

(* A step of one reader leaves the others as they were. *)
LEMMA OneCallMoves ==
  ASSUME CallsInv, NEW r \in Readers, origin' = origin, settled' = settled,
         NEW new, CallOK(new, origin, settled), call' = [call EXCEPT ![r] = new]
  PROVE  CallsInv'
<1>1. new \in Call
  BY DEF CallOK
<1>2. call' \in [Readers -> Call] /\ \A u \in Readers : call'[u] = IF u = r THEN new ELSE call[u]
  BY <1>1 DEF CallsInv
<1>3. ASSUME NEW u \in Readers  PROVE CallOK(call'[u], origin', settled')
  BY <1>2 DEF CallsInv
<1>. QED BY <1>2, <1>3 DEF CallsInv

-----------------------------------------------------------------------------
(* The first of the positions that meet a condition. *)
LEMMA FirstPosition ==
  ASSUME NEW S \in SUBSET Nat, S # {}
  PROVE  Min(S) \in S /\ \A j \in S : Min(S) <= j
<1>. DEFINE less == OpToRel(<, Nat)
<1>1. less = {ss \in Nat \X Nat : ss[1] < ss[2]}
  BY DEF OpToRel
<1>2. IsWellFoundedOn(less, Nat)
  BY NatLessThanWellFounded
<1>. HIDE DEF less
<1>3. PICK x \in S : \A y \in S : <<y, x>> \notin less
  BY <1>2, WFMin
<1>4. \A y \in S : x <= y
  <2>. SUFFICES ASSUME NEW y \in S, ~ (x <= y)  PROVE FALSE
    OBVIOUS
  <2>1. <<y, x>> \in Nat \X Nat /\ y < x
    OBVIOUS
  <2>. QED BY <1>1, <1>3, <2>1
<1>. QED BY <1>3, <1>4 DEF Min

LEMMA LeastPosition ==
  ASSUME NEW S \in SUBSET Nat, NEW n \in S, \A j \in S : n <= j
  PROVE  Min(S) = n
<1>1. Min(S) \in S /\ \A j \in S : Min(S) <= j
  BY FirstPosition
<1>2. Min(S) \in Nat /\ n \in Nat /\ Min(S) <= n /\ n <= Min(S)
  BY <1>1
<1>. QED BY <1>2

-----------------------------------------------------------------------------
(* Calls: what has to hold of the next record of a call under way. *)

LEMMA MovedOK ==
  ASSUME NEW c, NEW loaded, NEW inForce, c \in Call, c.step # "answered",
         Shaped(c), Informed(c, loaded, inForce), Undisturbed(c)
  PROVE  CallOK(c, loaded, inForce)
BY DEF CallOK, Exact, Modest, OfOneCatalog, Counts, Done

LEMMA AnswerOfSame ==
  ASSUME NEW c, NEW new, SameCall(new, c), new.about = c.about
  PROVE  \A cat : AnswerOf(cat, new) = AnswerOf(cat, c)
BY DEF AnswerOf, SameCall

LEMMA AnsweredOK ==
  ASSUME NEW c, NEW loaded, NEW inForce, CallOK(c, loaded, inForce), ~Done(c), c.about # None,
         NEW verdict \in Verdicts, NEW value \in Int \cup PlanKeys \cup {None},
         verdict \notin {"none", "granted", "denied"} /\ c.settled # None =>
           AnswerOf(c.settled, c) = [verdict |-> verdict, value |-> value],
         verdict = "allowed" /\ Tiered(c.seen) =>
           \E cat \in c.seen : FeatureVerdict(cat, c.key, c.about) = "allowed",
         verdict = "quota" /\ Tiered(c.seen) =>
           \E cat \in c.seen : NoMoreThan(value, PlanLimit(GetPlan(cat, c.key), c.about)),
         verdict \in {"refused", "shown"} /\ value # None =>
           \E cat \in c.seen : cat.plans[value] # None /\ c.about \in cat.plans[value].features
  PROVE  CallOK(Answered(c, verdict, value), loaded, inForce)
<1>. DEFINE new == Answered(c, verdict, value)
<1>1. c \in Call /\ Shaped(c) /\ Informed(c, loaded, inForce)
  BY DEF CallOK
<1>2. /\ new \in Call /\ SameCall(new, c) /\ new.step = "answered" /\ new.about = c.about
      /\ new.todo = c.todo /\ new.answer = [verdict |-> verdict, value |-> value]
  BY <1>1, AnsweredFields
<1>3. new.answer.verdict = verdict /\ new.answer.value = value
  BY <1>2
<1>. HIDE DEF new
<1>4. Shaped(new)
  BY <1>1, <1>2 DEF Shaped, Done, SameCall
<1>5. Informed(new, loaded, inForce)
  BY <1>1, <1>2 DEF Informed, Shaped, Done, SameCall
<1>6. Undisturbed(new)
  BY <1>2 DEF Undisturbed, Knows
<1>7. Exact(new)
  <2>1. AnswerOf(c.settled, new) = AnswerOf(c.settled, c)
    BY <1>2, AnswerOfSame
  <2>. QED BY <1>2, <1>3, <2>1 DEF Exact, Counts, SameCall
<1>8. Modest(new)
  BY <1>2, <1>3 DEF Modest, SameCall
<1>9. OfOneCatalog(new)
  BY <1>2, <1>3 DEF OfOneCatalog, SameCall
<1>. QED BY <1>2, <1>4, <1>5, <1>6, <1>7, <1>8, <1>9 DEF CallOK, new

LEMMA RaisedOK ==
  ASSUME NEW c, NEW loaded, NEW inForce, CallOK(c, loaded, inForce), ~Done(c),
         c.settled # None => AnswerOf(c.settled, c) = [verdict |-> "error", value |-> None]
  PROVE  CallOK(Raised(c), loaded, inForce)
<1>. DEFINE new == Raised(c)
<1>1. c \in Call /\ Shaped(c) /\ Informed(c, loaded, inForce)
  BY DEF CallOK
<1>2. /\ new \in Call /\ SameCall(new, c) /\ new.step = "answered" /\ new.about = c.about
      /\ new.todo = {} /\ new.answer = [verdict |-> "error", value |-> None]
  BY <1>1, RaisedFields
<1>3. new.answer.verdict = "error" /\ Done(new)
  BY <1>2 DEF Done
<1>. HIDE DEF new
<1>4. Shaped(new) /\ Informed(new, loaded, inForce) /\ Undisturbed(new)
  BY <1>2, <1>3 DEF Shaped, Informed, Undisturbed
<1>5. Exact(new)
  <2>1. AnswerOf(c.settled, new) = AnswerOf(c.settled, c)
    BY <1>2, AnswerOfSame
  <2>. QED BY <1>2, <2>1 DEF Exact, SameCall
<1>6. Modest(new) /\ OfOneCatalog(new)
  BY <1>3 DEF Modest, OfOneCatalog
<1>. QED BY <1>2, <1>4, <1>5, <1>6 DEF CallOK, new

(* A page that starts on its loop has not answered yet. *)
LEMMA ThroughOK ==
  ASSUME NEW c, NEW loaded, NEW inForce, CallOK(c, loaded, inForce), ~Done(c), c.about = None,
         NEW keys \in SUBSET (FeatureKeys \cup Resources),
         IF c.kind = "usage page" THEN keys \subseteq Resources ELSE keys \subseteq FeatureKeys
  PROVE  CallOK(Through(c, keys), loaded, inForce)
<1>. DEFINE new == Through(c, keys)
<1>1. c \in Call /\ Shaped(c) /\ Informed(c, loaded, inForce)
  BY DEF CallOK
<1>2. /\ new \in Call /\ SameCall(new, c) /\ new.step = "answered" /\ new.about = c.about
      /\ new.todo = keys /\ new.answer = c.answer
  BY <1>1, ThroughFields
<1>. HIDE DEF new
<1>3. c.answer = NoAnswer /\ new.answer.verdict = "none"
  <2>1. c.answer = NoAnswer
    BY <1>1, Zenon DEF Shaped
  <2>2. new.answer.verdict = NoAnswer.verdict /\ NoAnswer.verdict = "none"
    BY <1>2, <2>1 DEF NoAnswer
  <2>. QED BY <2>1, <2>2
<1>4. c.kind \in {"plan page", "usage page", "catalog page"}
  BY <1>1, NamesAssumption DEF Shaped, Call, Kinds
<1>5. Shaped(new)
  BY <1>1, <1>2, <1>3, <1>4 DEF Shaped, SameCall
<1>6. Informed(new, loaded, inForce)
  BY <1>1, <1>2, <1>4 DEF Informed, SameCall
<1>7. Undisturbed(new)
  BY <1>2 DEF Undisturbed, Knows
<1>8. Exact(new) /\ Modest(new) /\ OfOneCatalog(new)
  BY <1>2, <1>3, <1>4 DEF Exact, Modest, OfOneCatalog, Counts, SameCall
<1>. QED BY <1>2, <1>5, <1>6, <1>7, <1>8 DEF CallOK, new

-----------------------------------------------------------------------------
(* What a call under way reads is of the catalogs it has seen, and is the  *)
(* settled catalog itself when no reload has touched the call.             *)

LEMMA CallReads ==
  ASSUME ReloadInv, NEW r \in Readers, ~Done(call[r])
  PROVE  /\ CallOK(call[r], origin, settled) /\ call[r] \in Call /\ call[r].seen \in SUBSET Catalogs
         /\ call[r].settled # None => registry = call[r].settled
         /\ \A k \in PlanKeys : registry.plans[k] # None =>
              \E cat \in call[r].seen : cat.plans[k] = registry.plans[k]
         /\ \E cat \in call[r].seen : registry.default = cat.default
<1>1. CallOK(call[r], origin, settled)
  BY DEF ReloadInv, CallsInv
<1>2. call[r] \in Call /\ Informed(call[r], origin, settled)
  BY <1>1 DEF CallOK
<1>3. call[r].seen \in SUBSET Catalogs
  BY <1>2 DEF Call
<1>4. origin \subseteq call[r].seen /\ (call[r].settled # None => call[r].settled = settled)
  BY <1>2 DEF Informed
<1>5. OfOrigin /\ LoneReloadReplaces
  BY DEF ReloadInv, RegistryInv
<1>. QED BY <1>1, <1>2, <1>3, <1>4, <1>5 DEF OfOrigin, LoneReloadReplaces

(* A plan of a catalog, and how far it goes. *)
LEMMA PlanTyped ==
  ASSUME NEW plan \in Plan
  PROVE  /\ plan # None /\ plan.features \in SUBSET FeatureKeys
         /\ \A res \in Resources : PlanLimit(plan, res) \in Int
         /\ \A res \in Resources : NoMoreThan(PlanLimit(plan, res), PlanLimit(plan, res))
<1>1. plan # None
  BY NoneAssumption DEF Plan
<1>2. plan.features \in SUBSET FeatureKeys /\ plan.limits \in [Resources -> Int \cup {None}]
  BY DEF Plan
<1>3. \A res \in Resources : PlanLimit(plan, res) \in Int
  BY <1>2 DEF PlanLimit
<1>4. \A res \in Resources : NoMoreThan(PlanLimit(plan, res), PlanLimit(plan, res))
  BY <1>3 DEF NoMoreThan
<1>. QED BY <1>1, <1>2, <1>3, <1>4

(* The plan an entity has in cat goes at least as far as `plan'. *)
AtLeast(cat, key, plan) ==
  LET own == GetPlan(cat, key) IN
  /\ own # None /\ plan.features \subseteq own.features /\ plan.features \subseteq cat.features
  /\ \A res \in Resources : NoMoreThan(PlanLimit(plan, res), PlanLimit(own, res))

(* The entity's own plan, wherever it was found. *)
LEMMA OwnPlanIsModest ==
  ASSUME NEW cat \in Catalogs, NEW key \in PlanKeys, cat.plans[key] # None, Tiered({cat})
  PROVE  AtLeast(cat, key, cat.plans[key])
<1>1. cat.plans[key] \in Plan /\ key \in ToSet(cat.order)
  BY CatalogTyped DEF ToSet
<1>2. cat.plans[key].features \subseteq cat.features
  BY <1>1 DEF Tiered
<1>. QED BY <1>1, <1>2, PlanTyped DEF AtLeast, GetPlan

(* The default plan of tiers goes no further than the entity's own. *)
LEMMA DefaultIsModest ==
  ASSUME NEW cat \in Catalogs, NEW key \in PlanKeys, Tiered({cat})
  PROVE  AtLeast(cat, key, cat.plans[cat.default])
<1>1. /\ cat.default \in PlanKeys /\ cat.plans[cat.default] # None
      /\ \A k \in ToSet(cat.order) :
           /\ cat.plans[cat.default].features \subseteq cat.plans[k].features
           /\ \A res \in Resources : NoMoreThan(PlanLimit(cat.plans[cat.default], res), PlanLimit(cat.plans[k], res))
           /\ cat.plans[k].features \subseteq cat.features
  BY CatalogTyped DEF Tiered
<1>2. CASE cat.plans[key] # None
  <2>1. key \in ToSet(cat.order) /\ cat.default \in ToSet(cat.order)
    BY <1>1, <1>2, CatalogTyped DEF ToSet
  <2>. QED BY <1>1, <1>2, <2>1 DEF AtLeast, GetPlan
<1>3. CASE cat.plans[key] = None
  <2>1. cat.plans[cat.default] \in Plan /\ cat.default \in ToSet(cat.order)
    BY <1>1, CatalogTyped DEF ToSet
  <2>. QED BY <1>1, <1>3, <2>1, PlanTyped DEF AtLeast, GetPlan
<1>. QED BY <1>2, <1>3

LEMMA TieredOne ==
  ASSUME NEW cats, Tiered(cats), NEW some \in SUBSET cats
  PROVE  Tiered(some)
BY DEF Tiered

-----------------------------------------------------------------------------
(* The steps of a call. *)

(* What a call does with its plan, wherever the plan comes from. *)
LEMMA FoundKeeps ==
  ASSUME ReloadInv, NEW r \in Readers, NEW plan \in Plan, call[r].step \in {"plan", "default"},
         Found(r, plan), origin' = origin, settled' = settled,
         call[r].settled # None => GetPlan(call[r].settled, call[r].key) = plan,
         Tiered(call[r].seen) => \E cat \in call[r].seen : AtLeast(cat, call[r].key, plan)
  PROVE  CallsInv'
<1>1. PICK c : c = call[r]
  OBVIOUS
<1>2. c.step \in {"plan", "default"} /\ ~Done(c) /\ CallsInv /\ call \in [Readers -> Call]
  BY <1>1 DEF Done, ReloadInv, CallsInv
<1>3. CallOK(c, origin, settled) /\ c \in Call /\ c.seen \in SUBSET Catalogs
  BY <1>1, <1>2, CallReads
<1>4. /\ c.kind # "catalog page" /\ c.key \in PlanKeys /\ c.kind \in Kinds
      /\ c.about \in FeatureKeys \cup Resources \cup {None}
      /\ c.kind = "can" => c.about \in FeatureKeys
      /\ c.kind = "limit" => c.about \in Resources
      /\ c.kind = "plan page" => c.about \in FeatureKeys \cup {None}
      /\ c.kind = "usage page" => c.about \in Resources \cup {None}
  BY <1>2, <1>3 DEF CallOK, Shaped, Call
<1>5. /\ c.settled # None => GetPlan(c.settled, c.key) = plan
      /\ Tiered(c.seen) => \E cat \in c.seen : AtLeast(cat, c.key, plan)
      /\ c.settled # None /\ c.about \in FeatureKeys => c.about \in c.settled.features
  BY <1>1, <1>2, <1>3, <1>4 DEF CallOK, Undisturbed, Knows
<1>6. /\ plan # None /\ plan.features \in SUBSET FeatureKeys
      /\ \A res \in Resources : PlanLimit(plan, res) \in Int
  BY PlanTyped
<1>7. ASSUME NEW new, CallOK(new, origin, settled), call' = [call EXCEPT ![r] = new]
      PROVE  CallsInv'
  BY <1>2, <1>7, OneCallMoves
<1>8. CASE c.about \in Resources
  <2>. DEFINE value == PlanLimit(plan, c.about)
  <2>1. call' = [call EXCEPT ![r] = Answered(c, "quota", value)]
    <3>1. c.about # None /\ c.about \notin plan.features
      BY <1>6, <1>8, NamesAssumption
    <3>2. Answer(r, "quota", value)
      BY <1>1, <1>8, <3>1 DEF Found
    <3>. QED BY <1>1, <1>2, <3>2, CallMoves
  <2>2. value \in Int \cup PlanKeys \cup {None} /\ "quota" \in Verdicts /\ c.about # None
    BY <1>6, <1>8, NamesAssumption DEF Verdicts
  <2>3. c.kind # "can"
    BY <1>4, <1>8, NamesAssumption
  <2>4. c.settled # None => AnswerOf(c.settled, c) = [verdict |-> "quota", value |-> value]
    <3>. SUFFICES ASSUME c.settled # None  PROVE AnswerOf(c.settled, c) = [verdict |-> "quota", value |-> value]
      OBVIOUS
    <3>1. c.about # None /\ c.about \notin FeatureKeys
      BY <1>8, NamesAssumption
    <3>2. GetPlan(c.settled, c.key) = plan
      BY <1>5
    <3>3. PICK cat : cat = c.settled
      OBVIOUS
    <3>4. AnswerOf(cat, c) = [verdict |-> "quota", value |-> PlanLimit(plan, c.about)]
      BY <1>6, <1>8, <3>1, <3>2, <3>3 DEF AnswerOf
    <3>. QED BY <3>3, <3>4
  <2>5. Tiered(c.seen) => \E cat \in c.seen : NoMoreThan(value, PlanLimit(GetPlan(cat, c.key), c.about))
    BY <1>5, <1>8 DEF AtLeast
  <2>. HIDE DEF value
  <2>6. CallOK(Answered(c, "quota", value), origin, settled)
    BY <1>2, <1>3, <2>2, <2>3, <2>4, <2>5, AnsweredOK
  <2>. QED BY <1>7, <2>1, <2>6
<1>9. CASE c.kind = "usage page" /\ c.about \notin Resources
  <2>. DEFINE keys == {res \in Resources : plan.limits[res] # None}
  <2>1. call' = [call EXCEPT ![r] = Through(c, keys)]
    <3>1. c.about = None /\ c.about \notin plan.features
      BY <1>4, <1>6, <1>9, NamesAssumption
    <3>2. GoThrough(r, keys)
      BY <1>1, <1>9, <3>1 DEF Found
    <3>. QED BY <1>1, <1>2, <3>2, CallMoves
  <2>2. keys \in SUBSET (FeatureKeys \cup Resources) /\ keys \subseteq Resources /\ c.about = None
    BY <1>4, <1>9
  <2>. HIDE DEF keys
  <2>3. CallOK(Through(c, keys), origin, settled)
    BY <1>2, <1>3, <1>9, <2>2, ThroughOK
  <2>. QED BY <1>7, <2>1, <2>3
<1>10. CASE c.kind # "usage page" /\ c.about \notin Resources /\ c.about = None
  <2>. DEFINE new == StepTo(c, "copy")
  <2>1. call' = [call EXCEPT ![r] = new]
    <3>1. c.about \notin plan.features
      BY <1>6, <1>10, NamesAssumption
    <3>2. GoTo(r, "copy")
      BY <1>1, <1>10, <3>1 DEF Found
    <3>. QED BY <1>1, <1>2, <3>2, CallMoves
  <2>2. /\ new \in Call /\ SameCall(new, c) /\ new.step = "copy" /\ new.about = c.about
        /\ new.todo = c.todo /\ new.answer = c.answer
    BY <1>3, StepToFields DEF Steps
  <2>. HIDE DEF new
  <2>3. c.kind = "plan page"
    BY <1>4, <1>10, NamesAssumption DEF Kinds
  <2>4. Shaped(new)
    BY <1>2, <1>3, <1>10, <2>2, <2>3 DEF CallOK, Shaped, SameCall, Done
  <2>5. Informed(new, origin, settled)
    BY <1>2, <1>3, <2>2, <2>3 DEF CallOK, Informed, SameCall
  <2>6. Undisturbed(new)
    BY <2>2 DEF Undisturbed, Knows
  <2>7. CallOK(new, origin, settled)
    BY <2>2, <2>4, <2>5, <2>6, MovedOK
  <2>. QED BY <1>7, <2>1, <2>7
<1>11. CASE c.about \in FeatureKeys /\ c.about \in plan.features
  <2>1. c.about \notin Resources /\ c.about # None /\ c.kind # "usage page"
    BY <1>4, <1>11, NamesAssumption
  <2>2. call' = [call EXCEPT ![r] = Answered(c, "allowed", None)]
    <3>1. Answer(r, "allowed", None)
      BY <1>1, <1>11, <2>1 DEF Found
    <3>. QED BY <1>1, <1>2, <3>1, CallMoves
  <2>3. c.settled # None => AnswerOf(c.settled, c) = [verdict |-> "allowed", value |-> None]
    BY <1>4, <1>5, <1>6, <1>11, <2>1 DEF AnswerOf, FeatureVerdict
  <2>4. Tiered(c.seen) => \E cat \in c.seen : FeatureVerdict(cat, c.key, c.about) = "allowed"
    BY <1>5, <1>11 DEF AtLeast, FeatureVerdict
  <2>5. "allowed" \in Verdicts
    BY DEF Verdicts
  <2>6. CallOK(Answered(c, "allowed", None), origin, settled)
    BY <1>2, <1>3, <2>1, <2>3, <2>4, <2>5, AnsweredOK
  <2>. QED BY <1>7, <2>2, <2>6
<1>12. CASE c.about \in FeatureKeys /\ c.about \notin plan.features
  <2>. DEFINE new == StepTo(c, "scan")
  <2>1. c.about \notin Resources /\ c.about # None /\ c.kind \notin {"limit", "usage page"}
    BY <1>4, <1>12, NamesAssumption
  <2>2. call' = [call EXCEPT ![r] = new]
    <3>1. GoTo(r, "scan")
      BY <1>1, <1>12, <2>1 DEF Found
    <3>. QED BY <1>1, <1>2, <3>1, CallMoves
  <2>3. /\ new \in Call /\ SameCall(new, c) /\ new.step = "scan" /\ new.about = c.about
        /\ new.todo = c.todo /\ new.answer = c.answer
    BY <1>3, StepToFields DEF Steps
  <2>. HIDE DEF new
  <2>4. Shaped(new)
    BY <1>2, <1>3, <1>12, <2>1, <2>3 DEF CallOK, Shaped, SameCall, Done
  <2>5. Informed(new, origin, settled)
    BY <1>2, <1>3, <2>3 DEF CallOK, Informed, SameCall
  <2>6. Undisturbed(new)
    BY <1>5, <1>6, <1>12, <2>3 DEF Undisturbed, Knows, SameCall
  <2>7. CallOK(new, origin, settled)
    BY <2>3, <2>4, <2>5, <2>6, MovedOK
  <2>. QED BY <1>7, <2>2, <2>7
<1>. QED BY <1>4, <1>8, <1>9, <1>10, <1>11, <1>12

LEMMA FindPlanKeeps ==
  ASSUME ReloadInv, NEW r \in Readers, FindPlan(r)
  PROVE  CallsInv'
<1>1. PICK c : c = call[r]
  OBVIOUS
<1>2. /\ c.step = "plan" /\ origin' = origin /\ settled' = settled /\ ~Done(c)
      /\ CallsInv /\ call \in [Readers -> Call]
  BY <1>1 DEF FindPlan, At, Done, ReloadInv, CallsInv
<1>3. /\ CallOK(c, origin, settled) /\ c \in Call /\ c.seen \in SUBSET Catalogs
      /\ c.settled # None => registry = c.settled
      /\ \A k \in PlanKeys : registry.plans[k] # None => \E cat \in c.seen : cat.plans[k] = registry.plans[k]
  BY <1>1, <1>2, CallReads
<1>4. c.kind # "catalog page" /\ c.key \in PlanKeys
  BY <1>2, <1>3 DEF CallOK, Shaped
<1>5. PICK plan : plan = registry.plans[c.key]
  OBVIOUS
<1>6. plan \in Plan \cup {None}
  BY <1>4, <1>5, RegistryTyped DEF ReloadInv
<1>7. CASE plan # None
  <2>1. Found(r, plan)
    BY <1>1, <1>5, <1>7 DEF FindPlan
  <2>2. c.settled # None => GetPlan(c.settled, c.key) = plan
    BY <1>3, <1>5, <1>7 DEF GetPlan
  <2>3. ASSUME Tiered(c.seen)  PROVE \E cat \in c.seen : AtLeast(cat, c.key, plan)
    <3>1. PICK cat \in c.seen : cat.plans[c.key] = plan
      BY <1>3, <1>4, <1>5, <1>7
    <3>2. cat \in Catalogs /\ Tiered({cat})
      BY <1>3, <2>3, TieredOne
    <3>3. AtLeast(cat, c.key, plan)
      BY <1>4, <1>7, <3>1, <3>2, OwnPlanIsModest
    <3>. QED BY <3>3
  <2>. QED BY <1>1, <1>2, <1>6, <1>7, <2>1, <2>2, <2>3, FoundKeeps
<1>8. CASE plan = None
  <2>. DEFINE new == StepTo(c, "fallback")
  <2>1. call' = [call EXCEPT ![r] = new]
    <3>1. GoTo(r, "fallback")
      BY <1>1, <1>5, <1>8 DEF FindPlan
    <3>. QED BY <1>1, <1>2, <3>1, CallMoves
  <2>2. /\ new \in Call /\ SameCall(new, c) /\ new.step = "fallback" /\ new.about = c.about
        /\ new.todo = c.todo /\ new.answer = c.answer
    BY <1>3, StepToFields DEF Steps
  <2>. HIDE DEF new
  <2>3. Shaped(new)
    BY <1>2, <1>3, <1>4, <2>2 DEF CallOK, Shaped, SameCall, Done
  <2>4. Informed(new, origin, settled)
    BY <1>2, <1>3, <2>2 DEF CallOK, Informed, SameCall
  <2>5. Undisturbed(new)
    BY <1>2, <1>3, <1>5, <1>8, <2>2 DEF CallOK, Undisturbed, Knows, SameCall
  <2>6. CallOK(new, origin, settled)
    BY <2>2, <2>3, <2>4, <2>5, MovedOK
  <2>. QED BY <1>2, <2>1, <2>6, OneCallMoves
<1>. QED BY <1>7, <1>8

LEMMA ReadDefaultKeeps ==
  ASSUME ReloadInv, NEW r \in Readers, ReadDefault(r)
  PROVE  CallsInv'
<1>1. PICK c : c = call[r]
  OBVIOUS
<1>2. /\ c.step = "fallback" /\ origin' = origin /\ settled' = settled /\ ~Done(c)
      /\ CallsInv /\ call \in [Readers -> Call]
  BY <1>1 DEF ReadDefault, At, Done, ReloadInv, CallsInv
<1>3. /\ CallOK(c, origin, settled) /\ c \in Call
      /\ c.settled # None => registry = c.settled
      /\ \E cat \in c.seen : registry.default = cat.default
  BY <1>1, <1>2, CallReads
<1>4. PICK wanted \in PlanKeys : wanted = registry.default
  BY RegistryTyped DEF ReloadInv
<1>. DEFINE new == [c EXCEPT !.step = "default", !.wanted = wanted]
<1>5. call' = [call EXCEPT ![r] = new]
  BY <1>1, <1>4 DEF ReadDefault
<1>6. /\ new \in Call /\ SameCall(new, c) /\ new.step = "default" /\ new.wanted = wanted
      /\ new.about = c.about /\ new.todo = c.todo /\ new.answer = c.answer
  BY <1>3 DEF Call, SameCall, Steps
<1>. HIDE DEF new
<1>7. Shaped(new)
  BY <1>2, <1>3, <1>6 DEF CallOK, Shaped, SameCall, Done
<1>8. Informed(new, origin, settled)
  BY <1>2, <1>3, <1>4, <1>6 DEF CallOK, Informed, SameCall
<1>9. Undisturbed(new)
  BY <1>2, <1>3, <1>4, <1>6 DEF CallOK, Undisturbed, Knows, SameCall
<1>10. CallOK(new, origin, settled)
  BY <1>6, <1>7, <1>8, <1>9, MovedOK
<1>. QED BY <1>2, <1>5, <1>10, OneCallMoves

LEMMA FindDefaultKeeps ==
  ASSUME ReloadInv, NEW r \in Readers, FindDefault(r)
  PROVE  CallsInv'
<1>1. PICK c : c = call[r]
  OBVIOUS
<1>2. /\ c.step = "default" /\ origin' = origin /\ settled' = settled /\ ~Done(c)
      /\ CallsInv /\ call \in [Readers -> Call]
  BY <1>1 DEF FindDefault, At, Done, ReloadInv, CallsInv
<1>3. /\ CallOK(c, origin, settled) /\ c \in Call /\ c.seen \in SUBSET Catalogs
      /\ c.settled # None => registry = c.settled
      /\ \A k \in PlanKeys : registry.plans[k] # None => \E cat \in c.seen : cat.plans[k] = registry.plans[k]
  BY <1>1, <1>2, CallReads
<1>4. /\ c.kind # "catalog page" /\ c.key \in PlanKeys /\ c.wanted \in PlanKeys
      /\ \E cat \in c.seen : c.wanted = cat.default
      /\ c.settled # None => c.wanted = c.settled.default /\ c.settled.plans[c.key] = None
  BY <1>2, <1>3 DEF CallOK, Shaped, Informed, Undisturbed, Knows
<1>5. PICK plan : plan = registry.plans[c.wanted]
  OBVIOUS
<1>6. plan \in Plan \cup {None}
  BY <1>4, <1>5, RegistryTyped DEF ReloadInv
<1>7. c.settled # None => GetPlan(c.settled, c.key) = plan
  BY <1>3, <1>4, <1>5 DEF GetPlan
<1>8. CASE plan # None
  <2>1. Found(r, plan)
    BY <1>1, <1>5, <1>8 DEF FindDefault
  <2>2. ASSUME Tiered(c.seen)  PROVE \E cat \in c.seen : AtLeast(cat, c.key, plan)
    <3>1. PICK cat \in c.seen : cat.plans[c.wanted] = plan
      BY <1>3, <1>4, <1>5, <1>8
    <3>2. cat \in Catalogs /\ Tiered({cat})
      BY <1>3, <2>2, TieredOne
    <3>3. cat.default = c.wanted
      BY <1>4, <2>2 DEF Tiered
    <3>4. AtLeast(cat, c.key, plan)
      BY <1>4, <3>1, <3>2, <3>3, DefaultIsModest
    <3>. QED BY <3>4
  <2>. QED BY <1>1, <1>2, <1>6, <1>7, <1>8, <2>1, <2>2, FoundKeeps
<1>9. CASE plan = None
  <2>1. call' = [call EXCEPT ![r] = Raised(c)]
    <3>1. Raise(r)
      BY <1>1, <1>5, <1>9 DEF FindDefault
    <3>. QED BY <1>1, <1>2, <3>1, CallMoves
  <2>2. c.about \in FeatureKeys \cup Resources \cup {None}
    BY <1>3 DEF Call
  <2>3. ASSUME NEW cat, GetPlan(cat, c.key) = None
        PROVE  AnswerOf(cat, c) = [verdict |-> "error", value |-> None]
    BY <1>4, <2>2, <2>3, NamesAssumption DEF AnswerOf, FeatureVerdict
  <2>4. c.settled # None => AnswerOf(c.settled, c) = [verdict |-> "error", value |-> None]
    BY <1>7, <1>9, <2>3
  <2>5. CallOK(Raised(c), origin, settled)
    BY <1>2, <1>3, <2>4, RaisedOK
  <2>. QED BY <1>2, <2>1, <2>5, OneCallMoves
<1>. QED BY <1>8, <1>9

LEMMA CheckOverridesKeeps ==
  ASSUME ReloadInv, NEW r \in Readers, CheckOverrides(r)
  PROVE  CallsInv'
<1>1. PICK c : c = call[r]
  OBVIOUS
<1>2. /\ c.step = "overrides" /\ origin' = origin /\ settled' = settled /\ ~Done(c)
      /\ CallsInv /\ call \in [Readers -> Call]
  BY <1>1 DEF CheckOverrides, At, Done, ReloadInv, CallsInv
<1>3. CallOK(c, origin, settled) /\ c \in Call
  BY <1>1, <1>2, CallReads
<1>4. c.kind = "can" /\ c.about \in FeatureKeys /\ c.key \in PlanKeys
  BY <1>2, <1>3 DEF CallOK, Shaped
<1>. DEFINE applicable == Applicable(c.overrides, c.about)
            verdict    == Says(c.overrides[Min(applicable)])
<1>5. CASE applicable # {}
  <2>1. call' = [call EXCEPT ![r] = Answered(c, verdict, None)]
    <3>1. Answer(r, verdict, None)
      BY <1>1, <1>5 DEF CheckOverrides
    <3>. HIDE DEF verdict
    <3>. QED BY <1>1, <1>2, <3>1, CallMoves
  <2>2. verdict \in {"granted", "denied"}
    BY DEF Says
  <2>. HIDE DEF verdict
  <2>3. verdict \in Verdicts /\ c.about # None
    BY <1>4, <2>2, NamesAssumption DEF Verdicts
  <2>4. CallOK(Answered(c, verdict, None), origin, settled)
    BY <1>2, <1>3, <2>2, <2>3, AnsweredOK
  <2>. QED BY <1>2, <2>1, <2>4, OneCallMoves
<1>6. CASE applicable = {}
  <2>. DEFINE new == StepTo(c, "feature")
  <2>1. call' = [call EXCEPT ![r] = new]
    <3>1. GoTo(r, "feature")
      BY <1>1, <1>6 DEF CheckOverrides
    <3>. QED BY <1>1, <1>2, <3>1, CallMoves
  <2>2. /\ new \in Call /\ SameCall(new, c) /\ new.step = "feature" /\ new.about = c.about
        /\ new.todo = c.todo /\ new.answer = c.answer
    BY <1>3, StepToFields DEF Steps
  <2>. HIDE DEF new
  <2>3. Shaped(new)
    BY <1>2, <1>3, <1>4, <2>2 DEF CallOK, Shaped, SameCall, Done
  <2>4. Informed(new, origin, settled)
    BY <1>2, <1>3, <1>6, <2>2 DEF CallOK, Informed, SameCall
  <2>5. Undisturbed(new)
    BY <2>2 DEF Undisturbed, Knows
  <2>6. CallOK(new, origin, settled)
    BY <2>2, <2>3, <2>4, <2>5, MovedOK
  <2>. QED BY <1>2, <2>1, <2>6, OneCallMoves
<1>. QED BY <1>5, <1>6

LEMMA GetFeatureKeeps ==
  ASSUME ReloadInv, NEW r \in Readers, GetFeature(r)
  PROVE  CallsInv'
<1>1. PICK c : c = call[r]
  OBVIOUS
<1>2. /\ c.step = "feature" /\ origin' = origin /\ settled' = settled /\ ~Done(c)
      /\ CallsInv /\ call \in [Readers -> Call]
  BY <1>1 DEF GetFeature, At, Done, ReloadInv, CallsInv
<1>3. CallOK(c, origin, settled) /\ c \in Call /\ (c.settled # None => registry = c.settled)
  BY <1>1, <1>2, CallReads
<1>4. /\ c.kind \in {"can", "plan page"} /\ c.about \in FeatureKeys /\ c.key \in PlanKeys
      /\ c.about \notin Resources /\ c.about # None
  BY <1>2, <1>3, NamesAssumption DEF CallOK, Shaped
<1>5. CASE c.about \in registry.features
  <2>. DEFINE new == StepTo(c, "plan")
  <2>1. call' = [call EXCEPT ![r] = new]
    <3>1. GoTo(r, "plan")
      BY <1>1, <1>5 DEF GetFeature
    <3>. QED BY <1>1, <1>2, <3>1, CallMoves
  <2>2. /\ new \in Call /\ SameCall(new, c) /\ new.step = "plan" /\ new.about = c.about
        /\ new.todo = c.todo /\ new.answer = c.answer
    BY <1>3, StepToFields DEF Steps
  <2>. HIDE DEF new
  <2>3. Shaped(new)
    BY <1>2, <1>3, <1>4, <2>2 DEF CallOK, Shaped, SameCall, Done
  <2>4. Informed(new, origin, settled)
    BY <1>2, <1>3, <2>2 DEF CallOK, Informed, SameCall
  <2>5. Undisturbed(new)
    BY <1>3, <1>5, <2>2 DEF Undisturbed, Knows, SameCall
  <2>6. CallOK(new, origin, settled)
    BY <2>2, <2>3, <2>4, <2>5, MovedOK
  <2>. QED BY <1>2, <2>1, <2>6, OneCallMoves
<1>6. CASE c.about \notin registry.features
  <2>1. call' = [call EXCEPT ![r] = Raised(c)]
    <3>1. Raise(r)
      BY <1>1, <1>6 DEF GetFeature
    <3>. QED BY <1>1, <1>2, <3>1, CallMoves
  <2>2. ASSUME NEW cat, c.about \notin cat.features
        PROVE  AnswerOf(cat, c) = [verdict |-> "error", value |-> None]
    BY <1>4, <2>2 DEF AnswerOf, FeatureVerdict
  <2>3. c.settled # None => AnswerOf(c.settled, c) = [verdict |-> "error", value |-> None]
    BY <1>3, <1>6, <2>2
  <2>4. CallOK(Raised(c), origin, settled)
    BY <1>2, <1>3, <2>3, RaisedOK
  <2>. QED BY <1>2, <2>1, <2>4, OneCallMoves
<1>. QED BY <1>5, <1>6

LEMMA CopyFeaturesKeeps ==
  ASSUME ReloadInv, NEW r \in Readers, CopyFeatures(r)
  PROVE  CallsInv'
<1>1. PICK c : c = call[r]
  OBVIOUS
<1>2. /\ c.step = "copy" /\ origin' = origin /\ settled' = settled /\ ~Done(c)
      /\ CallsInv /\ call \in [Readers -> Call]
  BY <1>1 DEF CopyFeatures, At, Done, ReloadInv, CallsInv
<1>3. CallOK(c, origin, settled) /\ c \in Call
  BY <1>1, <1>2, CallReads
<1>4. c.kind # "usage page" /\ c.about = None
  BY <1>2, <1>3 DEF CallOK, Shaped
<1>5. PICK keys \in SUBSET FeatureKeys : keys = registry.features
  BY RegistryTyped DEF ReloadInv
<1>6. call' = [call EXCEPT ![r] = Through(c, keys)]
  <2>1. GoThrough(r, keys)
    BY <1>5 DEF CopyFeatures
  <2>. QED BY <1>1, <1>2, <2>1, CallMoves
<1>7. CallOK(Through(c, keys), origin, settled)
  <2>1. keys \in SUBSET (FeatureKeys \cup Resources)
    OBVIOUS
  <2>. QED BY <1>2, <1>3, <1>4, <2>1, ThroughOK
<1>. QED BY <1>2, <1>6, <1>7, OneCallMoves

LEMMA NextOfPageKeeps ==
  ASSUME ReloadInv, NEW r \in Readers, NextOfPage(r)
  PROVE  CallsInv'
<1>1. PICK c : c = call[r]
  OBVIOUS
<1>2. PICK x \in c.todo :
        call' = [call EXCEPT ![r].step = ForEach(c.kind), ![r].about = x, ![r].todo = c.todo \ {x}]
  BY <1>1 DEF NextOfPage, ReloadInv, CallsInv
<1>3. /\ c.step = "answered" /\ origin' = origin /\ settled' = settled /\ ~Done(c)
      /\ CallsInv /\ call \in [Readers -> Call]
  BY <1>1, <1>2 DEF NextOfPage, At, Done, ReloadInv, CallsInv
<1>4. CallOK(c, origin, settled) /\ c \in Call
  BY <1>1, <1>3, CallReads
<1>5. c.kind \in Kinds /\ c.todo \in SUBSET (FeatureKeys \cup Resources)
  BY <1>4 DEF Call
<1>6. /\ c.kind \in {"plan page", "usage page", "catalog page"}
      /\ c.kind \in {"plan page", "catalog page"} => c.todo \subseteq FeatureKeys
      /\ c.kind = "usage page" => c.todo \subseteq Resources
      /\ c.kind # "catalog page" => c.key \in PlanKeys
  <2>1. Shaped(c)
    BY <1>4 DEF CallOK
  <2>2. c.kind # "can" /\ c.kind # "limit"
    BY <1>2, <1>3, <2>1 DEF Shaped
  <2>. QED BY <1>3, <1>5, <2>1, <2>2 DEF Shaped, Kinds
<1>. DEFINE step == ForEach(c.kind)
            todo == c.todo \ {x}
            new  == [c EXCEPT !.step = step, !.about = x, !.todo = todo]
<1>7. /\ c.kind = "plan page"    => step = "feature"
      /\ c.kind = "usage page"   => step = "plan"
      /\ c.kind = "catalog page" => step = "scan"
  BY DEF ForEach
<1>8. step \in Steps /\ step # "answered" /\ x \in FeatureKeys \cup Resources
      /\ todo \in SUBSET (FeatureKeys \cup Resources) /\ todo \subseteq c.todo
  BY <1>5, <1>6, <1>7 DEF Steps
<1>9. call' = [call EXCEPT ![r] = new]
  BY <1>1, <1>2
<1>. HIDE DEF step, todo
<1>10. /\ new \in Call /\ SameCall(new, c) /\ new.step = step /\ new.about = x /\ new.todo = todo
       /\ new.answer = c.answer
  BY <1>4, <1>8 DEF Call, SameCall
<1>. HIDE DEF new
<1>11. Shaped(new)
  <2>1. x # None /\ (x \in Resources => x \notin FeatureKeys)
    BY <1>8, NamesAssumption
  <2>2. new.kind = c.kind /\ new.key = c.key
    BY <1>10 DEF SameCall
  <2>. QED BY <1>6, <1>7, <1>8, <1>10, <2>1, <2>2 DEF Shaped
<1>12. Informed(new, origin, settled)
  <2>1. new.kind \notin {"can"} /\ new.step # "default"
    BY <1>6, <1>7, <1>10 DEF SameCall
  <2>. QED BY <1>3, <1>4, <1>10, <2>1 DEF CallOK, Informed, SameCall
<1>13. Undisturbed(new)
  <2>1. new.kind = c.kind
    BY <1>10 DEF SameCall
  <2>2. x \in Resources => x \notin FeatureKeys
    BY NamesAssumption
  <2>. QED BY <1>2, <1>6, <1>7, <1>10, <2>1, <2>2 DEF Undisturbed, Knows
<1>14. CallOK(new, origin, settled)
  BY <1>8, <1>10, <1>11, <1>12, <1>13, MovedOK
<1>. QED BY <1>3, <1>9, <1>14, OneCallMoves

LEMMA ScanKeeps ==
  ASSUME ReloadInv, NEW r \in Readers, Scan(r)
  PROVE  CallsInv'
<1>1. PICK c : c = call[r]
  OBVIOUS
<1>2. /\ c.step = "scan" /\ origin' = origin /\ settled' = settled /\ ~Done(c)
      /\ CallsInv /\ call \in [Readers -> Call]
  BY <1>1 DEF Scan, At, Done, ReloadInv, CallsInv
<1>3. CallOK(c, origin, settled) /\ c \in Call /\ (c.settled # None => registry = c.settled)
  BY <1>1, <1>2, CallReads
<1>4. PICK size \in Nat : size = Len(registry.order)
  BY RegistryTyped DEF ReloadInv
<1>. DEFINE new == [c EXCEPT !.step = "hint", !.pos = 1, !.size = size]
<1>5. call' = [call EXCEPT ![r] = new]
  BY <1>1, <1>4 DEF Scan
<1>6. /\ new \in Call /\ SameCall(new, c) /\ new.step = "hint" /\ new.pos = 1 /\ new.size = size
      /\ new.about = c.about /\ new.todo = c.todo /\ new.answer = c.answer
  BY <1>3 DEF Call, SameCall, Steps
<1>. HIDE DEF new
<1>7. Shaped(new)
  <2>1. Shaped(c) /\ new.pos # 0
    BY <1>3, <1>6 DEF CallOK
  <2>. QED BY <1>2, <1>6, <2>1 DEF Shaped, SameCall, Done
<1>8. Informed(new, origin, settled)
  BY <1>2, <1>3, <1>6 DEF CallOK, Informed, SameCall
<1>9. ASSUME c.settled # None  PROVE Knows(c.settled, new)
  <2>1. Knows(c.settled, c) /\ c.about \in FeatureKeys
    BY <1>2, <1>3, <1>9 DEF CallOK, Undisturbed, Shaped
  <2>2. size = Len(c.settled.order) /\ new.pos <= Len(c.settled.order) + 1
    BY <1>3, <1>4, <1>6, <1>9
  <2>3. \A i \in 1 .. new.pos - 1 : FALSE
    BY <1>6
  <2>. QED BY <1>2, <1>6, <2>1, <2>2, <2>3 DEF Knows, SameCall
<1>10. Undisturbed(new)
  BY <1>6, <1>9 DEF Undisturbed, SameCall
<1>11. CallOK(new, origin, settled)
  BY <1>6, <1>7, <1>8, <1>10, MovedOK
<1>. QED BY <1>2, <1>5, <1>11, OneCallMoves

(* The end of a scan, with the hint it gives. *)
LEMMA HintGiven ==
  ASSUME ReloadInv, NEW r \in Readers, call[r].step = "hint", origin' = origin, settled' = settled,
         NEW key \in PlanKeys \cup {None}, HintOf(r, key),
         call[r].settled # None => FirstPlanWith(call[r].settled, call[r].about) = key,
         key # None => \E cat \in call[r].seen :
                         cat.plans[key] # None /\ call[r].about \in cat.plans[key].features
  PROVE  CallsInv'
<1>1. PICK c : c = call[r]
  OBVIOUS
<1>2. c.step = "hint" /\ ~Done(c) /\ CallsInv /\ call \in [Readers -> Call]
  BY <1>1 DEF Done, ReloadInv, CallsInv
<1>3. CallOK(c, origin, settled) /\ c \in Call
  BY <1>1, <1>2, CallReads
<1>4. c.about \in FeatureKeys /\ c.about # None /\ c.about \notin Resources
  BY <1>2, <1>3, NamesAssumption DEF CallOK, Shaped
<1>. DEFINE verdict == IF c.kind = "catalog page" THEN "shown" ELSE "refused"
<1>5. call' = [call EXCEPT ![r] = Answered(c, verdict, key)]
  <2>1. Answer(r, verdict, key)
    BY <1>1 DEF HintOf
  <2>. HIDE DEF verdict
  <2>. QED BY <1>1, <1>2, <2>1, CallMoves
<1>6. verdict \in {"refused", "shown"} /\ verdict \in Verdicts
  BY DEF Verdicts
<1>7. ASSUME c.settled # None
      PROVE  AnswerOf(c.settled, c) = [verdict |-> verdict, value |-> key]
  <2>1. FirstPlanWith(c.settled, c.about) = key
    BY <1>1, <1>7
  <2>2. c.kind # "catalog page" => FeatureVerdict(c.settled, c.key, c.about) = "refused"
    BY <1>2, <1>3, <1>4, <1>7 DEF CallOK, Undisturbed, Knows, FeatureVerdict
  <2>3. PICK cat : cat = c.settled
    OBVIOUS
  <2>4. AnswerOf(cat, c) = [verdict |-> verdict, value |-> key]
    BY <1>4, <2>1, <2>2, <2>3 DEF AnswerOf
  <2>. QED BY <2>3, <2>4
<1>. HIDE DEF verdict
<1>8. CallOK(Answered(c, verdict, key), origin, settled)
  BY <1>1, <1>2, <1>3, <1>4, <1>6, <1>7, AnsweredOK
<1>. QED BY <1>2, <1>5, <1>8, OneCallMoves

LEMMA HintKeeps ==
  ASSUME ReloadInv, NEW r \in Readers, Hint(r)
  PROVE  CallsInv'
<1>1. PICK c : c = call[r]
  OBVIOUS
<1>2. /\ c.step = "hint" /\ origin' = origin /\ settled' = settled /\ ~Done(c)
      /\ CallsInv /\ call \in [Readers -> Call]
  BY <1>1 DEF Hint, At, Done, ReloadInv, CallsInv
<1>3. /\ CallOK(c, origin, settled) /\ c \in Call
      /\ c.settled # None => registry = c.settled
      /\ \A k \in PlanKeys : registry.plans[k] # None => \E cat \in c.seen : cat.plans[k] = registry.plans[k]
  BY <1>1, <1>2, CallReads
<1>4. PICK order \in Seq(PlanKeys) : order = registry.order
  BY RegistryTyped DEF ReloadInv
<1>5. PICK pos \in Nat : pos = c.pos /\ pos # 0
  BY <1>2, <1>3 DEF CallOK, Shaped, Call
<1>6. Len(order) \in Nat /\ DOMAIN order = 1 .. Len(order)
  OBVIOUS
<1>7. ASSUME c.settled # None
      PROVE  /\ c.size = Len(order) /\ pos <= Len(order) + 1
             /\ \A i \in 1 .. pos - 1 : c.about \notin registry.plans[order[i]].features
  BY <1>2, <1>3, <1>4, <1>5, <1>7 DEF CallOK, Undisturbed, Knows
<1>. DEFINE having == {i \in DOMAIN order : c.about \in registry.plans[order[i]].features}
<1>8. c.settled # None => FirstPlanWith(c.settled, c.about) = IF having = {} THEN None ELSE order[Min(having)]
  BY <1>3, <1>4 DEF FirstPlanWith
<1>9. CASE Len(order) # c.size
  <2>1. call' = [call EXCEPT ![r] = Raised(c)]
    <3>1. Raise(r)
      BY <1>1, <1>4, <1>9 DEF Hint
    <3>. QED BY <1>1, <1>2, <3>1, CallMoves
  <2>2. CallOK(Raised(c), origin, settled)
    BY <1>2, <1>3, <1>7, <1>9, RaisedOK
  <2>. QED BY <1>2, <2>1, <2>2, OneCallMoves
<1>10. CASE Len(order) = c.size /\ pos > Len(order)
  <2>1. HintOf(r, None)
    BY <1>1, <1>4, <1>5, <1>10 DEF Hint
  <2>2. c.settled # None => having = {}
    BY <1>5, <1>6, <1>7, <1>10
  <2>. QED BY <1>1, <1>2, <1>8, <2>1, <2>2, HintGiven
<1>11. CASE Len(order) = c.size /\ ~(pos > Len(order))
  <2>1. pos \in 1 .. Len(order) /\ pos \in DOMAIN order
    BY <1>5, <1>6, <1>11
  <2>2. PICK key \in PlanKeys : key = order[pos]
    BY <2>1
  <2>3. registry.plans[key] # None
    BY <1>4, <2>1, <2>2, RegistryTyped DEF ReloadInv
  <2>4. CASE c.about \in registry.plans[key].features
    <3>1. HintOf(r, key)
      BY <1>1, <1>4, <1>5, <1>11, <2>2, <2>4 DEF Hint
    <3>2. ASSUME c.settled # None  PROVE FirstPlanWith(c.settled, c.about) = key
      <4>1. having \in SUBSET Nat /\ pos \in having /\ \A i \in having : pos <= i
        BY <1>5, <1>6, <1>7, <2>1, <2>2, <2>4, <3>2
      <4>. HIDE DEF having
      <4>2. Min(having) = pos
        BY <4>1, LeastPosition
      <4>. QED BY <1>8, <2>2, <3>2, <4>1, <4>2
    <3>3. \E cat \in c.seen : cat.plans[key] # None /\ c.about \in cat.plans[key].features
      BY <1>3, <2>3, <2>4
    <3>. HIDE DEF having
    <3>. QED BY <1>1, <1>2, <3>1, <3>2, <3>3, HintGiven
  <2>5. CASE c.about \notin registry.plans[key].features
    <3>. DEFINE next == pos + 1
                new  == [c EXCEPT !.pos = next]
    <3>1. call' = [call EXCEPT ![r] = new]
      BY <1>1, <1>4, <1>5, <1>11, <2>2, <2>5 DEF Hint
    <3>2. next \in Nat /\ next # 0
      BY <1>5
    <3>. HIDE DEF next
    <3>3. /\ new \in Call /\ SameCall(new, c) /\ new.step = "hint" /\ new.pos = next /\ new.size = c.size
          /\ new.about = c.about /\ new.todo = c.todo /\ new.answer = c.answer
      BY <1>2, <1>3, <3>2 DEF Call, SameCall
    <3>. HIDE DEF new
    <3>4. Shaped(new)
      BY <1>2, <1>3, <3>2, <3>3 DEF CallOK, Shaped, SameCall, Done
    <3>5. Informed(new, origin, settled)
      BY <1>2, <1>3, <3>3 DEF CallOK, Informed, SameCall
    <3>6. ASSUME c.settled # None  PROVE Knows(c.settled, new)
      <4>1. Knows(c.settled, c)
        BY <1>2, <1>3, <3>6 DEF CallOK, Undisturbed
      <4>2. next <= Len(order) + 1 /\ \A i \in 1 .. next - 1 : i \in 1 .. pos - 1 \/ i = pos
        BY <1>5, <1>6, <2>1 DEF next
      <4>3. \A i \in 1 .. next - 1 : c.about \notin registry.plans[order[i]].features
        BY <1>7, <2>2, <2>5, <3>6, <4>2
      <4>4. registry = c.settled /\ order = c.settled.order
        BY <1>3, <1>4, <3>6
      <4>. QED BY <1>2, <1>7, <3>3, <3>6, <4>1, <4>2, <4>3, <4>4 DEF Knows, SameCall
    <3>7. Undisturbed(new)
      BY <3>3, <3>6 DEF Undisturbed, SameCall
    <3>8. CallOK(new, origin, settled)
      BY <3>3, <3>4, <3>5, <3>7, MovedOK
    <3>. QED BY <1>2, <3>1, <3>8, OneCallMoves
  <2>. QED BY <2>4, <2>5
<1>. QED BY <1>9, <1>10, <1>11

LEMMA BeginOK ==
  ASSUME ReloadInv, NEW r \in Readers, NEW kind \in Kinds, NEW key \in PlanKeys \cup {None},
         NEW about \in FeatureKeys \cup Resources \cup {None}, NEW overrides \in Overrides \cup {<<>>},
         Begin(r, kind, key, about, overrides),
         kind # "catalog page" => key \in PlanKeys,
         kind = "can" => about \in FeatureKeys,
         kind = "limit" => about \in Resources,
         kind \in {"plan page", "usage page", "catalog page"} => about = None
  PROVE  CallsInv'
<1>1. /\ origin' = origin /\ settled' = settled /\ CallsInv /\ call \in [Readers -> Call]
      /\ origin \in SUBSET Catalogs /\ settled \in Catalogs \cup {None}
  BY DEF Begin, ReloadInv, RegistryInv, CallsInv
<1>. DEFINE step  == First(kind)
            place == [NoCall EXCEPT !.step = step, !.kind = kind, !.key = key, !.about = about, !.overrides = overrides]
            new   == [place EXCEPT !.seen = origin, !.settled = settled]
<1>2. /\ kind = "can" => step = "overrides"
      /\ kind = "catalog page" => step = "copy"
      /\ kind \in {"limit", "plan page", "usage page"} => step = "plan"
  BY DEF First
<1>3. call' = [call EXCEPT ![r] = new]
  BY DEF Begin, NoCall
<1>4. step \in {"overrides", "copy", "plan"} /\ step \in Steps /\ step # "answered"
  BY <1>2 DEF Kinds, Steps
<1>. HIDE DEF step
<1>5. /\ place.step = step /\ place.kind = kind /\ place.key = key /\ place.about = about
      /\ place.overrides = overrides /\ place.todo = {} /\ place.answer = NoAnswer
      /\ place \in Call
  <2>1. NoAnswer \in [verdict : Verdicts, value : Int \cup PlanKeys \cup {None}]
    BY DEF NoAnswer, Verdicts
  <2>. QED BY <1>4, <2>1 DEF Call, NoCall
<1>. HIDE DEF place
<1>6. /\ new.step = step /\ new.kind = kind /\ new.key = key /\ new.about = about
      /\ new.overrides = overrides /\ new.todo = {} /\ new.answer = NoAnswer
      /\ new.seen = origin /\ new.settled = settled /\ new \in Call
  BY <1>1, <1>5 DEF Call
<1>. HIDE DEF new
<1>7. Shaped(new)
  BY <1>2, <1>4, <1>6 DEF Shaped, Kinds
<1>8. Informed(new, origin, settled)
  BY <1>2, <1>4, <1>6 DEF Informed
<1>9. Undisturbed(new)
  <2>1. new.step = "plan" => new.about \notin FeatureKeys
    BY <1>2, <1>4, <1>6, NamesAssumption DEF Kinds
  <2>. QED BY <1>4, <1>6, <2>1 DEF Undisturbed, Knows
<1>10. CallOK(new, origin, settled)
  BY <1>4, <1>6, <1>7, <1>8, <1>9, MovedOK
<1>. QED BY <1>1, <1>3, <1>10, OneCallMoves

LEMMA BeginKeeps ==
  ASSUME ReloadInv, NEW r \in Readers, BeginCan(r) \/ BeginLimit(r) \/ BeginPage(r)
  PROVE  CallsInv'
<1>1. CASE BeginCan(r)
  <2>1. PICK key \in PlanKeys, f \in FeatureKeys, overrides \in Overrides : Begin(r, "can", key, f, overrides)
    BY <1>1 DEF BeginCan
  <2>2. "can" \in Kinds
    BY DEF Kinds
  <2>. QED BY <2>1, <2>2, BeginOK
<1>2. CASE BeginLimit(r)
  <2>1. PICK key \in PlanKeys, res \in Resources : Begin(r, "limit", key, res, <<>>)
    BY <1>2 DEF BeginLimit
  <2>2. "limit" \in Kinds
    BY DEF Kinds
  <2>. QED BY <2>1, <2>2, BeginOK
<1>3. CASE BeginPage(r)
  <2>1. CASE \E key \in PlanKeys, kind \in {"plan page", "usage page"} : Begin(r, kind, key, None, <<>>)
    <3>1. PICK key \in PlanKeys, kind \in {"plan page", "usage page"} : Begin(r, kind, key, None, <<>>)
      BY <2>1
    <3>2. kind \in Kinds /\ kind # "can" /\ kind # "limit"
      BY DEF Kinds
    <3>. QED BY <3>1, <3>2, BeginOK
  <2>2. CASE Begin(r, "catalog page", None, None, <<>>)
    <3>1. "catalog page" \in Kinds
      BY DEF Kinds
    <3>. QED BY <2>2, <3>1, BeginOK
  <2>. QED BY <1>3, <2>1, <2>2 DEF BeginPage
<1>. QED BY <1>1, <1>2, <1>3

-----------------------------------------------------------------------------
(* The steps of a reload, as the calls see them. *)

(* A call under way has one more catalog behind it, and none of it is lost. *)
LEMMA StartReloadKeeps ==
  ASSUME ReloadInv, NEW t \in Reloaders, NEW cat \in Catalogs, StartReload(t, cat)
  PROVE  CallsInv'
<1>1. /\ origin' = origin \cup {cat} /\ settled' = None /\ CallsInv
      /\ call' = [r \in Readers |-> IF Idle(r) THEN call[r]
                                    ELSE [call[r] EXCEPT !.seen = call[r].seen \cup {cat}, !.settled = None]]
  BY DEF StartReload, ReloadInv
<1>2. ASSUME NEW r \in Readers  PROVE CallOK(call'[r], origin \cup {cat}, None)
  <2>1. PICK c : c = call[r]
    OBVIOUS
  <2>2. CallOK(c, origin, settled) /\ c \in Call /\ (Idle(r) <=> Done(c))
    BY <1>1, <2>1 DEF CallsInv, CallOK, Idle, Done
  <2>3. CASE Done(c)
    <3>1. call'[r] = c
      BY <1>1, <2>1, <2>2, <2>3
    <3>2. CallOK(c, origin \cup {cat}, None)
      BY <2>2, <2>3 DEF CallOK, Informed
    <3>. QED BY <3>1, <3>2
  <2>4. CASE ~Done(c)
    <3>. DEFINE seen == c.seen \cup {cat}
                new  == [c EXCEPT !.seen = seen, !.settled = None]
    <3>1. call'[r] = new
      BY <1>1, <2>1, <2>2, <2>4
    <3>2. seen \in SUBSET Catalogs /\ c.seen \subseteq seen
      BY <2>2 DEF Call
    <3>. HIDE DEF seen
    <3>3. /\ new \in Call /\ new.step = c.step /\ new.kind = c.kind /\ new.key = c.key /\ new.about = c.about
          /\ new.overrides = c.overrides /\ new.wanted = c.wanted /\ new.pos = c.pos
          /\ new.todo = c.todo /\ new.answer = c.answer /\ new.seen = seen /\ new.settled = None
      BY <2>2, <3>2 DEF Call
    <3>. HIDE DEF new
    <3>4. Shaped(c) /\ Informed(c, origin, settled) /\ Modest(c) /\ OfOneCatalog(c)
      BY <2>2 DEF CallOK
    <3>5. Shaped(new)
      BY <3>3, <3>4 DEF Shaped, Done
    <3>6. Informed(new, origin \cup {cat}, None)
      <4>1. cat \in seen
        BY DEF seen
      <4>. QED BY <2>4, <3>2, <3>3, <3>4, <4>1 DEF Informed
    <3>7. Undisturbed(new) /\ Exact(new)
      BY <3>3 DEF Undisturbed, Exact
    <3>8. Modest(new)
      <4>1. Tiered(seen) => Tiered(c.seen)
        BY <3>2, TieredOne
      <4>2. Counts(new) => Counts(c)
        BY <3>3 DEF Counts
      <4>. QED BY <3>2, <3>3, <3>4, <4>1, <4>2 DEF Modest
    <3>9. OfOneCatalog(new)
      BY <3>2, <3>3, <3>4 DEF OfOneCatalog, Counts
    <3>. QED BY <3>1, <3>3, <3>5, <3>6, <3>7, <3>8, <3>9 DEF CallOK
  <2>. QED BY <2>3, <2>4
<1>3. call' \in [Readers -> Call]
  <2>1. \A r \in Readers : call'[r] \in Call
    BY <1>2 DEF CallOK
  <2>. QED BY <1>1, <2>1
<1>. QED BY <1>1, <1>2, <1>3 DEF CallsInv

(* No call under way was there before the reload and untouched by it. *)
LEMMA SetDefaultKeepsCalls ==
  ASSUME ReloadInv, NEW t \in Reloaders, SetDefault(t)
  PROVE  CallsInv'
<1>1. RegistryInv /\ CallsInv /\ call' = call
  BY DEF SetDefault, ReloadInv
<1>2. settled = None
  BY <1>1 DEF SetDefault, Filled, Running, RegistryInv, Underway
<1>3. origin' \subseteq origin
  BY <1>1, SetDefaultKeeps
<1>4. ASSUME NEW r \in Readers  PROVE CallOK(call[r], origin', settled')
  <2>1. PICK c : c = call[r]
    OBVIOUS
  <2>2. CallOK(c, origin, settled)
    BY <1>1, <2>1 DEF CallsInv
  <2>3. Informed(c, origin', settled')
    BY <1>2, <1>3, <2>2 DEF CallOK, Informed
  <2>. QED BY <2>1, <2>2, <2>3 DEF CallOK
<1>. QED BY <1>1, <1>4 DEF CallsInv

LEMMA CallsStay ==
  ASSUME CallsInv, UNCHANGED <<call, origin, settled>>
  PROVE  CallsInv'
<1>1. ASSUME NEW r \in Readers  PROVE CallOK(call'[r], origin', settled')
  BY DEF CallsInv
<1>. QED BY <1>1 DEF CallsInv

-----------------------------------------------------------------------------
(* The theorems. *)

LEMMA ReloadStarts ==
  Init => ReloadInv
<1>. SUFFICES ASSUME Init  PROVE ReloadInv
  OBVIOUS
<1>1. RegistryInv
  BY RegistryStarts
<1>2. NoCall \in Call /\ NoCall.answer = NoAnswer /\ NoAnswer.verdict = "none" /\ Done(NoCall)
      /\ NoCall.step = "answered"
  <2>1. NoAnswer \in [verdict : Verdicts, value : Int \cup PlanKeys \cup {None}]
    BY DEF NoAnswer, Verdicts
  <2>2. NoCall.answer = NoAnswer /\ NoAnswer.verdict = "none" /\ Done(NoCall) /\ NoCall.step = "answered"
    BY DEF NoCall, NoAnswer, Done
  <2>. HIDE DEF NoAnswer
  <2>3. NoCall \in Call
    BY <2>1 DEF NoCall, Call, Steps, Kinds
  <2>. QED BY <2>2, <2>3
<1>3. CallOK(NoCall, origin, settled)
  <2>. HIDE DEF NoCall, NoAnswer
  <2>1. Shaped(NoCall) /\ Informed(NoCall, origin, settled) /\ Undisturbed(NoCall)
    BY <1>2 DEF Shaped, Informed, Undisturbed
  <2>2. Exact(NoCall) /\ Modest(NoCall) /\ OfOneCatalog(NoCall)
    BY <1>2 DEF Exact, Modest, OfOneCatalog, Counts
  <2>. QED BY <1>2, <2>1, <2>2 DEF CallOK
<1>4. call = [r \in Readers |-> NoCall]
  BY DEF Init
<1>. HIDE DEF NoCall
<1>5. CallsInv
  BY <1>2, <1>3, <1>4 DEF CallsInv
<1>. QED BY <1>1, <1>5 DEF ReloadInv

LEMMA ReloadStep ==
  ASSUME ReloadInv, [Next]_vars
  PROVE  ReloadInv'
<1>0. RegistryInv /\ CallsInv
  BY DEF ReloadInv
<1>1. RegistryInv'
  BY <1>0, RegistryStep
<1>2. ASSUME NEW t \in Reloaders, NEW cat \in Catalogs, StartReload(t, cat)  PROVE CallsInv'
  BY <1>2, StartReloadKeeps
<1>3. ASSUME NEW t \in Reloaders, SetDefault(t)  PROVE CallsInv'
  BY <1>3, SetDefaultKeepsCalls
<1>4. ASSUME NEW t \in Reloaders,
             ClearFeatures(t) \/ ClearPlans(t) \/ PutFeature(t) \/ PutPlan(t) \/ RaiseHalfway(t)
      PROVE  CallsInv'
  <2>1. UNCHANGED <<call, origin, settled>>
    BY <1>4 DEF ClearFeatures, ClearPlans, PutFeature, PutPlan, RaiseHalfway, Doing
  <2>. QED BY <1>0, <2>1, CallsStay
<1>5. ASSUME NEW r \in Readers, BeginCan(r) \/ BeginLimit(r) \/ BeginPage(r)  PROVE CallsInv'
  BY <1>5, BeginKeeps
<1>6. ASSUME NEW r \in Readers, CheckOverrides(r)  PROVE CallsInv'
  BY <1>6, CheckOverridesKeeps
<1>7. ASSUME NEW r \in Readers, GetFeature(r)  PROVE CallsInv'
  BY <1>7, GetFeatureKeeps
<1>8. ASSUME NEW r \in Readers, FindPlan(r)  PROVE CallsInv'
  BY <1>8, FindPlanKeeps
<1>9. ASSUME NEW r \in Readers, ReadDefault(r)  PROVE CallsInv'
  BY <1>9, ReadDefaultKeeps
<1>10. ASSUME NEW r \in Readers, FindDefault(r)  PROVE CallsInv'
  BY <1>10, FindDefaultKeeps
<1>11. ASSUME NEW r \in Readers, CopyFeatures(r)  PROVE CallsInv'
  BY <1>11, CopyFeaturesKeeps
<1>12. ASSUME NEW r \in Readers, NextOfPage(r)  PROVE CallsInv'
  BY <1>12, NextOfPageKeeps
<1>13. ASSUME NEW r \in Readers, Scan(r)  PROVE CallsInv'
  BY <1>13, ScanKeeps
<1>14. ASSUME NEW r \in Readers, Hint(r)  PROVE CallsInv'
  BY <1>14, HintKeeps
<1>15. ASSUME UNCHANGED vars  PROVE CallsInv'
  BY <1>0, <1>15, CallsStay DEF vars
<1>16. CallsInv'
  BY <1>2, <1>3, <1>4, <1>5, <1>6, <1>7, <1>8, <1>9, <1>10, <1>11, <1>12, <1>13, <1>14, <1>15 DEF Next
<1>. QED BY <1>1, <1>16 DEF ReloadInv

(* The inductive invariant of reloads and the calls they run under. *)
THEOREM ReloadInvariant == Spec => []ReloadInv
<1>. QED BY ReloadStarts, ReloadStep, PTL DEF Spec

(* The registry keeps its shape: whatever the threads do to it, its order   *)
(* lists exactly the plans it holds, each one once.                         *)
THEOREM ReloadTypeCorrect == Spec => []TypeOK
<1>1. ReloadInv => TypeOK
  BY DEF ReloadInv, RegistryInv, CallsInv, TypeOK
<1>. QED BY <1>1, ReloadInvariant, PTL

(* A call that no reload touched answers as the catalog in force does, read *)
(* in one piece: verdict, quota and upgrade hint.                           *)
THEOREM ReloadUndisturbedIsExact == Spec => []UndisturbedIsExact
<1>1. ASSUME ReloadInv  PROVE UndisturbedIsExact
  <2>1. ASSUME NEW r \in Readers, ByCatalog(r), call[r].settled # None
        PROVE  call[r].answer = AnswerOf(call[r].settled, call[r])
    <3>1. Exact(call[r])
      BY <1>1 DEF ReloadInv, CallsInv, CallOK
    <3>. QED BY <2>1, <3>1 DEF Exact, Counts, ByCatalog
  <2>. QED BY <2>1 DEF UndisturbedIsExact
<1>. QED BY <1>1, ReloadInvariant, PTL

(* Between tiers above one default plan, the half-filled registry errs on  *)
(* the side of refusing: nobody is given more than some catalog gives.      *)
THEOREM ReloadNeverMoreGenerous == Spec => []NeverMoreGenerous
<1>1. ASSUME ReloadInv  PROVE NeverMoreGenerous
  <2>1. \A r \in Readers : Modest(call[r]) /\ (ByCatalog(r) => Counts(call[r]))
    BY <1>1 DEF ReloadInv, CallsInv, CallOK, Counts, ByCatalog
  <2>. QED BY <2>1 DEF Modest, NeverMoreGenerous
<1>. QED BY <1>1, ReloadInvariant, PTL

(* An upgrade hint is a plan of one catalog, with the feature asked for. *)
THEOREM ReloadHintIsOfACatalog == Spec => []HintIsOfACatalog
<1>1. ASSUME ReloadInv  PROVE HintIsOfACatalog
  <2>1. \A r \in Readers : OfOneCatalog(call[r]) /\ (ByCatalog(r) => Counts(call[r]))
    BY <1>1 DEF ReloadInv, CallsInv, CallOK, Counts, ByCatalog
  <2>. QED BY <2>1 DEF OfOneCatalog, HintIsOfACatalog
<1>. QED BY <1>1, ReloadInvariant, PTL

=============================================================================
