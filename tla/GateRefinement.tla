--------------------------- MODULE GateRefinement ---------------------------
(***************************************************************************)
(* The admission gate implements the quota promise, for every catalog, set *)
(* of routes and number of requests in progress; its bound follows.        *)
(***************************************************************************)
EXTENDS GateProofs

USE DEF Accounts

(* Grants outstanding on each account. *)
Outstanding == [a \in Accounts |-> Cardinality(Holders(a))]

(* The theorems about Quota, at the refinement mapping of Promise. *)
Kept == INSTANCE QuotaProofs WITH
  Slots   <- Cardinality(Workers),
  Limits  <- Quotas,
  rows    <- usage,
  grants  <- [a \in Accounts |-> Cardinality(Holders(a))]

LEMMA PromiseIsKept == Promise!Spec => []Promise!OvershootBounded
<1>1. Kept!Parameters
  <2>1. Cardinality(Workers) \in Nat \ {0}
    BY WorkersAssumption, FS_CardinalityType, FS_EmptySet
  <2>. QED BY <2>1, QuotasAreIntegers, RowsAssumption DEF Kept!Parameters
<1>2. Kept!Spec => []Kept!OvershootBounded
  BY <1>1, Kept!QuotaOvershootBounded
<1>3. Promise!Init <=> Kept!Init
  BY DEF Promise!Init, Kept!Init
<1>4. [Promise!Next]_Promise!vars <=> [Kept!Next]_Kept!vars
  BY DEF Promise!Next, Kept!Next, Promise!vars, Kept!vars, Promise!Grant, Kept!Grant, Promise!Room, Kept!Room,
         Promise!Use, Kept!Use, Promise!Free, Kept!Free, Promise!Drop, Kept!Drop,
         Promise!RaiseTo, Kept!RaiseTo, Promise!Unlimited, Kept!Unlimited
<1>5. Promise!OvershootBounded <=> Kept!OvershootBounded
  BY DEF Promise!OvershootBounded, Kept!OvershootBounded, Promise!Unlimited, Kept!Unlimited
<1>. QED BY <1>2, <1>3, <1>4, <1>5, PTL DEF Promise!Spec, Kept!Spec

-----------------------------------------------------------------------------
(* The initial states map to initial states. *)

LEMMA HoldersFinite ==
  ASSUME NEW a
  PROVE  /\ IsFiniteSet(Holders(a)) /\ Cardinality(Holders(a)) \in Nat
         /\ Cardinality(Holders(a)) <= Cardinality(Workers)
  BY WorkersAssumption, FS_Subset, FS_CardinalityType DEF Holders

LEMMA InitImplements == HistoryInit => Promise!Init
<1>. SUFFICES ASSUME HistoryInit PROVE Promise!Init
  OBVIOUS
<1>1. \A a \in Accounts : Holders(a) = {}
  BY DEF HistoryInit, Init, Holders, Busy, Idle
<1>2. \A a \in Accounts : Cardinality(Holders(a)) = 0
  BY <1>1, FS_EmptySet
<1>. QED BY <1>2 DEF HistoryInit, Init, Promise!Init

-----------------------------------------------------------------------------
(* Every step maps to a step or a stutter. *)

(* A step that lets no request through leaves the ceilings alone. *)
LEMMA CeilingKept ==
  ASSUME HistoryTypeOK, Record, \A w \in Workers, r \in Resources : ~Gained(w, r)
  PROVE  ceiling' = ceiling
<1>1. \A a \in Accounts : ~ \E w \in Workers : Gained(w, a[2]) /\ req[w].entity = a[1]
  OBVIOUS
<1>. QED BY <1>1 DEF Record, HistoryTypeOK

LEMMA CeilingRaised ==
  ASSUME HistoryTypeOK, Record, NEW w \in Workers, NEW r \in Resources,
         NEW e \in Entities, req[w].entity = e, Gained(w, r),
         \A v \in Workers, s \in Resources : Gained(v, s) => v = w /\ s = r
  PROVE  ceiling' = [ceiling EXCEPT ![<<e, r>>] = RaiseTo(@, req'[w].quota)]
<1>. DEFINE Lucky(a, v) == Gained(v, a[2]) /\ req[v].entity = a[1]
            new(a) == IF \E v \in Workers : Lucky(a, v)
                      THEN RaiseTo(ceiling[a], req'[CHOOSE v \in Workers : Lucky(a, v)].quota)
                      ELSE ceiling[a]
<1>1. ceiling' = [a \in Accounts |-> new(a)]
  BY DEF Record
<1>2. \A a \in Accounts, v \in Workers : Lucky(a, v) <=> v = w /\ a = <<e, r>>
  OBVIOUS
<1>. HIDE DEF Lucky
<1>3. new(<<e, r>>) = RaiseTo(ceiling[<<e, r>>], req'[w].quota)
  <2>1. <<e, r>> \in Accounts
    OBVIOUS
  <2>2. (CHOOSE v \in Workers : Lucky(<<e, r>>, v)) = w
    BY <1>2, <2>1
  <2>. QED BY <1>2, <2>1, <2>2
<1>4. \A a \in Accounts : a # <<e, r>> => new(a) = ceiling[a]
  BY <1>2
<1>. HIDE DEF new
<1>. QED BY <1>1, <1>3, <1>4 DEF HistoryTypeOK

(* A worker whose record does not change neither gains nor drops a grant. *)
LEMMA OthersKeep ==
  ASSUME NEW v \in Workers, req'[v] = req[v]
  PROVE  /\ \A a : v \in Holders(a)' <=> v \in Holders(a)
         /\ \A r : ~Gained(v, r)
  BY DEF Holders, Busy, Gained

LEMMA Stutter ==
  ASSUME HistoryTypeOK, Record, UNCHANGED usage,
         \A v \in Workers, a \in Accounts : v \in Holders(a)' <=> v \in Holders(a),
         \A v \in Workers, r \in Resources : ~Gained(v, r)
  PROVE  UNCHANGED Promise!vars
<1>1. \A a \in Accounts : Holders(a)' = Holders(a)
  BY DEF Holders
<1>2. ceiling' = ceiling
  BY CeilingKept
<1>. QED BY <1>1, <1>2 DEF Promise!vars

LEMMA PassFields ==
  ASSUME ReqTyped, NEW w \in Workers, req[w].step # "idle", NEW gained, Pass(w, gained)
  PROVE  /\ req'[w].step = "checking" /\ req'[w].entity = req[w].entity
         /\ req'[w].quota = req[w].quota /\ req'[w].granted = req[w].granted \cup gained
         /\ \A v \in Workers : v # w => req'[v] = req[v]
<1>1. req[w] \in Request
  BY BusyIsRequest
<1>. QED BY <1>1 DEF Pass, ReqTyped, Request

(* Being let through for one more resource is a grant. *)
LEMMA GrantStep ==
  ASSUME HistoryTypeOK, Record, UNCHANGED usage,
         NEW w \in Workers, NEW r \in Resources, NEW e \in Entities, Busy(w), Busy(w)',
         req[w].entity = e, req'[w].entity = e,
         req'[w].granted = req[w].granted \cup {r}, req'[w].quota \in Quotas,
         req'[w].quota = Unlimited \/ usage[<<e, r>>] < req'[w].quota,
         \A v \in Workers : v # w => req'[v] = req[v]
  PROVE  [Promise!Next]_(Promise!vars)
<1>. DEFINE acc == <<e, r>>
<1>1. acc \in Accounts
  OBVIOUS
<1>2. \A v \in Workers, s \in Resources : Gained(v, s) => v = w /\ s = r
  BY OthersKeep DEF Gained
<1>3. \A v \in Workers, a \in Accounts :
        v \in Holders(a)' <=> v \in Holders(a) \/ (v = w /\ a = acc)
  BY OthersKeep DEF Holders
<1>4. CASE r \in req[w].granted
  <2>1. \A v \in Workers, s \in Resources : ~Gained(v, s)
    BY <1>2, <1>4 DEF Gained
  <2>2. w \in Holders(acc)
    BY <1>4 DEF Holders
  <2>. QED BY <1>3, <2>1, <2>2, Stutter
<1>5. CASE r \notin req[w].granted
  <2>1. ceiling' = [ceiling EXCEPT ![acc] = RaiseTo(@, req'[w].quota)]
    BY <1>2, <1>5, CeilingRaised DEF Gained
  <2>2. w \notin Holders(acc) /\ Holders(acc)' = Holders(acc) \cup {w}
    BY <1>1, <1>3, <1>5 DEF Holders
  <2>3. \A a \in Accounts : a # acc => Holders(a)' = Holders(a)
    BY <1>3 DEF Holders
  <2>4. /\ IsFiniteSet(Holders(acc))
        /\ Cardinality(Holders(acc)) \in Nat
        /\ Cardinality(Holders(acc)') = Cardinality(Holders(acc)) + 1
    BY <2>2, HoldersFinite, FS_AddElement
  <2>5. Cardinality(Holders(acc)) < Cardinality(Workers)
    <3>1. Holders(acc)' \subseteq Workers
      BY DEF Holders
    <3>2. Cardinality(Holders(acc)') <= Cardinality(Workers) /\ Cardinality(Workers) \in Nat
      BY <3>1, WorkersAssumption, FS_Subset, FS_CardinalityType
    <3>. QED BY <2>4, <3>2
  <2>6. Outstanding' = [Outstanding EXCEPT ![acc] = @ + 1]
    BY <1>1, <2>3, <2>4 DEF Outstanding
  <2>7. Promise!Grant(acc, req'[w].quota)
    BY <1>1, <2>1, <2>5, <2>6 DEF Promise!Grant, Promise!Room, Outstanding, Promise!Unlimited, Unlimited,
         Promise!RaiseTo, RaiseTo
  <2>. QED BY <1>1, <2>7 DEF Promise!Next
<1>. QED BY <1>4, <1>5

(* An answered request gives up what it still holds. *)
LEMMA AnswerStep ==
  ASSUME HistoryTypeOK, ReqTyped, Record, UNCHANGED usage,
         NEW w \in Workers, req[w].step # "idle", NEW outcome, Answer(w, outcome)
  PROVE  [Promise!Next]_(Promise!vars)
<1>. DEFINE S == {a \in Accounts : w \in Holders(a)}
<1>1. \A v \in Workers : v # w => req'[v] = req[v]
  BY DEF Answer, ReqTyped
<1>2. ~Busy(w)'
  BY DEF Answer, Busy, Idle, ReqTyped
<1>3. \A v \in Workers, r \in Resources : ~Gained(v, r)
  BY <1>1, <1>2, OthersKeep DEF Gained
<1>4. \A a \in Accounts : Holders(a)' = Holders(a) \ {w}
  BY <1>1, <1>2 DEF Holders, Busy
<1>5. CASE S = {}
  BY <1>3, <1>4, <1>5, Stutter
<1>6. CASE S # {}
  <2>1. \A a \in Accounts :
          Cardinality(Holders(a)') = IF a \in S THEN Cardinality(Holders(a)) - 1
                                                ELSE Cardinality(Holders(a))
    BY <1>4, HoldersFinite, FS_RemoveElement
  <2>2. \A a \in S : Cardinality(Holders(a)) > 0
    <3>. SUFFICES ASSUME NEW a \in S PROVE Cardinality(Holders(a)) # 0
      BY HoldersFinite
    <3>. QED BY HoldersFinite, FS_EmptySet
  <2>3. S \subseteq Accounts
    OBVIOUS
  <2>4. ceiling' = ceiling
    BY <1>3, CeilingKept
  <2>. HIDE DEF S
  <2>5. Promise!Drop(S)
    BY <2>1, <2>2, <2>3, <2>4 DEF Promise!Drop
  <2>. QED BY <1>6, <2>3, <2>5 DEF Promise!Next
<1>. QED BY <1>5, <1>6

(* Inserting the row a request was let through for uses its grant. *)
LEMMA InsertStep ==
  ASSUME HistoryTypeOK, ReqTyped, Record, NEW w \in Workers, NEW r \in Resources, Insert(w, r)
  PROVE  [Promise!Next]_(Promise!vars)
<1>0. req[w] \in Request /\ req[w].entity \in Entities
  <2>1. req[w] \in Request
    BY BusyIsRequest DEF Insert, Admitted
  <2>. QED BY <2>1 DEF Request
<1>. PICK e \in Entities : e = req[w].entity
  BY <1>0
<1>. DEFINE acc == <<e, r>>
<1>1. req[w] \in Request /\ acc \in Accounts
  BY <1>0
<1>2. /\ req'[w].entity = req[w].entity /\ req'[w].step = req[w].step
      /\ req'[w].granted = req[w].granted \ {r}
      /\ \A v \in Workers : v # w => req'[v] = req[v]
  BY <1>1 DEF Insert, Request, ReqTyped
<1>3. \A v \in Workers, s \in Resources : ~Gained(v, s)
  BY <1>2, OthersKeep DEF Gained
<1>4. \A v \in Workers, a \in Accounts :
        v \in Holders(a)' <=> v \in Holders(a) /\ ~(v = w /\ a = acc)
  BY <1>2, OthersKeep DEF Holders, Busy
<1>5. w \in Holders(acc)
  BY <1>1 DEF Holders, Busy, Insert, Admitted
<1>6. Holders(acc)' = Holders(acc) \ {w} /\ \A a \in Accounts : a # acc => Holders(a)' = Holders(a)
  BY <1>1, <1>4 DEF Holders
<1>7. /\ Cardinality(Holders(acc)) \in Nat /\ Cardinality(Holders(acc)) # 0
      /\ Cardinality(Holders(acc)') = Cardinality(Holders(acc)) - 1
  <2>1. IsFiniteSet(Holders(acc)) /\ Cardinality(Holders(acc)) \in Nat
    BY HoldersFinite
  <2>2. Cardinality(Holders(acc)) # 0
    BY <1>5, <2>1, FS_EmptySet
  <2>3. Cardinality(Holders(acc) \ {w}) = Cardinality(Holders(acc)) - 1
    BY <1>5, <2>1, FS_RemoveElement
  <2>. QED BY <1>6, <2>1, <2>2, <2>3
<1>8. Outstanding' = [Outstanding EXCEPT ![acc] = @ - 1]
  BY <1>1, <1>6, <1>7 DEF Outstanding
<1>9. Promise!Use(acc)
  <2>1. ceiling' = ceiling
    BY <1>3, CeilingKept
  <2>. QED BY <1>1, <1>7, <1>8, <2>1 DEF Promise!Use, Outstanding, Insert
<1>. QED BY <1>1, <1>9 DEF Promise!Next

(* Checks, for all that they do before they wait or answer. *)
LEMMA CheckSteps ==
  ASSUME HistoryTypeOK, TypeOK, ReqTyped, Record, NEW w \in Workers,
         CheckFeature(w) \/ SkipOther(w) \/ BeginLimit(w) \/ FinishLimit(w)
  PROVE  [Promise!Next]_(Promise!vars)
<1>1. /\ req[w] \in Request /\ req[w].step # "idle" /\ UNCHANGED usage
      /\ req[w].entity \in Entities
  <2>1. req[w].step # "idle" /\ UNCHANGED usage
    BY DEF CheckFeature, SkipOther, BeginLimit, FinishLimit, Checking
  <2>2. req[w] \in Request
    BY <2>1, BusyIsRequest
  <2>. QED BY <2>1, <2>2 DEF Request
<1>2. CASE \E outcome : Answer(w, outcome)
  BY <1>1, <1>2, AnswerStep
<1>3. CASE Pass(w, {})
  <2>1. /\ req'[w].step = "checking" /\ req'[w].entity = req[w].entity
        /\ req'[w].granted = req[w].granted
        /\ \A v \in Workers : v # w => req'[v] = req[v]
    <3>1. /\ req'[w].step = "checking" /\ req'[w].entity = req[w].entity
          /\ req'[w].granted = req[w].granted \cup {}
          /\ \A v \in Workers : v # w => req'[v] = req[v]
      BY <1>1, <1>3, PassFields
    <3>. QED BY <3>1
  <2>2. \A v \in Workers, r \in Resources : ~Gained(v, r)
    BY <2>1, OthersKeep DEF Gained
  <2>3. \A v \in Workers, a \in Accounts : v \in Holders(a)' <=> v \in Holders(a)
    BY <1>1, <2>1, OthersKeep DEF Holders, Busy
  <2>. QED BY <1>1, <2>2, <2>3, Stutter
<1>4. CASE CheckFeature(w) \/ SkipOther(w)
  BY <1>2, <1>3, <1>4 DEF CheckFeature, SkipOther
<1>5. CASE BeginLimit(w)
  <2>. DEFINE r == Current(w).key
              k == req[w].plan
  <2>1. r \in Resources /\ k \in PlanKeys /\ registry \in Registries
    BY <1>1, <1>5, CurrentTyped, TypeOKParts DEF BeginLimit, Request
  <2>2. CASE /\ GetPlan(registry, k) # None /\ Quota(k, r) = Unlimited
             /\ req' = [req EXCEPT ![w].quota = Unlimited, ![w].next = @ + 1,
                                   ![w].granted = @ \cup {r}]
    <3>1. Unlimited \in Quotas
      BY <2>1, <2>2, QuotaTyped
    <3>2. /\ req'[w].step = req[w].step /\ req'[w].entity = req[w].entity
          /\ req'[w].quota = Unlimited /\ req'[w].granted = req[w].granted \cup {r}
          /\ \A v \in Workers : v # w => req'[v] = req[v]
      BY <1>1, <2>2 DEF Request, ReqTyped
    <3>. HIDE DEF r
    <3>. QED BY <1>1, <2>1, <3>1, <3>2, GrantStep DEF Busy
  <2>3. CASE req' = [req EXCEPT ![w].step = "counting", ![w].quota = Quota(k, r)]
    <3>1. /\ req'[w].step = "counting" /\ req'[w].entity = req[w].entity
          /\ req'[w].granted = req[w].granted
          /\ \A v \in Workers : v # w => req'[v] = req[v]
      BY <1>1, <2>3 DEF Request, ReqTyped
    <3>2. \A v \in Workers, s \in Resources : ~Gained(v, s)
      BY <3>1, OthersKeep DEF Gained
    <3>3. \A v \in Workers, a \in Accounts : v \in Holders(a)' <=> v \in Holders(a)
      BY <1>1, <3>1, OthersKeep DEF Holders, Busy
    <3>. QED BY <1>1, <3>2, <3>3, Stutter
  <2>. QED BY <1>2, <1>5, <2>2, <2>3 DEF BeginLimit
<1>6. CASE FinishLimit(w)
  <2>. DEFINE r == Current(w).key
              acc == <<req[w].entity, r>>
  <2>1. r \in Resources /\ acc \in Accounts
    BY <1>1, <1>6, CurrentTyped DEF FinishLimit
  <2>2. CASE Answer(w, "refused")
    BY <1>2, <2>2
  <2>3. CASE UnderLimit(usage[acc], req[w].quota) /\ Pass(w, {r})
    <3>1. usage[acc] \in Nat /\ req[w].quota \in Quotas \cup {0}
      BY <1>1, <2>1, TypeOKParts DEF Request
    <3>2. \A quota \in Quotas \cup {0} : quota \in Int
      BY QuotasAreIntegers
    <3>3. usage[acc] < req[w].quota /\ req[w].quota \in Quotas
      BY <2>3, <3>1, <3>2 DEF UnderLimit
    <3>4. /\ req'[w].step = "checking" /\ req'[w].entity = req[w].entity
          /\ req'[w].quota = req[w].quota /\ req'[w].granted = req[w].granted \cup {r}
          /\ \A v \in Workers : v # w => req'[v] = req[v]
      BY <1>1, <2>3, PassFields
    <3>. HIDE DEF r
    <3>. QED BY <1>1, <2>1, <3>3, <3>4, GrantStep DEF Busy
  <2>. QED BY <1>6, <2>2, <2>3 DEF FinishLimit
<1>. QED BY <1>4, <1>5, <1>6

LEMMA NextImplements ==
  ASSUME HistoryTypeOK, HistoryNext
  PROVE  [Promise!Next]_(Promise!vars)
<1>1. TypeOK /\ ReqTyped /\ Next /\ Record
  BY TypeOKParts DEF HistoryTypeOK, HistoryNext
<1>2. ASSUME req' = req, UNCHANGED usage PROVE [Promise!Next]_(Promise!vars)
  BY <1>1, <1>2, OthersKeep, Stutter
<1>3. ASSUME NEW w \in Workers, Serve(w) PROVE [Promise!Next]_(Promise!vars)
  <2>1. CASE CheckFeature(w) \/ SkipOther(w) \/ BeginLimit(w) \/ FinishLimit(w)
    BY <1>1, <2>1, CheckSteps
  <2>2. CASE CountFails(w)
    BY <1>1, <2>2, AnswerStep DEF CountFails
  <2>3. CASE Respond(w)
    BY <1>1, <2>3, AnswerStep DEF Respond, Admitted
  <2>4. ASSUME NEW r \in Resources, Insert(w, r) PROVE [Promise!Next]_(Promise!vars)
    BY <1>1, <2>4, InsertStep
  <2>. QED BY <1>3, <2>1, <2>2, <2>3, <2>4 DEF Serve
<1>4. ASSUME NEW w \in Workers, NEW e \in Entities, NEW route \in Routes, Start(w, e, route)
      PROVE  [Promise!Next]_(Promise!vars)
  <2>1. /\ req[w].step = "idle" /\ req'[w].granted = {}
        /\ \A v \in Workers : v # w => req'[v] = req[v]
    BY <1>1, <1>4 DEF Start, ReqTyped
  <2>2. \A v \in Workers, r \in Resources : ~Gained(v, r)
    BY <2>1, OthersKeep DEF Gained, Busy
  <2>3. \A v \in Workers, a \in Accounts : v \in Holders(a)' <=> v \in Holders(a)
    BY <2>1, OthersKeep DEF Holders, Busy
  <2>. QED BY <1>1, <1>4, <2>2, <2>3, Stutter DEF Start
<1>5. ASSUME NEW e \in Entities, NEW r \in Resources, Delete(e, r)
      PROVE  [Promise!Next]_(Promise!vars)
  <2>1. <<e, r>> \in Accounts
    OBVIOUS
  <2>2. \A v \in Workers, s \in Resources : ~Gained(v, s)
    BY <1>5, OthersKeep DEF Delete
  <2>3. ceiling' = ceiling
    BY <1>1, <2>2, CeilingKept
  <2>4. \A a \in Accounts : Holders(a)' = Holders(a)
    BY <1>5 DEF Delete, Holders, Busy
  <2>5. Promise!Free(<<e, r>>)
    BY <1>5, <2>3, <2>4 DEF Promise!Free, Delete
  <2>. QED BY <2>1, <2>5 DEF Promise!Next
<1>6. ASSUME NEW e \in Entities, NEW k \in PlanKeys, ChangePlan(e, k)
      PROVE  [Promise!Next]_(Promise!vars)
  BY <1>2, <1>6 DEF ChangePlan
<1>7. ASSUME NEW cat \in Catalogs, ReloadCatalog(cat) PROVE [Promise!Next]_(Promise!vars)
  BY <1>2, <1>7 DEF ReloadCatalog
<1>. QED BY <1>1, <1>3, <1>4, <1>5, <1>6, <1>7 DEF Next

-----------------------------------------------------------------------------
(* Whatever the catalogs, routes, reloads, plan changes and interleavings,    *)
(* the gate gives, uses and drops grants the way the quota promise allows.    *)
THEOREM GateImplementsQuota == HistorySpec => ImplementsQuota
<1>1. [Promise!Next]_(Promise!vars) \/ ~UNCHANGED allVars \/ UNCHANGED Promise!vars
  BY DEF allVars, Promise!vars, Holders, Busy
<1>2. HistoryTypeOK /\ [HistoryNext]_allVars => [Promise!Next]_(Promise!vars)
  BY <1>1, NextImplements
<1>. QED BY <1>2, InitImplements, HistoryTypeCorrect, PTL DEF HistorySpec, ImplementsQuota, Promise!Spec

(* Rows pass the quota they were judged by, by fewer than the requests that   *)
(* can be in progress at once.                                                *)
THEOREM GateOvershootBounded == HistorySpec => []OvershootBounded
<1>1. Promise!OvershootBounded => OvershootBounded
  BY DEF Promise!OvershootBounded, OvershootBounded, Promise!Unlimited, Unlimited
<1>. QED BY <1>1, GateImplementsQuota, PromiseIsKept, PTL DEF ImplementsQuota
=============================================================================
