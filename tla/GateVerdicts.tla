---------------------------- MODULE GateVerdicts ----------------------------
(***************************************************************************)
(* What the verdicts of the admission gate are worth once the counter has  *)
(* been awaited, for every catalog, set of routes and number of requests.  *)
(***************************************************************************)
EXTENDS GateProofs

USE DEF Accounts

(* The catalog in force grants plan key k what a check demands. *)
Grants(k, check) ==
  /\ check.kind = "feature" => FeatureVerdict(registry, k, check.key) = "allowed"
  /\ check.kind = "limit"   => GetPlan(registry, k) # None /\ Quota(k, check.key) # 0

(* A history of standings that says anything says how the account stands now. *)
StandingIsCurrent(w) ==
  Busy(w) => \A r \in Resources : standing[w][r] \in {"mixed", StandingOf(req[w].entity, r)}

(* What a request remembers from before its awaits is still so, and what it *)
(* has passed is still granted, as long as nothing it depends on changed.   *)
MemoryIsCurrent(w) ==
  Busy(w) /\ settled[w] =>
    /\ req[w].plan = planOf[req[w].entity]
    /\ \A i \in DOMAIN req[w].route : i < req[w].next => Grants(req[w].plan, req[w].route[i])
    /\ req[w].step = "counting" =>
         /\ GetPlan(registry, req[w].plan) # None
         /\ req[w].quota = Quota(req[w].plan, Current(w).key) /\ req[w].quota # Unlimited

VerdictsInv ==
  HistoryTypeOK /\ \A w \in Workers : StandingIsCurrent(w) /\ MemoryIsCurrent(w)

-----------------------------------------------------------------------------
(* Who moves, and how. *)

(* Only its own steps change the request of a worker. *)
LEMMA OnlyItsOwnSteps ==
  ASSUME TypeOK, Next, NEW w \in Workers, req'[w] # req[w]
  PROVE  Serve(w) \/ \E e \in Entities, route \in Routes : Start(w, e, route)
<1>1. req \in [Workers -> Request \cup IdleRecords]
  BY TypeOKParts DEF ReqTyped
<1>2. ASSUME NEW v \in Workers, Serve(v)  PROVE v = w
  <2>. SUFFICES ASSUME v # w  PROVE req'[w] = req[w]
    OBVIOUS
  <2>1. ASSUME NEW gained, Pass(v, gained)  PROVE req'[w] = req[w]
    BY <1>1, <2>1 DEF Pass
  <2>2. ASSUME NEW outcome, Answer(v, outcome)  PROVE req'[w] = req[w]
    BY <1>1, <2>2 DEF Answer
  <2>3. CASE CheckFeature(v) \/ SkipOther(v) \/ FinishLimit(v) \/ CountFails(v) \/ Respond(v)
    BY <2>1, <2>2, <2>3 DEF CheckFeature, SkipOther, FinishLimit, CountFails, Respond
  <2>4. CASE BeginLimit(v)
    BY <1>1, <2>2, <2>4 DEF BeginLimit
  <2>5. ASSUME NEW r \in Resources, Insert(v, r)  PROVE req'[w] = req[w]
    BY <1>1, <2>5 DEF Insert
  <2>. QED BY <1>2, <2>3, <2>4, <2>5 DEF Serve
<1>3. ASSUME NEW v \in Workers, NEW e \in Entities, NEW route \in Routes, Start(v, e, route)  PROVE v = w
  BY <1>1, <1>3 DEF Start
<1>. QED BY <1>2, <1>3 DEF Next, Delete, ChangePlan, ReloadCatalog

(* A step of w that leaves it a request: it passes a check, suspends on a  *)
(* counter or inserts a row.                                               *)
Advances(w, gained) ==
  /\ req[w] \in Request /\ req'[w] \in Request
  /\ req'[w].entity = req[w].entity /\ req'[w].plan = req[w].plan /\ req'[w].route = req[w].route
  /\ req'[w].next = req[w].next + 1 /\ req'[w].step = "checking"
  /\ req'[w].granted = req[w].granted \cup gained
  /\ UNCHANGED <<registry, planOf, usage>>

LEMMA PassAdvances ==
  ASSUME TypeOK, NEW w \in Workers, req[w].step # "idle", NEW gained \in SUBSET Resources, Pass(w, gained),
         UNCHANGED <<registry, planOf, usage>>
  PROVE  Advances(w, gained)
<1>1. ReqTyped /\ req[w] \in Request
  BY TypeOKParts, BusyIsRequest
<1>. DEFINE next    == req[w].next + 1
            granted == req[w].granted \cup gained
            new     == [req[w] EXCEPT !.step = "checking", !.next = next, !.granted = granted]
<1>2. req'[w] = new
  BY <1>1 DEF Pass, Request, ReqTyped
<1>3. next \in Nat \ {0} /\ granted \in SUBSET Resources
  BY <1>1 DEF Request
<1>4. /\ new \in Request /\ new.entity = req[w].entity /\ new.plan = req[w].plan /\ new.route = req[w].route
      /\ new.next = next /\ new.step = "checking" /\ new.granted = granted
  <2>. HIDE DEF next, granted
  <2>. QED BY <1>1, <1>3 DEF Request
<1>. QED BY <1>1, <1>2, <1>4 DEF Advances

(* The steps of a request that is at a limit check. *)
LEMMA BeginLimitMoves ==
  ASSUME TypeOK, NEW w \in Workers, BeginLimit(w)
  PROVE  LET r == Current(w).key IN
         /\ r \in Resources /\ req[w] \in Request /\ UNCHANGED <<registry, planOf, usage>>
         /\ \/ Answer(w, "error")
            \/ /\ Advances(w, {r}) /\ GetPlan(registry, req[w].plan) # None
               /\ Quota(req[w].plan, r) = Unlimited
            \/ /\ GetPlan(registry, req[w].plan) # None /\ Quota(req[w].plan, r) # Unlimited
               /\ req' = [req EXCEPT ![w].step = "counting", ![w].quota = Quota(req[w].plan, r)]
<1>. DEFINE r == Current(w).key
<1>1. /\ registry \in Registries /\ ReqTyped /\ Checking(w) /\ req[w].step = "checking"
      /\ req[w] \in Request /\ r \in Resources /\ UNCHANGED <<registry, planOf, usage>>
  BY TypeOKParts, CurrentTyped, BusyIsRequest DEF BeginLimit, Checking
<1>2. CASE /\ GetPlan(registry, req[w].plan) # None
           /\ Quota(req[w].plan, r) = Unlimited
           /\ req' = [req EXCEPT ![w].quota = Unlimited, ![w].next = @ + 1,
                                 ![w].granted = @ \cup {r}]
  <2>. DEFINE next    == req[w].next + 1
              granted == req[w].granted \cup {r}
              new     == [req[w] EXCEPT !.quota = Unlimited, !.next = next, !.granted = granted]
  <2>1. Quota(req[w].plan, r) \in Quotas
    BY <1>1, <1>2, QuotaTyped DEF Request
  <2>2. next \in Nat \ {0} /\ granted \in SUBSET Resources /\ Unlimited \in Quotas \cup {0}
    BY <1>1, <1>2, <2>1 DEF Request
  <2>3. req'[w] = new
    BY <1>1, <1>2 DEF ReqTyped
  <2>4. /\ new \in Request /\ new.entity = req[w].entity /\ new.plan = req[w].plan /\ new.route = req[w].route
        /\ new.next = next /\ new.step = "checking" /\ new.granted = granted
    <3>. HIDE DEF next, granted
    <3>. QED BY <1>1, <2>2 DEF Request
  <2>. QED BY <1>1, <1>2, <2>3, <2>4 DEF Advances
<1>. QED BY <1>1, <1>2 DEF BeginLimit

-----------------------------------------------------------------------------
(* Each kind of step keeps the memory of w current. *)

LEMMA SettledBefore ==
  ASSUME Record, NEW w \in Workers, Busy(w), Busy(w)', settled'[w]
  PROVE  settled[w] /\ registry' = registry /\ planOf'[req[w].entity] = planOf[req[w].entity]
BY DEF Record

LEMMA StandingKept ==
  ASSUME Record, NEW w \in Workers, req'[w].entity = req[w].entity \/ ~Busy(w)
  PROVE  StandingIsCurrent(w)'
<1>1. ASSUME NEW r \in Resources, Busy(w)'
      PROVE  standing'[w][r] \in {"mixed", StandingOf(req[w].entity, r)'}
  BY <1>1, Zenon DEF Record
<1>. QED BY <1>1 DEF StandingIsCurrent

LEMMA RestKeeps ==
  ASSUME Record, NEW w \in Workers, MemoryIsCurrent(w), req'[w] = req[w]
  PROVE  MemoryIsCurrent(w)'
<1>. SUFFICES ASSUME Busy(w)', settled'[w]  PROVE MemoryIsCurrent(w)'
  BY DEF MemoryIsCurrent
<1>1. Busy(w) /\ settled[w] /\ registry' = registry /\ planOf'[req[w].entity] = planOf[req[w].entity]
  BY SettledBefore DEF Busy
<1>. QED BY <1>1 DEF MemoryIsCurrent, Grants, Quota, Current, Busy

LEMMA AdvanceKeeps ==
  ASSUME Record, NEW w \in Workers, MemoryIsCurrent(w), NEW gained, Advances(w, gained), Busy(w),
         settled[w] => Grants(req[w].plan, Current(w))
  PROVE  MemoryIsCurrent(w)'
<1>. SUFFICES ASSUME Busy(w)', settled'[w]  PROVE MemoryIsCurrent(w)'
  BY DEF MemoryIsCurrent
<1>1. /\ settled[w] /\ registry' = registry /\ planOf' = planOf /\ req[w].next \in Nat
      /\ req'[w].entity = req[w].entity /\ req'[w].plan = req[w].plan /\ req'[w].route = req[w].route
      /\ req'[w].next = req[w].next + 1 /\ req'[w].step = "checking"
  BY SettledBefore DEF Advances, Request
<1>2. ASSUME NEW i \in DOMAIN req[w].route, i < req[w].next + 1
      PROVE  Grants(req[w].plan, req[w].route[i])
  <2>1. i \in Nat
    <3>1. req[w].route \in Seq(Check)
      BY RoutesAssumption DEF Advances, Request
    <3>. QED BY <3>1
  <2>2. CASE i = req[w].next
    BY <1>1, <2>2 DEF Current
  <2>3. CASE i < req[w].next
    BY <1>1, <2>3 DEF MemoryIsCurrent
  <2>. QED BY <1>1, <1>2, <2>1, <2>2, <2>3
<1>3. \A k, check : Grants(k, check)' <=> Grants(k, check)
  BY <1>1 DEF Grants, Quota
<1>. QED BY <1>1, <1>2, <1>3 DEF MemoryIsCurrent

LEMMA AnswerIdles ==
  ASSUME TypeOK, NEW w \in Workers, NEW outcome, Answer(w, outcome)
  PROVE  req'[w] = Idle(outcome) /\ ~Busy(w)'
<1>1. ReqTyped
  BY TypeOKParts
<1>. QED BY <1>1 DEF Answer, ReqTyped, Busy, Idle

LEMMA SuspendKeeps ==
  ASSUME TypeOK, Record, NEW w \in Workers, MemoryIsCurrent(w), req[w] \in Request,
         UNCHANGED <<registry, planOf>>,
         GetPlan(registry, req[w].plan) # None, Quota(req[w].plan, Current(w).key) # Unlimited,
         req' = [req EXCEPT ![w].step = "counting", ![w].quota = Quota(req[w].plan, Current(w).key)]
  PROVE  MemoryIsCurrent(w)' /\ req'[w].entity = req[w].entity
<1>1. /\ req'[w].entity = req[w].entity /\ req'[w].plan = req[w].plan /\ req'[w].route = req[w].route
      /\ req'[w].next = req[w].next /\ req'[w].step = "counting"
      /\ req'[w].quota = Quota(req[w].plan, Current(w).key)
  <2>1. ReqTyped
    BY TypeOKParts
  <2>. QED BY <2>1 DEF ReqTyped, Request
<1>2. Busy(w)
  BY BusyIsRequest, TypeOKParts DEF Busy
<1>3. MemoryIsCurrent(w)'
  <2>. SUFFICES ASSUME Busy(w)', settled'[w]  PROVE MemoryIsCurrent(w)'
    BY DEF MemoryIsCurrent
  <2>1. settled[w] /\ registry' = registry /\ planOf' = planOf
    BY <1>2, SettledBefore
  <2>2. \A k, check : Grants(k, check)' <=> Grants(k, check)
    BY <2>1 DEF Grants, Quota
  <2>3. GetPlan(registry, req[w].plan)' # None /\ Quota(req[w].plan, Current(w).key)' = Quota(req[w].plan, Current(w).key)
    BY <1>1, <2>1 DEF Quota, Current
  <2>. QED BY <1>1, <1>2, <2>1, <2>2, <2>3 DEF MemoryIsCurrent, Current
<1>. QED BY <1>1, <1>3

LEMMA InsertKeeps ==
  ASSUME TypeOK, Record, NEW w \in Workers, MemoryIsCurrent(w), NEW r \in Resources, Insert(w, r)
  PROVE  MemoryIsCurrent(w)' /\ req'[w].entity = req[w].entity
<1>. DEFINE granted == req[w].granted \ {r}
            new     == [req[w] EXCEPT !.granted = granted]
<1>1. ReqTyped /\ req[w].step = "checking" /\ req[w] \in Request /\ Busy(w)
  BY TypeOKParts, BusyIsRequest DEF Insert, Admitted, Busy
<1>2. req'[w] = new
  BY <1>1 DEF Insert, ReqTyped
<1>3. /\ new.entity = req[w].entity /\ new.plan = req[w].plan /\ new.route = req[w].route
      /\ new.next = req[w].next /\ new.step = "checking"
  BY <1>1 DEF Request
<1>. HIDE DEF new
<1>4. MemoryIsCurrent(w)'
  <2>. SUFFICES ASSUME Busy(w)', settled'[w]  PROVE MemoryIsCurrent(w)'
    BY DEF MemoryIsCurrent
  <2>1. settled[w] /\ registry' = registry /\ planOf' = planOf
    BY <1>1, SettledBefore DEF Insert
  <2>2. \A k, check : Grants(k, check)' <=> Grants(k, check)
    BY <2>1 DEF Grants, Quota
  <2>. QED BY <1>1, <1>2, <1>3, <2>1, <2>2 DEF MemoryIsCurrent
<1>. QED BY <1>2, <1>3, <1>4

(* A request starts with the plan of its entity and nothing passed. *)
LEMMA StartKeeps ==
  ASSUME TypeOK, Record, NEW w \in Workers, NEW e \in Entities, NEW route \in Routes, Start(w, e, route)
  PROVE  MemoryIsCurrent(w)' /\ ~Busy(w)
<1>. DEFINE new == [step |-> "checking", entity |-> e, plan |-> planOf[e], route |-> route,
                    next |-> 1, quota |-> 0, granted |-> {}]
<1>1. ReqTyped /\ ~Busy(w) /\ planOf' = planOf
  BY TypeOKParts DEF Start, Busy
<1>2. req'[w] = new
  BY <1>1 DEF Start, ReqTyped
<1>3. route \in Seq(Check)
  BY RoutesAssumption
<1>4. ~ \E i \in DOMAIN route : i < 1
  BY <1>3
<1>. QED BY <1>1, <1>2, <1>4 DEF MemoryIsCurrent

-----------------------------------------------------------------------------
(* Every step keeps the memory of every request current. *)

(* An account under the quota has a quota. *)
LEMMA UnderLimitMoves ==
  ASSUME TypeOK, NEW w \in Workers, FinishLimit(w)
  PROVE  /\ req[w] \in Request /\ req[w].step = "counting" /\ UNCHANGED <<registry, planOf, usage>>
         /\ Current(w).kind = "limit" /\ Current(w).key \in Resources
         /\ usage[<<req[w].entity, Current(w).key>>] \in Nat /\ req[w].quota \in Int
         /\ \/ /\ usage[<<req[w].entity, Current(w).key>>] < req[w].quota
               /\ Advances(w, {Current(w).key})
            \/ /\ usage[<<req[w].entity, Current(w).key>>] >= req[w].quota
               /\ Answer(w, "refused")
<1>. DEFINE r     == Current(w).key
            count == usage[<<req[w].entity, r>>]
<1>1. /\ ReqTyped /\ req[w].step = "counting" /\ req[w] \in Request /\ UNCHANGED <<registry, planOf, usage>>
      /\ Current(w).kind = "limit" /\ r \in Resources
  BY TypeOKParts, BusyIsRequest, CurrentTyped DEF FinishLimit
<1>2. count \in Nat
  <2>1. <<req[w].entity, r>> \in Accounts
    BY <1>1 DEF Request
  <2>. QED BY <2>1, TypeOKParts
<1>3. req[w].quota \in Int
  <2>1. req[w].quota \in Quotas \cup {0}
    BY <1>1 DEF Request
  <2>2. \A quota \in Quotas \cup {0} : quota \in Int
    BY QuotasAreIntegers
  <2>. QED BY <2>1, <2>2
<1>4. CASE UnderLimit(count, req[w].quota)
  <2>1. Pass(w, {r})
    BY <1>4 DEF FinishLimit
  <2>2. Advances(w, {r})
    BY <1>1, <2>1, PassAdvances
  <2>3. count < req[w].quota
    <3>. HIDE DEF count
    <3>. QED BY <1>2, <1>3, <1>4 DEF UnderLimit
  <2>. QED BY <1>1, <1>2, <1>3, <2>2, <2>3
<1>5. CASE ~ UnderLimit(count, req[w].quota)
  <2>1. Answer(w, "refused")
    BY <1>5 DEF FinishLimit
  <2>. QED BY <1>1, <1>2, <1>3, <1>5, <2>1 DEF UnderLimit
<1>. QED BY <1>4, <1>5

LEMMA ServeKeeps ==
  ASSUME TypeOK, Record, NEW w \in Workers, MemoryIsCurrent(w), Serve(w)
  PROVE  MemoryIsCurrent(w)' /\ (req'[w].entity = req[w].entity \/ ~Busy(w)')
<1>1. ASSUME NEW outcome, Answer(w, outcome)  PROVE MemoryIsCurrent(w)' /\ ~Busy(w)'
  BY <1>1, AnswerIdles DEF MemoryIsCurrent
<1>2. ASSUME NEW gained, Advances(w, gained), Busy(w), settled[w] => Grants(req[w].plan, Current(w))
      PROVE  MemoryIsCurrent(w)' /\ req'[w].entity = req[w].entity
  BY <1>2, AdvanceKeeps DEF Advances
<1>3. CASE CheckFeature(w)
  <2>. DEFINE verdict == FeatureVerdict(registry, req[w].plan, Current(w).key)
  <2>1. /\ req[w].step # "idle" /\ Current(w).kind = "feature" /\ UNCHANGED <<registry, planOf, usage>>
        /\ (verdict = "allowed" /\ Pass(w, {})) \/ Answer(w, verdict)
    BY <1>3 DEF CheckFeature, Checking
  <2>2. CASE verdict = "allowed" /\ Pass(w, {})
    <3>1. Advances(w, {})
      BY <2>1, <2>2, PassAdvances
    <3>2. Grants(req[w].plan, Current(w))
      BY <2>1, <2>2 DEF Grants
    <3>. QED BY <1>2, <2>1, <3>1, <3>2 DEF Busy
  <2>. HIDE DEF verdict
  <2>. QED BY <1>1, <2>1, <2>2
<1>4. CASE SkipOther(w)
  <2>1. Advances(w, {}) /\ Busy(w)
    BY <1>4, PassAdvances DEF SkipOther, Checking, Busy
  <2>2. Grants(req[w].plan, Current(w))
    BY <1>4 DEF SkipOther, Grants
  <2>. QED BY <1>2, <2>1, <2>2
<1>5. CASE BeginLimit(w)
  <2>. DEFINE r == Current(w).key
  <2>1. Current(w).kind = "limit" /\ Busy(w)
    BY <1>5 DEF BeginLimit, Checking, Busy
  <2>2. CASE Advances(w, {r}) /\ GetPlan(registry, req[w].plan) # None /\ Quota(req[w].plan, r) = Unlimited
    <3>1. Grants(req[w].plan, Current(w))
      BY <2>1, <2>2 DEF Grants, Unlimited
    <3>. QED BY <1>2, <2>1, <2>2, <3>1
  <2>3. CASE /\ GetPlan(registry, req[w].plan) # None /\ Quota(req[w].plan, r) # Unlimited
             /\ req' = [req EXCEPT ![w].step = "counting", ![w].quota = Quota(req[w].plan, r)]
    BY <1>5, <2>3, BeginLimitMoves, SuspendKeeps
  <2>. QED BY <1>1, <1>5, <2>2, <2>3, BeginLimitMoves
<1>6. CASE FinishLimit(w)
  <2>. DEFINE r == Current(w).key
  <2>1. Busy(w) /\ Current(w).kind = "limit"
    BY <1>6, UnderLimitMoves DEF Busy
  <2>2. CASE usage[<<req[w].entity, r>>] < req[w].quota /\ Advances(w, {r})
    <3>1. req[w].quota # 0
      BY <1>6, <2>2, UnderLimitMoves
    <3>2. settled[w] => Grants(req[w].plan, Current(w))
      BY <1>6, <2>1, <3>1, UnderLimitMoves DEF MemoryIsCurrent, Grants
    <3>. QED BY <1>2, <2>1, <2>2, <3>2
  <2>. QED BY <1>1, <1>6, <2>2, UnderLimitMoves
<1>7. ASSUME NEW r \in Resources, Insert(w, r)  PROVE MemoryIsCurrent(w)' /\ req'[w].entity = req[w].entity
  BY <1>7, InsertKeeps
<1>. QED BY <1>1, <1>3, <1>4, <1>5, <1>6, <1>7 DEF Serve, CountFails, Respond

LEMMA VerdictsStart ==
  HistoryInit => VerdictsInv
<1>1. HistoryInit => HistoryTypeOK
  BY InitTyped DEF HistoryInit, HistoryTypeOK, TypeOK, Standings
<1>2. HistoryInit => \A w \in Workers : ~Busy(w)
  BY DEF HistoryInit, Init, Busy, Idle
<1>. QED BY <1>1, <1>2 DEF VerdictsInv, StandingIsCurrent, MemoryIsCurrent

LEMMA HistoryNextTyped ==
  ASSUME HistoryTypeOK, HistoryNext
  PROVE  HistoryTypeOK'
<1>1. TypeOK /\ TypeOK'
  BY NextTyped DEF HistoryNext, HistoryTypeOK
<1>2. ReqTyped /\ ReqTyped'
  BY <1>1 DEF TypeOK, ReqTyped, IdleRecords
<1>. QED BY <1>1, <1>2, RecordTyped DEF HistoryNext, HistoryTypeOK

LEMMA VerdictsStep ==
  ASSUME VerdictsInv, [HistoryNext]_allVars
  PROVE  VerdictsInv'
<1>1. CASE HistoryNext
  <2>1. TypeOK /\ Next /\ Record /\ HistoryTypeOK'
    BY <1>1, HistoryNextTyped DEF VerdictsInv, HistoryNext, HistoryTypeOK
  <2>2. ASSUME NEW w \in Workers  PROVE StandingIsCurrent(w)' /\ MemoryIsCurrent(w)'
    <3>1. MemoryIsCurrent(w)
      BY DEF VerdictsInv
    <3>2. CASE req'[w] = req[w]
      BY <2>1, <3>1, <3>2, StandingKept, RestKeeps
    <3>3. CASE Serve(w)
      <4>1. MemoryIsCurrent(w)' /\ (req'[w].entity = req[w].entity \/ ~Busy(w)')
        BY <2>1, <3>1, <3>3, ServeKeeps
      <4>2. CASE ~Busy(w)'
        BY <4>1, <4>2 DEF StandingIsCurrent
      <4>. QED BY <2>1, <4>1, <4>2, StandingKept
    <3>4. ASSUME NEW e \in Entities, NEW route \in Routes, Start(w, e, route)
          PROVE  StandingIsCurrent(w)' /\ MemoryIsCurrent(w)'
      BY <2>1, <3>4, StartKeeps, StandingKept
    <3>. QED BY <2>1, <3>2, <3>3, <3>4, OnlyItsOwnSteps
  <2>. QED BY <2>1, <2>2 DEF VerdictsInv
<1>2. CASE UNCHANGED allVars
  <2>1. HistoryTypeOK'
    BY <1>2, TypeOKParts, TypeOKPartsPrimed DEF allVars, VerdictsInv, HistoryTypeOK, ReqTyped
  <2>2. ASSUME NEW w \in Workers  PROVE StandingIsCurrent(w)'
    BY <1>2 DEF VerdictsInv, StandingIsCurrent, StandingOf, Quota, Busy, allVars
  <2>3. ASSUME NEW w \in Workers  PROVE MemoryIsCurrent(w)'
    BY <1>2 DEF VerdictsInv, MemoryIsCurrent, Grants, Quota, Current, Busy, allVars
  <2>. QED BY <2>1, <2>2, <2>3 DEF VerdictsInv
<1>. QED BY <1>1, <1>2

(* The inductive invariant of verdicts: what a request remembers from before *)
(* its awaits is still so, unless the history says that something changed.  *)
THEOREM VerdictsInvariant ==
  HistorySpec => []VerdictsInv
<1>. QED BY VerdictsStart, VerdictsStep, PTL DEF HistorySpec

(* A request that reaches its handler with nothing it depends on changed is *)
(* granted by the catalog in force all that its route demands.              *)
THEOREM GateSettledAdmission ==
  HistorySpec => []SettledAdmission
<1>1. ASSUME VerdictsInv  PROVE SettledAdmission
  <2>. SUFFICES ASSUME NEW w \in Workers, Admitted(w), settled[w], NEW i \in DOMAIN req[w].route
                PROVE  Grants(planOf[req[w].entity], req[w].route[i])
    BY DEF SettledAdmission, Grants
  <2>1. Busy(w) /\ MemoryIsCurrent(w) /\ ReqTyped
    BY <1>1, TypeOKParts DEF VerdictsInv, HistoryTypeOK, Admitted, Busy
  <2>2. req[w] \in Request
    BY <2>1, BusyIsRequest DEF Busy
  <2>3. req[w].route \in Seq(Check) /\ req[w].next \in Nat
    BY <2>2, RoutesAssumption DEF Request
  <2>4. i < req[w].next
    BY <2>3 DEF Admitted
  <2>. QED BY <2>1, <2>4 DEF MemoryIsCurrent
<1>. QED BY <1>1, VerdictsInvariant, PTL

-----------------------------------------------------------------------------
(* Verdicts and standings. *)

(* A settled request is let through for a resource its account is not full  *)
(* of at that moment, and refused one it has no room for.                   *)
LEMMA VerdictIsOfThisMoment ==
  ASSUME VerdictsInv, Next, NEW w \in Workers, NEW r \in Resources, settled[w]
  PROVE  /\ Gained(w, r)   => StandingOf(req[w].entity, r) # "full"
         /\ Refusing(w, r) => StandingOf(req[w].entity, r) # "room" /\ Busy(w)
<1>1. TypeOK /\ ReqTyped /\ MemoryIsCurrent(w)
  BY TypeOKParts DEF VerdictsInv, HistoryTypeOK
<1>2. ASSUME Gained(w, r)  PROVE StandingOf(req[w].entity, r) # "full"
  <2>1. /\ Busy(w) /\ Busy(w)' /\ req'[w] # req[w] /\ r \in req'[w].granted \ req[w].granted
        /\ req[w].plan = planOf[req[w].entity]
    BY <1>1, <1>2 DEF Gained, MemoryIsCurrent
  <2>2. ASSUME NEW outcome, Answer(w, outcome)  PROVE FALSE
    BY <1>1, <2>1, <2>2, AnswerIdles
  <2>3. ASSUME NEW gained, Advances(w, gained)  PROVE r \in gained
    BY <2>1, <2>3 DEF Advances
  <2>4. ~ \E e \in Entities, route \in Routes : Start(w, e, route)
    BY <2>1 DEF Start, Busy
  <2>5. CASE CheckFeature(w) \/ SkipOther(w)
    <3>1. (Pass(w, {}) \/ \E outcome : Answer(w, outcome)) /\ req[w].step # "idle" /\ UNCHANGED <<registry, planOf, usage>>
      BY <2>5 DEF CheckFeature, SkipOther, Checking
    <3>. QED BY <1>1, <2>2, <2>3, <3>1, PassAdvances
  <2>6. CASE BeginLimit(w)
    <3>. DEFINE s == Current(w).key
    <3>1. CASE Advances(w, {s}) /\ GetPlan(registry, req[w].plan) # None /\ Quota(req[w].plan, s) = Unlimited
      BY <2>1, <2>3, <3>1 DEF StandingOf
    <3>2. CASE req' = [req EXCEPT ![w].step = "counting", ![w].quota = Quota(req[w].plan, s)]
      <4>1. req'[w].granted = req[w].granted
        BY <1>1, <2>1, <3>2, BusyIsRequest DEF ReqTyped, Request, Busy
      <4>. QED BY <2>1, <4>1
    <3>. QED BY <1>1, <2>2, <2>6, <3>1, <3>2, BeginLimitMoves
  <2>7. CASE FinishLimit(w)
    <3>. DEFINE s == Current(w).key
    <3>1. CASE usage[<<req[w].entity, s>>] < req[w].quota /\ Advances(w, {s})
      <4>1. r = s /\ req[w].quota = Quota(planOf[req[w].entity], r) /\ GetPlan(registry, planOf[req[w].entity]) # None
        BY <1>1, <2>1, <2>3, <2>7, <3>1, UnderLimitMoves DEF MemoryIsCurrent
      <4>2. ~ (usage[<<req[w].entity, r>>] >= Quota(planOf[req[w].entity], r))
        BY <1>1, <2>7, <3>1, <4>1, UnderLimitMoves
      <4>. QED BY <4>1, <4>2 DEF StandingOf
    <3>. QED BY <1>1, <2>2, <2>7, <3>1, UnderLimitMoves
  <2>8. CASE CountFails(w) \/ Respond(w)
    BY <2>2, <2>8 DEF CountFails, Respond
  <2>9. ASSUME NEW s \in Resources, Insert(w, s)  PROVE FALSE
    <3>1. req'[w].granted = req[w].granted \ {s}
      BY <1>1, <2>1, <2>9, BusyIsRequest DEF Insert, ReqTyped, Request, Busy
    <3>. QED BY <2>1, <3>1
  <2>. QED BY <1>1, <2>1, <2>4, <2>5, <2>6, <2>7, <2>8, <2>9, OnlyItsOwnSteps DEF Serve
<1>3. ASSUME Refusing(w, r)  PROVE StandingOf(req[w].entity, r) # "room" /\ Busy(w)
  <2>1. /\ req[w].step = "counting" /\ Current(w).key = r /\ req'[w] = Idle("refused")
        /\ Busy(w) /\ ~Busy(w)' /\ req'[w] # req[w]
    BY <1>3 DEF Refusing, Idle, Busy
  <2>2. /\ req[w].plan = planOf[req[w].entity] /\ GetPlan(registry, planOf[req[w].entity]) # None
        /\ req[w].quota = Quota(planOf[req[w].entity], r) /\ req[w].quota # Unlimited
    BY <1>1, <2>1 DEF MemoryIsCurrent
  <2>3. FinishLimit(w)
    <3>1. ~ CountFails(w)
      <4>. SUFFICES ASSUME CountFails(w)  PROVE FALSE
        OBVIOUS
      <4>1. req'[w] = Idle("error")
        BY <1>1, AnswerIdles DEF CountFails
      <4>. QED BY <2>1, <4>1 DEF Idle
    <3>2. ~ CheckFeature(w) /\ ~ SkipOther(w) /\ ~ BeginLimit(w) /\ ~ Respond(w) /\ \A s \in Resources : ~ Insert(w, s)
      BY <2>1 DEF CheckFeature, SkipOther, BeginLimit, Respond, Insert, Checking, Admitted
    <3>3. \A e \in Entities, route \in Routes : ~ Start(w, e, route)
      BY <2>1 DEF Start
    <3>. QED BY <1>1, <2>1, <3>1, <3>2, <3>3, OnlyItsOwnSteps DEF Serve
  <2>4. usage[<<req[w].entity, r>>] >= req[w].quota
    <3>1. ~ Advances(w, {r})
      BY <2>1 DEF Advances, Idle
    <3>. QED BY <1>1, <2>1, <2>3, <3>1, UnderLimitMoves
  <2>. QED BY <2>1, <2>2, <2>4 DEF StandingOf
<1>. QED BY <1>2, <1>3

(* So the verdict of a settled request is true of some moment of it.        *)
THEOREM GateVerdictMatchesStanding ==
  HistorySpec => VerdictMatchesStanding
<1>. DEFINE Matching == \A w \in Workers, r \in Resources : settled[w] =>
                          /\ Gained(w, r)   => standing[w][r] # "full"
                          /\ Refusing(w, r) => standing[w][r] # "room"
<1>1. ASSUME VerdictsInv, [HistoryNext]_allVars  PROVE [Matching]_allVars
  <2>. SUFFICES ASSUME HistoryNext, NEW w \in Workers, NEW r \in Resources, settled[w]
                PROVE  /\ Gained(w, r)   => standing[w][r] # "full"
                       /\ Refusing(w, r) => standing[w][r] # "room"
    BY <1>1
  <2>1. Next /\ StandingIsCurrent(w)
    BY <1>1 DEF HistoryNext, VerdictsInv
  <2>2. Busy(w) => standing[w][r] \in {"mixed", StandingOf(req[w].entity, r)}
    BY <2>1 DEF StandingIsCurrent
  <2>3. /\ Gained(w, r)   => StandingOf(req[w].entity, r) # "full" /\ Busy(w)
        /\ Refusing(w, r) => StandingOf(req[w].entity, r) # "room" /\ Busy(w)
    BY <1>1, <2>1, VerdictIsOfThisMoment DEF Gained
  <2>. QED BY <2>2, <2>3
<1>2. VerdictsInv /\ [HistoryNext]_allVars => [Matching]_allVars
  BY <1>1
<1>. QED BY <1>2, VerdictsInvariant, PTL DEF HistorySpec, VerdictMatchesStanding
=============================================================================
