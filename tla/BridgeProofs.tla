---------------------------- MODULE BridgeProofs ----------------------------
(***************************************************************************)
(* Theorems about the Django bridge, for every number of views, every set  *)
(* of quotas and any bounds on the rows.                                   *)
(***************************************************************************)
EXTENDS DjangoBridge, FiniteSetTheorems, TLAPS

Requests == [step : Steps, guard : Guards, loop : Loops, covered : BOOLEAN]
Resting  == {Idle(answer) : answer \in Answers}

(* A check gets to its counter only under a quota that is a number; a view  *)
(* whose timer went off has been let through under no limit.               *)
CountsUnderQuota == \A v \in Views : job[v] = "counting" => quota \in Nat
TimeoutIsNoLimit == \A v \in Views : view[v].step = "joining" => ceiling = Unlimited

(* Only covered requests are checked, so they never just read. *)
CheckedIsCovered == \A v \in Views : view[v].step \in {"waiting", "joining"} => ~Reads(v)

BridgeInv == TypeOK /\ NoCheckLeftBehind /\ CountsUnderQuota /\ TimeoutIsNoLimit /\ CheckedIsCovered

-----------------------------------------------------------------------------
(* The two ways on from the check, and the other ways to change a view. *)

LEMMA ViewIsEither ==
  ASSUME TypeOK, NEW v \in Views
  PROVE  /\ view[v] \in Requests \cup Resting
         /\ view[v].step = "idle" <=> view[v] \in Resting
         /\ view[v].step # "idle" <=> view[v] \in Requests
  BY DEF TypeOK, Requests, Resting, Idle, Steps

LEMMA StepOn ==
  ASSUME TypeOK, NEW v \in Views, view[v].step # "idle", NEW step \in Steps,
         view' = [view EXCEPT ![v].step = step]
  PROVE  /\ view' \in [Views -> Requests \cup Resting]
         /\ view'[v] = [view[v] EXCEPT !.step = step]
         /\ view'[v].step = step /\ (Reads(v)' <=> Reads(v))
         /\ \A u \in Views : u # v => view'[u] = view[u] /\ (Reads(u)' <=> Reads(u))
<1>1. view[v] \in Requests /\ view \in [Views -> Requests \cup Resting]
  BY ViewIsEither DEF TypeOK, Requests, Resting
<1>2. [view[v] EXCEPT !.step = step] \in Requests
  BY <1>1 DEF Requests
<1>. QED BY <1>1, <1>2 DEF Requests, Reads

LEMMA Rest ==
  ASSUME TypeOK, NEW v \in Views, NEW answer \in Answers, Answer(v, answer)
  PROVE  /\ view' \in [Views -> Requests \cup Resting] /\ view'[v].step = "idle"
         /\ \A u \in Views : u # v => view'[u] = view[u] /\ (Reads(u)' <=> Reads(u))
         /\ job' = [job EXCEPT ![v] = "none"]
<1>1. Idle(answer) \in Resting /\ Idle(answer).step = "idle"
  BY DEF Resting, Idle
<1>. QED BY <1>1 DEF Answer, TypeOK, Requests, Resting, Reads

LEMMA TypeOKPrimed ==
  ASSUME quota' \in Quotas, rows' \in Nat, view' \in [Views -> Requests \cup Resting],
         job' \in [Views -> Jobs], ceiling' \in Nat \cup {Unlimited},
         \A v \in Views : view'[v].step \in {"waiting", "joining"} => job'[v] # "none"
  PROVE  TypeOK'
  BY DEF TypeOK, Requests, Resting

LEMMA RaiseToTyped ==
  ASSUME ceiling \in Nat \cup {Unlimited}, NEW limit \in Nat \cup {Unlimited}
  PROVE  RaiseTo(limit) \in Nat \cup {Unlimited}
  BY DEF RaiseTo

-----------------------------------------------------------------------------
(* The promise, seen from one view. *)

Holders     == {v \in Views : Holds(v)}
Outstanding == [a \in {"entity"} |-> Cardinality(Holders)]

LEMMA HoldersFinite ==
  /\ IsFiniteSet(Holders) /\ Cardinality(Holders) \in Nat
  /\ IsFiniteSet(Holders') /\ Cardinality(Holders)' \in Nat /\ Cardinality(Holders)' <= Cardinality(Views)
<1>1. Holders \subseteq Views /\ Holders' \subseteq Views
  BY DEF Holders
<1>. QED BY <1>1, ViewsAssumption, FS_Subset, FS_CardinalityType

LEMMA HoldersUnchanged ==
  ASSUME \A v \in Views : Holds(v)' <=> Holds(v), UNCHANGED <<rows, ceiling>>
  PROVE  UNCHANGED Promise!vars
<1>1. Holders' = Holders
  BY DEF Holders
<1>. QED BY <1>1 DEF Promise!vars, Holders

(* A view that comes to hold a right has been given it, under a limit. *)
LEMMA GrantStep ==
  ASSUME NEW v \in Views, ~Holds(v), Holds(v)',
         \A u \in Views : u # v => (Holds(u)' <=> Holds(u)),
         NEW limit \in Quotas \cup {Unlimited}, limit = Unlimited \/ rows < limit,
         ceiling' = RaiseTo(limit), UNCHANGED rows
  PROVE  [Promise!Next]_(Promise!vars)
<1>1. v \notin Holders /\ Holders' = Holders \cup {v}
  BY DEF Holders
<1>2. Cardinality(Holders') = Cardinality(Holders) + 1
  BY <1>1, HoldersFinite, FS_AddElement
<1>3. Cardinality(Holders) < Cardinality(Views)
  BY <1>2, HoldersFinite, ViewsAssumption, FS_CardinalityType
<1>4. Promise!Grant("entity", limit)
  BY <1>2, <1>3 DEF Promise!Grant, Promise!Room, Promise!RaiseTo, Promise!Unlimited, RaiseTo, Unlimited, Holders
<1>. QED BY <1>4 DEF Promise!Next, Promise!Unlimited, Unlimited

(* A view that no longer holds one has used it or given it up. *)
LEMMA ReturnStep ==
  ASSUME NEW v \in Views, Holds(v), ~Holds(v)',
         \A u \in Views : u # v => (Holds(u)' <=> Holds(u)),
         \/ UNCHANGED rows
         \/ rows < MaxRows /\ rows' = rows + 1,
         UNCHANGED ceiling
  PROVE  [Promise!Next]_(Promise!vars)
<1>1. v \in Holders /\ Holders' = Holders \ {v}
  BY DEF Holders
<1>2. Cardinality(Holders') = Cardinality(Holders) - 1 /\ Cardinality(Holders) > 0
  BY <1>1, HoldersFinite, FS_RemoveElement, FS_EmptySet
<1>3. CASE UNCHANGED rows
  <2>1. Promise!Drop({"entity"})
    BY <1>2, <1>3 DEF Promise!Drop, Holders
  <2>. QED BY <2>1 DEF Promise!Next
<1>4. CASE rows < MaxRows /\ rows' = rows + 1
  <2>1. Promise!Use("entity")
    BY <1>2, <1>4 DEF Promise!Use, Holders
  <2>. QED BY <2>1 DEF Promise!Next
<1>. QED BY <1>3, <1>4

-----------------------------------------------------------------------------
(* One step of one view, of its check or of its counter keeps the invariant, *)
(* is a step of the promise and passes no guard but by an open way.          *)

Kept == /\ BridgeInv'
        /\ [Promise!Next]_(Promise!vars)
        /\ \A v \in Views : Passing(v) => OpenWay(v)

LEMMA OthersKeep ==
  ASSUME NEW u \in Views, view'[u] = view[u], job'[u] = job[u]
  PROVE  (Holds(u)' <=> Holds(u)) /\ ~Passing(u)
  BY DEF Holds, Passing, Reads

LEMMA ArriveStep ==
  ASSUME BridgeInv, NEW v \in Views, NEW guard \in Guards, NEW loop \in Loops, NEW covered \in BOOLEAN,
         Arrive(v, guard, loop, covered)
  PROVE  Kept
<1>. DEFINE new == [step |-> "queued", guard |-> guard, loop |-> loop, covered |-> covered]
<1>1. new \in Requests /\ new.step = "queued"
  BY DEF Requests, Steps
<1>2. view' = [view EXCEPT ![v] = new] /\ UNCHANGED <<quota, rows, job, ceiling>> /\ view[v].step = "idle"
  BY DEF Arrive
<1>. HIDE DEF new
<1>3. /\ view' \in [Views -> Requests \cup Resting] /\ view'[v].step = "queued"
      /\ \A u \in Views : u # v => view'[u] = view[u] /\ (Reads(u)' <=> Reads(u))
  BY <1>1, <1>2 DEF BridgeInv, TypeOK, Requests, Resting, Reads
<1>4. BridgeInv'
  BY <1>2, <1>3, TypeOKPrimed DEF BridgeInv, TypeOK, NoCheckLeftBehind, CountsUnderQuota, TimeoutIsNoLimit, CheckedIsCovered
<1>5. \A u \in Views : (Holds(u)' <=> Holds(u)) /\ ~Passing(u)
  BY <1>2, <1>3, OthersKeep DEF Holds, Passing
<1>. QED BY <1>2, <1>4, <1>5, HoldersUnchanged DEF Kept

LEMMA SkipCheckStep ==
  ASSUME BridgeInv, NEW v \in Views, SkipCheck(v)
  PROVE  Kept
<1>1. /\ view' \in [Views -> Requests \cup Resting] /\ view'[v].step = "passed" /\ (Reads(v)' <=> Reads(v))
      /\ \A u \in Views : u # v => view'[u] = view[u] /\ (Reads(u)' <=> Reads(u))
      /\ view[v].step = "queued" /\ ~view[v].covered
      /\ ceiling' = (IF Reads(v) THEN ceiling ELSE Unlimited) /\ UNCHANGED <<quota, rows, job>>
  BY StepOn DEF SkipCheck, Reached, GoOn, Steps, BridgeInv
<1>2. BridgeInv'
  BY <1>1, TypeOKPrimed
     DEF BridgeInv, TypeOK, NoCheckLeftBehind, CountsUnderQuota, TimeoutIsNoLimit, CheckedIsCovered, Reads
<1>3. OpenWay(v) /\ \A u \in Views : u # v => (Holds(u)' <=> Holds(u)) /\ ~Passing(u)
  BY <1>1, OthersKeep DEF OpenWay
<1>4. CASE Reads(v)
  <2>1. \A u \in Views : Holds(u)' <=> Holds(u)
    BY <1>1, <1>3, <1>4 DEF Holds
  <2>. QED BY <1>1, <1>2, <1>3, <1>4, <2>1, HoldersUnchanged DEF Kept
<1>5. CASE ~Reads(v)
  <2>1. ~Holds(v) /\ Holds(v)' /\ ceiling' = RaiseTo(Unlimited)
    BY <1>1, <1>5 DEF Holds, RaiseTo
  <2>2. [Promise!Next]_(Promise!vars)
    BY <1>1, <1>3, <2>1, GrantStep
  <2>. QED BY <1>2, <1>3, <2>2 DEF Kept
<1>. QED BY <1>4, <1>5

LEMMA FindNoEntityStep ==
  ASSUME BridgeInv, NEW v \in Views, FindNoEntity(v)
  PROVE  Kept
<1>1. /\ TypeOK /\ view[v].step = "queued" /\ Answer(v, "error") /\ "error" \in Answers
      /\ UNCHANGED <<quota, rows, ceiling>>
  BY DEF FindNoEntity, Reached, BridgeInv, Answers
<1>2. /\ view' \in [Views -> Requests \cup Resting] /\ view'[v].step = "idle"
      /\ \A u \in Views : u # v => view'[u] = view[u] /\ (Reads(u)' <=> Reads(u))
      /\ job' = [job EXCEPT ![v] = "none"]
  BY <1>1, Rest
<1>3. job' \in [Views -> Jobs] /\ job'[v] = "none" /\ \A u \in Views : u # v => job'[u] = job[u]
  BY <1>1, <1>2 DEF TypeOK, Jobs
<1>4. BridgeInv'
  BY <1>1, <1>2, <1>3, TypeOKPrimed
     DEF BridgeInv, TypeOK, NoCheckLeftBehind, CountsUnderQuota, TimeoutIsNoLimit, CheckedIsCovered, Reads
<1>5. \A u \in Views : (Holds(u)' <=> Holds(u)) /\ ~Passing(u)
  BY <1>1, <1>2, <1>3, OthersKeep DEF Holds, Passing
<1>. QED BY <1>1, <1>4, <1>5, HoldersUnchanged DEF Kept

LEMMA FindNoLoopStep ==
  ASSUME BridgeInv, NEW v \in Views, FindNoLoop(v)
  PROVE  Kept
<1>1. /\ view' \in [Views -> Requests \cup Resting] /\ view'[v].step = "passed" /\ (Reads(v)' <=> Reads(v))
      /\ \A u \in Views : u # v => view'[u] = view[u] /\ (Reads(u)' <=> Reads(u))
      /\ view[v].step = "queued" /\ view[v].loop = "none" /\ ~Reads(v)
      /\ ceiling' = Unlimited /\ UNCHANGED <<quota, rows, job>>
  BY StepOn DEF FindNoLoop, Reached, Reads, GoOn, Steps, BridgeInv
<1>2. BridgeInv'
  BY <1>1, TypeOKPrimed DEF BridgeInv, TypeOK, NoCheckLeftBehind, CountsUnderQuota, TimeoutIsNoLimit, CheckedIsCovered
<1>3. ~Holds(v) /\ Holds(v)' /\ \A u \in Views : u # v => (Holds(u)' <=> Holds(u)) /\ ~Passing(u)
  BY <1>1, OthersKeep DEF Holds
<1>4. ceiling' = RaiseTo(Unlimited)
  BY <1>1 DEF RaiseTo
<1>5. [Promise!Next]_(Promise!vars)
  BY <1>1, <1>3, <1>4, GrantStep
<1>. QED BY <1>1, <1>2, <1>3, <1>5 DEF Kept, OpenWay

LEMMA RunCheckStep ==
  ASSUME BridgeInv, NEW v \in Views, RunCheck(v)
  PROVE  Kept
<1>1. /\ view' \in [Views -> Requests \cup Resting] /\ view'[v].step = "waiting"
      /\ \A u \in Views : u # v => view'[u] = view[u] /\ (Reads(u)' <=> Reads(u))
      /\ view[v].step = "queued" /\ ~Reads(v)' /\ job' = [job EXCEPT ![v] = "submitted"]
      /\ UNCHANGED <<quota, rows, ceiling>>
  BY StepOn DEF RunCheck, Reached, Reads, Steps, BridgeInv
<1>2. job' \in [Views -> Jobs] /\ job'[v] = "submitted" /\ \A u \in Views : u # v => job'[u] = job[u]
  BY <1>1 DEF BridgeInv, TypeOK, Jobs
<1>3. BridgeInv'
  BY <1>1, <1>2, TypeOKPrimed DEF BridgeInv, TypeOK, NoCheckLeftBehind, CountsUnderQuota, TimeoutIsNoLimit, CheckedIsCovered
<1>4. \A u \in Views : (Holds(u)' <=> Holds(u)) /\ ~Passing(u)
  BY <1>1, <1>2, OthersKeep DEF Holds, Passing
<1>. QED BY <1>1, <1>3, <1>4, HoldersUnchanged DEF Kept

(* The steps of a check that has been started, which leave the views alone. *)
LEMMA JobMoves ==
  ASSUME BridgeInv, NEW v \in Views, job[v] \in {"submitted", "counting"},
         NEW state \in {"counting"} \cup Finished, job' = [job EXCEPT ![v] = state],
         state = "counting" => quota \in Nat,
         UNCHANGED <<quota, rows, view>>,
         ceiling' \in Nat \cup {Unlimited}, ceiling = Unlimited => ceiling' = Unlimited
  PROVE  /\ BridgeInv'
         /\ view[v].step \in {"waiting", "joining"} /\ job'[v] = state
         /\ ~Reads(v) /\ ~Reads(v)'
         /\ \A u \in Views : ~Passing(u) /\ (u # v => (Holds(u)' <=> Holds(u)))
<1>1. /\ view[v].step \in {"waiting", "joining"}
      /\ job' \in [Views -> Jobs] /\ job'[v] = state
      /\ \A u \in Views : u # v => job'[u] = job[u] /\ view'[u] = view[u]
      /\ \A u \in Views : Reads(u)' <=> Reads(u)
  BY DEF BridgeInv, NoCheckLeftBehind, TypeOK, Jobs, Reads
<1>2. TypeOK'
  BY <1>1, TypeOKPrimed DEF BridgeInv, TypeOK, Requests, Resting, Finished
<1>3. BridgeInv'
  BY <1>1, <1>2 DEF BridgeInv, NoCheckLeftBehind, CountsUnderQuota, TimeoutIsNoLimit, CheckedIsCovered
<1>4. \A u \in Views : ~Passing(u) /\ (u # v => (Holds(u)' <=> Holds(u)))
  BY <1>1 DEF Passing, Holds
<1>. QED BY <1>1, <1>3, <1>4 DEF BridgeInv, CheckedIsCovered

LEMMA JobGoesOn ==
  ASSUME BridgeInv, NEW v \in Views, job[v] \in {"submitted", "counting"},
         NEW state \in {"counting", "refused", "raised", "timed out"}, job' = [job EXCEPT ![v] = state],
         state = "counting" => quota \in Nat,
         UNCHANGED <<quota, rows, view, ceiling>>
  PROVE  Kept
<1>1. state \in {"counting"} \cup Finished /\ ceiling' \in Nat \cup {Unlimited}
  BY DEF Finished, BridgeInv, TypeOK
<1>2. /\ BridgeInv'
      /\ view[v].step \in {"waiting", "joining"} /\ job'[v] = state
      /\ ~Reads(v) /\ ~Reads(v)'
      /\ \A u \in Views : ~Passing(u) /\ (u # v => (Holds(u)' <=> Holds(u)))
  BY <1>1, JobMoves
<1>3. \A u \in Views : Holds(u)' <=> Holds(u)
  BY <1>2 DEF Holds
<1>. QED BY <1>2, <1>3, HoldersUnchanged DEF Kept

LEMMA JobAllowed ==
  ASSUME BridgeInv, NEW v \in Views, job[v] \in {"submitted", "counting"},
         job' = [job EXCEPT ![v] = "allowed"], UNCHANGED <<quota, rows, view>>,
         NEW limit \in Nat \cup {Unlimited}, limit \in Quotas \cup {Unlimited},
         limit = Unlimited \/ rows < limit, ceiling' = RaiseTo(limit)
  PROVE  Kept
<1>1. /\ ceiling' \in Nat \cup {Unlimited} /\ (ceiling = Unlimited => ceiling' = Unlimited)
      /\ "allowed" \in {"counting"} \cup Finished
  BY RaiseToTyped DEF BridgeInv, TypeOK, RaiseTo, Finished
<1>2. /\ BridgeInv'
      /\ view[v].step \in {"waiting", "joining"} /\ job'[v] = "allowed"
      /\ ~Reads(v) /\ ~Reads(v)'
      /\ \A u \in Views : ~Passing(u) /\ (u # v => (Holds(u)' <=> Holds(u)))
  BY <1>1, JobMoves
<1>3. CASE view[v].step = "waiting"
  <2>1. ~Holds(v) /\ Holds(v)'
    BY <1>2, <1>3 DEF Holds
  <2>2. [Promise!Next]_(Promise!vars)
    BY <1>2, <2>1, GrantStep
  <2>. QED BY <1>2, <2>2 DEF Kept
<1>4. CASE view[v].step = "joining"
  <2>1. \A u \in Views : Holds(u)' <=> Holds(u)
    BY <1>2, <1>4 DEF Holds
  <2>2. ceiling' = ceiling
    BY <1>1, <1>4 DEF BridgeInv, TimeoutIsNoLimit
  <2>. QED BY <1>2, <2>1, <2>2, HoldersUnchanged DEF Kept
<1>. QED BY <1>2, <1>3, <1>4

LEMMA BeginCheckStep ==
  ASSUME BridgeInv, NEW v \in Views, BeginCheck(v)
  PROVE  Kept
<1>. DEFINE state == CASE quota = Unlimited -> "allowed" [] quota = NoQuota -> "raised" [] OTHER -> "counting"
<1>1. /\ job[v] = "submitted" /\ job' = [job EXCEPT ![v] = state]
      /\ ceiling' = IF quota = Unlimited THEN Unlimited ELSE ceiling
      /\ UNCHANGED <<quota, rows, view>>
  BY DEF BeginCheck
<1>2. quota \in Nat \cup {Unlimited, NoQuota}
  BY QuotasAssumption DEF BridgeInv, TypeOK
<1>3. CASE quota = Unlimited
  <2>1. state = "allowed" /\ ceiling' = RaiseTo(Unlimited)
    BY <1>1, <1>3 DEF RaiseTo, Unlimited, NoQuota
  <2>. HIDE DEF state
  <2>. QED BY <1>1, <2>1, JobAllowed
<1>4. CASE quota # Unlimited
  <2>1. state \in {"raised", "counting"} /\ ceiling' = ceiling /\ (state = "counting" => quota \in Nat)
    BY <1>1, <1>2, <1>4 DEF NoQuota, Unlimited
  <2>. HIDE DEF state
  <2>. QED BY <1>1, <2>1, JobGoesOn
<1>. QED BY <1>3, <1>4

LEMMA CounterStep ==
  ASSUME BridgeInv, NEW v \in Views, RunCounter(v)
  PROVE  Kept
<1>1. /\ job[v] = "counting" /\ UNCHANGED <<quota, rows, view>>
      /\ quota \in Nat /\ quota \in Quotas /\ rows \in Nat
  BY DEF RunCounter, CounterAnswers, CounterRaises, BridgeInv, CountsUnderQuota, TypeOK
<1>2. CASE CounterAnswers(v) /\ UnderQuota
  <2>1. job' = [job EXCEPT ![v] = "allowed"] /\ ceiling' = RaiseTo(quota) /\ rows < quota
    BY <1>1, <1>2 DEF CounterAnswers, UnderQuota
  <2>. QED BY <1>1, <2>1, JobAllowed
<1>3. CASE CounterAnswers(v) /\ ~UnderQuota
  <2>1. job' = [job EXCEPT ![v] = "refused"] /\ ceiling' = ceiling
    BY <1>3 DEF CounterAnswers
  <2>. QED BY <1>1, <2>1, JobGoesOn
<1>4. CASE CounterRaises(v)
  <2>1. PICK how \in {"raised", "timed out"} : job' = [job EXCEPT ![v] = how]
    BY <1>4 DEF CounterRaises
  <2>2. ceiling' = ceiling
    BY <1>4 DEF CounterRaises
  <2>. QED BY <1>1, <2>1, <2>2, JobGoesOn
<1>. QED BY <1>2, <1>3, <1>4 DEF RunCounter

(* What a view does with a check that ended, or did not in time. *)
LEMMA CollectStep ==
  ASSUME BridgeInv, NEW v \in Views, Collect(v)
  PROVE  Kept
<1>0. /\ TypeOK /\ view[v].step = "waiting" /\ ~Reads(v) /\ job[v] \in Finished
      /\ UNCHANGED <<quota, rows>> /\ "passed" \in Steps
  BY DEF Collect, BridgeInv, CheckedIsCovered, Steps
<1>1. CASE GoOn(v) /\ UNCHANGED job /\ OpenWay(v)
           /\ ceiling' = IF job[v] = "allowed" THEN ceiling ELSE Unlimited
  <2>1. /\ view' \in [Views -> Requests \cup Resting] /\ view'[v].step = "passed" /\ (Reads(v)' <=> Reads(v))
        /\ \A u \in Views : u # v => view'[u] = view[u] /\ (Reads(u)' <=> Reads(u))
    BY <1>0, <1>1, StepOn DEF GoOn
  <2>2. BridgeInv'
    BY <1>0, <1>1, <2>1, TypeOKPrimed
       DEF BridgeInv, TypeOK, NoCheckLeftBehind, CountsUnderQuota, TimeoutIsNoLimit, CheckedIsCovered, Finished
  <2>3. \A u \in Views : u # v => (Holds(u)' <=> Holds(u)) /\ ~Passing(u)
    BY <1>1, <2>1, OthersKeep
  <2>4. CASE job[v] = "allowed"
    <3>1. Holds(v) /\ Holds(v)'
      BY <1>0, <2>1, <2>4 DEF Holds
    <3>. QED BY <1>0, <1>1, <2>2, <2>3, <2>4, <3>1, HoldersUnchanged DEF Kept
  <2>5. CASE job[v] # "allowed"
    <3>1. ~Holds(v) /\ Holds(v)' /\ ceiling' = RaiseTo(Unlimited)
      BY <1>0, <1>1, <2>1, <2>5 DEF Holds, RaiseTo
    <3>2. [Promise!Next]_(Promise!vars)
      BY <1>0, <2>3, <3>1, GrantStep
    <3>. QED BY <1>1, <2>2, <2>3, <3>2 DEF Kept
  <2>. QED BY <2>4, <2>5
<1>2. ASSUME NEW answer \in Answers, Answer(v, answer), job[v] # "allowed", UNCHANGED ceiling PROVE Kept
  <2>1. /\ view' \in [Views -> Requests \cup Resting] /\ view'[v].step = "idle"
        /\ \A u \in Views : u # v => view'[u] = view[u] /\ (Reads(u)' <=> Reads(u))
        /\ job' = [job EXCEPT ![v] = "none"]
    BY <1>0, <1>2, Rest
  <2>2. job' \in [Views -> Jobs] /\ job'[v] = "none" /\ \A u \in Views : u # v => job'[u] = job[u]
    BY <1>0, <2>1 DEF TypeOK, Jobs
  <2>3. BridgeInv'
    BY <1>0, <1>2, <2>1, <2>2, TypeOKPrimed
       DEF BridgeInv, TypeOK, NoCheckLeftBehind, CountsUnderQuota, TimeoutIsNoLimit, CheckedIsCovered
  <2>4. \A u \in Views : (Holds(u)' <=> Holds(u)) /\ ~Passing(u)
    BY <1>0, <1>2, <2>1, <2>2, OthersKeep DEF Holds, Passing
  <2>. QED BY <1>0, <1>2, <2>3, <2>4, HoldersUnchanged DEF Kept
<1>3. CASE job[v] = "allowed" /\ GoOn(v) /\ UNCHANGED <<job, ceiling>>
  BY <1>1, <1>3 DEF OpenWay
<1>4. CASE job[v] = "refused" /\ Answer(v, "refused") /\ UNCHANGED ceiling
  BY <1>2, <1>4 DEF Answers
<1>5. CASE job[v] \in {"raised", "timed out"} /\ Swallows(v) /\ GoOn(v) /\ ceiling' = Unlimited /\ UNCHANGED job
  BY <1>1, <1>5 DEF OpenWay, Swallows
<1>6. CASE job[v] \in {"raised", "timed out"} /\ Answer(v, "error") /\ UNCHANGED ceiling
  BY <1>2, <1>6 DEF Answers
<1>. QED BY <1>3, <1>4, <1>5, <1>6 DEF Collect

LEMMA ExpireStep ==
  ASSUME BridgeInv, NEW v \in Views, Expire(v)
  PROVE  Kept
<1>1. /\ TypeOK /\ view[v].step = "waiting" /\ ~Reads(v) /\ job[v] \notin Finished /\ "joining" \in Steps
      /\ view' = [view EXCEPT ![v].step = "joining"]
      /\ ceiling' = Unlimited /\ UNCHANGED <<quota, rows, job>>
  BY DEF Expire, BridgeInv, CheckedIsCovered, Steps
<1>2. /\ view' \in [Views -> Requests \cup Resting] /\ view'[v].step = "joining" /\ (Reads(v)' <=> Reads(v))
      /\ \A u \in Views : u # v => view'[u] = view[u] /\ (Reads(u)' <=> Reads(u))
  BY <1>1, StepOn
<1>3. BridgeInv'
  BY <1>1, <1>2, TypeOKPrimed DEF BridgeInv, TypeOK, NoCheckLeftBehind, CountsUnderQuota, TimeoutIsNoLimit, CheckedIsCovered
<1>4. ~Holds(v) /\ Holds(v)' /\ ~Passing(v) /\ ceiling' = RaiseTo(Unlimited)
  BY <1>1, <1>2 DEF Holds, Passing, RaiseTo, Finished
<1>5. \A u \in Views : u # v => (Holds(u)' <=> Holds(u)) /\ ~Passing(u)
  BY <1>1, <1>2, OthersKeep
<1>6. [Promise!Next]_(Promise!vars)
  BY <1>1, <1>4, <1>5, GrantStep
<1>. QED BY <1>3, <1>4, <1>5, <1>6 DEF Kept

LEMMA JoinStep ==
  ASSUME BridgeInv, NEW v \in Views, Join(v)
  PROVE  Kept
<1>1. /\ TypeOK /\ view[v].step = "joining" /\ ~Reads(v) /\ job[v] \in Finished /\ "passed" \in Steps
      /\ view' = [view EXCEPT ![v].step = "passed"]
      /\ UNCHANGED <<quota, rows, job, ceiling>>
  BY DEF Join, GoOn, BridgeInv, CheckedIsCovered, Steps
<1>2. /\ view' \in [Views -> Requests \cup Resting] /\ view'[v].step = "passed" /\ (Reads(v)' <=> Reads(v))
      /\ \A u \in Views : u # v => view'[u] = view[u] /\ (Reads(u)' <=> Reads(u))
  BY <1>1, StepOn
<1>3. BridgeInv'
  BY <1>1, <1>2, TypeOKPrimed
     DEF BridgeInv, TypeOK, NoCheckLeftBehind, CountsUnderQuota, TimeoutIsNoLimit, CheckedIsCovered, Finished
<1>4. Holds(v) /\ Holds(v)' /\ OpenWay(v)
  BY <1>1, <1>2 DEF Holds, OpenWay
<1>5. \A u \in Views : u # v => (Holds(u)' <=> Holds(u)) /\ ~Passing(u)
  BY <1>1, <1>2, OthersKeep
<1>. QED BY <1>1, <1>3, <1>4, <1>5, HoldersUnchanged DEF Kept

LEMMA HandlerStep ==
  ASSUME BridgeInv, NEW v \in Views, Insert(v) \/ Respond(v)
  PROVE  Kept
<1>1. /\ TypeOK /\ view[v].step = "passed" /\ "served" \in Answers /\ Answer(v, "served")
      /\ UNCHANGED <<quota, ceiling>>
  BY DEF Insert, Respond, BridgeInv, Answers
<1>2. UNCHANGED rows \/ (rows < MaxRows /\ rows' = rows + 1)
  BY DEF Insert, Respond
<1>3. /\ view' \in [Views -> Requests \cup Resting] /\ view'[v].step = "idle"
      /\ \A u \in Views : u # v => view'[u] = view[u] /\ (Reads(u)' <=> Reads(u))
      /\ job' = [job EXCEPT ![v] = "none"]
  BY <1>1, Rest
<1>4. job' \in [Views -> Jobs] /\ job'[v] = "none" /\ \A u \in Views : u # v => job'[u] = job[u]
  BY <1>1, <1>3 DEF TypeOK, Jobs
<1>5. rows' \in Nat
  BY <1>1, <1>2 DEF TypeOK
<1>6. BridgeInv'
  BY <1>1, <1>3, <1>4, <1>5, TypeOKPrimed
     DEF BridgeInv, TypeOK, NoCheckLeftBehind, CountsUnderQuota, TimeoutIsNoLimit, CheckedIsCovered
<1>7. ~Holds(v)' /\ ~Passing(v) /\ \A u \in Views : u # v => (Holds(u)' <=> Holds(u)) /\ ~Passing(u)
  BY <1>1, <1>3, <1>4, OthersKeep DEF Holds, Passing
<1>8. CASE Holds(v)
  <2>1. [Promise!Next]_(Promise!vars)
    BY <1>1, <1>2, <1>7, <1>8, ReturnStep
  <2>. QED BY <1>6, <1>7, <2>1 DEF Kept
<1>9. CASE ~Holds(v)
  <2>1. UNCHANGED rows
    BY <1>1, <1>9 DEF Holds, Insert, Respond
  <2>. QED BY <1>1, <1>6, <1>7, <1>9, <2>1, HoldersUnchanged DEF Kept
<1>. QED BY <1>8, <1>9

LEMMA DeleteStep ==
  ASSUME BridgeInv, Delete
  PROVE  Kept
<1>1. rows \in Nat /\ rows > 0 /\ rows' = rows - 1 /\ UNCHANGED <<quota, view, job, ceiling>>
  BY DEF Delete, BridgeInv, TypeOK
<1>2. BridgeInv'
  BY <1>1 DEF BridgeInv, TypeOK, NoCheckLeftBehind, CountsUnderQuota, TimeoutIsNoLimit, CheckedIsCovered, Reads
<1>3. \A u \in Views : (Holds(u)' <=> Holds(u)) /\ ~Passing(u)
  BY <1>1, OthersKeep
<1>4. Holders' = Holders
  BY <1>3 DEF Holders
<1>5. Promise!Free("entity")
  BY <1>1, <1>4 DEF Promise!Free, Holders
<1>6. [Promise!Next]_(Promise!vars)
  BY <1>5 DEF Promise!Next
<1>. QED BY <1>2, <1>3, <1>6 DEF Kept

LEMMA NextStep ==
  ASSUME BridgeInv, [Next]_vars
  PROVE  Kept
<1>1. ASSUME NEW v \in Views, Check(v) PROVE Kept
  BY <1>1, SkipCheckStep, FindNoEntityStep, FindNoLoopStep, RunCheckStep DEF Check
<1>2. ASSUME NEW v \in Views, RunView(v) PROVE Kept
  BY <1>2, CollectStep, ExpireStep, JoinStep, HandlerStep DEF RunView
<1>3. ASSUME NEW v \in Views, BeginCheck(v) \/ RunCounter(v) PROVE Kept
  BY <1>3, BeginCheckStep, CounterStep
<1>4. ASSUME NEW v \in Views, NEW guard \in Guards, NEW loop \in Loops, NEW covered \in BOOLEAN,
             Arrive(v, guard, loop, covered)
      PROVE  Kept
  BY <1>4, ArriveStep
<1>5. CASE Delete
  BY <1>5, DeleteStep
<1>6. CASE UNCHANGED vars
  <2>1. UNCHANGED <<quota, rows, view, job, ceiling>>
    BY <1>6 DEF vars
  <2>2. BridgeInv'
    BY <2>1 DEF BridgeInv, TypeOK, NoCheckLeftBehind, CountsUnderQuota, TimeoutIsNoLimit, CheckedIsCovered, Reads
  <2>3. \A u \in Views : (Holds(u)' <=> Holds(u)) /\ ~Passing(u)
    BY <2>1, OthersKeep
  <2>. QED BY <2>1, <2>2, <2>3, HoldersUnchanged DEF Kept
<1>. QED BY <1>1, <1>2, <1>3, <1>4, <1>5, <1>6 DEF Next

LEMMA InitInv == Init => BridgeInv
  BY BoundAssumption
     DEF Init, BridgeInv, TypeOK, NoCheckLeftBehind, CountsUnderQuota, TimeoutIsNoLimit, CheckedIsCovered, Idle, Answers, Jobs

LEMMA InitMaps == Init => Promise!Init
<1>. SUFFICES ASSUME Init PROVE Promise!Init
  OBVIOUS
<1>1. Holders = {}
  BY DEF Init, Holders, Holds, Idle
<1>2. Cardinality({v \in Views : Holds(v)}) = 0
  BY <1>1, FS_EmptySet DEF Holders
<1>. QED BY <1>2 DEF Init, Promise!Init

-----------------------------------------------------------------------------
(* Rows are counts, views and checks are in step: a view that waits for a     *)
(* check, or for its thread, has one.                                         *)
THEOREM BridgeTypeCorrect == SafetySpec => []TypeOK
<1>1. BridgeInv => TypeOK
  BY DEF BridgeInv
<1>2. BridgeInv /\ [Next]_vars => BridgeInv'
  BY NextStep DEF Kept
<1>. QED BY InitInv, <1>1, <1>2, PTL DEF SafetySpec

(* Whichever way a view gets its answer, the check it started and the         *)
(* counter's query in it have ended by then.                                  *)
THEOREM BridgeJoinsItsCheck == SafetySpec => []NoCheckLeftBehind
<1>1. BridgeInv => NoCheckLeftBehind
  BY DEF BridgeInv
<1>2. BridgeInv /\ [Next]_vars => BridgeInv'
  BY NextStep DEF Kept
<1>. QED BY InitInv, <1>1, <1>2, PTL DEF SafetySpec

(* No view gets past its guard but by one of the ways that OpenWay lists.     *)
THEOREM BridgePassesAreAccountedFor == SafetySpec => PassesAreAccountedFor
<1>1. BridgeInv /\ [Next]_vars => BridgeInv' /\ [\A v \in Views : Passing(v) => OpenWay(v)]_vars
  BY NextStep DEF Kept
<1>. QED BY InitInv, <1>1, PTL DEF SafetySpec, PassesAreAccountedFor

(* The bridge grants, uses and drops the way the quota promise allows, when   *)
(* whatever passes without a verdict counts as a grant under no limit.        *)
THEOREM BridgeImplementsQuota == SafetySpec => ImplementsQuota
<1>1. BridgeInv /\ [Next]_vars => BridgeInv' /\ [Promise!Next]_(Promise!vars)
  BY NextStep DEF Kept
<1>. QED BY InitInv, InitMaps, <1>1, PTL DEF SafetySpec, ImplementsQuota, Promise!Spec

(* Hence the rows of the entity, with the requests let through and not done,  *)
(* exceed the highest quota a request was let through under by fewer than the *)
(* views in progress, until one passes without a verdict.                     *)
Bound == INSTANCE QuotaProofs WITH
  Accounts <- {"entity"},
  Slots    <- Cardinality(Views),
  Limits   <- Quotas \cup {Unlimited},
  rows     <- [a \in {"entity"} |-> rows],
  grants   <- [a \in {"entity"} |-> Cardinality({v \in Views : Holds(v)})],
  ceiling  <- [a \in {"entity"} |-> ceiling]

THEOREM BridgeOvershootBounded == SafetySpec => []Promise!OvershootBounded
<1>1. Bound!Parameters
  <2>1. Cardinality(Views) \in Nat \ {0}
    BY ViewsAssumption, FS_CardinalityType, FS_EmptySet
  <2>2. Quotas \cup {Unlimited} \subseteq Int
    BY QuotasAssumption DEF Unlimited, NoQuota
  <2>. QED BY <2>1, <2>2, BoundAssumption DEF Bound!Parameters
<1>2. Bound!Spec => []Bound!OvershootBounded
  BY <1>1, Bound!QuotaOvershootBounded
<1>3. Promise!Init <=> Bound!Init
  BY DEF Promise!Init, Bound!Init
<1>4. [Promise!Next]_Promise!vars <=> [Bound!Next]_Bound!vars
  BY DEF Promise!Next, Bound!Next, Promise!vars, Bound!vars, Promise!Grant, Bound!Grant, Promise!Room, Bound!Room,
         Promise!Use, Bound!Use, Promise!Free, Bound!Free, Promise!Drop, Bound!Drop,
         Promise!RaiseTo, Bound!RaiseTo, Promise!Unlimited, Bound!Unlimited
<1>5. Promise!OvershootBounded <=> Bound!OvershootBounded
  BY DEF Promise!OvershootBounded, Bound!OvershootBounded, Promise!Unlimited, Bound!Unlimited
<1>. QED BY <1>2, <1>3, <1>4, <1>5, BridgeImplementsQuota, PTL DEF ImplementsQuota, Promise!Spec, Bound!Spec
=============================================================================
