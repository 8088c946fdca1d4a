---------------------------- MODULE DjangoBridge ----------------------------
(***************************************************************************)
(* The bridge from a synchronous Django view to the asynchronous limit     *)
(* check: PlanLimitMixin.perform_create and the WithinLimit permission     *)
(* (integrations/django/mixins.py, permissions.py).                        *)
(*                                                                         *)
(* A view asks for an event loop.  It gets none, in a thread that has not  *)
(* set one; an idle one, which it drives until the check is done; or the   *)
(* running one it was called from, and then it hands the check to a thread *)
(* pool of one, waits for five seconds and leaves the pool's `with' block, *)
(* which joins the thread.  All of that blocks the running loop, so views  *)
(* called from it go one at a time; other views have threads of their own. *)
(*                                                                         *)
(* The views here create rows of one resource for one entity, whose quota  *)
(* stays put.  The counter may answer, raise, or hang.  Some requests are  *)
(* not covered: those of a mixin without pc_limit or pc_instance, and at   *)
(* the permission those that do not POST, PUT or PATCH, which only read.   *)
(***************************************************************************)
EXTENDS Integers, FiniteSets

CONSTANTS
  Views,         \* views that can be in progress at the same time
  Quotas,        \* quotas the entity may have, Unlimited and NoQuota included
  InitRows,      \* bound on the rows the entity starts with
  MaxRows        \* bound on its rows

Unlimited == -1
NoQuota   == -2      \* no plan or no counter: within_limit raises ValueError

ASSUME ViewsAssumption == IsFiniteSet(Views) /\ Views # {}
ASSUME QuotasAssumption == Quotas \subseteq Nat \cup {Unlimited, NoQuota}
ASSUME BoundAssumption == InitRows \in Nat /\ MaxRows \in Nat

Guards == {"mixin", "permission"}
Loops  == {"none", "idle", "running"}

VARIABLES
  quota,         \* the entity's quota
  rows,          \* rows of the resource in the host's database
  view,          \* per view, the guard and loop of its request, whether it is
                 \* covered, and how far it is
  job,           \* per view, the within_limit() coroutine it runs
  ceiling        \* history: highest quota a request was let through under,
                 \* Unlimited once one went through without a verdict

vars == <<quota, rows, view, job, ceiling>>

(* "queued" for the loop, "waiting" for the check, "joining" the thread     *)
(* after the timeout, "passed" and in the handler, or idle with an answer.  *)
Steps    == {"queued", "waiting", "joining", "passed"}
Answers  == {"none", "served", "refused", "error"}
Finished == {"allowed", "refused", "raised", "timed out"}   \* the last: raised TimeoutError
Jobs     == {"none", "submitted", "counting"} \cup Finished

Idle(answer) == [step |-> "idle", answer |-> answer]

TypeOK ==
  /\ quota \in Quotas
  /\ rows \in Nat
  /\ view \in [Views -> [step : Steps, guard : Guards, loop : Loops, covered : BOOLEAN]
                          \cup {Idle(answer) : answer \in Answers}]
  /\ job \in [Views -> Jobs]
  /\ ceiling \in Nat \cup {Unlimited}
  /\ \A v \in Views : view[v].step \in {"waiting", "joining"} => job[v] # "none"

(* The running loop is blocked by the view it has called. *)
OrQueued(v) == view[v].step \in Steps /\ view[v].loop = "running"   \* a slip: blocked by itself
OnLoop(v)   == view[v].step \in {"waiting", "joining", "passed"} /\ view[v].loop = "running"
LoopBlocked == \E v \in Views : OnLoop(v)

(* A view gets to its guard, unless it waits for its turn on the loop. *)
Reached(v) == view[v].step = "queued" /\ (view[v].loop = "running" => ~LoopBlocked)

Reads(v) == view[v].guard = "permission" /\ ~view[v].covered

RaiseTo(limit) == IF ceiling = Unlimited \/ limit = Unlimited THEN Unlimited
                  ELSE IF limit > ceiling THEN limit ELSE ceiling

(* The two ways on from the check. *)
GoOn(v) == view' = [view EXCEPT ![v].step = "passed"]
Answer(v, answer) ==
  /\ view' = [view EXCEPT ![v] = Idle(answer)]
  /\ job'  = [job EXCEPT ![v] = "none"]

-----------------------------------------------------------------------------
Init ==
  /\ quota \in Quotas
  /\ rows \in 0 .. InitRows
  /\ view = [v \in Views |-> Idle("none")]
  /\ job = [v \in Views |-> "none"]
  /\ ceiling = rows

Arrive(v, guard, loop, covered) ==
  /\ view[v].step = "idle"
  /\ view' = [view EXCEPT ![v] = [step |-> "queued", guard |-> guard, loop |-> loop, covered |-> covered]]
  /\ UNCHANGED <<quota, rows, job, ceiling>>

(* The `return True' ahead of the check, and the `if' around it. *)
SkipCheck(v) ==
  /\ Reached(v) /\ ~view[v].covered
  /\ GoOn(v)
  /\ ceiling' = IF Reads(v) THEN ceiling ELSE Unlimited
  /\ UNCHANGED <<quota, rows, job>>

(* The view has no get_billing_entity(), or what it has raises. *)
FindNoEntity(v) ==
  /\ Reached(v) /\ view[v].covered
  /\ Answer(v, "error")
  /\ UNCHANGED <<quota, rows, ceiling>>

(* get_event_loop() raises: the permission returns True, the mixin's        *)
(* catch-all makes up a result that is allowed.                             *)
FindNoLoop(v) ==
  /\ Reached(v) /\ view[v].covered /\ view[v].loop = "none"
  /\ GoOn(v)
  /\ ceiling' = Unlimited
  /\ UNCHANGED <<quota, rows, job>>

(* run_until_complete(), or submit() to the pool and result(timeout=5). *)
RunCheck(v) ==
  /\ Reached(v) /\ view[v].covered /\ view[v].loop # "none"
  /\ view' = [view EXCEPT ![v].step = "waiting"]
  /\ job' = [job EXCEPT ![v] = "submitted"]
  /\ UNCHANGED <<quota, rows, ceiling>>

(* The coroutine up to the counter's await, then what the counter makes of it. *)
BeginCheck(v) ==
  /\ job[v] = "submitted"
  /\ job' = [job EXCEPT ![v] = CASE quota = Unlimited -> "allowed"
                                 [] quota = NoQuota   -> "raised"
                                 [] OTHER             -> "counting"]
  /\ ceiling' = IF quota = Unlimited THEN Unlimited ELSE ceiling
  /\ UNCHANGED <<quota, rows, view>>

UpToQuota  == ~ rows > quota             \* the slip of comparing with >
UnderQuota == ~ rows >= quota

CounterAnswers(v) ==
  /\ job[v] = "counting"
  /\ IF UnderQuota
     THEN job' = [job EXCEPT ![v] = "allowed"] /\ ceiling' = RaiseTo(quota)
     ELSE job' = [job EXCEPT ![v] = "refused"] /\ UNCHANGED ceiling
  /\ UNCHANGED <<quota, rows, view>>

CounterRaises(v) ==
  /\ job[v] = "counting"
  /\ \E how \in {"raised", "timed out"} : job' = [job EXCEPT ![v] = how]
  /\ UNCHANGED <<quota, rows, view, ceiling>>

(* The check ends in time.  A refusal is the 402.  An exception passes at    *)
(* the mixin, whatever it is, and is the 500 at the permission -- but that  *)
(* takes a TimeoutError out of the pool for its own timeout, also when the   *)
(* counter raised it.                                                        *)
SwallowsAll(v) == TRUE                   \* the slip of one catch-all for both guards
Swallows(v) == view[v].guard = "mixin" \/ (job[v] = "timed out" /\ view[v].loop = "running")

Collect(v) ==
  /\ view[v].step = "waiting" /\ job[v] \in Finished
  /\ \/ job[v] = "allowed" /\ GoOn(v) /\ UNCHANGED <<job, ceiling>>
     \/ job[v] = "refused" /\ Answer(v, "refused") /\ UNCHANGED ceiling
     \/ /\ job[v] \in {"raised", "timed out"}
        /\ IF Swallows(v)
           THEN GoOn(v) /\ ceiling' = Unlimited /\ UNCHANGED job
           ELSE Answer(v, "error") /\ UNCHANGED ceiling
  /\ UNCHANGED <<quota, rows>>

(* Five seconds have gone by; both guards will let the request through, but  *)
(* only once the thread they leave behind has ended.                         *)
(* Slips: not joining the thread; forgetting the check along with the timer. *)
ExpireUnjoined(v) ==
  /\ view[v].step = "waiting" /\ view[v].loop = "running" /\ job[v] \notin Finished
  /\ GoOn(v)
  /\ ceiling' = Unlimited
  /\ UNCHANGED <<quota, rows, job>>

ExpireForgetting(v) ==
  /\ view[v].step = "waiting" /\ view[v].loop = "running" /\ job[v] \notin Finished
  /\ view' = [view EXCEPT ![v].step = "joining"]
  /\ job'  = [job EXCEPT ![v] = "none"]
  /\ ceiling' = Unlimited
  /\ UNCHANGED <<quota, rows>>

Expire(v) ==
  /\ view[v].step = "waiting" /\ view[v].loop = "running" /\ job[v] \notin Finished
  /\ view' = [view EXCEPT ![v].step = "joining"]
  /\ ceiling' = Unlimited
  /\ UNCHANGED <<quota, rows, job>>

Join(v) ==
  /\ view[v].step = "joining" /\ job[v] \in Finished
  /\ GoOn(v)
  /\ UNCHANGED <<quota, rows, job, ceiling>>

(* The handler inserts the row and answers, or answers without inserting:   *)
(* the permission guards updates as well as creates.                        *)
Insert(v) ==
  /\ view[v].step = "passed" /\ ~Reads(v) /\ rows < MaxRows
  /\ rows' = rows + 1
  /\ Answer(v, "served")
  /\ UNCHANGED <<quota, ceiling>>

Respond(v) ==
  /\ view[v].step = "passed"
  /\ Answer(v, "served")
  /\ UNCHANGED <<quota, rows, ceiling>>

Delete == rows > 0 /\ rows' = rows - 1 /\ UNCHANGED <<quota, view, job, ceiling>>

Check(v)      == SkipCheck(v) \/ FindNoEntity(v) \/ FindNoLoop(v) \/ RunCheck(v)
RunView(v)    == Collect(v) \/ Expire(v) \/ Join(v) \/ Insert(v) \/ Respond(v)
RunCounter(v) == CounterAnswers(v) \/ CounterRaises(v)

Next ==
  \/ \E v \in Views : Check(v) \/ RunView(v) \/ BeginCheck(v) \/ RunCounter(v)
  \/ \E v \in Views, guard \in Guards, loop \in Loops, covered \in BOOLEAN : Arrive(v, guard, loop, covered)
  \/ Delete

(* Threads are scheduled and timers fire (WF); the running loop takes the    *)
(* calls waiting for it in turn (SF).  Nothing is asked of the counter.      *)
Scheduling == \A v \in Views : WF_vars(RunView(v)) /\ WF_vars(BeginCheck(v)) /\ SF_vars(Check(v))

SafetySpec == Init /\ [][Next]_vars
Spec       == SafetySpec /\ Scheduling

(* The same with counters that answer or raise, sooner or later. *)
CountersReturn == \A v \in Views : WF_vars(RunCounter(v))
SpecCountersReturn == Spec /\ CountersReturn

-----------------------------------------------------------------------------
(* The bridge keeps the promise of Quota for its one account: every request  *)
(* let through to create without a verdict counts as a grant under no limit  *)
(* at all.                                                                   *)
Holds(v) == \/ view[v].step \in {"joining", "passed"} /\ ~Reads(v)
            \/ view[v].step = "waiting" /\ job[v] = "allowed"

Promise == INSTANCE Quota WITH
  Accounts <- {"entity"},
  Slots    <- Cardinality(Views),
  Limits   <- Quotas \cup {Unlimited},
  rows     <- [a \in {"entity"} |-> rows],
  grants   <- [a \in {"entity"} |-> Cardinality({v \in Views : Holds(v)})],
  ceiling  <- [a \in {"entity"} |-> ceiling]

ImplementsQuota == Promise!Spec

(* These are the ways past the guards: a verdict of allowed, a request that  *)
(* is not covered, no loop to ask, a check that did not end in time, any     *)
(* exception at the mixin, and a TimeoutError out of the pool, the pool's or *)
(* the counter's.  A refusal that came in time never passes, nor does any    *)
(* other exception at the permission.                                        *)
(*                                                                           *)
(* That is what the code does, not what is said of it.  The comment in       *)
(* permissions.py rules out the counter's TimeoutError (ErrorsFailClosed)    *)
(* and says the mixins have no catch-all; the repository's README says the   *)
(* permission lets a request pass when the check raises, which is so for     *)
(* the TimeoutError alone.                                                   *)
Passing(v) == view[v].step # "passed" /\ view'[v].step = "passed"

OpenWay(v) ==
  \/ job[v] = "allowed"
  \/ ~view[v].covered
  \/ view[v].loop = "none"
  \/ view[v].step = "joining"
  \/ view[v].guard = "mixin" /\ job[v] \in {"raised", "timed out"}
  \/ view[v].loop = "running" /\ job[v] = "timed out"

PassesAreAccountedFor == [][\A v \in Views : Passing(v) => OpenWay(v)]_vars

(* No check outlives its request: whichever way a view gets its answer, the  *)
(* thread it started and the counter's query in it have ended before the     *)
(* handler runs, even after a timeout.                                       *)
NoCheckLeftBehind ==
  \A v \in Views : job[v] \in {"submitted", "counting"} => view[v].step \in {"waiting", "joining"}

(* Every request is answered when counters return: the timer, the join and   *)
(* the turns on the loop do not block each other.                            *)
EveryRequestAnswered ==
  \A v \in Views : view[v].step # "idle" ~> view[v].step = "idle"

-----------------------------------------------------------------------------
(* "worker hung -- infra failure, fail open" (permissions.py): a request     *)
(* that has waited the five seconds is let through, counter or no counter.   *)
HungCounterFailsOpen ==
  \A v \in Views : view[v].step = "joining" ~> view[v].step = "passed"

(* "Everything raised BY pc.within_limit() itself ... is a real defect, not  *)
(* infrastructure, and must fail CLOSED (deny) so it can never silently      *)
(* grant access" (permissions.py): at the permission nothing passes on a     *)
(* check that raised before the timer went off.                              *)
ErrorsFailClosed ==
  [][\A v \in Views :
       Passing(v) /\ view[v].step = "waiting" /\ view[v].guard = "permission"
         => job[v] \notin {"raised", "timed out"}]_vars
=============================================================================
