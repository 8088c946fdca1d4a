----------------------------- MODULE GateHistory -----------------------------
(***************************************************************************)
(* The admission gate with history variables, and what it guarantees.      *)
(*                                                                         *)
(* The history variables are written only here and never read by a step:   *)
(*   ceiling[a]      highest quota a request for account a was let through *)
(*                   under (at first the rows it starts with), Unlimited   *)
(*                   once one was let through without counting             *)
(*   settled[w]      no reload, and no plan change of its entity, since    *)
(*                   the request of w started                              *)
(*   standing[w][r]  "full" or "room" while the request's account has been *)
(*                   at or over, or under, its quota ever since it started *)
(***************************************************************************)
EXTENDS AdmissionGate

VARIABLES ceiling, settled, standing

historyVars == <<ceiling, settled, standing>>
allVars     == <<registry, planOf, usage, req, ceiling, settled, standing>>

Standings == {"full", "room", "mixed"}

HistoryTypeOK ==
  /\ TypeOK
  /\ ceiling \in [Accounts -> Nat \cup {Unlimited}]
  /\ settled \in [Workers -> BOOLEAN]
  /\ standing \in [Workers -> [Resources -> Standings]]

RaiseTo(old, limit) ==
  IF old = Unlimited \/ limit = Unlimited THEN Unlimited
  ELSE IF limit > old THEN limit ELSE old

Busy(w) == req[w].step # "idle"

(* This step starts a request of w; lets its request through for r. *)
Starting(w)  == ~Busy(w) /\ Busy(w)'
Gained(w, r) == Busy(w) /\ Busy(w)' /\ r \in req'[w].granted \ req[w].granted

(* How an account of entity e stands against the quota in force: without a *)
(* plan at all there is no quota, hence neither room nor fullness.         *)
StandingOf(e, r) ==
  IF GetPlan(registry, planOf[e]) = None THEN "mixed"
  ELSE IF Quota(planOf[e], r) # Unlimited /\ usage[<<e, r>>] >= Quota(planOf[e], r)
       THEN "full" ELSE "room"

HistoryInit ==
  /\ Init
  /\ ceiling  = usage
  /\ settled  = [w \in Workers |-> TRUE]
  /\ standing = [w \in Workers |-> [r \in Resources |-> "mixed"]]

Record ==
  /\ ceiling' = [a \in Accounts |->
       IF \E w \in Workers : Gained(w, a[2]) /\ req[w].entity = a[1]
       THEN LET w == CHOOSE w \in Workers : Gained(w, a[2]) /\ req[w].entity = a[1]
            IN  RaiseTo(ceiling[a], req'[w].quota)
       ELSE ceiling[a]]
  /\ settled' = [w \in Workers |->
       \/ ~Busy(w) \/ ~Busy(w)'
       \/ /\ settled[w]
          /\ registry' = registry /\ planOf'[req[w].entity] = planOf[req[w].entity]]
  /\ standing' = [w \in Workers |-> [r \in Resources |->
       IF ~Busy(w)' THEN "mixed"
       ELSE LET now == StandingOf(req[w].entity, r)'
            IN  IF Starting(w) THEN now
                ELSE IF standing[w][r] = now THEN now ELSE "mixed"]]

HistoryNext == Next /\ Record
HistorySpec == HistoryInit /\ [][HistoryNext]_allVars

-----------------------------------------------------------------------------
(* Requests let through for account a that have not inserted their row yet. *)
Holders(a) == {w \in Workers : Busy(w) /\ req[w].entity = a[1] /\ a[2] \in req[w].granted}

(* The gate keeps the promise of Quota: an account is a quota account, a   *)
(* request let through and not done is a grant outstanding on it.          *)
Promise == INSTANCE Quota WITH
  Slots   <- Cardinality(Workers),
  Limits  <- Quotas,
  rows    <- usage,
  grants  <- [a \in Accounts |-> Cardinality(Holders(a))]

ImplementsQuota == Promise!Spec

(* Concurrent creates can pass the limit, since the count is taken before  *)
(* the insert: by fewer rows than there are requests in progress, counting *)
(* the rows still to come, and by none when requests come one at a time.   *)
OvershootBounded ==
  \A a \in Accounts :
    ceiling[a] # Unlimited =>
      usage[a] + Cardinality(Holders(a)) < ceiling[a] + Cardinality(Workers)

(* While the catalog and the entity's plan stay put, a limit verdict is    *)
(* true of some moment of the request: never "allowed" for an account that *)
(* was full from the first check on, never "refused" for one that always   *)
(* had room.                                                               *)
Refusing(w, r) ==
  /\ req[w].step = "counting" /\ Current(w).key = r
  /\ req'[w] = Idle("refused")

VerdictMatchesStanding ==
  [][\A w \in Workers, r \in Resources : settled[w] =>
       /\ Gained(w, r)   => standing[w][r] # "full"
       /\ Refusing(w, r) => standing[w][r] # "room"]_allVars

(* A request reaches its handler only after each of its checks succeeded,  *)
(* however many awaits lie between the first check and the last: unless a  *)
(* reload or a plan change came in between, what its route demands is what *)
(* the catalog in force grants the entity at that moment.                  *)
SettledAdmission ==
  \A w \in Workers : Admitted(w) /\ settled[w] =>
    \A i \in DOMAIN req[w].route :
      LET check == req[w].route[i]  k == planOf[req[w].entity] IN
        /\ check.kind = "feature" => FeatureVerdict(registry, k, check.key) = "allowed"
        /\ check.kind = "limit"   => GetPlan(registry, k) # None /\ Quota(k, check.key) # 0

-----------------------------------------------------------------------------
(* "hard -- block at this count" (core/models.py): a row is inserted only  *)
(* while the account is below the highest quota it was judged by.          *)
HardBlocks ==
  \A a \in Accounts : ceiling[a] # Unlimited => usage[a] <= ceiling[a]

(* "is this entity under their resource limit?" (core/enforcer.py): yes is *)
(* never the answer when the account was full throughout the call.         *)
YesIsTrueOfSomeMoment ==
  [][\A w \in Workers, r \in Resources : Gained(w, r) => standing[w][r] # "full"]_allVars
=============================================================================
