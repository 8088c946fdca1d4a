----------------------------- MODULE QuotaProofs -----------------------------
(***************************************************************************)
(* The promise keeps its bound, for every number of accounts and slots and *)
(* every set of limits.                                                    *)
(***************************************************************************)
EXTENDS Quota, TLAPS

LEMMA RaiseToBounds ==
  ASSUME NEW old \in Nat \cup {Unlimited}, NEW limit \in Int
  PROVE  /\ RaiseTo(old, limit) \in Nat \cup {Unlimited}
         /\ RaiseTo(old, limit) # Unlimited =>
              old # Unlimited /\ limit # Unlimited
                /\ RaiseTo(old, limit) >= old /\ RaiseTo(old, limit) >= limit
  BY DEF RaiseTo, Unlimited

Inv == TypeOK /\ OvershootBounded

LEMMA InvInit ==
  ASSUME Parameters
  PROVE  Init => Inv
  BY DEF Parameters, Init, Inv, TypeOK, OvershootBounded

LEMMA InvNext ==
  ASSUME Parameters
  PROVE  Inv /\ [Next]_vars => Inv'
<1>. SUFFICES ASSUME Inv, [Next]_vars PROVE Inv'
  OBVIOUS
<1>. USE DEF Inv, TypeOK, OvershootBounded
<1>0. Slots \in Nat \ {0} /\ Limits \subseteq Int
  BY DEF Parameters
<1>1. ASSUME NEW a \in Accounts, NEW limit \in Limits, Grant(a, limit) PROVE Inv'
  <2>. DEFINE raised == RaiseTo(ceiling[a], limit)
  <2>1. limit \in Int
    BY <1>0
  <2>2. raised \in Nat \cup {Unlimited}
    BY <2>1, RaiseToBounds
  <2>3. ASSUME raised # Unlimited
        PROVE  rows[a] < raised /\ grants[a] + 1 <= Slots
    BY <1>1, <2>1, <2>2, <2>3, RaiseToBounds, <1>0 DEF Grant, Room, Unlimited
  <2>. HIDE DEF raised
  <2>4. /\ ceiling' = [ceiling EXCEPT ![a] = raised]
        /\ grants'  = [grants EXCEPT ![a] = @ + 1]
        /\ rows'    = rows
    BY <1>1 DEF Grant, raised
  <2>5. TypeOK'
    BY <2>2, <2>4
  <2>6. raised # Unlimited => rows[a] + (grants[a] + 1) < raised + Slots
    BY <2>2, <2>3, <1>0 DEF Unlimited
  <2>. QED BY <2>4, <2>5, <2>6
<1>2. ASSUME NEW a \in Accounts, Use(a) PROVE Inv'
  BY <1>2, <1>0 DEF Use, Unlimited
<1>3. ASSUME NEW a \in Accounts, Free(a) PROVE Inv'
  BY <1>3, <1>0 DEF Free, Unlimited
<1>4. ASSUME NEW S \in SUBSET Accounts, Drop(S) PROVE Inv'
  BY <1>4, <1>0 DEF Drop, Unlimited
<1>5. CASE UNCHANGED vars
  BY <1>5 DEF vars
<1>. QED BY <1>1, <1>2, <1>3, <1>4, <1>5 DEF Next

(* Rows and outstanding grants are counts; a ceiling is a count, or           *)
(* Unlimited from the first grant that was given without counting on.        *)
THEOREM QuotaTypeCorrect ==
  ASSUME Parameters
  PROVE  Spec => []TypeOK
<1>1. Inv => TypeOK
  BY DEF Inv
<1>. QED BY InvInit, InvNext, <1>1, PTL DEF Spec

(* The check-then-create rows of an account stay below its ceiling plus the  *)
(* number of requests that can be in flight, grants outstanding included.    *)
THEOREM QuotaOvershootBounded ==
  ASSUME Parameters
  PROVE  Spec => []OvershootBounded
<1>1. Inv => OvershootBounded
  BY DEF Inv
<1>. QED BY InvInit, InvNext, <1>1, PTL DEF Spec
=============================================================================
