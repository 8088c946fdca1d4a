-------------------------------- MODULE Quota --------------------------------
(***************************************************************************)
(* What check-then-create enforcement of a quota promises: the rows of an  *)
(* account may pass its quota, by no more than the requests that were let  *)
(* through and have not inserted yet.                                      *)
(*                                                                         *)
(* A request is granted the right to add one row while the account is      *)
(* below some limit; it uses or drops the grant later, whatever the        *)
(* account has become.  `ceiling' is the highest limit a grant was judged  *)
(* by, Unlimited once a grant was given without counting.                  *)
(***************************************************************************)
EXTENDS Integers

CONSTANTS
  Accounts,      \* what is counted separately
  Slots,         \* grants one account can have outstanding at a time
  Limits,        \* quotas a grant may be judged by
  InitRows,      \* bound on the rows an account starts with
  MaxRows        \* bound on rows, for model checking

Unlimited == -1

(* What an instance must provide. *)
Parameters == /\ Slots \in Nat \ {0}
              /\ Limits \subseteq Int
              /\ InitRows \in Nat /\ MaxRows \in Nat

VARIABLES
  rows,          \* rows the account holds
  grants,        \* grants given and neither used nor dropped
  ceiling        \* highest limit a grant was judged by

vars == <<rows, grants, ceiling>>

TypeOK ==
  /\ rows    \in [Accounts -> Nat]
  /\ grants  \in [Accounts -> Nat]
  /\ ceiling \in [Accounts -> Nat \cup {Unlimited}]

RaiseTo(old, limit) ==
  IF old = Unlimited \/ limit = Unlimited THEN Unlimited
  ELSE IF limit > old THEN limit ELSE old

Init ==
  /\ rows \in [Accounts -> 0 .. InitRows]
  /\ grants = [a \in Accounts |-> 0]
  /\ ceiling = rows

Room(a, limit) == limit = Unlimited \/ rows[a] < limit

Grant(a, limit) ==
  /\ Room(a, limit)
  /\ grants[a] < Slots
  /\ grants'  = [grants EXCEPT ![a] = @ + 1]
  /\ ceiling' = [ceiling EXCEPT ![a] = RaiseTo(@, limit)]
  /\ UNCHANGED rows

Use(a) ==
  /\ grants[a] > 0
  /\ rows[a] < MaxRows
  /\ rows'   = [rows EXCEPT ![a] = @ + 1]
  /\ grants' = [grants EXCEPT ![a] = @ - 1]
  /\ UNCHANGED ceiling

(* One request gives up at once every grant it still holds. *)
Drop(S) ==
  /\ \A a \in S : grants[a] > 0
  /\ grants' = [a \in Accounts |-> IF a \in S THEN grants[a] - 1 ELSE grants[a]]
  /\ UNCHANGED <<rows, ceiling>>

Free(a) ==
  /\ rows[a] > 0
  /\ rows' = [rows EXCEPT ![a] = @ - 1]
  /\ UNCHANGED <<grants, ceiling>>

Next ==
  \/ \E a \in Accounts, limit \in Limits : Grant(a, limit)
  \/ \E a \in Accounts : Use(a) \/ Free(a)
  \/ \E S \in SUBSET Accounts : S # {} /\ Drop(S)

Spec == Init /\ [][Next]_vars

-----------------------------------------------------------------------------
(* The rows of an account, with the grants outstanding on it, exceed the     *)
(* highest quota a grant was judged by, by fewer than Slots: concurrency is  *)
(* the whole of the overshoot, and a single slot has none.                   *)
OvershootBounded ==
  \A a \in Accounts :
    ceiling[a] # Unlimited => rows[a] + grants[a] < ceiling[a] + Slots
=============================================================================
