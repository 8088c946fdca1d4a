--------------------------- MODULE MCDjangoBridge ---------------------------
(* Instances of the Django bridge for TLC. *)
EXTENDS DjangoBridge

SomeQuotas == {NoQuota, Unlimited, 0, 1, 2}
=============================================================================
