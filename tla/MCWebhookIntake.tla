--------------------------- MODULE MCWebhookIntake ---------------------------
(* Instances of webhook intake for TLC. *)
EXTENDS WebhookIntake

CONSTANT Wrong         \* a MAC that no key produced

(* A changed body, and a good header behind a part that cannot be compared. *)
BadHeaders == {<<Wrong>>, <<Garbled, OldKey, NewKey>>}
Clocks     == {-1, 0}

Host(bare, rollback, audits) == [bare |-> bare, rollback |-> rollback, audits |-> audits]
(* The documented intake; the same without a rollback, which is the default. *)
(* One that tells duplicates apart and audits them, with and without.        *)
AllHosts    == {Host(TRUE, TRUE, FALSE), Host(TRUE, FALSE, FALSE), Host(FALSE, TRUE, TRUE), Host(FALSE, FALSE, TRUE)}
CarefulHost == {Host(FALSE, TRUE, TRUE)}
=============================================================================
