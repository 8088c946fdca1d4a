---------------------------- MODULE WebhookIntake ----------------------------
(***************************************************************************)
(* Webhook intake as webhooks/__init__.py lays it out: verify the          *)
(* signature (signatures.py), claim the delivery by inserting its id under *)
(* a UNIQUE constraint (record_once in idempotency.py), process it, answer *)
(* 2xx.                                                                    *)
(*                                                                         *)
(* The sender retries until it hears a 2xx.  The network holds, for each   *)
(* delivery, the copy sent last: it can be delivered any number of times,  *)
(* delayed, altered, or lost when the next copy replaces it.  Workers      *)
(* handle copies concurrently and share nothing but the table; any of them *)
(* can crash, and every statement can fail.  Meanwhile the signing key is  *)
(* rotated.                                                                *)
(*                                                                         *)
(* A signature header is the sequence of its v1 parts; a part is the key   *)
(* whose MAC of this content it is, or something that no key produced.     *)
(*                                                                         *)
(* Hosts differ in what they pass to record_once and in what they do with  *)
(* a duplicate:                                                            *)
(*   bare      duplicate_exc is raised for other constraints too, as the   *)
(*             documented IntegrityError is, and is not inspected          *)
(*   rollback  a rollback is passed; it defaults to None                   *)
(*   audits    the handler makes a statement of the session before it      *)
(*             answers a duplicate; the documented one returns at once     *)
(***************************************************************************)
EXTENDS Integers, FiniteSets

CONSTANTS
  Deliveries,      \* delivery ids
  Workers,         \* requests that are handled at the same time
  OldKey, NewKey,  \* signing secrets, before and after the rotation
  Unset,           \* no secret has been configured
  Garbled,         \* a part that is not ASCII
  ForeignHeaders,  \* headers of altered and forged copies
  Tolerance,       \* the replay window, to both sides
  Skews,           \* drift a copy can have when it is sent
  MaxDrift,        \* bound on the drift a copy can reach in transit
  Hosts,           \* the hosts there may be
  None             \* no copy, no row

Keys == {OldKey, NewKey}

(* Where a copy comes from: as the sender sent it, or altered or made up. *)
Origins == {"sender", "elsewhere"}

ASSUME NamesAssumption ==
  /\ OldKey # NewKey /\ Unset \notin Keys /\ Garbled \notin Keys
  /\ None \notin Origins
ASSUME WindowAssumption ==
  Tolerance \in Nat /\ Skews \subseteq Int /\ MaxDrift \in Int
ASSUME HostsAssumption == Hosts \subseteq [bare : BOOLEAN, rollback : BOOLEAN, audits : BOOLEAN]
ASSUME ForeignAssumption ==       \* no key has signed what is found before a garbled part
  \A parts \in ForeignHeaders : \A i \in DOMAIN parts :
    parts[i] \in Keys => \E j \in 1 .. i - 1 : parts[j] = Garbled

VARIABLES
  host,            \* the host, which stays the same
  signing,         \* keys the sender signs with
  secret,          \* the secret the host verifies with
  air,             \* per delivery, the copy in the network
  work,            \* per worker, the request it handles and how far it is
  table,           \* per id, where the copy came from that its row holds, or None
  heard,           \* deliveries the sender has had a 2xx for
  sent,            \* history: deliveries sent at least once
  applied,         \* history: how often each event was processed
  lost,            \* history: claimed by a request that ended before it processed
  mistaken         \* history: taken for a duplicate while there was no row

keys    == <<host, signing, secret>>
history == <<sent, applied, lost, mistaken>>
vars    == <<keys, air, work, table, heard, history>>

(* "failed": every later statement of the session raises. *)
Sessions == {"clean", "failed"}
Idle == [step |-> "idle"]

OriginOf(copy) == IF copy.parts \in ForeignHeaders THEN "elsewhere" ELSE "sender"
Handling(step, d, origin, session) ==
  [step |-> step, id |-> d, origin |-> origin, session |-> session]

Recorded == {d \in Deliveries : table[d] # None}

(* A genuine header has one part per signing key, in any order. *)
Headers(signers) ==
  {parts \in [1 .. Cardinality(signers) -> signers] : \A key \in signers : \E i \in DOMAIN parts : parts[i] = key}

Copies == [parts : (UNION {Headers(s) : s \in (SUBSET Keys) \ {{}}}) \cup ForeignHeaders, drift : Int]

TypeOK ==
  /\ host \in Hosts
  /\ signing \in (SUBSET Keys) \ {{}} /\ secret \in Keys \cup {Unset}
  /\ air \in [Deliveries -> Copies \cup {None}]
  /\ work \in [Workers -> [step : {"verified", "claimed", "applied", "duplicate"},
                           id : Deliveries, origin : Origins, session : Sessions] \cup {Idle}]
  /\ table \in [Deliveries -> Origins \cup {None}]
  /\ heard \subseteq Deliveries /\ sent \subseteq Deliveries
  /\ applied \in [Deliveries -> Nat] /\ lost \subseteq Deliveries /\ mistaken \subseteq Deliveries
  /\ \A w \in Workers :
       /\ work[w].step \in {"claimed", "applied"} => work[w].id \in Recorded
       /\ work[w].step = "duplicate" => work[w].id \in Recorded \cup mistaken

-----------------------------------------------------------------------------
Init ==
  /\ host \in Hosts
  /\ signing = {OldKey} /\ secret \in {OldKey, Unset}
  /\ air = [d \in Deliveries |-> None]
  /\ work = [w \in Workers |-> Idle]
  /\ table = [d \in Deliveries |-> None]
  /\ heard = {} /\ sent = {} /\ lost = {} /\ mistaken = {}
  /\ applied = [d \in Deliveries |-> 0]

(* The sender signs a copy with every key it has, in any order, whenever it  *)
(* has not heard a 2xx; a retry carries a timestamp of its own.              *)
Send(d, drift) ==
  /\ d \notin heard
  /\ \E parts \in Headers(signing) : air' = [air EXCEPT ![d] = [parts |-> parts, drift |-> drift]]
  /\ sent' = sent \cup {d}
  /\ UNCHANGED <<keys, work, table, heard, applied, lost, mistaken>>

Delay(d) ==
  /\ air[d] # None /\ air[d].drift < MaxDrift
  /\ air' = [air EXCEPT ![d].drift = @ + 1]
  /\ UNCHANGED <<keys, work, table, heard, history>>

Alter(d) ==
  /\ \E parts \in ForeignHeaders : air' = [air EXCEPT ![d] = [parts |-> parts, drift |-> 0]]
  /\ UNCHANGED <<keys, work, table, heard, history>>

(* The sender adds the new key, the host switches to it, the sender drops    *)
(* the old one.                                                              *)
AddKey    == signing = {OldKey} /\ signing' = Keys /\ UNCHANGED secret
SetSecret == secret # NewKey /\ secret' \in signing \ {secret} /\ UNCHANGED signing
DropKey   == secret = NewKey /\ signing' = {NewKey} /\ UNCHANGED secret
Rotate    == (AddKey \/ SetSecret \/ DropKey) /\ UNCHANGED <<host, air, work, table, heard, history>>

-----------------------------------------------------------------------------
(* verify_standard_webhook: the secret is set, the timestamp is within the   *)
(* window on either side, and some v1 part matches.  A part that cannot be   *)
(* compared ends the search.                                                 *)
Fresh(copy) == -Tolerance <= copy.drift /\ copy.drift <= Tolerance
FirstPartMatches(parts) == parts[1] = secret        \* the slip of not searching
SomePartMatches(parts) ==
  \E i \in DOMAIN parts : parts[i] = secret /\ \A j \in 1 .. i - 1 : parts[j] # Garbled
(* A slip: an unset secret means no verification. *)
AuthenticOrUnset(copy) == Fresh(copy) /\ (secret = Unset \/ SomePartMatches(copy.parts))
Authentic(copy) == secret # Unset /\ Fresh(copy) /\ SomePartMatches(copy.parts)

(* A worker takes a copy, which the network may keep to deliver again. *)
Receive(w, d) ==
  /\ work[w] = Idle /\ air[d] # None
  /\ air' \in {air, [air EXCEPT ![d] = None]}
  /\ UNCHANGED <<keys, table, heard, history>>

Accept(w, d) ==
  /\ Receive(w, d)
  /\ Authentic(air[d])
  /\ work' = [work EXCEPT ![w] = Handling("verified", d, OriginOf(air[d]), "clean")]

Reject(w, d) == Receive(w, d) /\ ~Authentic(air[d]) /\ UNCHANGED work    \* 401

(* record_once, with the row that the host inserts and commits.  A copy is a *)
(* duplicate when its id is there already; the session is rolled back if the *)
(* host said how, and else left in a failed transaction.                     *)
AlwaysFailed   == "failed"                            \* the slip of not rolling back
AfterDuplicate == IF host.rollback THEN "clean" ELSE "failed"

Duplicate(w) ==
  work' = [work EXCEPT ![w] = Handling("duplicate", work[w].id, work[w].origin, AfterDuplicate)]

Insert(w) == table' = [table EXCEPT ![work[w].id] = work[w].origin]

(* Slips: going on to `return True' after the rollback; returning True from  *)
(* an insert that is not committed.                                          *)
RecordAgain(w) ==
  /\ work[w].step = "verified"
  /\ work' = [work EXCEPT ![w].step = "claimed"]
  /\ Insert(w)
  /\ UNCHANGED <<keys, air, heard, history>>

RecordUncommitted(w) ==
  /\ work[w].step = "verified"
  /\ IF work[w].id \in Recorded THEN Duplicate(w) ELSE work' = [work EXCEPT ![w].step = "claimed"]
  /\ UNCHANGED <<keys, air, table, heard, history>>

Record(w) ==
  /\ work[w].step = "verified"
  /\ IF work[w].id \in Recorded
     THEN Duplicate(w) /\ UNCHANGED table
     ELSE work' = [work EXCEPT ![w].step = "claimed"] /\ Insert(w)
  /\ UNCHANGED <<keys, air, heard, history>>

(* Some other constraint fails.  To a host that is bare this is a duplicate   *)
(* as well, although there is no row of the delivery.                        *)
(* Slip: every exception is a duplicate.                                     *)
MistakeAny(w) ==
  /\ work[w].step = "verified" /\ work[w].id \notin Recorded
  /\ Duplicate(w)
  /\ mistaken' = mistaken \cup {work[w].id}
  /\ UNCHANGED <<keys, air, table, heard, sent, applied, lost>>

Mistake(w) ==
  /\ work[w].step = "verified" /\ work[w].id \notin Recorded /\ host.bare
  /\ Duplicate(w)
  /\ mistaken' = mistaken \cup {work[w].id}
  /\ UNCHANGED <<keys, air, table, heard, sent, applied, lost>>

(* The statement fails with an error outside duplicate_exc: a 500, and the    *)
(* database may still have committed.                                        *)
RecordFails(w) ==
  /\ work[w].step = "verified"
  /\ work' = [work EXCEPT ![w] = Idle]
  /\ \/ UNCHANGED <<table, lost>>
     \/ work[w].id \notin Recorded /\ Insert(w) /\ lost' = lost \cup {work[w].id}
  /\ UNCHANGED <<keys, air, heard, sent, applied, mistaken>>

Process(w) ==
  /\ work[w].step = "claimed"
  /\ work' = [work EXCEPT ![w].step = "applied"]
  /\ applied' = [applied EXCEPT ![work[w].id] = @ + 1]
  /\ UNCHANGED <<keys, air, table, heard, sent, lost, mistaken>>

(* The request ends with a 2xx that the sender hears, or without one: the    *)
(* statement of a host that audits raises in a failed session, processing    *)
(* raises, the process dies, or the sender has stopped waiting.              *)
Answer(w) ==
  /\ work[w].step \in {"applied", "duplicate"}
  /\ work[w].session = "failed" => ~host.audits
  /\ work' = [work EXCEPT ![w] = Idle]
  /\ heard' = heard \cup {work[w].id}
  /\ UNCHANGED <<keys, air, table, history>>

Break(w) ==
  /\ work[w] # Idle
  /\ work' = [work EXCEPT ![w] = Idle]
  /\ lost' = IF work[w].step = "claimed" THEN lost \cup {work[w].id} ELSE lost
  /\ UNCHANGED <<keys, air, table, heard, sent, applied, mistaken>>

Intake(w) == Record(w) \/ Mistake(w) \/ RecordFails(w) \/ Process(w) \/ Answer(w) \/ Break(w)

Next ==
  \/ \E d \in Deliveries : Delay(d) \/ Alter(d) \/ \E drift \in Skews : Send(d, drift)
  \/ \E w \in Workers, d \in Deliveries : Accept(w, d) \/ Reject(w, d)
  \/ \E w \in Workers : Intake(w)
  \/ Rotate

SafetySpec == Init /\ [][Next]_vars

(* A secret is configured.  The sender goes on sending, now and then while a  *)
(* worker is free and with a timestamp the host agrees with; not every such   *)
(* copy is spoilt, not every statement fails and not every 2xx is lost.       *)
SendInTime(d) ==
  /\ \E w \in Workers : work[w] = Idle
  /\ \E drift \in Skews : -Tolerance <= drift /\ drift <= Tolerance /\ Send(d, drift)

Persistence ==
  /\ WF_vars(secret = Unset /\ Rotate /\ secret' # Unset)
  /\ \A d \in Deliveries : SF_vars(SendInTime(d)) /\ SF_vars(\E w \in Workers : Accept(w, d))
  /\ \A w \in Workers : WF_vars(Intake(w)) /\ SF_vars(Record(w)) /\ SF_vars(Answer(w))

Spec == SafetySpec /\ Persistence

-----------------------------------------------------------------------------
(* Intake keeps the promise of DeliveryLog: through retries, concurrent      *)
(* copies, failing statements and crashes no event is applied twice, and a   *)
(* 2xx is never given before the delivery's row is committed, by its owner   *)
(* or by a worker that only saw a duplicate -- or, where the host is bare,   *)
(* by one that took another failure for a duplicate.                         *)
Status(d) ==
  IF d \notin Recorded THEN IF d \in mistaken THEN "mistaken" ELSE "new"
  ELSE CASE applied[d] = 0 -> IF d \in lost THEN "abandoned" ELSE "claimed"
         [] applied[d] = 1 -> "applied"
         [] OTHER          -> "applied again"

Log == INSTANCE DeliveryLog WITH
  strict <- ~host.bare,
  status <- [d \in Deliveries |-> Status(d)],
  told   <- heard

ImplementsDeliveryLog == Log!Spec

(* No copy that was altered or made up gets past the signature, let alone    *)
(* claims a delivery: what a request handles, and what a row holds, is of a  *)
(* copy as its sender sent it, whether the delivery was sent by then or not  *)
(* and whatever the state of the configuration.  A row of any other copy     *)
(* would make a duplicate of the genuine one and drop its event.             *)
OnlyGenuineIsHandled ==
  /\ \A w \in Workers : work[w] # Idle => work[w].origin = "sender" /\ work[w].id \in sent
  /\ \A d \in Recorded : table[d] = "sender" /\ d \in sent

(* Whatever the network loses, delays, alters or repeats, and while keys are *)
(* rotated, the sender hears a 2xx of every delivery, and its event has been *)
(* applied by then or will be, unless the one request that claimed it ended  *)
(* early, or another failure was taken for its duplicate.  A host that       *)
(* audits duplicates needs the rollback for this, any other does not.        *)
EveryDeliverySettles ==
  \A d \in Deliveries :
    d \in sent /\ (host.audits => host.rollback)
      ~> d \in heard /\ (applied[d] = 1 \/ d \in lost \/ d \in mistaken)

(* What the three rest on: a claim has one owner, who has not processed the  *)
(* event yet; rows are never taken back; mistakes are made by bare hosts;    *)
(* what is in the air was sent, unless it came from elsewhere.               *)
SingleOwner ==
  \A w \in Workers : work[w].step = "claimed" =>
    /\ applied[work[w].id] = 0 /\ work[w].id \notin lost
    /\ \A v \in Workers : work[v].step = "claimed" /\ work[v].id = work[w].id => v = w

RowsStay ==
  /\ heard \subseteq Recorded \cup mistaken /\ lost \subseteq Recorded
  /\ \A d \in Deliveries : applied[d] # 0 => d \in Recorded /\ d \notin lost /\ applied[d] = 1

BareMistakes == mistaken # {} => host.bare

AirWasSent == \A d \in Deliveries : air[d] # None => d \in sent \/ air[d].parts \in ForeignHeaders

IntakeInv == TypeOK /\ SingleOwner /\ RowsStay /\ BareMistakes /\ AirWasSent /\ OnlyGenuineIsHandled

-----------------------------------------------------------------------------
(* "handling each authentic delivery exactly once" (webhooks/__init__.py):   *)
(* the event of every delivery that was sent is applied.                     *)
EveryDeliveryApplied == \A d \in Deliveries : d \in sent ~> applied[d] = 1
=============================================================================
