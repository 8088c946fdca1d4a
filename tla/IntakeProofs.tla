---------------------------- MODULE IntakeProofs ----------------------------
(***************************************************************************)
(* Webhook intake keeps the promise of DeliveryLog, for every number of    *)
(* deliveries and workers, every window, any foreign headers, and whatever *)
(* hosts there are.                                                        *)
(***************************************************************************)
EXTENDS WebhookIntake, TLAPS

USE NamesAssumption, WindowAssumption, HostsAssumption

(* A copy that no key signed is not accepted under any configuration. *)
LEMMA ForeignIsNotAuthentic ==
  ASSUME NEW copy, copy.parts \in ForeignHeaders, secret \in Keys \cup {Unset}
  PROVE  ~Authentic(copy)
  BY ForeignAssumption DEF Authentic, SomePartMatches

LEMMA InitInv == Init => IntakeInv
  BY DEF Init, IntakeInv, TypeOK, SingleOwner, RowsStay, BareMistakes, AirWasSent, OnlyGenuineIsHandled,
         Idle, Keys, Recorded

Unhandled == UNCHANGED <<host, work, table, heard, applied, lost, mistaken>>

(* The network, the sender and the rotation touch no worker and no row. *)
LEMMA OutsideStep ==
  ASSUME IntakeInv,
         \/ \E d \in Deliveries : Delay(d) \/ Alter(d) \/ \E drift \in Skews : Send(d, drift)
         \/ Rotate
  PROVE  IntakeInv' /\ Unhandled
<1>. USE DEF IntakeInv, TypeOK, SingleOwner, RowsStay, BareMistakes, AirWasSent, OnlyGenuineIsHandled,
             Recorded, Unhandled
<1>1. ASSUME NEW d \in Deliveries, NEW drift \in Skews, Send(d, drift)
      PROVE  IntakeInv' /\ Unhandled
  <2>1. PICK parts \in Headers(signing) : air' = [air EXCEPT ![d] = [parts |-> parts, drift |-> drift]]
    BY <1>1 DEF Send
  <2>2. [parts |-> parts, drift |-> drift] \in Copies
    BY <2>1 DEF Copies
  <2>. QED BY <1>1, <2>1, <2>2 DEF Send, keys
<1>2. ASSUME NEW d \in Deliveries, Delay(d) PROVE IntakeInv' /\ Unhandled
  <2>1. air[d] \in Copies
    BY <1>2 DEF Delay
  <2>2. [air[d] EXCEPT !.drift = @ + 1] \in Copies
    BY <2>1 DEF Copies
  <2>. QED BY <1>2, <2>1, <2>2 DEF Delay, keys, history
<1>3. ASSUME NEW d \in Deliveries, Alter(d) PROVE IntakeInv' /\ Unhandled
  <2>1. PICK parts \in ForeignHeaders : air' = [air EXCEPT ![d] = [parts |-> parts, drift |-> 0]]
    BY <1>3 DEF Alter
  <2>2. [parts |-> parts, drift |-> 0] \in Copies
    BY DEF Copies
  <2>. QED BY <1>3, <2>1, <2>2 DEF Alter, keys, history
<1>4. ASSUME Rotate PROVE IntakeInv' /\ Unhandled
  BY <1>4 DEF Rotate, AddKey, SetSecret, DropKey, Keys, history
<1>. QED BY <1>1, <1>2, <1>3, <1>4

(* A copy that is taken was sent, or it is turned away. *)
LEMMA ReceiveStep ==
  ASSUME IntakeInv, NEW w \in Workers, NEW d \in Deliveries, Accept(w, d) \/ Reject(w, d)
  PROVE  IntakeInv' /\ UNCHANGED <<host, table, heard, applied, lost, mistaken>>
<1>. USE DEF IntakeInv, TypeOK, SingleOwner, RowsStay, BareMistakes, AirWasSent, OnlyGenuineIsHandled,
             Recorded, Receive, keys, history
<1>1. CASE Accept(w, d)
  <2>1. d \in sent /\ air[d].parts \notin ForeignHeaders
    BY <1>1, ForeignIsNotAuthentic DEF Accept
  <2>2. work' = [work EXCEPT ![w] = Handling("verified", d, "sender", "clean")]
    BY <1>1, <2>1 DEF Accept, OriginOf
  <2>. QED BY <1>1, <2>1, <2>2 DEF Accept, Handling, Sessions, Idle, Origins
<1>2. CASE Reject(w, d)
  BY <1>2 DEF Reject
<1>. QED BY <1>1, <1>2

-----------------------------------------------------------------------------
(* The log sees a step that moves one delivery and leaves the others alone. *)
Entry == [d \in Deliveries |-> Status(d)]

LEMMA EntryMoves ==
  ASSUME NEW d \in Deliveries, NEW from, Status(d) \in from,
         UNCHANGED <<host, heard>>,
         \A e \in Deliveries \ {d} : Status(e)' = Status(e)
  PROVE  Log!Move(d, from, Status(d)')
<1>1. Entry' = [Entry EXCEPT ![d] = Status(d)']
  BY DEF Entry
<1>. QED BY <1>1 DEF Log!Move, Entry

LEMMA SameStatus ==
  ASSUME NEW d \in Deliveries, applied'[d] = applied[d],
         d \in Recorded' <=> d \in Recorded, d \in lost' <=> d \in lost,
         d \in mistaken' <=> d \in mistaken
  PROVE  Status(d)' = Status(d)
<1>1. CASE d \notin Recorded
  BY <1>1 DEF Status
<1>2. CASE d \in Recorded
  <2>1. CASE applied[d] = 0
    BY <1>2, <2>1 DEF Status
  <2>2. CASE applied[d] = 1
    BY <1>2, <2>2 DEF Status
  <2>3. CASE applied[d] \notin {0, 1}
    BY <1>2, <2>3 DEF Status
  <2>. QED BY <2>1, <2>2, <2>3
<1>. QED BY <1>1, <1>2

LEMMA LogUnmoved ==
  ASSUME UNCHANGED <<host, table, heard, applied, lost, mistaken>>
  PROVE  UNCHANGED Log!vars
<1>1. \A d \in Deliveries : Status(d)' = Status(d)
  BY DEF Status, Recorded
<1>. QED BY <1>1 DEF Log!vars

(* A row is inserted for a copy of its sender's. *)
LEMMA InsertRecords ==
  ASSUME IntakeInv, NEW w \in Workers, work[w] # Idle, Insert(w)
  PROVE  /\ Recorded' = Recorded \cup {work[w].id}
         /\ table' \in [Deliveries -> Origins \cup {None}]
         /\ (\A d \in Recorded : table[d] = "sender")'
<1>1. work[w].id \in Deliveries /\ work[w].origin = "sender"
  BY DEF IntakeInv, TypeOK, OnlyGenuineIsHandled
<1>. QED BY <1>1 DEF Insert, IntakeInv, TypeOK, OnlyGenuineIsHandled, Recorded, Origins

(* A worker answers a duplicate of a delivery on record, or of one mistaken.  *)
LEMMA DuplicateStep ==
  ASSUME IntakeInv, NEW w \in Workers, work[w].step = "verified", Duplicate(w),
         mistaken' \in {mistaken, mistaken \cup {work[w].id}},
         mistaken' # {} => host.bare,
         work[w].id \in Recorded \cup mistaken',
         UNCHANGED <<keys, air, table, heard, sent, applied, lost>>
  PROVE  IntakeInv'
<1>. USE DEF IntakeInv, TypeOK, SingleOwner, RowsStay, BareMistakes, AirWasSent, OnlyGenuineIsHandled
<1>0. /\ work[w] # Idle /\ Recorded' = Recorded
      /\ UNCHANGED <<host, signing, secret, air, table, heard, sent, applied, lost>>
  BY DEF Idle, keys, Recorded
<1>. PICK d \in Deliveries : d = work[w].id
  BY <1>0
<1>. DEFINE ended == Handling("duplicate", d, work[w].origin, AfterDuplicate)
<1>a. AfterDuplicate \in Sessions
  <2>1. AfterDuplicate = "clean" \/ AfterDuplicate = "failed"
    BY Zenon DEF AfterDuplicate
  <2>. QED BY <2>1 DEF Sessions
<1>1. /\ ended \in [step : {"verified", "claimed", "applied", "duplicate"},
                    id : Deliveries, origin : Origins, session : Sessions]
      /\ ended.step = "duplicate" /\ ended.id = d /\ ended.origin = work[w].origin
  <2>1. work[w].origin \in Origins
    BY <1>0
  <2>. QED BY <1>a, <2>1 DEF Handling
<1>2. work' = [work EXCEPT ![w] = ended]
  BY DEF Duplicate
<1>. HIDE DEF ended
<1>3. TypeOK'
  BY <1>0, <1>1, <1>2
<1>4. SingleOwner'
  BY <1>0, <1>1, <1>2
<1>5. (RowsStay /\ BareMistakes /\ AirWasSent)'
  BY <1>0
<1>6. OnlyGenuineIsHandled'
  BY <1>0, <1>1, <1>2
<1>. QED BY <1>3, <1>4, <1>5, <1>6

(* One step of one worker. *)
LEMMA RecordStep ==
  ASSUME IntakeInv, NEW w \in Workers, Record(w)
  PROVE  IntakeInv' /\ [Log!Next]_(Log!vars)
<1>. USE DEF IntakeInv, TypeOK, SingleOwner, RowsStay, BareMistakes, AirWasSent, OnlyGenuineIsHandled
<1>. PICK d \in Deliveries : d = work[w].id
  BY DEF Record, Idle
<1>0. /\ work[w] # Idle /\ work[w].step = "verified" /\ d \in sent
      /\ UNCHANGED <<keys, air, heard, sent, applied, lost, mistaken>>
  BY DEF Record, Idle, history
<1>1. CASE d \in Recorded
  <2>1. Duplicate(w) /\ UNCHANGED table
    BY <1>1 DEF Record
  <2>2. IntakeInv'
    BY <1>0, <1>1, <2>1, DuplicateStep
  <2>. QED BY <1>0, <2>1, <2>2, LogUnmoved DEF keys
<1>2. CASE d \notin Recorded
  <2>0. /\ work' = [work EXCEPT ![w].step = "claimed"]
        /\ Recorded' = Recorded \cup {d}
        /\ table' \in [Deliveries -> Origins \cup {None}]
        /\ (\A e \in Recorded : table[e] = "sender")'
        /\ UNCHANGED <<host, signing, secret>>
    BY <1>0, <1>2, InsertRecords DEF Record, keys
  <2>2. applied[d] = 0 /\ d \notin lost
    BY <1>0, <1>2
  <2>3. TypeOK'
    BY <1>0, <2>0
  <2>4. SingleOwner'
    BY <1>0, <1>2, <2>0, <2>2
  <2>5. (RowsStay /\ BareMistakes /\ AirWasSent)'
    BY <1>0, <2>0, <2>2
  <2>6. OnlyGenuineIsHandled'
    BY <1>0, <2>0
  <2>7. Status(d) \in {"new", "mistaken"} /\ Status(d)' = "claimed"
    BY <1>0, <1>2, <2>0, <2>2 DEF Status
  <2>8. \A e \in Deliveries \ {d} : Status(e)' = Status(e)
    BY <1>0, <2>0, SameStatus
  <2>9. Log!Claim(d)
    BY <1>0, <2>0, <2>7, <2>8, EntryMoves DEF Log!Claim
  <2>. QED BY <1>0, <2>3, <2>4, <2>5, <2>6, <2>9 DEF Log!Next
<1>. QED BY <1>1, <1>2

LEMMA MistakeStep ==
  ASSUME IntakeInv, NEW w \in Workers, Mistake(w)
  PROVE  IntakeInv' /\ [Log!Next]_(Log!vars)
<1>. PICK d \in Deliveries : d = work[w].id
  BY DEF Mistake, Idle, IntakeInv, TypeOK
<1>0. /\ d \notin Recorded /\ host.bare /\ Recorded' = Recorded /\ mistaken' = mistaken \cup {d}
      /\ UNCHANGED <<host, heard, applied, lost>>
  BY DEF Mistake, Recorded, keys
<1>1. IntakeInv'
  BY <1>0, DuplicateStep DEF Mistake
<1>2. CASE d \in mistaken
  <2>1. UNCHANGED <<host, table, heard, applied, lost, mistaken>>
    BY <1>0, <1>2 DEF Mistake
  <2>. QED BY <1>1, <2>1, LogUnmoved
<1>3. CASE d \notin mistaken
  <2>1. Status(d) \in {"new"} /\ Status(d)' = "mistaken"
    BY <1>0, <1>3 DEF Status
  <2>2. \A e \in Deliveries \ {d} : Status(e)' = Status(e)
    BY <1>0, SameStatus
  <2>3. Log!Move(d, {"new"}, "mistaken")
    BY <1>0, <2>1, <2>2, EntryMoves
  <2>4. Log!Mistake(d)
    BY <1>0, <2>3 DEF Log!Mistake
  <2>. QED BY <1>1, <2>4 DEF Log!Next
<1>. QED BY <1>2, <1>3

LEMMA RecordFailsStep ==
  ASSUME IntakeInv, NEW w \in Workers, RecordFails(w)
  PROVE  IntakeInv' /\ [Log!Next]_(Log!vars)
<1>. USE DEF IntakeInv, TypeOK, SingleOwner, RowsStay, BareMistakes, AirWasSent, OnlyGenuineIsHandled
<1>. PICK d \in Deliveries : d = work[w].id
  BY DEF RecordFails, Idle
<1>0. /\ work[w].step = "verified" /\ work[w] # Idle /\ d \in sent
      /\ work' = [work EXCEPT ![w] = Idle]
      /\ UNCHANGED <<host, signing, secret, air, heard, sent, applied, mistaken>>
  BY DEF RecordFails, Idle, keys
<1>1. CASE UNCHANGED <<table, lost>>
  <2>1. Recorded' = Recorded
    BY <1>1 DEF Recorded
  <2>2. IntakeInv'
    BY <1>0, <1>1, <2>1 DEF Idle
  <2>. QED BY <1>0, <1>1, <2>2, LogUnmoved
<1>2. CASE d \notin Recorded /\ Insert(w) /\ lost' = lost \cup {d}
  <2>0. /\ Recorded' = Recorded \cup {d}
        /\ table' \in [Deliveries -> Origins \cup {None}]
        /\ (\A e \in Recorded : table[e] = "sender")'
    BY <1>0, <1>2, InsertRecords
  <2>1. applied[d] = 0 /\ \A v \in Workers : work[v].step = "claimed" => work[v].id # d
    BY <1>0, <1>2
  <2>2. (TypeOK /\ SingleOwner)'
    BY <1>0, <1>2, <2>0, <2>1 DEF Idle
  <2>3. (RowsStay /\ BareMistakes /\ AirWasSent)'
    BY <1>0, <1>2, <2>0, <2>1
  <2>4. OnlyGenuineIsHandled'
    BY <1>0, <2>0 DEF Idle
  <2>5. Status(d) \in {"new", "mistaken", "claimed"} /\ Status(d)' = "abandoned"
    BY <1>0, <1>2, <2>0, <2>1 DEF Status
  <2>6. \A e \in Deliveries \ {d} : Status(e)' = Status(e)
    BY <1>0, <1>2, <2>0, SameStatus
  <2>7. Log!Abandon(d)
    BY <1>0, <2>5, <2>6, EntryMoves DEF Log!Abandon
  <2>. QED BY <1>0, <2>2, <2>3, <2>4, <2>7 DEF Log!Next
<1>. QED BY <1>1, <1>2 DEF RecordFails

LEMMA ProcessStep ==
  ASSUME IntakeInv, NEW w \in Workers, Process(w)
  PROVE  IntakeInv' /\ [Log!Next]_(Log!vars)
<1>. USE DEF IntakeInv, TypeOK, SingleOwner, RowsStay, BareMistakes, AirWasSent, OnlyGenuineIsHandled
<1>. PICK d \in Deliveries : d = work[w].id
  BY DEF Process, Idle
<1>a. work[w].step = "claimed" /\ work[w] # Idle /\ d \in Recorded /\ applied[d] = 0 /\ d \notin lost
  BY DEF Process, Idle
<1>0. /\ work' = [work EXCEPT ![w].step = "applied"]
      /\ applied' = [applied EXCEPT ![d] = 1]
      /\ Recorded' = Recorded
      /\ UNCHANGED <<host, signing, secret, air, table, heard, sent, lost, mistaken>>
  BY <1>a DEF Process, keys, Recorded
<1>1. TypeOK'
  BY <1>a, <1>0
<1>2. SingleOwner'
  BY <1>a, <1>0
<1>3. (RowsStay /\ BareMistakes /\ AirWasSent)'
  BY <1>a, <1>0
<1>4. OnlyGenuineIsHandled'
  BY <1>a, <1>0
<1>5. Status(d) \in {"claimed"} /\ Status(d)' = "applied"
  BY <1>a, <1>0 DEF Status
<1>6. \A e \in Deliveries \ {d} : Status(e)' = Status(e)
  BY <1>0, SameStatus
<1>7. Log!Apply(d)
  BY <1>a, <1>0, <1>5, <1>6, EntryMoves DEF Log!Apply
<1>. QED BY <1>0, <1>1, <1>2, <1>3, <1>4, <1>7 DEF Log!Next

LEMMA AnswerStep ==
  ASSUME IntakeInv, NEW w \in Workers, Answer(w)
  PROVE  IntakeInv' /\ [Log!Next]_(Log!vars)
<1>. USE DEF IntakeInv, TypeOK, SingleOwner, RowsStay, BareMistakes, AirWasSent, OnlyGenuineIsHandled
<1>. PICK d \in Deliveries : d = work[w].id
  BY DEF Answer, Idle
<1>0. /\ work[w] # Idle /\ d \in Recorded \cup mistaken
      /\ work' = [work EXCEPT ![w] = Idle] /\ heard' = heard \cup {d}
      /\ Recorded' = Recorded
      /\ UNCHANGED <<host, signing, secret, air, table, sent, applied, lost, mistaken>>
  BY DEF Answer, Idle, keys, history, Recorded
<1>1. IntakeInv'
  BY <1>0 DEF Idle
<1>2. \A e \in Deliveries : Status(e)' = Status(e)
  BY <1>0, SameStatus
<1>3. Status(d) # "new"
  BY <1>0 DEF Status
<1>4. Log!Tell(d)
  BY <1>0, <1>2, <1>3 DEF Log!Tell
<1>. QED BY <1>0, <1>1, <1>4 DEF Log!Next

LEMMA BreakStep ==
  ASSUME IntakeInv, NEW w \in Workers, Break(w)
  PROVE  IntakeInv' /\ [Log!Next]_(Log!vars)
<1>. USE DEF IntakeInv, TypeOK, SingleOwner, RowsStay, BareMistakes, AirWasSent, OnlyGenuineIsHandled
<1>. PICK d \in Deliveries : d = work[w].id
  BY DEF Break, Idle
<1>0. /\ work' = [work EXCEPT ![w] = Idle] /\ Recorded' = Recorded
      /\ UNCHANGED <<host, signing, secret, air, table, heard, sent, applied, mistaken>>
  BY DEF Break, Idle, keys, Recorded
<1>1. CASE work[w].step # "claimed"
  <2>1. UNCHANGED lost
    BY <1>1 DEF Break
  <2>2. IntakeInv'
    BY <1>0, <2>1 DEF Idle
  <2>. QED BY <1>0, <2>1, <2>2, LogUnmoved
<1>2. CASE work[w].step = "claimed"
  <2>1. d \in Recorded /\ applied[d] = 0 /\ d \notin lost /\ lost' = lost \cup {d}
    BY <1>2 DEF Break
  <2>2. IntakeInv'
    BY <1>0, <1>2, <2>1 DEF Idle
  <2>3. Status(d) \in {"new", "mistaken", "claimed"} /\ Status(d)' = "abandoned"
    BY <1>0, <2>1 DEF Status
  <2>4. \A e \in Deliveries \ {d} : Status(e)' = Status(e)
    BY <1>0, <2>1, SameStatus
  <2>5. Log!Abandon(d)
    BY <1>0, <2>3, <2>4, EntryMoves DEF Log!Abandon
  <2>. QED BY <1>0, <2>2, <2>5 DEF Log!Next
<1>. QED BY <1>1, <1>2

LEMMA NextStep ==
  IntakeInv /\ [Next]_vars => IntakeInv' /\ [Log!Next]_(Log!vars)
<1>. SUFFICES ASSUME IntakeInv, [Next]_vars PROVE IntakeInv' /\ [Log!Next]_(Log!vars)
  OBVIOUS
<1>1. ASSUME NEW w \in Workers, Intake(w) PROVE IntakeInv' /\ [Log!Next]_(Log!vars)
  BY <1>1, RecordStep, MistakeStep, RecordFailsStep, ProcessStep, AnswerStep, BreakStep DEF Intake
<1>2. ASSUME NEW w \in Workers, NEW d \in Deliveries, Accept(w, d) \/ Reject(w, d)
      PROVE  IntakeInv' /\ [Log!Next]_(Log!vars)
  BY <1>2, ReceiveStep, LogUnmoved
<1>3. CASE \/ \E d \in Deliveries : Delay(d) \/ Alter(d) \/ \E drift \in Skews : Send(d, drift)
           \/ Rotate
  BY <1>3, OutsideStep, LogUnmoved DEF Unhandled
<1>4. CASE UNCHANGED vars
  <2>1. UNCHANGED <<host, signing, secret, air, work, table, heard, sent, applied, lost, mistaken>>
    BY <1>4 DEF vars, keys, history
  <2>2. IntakeInv'
    BY <2>1 DEF IntakeInv, TypeOK, SingleOwner, RowsStay, BareMistakes, AirWasSent,
           OnlyGenuineIsHandled, Recorded
  <2>. QED BY <2>1, <2>2, LogUnmoved
<1>. QED BY <1>1, <1>2, <1>3, <1>4 DEF Next

LEMMA InitMaps == Init => Log!Init
  BY DEF Init, Log!Init, Status, Recorded

(* Type correctness, with the row of a delivery in place as soon as a worker *)
(* acts on having claimed it; one that acts on a duplicate has a row of it,  *)
(* or has mistaken another failure for it.                                   *)
THEOREM IntakeTypeCorrect == SafetySpec => []TypeOK
<1>1. IntakeInv => TypeOK
  BY DEF IntakeInv
<1>. QED BY InitInv, NextStep, <1>1, PTL DEF SafetySpec

(* What the network alters or makes up is neither handled nor put on record, *)
(* whether or not the delivery it names has been sent, under every           *)
(* configuration of the secret.                                              *)
THEOREM ForeignCopiesClaimNothing == SafetySpec => []OnlyGenuineIsHandled
<1>1. IntakeInv => OnlyGenuineIsHandled
  BY DEF IntakeInv
<1>. QED BY InitInv, NextStep, <1>1, PTL DEF SafetySpec

(* Whatever is retried, repeated or cut short, intake behaves like a log in  *)
(* which an event is applied at most once, and in which the sender is told   *)
(* of nothing that is not on record, as long as the host is not bare; the    *)
(* log of a bare host tells it of mistaken deliveries too.                   *)
THEOREM IntakeImplementsLog == SafetySpec => ImplementsDeliveryLog
<1>. QED BY InitInv, InitMaps, NextStep, PTL DEF SafetySpec, ImplementsDeliveryLog, Log!Spec
=============================================================================
