----------------------------- MODULE CacheProofs -----------------------------
(***************************************************************************)
(* Theorems about the cache, for any items, ids, readers and time to live. *)
(***************************************************************************)
EXTENDS LocalCache, SequenceTheorems, TLAPS

-----------------------------------------------------------------------------
(* Keys. *)

LEMMA ItemTyped ==
  ASSUME NEW i \in Items
  PROVE  /\ i \in Schema /\ i.kind \in Kinds /\ i.kind \in Segments
         /\ i.entity \in Seq(Segments) /\ i.entity # <<>> /\ Len(i.entity) \in Nat \ {0}
         /\ DOMAIN i.entity = 1 .. Len(i.entity)
         /\ i.kind = "count" => i.resource \in Segments
<1>1. i \in Schema /\ i.kind \in Kinds /\ i.kind \in Segments
  BY ItemsAssumption DEF Schema
<1>2. i.entity \in Seq(Segments) /\ i.entity # <<>> /\ (i.kind = "count" => i.resource \in Segments)
  BY <1>1, ItemsAssumption DEF Schema
<1>. QED BY <1>1, <1>2, EmptySeq, LenProperties

LEMMA Joined ==
  ASSUME NEW s \in Seq(Segments), NEW t \in Seq(Segments)
  PROVE  /\ s \o t \in Seq(Segments) /\ Len(s \o t) = Len(s) + Len(t)
         /\ \A n \in 1 .. Len(s) + Len(t) : (s \o t)[n] = IF n <= Len(s) THEN s[n] ELSE t[n - Len(s)]
BY ConcatProperties

(* A key is the kind, the segments of the id and, of a count, the resource. *)
LEMMA KeyParts ==
  ASSUME NEW i \in Items
  PROVE  /\ Key(i) \in Seq(Segments) /\ DOMAIN Key(i) = 1 .. Len(Key(i))
         /\ Len(Key(i)) = (IF i.kind = "count" THEN Len(i.entity) + 2 ELSE Len(i.entity) + 1)
         /\ Key(i)[1] = i.kind
         /\ \A n \in 1 .. Len(i.entity) : Key(i)[n + 1] = i.entity[n]
         /\ i.kind = "count" => Key(i)[Len(i.entity) + 2] = i.resource
<1>. DEFINE first == <<i.kind>>
            front == first \o i.entity
            end   == IF i.kind = "count" THEN <<i.resource>> ELSE <<>>
            E     == Len(i.entity)
<1>1. first \in Seq(Segments) /\ Len(first) = 1 /\ first[1] = i.kind
  BY ItemTyped
<1>2. /\ end \in Seq(Segments) /\ Len(end) \in Nat /\ (i.kind = "count" => Len(end) = 1 /\ end[1] = i.resource)
      /\ i.kind # "count" => Len(end) = 0
  BY ItemTyped
<1>3. Key(i) = front \o end
  BY DEF Key
<1>4. E \in Nat \ {0} /\ i.entity \in Seq(Segments)
  BY ItemTyped
<1>. HIDE DEF first, end, E
<1>5. /\ front \in Seq(Segments) /\ Len(front) = 1 + E
      /\ \A n \in 1 .. 1 + E : front[n] = IF n <= 1 THEN first[n] ELSE i.entity[n - 1]
  <2>1. /\ front \in Seq(Segments) /\ Len(front) = Len(first) + Len(i.entity)
        /\ \A n \in 1 .. Len(first) + Len(i.entity) :
             front[n] = IF n <= Len(first) THEN first[n] ELSE i.entity[n - Len(first)]
    BY <1>1, <1>4, Joined, Zenon
  <2>. QED BY <1>1, <2>1, Zenon DEF E
<1>. HIDE DEF front
<1>6. /\ Key(i) \in Seq(Segments) /\ Len(Key(i)) = 1 + E + Len(end)
      /\ \A n \in 1 .. 1 + E + Len(end) : Key(i)[n] = IF n <= 1 + E THEN front[n] ELSE end[n - (1 + E)]
  <2>. DEFINE whole == front \o end
  <2>1. /\ whole \in Seq(Segments) /\ Len(whole) = Len(front) + Len(end)
        /\ \A n \in 1 .. Len(front) + Len(end) :
             whole[n] = IF n <= Len(front) THEN front[n] ELSE end[n - Len(front)]
    BY <1>2, <1>5, Joined, Zenon
  <2>2. Key(i) = whole
    BY <1>3
  <2>. HIDE DEF whole
  <2>. QED BY <1>5, <2>1, <2>2, Zenon
<1>7. DOMAIN Key(i) = 1 .. Len(Key(i))
  BY <1>6, LenProperties
<1>8. Key(i)[1] = i.kind
  BY <1>1, <1>2, <1>4, <1>5, <1>6
<1>9. \A n \in 1 .. E : Key(i)[n + 1] = i.entity[n]
  <2>. SUFFICES ASSUME NEW n \in 1 .. E  PROVE Key(i)[n + 1] = i.entity[n]
    OBVIOUS
  <2>1. n + 1 \in 1 .. 1 + E /\ n + 1 \in 1 .. 1 + E + Len(end) /\ ~ (n + 1 <= 1) /\ (n + 1) - 1 = n
    BY <1>2, <1>4
  <2>. QED BY <2>1, <1>5, <1>6
<1>10. i.kind = "count" => Key(i)[E + 2] = i.resource
  <2>. SUFFICES ASSUME i.kind = "count"  PROVE Key(i)[E + 2] = i.resource
    OBVIOUS
  <2>. DEFINE e == Len(end)
  <2>1. e = 1
    BY <1>2
  <2>. HIDE DEF e
  <2>2. E + 2 \in 1 .. 1 + E + e /\ ~ (E + 2 <= 1 + E) /\ (E + 2) - (1 + E) = 1
    BY <1>4, <2>1
  <2>3. Key(i)[E + 2] = end[(E + 2) - (1 + E)]
    BY <1>6, <2>2 DEF e
  <2>. QED BY <1>2, <2>2, <2>3
<1>11. Len(Key(i)) = (IF i.kind = "count" THEN E + 2 ELSE E + 1)
  BY <1>2, <1>4, <1>6
<1>. QED BY <1>6, <1>7, <1>8, <1>9, <1>10, <1>11 DEF E

(* Joining loses nothing: the items have keys of their own. *)
LEMMA KeyInjective ==
  ASSUME NEW i \in Items, NEW j \in Items, Key(i) = Key(j)
  PROVE  i = j
<1>1. i.kind = j.kind
  BY KeyParts
<1>2. Len(i.entity) = Len(j.entity)
  BY <1>1, KeyParts, ItemTyped
<1>3. \A n \in 1 .. Len(i.entity) : i.entity[n] = j.entity[n]
  BY <1>2, KeyParts
<1>4. i.entity = j.entity
  BY <1>2, <1>3, ItemTyped, SeqEqual
<1>5. i.resource = j.resource
  <2>1. CASE i.kind = "count"
    BY <1>1, <1>2, <2>1, KeyParts
  <2>2. CASE i.kind # "count"
    BY <1>1, <2>2, ItemsAssumption
  <2>. QED BY <2>1, <2>2
<1>. QED BY <1>1, <1>4, <1>5, ItemTyped DEF Schema

(* The id of an item is a run of its key; *)
LEMMA OwnKeyMatches ==
  ASSUME NEW i \in Items
  PROVE  Matches(Key(i), i.entity)
<1>. DEFINE last == Len(i.entity) + 1
            run  == SubSeq(Key(i), 2, last)
<1>1. 2 \in DOMAIN Key(i) /\ last \in DOMAIN Key(i) /\ 2 <= last /\ last \in Int
  BY KeyParts, ItemTyped
<1>2. \A n \in 2 .. last : Key(i)[n] \in Segments
  BY <1>1, KeyParts, ElementOfSeq
<1>3. /\ run \in Seq(Segments) /\ Len(run) = Len(i.entity)
      /\ \A n \in 1 .. Len(i.entity) : run[n] = Key(i)[n + 1]
  BY <1>1, <1>2, SubSeqProperties, ItemTyped
<1>4. run = i.entity
  <2>. HIDE DEF run
  <2>. QED BY <1>3, KeyParts, ItemTyped, SeqEqual
<1>. QED BY <1>1, <1>4 DEF Matches

-----------------------------------------------------------------------------
(* What is cached or about to be: the value of now, or of an item whose     *)
(* invalidation is still due, or one that raced it.                         *)
Honest(i, value, raced) == value = version[i] \/ i \in due \/ raced

EntriesHonest  == \A i \in Items : store[Key(i)] # None =>
                     Honest(i, store[Key(i)].value, store[Key(i)].raced)
ReadingsHonest == \A r \in Readers : read[r].step = "loaded" =>
                     Honest(read[r].item, read[r].value, read[r].raced)

CacheInv == TypeOK /\ EntriesHonest /\ ReadingsHonest

LEMMA ReadingOf ==
  ASSUME TypeOK, NEW r \in Readers, read[r].step # "resting"
  PROVE  read[r] \in Reading
BY DEF TypeOK, Resting

LEMMA CacheStarts ==
  Init => CacheInv
<1>. SUFFICES ASSUME Init  PROVE CacheInv
  OBVIOUS
<1>1. \A i \in Items : store[Key(i)] = None
  BY DEF Init, Keys
<1>2. \A r \in Readers : read[r].step = "resting"
  BY DEF Init, Resting
<1>3. TypeOK
  BY TimeAssumption DEF Init, TypeOK
<1>. QED BY <1>1, <1>2, <1>3 DEF CacheInv, EntriesHonest, ReadingsHonest

LEMMA MissKeeps ==
  ASSUME CacheInv, NEW r \in Readers, NEW i \in Items, Miss(r, i), UNCHANGED <<version, due>>
  PROVE  CacheInv'
<1>. USE DEF CacheInv
<1>1. /\ store' = [store EXCEPT ![Key(i)] = None]
      /\ read' = [read EXCEPT ![r] = [step |-> "missed", item |-> i, value |-> 0, raced |-> FALSE]]
  BY DEF Miss
<1>. DEFINE missed == [step |-> "missed", item |-> i, value |-> 0, raced |-> FALSE]
<1>2. TypeOK'
  <2>1. missed \in Reading
    BY TimeAssumption DEF Reading
  <2>. HIDE DEF missed
  <2>2. read' = [read EXCEPT ![r] = missed]
    BY <1>1 DEF missed
  <2>. QED BY <1>1, <2>1, <2>2 DEF TypeOK
<1>3. EntriesHonest'
  <2>1. \A j \in Items : store'[Key(j)] # None => store'[Key(j)] = store[Key(j)]
    <3>. SUFFICES ASSUME NEW j \in Items, store'[Key(j)] # None  PROVE store'[Key(j)] = store[Key(j)]
      OBVIOUS
    <3>1. Key(j) \in Keys
      BY DEF Keys
    <3>. QED BY <1>1, <3>1, Zenon DEF TypeOK
  <2>. QED BY <2>1, Zenon DEF EntriesHonest, Honest
<1>4. ReadingsHonest'
  BY <1>1 DEF ReadingsHonest, Honest, TypeOK
<1>. QED BY <1>2, <1>3, <1>4

LEMMA LoadKeeps ==
  ASSUME CacheInv, NEW r \in Readers, Load(r)
  PROVE  CacheInv'
<1>. USE DEF CacheInv
<1>1. read[r] \in Reading
  BY ReadingOf DEF Load
<1>. DEFINE loaded == [read[r] EXCEPT !.step = "loaded", !.value = version[read[r].item]]
<1>2. read' = [read EXCEPT ![r] = loaded] /\ UNCHANGED <<version, due, store>>
  BY DEF Load
<1>3. /\ loaded \in Reading /\ loaded.step = "loaded"
      /\ loaded.item = read[r].item /\ loaded.value = version[read[r].item]
  BY <1>1 DEF Reading, TypeOK
<1>. HIDE DEF loaded
<1>4. TypeOK'
  BY <1>2, <1>3 DEF TypeOK
<1>5. EntriesHonest'
  BY <1>2 DEF EntriesHonest, Honest
<1>6. ReadingsHonest'
  BY <1>2, <1>3 DEF ReadingsHonest, Honest, TypeOK
<1>. QED BY <1>4, <1>5, <1>6

LEMMA SetKeeps ==
  ASSUME CacheInv, NEW r \in Readers, Set(r)
  PROVE  CacheInv'
<1>. USE DEF CacheInv
<1>. DEFINE item  == read[r].item
            entry == [value |-> read[r].value, left |-> TTL, raced |-> read[r].raced]
<1>1. read[r] \in Reading /\ read[r].step = "loaded"
  BY ReadingOf DEF Set
<1>2. /\ store' = [store EXCEPT ![Key(item)] = entry] /\ read' = [read EXCEPT ![r] = Resting]
      /\ UNCHANGED <<version, due>>
  BY DEF Set
<1>3. /\ item \in Items /\ entry \in Entry /\ entry.value = read[r].value /\ entry.raced = read[r].raced
      /\ Key(item) \in Keys
  BY <1>1, TimeAssumption DEF Reading, Entry, Keys
<1>4. Honest(item, entry.value, entry.raced)
  BY <1>1, <1>3 DEF ReadingsHonest
<1>. HIDE DEF item, entry
<1>5. TypeOK'
  BY <1>2, <1>3 DEF TypeOK
<1>6. EntriesHonest'
  <2>. SUFFICES ASSUME NEW j \in Items, store'[Key(j)] # None
                PROVE  Honest(j, store'[Key(j)].value, store'[Key(j)].raced)
    BY <1>2 DEF EntriesHonest, Honest
  <2>0. Key(j) \in Keys
    BY DEF Keys
  <2>1. CASE Key(j) = Key(item)
    <3>1. j = item
      BY <1>3, <2>1, KeyInjective
    <3>2. store'[Key(j)] = entry
      BY <1>2, <2>0, <2>1, Zenon DEF TypeOK
    <3>. QED BY <1>4, <3>1, <3>2
  <2>2. CASE Key(j) # Key(item)
    <3>1. store'[Key(j)] = store[Key(j)]
      BY <1>2, <2>0, <2>2, Zenon DEF TypeOK
    <3>. QED BY <3>1 DEF EntriesHonest
  <2>. QED BY <2>1, <2>2
<1>7. ReadingsHonest'
  BY <1>2 DEF ReadingsHonest, Honest, TypeOK, Resting
<1>. QED BY <1>5, <1>6, <1>7

LEMMA ChangeKeeps ==
  ASSUME CacheInv, NEW i \in Items, Change(i)
  PROVE  CacheInv'
<1>. USE DEF CacheInv
<1>1. /\ version' = [version EXCEPT ![i] = @ + 1] /\ due' = due \cup {i} /\ version[i] + 1 \in 0 .. MaxVersion
      /\ store' = store /\ read' = read
  BY TimeAssumption DEF Change, TypeOK
<1>2. TypeOK'
  BY <1>1 DEF TypeOK
<1>3. ASSUME NEW j \in Items, NEW value, NEW raced, Honest(j, value, raced)
      PROVE  Honest(j, value, raced)'
  BY <1>1, <1>3 DEF Honest, TypeOK
<1>4. EntriesHonest'
  BY <1>1, <1>3 DEF EntriesHonest
<1>5. ReadingsHonest'
  <2>1. \A r \in Readers : read[r].step = "loaded" => read[r].item \in Items
    BY DEF TypeOK, Reading, Resting
  <2>. QED BY <1>1, <1>3, <2>1 DEF ReadingsHonest
<1>. QED BY <1>2, <1>4, <1>5

(* What holds each kind of invalidation up: it drops the keys of the items  *)
(* it is meant for.                                                         *)
LEMMA DropKeeps ==
  ASSUME CacheInv, NEW items \in SUBSET Items, NEW keys, \A i \in items : Key(i) \in keys, Drop(items, keys)
  PROVE  CacheInv'
<1>. USE DEF CacheInv
<1>1. /\ store' = [k \in Keys |-> IF k \in keys THEN None ELSE store[k]]
      /\ due' = due \ items /\ version' = version
  BY DEF Drop
<1>2. ASSUME NEW r \in Readers
      PROVE  /\ read'[r] \in Reading \cup {Resting}
             /\ read'[r].step = read[r].step
             /\ read[r].step = "loaded" => /\ read'[r].item = read[r].item /\ read'[r].value = read[r].value
                                           /\ read[r].raced => read'[r].raced
                                           /\ read[r].item \in items => read'[r].raced
  <2>. DEFINE marked == [read[r] EXCEPT !.raced = TRUE]
  <2>1. CASE read[r].step = "loaded" /\ read[r].item \in items
    <3>1. read'[r] = marked
      BY <2>1 DEF Drop
    <3>2. read[r] \in Reading
      BY <2>1, ReadingOf
    <3>3. /\ marked \in Reading /\ marked.step = read[r].step /\ marked.item = read[r].item
          /\ marked.value = read[r].value /\ marked.raced
      BY <3>2 DEF Reading
    <3>. HIDE DEF marked
    <3>. QED BY <3>1, <3>3
  <2>2. CASE ~ (read[r].step = "loaded" /\ read[r].item \in items)
    <3>1. read'[r] = read[r]
      BY <2>2 DEF Drop
    <3>. QED BY <2>2, <3>1 DEF TypeOK
  <2>. QED BY <2>1, <2>2
<1>3. TypeOK'
  <2>1. read' \in [Readers -> Reading \cup {Resting}]
    BY <1>2 DEF Drop
  <2>2. store' \in [Keys -> Entry \cup {None}]
    BY <1>1 DEF TypeOK
  <2>. QED BY <1>1, <2>1, <2>2 DEF TypeOK
<1>4. EntriesHonest'
  <2>. SUFFICES ASSUME NEW i \in Items, store'[Key(i)] # None
                PROVE  store'[Key(i)].value = version'[i] \/ i \in due' \/ store'[Key(i)].raced
    BY DEF EntriesHonest, Honest
  <2>1. Key(i) \in Keys
    BY DEF Keys
  <2>2. Key(i) \notin keys /\ store'[Key(i)] = store[Key(i)]
    BY <1>1, <2>1
  <2>3. i \notin items /\ version' = version /\ (i \in due => i \in due')
    BY <1>1, <2>2
  <2>. QED BY <2>2, <2>3 DEF EntriesHonest, Honest
<1>5. ReadingsHonest'
  <2>. SUFFICES ASSUME NEW r \in Readers, read'[r].step = "loaded"
                PROVE  read'[r].value = version'[read'[r].item] \/ read'[r].item \in due' \/ read'[r].raced
    BY DEF ReadingsHonest, Honest
  <2>1. /\ read[r].step = "loaded" /\ read'[r].item = read[r].item /\ read'[r].value = read[r].value
        /\ (read[r].raced => read'[r].raced) /\ (read[r].item \in items => read'[r].raced)
    BY <1>2
  <2>. QED BY <1>1, <2>1 DEF ReadingsHonest, Honest
<1>. QED BY <1>3, <1>4, <1>5

LEMMA TickKeeps ==
  ASSUME CacheInv, Tick
  PROVE  CacheInv'
<1>. USE DEF CacheInv
<1>1. ASSUME NEW k \in Keys
      PROVE  /\ store'[k] \in Entry \cup {None}
             /\ store'[k] # None => /\ store[k] # None
                                    /\ store'[k].value = store[k].value /\ store'[k].raced = store[k].raced
  <2>1. CASE Live(k)
    <3>. DEFINE older == [store[k] EXCEPT !.left = @ - 1]
    <3>1. store'[k] = older
      BY <2>1 DEF Tick
    <3>2. store[k] \in Entry /\ store[k].left >= 0 /\ store[k] # None
      BY <2>1 DEF Live, TypeOK
    <3>3. older \in Entry /\ older.value = store[k].value /\ older.raced = store[k].raced
      BY <3>2, TimeAssumption DEF Entry
    <3>. HIDE DEF older
    <3>. QED BY <3>1, <3>2, <3>3
  <2>2. CASE ~ Live(k)
    <3>1. store'[k] = store[k]
      BY <2>2 DEF Tick
    <3>. QED BY <3>1 DEF TypeOK
  <2>. QED BY <2>1, <2>2
<1>2. TypeOK'
  <2>1. store' \in [Keys -> Entry \cup {None}]
    BY <1>1 DEF Tick
  <2>. QED BY <2>1 DEF Tick, TypeOK
<1>3. EntriesHonest'
  <2>1. \A i \in Items : Key(i) \in Keys
    BY DEF Keys
  <2>. QED BY <1>1, <2>1 DEF EntriesHonest, Honest, Tick
<1>4. ReadingsHonest'
  BY DEF ReadingsHonest, Honest, Tick
<1>. QED BY <1>2, <1>3, <1>4

LEMMA CacheStepKeeps ==
  ASSUME CacheInv, [Next]_vars
  PROVE  CacheInv'
<1>1. CASE UNCHANGED vars
  BY <1>1 DEF vars, CacheInv, TypeOK, EntriesHonest, ReadingsHonest, Honest
<1>2. ASSUME NEW r \in Readers, NEW i \in Items, Get(r, i)
      PROVE  CacheInv'
  <2>1. CASE UNCHANGED <<store, read>>
    BY <1>2, <2>1 DEF Get, CacheInv, TypeOK, EntriesHonest, ReadingsHonest, Honest
  <2>2. CASE Miss(r, i)
    BY <1>2, <2>2, MissKeeps DEF Get
  <2>. QED BY <1>2, <2>1, <2>2 DEF Get
<1>3. ASSUME NEW i \in Items, Invalidate(i)
      PROVE  CacheInv'
  <2>1. CASE InvalidateItem(i)
    BY <2>1, DropKeeps DEF InvalidateItem
  <2>2. CASE InvalidateEntity(i.entity)
    <3>. DEFINE items == {j \in Items : j.entity = i.entity}
                keys  == {k \in Keys : Matches(k, i.entity)}
    <3>1. \A j \in items : Key(j) \in keys
      BY OwnKeyMatches DEF Keys
    <3>2. Drop(items, keys) /\ items \in SUBSET Items
      BY <2>2 DEF InvalidateEntity
    <3>. HIDE DEF items, keys
    <3>. QED BY <3>1, <3>2, DropKeeps
  <2>. QED BY <1>3, <2>1, <2>2 DEF Invalidate
<1>4. CASE Clear
  BY <1>4, DropKeeps DEF Clear, Keys
<1>. QED BY <1>1, <1>2, <1>3, <1>4, LoadKeeps, SetKeeps, ChangeKeeps, TickKeeps DEF Next

(* The inductive invariant of the cache: what it and the readers on their   *)
(* way to it hold is the item's data, is due to be invalidated or was overtaken. *)
THEOREM CacheInvariant ==
  Spec => []CacheInv
<1>. QED BY CacheStarts, CacheStepKeeps, PTL DEF Spec

(* The state always has the types of the declarations above. *)
THEOREM CacheTypeCorrect ==
  Spec => []TypeOK
<1>1. CacheInv => TypeOK
  BY DEF CacheInv
<1>. QED BY <1>1, CacheInvariant, PTL

(* Whatever the keys, the readers and the time to live: after the writer   *)
(* has called its invalidation, only a value that raced it is out of date. *)
THEOREM CacheStaleOnlyByRace ==
  Spec => []StaleOnlyByRace
<1>1. CacheInv => StaleOnlyByRace
  BY DEF CacheInv, EntriesHonest, Honest, StaleOnlyByRace, Stale, Live
<1>. QED BY <1>1, CacheInvariant, PTL

-----------------------------------------------------------------------------
(* What invalidate_entity() drops. *)

(* A run of a key that holds neither the kind nor the resource of the item *)
(* lies within the item's own id.                                          *)
LEMMA MatchLiesInTheId ==
  ASSUME NEW i \in Items, NEW id, Matches(Key(i), id), Plain(id, i)
  PROVE  Contains(i.entity, id)
<1>. DEFINE E == Len(i.entity)
<1>1. E \in Nat \ {0} /\ i.entity \in Seq(Segments) /\ DOMAIN i.entity = 1 .. E
  BY ItemTyped
<1>2. /\ Key(i) \in Seq(Segments) /\ DOMAIN Key(i) = 1 .. Len(Key(i)) /\ Key(i)[1] = i.kind
      /\ Len(Key(i)) = (IF i.kind = "count" THEN E + 2 ELSE E + 1)
      /\ \A n \in 1 .. E : Key(i)[n + 1] = i.entity[n]
      /\ i.kind = "count" => Key(i)[E + 2] = i.resource
  BY KeyParts
<1>3. PICK p \in DOMAIN Key(i), q \in DOMAIN Key(i) : p <= q /\ SubSeq(Key(i), p, q) = id
  BY DEF Matches
<1>. HIDE DEF E
<1>4. p \in 1 .. Len(Key(i)) /\ q \in 1 .. Len(Key(i)) /\ p \in Int /\ q \in Int /\ Len(Key(i)) \in Nat
  BY <1>1, <1>2, <1>3
<1>5. \A n \in p .. q : Key(i)[n] \in Segments
  BY <1>2, <1>4, ElementOfSeq
<1>6. id \in Seq(Segments) /\ Len(id) = (q - p) + 1 /\ \A n \in 1 .. (q - p) + 1 : id[n] = Key(i)[p + n - 1]
  <2>. DEFINE key   == Key(i)
              found == SubSeq(key, p, q)
  <2>1. \A n \in p .. q : key[n] \in Segments
    BY <1>5
  <2>. HIDE DEF key
  <2>2. found \in Seq(Segments) /\ Len(found) = (q - p) + 1 /\ \A n \in 1 .. (q - p) + 1 : found[n] = key[p + n - 1]
    BY <1>3, <1>4, <2>1, SubSeqProperties
  <2>. HIDE DEF found
  <2>3. id = found
    BY <1>3 DEF found, key
  <2>. QED BY <2>2, <2>3 DEF key
<1>7. DOMAIN id = 1 .. (q - p) + 1
  BY <1>6, LenProperties
<1>8. p # 1
  <2>. SUFFICES ASSUME p = 1  PROVE FALSE
    OBVIOUS
  <2>1. 1 \in DOMAIN id /\ id[1] = Key(i)[1]
    BY <1>3, <1>4, <1>6, <1>7
  <2>. QED BY <1>2, <2>1, ItemTyped DEF Plain
<1>9. q \in 2 .. E + 1
  <2>1. CASE i.kind = "count"
    <3>1. Len(Key(i)) = E + 2
      BY <1>2, <2>1
    <3>2. q # E + 2
      <4>. SUFFICES ASSUME q = E + 2  PROVE FALSE
        OBVIOUS
      <4>. DEFINE last == (q - p) + 1
      <4>1. last \in DOMAIN id /\ p + last - 1 = E + 2
        BY <1>1, <1>3, <1>4, <1>7
      <4>2. id[last] = i.resource
        BY <1>2, <1>6, <1>7, <2>1, <4>1
      <4>. QED BY <4>1, <4>2 DEF Plain
    <3>. QED BY <1>1, <1>3, <1>4, <1>8, <3>1, <3>2
  <2>2. CASE i.kind # "count"
    <3>1. Len(Key(i)) = E + 1
      BY <1>2, <2>2
    <3>. QED BY <1>1, <1>3, <1>4, <1>8, <3>1
  <2>. QED BY <2>1, <2>2
<1>. DEFINE from == p - 1
            to   == q - 1
            run  == SubSeq(i.entity, from, to)
<1>10. from \in DOMAIN i.entity /\ to \in DOMAIN i.entity /\ from <= to /\ from \in Int /\ to \in Int
  BY <1>1, <1>3, <1>4, <1>8, <1>9
<1>11. \A n \in from .. to : i.entity[n] \in Segments
  BY <1>1, <1>10, ElementOfSeq
<1>12. run \in Seq(Segments) /\ Len(run) = (to - from) + 1
       /\ \A n \in 1 .. (to - from) + 1 : run[n] = i.entity[from + n - 1]
  <2>. HIDE DEF from, to
  <2>. QED BY <1>10, <1>11, SubSeqProperties
<1>13. (to - from) + 1 = (q - p) + 1
  BY <1>4
<1>14. \A n \in 1 .. (q - p) + 1 : run[n] = id[n]
  <2>. SUFFICES ASSUME NEW n \in 1 .. (q - p) + 1  PROVE run[n] = id[n]
    OBVIOUS
  <2>1. from + n - 1 \in 1 .. E /\ (from + n - 1) + 1 = p + n - 1
    BY <1>1, <1>3, <1>4, <1>8, <1>9
  <2>2. run[n] = i.entity[from + n - 1]
    BY <1>12, <1>13
  <2>3. id[n] = Key(i)[p + n - 1]
    BY <1>6
  <2>4. Key(i)[(from + n - 1) + 1] = i.entity[from + n - 1]
    BY <1>2, <2>1
  <2>. QED BY <2>1, <2>2, <2>3, <2>4
<1>15. run = id
  <2>. HIDE DEF run
  <2>. QED BY <1>6, <1>12, <1>13, <1>14, SeqEqual
<1>. QED BY <1>10, <1>15 DEF Contains

(* invalidate_entity() drops the keys of that entity and, unless its id is *)
(* a kind or a resource, no key of an entity whose id does not contain it. *)
THEOREM CacheEvictsTheEntity ==
  Spec => EvictsTheEntity
<1>1. ASSUME NEW id \in Ids, InvalidateEntity(id), NEW i \in Items
      PROVE  /\ i.entity = id => store'[Key(i)] = None
             /\ Plain(id, i) /\ ~Contains(i.entity, id) => store'[Key(i)] = store[Key(i)]
  <2>1. Key(i) \in Keys
    BY DEF Keys
  <2>2. store'[Key(i)] = IF Matches(Key(i), id) THEN None ELSE store[Key(i)]
    BY <1>1, <2>1 DEF InvalidateEntity, Drop
  <2>. QED BY <2>2, OwnKeyMatches, MatchLiesInTheId
<1>2. [Next]_vars => [\A id \in Ids : InvalidateEntity(id) =>
                        \A i \in Items :
                          /\ i.entity = id => store'[Key(i)] = None
                          /\ Plain(id, i) /\ ~Contains(i.entity, id) => store'[Key(i)] = store[Key(i)]]_vars
  BY <1>1
<1>. QED BY <1>2, PTL DEF Spec, EvictsTheEntity
=============================================================================
