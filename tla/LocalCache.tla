----------------------------- MODULE LocalCache -----------------------------
(***************************************************************************)
(* LocalCache used cache-aside by an application (cache/local_cache.py).   *)
(* A reader that misses computes the value and stores it; a writer changes *)
(* the data and then calls the invalidation for what it changed.  Every    *)
(* method holds the lock for as long as it touches the store, so it is one *)
(* step; the gaps between the calls are where it gets hard.                *)
(*                                                                         *)
(* Keys are joined with ":" and split at ":", so here they are sequences   *)
(* of segments, and an entity id that contains ":" has several.            *)
(***************************************************************************)
EXTENDS Integers, Sequences, FiniteSets

CONSTANTS
  Segments,      \* what lies between two ":" of a key
  Items,         \* what the application caches: [kind, entity, resource]
  Readers,       \* readers that can be computing a value at the same time
  TTL,           \* time an entry lives
  MaxVersion,    \* bound on the changes of an item
  None           \* no entry

Kinds == {"count", "plan", "overrides"}
Ids   == {i.entity : i \in Items}

(* The key schema: a count is of a resource, the others have none. *)
Schema == [kind : Kinds, entity : Seq(Segments) \ {<<>>}, resource : Segments \cup {None}]

ASSUME ItemsAssumption ==
  /\ Kinds \subseteq Segments /\ Items \subseteq Schema
  /\ \A i \in Items : i.kind # "count" <=> i.resource = None
ASSUME TimeAssumption  == TTL \in Nat /\ MaxVersion \in Nat

VARIABLES
  version,       \* version of each item's data; stands for the value
  due,           \* items changed whose invalidation has not been called yet
  store,         \* key -> entry, None where the dict has no such key
  read           \* per reader, the value it computes after a miss

vars == <<version, due, store, read>>

(* _key(): counts alone have a resource. *)
Key(i) == <<i.kind>> \o i.entity \o (IF i.kind = "count" THEN <<i.resource>> ELSE <<>>)

Keys == {Key(i) : i \in Items}

(* left   time to expires_at, -1 once it has passed                         *)
(* raced  history: the value was computed before an invalidation of the    *)
(*        item and stored after it                                         *)
Entry == [value : 0 .. MaxVersion, left : -1 .. TTL, raced : BOOLEAN]

Reading == [step : {"missed", "loaded"}, item : Items, value : 0 .. MaxVersion, raced : BOOLEAN]
Resting == [step |-> "resting"]

TypeOK ==
  /\ version \in [Items -> 0 .. MaxVersion]
  /\ due \in SUBSET Items
  /\ store \in [Keys -> Entry \cup {None}]
  /\ read \in [Readers -> Reading \cup {Resting}]

Init ==
  /\ version = [i \in Items |-> 0] /\ due = {}
  /\ store = [k \in Keys |-> None]
  /\ read = [r \in Readers |-> Resting]

(* monotonic() > expires_at is expired: an entry is served up to that moment. *)
Live(k) == store[k] # None /\ store[k].left >= 0

Miss(r, i) ==
  /\ ~Live(Key(i))
  /\ store' = [store EXCEPT ![Key(i)] = None]
  /\ read' = [read EXCEPT ![r] = [step |-> "missed", item |-> i, value |-> 0, raced |-> FALSE]]

(* Slip of Get: a hit gives the entry a new life. *)
GetRefreshing(r, i) ==
  /\ read[r].step = "resting"
  /\ \/ Live(Key(i)) /\ store' = [store EXCEPT ![Key(i)].left = TTL] /\ UNCHANGED read
     \/ Miss(r, i)
  /\ UNCHANGED <<version, due>>

(* A miss also deletes an entry that has expired; a hit changes nothing. *)
Get(r, i) ==
  /\ read[r].step = "resting"
  /\ \/ Live(Key(i)) /\ UNCHANGED <<store, read>>
     \/ Miss(r, i)
  /\ UNCHANGED <<version, due>>

(* The reader computes the value: its database answers. *)
Load(r) ==
  /\ read[r].step = "missed"
  /\ read' = [read EXCEPT ![r].step = "loaded", ![r].value = version[read[r].item]]
  /\ UNCHANGED <<version, due, store>>

(* Slip of Set: the entry outlives its time to live. *)
SetLonger(r) ==
  /\ read[r].step = "loaded"
  /\ store' = [store EXCEPT ![Key(read[r].item)] =
       [value |-> read[r].value, left |-> TTL + 1, raced |-> read[r].raced]]
  /\ read' = [read EXCEPT ![r] = Resting]
  /\ UNCHANGED <<version, due>>

Set(r) ==
  /\ read[r].step = "loaded"
  /\ store' = [store EXCEPT ![Key(read[r].item)] =
       [value |-> read[r].value, left |-> TTL, raced |-> read[r].raced]]
  /\ read' = [read EXCEPT ![r] = Resting]
  /\ UNCHANGED <<version, due>>

-----------------------------------------------------------------------------
Change(i) ==
  /\ version[i] < MaxVersion
  /\ version' = [version EXCEPT ![i] = @ + 1]
  /\ due' = due \cup {i}
  /\ UNCHANGED <<store, read>>

(* An invalidation meant for these items drops those keys. *)
Drop(items, keys) ==
  /\ store' = [k \in Keys |-> IF k \in keys THEN None ELSE store[k]]
  /\ due' = due \ items
  /\ read' = [r \in Readers |-> IF read[r].step = "loaded" /\ read[r].item \in items
                                THEN [read[r] EXCEPT !.raced = TRUE] ELSE read[r]]
  /\ UNCHANGED version

(* Slip of InvalidateItem: a key without its kind. *)
InvalidateBare(i) == i.kind \in {"count", "overrides"} /\ Drop({i}, {Tail(Key(i))})

(* invalidate(entity, resource) and invalidate_overrides(entity). *)
InvalidateItem(i) == i.kind \in {"count", "overrides"} /\ Drop({i}, {Key(i)})

(* Slip of Matches: one segment at a time. *)
MatchesSegment(k, id) == \E p \in DOMAIN k : <<k[p]>> = id

(* The id is some contiguous run of the segments of the key. *)
Matches(k, id) == \E p, q \in DOMAIN k : p <= q /\ SubSeq(k, p, q) = id

InvalidateEntity(id) == Drop({i \in Items : i.entity = id}, {k \in Keys : Matches(k, id)})

Clear == Drop(Items, Keys)

(* Time passes for every entry; how long ago one expired is not told apart. *)
Tick ==
  /\ \E k \in Keys : Live(k)
  /\ store' = [k \in Keys |-> IF Live(k) THEN [store[k] EXCEPT !.left = @ - 1] ELSE store[k]]
  /\ UNCHANGED <<version, due, read>>

Invalidate(i) == InvalidateItem(i) \/ InvalidateEntity(i.entity)

Next ==
  \/ \E r \in Readers : Load(r) \/ Set(r) \/ \E i \in Items : Get(r, i)
  \/ \E i \in Items : Change(i) \/ Invalidate(i)
  \/ Clear \/ Tick

(* Time passes, a reader that has missed finishes, and a writer that has   *)
(* changed an item calls its invalidation.  Reads, changes and Clear are   *)
(* not asked for.                                                          *)
Fairness ==
  /\ WF_vars(Tick)
  /\ \A r \in Readers : WF_vars(Load(r)) /\ WF_vars(Set(r))
  /\ \A i \in Items : WF_vars(i \in due /\ Invalidate(i))

Spec == Init /\ [][Next]_vars /\ Fairness

-----------------------------------------------------------------------------
Stale(i) == Live(Key(i)) /\ store[Key(i)].value # version[i]

(* What the cache serves is up to date once the writer has called the      *)
(* invalidation, whichever of the calls it is and however the entity's id  *)
(* is made up; but for a value that was computed before that call and      *)
(* stored after it, which set() cannot tell.                               *)
StaleOnlyByRace == \A i \in Items : Stale(i) => i \in due \/ store[Key(i)].raced

(* Even such a value goes: no read prolongs it, so when the data no longer  *)
(* changes, the cache comes to serve nothing out of date.                  *)
StalenessEnds == <>[](\A i \in Items : ~Stale(i))

(* invalidate_entity() leaves no key of that entity, and every key of an    *)
(* entity whose id does not contain that id: "1" does not evict "10".  But  *)
(* an entity named like a kind or a resource takes others' keys with it.    *)
Contains(id, part) == \E p, q \in DOMAIN id : p <= q /\ SubSeq(id, p, q) = part
Plain(id, i)       == \A n \in DOMAIN id : id[n] \notin Kinds \cup {i.resource}

EvictsTheEntity ==
  [][\A id \in Ids : InvalidateEntity(id) =>
       \A i \in Items :
         /\ i.entity = id => store'[Key(i)] = None
         /\ Plain(id, i) /\ ~Contains(i.entity, id) => store'[Key(i)] = store[Key(i)]]_vars
=============================================================================
