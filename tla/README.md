# plancraft in TLA+

A verification project for plancraft, the Python library that gates features and
limits resources by billing plan. Models are written from the source; TLC checks
them on small instances and TLAPS proves the central results for all of them.

## The system

| Part | State | Operations | Hard because |
|---|---|---|---|
| Billing catalog: `core/models.py`, `core/registry.py` | dicts of features, plans and counters, the default plan key | `register` (adds over what is there), lookups with a fallback to the default plan, `get_limit` (absent means 0, -1 means unlimited) | read by every check while a reload replaces it |
| Enforcement engine: `core/enforcer.py` | none | `can`, `within_limit`, `get_usage` | `within_limit` reads the quota, awaits the host's counter, and only then compares |
| Counters: `core/counter.py` | the host's rows | `count` | the host's query: its answer is of some moment during the await; it can raise or hang |
| Facade: `plancraft.py` | the registry | `register`, `reload_catalog`, direct checks, cache hooks that do nothing | a reload is one synchronous call: atomic on an event loop, not between threads |
| FastAPI dependencies: `integrations/fastapi/depends.py` | per request: entity, position in its checks | `require_feature`, `require_limit`, `require(...)` | several awaits per request, other requests in between; check-then-create |
| FastAPI router: `integrations/fastapi/router.py` | none | `/catalog`, `/plan`, `/usage` | `/usage` awaits between resources |
| Django mixins and permissions: `integrations/django` | per view: loop, worker thread, timer | `perform_create`, `has_permission` | a synchronous thread waits for an asynchronous check: timer, thread pool, catch-alls |
| Local cache: `cache/local_cache.py` | TTL dict under a lock | get, set, invalidations | cache-aside staleness; used by no other part |
| Webhook signatures: `webhooks/signatures.py` | none | `verify_standard_webhook` | several parts in a header while a key is rotated, a window to both sides |
| Webhook idempotency: `webhooks/idempotency.py` | the host's table, or a dict under a lock | `record_once`, `InMemoryDeliveryStore.record` | retries, concurrent copies, a crash between claim and processing |

The catalog is the shared state: the enforcer reads it, the facade replaces it.
The two integrations call the enforcer, directly or through the facade, and the host owns
everything that persists: the rows a counter counts, the plan key of an entity,
the webhook table.  plancraft never writes these; a check that says yes reserves
nothing.  Hence the central question: what does a quota mean when checking and
creating are separate steps of concurrent requests?

What makes each part correct:

* gate (FastAPI): a verdict is true of some moment of the request; a request gets
  to its handler only through every check of its route; rows pass a quota by less
  than the concurrency.
* bridge (Django): nothing passes the guards except on a verdict or in one of the ways
  the code leaves open, which are listed, and of which its comments rule some out; no
  thread outlives its request; every request is answered when counters are.
* reload between threads: a lone reload leaves its catalog and nothing else; a check
  caught in between may be refused or raise, but gains nothing, and a hint is never
  made up of two catalogs.
* local cache: stale only by the race that cache-aside has, and not for ever.
* webhooks: an event is applied at most once, whatever is retried, and at least
  once unless the request that claimed it ends early or another failure is taken
  for its duplicate; a host that tells duplicates from other failures says 2xx of
  nothing that is not on record.
* signatures: only copies as the sender sent them are handled or recorded, and
  rotating a key drops nothing for good.

## Modules

| Module | Content |
|---|---|
| `Catalog` | plans, lookups, registering and reloading as operators |
| `Quota` | abstract specification: what check-then-create promises about a quota |
| `AdmissionGate` | requests in the FastAPI dependencies on one event loop |
| `GateHistory` | the gate with history variables, its properties, its refinement of `Quota` |
| `DjangoBridge` | views in the Django mixin and permission, its refinement of `Quota` |
| `DeliveryLog` | abstract specification: what claiming before processing promises |
| `WebhookIntake` | verify, claim, process and answer under retries, faults and key rotation; its refinement of `DeliveryLog` |
| `CatalogReload` | `reload_catalog` statement by statement, and the calls that read the registry meanwhile |
| `LocalCache` | the TTL cache used cache-aside by readers and writers |
| `MCGate`, `MCGateHistory`, `MCDjangoBridge`, `MCWebhookIntake`, `MCCatalogReload`, `MCLocalCache` | instances for TLC |
| `QuotaProofs` | theorems about the abstract promise |
| `GateProofs`, `GateRefinement`, `GateVerdicts` | theorems about the gate: types, refinement, what verdicts are worth |
| `BridgeProofs`, `IntakeProofs`, `ReloadProofs`, `CacheProofs` | theorems about the module of that name |

### AdmissionGate

`registry` is `Registry`'s four attributes; a plan is its set of features and a
quota per resource, `None` where `plan.limits` has no entry. `planOf` and `usage` are the
host's: the plan key of an entity and its rows. `req[w]` is the coroutine of one
request: the entity and its plan key as the `Depends` resolved them (the entity object
of a request is taken as a snapshot), the route's checks and the position in them, the
`limit_config.hard` it has read, and the resources it has been let through for.

An action is the code between two awaits, so a feature check is one action
(`CheckFeature`) and a limit check two: `BeginLimit` up to
`await counter.count(...)`, which reads the quota, and `FinishLimit`, which compares
it with the rows at the moment the database answers. `CountFails` is a counter
that raises, `SkipOther` a check with neither prefix, which the combined dependency
passes over. `Insert` and `Respond` are the route's handler; `Delete`,
`ChangePlan` and `ReloadCatalog` may happen at any point in between. A missing
feature, plan or counter ends the request with "error" (an uncaught `ValueError`).

### GateHistory

`ceiling` is the highest quota a request for an account was let through under,
`settled` says that neither catalog nor plan changed since the request started,
and `standing` that the account has been full, or has had room, ever since. No step
of the gate reads them.

### DjangoBridge

A view finds no loop, an idle one it drives itself, or the running one it was called
from; in the last case it submits the check to a pool of one thread, waits five
seconds and leaves the `with` block, which joins the thread. The mixin and the permission
differ only in what an exception does (`Swallows`): the mixin lets every `Exception`
pass, the permission only a `TimeoutError` out of `future.result`. On the
supported Python versions `concurrent.futures.TimeoutError` is the builtin one, so it also
takes one that the counter raised.

A request is `covered` unless the mixin lacks `pc_limit` or `pc_instance`, or the method at
the permission is not POST, PUT or PATCH. The others go on without a check
(`SkipCheck`); at the permission they only read (`Reads`), so they are no grant.
`FindNoEntity` is a `get_billing_entity()` that is missing (a `NotImplementedError` at the
mixin, a `RuntimeError` at the permission) or raises: both guards call it outside the `try`.

The loop is blocked while a view called from it
waits (`OnLoop`); views on other loops have threads of their own. Time is a
timer that may fire at any moment before the check has ended.

A consequence the model makes visible: after the timer has fired the worker is still
joined, so by the time the request goes on its verdict is known, and ignored, even
when it is a refusal.

### WebhookIntake

The intake of `webhooks/__init__.py` 25-38: `Accept` and `Reject` are
`verify_standard_webhook` on the copy a worker has read (`Authentic`: secret set,
drift inside the window, a matching part before any part that cannot be compared),
`Record` is `record_once` with the host's insert-and-commit, which the UNIQUE
constraint makes atomic, `Process` and `Answer` are the host's. `record_once` returns False
for whatever is an instance of `duplicate_exc`, so `host` says what the host passes and does:

* `bare`: `duplicate_exc` is raised by other constraints too, as the documented
  `IntegrityError` is. Then `Mistake` is a copy that is answered as a duplicate without
  any row, which `idempotency.py` 97-101 warns of: the event is dropped.
* `rollback`: the session is clean after a duplicate; without one (the default) it
  is failed (`AfterDuplicate`).
* `audits`: the handler makes a statement of the session before it answers a
  duplicate, and in a failed session that raises. The documented handler returns at
  once and answers 2xx either way.

`RecordFails` is an error outside `duplicate_exc`; the commit may have reached the database
all the same. `Break` is every other way to end without a 2xx that is heard: a crash,
an exception, a sender that stopped waiting. `DeliveryLog` has the matching switch,
`strict`: only a log that is not strict may mistake a delivery.

MACs are ideal: a part is the key whose MAC of that content it is, or something no
key produced. `drift` is `now` minus the timestamp. The network keeps one copy per
delivery, the last one; copies that workers hold are the older ones in flight. A request and
a row carry the `origin` of their copy: as the sender sent it, or from elsewhere.
No step reads it. `sent`, `applied`, `lost` and `mistaken` are history.

`InMemoryDeliveryStore.record` is the same claim under a lock instead of a constraint
(without a session, and forgotten when the process ends, as its documentation says).

### CatalogReload

In `AdmissionGate` a reload is one step, because nothing in it awaits. Synchronous
Django views run in threads, and there it is not: `StartReload`, `ClearFeatures`,
`ClearPlans`, one `PutFeature` or `PutPlan` per entry, `SetDefault`. The plans are a
dict, so `registry.order` keeps their order of insertion. `RaiseHalfway` is an
argument that is no dict of `Feature`s or `Plan`s; what has been cleared stays cleared.
The counters are taken from the registry and put back under their keys, which
changes nothing, and are left out.

`call[r]` is a call in another thread: `can()`, the guard of a view or a direct call
with overrides; the limit that `within_limit()` and `get_usage()` look up; and the
pages of the router, each a loop over a copy of the features (`/catalog`, `/plan`) or
over the limits of a plan (`/usage`). The pages are coroutines; treating every access
to the registry as a step of its own allows them more than an event loop does. `get_plan` is three accesses (`FindPlan`,
`ReadDefault`, `FindDefault`) and `which_plan_has_feature` a loop over the live dict:
its iterator remembers a position and the size, and raises `RuntimeError` when the size has
changed (`Hint`). `origin` and `settled`, and `seen` and `settled` of a call, are history.
`NamesAssumption` is about the model only: a question carries one name, which tells whether it
is about a feature or a resource. What overrides decide (`CheckOverrides`) is part of the
model, and has no property of its own: the decision reads no registry, so there is nothing for a
reload to disturb.

### LocalCache

A key is the sequence of segments that joining with ":" and splitting again gives, so an
entity id that contains ":" is one of several segments. Every method is one step
under the lock; the steps of the application are in between: `Load` after a miss,
`Change` before an invalidation. `left` is the time to `expires_at`; an entry is served
up to that moment, that is at 0, and no longer at -1. `Schema` is what the
application's keys look like: kind, id and, for a count, one segment of resource. `raced` marks an entry
whose value was computed before an invalidation and stored after it.

### Operators called slips

Next to some definitions stands a variant named as a slip (`UpToLimit`, `PassAny`,
`ExpireUnjoined`, ...). It is the definition with a plausible bug; putting it in the
definition's place breaks the property that PROJECT.json pairs it with. The
specifications do not use them.

## What the runs check

| Run | Instance | Shows |
|---|---|---|
| `gate_verdicts` | 2 requests, 1 entity, 1 resource (with or without counter), plan keys `free` and `pro`, 3 catalogs (tiers; `pro` withdrawn; no default and `pro` unlimited), routes of every shape, up to 2 rows | `HistoryTypeOK`; `VerdictMatchesStanding`: while catalog and plan stay put, no request is let through for an account that was full from its first check on, none refused that always had room; `SettledAdmission`: in the handler, what the whole route demands is granted |
| `gate_overshoot` | 3 requests, routes with one and two limit checks, quota 1, up to 3 rows per resource | `OvershootBounded`; `ImplementsQuota` |
| `gate_hard_blocks` | 2 requests, quota 1 | violated: "hard — block at this count" fails for concurrent creates |
| `gate_stale_quota` | 1 request, a reload between quota 1 and 2 | violated: a yes that was true at no moment of the call |
| `bridge_safety` | 2 views, covered or not, quota 0, 1, 2, unlimited or none, up to 4 rows, counters that return | `TypeOK`; `PassesAreAccountedFor`; `NoCheckLeftBehind`; `ImplementsQuota` with every pass without a verdict that may create as a grant under no limit; `EveryRequestAnswered` |
| `bridge_hung_counter` | 2 views, counters may hang | violated: "worker hung — infra failure, fail open"; the join never ends |
| `bridge_errors` | 2 views | violated: "everything raised BY pc.within_limit() itself ... must fail CLOSED", a `TimeoutError` of the counter's passes the permission before the timer goes off |
| `webhook_intake` | 2 workers, 1 delivery, 4 hosts (the documented one with and without a rollback, one that tells duplicates apart and audits with and without), rotation of one key, window 0 with copies one tick early, on time and late, altered headers | `TypeOK`; `OnlyGenuineIsHandled`: no altered or forged copy is handled or recorded, be its delivery sent or not; `ImplementsDeliveryLog`: at most once, no 2xx before the row or, at a bare host, a mistake; `EveryDeliverySettles` |
| `webhook_exactly_once` | 2 workers | violated: "handling each authentic delivery exactly once", the event is lost when the request that claimed it ends early |
| `catalog_reload` | 2 reloading threads, 1 reading, catalogs of 3 and 2 plans that share `free`, a feature in two plans of one of them, override lists with foreign, lapsed and contradictory entries | `TypeOK`; `LoneReloadReplaces`; `UndisturbedIsExact`; `NeverMoreGenerous`; `HintIsOfACatalog` |
| `catalog_atomic` | 1 reloading thread, 1 reading | violated: "The replace is atomic from the caller's perspective", a check in another thread raises on a feature that both catalogs have |
| `local_cache` | 2 readers, an item of entity `1` and one of `1:2`, 2 changes each, TTL 1 | `TypeOK`; `StaleOnlyByRace`; `EvictsTheEntity`; `StalenessEnds` |

`NeverMoreGenerous` has a condition, `Tiered`: the catalogs share their default
key, and the default plan is the least of each. Without it a reload can give
what neither catalog gives: a check that misses its plan in the cleared dict falls back
to the default plan, and if that is not the least one, or if its key is looked up in a
catalog that has another default, the entity is served by a higher plan than its own.
`LoneReloadReplaces` has one too, that reloads do not overlap: two that do leave a
mixture that stays until the next reload.

Three more disagreements show in the model without a run of their own:

* README 194-195 says that `WithinLimit` fails open when the check raises. It fails closed
  (`Swallows`), but for the `TimeoutError` of `bridge_errors`.
* `permissions.py` 107-109 says that the mixins have no catch-all. `mixins.py` 115-116 is one:
  a `ValueError` passes there (`OpenWay`).
* `registry.py` 96 promises "the lowest plan key" that has the feature. The code
  takes the first in the order of registration, and `UndisturbedIsExact` follows the
  code; the catalog `Tiers` of `catalog_reload`, whose first plan with the feature sorts
  last, tells the two apart.

### Bounds

Two requests are enough for one to act between any two steps of the other, which is
what verdict properties need; three make an overshoot of two, so the bound is not
met by accident. Two views are enough for one to hold the running loop while the other wants it, and
no step of a view reads the state of another except through the loop and the rows. Quotas 0, 1, 2, absent and unlimited cover the comparisons. `MaxRows`
bounds the rows a handler may insert to and exceeds every quota, so an account can
be over its limit; `InitRows` bounds the rows at the start. A row count that reaches
`MaxRows` stops inserts only: the request can still respond. Requests are symmetric: no
action compares them. One delivery is enough for intake, because no step of one
delivery reads or writes anything of another, except that it occupies a worker; two
workers allow an owner and a duplicate at once, and the safety properties are
proved for any number of both and any set of hosts. One reading thread is enough for `CatalogReload`, because no
call writes what another reads; two reloading threads, which TLC treats as symmetric, give every overlap, and two catalogs every
pair of old and new. A loop over the plans survives a reload when the dict has the size it had
before: it can, when the same catalog is loaded again, or when the larger one is half
filled. Two plans with a feature tell the first one from the others. For `LocalCache`, two readers let a late value overwrite a
fresh one, and an item that changes twice lets an invalidation meet values of any age.

### Fairness

The bridge and intake state liveness. In the bridge, `Scheduling` asks that a thread that can go on does
(operating system threads and timers, weak fairness) and that the running loop
takes the calls waiting for it in turn (asyncio's ready queue is first in, first
out; strong fairness, because the loop is blocked now and then). `CountersReturn`
is an assumption about the host, used by `bridge_safety` and dropped by
`bridge_hung_counter`. Arrivals, inserts by others and deletions are not fair.

In `WebhookIntake`, `Persistence` says what "every sender retries on any non-2xx"
(`idempotency.py` 3) is worth: the sender does not give up before a 2xx, and no fault hits
every time, be it a copy spoilt in transit, a failing statement or a 2xx that
is not heard (strong fairness of sending while a worker is free, accepting, recording
and answering); a request goes on or ends (weak fairness); a secret is configured.
A host that audits duplicates is asked to pass a rollback, as its retries would all raise
in the failed session, the last one too. To settle is to be told 2xx, with the event applied, or
lost by its owner, or mistaken: a bare host may settle a delivery by dropping it.
Faults themselves are unlimited and not fair. Senders that give up after a number of attempts
are outside the property.

In `LocalCache`, time passes, a reader that has missed computes and stores its value, and a writer
that has changed an item invalidates it (weak fairness each, of the clock and the
application's threads). Reads are not fair: nothing makes a stale entry be read out of the cache,
its time has to end. The changes are bounded by `MaxVersion`, which makes "the data no longer
changes" come true.

Every request of the gate takes a bounded number of steps; it has no liveness
property beyond that of its event loop.

## What is proved

Every safety property that a passing run checks, refinements and action properties
included, is a theorem, for all values of the constants that satisfy the named
assumptions. The runs came first, on the inductive invariants too.

| Specification | Theorems | Assumptions on the constants |
|---|---|---|
| `Quota` | `QuotaTypeCorrect`, `QuotaOvershootBounded` | the hypothesis `Parameters`, which each user of the promise establishes |
| `AdmissionGate`, `GateHistory` | `GateTypeCorrect`, `HistoryTypeCorrect`, `GateImplementsQuota`, `GateOvershootBounded`, `GateSettledAdmission`, `GateVerdictMatchesStanding` | finitely many workers, at least one; routes are sequences of checks; catalogs and row bounds of their types; `None` is no number and no plan |
| `DjangoBridge` | `BridgeTypeCorrect`, `BridgeJoinsItsCheck`, `BridgePassesAreAccountedFor`, `BridgeImplementsQuota`, `BridgeOvershootBounded` | finitely many views, at least one; quotas are counts, unlimited or none |
| `WebhookIntake` | `IntakeTypeCorrect`, `ForeignCopiesClaimNothing`, `IntakeImplementsLog` | `NamesAssumption`, `WindowAssumption`, `HostsAssumption`, `ForeignAssumption` (headers from elsewhere have no part of a key that counts) |
| `CatalogReload` | `ReloadTypeCorrect`, `ReloadLoneReplaces`, `ReloadUndisturbedIsExact`, `ReloadNeverMoreGenerous`, `ReloadHintIsOfACatalog` | a catalog's order lists its plans, each once (it is a dict); features and resources are told apart by their names |
| `LocalCache` | `CacheTypeCorrect`, `CacheStaleOnlyByRace`, `CacheEvictsTheEntity` | items follow the key schema (`Schema`): a kind, an id of one or more segments, a resource for a count |

The arguments:

* Quota. `OvershootBounded` is inductive together with `TypeOK`: it counts the grants
  outstanding, so an insert trades a grant for a row, and a new grant is given
  below a limit to an account with a slot left. The bound is proved once, on the
  abstract specification, and inherited by the gate and by the bridge through the
  refinement.
* Gate. `TypeOK` is inductive as it stands, because it includes that a suspended
  request is at a limit check. For the refinement, every step is a grant, a use, a
  drop, a deletion or a stutter of `Quota`; grants outstanding on an account map to
  the number of workers whose request has been let through for it.
* Gate, verdicts. `VerdictsInv` adds what a request remembers over its awaits: while
  neither catalog nor plan changed, the plan key and the quota it holds are those in
  force, and each check before its position is still granted (`MemoryIsCurrent`); a
  standing that is not "mixed" is the standing of now (`StandingIsCurrent`). Without the
  first, `SettledAdmission` is not inductive: it speaks of all checks of the route when
  the last one passes.
* Bridge. `BridgeInv` adds that a check gets to its counter only under a quota that is a
  number, that a request that only reads has no check (`CheckedIsCovered`), and that a view which is joining after its timer has raised the ceiling to
  unlimited. One lemma per action shows at once the invariant, the open ways of
  `PassesAreAccountedFor` and the step of `Quota` (`Kept`).
* Intake. `IntakeInv` adds that a claim has one owner, who has not processed the event
  yet (`SingleOwner`), that rows stay (`RowsStay`), that mistakes are made by bare hosts
  (`BareMistakes`) and that a copy in the network was sent unless it came from elsewhere
  (`AirWasSent`). The last one with `ForeignAssumption` makes `OnlyGenuineIsHandled` inductive.
* Reload. `RegistryInv` says where the registry's contents come from (`OfOrigin`) and
  what a reload that is alone has put there so far: the features gone through, and
  the first plans of its catalog in their order (`HoldsFirst`). At its end that is
  the catalog, with nothing left over. `ReloadInv` adds, for every call, what its step
  implies about its arguments (`Shaped`), that all the registry can hold is of catalogs
  the call has seen (`Informed`), and, when no reload has touched it, what it has found
  out about the catalog so far: the feature is there, the own plan is not, no plan before
  this position has the feature (`Undisturbed`). From these each answer is judged when
  it is given (`AnsweredOK`, `RaisedOK`).
* Cache. `CacheInv` adds the readings in flight to the entries: a value in the cache
  or on its way there is current, or its invalidation is due, or has overtaken it. It rests
  on `KeyInjective`: two items of the schema never share a key.
  `CacheEvictsTheEntity` compares a run of key segments with an id: such a run lies inside the
  id of the key, because the kind before it and the resource behind it are no segments of
  the id.

Two properties were wrong as first stated, and the proofs showed it. `HintIsOfACatalog`
compared the previous line of a page with the feature asked about next, which only a
catalog of two features tells apart; it now speaks of the moment an answer is
given, as `ByCatalog` says. `EvictsTheEntity` claimed too much: an entity
named like a kind or a resource ("plan", "projects") takes the keys of other entities with it,
and `Plain` says so. In the code's terms: `invalidate_entity("projects")` evicts every count of
projects, which costs a miss and no more.

Only model-checked: the liveness properties (`EveryRequestAnswered`,
`EveryDeliverySettles`, `StalenessEnds`), since fairness and ENABLED are out of TLAPS's
reach here; and the runs that expect a violation, whose counterexamples
are what they show. `First` positions (`Min` of a set of naturals) rest on the library's
well-foundedness of `<`; nothing else in the proofs is by induction over data.

## Not modelled

* `soft` limits and `grace_days`: the first only logs, the second is never read.
* Wording of 402 bodies, prices, names, metadata.
* The counts that `get_usage()` and `/usage` show: the same await as in `within_limit()`, with no
  verdict and no effect. The limits beside them are modelled (`CatalogReload`).
* The decoding in `signatures.py` (`derive_key`, `signed_content`, the integer of the timestamp):
  stateless; the model starts where a part is or is not the MAC of the secret in use.
* The no-op `invalidate_*` hooks of `PlanCraft`; `LocalCache.size()`.
* Configuration errors of the FastAPI dependencies (`get_entity` or `get_db` missing): always a
  `RuntimeError`. Those of the Django guards are modelled (`SkipCheck`, `FindNoEntity`).
* `gateways/` is empty; packaging scripts hold no logic.

## Plan

Done: the modules and theorems above. Next:

1. The counts of `/usage` beside the gate, where a reload and an insert come between two lines.
2. For catalogs that are no tiers, the strongest bound on what a half-filled registry can
   give: some plan of some catalog loaded during the call.
