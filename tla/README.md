# TLA+ specifications of SemanticMemo

SemanticMemo (`src/semanticmemo`) is a semantic cache in front of an LLM. A call of `get_or_call`
authenticates its user, resolves the scope it may read (a resource at its current version, the
tenant, or everyone), looks for a cached answer to a similar prompt within that scope, decides
whether the match is good enough, and otherwise calls the LLM once for all the callers that ask the
same thing. Answers are kept in a relational store and in a vector index; resources are invalidated
by raising their version; changes are announced to other nodes through a transactional outbox.

This directory holds specifications of its parts, the TLC configurations that check them on small
instances, and proofs, checked by TLAPS, that hold for every instance. `PROJECT.json` maps every
definition to the lines it stands for. Paths below are relative to `src/semanticmemo`.

## Inventory

| Part | State | Operations | Hard behaviours | What makes it correct |
|---|---|---|---|---|
| Distributed single flight, `concurrency/redis_flight.py` | lock and generation keys in Redis, rows in the store | `execute`, `_wait_as_follower` | a lock that expires under its owner, takeovers, lost connections and messages, cancellation, crashes | one holder up to a lapse, fenced writes, every call ends, few LLM calls |
| In-process single flight, `concurrency/in_process.py` | `_inflight`, `_flight_generations`, futures | `execute` | leader failing or cancelled with followers waiting, restart | one leader, no follower left behind |
| Outbox, relay, bus, consumer, `events/` | `outbox_events`, `processed_events`, the bus | `record_outbox_event`, `claim_outbox_events`, `run_once`, `handle_event` | crash between send and mark, overrun leases, claims of two processes that cross, partial failures, redelivery, buses that send nothing | what is published reaches whom the bus can reach, callbacks at most once, every event settles |
| Access control, `rbac/` and the tables behind it | users, roles, permissions, access lists, resources and versions | administration, `check_permission`, `resolve_scope`, `invalidate_resource` | changes between a check and the use of its answer; concurrent increments | answers only to readers, no crossing of tenants |
| Query path, `orchestrator.py` | local state of each call, entries, index points | `get_or_call`, `_find_hit`, `_is_entry_valid`, `_write_cached`, `_evict_if_needed` | late writes, stale index points, flights that overlap an invalidation, partial failures | isolation, freshness, no evicted answer |
| Relational stores, `store/sqlite_store.py`, `store/postgres_store.py` | all tables | `add`, `find_by_prompt`, `evict`, `delete`, RBAC, outbox, feedback | several processes on one database, few checks in one statement with what they guard | stale writes fenced where they do not overlap, monotonic versions |
| Vector indices, `embedding/service.py`, `embedding/qdrant_index.py` | FAISS or in-memory index per process, shared Qdrant collection | `add`, `remove`, `rebuild`, `search` | index and store drift apart; a rebuild drops concurrent additions; an eviction fails half way | points only for stored rows, in the end |
| Reconciliation, `events/reconciliation.py` | a report | `reconcile` | snapshot of the store used after it changed | what a pass came to is indexed; an evicted entry comes back only if a pass held it |
| Decision pipeline, `orchestrator.py`, `classifier/`, `domain_detector.py` | the threshold the classifier service holds, each query's scores and verdict | `_find_hit`, `_find_classifier_hit`, `_is_opposite_action`, `detect`, `reload` | scores at a threshold, thresholds from five places, the order of the gates, entries evicted in between | no accepted answer drifts or is the opposite, risk thresholds are honoured, refusals have causes |
| Entity change detection, `entity_change_detection.py` | none | `detect` and its eleven checkers | order of the checkers, one set inside the other, set iteration order | symmetric, sees every drift, answers |
| Feedback, `orchestrator.py`, the stores | lookups, events, counters, training pairs, open transactions | `report_bad_hit`, `report_good_hit`, `_detect_implicit_bad_hit`, `evict` | several statements per operation, evictions between them, write contention, transactions left open | counters match events, one flag per hit, reports kept, writes not blocked without a cause |
| LLM retries, `orchestrator.py` | attempt, backoff | `_call_llm` | bounds at the last attempt, cancellation | at most `max_attempts` calls |
| Retraining, `feedback/retrain.py`, `classifier/train.py` | models, measures | retrain, promote | none: an offline job | promotion gates |
| Store migration, `store/migration.py` | two stores | `migrate` | interruption and repetition | nothing is lost or doubled |
| Facade, HTTP API, CLI, telemetry, test support | counters, spans, options | construction, read-only endpoints | none of their own | steer nothing |

How they interact: the orchestrator calls access control, then the index, then the store, then a
flight manager, to which it passes three callbacks: the LLM call, the loader
(`store.find_by_prompt`) and the writer (`store.add`, index, eviction). An increment of a version
records an event in the same SQLite transaction; relays, one per process, publish events on the bus,
and consumers call an invalidation callback. All of these run as asyncio tasks in one or many
processes; store and index calls are synchronous, so a step of a model is what a task does between
two awaits or, where several processes share a store, between two calls of the store.

## Modules

| Module | What it is |
|---|---|
| `SingleFlight` | abstract contract of coalescing (`concurrency/protocol.py`): answers are one's own or shared, and only what was produced is shared |
| `RedisFlight`, `MCRedisFlight` | the distributed manager, with the store's generation check |
| `InProcessFlight` | the in-process manager |
| `Outbox` | events from the transaction that records them to the consumer's callback |
| `AccessControl` | users, roles, permissions, access lists and resources; permission decisions and administration |
| `ScopedCache`, `MCScopedCache` | `get_or_call` on top of `AccessControl`: the query path with its store and index |
| `VectorIndex`, `MCVectorIndex` | the indices of several nodes beside their store: start, rebuild, write, evict, reconcile |
| `Reading` | what the gates' patterns and word lists find in a prompt |
| `EntityChange` | the entity change detector as operators on a reading |
| `OppositeAction` | the opposite action guard as operators on a reading |
| `Decision`, `MCDecision` | one query after another through the gates, then the model with its retries |
| `Feedback`, `MCFeedback` | reports, implicit flags, counters and evictions of several processes on one store |
| `RedisFlightProofs`, `RedisCallsProofs`, `InProcessFlightProofs`, `OutboxProofs`, `ScopedCacheProofs`, `VectorIndexProofs`, `DecisionProofs`, `FeedbackProofs` | theorems and proofs |

`RedisFlight` and `InProcessFlight` implement `SingleFlight` by refinement mappings (`Abstract` in
each). `ScopedCache` extends `AccessControl` and takes of a flight what these two establish: a call
leads, or follows a leader of its key whose operation is under way, and gets its leader's result, a
stored row of its key, the flight itself after a lapsed lock, or its own result. Its `index` is that of
one node, and any point may be missing or left over; how that comes about is the subject of `VectorIndex`.
What it leaves open in the choice of a candidate `Decision` spells out for one process, without scopes and
flights; what a hit records is the subject of `Feedback`. `Decision` composes `EntityChange` and
`OppositeAction`, which both read prompts through `Reading`.

### RedisFlight
One flight key; a worker is one call of `execute`, and `pc` names the await it is at: the fast path,
`SET NX`, the recheck, `INCR`, the operation, the generation check, the writer, the publication, the
release, and the poll, look, relook, takeover and wait of the follower loop. `lock` and `gen` are the
two Redis keys, `rows` the entries of the flight's identity. A fault is an error of a Redis or store
call, a cancelled task, a crash, a lock that expires under its owner or a row that is evicted or
expires; `MaxFaults` bounds them. A deadline passing (`late`) is not a fault. In both
stores `add` looks for a newer generation and inserts in two statements, `Write` and `Insert`: in SQLite the
`SELECT` runs in autocommit, Python opens the transaction at the `INSERT`, and the `RLock` is one per
process. `CanWrite` are the workers whose user may write the cache. `tenures`, `lapsed`, `produced`,
`shared`, `execs`, and the fields `tenure`, `issued`, `done` and `stored`, are history.

### InProcessFlight
One key in one event loop. `inflight` and `future` are `_inflight` and the futures in it; the steps
from the call to the first await, and from the end of the operation to the resolution of the future,
are single steps because nothing awaits in between. `Restart` starts the process again with
generations from 1 on a store that kept its rows.

### Outbox
Relays claim the oldest due events, send them one by one, and mark the batch; `claim` and `todo` are
the locals of `run_once`. A lease that ends is `lapsed`, a delayed retry is `backoff`. `bus` is what
a deployment has. On `"memory"` the handlers run inside `publish_batch`, in the one process that has the relays and
the consumers, and their errors are swallowed. `"log"` is Kafka with a producer: what was sent stays,
and an application outside this repository reads it, since `subscribe` only stores handlers. `"mute"` sends
nothing and raises nothing: Kafka as constructed by default, without a producer, and RabbitMQ. If such an adapter
lacks its package, `publish_batch` raises instead (`SendError`).
`store` says how a claim is made: Postgres has one statement; SQLite selects, updates by id without another
look at the status, and reads again (`Select`, `Update`, `Reread`), and where several processes run, anything may happen in
between (`Split`). `crossed` are the events taken although they were no longer due. That the connection is left in a
transaction when such an `UPDATE` fails is `Feedback`'s subject.
`calls`, `applied`, `sends`, `dropped`, `overrun` and `crossed` are history.

### AccessControl
One action per administrative store call, each a transaction. `Allowed` and `AllowedOn` are the two
forms of `check_user_permission`: the administrator's bypass inside a tenant, the role permissions,
and the access list which, once it has an entry, replaces them. Removing its last entry hands the
resource back to the role permissions, as the code does. The queries of one permission check are one
step. Of the permissions, the two a query asks for are kept.

### ScopedCache
One prompt and one pipeline version. A call goes through `Call` (authentication and the caller's
tenant), `Authorize`, `Resolve`, `Search`, `Revalidate`, `Enter`, `Finish` and `Index`, or `Follow`;
each is one call of the store, the index or a flight, so anything may happen between two of them. An
answer is named by the call whose LLM call produced it, and an entry's metadata is that call's scope.
The decision pipeline is `Decision`'s; here it may refuse any candidate: `Search` takes any point in scope or none.
`Evict` is the eviction at the end of each write: expired entries if the policy says so (both
outcomes are allowed), then any entries above `max_entries`; the least-recently-used order is
abstracted to a choice. Failures after the row was stored leave the row without a point, or points
without rows. `Forget` is an entry's `expires_at` passing, or another process evicting it without
touching this index. `Select` and `Update` are the two halves of the SQLite increment as two
processes can interleave them; `Invalidate` is the single `UPDATE` of Postgres, or one process.
Merged steps: the second authentication inside `resolve_scope` with the first, and the two
permission checks of `can_write_cache` with the entry into the flight.
`epoch`, `begun`, `seen`, `entitled` and `gone` are history.

### VectorIndex
A node is a process with an orchestrator; its index is in its memory (in-memory or FAISS) or is the
Qdrant collection all nodes share, as `shared` says, and `listed` says whether the store's `evict` returns the ids
(SQLite) or a number (Postgres). A node starts (`Open`, `Ensure`, `Create`, `Load`, `Delete`, `Fill`: the
collection is made sure of, the store read, the collection deleted, made sure of again and filled),
writes (`Store` or `StoreRefused`, `Index`, an eviction, `Unindex`) and reconciles (`Reconcile`, `Check`, `Repair`,
`Reconciled`). Each is one call of the store or of Qdrant, except the eviction. SQLite selects what has
expired (`Evict`) and then what is above `max_entries` (`EvictOverflow`), and deletes row by row, each with a commit
of its own (`DeleteRow`); only at the end does it return the ids (`Evicted`), and an error half way loses those of rows already
gone (`EvictError`). Postgres deletes in two statements, each committed, and returns a number. The policy is the hybrid one, with or
without a time to live; the count and the `SELECT` of the overflow are one step. `Leave` is a stop, a crash or a start that failed.
The constructor's `auto_create_collection` is on, as by default. Reconciliation is called by operators
and tests, never by the program itself, so a pass may begin at any time and no fairness is assumed.
`missed` and `stray` are history: the rows that may lack a point and the points that may lack a row.

### Reading, EntityChange, OppositeAction
A prompt is a name. `Found` says which tokens each pattern of the entity detector finds in it, `Words`,
`Facts` and `Digits` what the rules of the opposite action guard look for, and `Within` which word is
written inside another, since those rules ask for substrings: "safe" is inside "unsafe". The patterns
themselves are not modelled; every combination of what they can find is, in the proofs.
A check of `EntityChange` returns the set of results a call can have, because the code takes "some" element of
a Python set, and "raised" where it takes the first element of an empty one. `Detect` follows the order of
the checkers; `Drift` says what they are for without that order.

### Decision
`stage` is the place in `_find_hit`, `_find_classifier_hit`, `_is_entry_valid` or `_call_llm`; one action per
gate: `Search`, `Baseline` (no classifier), `Score`, `ClassifierGate` (guard, threshold, bypass), `Encode`,
`EntityGate`, `Revalidate`, and `CallAnswers`, `CallFails`, `Wake`, `Cancel` for the retries. Nothing of a
query awaits before the model is called, but another process may `Evict` between two steps. A score is a
choice from a set with values on both sides of every threshold, in thousandths. `config` is what the cache
was built from; a threshold comes from the classifier's configuration, the facade's default, the checkpoint
(`Reload`), the policy's domain or its tier. `verdict` and `pair` are the `CacheDecision` and the training
pair the query leaves.

### Feedback
`pc` is the statement a process is about to run; every statement is a transaction of its own, in SQLite and
in Postgres, and every operation is several of them. All prompts are one prompt of one tenant, the worst
case for flags, and a miss ends a query: storing its answer is `ScopedCache`'s. `of` and `log` are the lookup
records, which leave with their entry (`ON DELETE CASCADE`), as their events do. `conn` and `writer` are
what a failed statement leaves on SQLite: Python opens a transaction before the first write and nothing
rolls it back, so after a violated foreign key the write lock stays taken, and after "database is locked" the
next read fixes what the connection sees. A write is refused behind such a lock, from such a past, or because
other processes write for longer than the busy timeout of 5 seconds (`Crowded`, a fault like a crash), as the class
comment of `SQLiteCacheStore` says it may. An eviction takes any entry: by age, use or complaints. On Postgres each statement commits or not, and nothing is left.
`short`, `contested`, `raced` and `overdue` are history.

## Runs

| Run | Instance | What it shows |
|---|---|---|
| `redis_safety` | 3 workers, 2 faults | `HeldUntilLapse`, `RowsOrdered`, `TimelyFencing`, `ExecutionsAccounted` |
| `redis_refine` | 2 workers, one without write authority, 2 faults | `EveryCallEnds`, `LockFreed`, and the refinement of `SingleFlight` |
| `redis_stale_leader` | 2 workers | violation of `StaleLeadersFenced` |
| `inprocess` | 3 calls, one without write authority, 3 faults | `OneLeader`, `NoOrphanFollower`, `OnlyOlderBootBlocks`, `EveryCallEnds`, and the refinement of `SingleFlight` |
| `outbox` | 2 relays, 2 events, 1 consumer, memory, log or mute bus, SQLite or Postgres, 2 faults, 1 where claims may cross | `PublishedReachesConsumers`, `ClaimsExclusive`, `DuplicatesAccounted`, `DeadLetterEarned`, `SettledForGood`, `EventuallySettled` |
| `outbox_exactly_once` | 1 relay, 1 fault | violation of `ExactlyOnce` |
| `cache_isolation` | 2 calls, 2 users of 2 tenants, 1 change of grants, 2 of resources, which may be registered again | `ReadersOnly`, `Isolated` |
| `cache_fresh` | 3 calls, one tenant, 1 change, a cache of one entry; increments in one statement, no resource registered again | `Fresh`, `NoGoneAnswer` |
| `index` | 2 nodes, 2 entries, 2 versions, 2 faults, memory or Qdrant, SQLite or Postgres, a cache of one entry | `NoSilentLoss`, `OrphansAccounted` |
| `decision` | 9 prompts, 3 entries, 6 configurations, 4 scores | `NoDriftServed`, `RiskHonoured`, `Symmetric`, `RefusedForCause`, `RetriesBounded` |
| `decision_raises` | the same | violation of `DetectorAnswers` |
| `feedback` | 2 processes, 2 entries, 3 queries, 1 report, 1 crash or contended write, SQLite or Postgres | `CountsAccounted`, `FlaggedOnce`, `ReportsKept`, `StuckForCause` |

`TypeOK` is checked once per detailed module, `AccessControl`'s as part of `ScopedCache`'s. The runs of `Decision`, where the next query
can always begin, check for deadlock; the others say `CHECK_DEADLOCK FALSE`, since their models end when
all calls have ended and no event is left.

### Why the bounds are enough to be interesting
* Three workers are what a takeover needs: a leader whose lock lapses, its successor, and one who
  follows either. Two faults allow a lapse and an error, or two lapses; the bound
  `1 + 2 * faults + ...` of `ExecutionsAccounted` is reached with one.
* `gen` starts at 0 or 1, so a flight key used before is among the initial states.
* Two relays and two events give overtaking, batches of one and of two, partial batches, expired
  leases and crossed claims. With `MaxRetries = 2` both the retry and the dead letter happen. Where claims may cross
  `MaxSplitFaults` allows one fault, since the crossing is none itself.
* Two calls are enough for one to produce and the other to receive; in `cache_fresh` a third one
  loads a row inside a flight that the second follows. `MaxEntries = 1` makes every second write evict. That
  run takes lost increments and repeated registrations away, since `Fresh` fails with either (see the proofs).
* Two nodes are what every drift of an index needs: one that rebuilds, evicts or reconciles and one that
  writes. `Limit = 1` lets a pass come to one row of two; a second version makes rows stale.
* The prompts of `decision` differ from a cached one in a single respect each: another quarter, another
  period, one more drug, a role, the opposite, a word inside a word, both sides of a rule; the scores are
  below, at and above the thresholds 850, 900, 990 and 995; the configurations differ in every option a gate reads.
* Three queries are what a flag needs: a recorded hit, and two that ask it again in two processes. One report
  is enough to meet an implicit flag of the same hit; two entries let one be evicted under a
  process while another one is counted.
* What the proofs cover is not bounded at all.

### Symmetry and fairness
Permutations of workers, of calls, of nodes and entries, and of the processes, entries and queries of `Feedback`,
are used in safety runs only. `Decision` and `Feedback` have no liveness property: a query that is called
again for ever, or a process whose connection is stuck, is what their invariants bound. In the liveness runs:
* `RedisFlight`: weak fairness of each worker's steps (the event loop resumes a task whose await is
  over; LLM calls end), of the passing of a follower's deadline, and of the expiry of a key (Redis
  drops keys with `PX`). No fairness for faults, and none that makes a message arrive.
* `InProcessFlight`: weak fairness of each call's steps.
* `Outbox`: weak fairness of each relay (polling for ever, started again after a stop), of leases and
  backoffs running out, and of delivery and callbacks of the in-memory bus. Nobody in this code reads the log,
  so nothing is assumed of its readers.

## Proofs

All theorems are of the form `Spec => P`, where P is an invariant, an action property or an abstract
specification, with a lemma per inductive invariant that takes one step per action. Every invariant, action
property and refinement of a passing run is proved.

* `RedisFlightProofs`, the lock and its tokens. `TypeCorrect`. `MutualExclusion`: `HeldUntilLapse` is inductive together with
  the types, because only three kinds of steps touch the lock: taking it while free, the release by
  its owner, and the expiry, which records the loser. `FencedWrites`: a stale generation lands on top of a newer
  one only if the two writes overlapped and one of the two workers had lost its lock. It rests on `FencedStore`: rows are
  stored behind the clock, and a worker between its check and its insert knows of every row that is newer than its
  own token that it came after the check (`Beside`); that one of the two has lost its lock by then is
  `MutualExclusion`. `TimelyWrites` adds `Tokens`: a token drawn while its worker held the lock is at most `gen`,
  and two such tokens are ordered as the tenures they were drawn in. Neither assumes that a check and its insert
  are one step, which no store gives between processes.
* `RedisCallsProofs`, what calls are given and what they cost. `Implements` rests on `Shareable`: what is
  stored is shared, and what a call is about to return is shared or its own. `SingleFlight` leaves open whether
  a call that returns has an answer at all; `ReturnsResult` closes that. `CallsBounded`, for a finite set of
  workers, is an argument about a budget: `CallsPaid` says that the LLM calls made, together with those that may
  still be made without a fault, are within the bound of `ExecutionsAccounted`. What may still be made
  is one call if there is no live row and nobody is sure to write one, or if a holder of the lock is about to draw
  its token (`SlotOpen`), two for each worker that lost the lock before it drew (`Strays`), and one for each
  worker past its deadline (`Lates`) or barred from writing (`Barred`). That needs tokens that come from `INCR`
  (`GensIssued`) and stamps behind the clock (`Stamped`), so that no lookup misses a live row (`HitOrMiss`).
* `InProcessFlightProofs`. `TypeCorrect`. `SingleLeader` and `FollowersHaveLeaders` follow from
  `Registered`: the call in `_inflight` is the one that operates, with an open future, and a pending
  future that someone awaits is in `_inflight`; that a call is cancelled only with a cause rests on `Blamed`: a
  cancelled future belongs to a call that was asked to stop. `OlderBootBlocks` adds that generations of the
  current boot are below the next one. `Implements`: every step is a step of `SingleFlight` or a
  stutter. `ReturnsResult` adds, as above, that a call that returns has an answer.
* `OutboxProofs`, for any relays, consumers, events, buses and stores. `TypeCorrect`. All else rests on `RunsSound`: a
  relay works on what it claimed, what it claimed is a `retry_count` the row has had, and only where claims may
  cross is a relay between the statements of one. `GivenUpLate` follows. `OneWorker` and `StaysSettled` rest on
  `OwnersMind`: unless a lease ended under a relay at work or claims crossed, what a relay has in hand is in processing and
  its own. `PublishedIsDelivered` rests on `Underway`: what a relay has sent of its batch, each consumer knows or
  has on its way; of a mute bus nothing is claimed. `DuplicatesBounded`, for finitely many relays, counts: `SendsPaid` pays each
  send with a claim, `CalledOnce` each call of a callback with the record made before it, and `ClaimsPaid` each claim with an
  occasion: the first one and one per fault, which serve one relay or, where claims may cross, each relay once
  (`Rivals`); those still to come are part of the sum (`Coming`).
* `ScopedCacheProofs`, for any number of users, tenants, roles, resources, calls and changes.
  * `TypeCorrect` needs `Bound`: calls that authorize or resolve name a resource, followers a leader.
  * `Isolation` rests on `Linked`: a scope is final once resolved (`Frozen`); rows, points, leaders and
    answers have final scopes; a follower's scope is its leader's; and an answer's scope matches the
    caller's. The flight key tells scopes apart (`SameKey`).
  * `OnlyReaders` rests on `Permitted`: whoever may read the resource of a running call is recorded,
    and only recorded calls are past authorization. A step that changes no grant entitles nobody
    (`NobodyEntitled`).
  * `Freshness`, assuming `OneStatement` and `~ MayRegister`, rests on `Versions`: a resource's version is
    one more than its invalidations, and a final scope carries the version at a moment of its call.
    The two assumptions are needed: with two processes TLC finds `Fresh` violated when `OneStatement` is
    `FALSE`, since their increments collapse into one, and when `MayRegister` is `TRUE`, since registering
    again sets the version back.
  * `GoneForGood` rests on `Departures`: what has left the store or expired never returns
    (`DepartedGrows`), and a leader's answer is not among what had departed when its follower began.

* `VectorIndexProofs`, for any number of nodes, entries and faults. `TypeCorrect` needs `Ids` (ids do not
  come back, a node that removes points holds no row, and one that has lost the ids of an eviction holds nothing). `Orphans` rests on
  `Strays`: what a node has in hand, unless it is evicting it, has a row or is a known stray. `NothingLostSilently` rests on `Losses`: what
  a rebuild under way does not hold is known as possibly lost before the collection is deleted.

* `DecisionProofs`, for any prompts, readings, entries, scores and configurations. `SymmetricGates` goes rule by
  rule and checker by checker. `AcceptedIsClean` and `RiskIsHonoured` rest on `Gated`: what each gate behind a
  candidate has seen still holds of it, since nothing a gate looks at changes before the verdict is used;
  `NoneIsNoDrift` says that a detector that answers "none" has seen no drift of any active kind.
  `RefusalsHaveCauses` rests on `Caused`, and on what each gate says of a prompt and itself (`OwnOpposite`,
  `OwnDetect`). `RetriesAreBounded` rests on `Paced`.
* `FeedbackProofs`, for any number of processes, entries, queries, reports and faults. `TypeCorrect` needs what each
  process has in hand (`Prepared`). `StuckHasCause` is inductive: the write lock is kept only after a violated
  foreign key, and a process that is refused, or whose connection is left in a transaction, has met that or has itself
  waited too long for other writers. `FlaggedAtMostOnce` rests on `OneFlag`: unless a
  query is contested, at most one process that may still write is about to flag it, and none
  once it is flagged; a process that sees an old state may find a flagged hit again, but is refused its write.
  `ReportsAreKept` rests on `Asked` (queries under way are apart and have no lookup yet, so that a lookup whose
  entry is gone stays gone) and on tables that only grow (`Grows`). `CountsAreAccounted` rests on `Tally`, the
  same equation for an entry and a set of kinds, counting what is between two statements as well, and on
  `Unanswered`: a query without a lookup has no events. The events are counted as the rows of their table, a
  set, so that no sum is needed; that the sets are finite is part of `Tally`.

Assumptions on constants are named in the module that declares them (`WorkersAssumption`,
`CacheAssumption`, ...) and say no more than that sentinels are not elements and numbers are numbers. Some theorems
assume more, each in its statement: `OneStatement` and `~ MayRegister`, and finitely many workers or relays where
they are counted.

Only model-checked: liveness, which is `EveryCallEnds` of both managers, `LockFreed` and `EventuallySettled`. Fairness and ENABLED are out of the prover's reach.

## Where the code and its documentation disagree

Each is a run that TLC finds violated, listed under `findings` with the quoted line.

* `redis_stale_leader`: the token is drawn after the lock, so a stale leader may draw the higher one
  (`redis_flight.py:113`).
* `outbox_exactly_once`: recorded as processed, never applied (`CHANGELOG.md:59`).
* `decision_raises`: the drug and privilege checkers take the first element of an empty difference and the query
  fails with `StopIteration` (`entity_change_detection.py:26`).

Met while reading or modelling, without a run of their own:

* Flights. `README.md:120` says that stale generations are rejected by the database. In both stores the
  check of `add` and its insert are two statements with nothing held between processes, so of two overlapping writes the
  stale one may land last; `RowsOrdered` says that this is the only way.
  Cancelling a leader cancels its followers, whose fallback catches `Exception` only
  (`in_process.py:41`; allowed by `CancelledForCause`). The next worker calls the LLM again after a
  leader whose user may not write the cache, which `ExecutionsAccounted` counts, while `redis_flight.py:111` speaks
  of exactly one execution.
* Versions. Two SQLite processes read, then write, a version, and an increment is lost
  (`sqlite_store.py:984`). Registering a resource again sets its version back and the rows of that version
  are served again (`sqlite_store.py:931`; `tests/test_production_chaos.py:189` rules it out).
* Events. The Kafka adapter without a producer, its default, and the RabbitMQ adapter send nothing, and the relay marks
  their events published (`events/bus.py:126`, `events/bus.py:179`). A claim is said to be atomic
  (`sqlite_store.py:1170`), but its `UPDATE` takes the rows an earlier `SELECT` found due, whatever another process has
  made of them: without any fault two relays may have one event, or a published one goes back to processing.
* Indices. The reconciler adds points and never removes one,
  so its `orphans_purged` stays 0 and drift of that kind does not heal (`README.md:123`). `ResourceService` calls
  `create_resource` and `increment_resource_version` with signatures `PostgresCacheStore` does not
  have, and the Postgres `evict` returns a number where `_evict_if_needed` iterates over ids.
* Decisions. The facade always gives the classifier a threshold (`cache.py:260`), so the high-risk MLP thresholds of
  `docs/decision_engine.md:57` are never used by a cache built through it; `RiskHonoured` speaks of an orchestrator given a
  service without one. A reload replaces a configured threshold by the checkpoint's (`classifier/service.py:70`). The
  bypass for high scores (`orchestrator.py:757`) skips the cross-encoder and the entity veto that `README.md:118` lists
  as stages. A prompt that takes both sides of a contextual rule is its own opposite and is never served
  (`orchestrator.py:1113`). "safe" is inside "unsafe", so the prefix rule (`orchestrator.py:1198`) never fires.
* Feedback. After "FOREIGN KEY constraint failed" an SQLite connection keeps the write lock until its next write, and
  after "database is locked" it may never write again. `sqlite_store.py:95` says that a competing writer is waited out,
  and `sqlite_store.py:67` that heavy contention can still raise once the timeout of 5 seconds elapses; neither says that
  a competitor may keep the lock, or that whoever was refused once may be refused for good.

## Plan

Done: the inventory, the flights, the outbox, access control and the query path, the indices, the decision
pipeline and feedback, each with its proofs. Left, in this order:

1. Postgres version increments and their event as two statements, joined to `Outbox`.
2. The order of a reconciliation's scan, which always starts with the oldest entries.
3. `Migration`: interrupted and repeated copies.

## Not modelled

Embeddings, similarity, neural scores and training (numerical: their outcome is a choice), the regular
expressions of the gates (what they find is an input), retraining and its gates (an offline job, one
comparison per measure), store migration (one-shot, offline), telemetry, the HTTP API and the CLI (they observe
or are one-shot), statistics and exports, benchmarks, scripts and tests. `PROJECT.json` lists each component
with its status.
