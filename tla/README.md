# TCO calculator: specification and proofs

TLA+ specifications of the TCO calculator's service, the TLC runs that check them on
small instances, and theorems about them checked with TLAPS for all values of the
constants. Paths without a directory prefix are under `src/rust/src/`. `PROJECT.json`
lists the components, runs, hazards, theorems and, for every definition that models
code, the lines it stands for.

## 1. The system

A Rust/axum API, deployed as one to three replicas of a container
(`infra/modules/container-app.bicep`), serves a Svelte client and a Windows
companion application. The replicas share nothing but Cosmos DB, where every
operation touches one document of one partition and is conditional on an etag or
not at all; there are no transactions across documents.

| part | state it keeps | operations | talks to |
|---|---|---|---|
| Price retrieval and parsers (`pricing/live.rs`, `loader.rs`, `http.rs`, `aws_*.rs`, `azure_*.rs`) | none | provider documents to a snapshot, with retries | lease owner |
| Price snapshots (`pricing/snapshot.rs`) | none: a snapshot is immutable and named by its content | create, check, look up | retrieval, store, calculation |
| Distributed refresh lease (`pricing/coordinator.rs`, `persistence/pricing_cache.rs`, `persistence/cosmos.rs`) | one lease document per cache key | claim, wait, retrieve, put, publish | snapshot documents, providers, flights |
| AWS snapshot documents (`persistence/cosmos.rs`) | a state document and one component per service | put, reconstruct, clean up | lease owners, calculations |
| Azure snapshot documents | one document per content hash | put, read | the same |
| Hot snapshot cache (`pricing/repository.rs`) | up to 256 snapshots per provider and replica, 15 minutes each | put, get, find, evict | coordinator, calculations |
| Coalesced refreshes (`pricing/coordinator.rs`) | a map from cache key to running flight, per replica | start, join, wait, complete, remove | requests, lease task |
| Shared refresh quota (`persistence/pricing_cache.rs`, `persistence/cosmos.rs`) | one document per identity and hour | consume | the refresh endpoint |
| Local limits (`rate_limit.rs`, `state.rs`) | a token bucket per identity, semaphores | check, acquire, lend | every costly endpoint |
| Project rules (`domain/`) | none | validate a project | saves, calculation, assistant |
| Calculation (`calculation/`, `api/calculations.rs`) | none | a project and two snapshots to rows and totals | snapshots, projects |
| Saved projects (`api/projects.rs`, `persistence/repository.rs`) | one document per project | create, get, update, delete, summarise | calculation, shares, launches, assistant |
| Project shares (`api/project_shares.rs`, `persistence/project_share.rs`) | one document per share, in a partition of its own | create, resolve, revoke, revoke all | projects |
| Calculator launches (`api/calculator_launches.rs`, `persistence/calculator_launch.rs`) | a map in the memory of one replica | create with a manifest, claim, acknowledge, purge | projects, companion |
| Assistant (`assistant/`, `api/assistant.rs`) | a transcript and budgets per turn | turn, image turn, draft, confirmed action | model service, calculation, projects |
| Privacy consent (`api/privacy.rs`) | one document per identity | read, upsert | web client |
| Web client (`web/src`) | a guest draft in the browser, the open project and its etag | edit, save, share, launch, update | API |
| Companion (`companion/src`) | the activation it was started with | claim, automate, acknowledge | API, a third-party page |

How they interact: a refresh request is counted by the quota, joins or starts a
flight, whose task competes for the lease; the owner retrieves the providers'
documents, parses them into a snapshot, stores it and publishes, the other replicas
read what was published. A calculation is made of a project and two snapshots, and its
revision is stored with the project under the etag that was opened. Shares copy the
project, launches bind to its etag and carry a manifest of its results, and its
deletion has to end both. The assistant proposes new projects and patches of saved
ones; a patch is applied by a request of its own.

**What is hard.** Interleavings of replicas at each round trip to the store; writes
that are applied and whose answer is lost, or that the client library sends again;
clock readings taken before a wait; leases, windows and documents that expire while
somebody acts on them; tasks that are cancelled or crash between two writes;
invariants between documents that no transaction ties together; providers that publish
between two documents of one retrieval; and rules that are checked in one part and
relied on in another, in other words and with other roundings.

**What makes each part correct.**
- *Lease*: one retrieval at a time; answers that are current for their request; what
  is published can be read; every refresh ends.
- *Snapshots*: prices never go back; the state can be reconstructed; a put answers
  with its own prices or later ones.
- *Retrieval*: a snapshot comes from one publication and lacks nothing silently, does
  not depend on the order of items, and what the parsers accept can be stored.
- *Flights*: one flight per key; no lost wake-up.
- *Quota and buckets*: an allowance was counted once; a refusal was due; no hour gets
  more than two windows' worth, no bucket more than flows in; a client that waits as it
  was told is let in.
- *Calculation*: what was accepted can be calculated; a target holds its source; a row
  accounts for what it lacks; totals are those of the rows; the shown figures
  reproduce the amounts.
- *Launches*: one waits at a time; one claimant; what was acknowledged stays erased;
  the manifest leads the public calculator to the shown amounts.
- *Projects and shares*: no lost save; results of the stored inputs only; no link
  outlives its project; savings are those of comparable rows.
- *Hot cache*: what is answered is behind Cosmos DB by no more than the life of an
  entry; usable prices are not withheld.
- *Assistant*: budgets hold; the image leaves before any tool runs; every turn ends; an
  action applies the proposal that was shown, once; a draft keeps what was given and
  discloses what was assumed.

The hazards behind these properties are listed, line by line, under `hazards`.

## 2. Modules

| module | what it is |
|---|---|
| `LeaseRegister` | abstract specification: a register that is granted, settled and forgotten |
| `RefreshLease`, `RefreshLeaseProofs` | the lease, the tasks of all replicas and the snapshots they store; implements `LeaseRegister` |
| `AwsSnapshotStore`, `AwsSnapshotStoreProofs` | the documents of one AWS scope under concurrent puts and reads |
| `SnapshotCache` | one replica's hot cache, the look-ups through it and the snapshots in Cosmos DB |
| `RefreshQuota` | the quota document of one identity |
| `ReplicaProofs` | the theorems about the cache and the quota |
| `RefreshFlight` | one replica's flights and waiters |
| `PriceSnapshot` | the rules of a snapshot, its canonical order and its look-ups |
| `PriceParsing`; `Ec2Prices`, `EbsPrices`, `RdsPrices`, `AzureMiPrices`, `AzureVmPrices` | what each provider document becomes |
| `PriceRetrieval` | the documents of one refresh, in any order and with any failures, and the snapshot they make |
| `HttpFetch` | one document: attempts, pauses, a streamed body and its projector |
| `PricingProofs` | the theorems about flights, fetches, the lease and the rows of an estimate, as the run `pricing` composes them |
| `PortfolioProofs` | the theorem about the totals of an estimate |
| `ProjectRules` | what a project must satisfy |
| `Costs`, `TargetSelection`, `VmTarget`, `Explanation` | the formulas, the choice of a Managed Instance and of a virtual machine, the steps that explain a row |
| `EstimateRows`, `Calculation` | the rows of an estimate; a request from its slot to its answer |
| `SavedEstimate` | the project list's summary and the companion's manifest |
| `CalculatorLaunch`, `CalculatorLaunchProofs` | one owner's launches, the companions that claim them and the project |
| `ProjectSharing` | saving, sharing and deleting one project |
| `ProjectProofs` | the theorems about projects and shares, and those about launches in the composition |
| `AssistantTurn` | one turn: classifier, model requests, batches of calls, budgets |
| `AssistantAction` | staging a patch and confirming it while pages save |
| `ProjectDraft` | the draft tool: what the model's arguments become |
| `RequestLimits` | token buckets and the assistant's slots |
| `AssistantProofs` | the theorems about turns, actions, slots and buckets |
| `MC...` | the instances for TLC, with their symmetry sets |

Conventions. One action is one round trip to the store, or one local step whose
order matters. `pc`, `editor`, `sharer`, ... say where an actor is; a final place is
its answer. Everything that may go wrong is in `Faults`, so that a run says what it
allows and a theorem holds for every subset: `outage` (an error, nothing done),
`lost` (done, but the answer does not arrive), `resent` (done, and done again by the
client library), `rejected` (a put that is refused), `crash`, `restart`. Operators
commented `seeded fault` are the mutations the properties have been tried against;
no specification uses them. An optional value is a set of at most one element. Amounts
are integers; where the code's decimals lose digits (a licence added to a 28-digit
price, a twelfth of the year's hours) the model keeps an integer that loses its last
digit, too. Clocks are shared: replicas of one deployment run on
synchronised hosts, and a clock that differs by less than the margin between
deadline and lease (30 s) shifts readings as the models' delays do. `MaxClock`,
`MaxTime` and `MaxVersion` are bounds of TLC's instances; the theorems hold for all
of their values.

How the modules fit together. Each module keeps the part of its neighbours its
properties depend on, as weak as the neighbour allows: for `RefreshLease` an AWS scope
is one value that a put replaces by a later retrieval (`StateAdvances` of
`AwsSnapshotStore`); for `SnapshotCache` a refresh is a retrieval of at most `CallTime`
ago that is stored, and a lease that reports one stored since (`FreshAnswer`,
`PublishedIsStored`); `ProjectSharing` and `CalculatorLaunch` each keep the etag of the
project they bind to. The pricing modules form one chain: `PriceRetrieval` EXTENDS the
parsers, which EXTEND `PriceSnapshot`; `EstimateRows` EXTENDS `PriceSnapshot`,
`ProjectRules` and the selectors; `Calculation` EXTENDS it, and `SavedEstimate`
EXTENDS `Calculation`.

*Runs.* There are twelve, six that pass and six that end in a counterexample
(section 3). Modules that share no state are explored one beside the other in one run:
its variable `side` says which of them a behaviour belongs to, and the variables of the
others stand still. A theorem about such a run is one about the composed
specification (`ProjectSpec`, `ReplicaSpec`, `MCSpec`, `PricingSpec`): the invariant of a
component is kept by its own steps and by those that leave its variables alone. Where a
component has theorems of a module of its own (`CalculatorLaunchProofs`,
`RefreshLeaseProofs`), the composition takes them over by INSTANCE, once its steps are
shown to be steps of the component.

| run | module | sides | distinct states |
|---|---|---|---|
| `lease_aws` | `MCRefreshLease` | - | 1,498,690 |
| `store` | `MCAwsSnapshotStore` | - | 5,056,558 |
| `project` | `MCProject` | sharing, launch | 4,109,884 |
| `replica` | `MCReplica` | cache, quota | 3,855,245 |
| `assistant` | `MCAssistant` | turn, confirm, limits | 2,344,431 |
| `pricing` | `MCPricing` | estimate, retrieval, fetch, flights, lease, draft | 430,134 |

A side's fairness is stated of its own variables only, and nothing fair of it is
enabled in the others: a side that is not explored has ended, and the clock of the
lease is at its last instant.
### 2.1 RefreshLease

`clock` is the time of `OffsetDateTime::now_utc` and of the deadlines; `lease` is the
lease document; `retained` what the snapshot repository can return; per task, `pc`
is the place in `refresh_aws_task`/`refresh_azure_task`, `doc` the lease document it
holds, `snap` the snapshot it retrieved. `StartClaim`, `Create`, `Read`, `Replace`
are the turns of `claim_refresh_lease`; `Wake` and `Timeout` are `wait_for_lease`
and the `timeout_at`s; `Fetch` is the waiter's read; `LoadSucceeds`, `LoadFails`,
`Put`, `PublishRead`, `PublishWrite` are the owner. `KeepsAll` distinguishes the two
providers: Azure keeps every snapshot under its hash, AWS the current one of the
scope. `OtherScopes` adds the puts of a refresh for another target region, whose key
and lease are different but whose AWS documents are the same. The stored documents
are one value here; `AwsSnapshotStore` opens them up.

*Abstraction.* `LeaseRegister` has no etags, attempts, faults or round trips: a
register that is granted when it is free, settled once by its owner before it
expires, and forgotten. `ImplementsRegister` is the refinement, under the mapping
that forgets what only the store needs.

*Runs.* `lease_aws`: two tasks, one attempt each, two contents, foreign puts and every
fault; two tasks are enough for every takeover, since a third meets the lease as the
second does. `MaxClock = 3` with a lease of 2 and a budget of 1 allows a lease to expire
while its owner works, be taken over and be settled by either. The lease side of
`pricing`: Azure, two attempts, outages, failed puts and crashes, a clock up to 3, for
`PublishedIsStored` where nothing is ever replaced and, under fairness, for
`EveryRefreshEnds`; lost and repeated writes and foreign puts are explored by `lease_aws`
and covered by the theorems.
*Fairness.* Weak fairness of the clock and of each task's next step. The runtime
polls a woken future, every call of the store ends within `OPERATION_TIMEOUT`, and
the retrieval within its deadline; a crash is not fair, and a crashed task has ended.
No fairness is assumed of the document's removal or of other tasks' success.

*Proofs.* `LeaseInv` is the inductive invariant of the lease: clock readings precede
their use (`ClockReadings`, `LeaseTimes`), an etag identifies a document
(`EtagsIdentify`), what a task is about to write was prepared from what it read
(`PendingWrites`), a settled document is its owner's (`OwnLease`), and a task that
retrieves holds the lease or its claim is older than a lease's life (`LoadHolds`).
The last is what `RetrievalUnderLease` needs: it is not inductive alone, because it
is the etag that stops a task whose view is old. `StoreInv` adds that what was
stored is only replaced by a later retrieval (`Covered`), for the snapshots, the
lease, the waiter's copy and the publication, which gives `FreshAnswer` and
`PublishedIsStored`. The refinement uses the same invariants, one step lemma per
action. Assumptions: the budget is shorter than the lease (120 s and 150 s), and the
sentinels differ from documents.

### 2.2 AwsSnapshotStore

`components` and `state` are the documents of one currency and region; `pc`,
`incoming`, `previous`, `stage`, `seen`, `index` are the locals of `put_aws`, in the
order of its calls: read the previous state, create or confirm each component
concurrently, create or replace the state (`put_document`), read what is current,
load its components, delete what was superseded. Readers follow the state to its
components. `Stop` is a failure, a cancellation or a crash anywhere.

`overlapped` is a history variable: whether two puts have been under way at once.
The lease keeps the puts of one target region apart, and nothing those of two.

*Runs.* `store`: three puts, one after another or at once, each stopped anywhere, one
service, two attempts to replace the state, a reader. Whatever overlaps, the state only
advances and no put answers with older prices than it brought; as long as puts did not
overlap (`SerialStateIntact`, `OnlySupersededUnreadable`) the state can be
reconstructed. Three puts are needed: one to be superseded, one to supersede and one to
come late. The services of a put are independent documents, so one shows what happens
to each. `store_split_state`: see section 3.

*Proofs.* `StateInv`: the state's etag grows with its time (`Versions`), and a put
past its publication has seen a state at least as late as its own (`Reached`), which
gives `StateAdvances` and `PutAnswersCurrent` for all interleavings. `SerialInv`, while
puts have not overlapped, adds that one put runs, that a put about to publish has its
components in place, and that what it read is still current; `ReadInv` adds what
readers remember. An overlap is never forgotten (`OverlapStays`), so the conditional
invariants are inductive.

### 2.3 SnapshotCache

`hot` is the map of `InMemorySnapshotRepository` for one provider, a set of entries with
their `inserted_at`; a full cache evicts one of those inserted at the earliest instant
(`Inserted`). `stored` is what
Cosmos DB holds of the scopes (the current state for AWS, every content for Azure:
`KeepsAll`); `req` the requests of the replica. `Find`, `Get`, `List` are
`resolve_*`, `get_*` and `list_latest_aws`: a look in the memory, then `Read` or
`ReadList`, then `CacheRead`, or one `CacheListed` per state that was read, each under
the lock, and `AnswerList`. `Store` and `CacheRefreshed` are the end
of an owner's refresh, `Wait` and `CacheWaited` that of a waiter, and `Recover` is what
a request does whose refresh failed at the store. `Publish` is a refresh of another
replica. A snapshot's id is the hash of its prices (`pricing/snapshot.rs`), so `Ids`
are contents that may be retrieved again and again. Every comparison has its own
constant: `HotAge`, `FreshAge`, `UsableAge`, `MaxHot`.

`started`, `fallback` and `settled` of a request are what the properties compare its
answer with: when and what it found in the memory, and what Cosmos DB had held for
longer than an entry lives when it looked.

*Runs.* The cache side of `replica`: AWS, two requests, two contents and a cache of one entry, so that
insertions of the other content evict; the ages 0, 1 and 2 and a clock of 3 reach every status and the
expiry. A call begins and ends within an instant of that clock, and an answer is not
kept for the next: the grain of the clock is 15 minutes, a call lasts at most two.
One scope: entries of different scopes share nothing but the bound, and the theorems
hold for any number of them. `cache_azure`: see section 3.

`KnownIsServed` speaks of the whole look-up: it fails, or answers nothing, only if nothing
usable was found in the memory. For a list of several scopes it does not promise an
answer per scope: the insertions of other scopes may evict an entry between the look
and the answer, and the fallback is taken for the whole list or not at all.

*Proofs* (`ReplicaProofs`). The inductive invariant is `CacheInv`. Its first part is
about retrievals: no snapshot is of the future, one document stands for an id or a scope
(`StoreInv`), and for all that is in the memory or on its way to it Cosmos DB has
something at least as late of the same id or scope (`Behind`, in `HotInv` and
`ReadsInv`), or, for a request, of what it wants (`FallbackInv`). Therefore what Cosmos
DB answers is usable whenever the memory's is, although its age is judged only after it
was cached: `UsableIsServed`, for both providers. Its second part is about when things
were inserted and read, and holds only where Cosmos DB keeps what is current
(`~KeepsAll`): an entry that is older than what Cosmos DB has was inserted before it was
stored, or within a call's time after (`HotLags`), because what was read is cached within
`CallTime` and what is read is current (`ReadLags`). Hence an entry young enough to
answer is not behind what was settled when the request looked (`KeptSince`,
`OldEntries`), nor is what Cosmos DB answered it (`OwnReads`, `OldReads`), nor, for a list,
the newest of the scope once every state has been inserted (`Current`, `ListInv`): a
later insertion may evict it, but what evicts it is of a time when it was no longer
needed. This gives `SettledIsServed`. The step lemmas go by what the steps have in
common: a request that looks, one that receives, an insertion, a put, the clock. They
need that the cache is finite and not above its bound (`CacheTypeCorrect`), of which
`InsertedBounded` counts the one eviction.

### 2.4 RefreshFlight

`flights` is the entry of one key in the map, `task` the spawned task, `result` the
`OnceCell`, `woken` the `Notified` future a waiter created before it looked at the
result. Requests come, join, wait and are dropped at any time. The flights side of
`pricing`: three requests, all interleavings, safety and liveness. Fairness: weak, of each waiter and
each task; the task has a deadline (2.1). `FlightsAreCoalesced` is proved in
`PricingProofs` by an invariant of its own (`FlightInv`); that removing by key removes
the right flight rests on it.

### 2.5 RefreshQuota

`quota` is the document, `limit` the setting of the replica the request came to (two
values: a rollout), `seen` and `asOf` what `consume_refresh_quota` read and when.
`Write` is applied and answered, applied and unanswered, or not applied. `Vanish` is
the time to live, in whole seconds (`Second`). The quota side of `replica`: three requests, two
attempts, limits 1 and 2, a window of four instants of half a second's grain, a clock
that goes to the end of the first window, so that windows turn while writes are on their
way.
`HourlyBound` is over any hour, not over a window: two windows may meet in it.

*Proofs* (`ReplicaProofs`). `QuotaInv` says of the document that it is the last window's, holds every
operation counted in it and lives as long as it (`DocumentInv`); of what has been counted
that windows do not overlap and are all over when there is no document (`CountInv`); and
of each request what its read was worth (`RequestInv`). The part that makes windows stay
apart is `NothingAt`: a request that read nothing may open a window later, but what was
counted before it read was of windows that were over, and whatever has been counted since
is of windows computed at most one call to the store earlier. With its write that makes
three calls, which `QuotaAssumption` keeps below a window. `RemainingLasts` is the rounding
of the time to live. `HoursAreBounded` then counts: `TwoWindows` covers an hour by two
windows, and each has at most the largest limit (`MaxIsGreatest`, since the library's
`Max` is a choice). The assumptions are that some request exists, that the limits
configured are positive and finitely many, and the lengths above.

### 2.6 CalculatorLaunch

`launches` is the map of each replica; `creator`, `asked` the create requests;
`companion`, `claim` the companion instances with their retries on 404
(`CalculatorLaunchClient.ClaimAsync`); `project` the etag of the saved project.
Creates, claims and acknowledgements read the clock before they wait for the lock:
`\E now \in since..clock`. The launch side of `project`: two launches, creates and companions on
one replica, lost and resent requests and restarts. The map of a replica is under one
lock, and no property here relates two replicas, so one is enough; `MaxClock = 2` and
a life of 1 let a launch expire before and after its claim.

*Proofs.* `LaunchInv`: a kept document is coherent (its fields fit its status, and its
version counts its moves), the requests remember what they asked for, a companion that
is about to acknowledge holds the version 2, and what was acknowledged is erased unless
the replica has restarted. The argument goes through two lemmas about one document,
`ClaimMoves` and `AcknowledgeMoves`: an operation leaves it alone or moves it one step,
whatever clock it read. `StoreMoved` lifts this to the maps of all replicas; a
create is different, for it finds the map without an active launch, at an earlier
instant than it stores, and expiry only grows. For any number of replicas, launches
and requests, all faults included; `MovesForward` is proved of every step.
`OneLaunchWaits`, `EtagsHold` and `ErasedForGood` of `ProjectProofs` state the same of
the composition that the run explores.

### 2.7 ProjectSharing

`project` is the document with its etag, `revision` and the saves it comes from;
inputs without prices have no revision. An editor opens, checks, calculates, reads
again and replaces (`update_project_document`, `CosmosProjectRepository::update`). A
sharer reads, creates, reads again, cleans up. A deleter lists and revokes, deletes,
lists and revokes. The sharing side of `project`: two of each, every call may fail or be repeated; two
inputs, one with prices. `share_orphan`, over `ProjectSharing` alone: see section 3.

*Proofs* (`ProjectProofs`). `DeleteInv`: from its deletion on, a delete knows the project gone
(`ProjectGone`), and every share that has been handed out is on its second list
(`AllListed`), since one stored later cannot be handed out any more. `SaveInv`: an
etag identifies a version (`Opened`) and the revision about to be stored was
calculated for the draft, or will be taken from the version it is compared with
(`Revised`). Both for any number of requests and all faults.

### 2.8 PriceRetrieval and the parsers

A refresh asks for a set of documents and ends in a snapshot or in one error.
`asked` is the refresh (provider and region), `got` the responses that have arrived,
`answer` what it came to. `Respond(d)` lets any awaited document arrive with any of the
bodies or failures its provider may give; `Settle` is the return of
`LivePricingLoader::refresh_*` once nothing is awaited, or once a failure decides the
result; `Deadline` is the `timeout_at` around it. What is awaited depends on what has
arrived (`Awaiting`): a manifest before the files it names, the first page of the retail
API before the next. `TryJoin` and `Join` are `try_join!` and `join!`: with the first a
failure ends the refresh while others are under way, so that which error is answered
depends on the order, and only that.

The parsers are operators from a document to `[rates, warnings]` or an error:
`Ec2Prices` (`aws_ec2.rs`), `EbsPrices` (`aws_ebs.rs`), `RdsPrices` (`aws_rds.rs`),
`AzureMiPrices` (`azure_sql_mi.rs`), `AzureVmPrices` (`azure_vm.rs`). Documents are
records of small integers and names; what is kept is which rows are skipped, merged,
refused or warned of, in the code's order. `PriceSnapshot` has the rules of
`pricing/snapshot.rs`, the canonical order of the rates and the look-ups, and a
snapshot's id, which is its content.

*Run.* The retrieval side of `pricing`: three AWS and four Azure regions, each with a
provider that varies in one part (the selectors' metadata and rows, the RDS offers, the
EBS meters; the retail pages and their links, the machines, the SQL prices, nothing
published), all orders of arrival and every document failing. `SnapshotIsWhole` asks that
the EC2 rates are those of the documents of one day, that every linked page was read and
that only what the provider does not have is left out, with a warning; `ParsedIsStorable`
that what the parsers accept passes the snapshot's own rules, up to four exceptions it
names (a zero price of AWS; a free licence of SQL Managed Instance, or a compute price
that differs between an option and the same option under the Hybrid Benefit, which
`calculator_option_rates` does not compare and `valid_azure_option_pair` does; a digit
that an amount of a virtual machine lost, see section 3); `OrderFree` that no swap of two items
of the retail pages leads to other rates, if it is accepted at all. A page holds up to eight items and a region up to three
pages, which is enough for a link that repeats, one that leaves the host, and a
page too many. `vm_rounding`: see section 3.

### 2.9 HttpFetch

One document, `PricingHttpClient` and the loader around it: `phase` is what the caller
waits for, `attempt` and `until` the retry loop, `received`, `channel` and `open` the
body handed to the blocking projector through a bounded channel, `notBefore` what the
provider's `retry-after` asked. `Send`, `Headers`, `Pause`, `Resume`, `Silence` are the
loop, `ReceiveChunk`, `HandOver`, `Broken`, `EndOfOffer`, `Joined` the offer's stream,
`Read`, `Project`, `EndOfStream` the projector.

*Run.* The fetch side of `pricing`: a budget of 8, a timeout of 4, three attempts, a
channel of two and four chunks; hints of 0 (none), 3 and 9, within and beyond the budget.
`FetchWithinBudget`: a request is sent within the budget and not before the instant the
provider asked for, times out within it, and a plain fetch has ended when its budget has. `FetchEnds`.
*Fairness.* Weak, of the clock, of the client's own steps (a timeout, the next attempt,
handing a chunk over, joining the projector) and of the projector. None of the
provider: headers and chunks may never come.

*Proofs* (`PricingProofs`). `FetchInv`: a send and a pause end within the budget; whenever
the request may be sent again the provider's delay is over; a plain request never waits
for a projector. `FetchesKeepTheBudget` holds for every budget, timeout, number of
attempts and set of hints, zero and hints beyond the budget included. The pauses are
powers of two, of which the proof needs only that they are integers: what bounds them is
the comparison with what is left of the budget.

### 2.10 Project rules, targets, costs, rows and calculation

`ProjectRules` is `EditableProject::validate`: the set of issues of a project, each a
place and a code. `TargetSelection` is `target_selector.rs`, `VmTarget`
`vm_target_selector.rs`, with every rejection and reason code. `Costs` is `cost.rs` and
`sql_payg.rs`. `EstimateRows` makes a row of a resource (`workflow.rs`): its source, its
target, its purchase options, its savings and what is unresolved; `Explanation` the
steps shown with it. `Calculation` is the request: `Busy` (no slot), `Named` and
`Load` (snapshots by id), `ResolveAws` and `ResolveAzure`, `Validate`,
`CalculateResource` once per resource in order, `Finish`. `Refresh` puts what was
parsed into the store at any time. An amount is a `rust_decimal` of 96 bits, whose
arithmetic panics when a result does not fit: the operators named `...Amounts` and
`...Quotients` are what a row, the totals and the comparison of SQL licences have to
represent on their way, and `Panic` ends a request without an answer. The bounds of the code that decide a branch are
constants (`IopsPerVcore`, `MaxNggpIops`, `FirstLimit`, ...), given small values. `LargestAmount` and `LargestQuotient` stand for
the range of a decimal, on the scale of the model's amounts and of its numbers without a
unit (`SavedEstimate` has a bound of its own for the digits of a manifest). A divisor is a
whole number, so that a quotient grows by its dividend only; steps whose figures repeat an
amount of the row are not counted again.

*Run.* The estimate side of `pricing`: nine Managed Instance shapes, six VM sizes, two
disk offers; single rows at complete prices, pairs of rows with feeds that lack a
rate, are stale, foreign or refused, and projects that miss a rule narrowly. `TargetsFit`:
a selected target holds its source, or the row says what it lacks.
`LargestAmount = 100000` and `LargestQuotient = 1000` lie above what the other projects
come to and below `LargeVolumes` and `LargeServers`, projects the validation accepts:
they overflow in a volume, in the sum of volumes, in power, in hardware, in a discount
and in the totals.
`AcceptedIsCalculable`: what passed the validation is never refused by a later check
(it may still panic, see section 3), and rates suffice for an amount whenever they are there.
`RowsExplained`: an amount is absent exactly when the row names what is unresolved.
`PortfolioAddsUp`: the totals are those of the rows that are compared, on both sides, and
Software Assurance breaks even at no more than either side.
`FiguresReproduce`: the figures each step shows give its amounts, every paid IOPS is paid
in one tier, and storage is the least number of units that holds the data. `selection_shortfall`: see section 3.

*Proofs* (`PricingProofs`, `PortfolioProofs`). `EstimateInv` says that a row is what `CalculateRow` makes of
its resource and of the inputs in hand, that the snapshots in hand are what their own
content makes (`StoredAws`, `StoredAzure`: they were validated when they were read, so that
their status is usable and their rates are sized), and that there are no rows before the
inputs are settled. The last part makes it inductive: a snapshot that came in after the
first row would change what the row is compared with. What remains is about one
row, for every resource, catalogue and price:

- `CalculatedRowExplained`: each branch of the two handlers (`SourcedMiRow` to
  `VmMappedRow`) accounts for what it leaves out; the parts of a row that
  `resolve_*_source` and `resolve_azure_*_costs` fill in do so separately
  (`SourcesAccounted`, `MiCostsAccounted`, `VmCostsAccounted`). Gives `RowsAreExplained`.
- `SelectedShapeFits` and `SelectedSizeFits`: the search for a tier's vCores reaches the
  smallest that suffices (`LeastNumber`, `LimitGrows`, `TierReaches`), only a tier without
  any lets the fallback lack something (`ClosestLacks`), the first of the candidates
  in the order they are ranked in exists and is no larger than the others
  (`FirstExists`, `BestIsNewest`), and a disk holds its volume whatever its increment
  (`RoundUpHolds`, `DiskHolds`). Gives `TargetsAreFit`.

`AcceptedAreCalculable` needs the values too. `AcceptInv` adds to `EstimateInv` that every
snapshot, stored or in hand, is the one `AwsSnapshot` or `AzureSnapshot` makes of a feed, that
there are rows only for a project without an issue, and that no request was refused from
within. The argument has four parts.

- A snapshot read back is made again of its own content, and must come out the same.
  `AscendingLists` (the canonical order is a permutation of the keys), `CanonicalReorders`
  and `CanonicalTwice` give `AwsIsStorable` and `AzureIsStorable`: the checks hold of the
  reordered rates, and a second canonicalization changes nothing.
- Rates that a snapshot let in are sound (`AwsIsSound`, `AzureIsSound`): not negative, disk
  tiers that rise, a complete purchase matrix, no licence dearer than its machine.
- What the validation let in is within the limits (`ValidSettings`, `ValidResource`,
  `ValidInput`), so that the selectors and the cost functions, which check again, accept it
  (`RowAccepted`, `SqlPaygAccepted`).
- The costs are then calculable: sums over volumes and disks have the type and sign of
  their terms (`SumExists`, `SumStep`, `SumUnique`, `SumType`: the folds of the community modules are
  recursive functions over finite sets, characterised here without induction over data), and
  the tiers of a disk, at most three, charge a number (`ChargedThree`, `TiersCharge`,
  `StorageCharges`).

`PortfoliosAddUp` is about sums of any length. A sum loses any of its terms, whichever the
fold takes first (`SumTakes`), so it is linear (`SumLinear`: the differences of the rows sum
to the difference of the two sums, each in parts of `Whole`) and over naturals it grows with
its index set (`SumMonotone`: what is compared is never more than all sources). For
that the amounts must be what the sums assume: no source is negative (`SourcesNat`, from the
rates, the limits of the input and the discounts; the tiers of a disk charge a natural number) and every
target is an integer (`MiInt`, `VmInt`, from the selected shape or size and its disks), and
the savings of a row are those of its two sides (`RowsSum`). `PortfolioInv` adds to
`AcceptInv` that an answer ends the request, so that no row follows the totals.

The four are theorems about the `Spec` of `Calculation`, which starts from any project of
`Projects` and any feeds of the types below, and not about the cases of the run. The
theorems about rows need the types of the data and nothing about its values (nor
`RangeAssumption`: a panic leaves the rows and the answer as they are):
`ProjectsAssumption` (the fields of a project and its resources, `domain/project.rs`,
`domain/resource.rs`), `SelectionAssumption` (the arithmetic of the IOPS limit, that the
keys of shapes order them, and that a shape has finitely many memory sizes) and `VmCatalogAssumption` (types, and one entry of a size in a
region: both catalogues are compiled into the program). The last one came out of the proof:
`TargetsFit` compares a candidate with the chosen size by its name, and a name means a
size only within the request's region. `AcceptedAreCalculable` also needs
`FeedsAssumption` (the types of the rate records, `pricing/snapshot.rs`), `LimitsAssumption` (the
limits of the io2 tiers rise: 32,000 and 64,000) and `WholeAssumption` (a discount is a share
of a positive whole); `PortfoliosAddUp` also `CorePriceAssumption` (the two prices of a core,
constants of `calculation/sql_payg.rs`).

### 2.11 SavedEstimate

Two readers of a saved revision: `Summary`, the row of the project list
(`ProjectSummary`), and `Manifests`, what the companion is given
(`api/calculator_launches.rs`), built of the same projects `Calculation` accepts.
`ManifestReproduces`: the public calculator, given the items, charges the amounts the
project shows, or the create was refused; its hours are a twelfth of the year's,
rounded and multiplied back as the code checks it. `summary_savings`: see section 3.

### 2.12 AssistantTurn

`context` is what the turn was asked with; `pc` its place in `run_turn`; `left` the
wall clock; `requests` and `toolCalls` its `TurnBudget`; `queue` the accepted calls;
`transcript` what the model still sees after compaction; `executed` the
`executed_call_ids`. `Ask` is a model request with its charge; the model may `Propose`
any batch from a menu, `Answer`, fail, or say nothing. `Accept`, `Repair` and `Refuse`
are `preflight` and what follows, `Dispatch` one call, `Abandon` the deadline between
two calls. `Classify`, `Classified`, `Undecided` and `Malformed` are the classifier of
an image before the turn, whose requests are charged to it.

*Run.* The turn side of `assistant`: five requests, five calls, two per response, two
attempts to classify, a wall clock of 4 and a call's timeout of 2, room for one round trip
in the prompt. The menu has a reading call, a proposal, a draft that is valid, one
that is malformed, one of another project type and an unknown tool, which reach every
branch of `preflight`.
*Fairness.* Weak fairness of the clock and of the host. The model need not answer:
`TurnEnds` rests on the timeouts.

*Proofs* (`AssistantProofs`). `TurnInv` = `RequestsCounted` (what was sent is what was charged),
`CallsCounted` (calls that ran and calls in the queue are within the charge),
`IdsApart` (queued and executed ids differ, and are pairwise different) and
`ImageHeld` (until a tool has run, the image waits for the next request or has gone with
one). `preflight` takes the first wrong call of a batch; that there is a first one is `FirstPosition`, by
well-foundedness of the naturals. `BudgetsAreKept` and `ImageIsSentFirst` hold for
every menu, budget and timeout.

### 2.13 AssistantAction, ProjectDraft and RequestLimits

`AssistantAction`: `selected` is the version a turn read, `previews` the proposals a
browser has, each bound by its hash to a patch and an etag; a confirmation names a
preview but may carry another's patch. `Get`, `Check`, `Write`, `Reread` are
`confirm_action`; other pages `Save` and `Delete`. The confirm side of `assistant`: two
confirmations, two fields of two values, three versions. `AppliesWhatWasShown` is an
action property: what a confirmation writes changes exactly the fields whose old and
new values were shown; `AppliedOnce`: of the proposals bound to one version, one is applied,
once.

*Proofs* (`AssistantProofs`). `ActionInv`: no turn and no preview is ahead of the project (`Behind`), a preview
of the current version shows what its patch changes in it (`ShowsTheVersion`), although
the tool read the project again after the turn had begun, and what a confirmation prepared
is the named version patched for as long as that version is current (`PreparedFrom`).
The conditional write then adds to `applied` only while the version is the one prepared
from. `ProposalsApplyOnce` and `WritesWhatWasShown` hold for every set of fields, values,
turns and confirmations.

`ProjectDraft`: `Read` decodes the arguments of `stage_new_project_draft` and brings
units to gigabytes, `Look` finds the memory of instances in the prices, `Stage` builds,
validates and reports. The draft side of `pricing`. `DraftIsFaithful`: what the schema
of a source let the model give is kept, whatever its unit; the memory of a machine is
given or catalogued; assumed IOPS, prices and spend are disclosed; arguments within the
schema are not taken for another source's; a selected project is not drafted over.

`RequestLimits`: the token buckets of `rate_limit.rs` with the cap of tracked keys, and
the slots of assistant requests with the blocking task that normalises an image and
outlives its request. Tokens are counted in units of a refill tick. The limits side of
`assistant`: four requests, one with an image, two keys of which one is tracked, one
slot, a bucket of one token that takes two ticks to refill, so that an entry is forgotten once it has
rested for more than four; the clock goes to 5. `SlotsCoverWork`: work under way and free permits make up the slots;
`GrantsBounded`: a key gets no more than its capacity and what has flowed in;
`RetryAfterSuffices`: who waited as told is let in, if nobody used its bucket meanwhile,
whether it was its bucket that refused it or the cap of tracked keys. At the cap the code
promises too much (see section 3), and the property names the exception: the requester has no bucket by
then, and as many other keys as the cap have checked since its refusal, or had checked with a
reading no earlier than its own.

A check reads the clock before the bucket's lock, and an entry that is full again is
forgotten at the cap of tracked keys. `stamp` is the clock reading of the last check that
left a key with an entry or without one, and `regained` what a later check with an earlier reading
gives back by turning the entry's clock to it. That includes a key whose entry has been forgotten: a
check that comes late gets a full bucket with an old reading, and what flows in from that
reading on flows in a second time. `GrantsBounded` without `stamp` would be false there,
though only from two keys and three requests on.

*Proofs* (`AssistantProofs`). `LimitsInv`: `SlotsKept` counts the permits by the set of
those who work (`Working`), which a request that is dropped while its image is normalised
leaves only when the task ends; `Allowance` is the bound of `GrantsBounded` with what the
key still owns added (`Owned`; an untracked key is as good as full, `ForgottenIsFull`);
`PromiseKept` says that a bucket that was told to wait will hold a token when the wait
is over, because the answer is rounded up; `RivalsKept` that every entry still there which is no
rival of a key that waits is older than it, so that at the cap it is forgotten first. The steps that charge are one lemma
(`CheckMatters`), over the arithmetic of a refill (`RefilledBounds`, `CheckAllowance`).
`SlotsAreKept`, `GrantsAreBounded` and `WaitingSuffices` hold for every capacity, period,
cap and number of keys and requests.

## 3. What the code does not promise

Six runs end in a counterexample; each finding quotes the text that says otherwise.

- `store_split_state`: two refreshes for different target regions put one AWS scope
  under different leases; one deletes a component the other has just found
  (`persistence/cosmos.rs:821`). The scope is unreadable until the next refresh.
- `share_orphan`: a share that goes while its project is being deleted ends the
  revocation half way (`persistence/cosmos.rs:416`).
- `cache_azure`: a calculation pinned to an old Azure snapshot puts it back into the
  hot cache, and for 15 minutes `find_azure_hot` answers it for its scope although the
  memory and Cosmos DB hold a later one (`pricing/coordinator.rs:352`). AWS is spared,
  because Cosmos DB has no old snapshot to read back.
- `selection_shortfall`: a source beyond every shape's memory gets the shape nearest to
  its vCores in absolute distance, and the row says that the tier does not offer its
  vCores on that hardware although a shape of the tier and hardware does (`calculation/target_selector.rs:339`).
- `vm_rounding`: a licence added to an hourly price of 28 digits loses one, and the exact
  pair rule then refuses the region (`pricing/azure_vm.rs:536`).
- `summary_savings`: the project list subtracts the cost of the priced targets from that
  of all sources (`api/projects.rs:297`), so unmapped rows appear as savings.

Known gaps without a run of their own, seen while modelling. They are stated here as
the models have them; the properties are worded so as not to hide them.

- *Launches.* A repeated create has a new `generated_at` in its manifest, hence another
  hash, and is answered 409 (`api/calculator_launches.rs:118`;
  `research/azure_open_calulator.md:403` expects the launch). A launch created between
  the purge and the deletion of its project stays claimable until it expires
  (`api/projects.rs:191`). Launches of one replica are unknown to the others
  (`state.rs:220`), where a repeated create even brings back one that was consumed; they
  stay in the map for the replica's life (`persistence/calculator_launch.rs:333`).
- *Manifest.* 8,000 hours a year are accepted although a twelfth is no finite decimal,
  because twelve times the rounded quotient rounds back
  (`research/azure_open_calulator.md:605` asks for "Exact decimal or block"); cached
  prices and targets chosen by the capacity fallback are accepted, too.
- *Refresh.* An owner whose durable put fails answers without publishing, so that its
  lease runs on and every waiter spends its budget (`pricing/coordinator.rs:550`). A
  request that joins a flight between its completion and its removal is answered by a
  retrieval that was over (`pricing/coordinator.rs:417`). A panic in the spawned task
  would leave its flight in the map.
- *Retrieval.* Of two rates with the same key the latest date wins, a future one
  included, and whether a superseded date conflicts depends on the order of items
  (`merge_latest_rate`; `OrderFree` compares what is answered). An item that moves between
  two pages while they are read is lost or repeated unnoticed. A single zero price of AWS or a
  free licence refuses the snapshot, more than 32 pages the region. When RDS is absent
  its fee index is not looked at. AWS snapshots may hold two rates of one look-up; the
  first is used. The projector may run past the fetch's budget, since it is joined.
- *Amounts.* Validation has no upper bound on a volume's capacity and throughput, on the
  price, power and electricity rate of a server, on the price of a licence pack and on the Software Assurance spend
  (`domain/project.rs:267`, `285`, `390`, `422`, `474`, `491`, `624`, `639`, `668`), and years and memory
  may be any fraction above zero. A product or quotient of them beyond the 96 bits of a decimal panics
  (`calculation/cost.rs:191`, `283`, `420`, `calculation/sql_payg.rs:150`); nothing catches it, so
  the connection closes without a problem document and nothing is saved. The model has the
  large factors; the quotients by a minute fraction (years, or memory in
  `calculation/target_selector.rs:451`) are beyond its whole numbers.
- *Rows.* `managed_disk_price_is_complete` and `resolve_managed_disk_monthly` disagree on
  what a complete price is (`calculation/workflow.rs:1339-1387`). Counts of comparable,
  unmapped and unavailable rows do not partition the rows. The savings by component of
  an on-premises source leave out electricity. Two branches of the workflow (an unconfirmed
  role, an incomplete store) cannot be reached by a valid project.
- *Assistant.* An action that was applied may be answered 412 when its answer was lost
  and it is sent again. Notes may come from a later call than the proposal. A draft drops
  values that do not apply to the resource's type without a note, defaults a gp3 system
  disk to 3,000 IOPS without one (`docs/EC2-VM-TCO-SPEC.md:728`), and always assumes 8,760
  hours and the hybrid benefit, where the help text (`assistant/help.rs:137`) speaks of
  the project's defaults; `DraftIsFaithful` asks of these only what its comment says.
- *Limits.* The bucket's clock is read before its lock, so that time may go back by
  what a request waited; `GrantsBounded` allows for it (`regained`). A requester without
  an entry that is refused at the cap is told to come back when the entries of that moment
  may be forgotten (`rate_limit.rs:126`), and is refused again if others have filled their places;
  `RetryAfterSuffices` excepts exactly that (`rivals`).

## 4. Proved, checked, not modelled

*Proved for all constants*: the theorems listed in `PROJECT.json`. They state every
safety property the runs check of `RefreshLease`, `AwsSnapshotStore`, `SnapshotCache`
(`SettledPricesAnswer` for AWS only), `RefreshQuota`, `RefreshFlight`, `HttpFetch`,
`CalculatorLaunch`, `ProjectSharing`, `AssistantTurn`, `AssistantAction` and
`RequestLimits`, four of the five of `Calculation` (`RowsExplained`, `TargetsFit`,
`AcceptedIsCalculable`, `PortfolioAddsUp`; for its own `Spec`, whatever the projects and
feeds), the type correctness
of the first three, of the quota, of launches and of projects, and the refinement of
`LeaseRegister`. They assume the ASSUMEs of their modules and nothing else.

*Model-checked only*:
- liveness (`EveryRefreshEnds`, `EveryRequestEnds`, `FetchEnds`, `TurnEnds`), which is out
  of the proof system's reach together with ENABLED;
- what compares a computation over a document, a catalogue or a project with a
  reference: `SnapshotIsWhole`, `ParsedIsStorable`, `OrderFree` (the parsers fold over
  items, and the induction over a sequence cannot be instantiated by the provers),
  `FiguresReproduce` (what the figures of a step add up to, and what each IOPS costs in its
  tier: it counts unit by unit, which is an induction over the number of units, and its
  on-premises quotients are exact only for the amounts of the instance, integers that
  stand for decimals), `ManifestReproduces` (which rounds by powers of ten), `DraftIsFaithful`,
  over the instances of sections 2.8 to 2.13;
- `AnswersUsable` is no property of a run: `UsableIsServed` is about the same ages.

*Not modelled.* The text of things: JSON, reading numbers and names, wording, URLs, sizes
in bytes (they appear as `rejected`, or as documents that cannot be read). The privacy
consent (one document upserted whole, the last write wins), the read-only endpoints,
authentication, configuration and routing, the serialisation for the model service, the
web client's page state, the companion's browser automation, research scripts and
infrastructure: they keep no state between requests, or act on the outside only. The
secret of a share and the owner of a document are part of its name: one owner is
modelled. The recreation of a state document that vanishes is left out because nothing
deletes it.

## 5. What is left

1. A statement of `FiguresReproduce` that does not depend on exact quotients, and with it
   the last proof about the calculation.
2. A refinement of the put of `SnapshotCache` and of `RefreshLease` to the documents of
   `AwsSnapshotStore`, which so far is argued by property only.
3. The web client: guest draft, open project, its etag and the update of the
   application while edits are unsaved.
