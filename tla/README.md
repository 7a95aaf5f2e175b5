# statdash: specifications, checks and proofs

TLA+ models of the parts of statdash where steps of several actors meet: the
ingest pipeline, the uploads that drive it and the gold tables it writes, release
vintages, the configuration and its authoring, the boot read, and the client's read
path from the page's state to the rows a node shows. TLC checks small
instances (`*.cfg`), TLAPS proves theorems for every value of the constants
(`*Proofs.tla`). Paths below are relative to `src/`; `api/` stands for
`platform/apps/api/src/`, `core/` for `platform/packages/core/src/`, `V25` for
the migration of that number in `ops/postgres/migrations/`.

    tlc  -config IngestRaces.cfg IngestPipeline.tla
    tlapm IngestPipelineProofs.tla

`PROJECT.json` lists every run with its module and configuration, maps each
definition to the lines it models, and names the hazard each property is for.


## 1. The system

    browser                     API process(es)                PostgreSQL
    ---------------------       --------------------------     ------------------
    panel  ---- config -------> routes/config  (pages ...)  -> config.*
       |                        provisioning at boot        -> config.*
       |  localStorage: drafts
       +------- uploads ------> routes/ingest, canonical (behind the bulkhead)
                                   | setImmediate
                                   v
                                ingest/worker (drain)       -> stats_stage.*
                                ingest/publish              -> stats.* (gold)
                                   ^                             triggers: stamp,
       curator publish/reject -----+                             capture, path
    public site                 routes/bootstrap            <- config.*
       react/engine (rows of a node, a promise each)
       core/data store-api ---> routes/stats (ETag)         <- stats.*
       core/data fetch-scheduler (every request goes through it)

| Component | State | Operations | What is hard | What makes it correct |
|---|---|---|---|---|
| Ingest pipeline (`api/ingest`, `api/routes/ingest`) | a job row and its blob, staging rows, `claimed_at`, row locks | submit, drain (claim, parse, persist), boot sweep, publish, dry run, reject | several drains and requests; two statements per POST; a crash leaves a claim; the terminal UPDATE of a drain names only the id | one drain per claim; gold holds the published jobs, once, and only gated ones; an accepted job settles |
| Release vintages (V25, V8, `api/ingest/publish.ts`, `api/routes/stats`) | the single-valued cube, the revision log, releases and `published_at` | open, write a member, publish, read as of | the past is put together from the present and a log; `published_at` is the beginning of a transaction | a published vintage never changes; as-of is determined; now is the cube |
| Release bundles (`api/ingest/publish-bundle.ts`, `api/routes/stats/releases.ts`) | `release_id` and status of each member | attach, publish member by member, finalize, reject | a transaction per member; a member fails in the middle; attach while publishing | the release is published last, after all its members, and closed then |
| Reference data (`api/ingest/upsert.ts`, V6, V18, V23) | versioned classifier rows, overlays by row id | relabel (close and insert), hierarchy path, overlay join | close and insert are two statements; a waiting UPDATE re-evaluates its row | one current row per code; history stands; what is published is served |
| Pages and boot manifest (`api/routes/config/pages.ts`, `api/provisioning`, `api/routes/bootstrap`) | page rows, append-only versions, the live one | create, save, publish, archive, provision; boot with ETag | two lock orders; the ETag is a maximum of timestamps of transaction starts | one live version; a 304 leaves the client with what it would be sent |
| Fetch scheduler (`core/data/fetch-scheduler.ts`) | slot counter, waiter queue, in-flight map | schedule, acquire, release, retry with backoff, share a run | slots are handed over in callbacks; backoff gives the slot back; followers share a promise | no slot leaks, one run per key, every call settles |
| Observation cache (`core/data/store-api.ts`, `api/routes/stats/observations.ts`) | slices with a TTL, one ETag per dataset | conditional and plain reads, 304, 200, failures | version and rows are two statements; headers and body two steps; many slices share a validator | rows are not older than their tag; what is revalidated is what would be sent |
| Page data (`core/graph`, `core/data`, `platform/packages/react/src/engine`) | the page's state; one memo per node, or one promise per key for all nodes | change the state, read a node, render, wake, retry, rebuild the store | what a node reads is found by static analysis, and put into a key by another analysis; a render may meet a promise of another page state or store | a node shows what it derives from the page as it is; an outcome is of the store in use; every node settles |
| Canonical upload (`api/routes/ingest/canonical*.ts`, `api/ingest/version-mint.ts`) | the structure of the dataset; otherwise it drives jobs | check the structure, codelists and displays to gold, mint a version, facts to staging | several uploads and a curator; a request that fails, times out or dies half way, and is repeated | facts wait for review with their members in gold; an answer 202 is true; every client is answered |
| Bulkhead (`api/lib/bulkhead.ts`) | slot counter and queue | run, shed | hand-over of a slot | it is a gate; the counter is the tasks at work |
| Rate limiter (`api/lib/rate-limit.ts`) | a window per key | check, sweep | window boundary | a budget is kept |
| Data specs and revision log (`api/routes/config/data-specs.ts`, `api/lib/revision-log.ts`) | current row and numbered snapshots, row locks | create, update, restore, delete | a restore reads before it locks; a body is normalized when it rests | what is written is filed, once, in order, and a restore names its source |
| Provisioning (`api/provisioning/loader.ts`) | config tables | apply a manifest | entry by entry, several processes at boot | applying twice is applying once |
| Constructor panel, data specs (`platform/apps/panel/src/store`) | drafts (base and current), the list as read, localStorage | edit, publish, discard, restore, reload | edits during a request; tabs that share a storage; answers that are lost; drafts rehydrated before the list is read | what is shown without a draft was published; discard shows what the server had |
| Constructor panel, pages | canvas, undo and redo | edit, save, publish, open, undo | edits during a request | no edit is shown as saved that is not |
| Core engine, expressions, charts, React | none, or caches of pure functions | interpret a spec over rows | equivalences between dialects of a spec | the same figures by every route |

The others (users, audit log, observability, exports, the public site's
configuration, operations scripts) keep no state these depend on;
`PROJECT.json` lists them with the reason they are left out.


## 2. The models

PostgreSQL runs at READ COMMITTED. In all models of the server a statement is
a step, reads committed data and its own transaction's writes; a row that an
open transaction has written makes other writers wait, and a waiting UPDATE is
re-evaluated on the committed row. Requests of one process interleave at every
`await`.

**IngestPipeline** (with **SubmissionLifecycle**, **IngestPipelineProofs**). `post`, `payload`, `dry`, `job`, `blob`, `claim`,
`silver` are columns of `stats_stage`; `lock` is the row lock of an open publish
transaction; `worker` and `curator` are the program counters of drains and
requests; `wake` counts the `setImmediate` callbacks that have not run. History is
`landed`, how often a job was promoted; `contested`, the jobs that got a request while
another had them in hand; and `overdue`, those a sweep re-queued under the hands of a
drain. The last two restrict no step: they are what the properties name as exceptions. A POST is `CheckDuplicate`,
`InsertHeader`, `InsertBlob`; a drain is `StartDrain`, then `Claim`, `Parse`,
`Persist` or `MarkFailed` per job; `CrashWorker`, `Boot` and `Age` are the death
of a process, the sweep at its restart and the visibility timeout. A publish is
`CheckStaged`, `BeginPublish`, then `CommitPublish`, `RollbackDryRun` and
`Restage`, or `FailPublish` and `MarkPublishFailed`. What a parse makes of a
payload is an input (`Verdict`). SubmissionLifecycle is the status machine the
comments of V11 describe; it is the abstract specification. A job leaves it for
`disputed` at the step that brings a second curator or drain to it, and not otherwise.

**FetchScheduler** (with **AdmissionGate**, **ReadPathProofs**). Calls are
`schedule()` invocations; `active`, `waiters` and `inflight` are the fields of
the class. `Lead`, `Join`, `ScheduleRaw` are the synchronous part of
`schedule()`; `Settle`, `ReceiveTransient`, `BackOff`, `Wake` are the attempts of
a run, `Clear` and `Follow` the reactions to its promise. A delay is a state a
timer ends some time. AdmissionGate is a FIFO gate without bookkeeping: the
abstract specification.

**ReleaseVintage** (with **VintageLedger**, **ReleaseProofs**). `cube` and
`log` are `stats.observation` and `stats.observation_revision`; a write stamps
the release and captures what it replaces as the triggers do, restamping
unchanged rows without a capture. `AsOf` is `buildAsOfSql`. From its first write
a publishing transaction holds the row of `stats.dataset_version`, so the writes
of two never mix and a transaction is a `Begin` step, which takes `now()`, and a
commit. Transactions overlap, submissions restate figures, members land when their bundle
is out, two bundles are open at a time: no code forbids any of it. What that does to a
series is in the history `tangled`, the series to which one of five things has
happened: `Restated`, `Late`, `Rivals`, `Backdated`, `Bypassed`. VintageLedger is the
promise of ADR-0025: publishing files the public figures as a vintage, for ever; a series
that is disturbed is struck from it by the step that disturbs it.

**ReleaseBundle** (**ReleaseProofs**). The loop of `publishBundle()`, single publishes, attach and
reject, over `status` and `release_id` of each submission, interleaved at every `await`.
`contested` is history: the members that two requests have had in hand at once.

**Codelist** (with **MCCodelist**, **CodelistProofs**). `gold` holds classifier rows, current and
retired, `overlay` the display overlay of a row id; `job[j]` is a submission with
what its transaction has closed (`closes`), inserted (`news`) and bound. A member
is published by `Find` (snapshot of the UPDATE), `Close` (its row lock) and
`Insert` (the partial unique index: wait, then do nothing if a row is current),
parents first; `Bind` and `CommitDisplays` are the overlay join. `rival` is
history: the codes other transactions committed meanwhile. A row's id, a serial in
the code, is the submission and the code: no transaction inserts a code twice, so no two
rows share one. Payloads agree on the
parent of a code (`ParentsAgree`): moving a member is left out, see section 6.

**PageManifest** (**ConfigProofs**). Transactions take row locks in the order of the code (`Begin`,
`LockPage`, `ReadHead`, `Promote`, `ProvisionHead`, `MarkVersions`, commits);
`updated_at` is the transaction's `now()`. The UPDATE that promotes a version takes its
snapshot when it starts (`StartMark`: `seen` is the latest version in it), then waits
for the version rows (`MarkVersions`), and demotes the rows of its snapshot only
(`Marked`), as READ COMMITTED does: a version inserted and committed during the wait is
left as it is. A boot is `Probe` (the ETag statement, compared with the
client's) and `ReadManifest`. `orderly` is history: has the ETag grown with every
change so far?

**ObservationCache** (with **ReadPathProofs**). A call is `Hit`, or `Send`,
`ServeTag`, `ServeRows` in the handler, and `Receive304`, `ReceiveFailure` or
`ReceiveHeaders` followed by `Store` or `LoseBody`; `Publish` and `Expire` happen
in between. A row set is the version that last changed it. `OwnTag` is the ETag that came
with the rows of an entry, which the client does not keep apart.

**Bulkhead** and **CanonicalUpload** (with **MCCanonicalUpload**,
**CanonicalUploadProofs**). Bulkhead is the semaphore: `active`, `waiters`, and the
tasks past `acquire()`. CanonicalUpload EXTENDS it. `req[t]` is a request and the
client behind it, who posts again until it has an answer; its `step` is the part of the
handler it is at: the pre-pass, submit and drive of a kind, publish, mint. `jobs`
are the submissions, `members` the current labels, `dsd` and `axes` the tables of the
dataset's and of all dimensions. `widens` is read by the pre-pass and used after the
drives, as in the code. A fault is a failed statement, a drive that times out, or a
crash, after which the jobs stay and the memory of the process is gone.

**SpecDrafts** (with **RevisionLog**, **MCSpecDrafts**, **ConfigProofs**). The
panel and the routes at once. `row` and `log` are `config.data_spec` and
`config.revision`; `lock` is the row lock of an update; `wire` the requests, sent,
locked or answered; `disk` the localStorage of each browser, `tab` the stores of each
page: `store` as the list was read, `drafts` with base and current, `busy` the
documents being published. `AtRest` is the normalization before a write. `was`
and `overtaken` are history: the specs a document has had, and the documents of which
an edit came while a publish was under way. RevisionLog is the promise of ADR-052 and
of the comments of V39.

**NodeData** is the constant level of the page's data: the specs of nodes by kind
(query, series, list, metric, rows), `Derive` what a node shows in a state of the
page, and `extractDeps` what the analysis says it reads. A cell is the set of the
observations it is computed from, so that a wrong filter gives a wrong cell and
the arithmetic stays out.

**QueryGraph** (with **PageOracle**, **MCQueryGraph**, **QueryGraphProofs**). The
reactive graph of `core/graph`: `SetState` forgets the memos of the nodes that read a
changed source, `Get` computes one that is not valid, `EvaluateAll` all. PageOracle
derives at every read: the path that is taken today, which `shadow.ts` compares
with the graph, and the abstract specification.

**NodeRows** (with **NodeRowsKeys**, **MCNodeRows**, **MCNodeRowsDrill**,
**NodeRowsProofs**). The path that is taken today over a store that answers later.
`page` and `store` are what was rendered last, `cache` the promises all nodes share, in
the order of insertion, `view` what each node shows: mounted, suspended on a promise,
rows, a failure. `Lasting` are the nodes with nothing asynchronous above them: React keeps
their error boundary, so that a change of the page leaves their error where it is
(`Keeps`), while the others mount anew. `KeyOf` is the cache key: recipe, requests, variables, language
and store. NodeRowsKeys has the condition `Keyed` under which a key determines the rows.

How they compose: SubmissionLifecycle, AdmissionGate, VintageLedger, PageOracle and
RevisionLog are instantiated by the modules that implement them, AdmissionGate by two,
FetchScheduler and CanonicalUpload with its Bulkhead. CanonicalUpload drives
IngestPipeline's jobs and Codelist's publishes, each reduced to one step.
IngestPipeline abstracts the gold writes of a publish to one step, which
ReleaseVintage (facts) and Codelist (reference data) open up; ReleaseBundle is
the level between them, with a publish as a transaction of unknown content.
ObservationCache reads what ReleaseVintage writes, reduced to a version, and its
requests go through FetchScheduler, reduced to arbitrary delay. NodeRows takes from
FetchScheduler that every call settles, and asks a store whose own cache is
ObservationCache.

Three proof modules are about two components each, one of which prefixes the names of
its specification so that both can be extended: ReleaseBundle (`BundleSpec`),
ObservationCache (`CacheSpec`), PageManifest (`PageSpec`). A symmetry set is at the end of
its module; an instance that needs definitions has an MC module.


## 3. The runs

| Run | What it asks | Bounds, and why they are enough |
|---|---|---|
| `ingest_races` | With requests in every interleaving: is a claim exclusive, is gold gated, do dry runs stay out of it, does a job follow the V11 machine, is gold the published jobs | two submissions with one payload, two drains, two curators, parses that outlive the timeout, one fault. A race needs two actors on one job and a second job to look away to; a fault may be a crash, and the sweep follows. With two faults it passes as well (4.5 million states) |
| `ingest_settles` | As long as nothing fails, does every accepted job settle | as above with one curator. Under `FairSpec`; no symmetry, as it checks liveness |
| `fetch_scheduler` | Are slots counted, is a key run once, does the scheduler implement the gate, does every call settle | four calls, keyed or raw, two slots, one key, one retry: two runs hold the slots, one waits and one follows, sleeps or starts; `MaxRetries` = 1 has a first and a last attempt. Under `FairSpec` |
| `vintage_ledger` | Are as-of reads of undisturbed series a ledger, does a published figure change only by what is named | two bundles and a singleton, two series, two values, three transactions: a value set, replaced and replaced back, by a release that is out, one that is open and one that comes between; every way of disturbing one series while the other stays undisturbed |
| `bundle_races` | Is the release published last, and what enters or leaves it afterwards | three members, one of them a dry run, three requests, two attaches, one failing member, in every interleaving: a bundle request, a single publish of its member and an attach between its statements |
| `codelist` | Current rows, history, paths, and whether what was published is in gold | four submissions of four codelists and two overlays on a root and two children: a member published, relabelled by two overlapping jobs, and an overlay at the same time; every job may fail anywhere |
| `page_manifest` | What may a change leave live, is a 304 right | two pages, two connections, a client that boots at any time, four timestamps, two versions: a save and a publish overlap and commit in either order, provisioning commits a version while a publish waits for its rows, and a third change follows |
| `cache_races` | Are rows never older than their tag, are rows confirmed by the tag they came with current | two slices, three calls, two publishes, broken bodies: a call whose tag and rows are read around a publish, a second that revalidates with it, a third on the other slice |
| `query_graph` | Is a memo current, does the graph answer as the oracle | two dimensions and measures, a variable, a parameter, a language, three values; six nodes, one per kind of spec and two more, with clamps, a pipe, a bound channel, shares, a condition and joined labels. Every state of the page may follow every other |
| `node_rows` | Is what a node shows current, is it of the store in use, does every node settle | a map of one year, a trend, a total below a node that waits itself; three states of the page (a sort that only a variable tells apart, a range without the year, in another language), two stores, a cache of three, two changes: a promise is met again after a change, evicted while it is pending, and asked by a store that is gone; an error stays where its boundary lasts. Under `FairSpec` |
| `canonical_upload` | Do facts wait with their members in gold, is an answer true, is the bulkhead a gate, is every upload answered | four uploads, one slot, a queue of two, one fault: one with a display, one that relabels the same member and widens the structure, one that would change the structure without a version, one that only relabels. Two wait while one is at work, so that their order matters, and the fourth is shed; with one slot two handlers overlap only in the jobs an abandoned one leaves behind. `CanonicalUploadTwo.cfg` (same module, passes, 356 thousand states) has three uploads and two slots, where handlers overlap. Under `FairSpec` |
| `spec_drafts` | Is what is shown without a draft published, is discard honest, who holds a row, do the routes implement the log | one document, there or created; two tabs of one browser; three specs, one of them rests as another; two requests, three edits and reloads: a publish and a restore meet, a publish and an edit, a reload between request and answer. Symmetric in tabs and requests, sound as all its properties are safety |

Every passing run may really stop (requests end and none is bound to come), so
deadlock is not checked; that nothing waits for ever is a property where the code
promises it: `AcceptedJobSettles`, `EveryCallSettles`, `EveryNodeSettles`,
`EveryUploadIsAnswered`.

Each module has its type invariant. Where there is a proof it is a theorem, and the
run leaves it out.

What the properties say, in the words of the code, is with each of them in its
module, and each has a mutant: a plausible bug of the code, as an operator marked
`Deviation` before the definition it replaces, under which the run fails.

Fairness. `IngestPipeline!FairSpec`: a drain that was started goes on (it is a
loop of one process), a queued `setImmediate` runs, a supervisor restarts a dead
process, and time passes. Submitting, publishing, rejecting and failing are not
fair: nobody is bound to do them. `FetchScheduler!FairSpec`: a fetch on the wire
is answered or rejected (the browser's timeout), a timer fires, microtasks run.
`NodeRows!FairSpec`: React renders what is mounted or woken, and every request is
answered or fails (FetchScheduler's `EveryCallSettles`). `CanonicalUpload!FairSpec`:
a client posts until it is answered, also after a 503 or 504 (one that is shed, 429,
takes no step), and its handler goes on: that is weak fairness of a task's `Post` and
steps together. Drains go on; nobody is bound to approve facts.
Weak fairness is enough: a step of a call stays enabled until that call takes it,
and a claim that another drain takes first is that drain's progress.


## 4. What is proved

For every number of submissions, calls, releases and so on; constants are only
assumed to be what `ConstantsOK` of the module says.

*IngestPipelineProofs.* `BaseInv` (types, what an actor remembers names a job that
exists, nothing lands before its row exists, dry runs stay out) is inductive:
`TypeCorrect`, `DryRunsNeverLand`. `TimelyInv` adds that a live claim is alone and that a
curator's job is one no drain touches again (`ClaimInv`), and that clean staging rows come
from a committed blob (`GateInv`). Neither stands alone: the gate is passed on what an
earlier drain wrote, which only exclusive claims keep from being rewritten. Both make an
exception of the jobs in `overdue`, which a sweep took from a drain at work: there a
second parse may replace the report a curator has read. `ClaimsAreExclusive` and
`OnlyGatedGold` follow. `SerialInv` is about overlapping requests: two that have a job in
hand have been noticed (`contested`), and one that has it alone finds it staged until it
commits. With it every step maps to a step of the status machine or a stutter, also the
steps by which a job is disputed (`ContestImplements`, the `Requeue` of the machine):
`PipelineImplementsLifecycle`, `PublishedExactlyOnce`. No theorem assumes how requests
are ordered or how long a parse takes.

*ReadPathProofs*, the scheduler. `Inv` is the books of the gate (`GateInv`: the counter is
the number of holders, a nonempty queue means no free slot, a waiter is queued
once), the map (`MapInv`: it names the one unsettled run of its key) and
`RetryInv`. `AcquireKeeps` and `ReleaseKeeps` are the two operations on their own,
the hand-over among them. Theorems: `TypeCorrect`, `SlotsCounted`, `OneRun`,
`SchedulerImplementsGate`.

*ReadPathProofs*, the observation cache. `CacheInv` is the types and what a call knows:
a conditional one holds an entry of a slice that stays cached, and the rows of an answer
are of the version in its tag or newer. `RowsAreNotOlderThanTag` alone is not
inductive: it says nothing of a tag that is handed out before the rows are read. A
publish makes every such tag old (`PublishKeeps`). Theorems, for any interleaving and
with broken bodies: `CacheIsTyped`, `RowsKeepUp`, and `OwnTagIsSound`, which needs that an
entry was stored by the call that is named in it, with that call's tag and rows.

*ReleaseProofs*, vintages. Nothing is assumed of the order of transactions or of what is
submitted. `VInv` is the types and `ClockInv`: releases that are out, and transactions that
run, are told apart by when they began. Every step that changes a figure is a `Deed` of one
release: it writes a series, publishes, or both (`StepIsDeed`). `DeedKeepsFigures` goes
through the ways a deed can reach into the past of a series: a write that replaces a figure
keeps it as a candidate with the same beginning at every instant before the release that
replaces it; so only a restatement, a late member or a release published behind another can
change a figure in a vintage that is out: `VintagesNeverChange`.
`CurrentReleaseIsUnique` rests on `CurrentInv`.

The figures themselves are determined only if the history of a series is a chain, which
`ChainInv` says of the series that are not in `tangled`. `OneRival`: one bundle that is not
out, at most, has written it. `OnePublicValue`: of the values a release gives it, one at
most is ever public; the log holds the others with an empty interval (`Stillborn`), as a
bundle may correct itself before it is out. `CubeIsLast`: what was public when an open
bundle replaced it waits in the log until the bundle is out, and what the cube has
published is later than what waits. None of them stands alone: that two candidates cannot
begin together needs `OnePublicValue`, which a write keeps because of who wrote before.
Each of the five ways to disturb a series breaks one of them for that series, and only for
that series: a chain is kept step by step whatever happens beside it (`StepChain`). From
it, `FiguresAreDetermined` and `FiguresOfNow`, and the refinement `VintagesAreALedger`: a
publication files the figures of now under the release (`CommitPublishes`), a member
strikes what it disturbs and changes nothing else (`MemberStrikes`), and every other step
is a stutter of the ledger (`OthersStutter`).

*ReleaseProofs*, bundles. `BundleInv`: two requests that have a member in hand contest it
(`HeldInv`), and one that has it alone finds its status and its release as the header said,
or rejected; what a request has listed, and nobody contests, is in the bundle and published
or still to do (`RequestInv`). A step takes nothing out of the bundle that is not contested
(`Kept`), and begins nothing new when the release is out (`Closed`). For any number of
interleaved requests: `ReleaseIsLast`, `BundleStaysClosed`, `BundleIsTyped`.

*CodelistProofs.* `Inv` has a part for each way two publishes of a code can meet.
`LockInv`: a row that is closed and not committed belongs to one transaction, and who has
inserted a code is alone with it. That is the row lock and the unique index, and
a row of gold that is current beside an inserted one is the row its transaction has
closed. `KeptInv`: what is closed is replaced before the commit, so a code in gold
keeps a current row. `TreeInv`: the parent and the path of a code are settled by its first
row, among committed and uncommitted rows alike; without the second half a child that
is inserted after its relabelled parent would not be covered. `ValidInv` needs
`KeptInv`: a parent or member that was in gold stays. `LandInv` follows a code from the
snapshot of the UPDATE to the commit: unless another transaction has committed the code
meanwhile, the row found is the current one, and the label stands after the insert.
`IdInv` and `PhaseInv` say what a row and a transaction are. Theorems, for any number of
submissions, codes and payloads that agree on parents (`ParentsAgree`), with any of them
failing: `TypeCorrect`, `CodesHaveOneRow`, `ValidationHolds`, `PathsAreChains`,
`HistoryIsKept`, `LabelsLand`, `OverlaysLand`.

*QueryGraphProofs.* The lemma `DepsAreTotal` is the claim of `extractDeps.ts`: two
states of the page that agree on the sources it names give a node the same rows. It
goes kind by kind, from the filters up. From it, `IInv` (types, and a valid memo is
what the node derives now) is inductive: `MemoIsCurrentAlways`, and each step maps
to a step of the oracle or a stutter: `GraphImplementsOracle`. Assumption:
`NodesAreAnalysable`.

*NodeRowsProofs.* `KeyDeterminesRows`: under `Keyed`, two states of the page with the
same key of a node give it the same rows. Then a promise in the cache is right for
every node that finds it, which is what the invariant of `ShownIsCurrentAlways` says;
`OutcomeIsOfThisStoreAlways` rests on the store's generation being in the key, and leaves
out the errors a lasting boundary keeps.
Assumption: `NodesAreKeyed`.

*CanonicalUploadProofs.* `IInv` is the types, the books of the bulkhead (`BOK`,
`Holders`: who is past `acquire()` is at work; the queue is within its bound), what a request
knows at its step
(`ReqOK`) and what a job of facts has in gold (`JobOK`). The lemma `Onward` carries
it: a member that is in gold stays there, whatever any request does. Theorems:
`BulkheadIsAGate`, `FactsFindTheirMembersAlways`, `AnsweredFactsAreThereAlways`.

*ConfigProofs*, data specs and drafts. `ServerInv` (types, who holds the row, what a
document that was never born has, `KnownRows`: a row is one of the specs the document has
had) stands alone: `RowsAreHeldByWriters`, `RoutesImplementLog`. `ShownInv` rests on it:
what the disk, the tabs and a page that is reading hold are specs the document has had.
From it, `CleanIsAlwaysHonest` and `DiscardIsAlwaysHonest`.

*ConfigProofs*, pages. `PageInv`: a page that exists has a version, and what is live is one
of its versions (`VersionsInv`); a transaction is about a page that exists, what it is going
to promote is a version, and provisioning, which holds the row of the page, has the latest
one in its snapshot (`TxInv`); an ETag that a client has or has just been sent is not
ahead of the manifest's, and if it is the manifest's, the client has that manifest
(`ClientInv`). The second half alone is what is wanted and does not stand: a boot
between its two statements has an ETag without a manifest. That the maximum of the
timestamps exists is `GreatestExists`, from the well-founded order of finite sets, as the
provers have no induction. `RevalidationIsSound` has its condition in the property: as
long as the ETag has grown with every change (`orderly`). Theorems: `PagesAreTyped`,
`BootIsSound`, `OneVersionIsLive`.

Only model-checked are the four liveness properties, `AcceptedJobSettles`,
`EveryCallSettles`, `EveryNodeSettles` and `EveryUploadIsAnswered`: the provers do not
have fairness and ENABLED. Every other property of a run is a theorem. What the theorems
do not say is in the next section.


## 5. Limits of the passing results

A passing run says what its constants say, and some of them exclude behaviour
the program has. They are listed here, with what happens without them.

- `ingest_races`: the properties make an exception of disputed jobs. A job published
  twice at the same time lands twice, and the loser marks the published job failed
  (`publish.ts:79`, `:201`); a reject may be overwritten (`IngestRejectRace.cfg`). A job
  whose parse outlives the timeout while a process boots is parsed twice, and the second
  report is not looked at by a publish that has read the first. What is claimed of such
  jobs is what is left: they are disputed from that step on and not before, no dry run
  lands, and what is in gold came from a durable blob.
- `AcceptedJobSettles` excuses every fault: the sweep runs at boot only and skips
  claims younger than five minutes, so that after a quick restart a job stays in
  `parsing` until a later one (`api/index.ts:202`, against `reclaim.ts:15-16`).
- `vintage_ledger`: the ledger is of undisturbed series. A restatement moves a figure out of
  the vintages before it (`VintageRestate.cfg`); a late member changes a published vintage;
  an overlap puts a vintage behind one that began earlier; two open bundles can start a
  figure at the same instant. All of it happens in the run; `VintageIsImmutable` names the
  three that change a published figure and says that nothing else does.
- `bundle_races`: the properties make an exception of members two requests had in hand: a
  publish that has read the header does not see an attach and files the member under a
  release of its own. What was under way when the release was published may still enter it.
  A member that failed is no longer listed by a retry (`BundleRetry.cfg`).
- `page_manifest`: `RevalidationIsSound` is claimed as long as the ETag grows with
  every change, which a transaction that began earlier and commits later, or a
  deleted row of another table, breaks.
- `page_manifest`: two versions may be live (`PageTwoLive.cfg`). `OneLiveVersion` says
  how: the other is newer than the snapshot of the publish that ends with that step.
- `cache_races`: `RevalidatedWithOwnTag` is about slices that are revalidated by the ETag of
  their own rows. The client keeps one per dataset and often sends another
  (`CacheSlices.cfg`).
- `codelist`: payloads agree on parents, and a refused payload is left alone.
- `canonical_upload`: one dataset, one fault, one slot (two slots in
  `CanonicalUploadTwo.cfg`; the theorems have any number). `widens` may be stale when it is used (read
  by the pre-pass at `canonical.ts:224`, before the mint of another upload), which
  the properties allow. That facts wait with their members does not say that they
  publish: another version may have widened the structure meanwhile. A drive that
  dies leaves its job where it is; the sweep that takes it up is IngestPipeline's.
- `query_graph`: `Analysable` leaves out what the analysis misses, a share of a total
  on a query and a drill (section 6). Dimensions outside of `Ambient` stay unset.
- `node_rows`: `Keyed` leaves out nodes whose key misses something they read, `Dated`
  a query of one year on a page without a year. A rejected promise stays in the
  cache: Retry asks nothing new until it is evicted or the store is rebuilt
  (`useNodeRows.ts:273-284`), so a node that settles may settle on an old failure.
  More nodes than `CACHE_MAX` may evict each other's promises for ever;
  `EveryNodeSettles` is checked with as many as fit. `OutcomeIsOfThisStore` makes an exception
  of errors kept by a lasting boundary (`NodeRowsLasting.cfg`).
- `spec_drafts`: `CleanIsPublished` excuses documents in `overtaken` (section 6). That
  a publish ends is not claimed. A boot that fails and shows mock data is left out.


## 6. Disagreements between code and comments

Each of these configurations is a counterexample: TLC finds the property violated
by what the code does. They are kept beside the runs, which pass.

| `tlc -config` | Violates | What the code does, against what it says |
|---|---|---|
| `IngestRejectRace.cfg IngestPipeline.tla` | `RejectionIsTerminal` | a publish sets the status by id alone: a job rejected after its status was checked is published (`publish.ts:98`, against `routes/ingest/index.ts:249`, the "terminal no") |
| `VintageRestate.cfg ReleaseVintage.tla` | `VintageNeverChanges` | a figure that is submitted again unchanged is stamped with the new release (V25:259) and not captured (`:308`), so it leaves the vintages before it (against `releases.ts:155-156`, "a published release never changes") |
| `BundleRetry.cfg ReleaseBundle.tla` | `BundleIsWhole` | a failed member is no longer pending, and the retry publishes the release without it (`publish-bundle.ts:71`, against `:27-28`) |
| `CacheSlices.cfg ObservationCache.tla` | `RevalidatedIsCurrent` | one validator for all slices of a dataset: a 304 renews a slice older than it (`store-api.ts:190`, against `:174-176`) |
| `PageTwoLive.cfg PageManifest.tla` | `NeverTwoLive` | the UPDATE of a publish has a snapshot from before it waits for its locks: a version that provisioning inserts and commits meanwhile is not demoted, and the index on `is_published` (V3:189) is not unique (`pages.ts:310-314` and `provisioning/upsert.ts:179-210`, against `pages.ts:289-290`, "never zero or two published versions") |
| `NodeRowsLasting.cfg MCNodeRows.tla` | `RebuildHealsErrors` | the boundary of a node with nothing asynchronous above it stays mounted and keeps its error (`NodeErrorBoundary.tsx:38-67`): no child renders that would miss the cache (against `useNodeRows.ts:273-284`, "Recovery is by cache MISS: a store rebuild ... a filter/perspective change") |
| `NodeRowsDrill.cfg MCNodeRowsDrill.tla` | `ShownIsCurrent` | the drill parameter is neither in the key nor in `extractDeps` (`useNodeRows.ts:176`, against `:149-151`; read at `resolveDrill.ts:80-82`) |
| `UploadConverges.cfg MCCanonicalUpload.tla` | `ConvergedIsInGold` | the duplicate check of a workbook compares with any published job, not the last one: labels A, then B, then A again, and the third upload is converged to the first while gold keeps B (`canonical-fsm-drive.ts:116-127`, against `:100-102` "those exact members are already in gold") |
| `UploadNewAxis.cfg MCCanonicalUpload.tla` | `NewAxisIsMinted` | codelists are validated against the dimensions there are before the mint adds one, so that a version with a new axis is refused (`validate.ts:255-258`, against `version-mint.ts:25`; the tests of `canonical-version.route.test.ts:89` and `:151` add an axis that exists) |
| `SpecDraftOvertaken.cfg MCSpecDrafts.tla` | `CleanIsAlwaysPublished` | an edit made while a publish is in flight is dropped from the drafts when the answer comes, and is shown as published (`api-actions.ts:256`) |
| `SpecDraftDropped.cfg MCSpecDrafts.tla` | `DraftSurvivesReload` | after a publish the store keeps the author's dialect, and the base of the next draft has it; the list has the dialect of rest, so that a reload takes the draft for stale and drops it (`api-actions.ts:351-355`, against `dataSpecDraft.store.ts:18-20` and `dataSpecPersist.test.ts:110`) |

Found while reading and modelling, without a configuration of their own:

- A POST's header is committed before its blob; a drain in between finds no blob
  and fails the job (`submit.ts:118`, against `:109-111`).
- An overlay lost by a relabel, which gives the member a new id, cannot be restored by
  sending it again, for the reason of `UploadConverges.cfg`.
- Relabelling a member drops its color: the subquery that would keep it reads the
  current row after it was closed (`upsert.ts:100`, against `:50-51`).
- A new parent without a new label is ignored; with one, the paths of the
  descendants stay as they were (`upsert.ts:45-47`).
- The ETag of a slice is stored before its body: a response that breaks off leaves
  a validator for rows the client does not have (`store-api.ts:235-239`).
- A publish of a page promotes the version it read as head before it had the lock,
  and an archived page can be published (`pages.ts`).
- Attach checks the release in one statement and writes in another
  (`releases.ts:304`, against `:285-286`).
- Page data: a time filter bound to a dimension that is unset has the key `''`, as has
  one that only excludes (`$ne`), and `specDimKey` is `''` for a transform or a pivot
  with references to the page's dimensions; a series over all years with a clamp on
  the time dimension, a pinned filter in place of the page's dimension and the `by`
  axes of a metric are not told apart either; the `at` of a point series, the measure
  of a share on a query and the ambient dimensions after the page was compiled are
  missing from the analysis; a node without a store of its own depends on none; labels
  of row lists are localized and have no dependency on the language. ApiStore
  narrows a query by the page's dimensions where the in-memory store does not.
- Filter bar and site: the comments of `FilterContext.tsx:3-10` and
  `LocaleSwitcherShell.tsx:16-20` describe another order of updates than the code
  (`:79`), `perspective:set` on the bus (`SiteRenderer.tsx:254`) skips the effects of
  the bar, and a parameter the URL holds survives a change that makes it stale
  (`filter-eval.ts:181-236`).
- Provisioning: a catalog value is read before the lock of the ledger (`upsert.ts:323`,
  against `:335-336`); two processes at their first boot insert a data source or a
  navigation item twice (`upsert-data-source.ts:44`); a data source that is updated and
  a data spec that is created write no revision (`upsert-data-source.ts:63`,
  `data-specs.ts:71`, against `revision-log.ts:5-7`); a manifest is applied entry by
  entry (`loader.ts:70`).
- Rate limiter: a key may pass twice its budget around the boundary of a window
  (`rate-limit.ts:85`).
- Panel: a status line says "Published" beside the chip of a draft after a new edit
  (`AuthoringLifecycleBand.tsx:90-96`); two tabs of one browser overwrite each other's
  drafts; a document's first body is not in the log after its first update; the base
  of a draft is compared with a list read before the pages; a publish from a stale base
  overwrites in silence; undo, redo and the deletion of a spec have no control; an edit
  made while a page is being saved is marked clean (`api-actions.ts:484`).


## 7. Not modelled, and what comes next

What is modelled is the part of the code where the order of steps matters: the ingest
and configuration routes of the API and their migrations, the store and the
scheduler of the client, the rows of a node, the drafts of the panel. By lines that is a
small share of the repository, most of which is rendering, forms, styles,
registries, charts, kits, scripts and sample data: code without state of its own, where
a model would repeat what the program says.

What is left, in order:

1. *Panel pages*: canvas, save and publish with the dirty flag, and the undo history.
2. *Provisioning* as a whole, with the catalog seed; the log of data sources.
3. *RateLimit* with a clock, and the two snapshot stores (LRU and expiry).
4. The pure algorithms of the core engine that have a reference definition:
   relative coordinates, roll-up of grains, desugaring of specs.
5. *Proofs*: what the vintages of a disturbed series still promise, by the kind of
   disturbance; that Codelist implements an abstract table of current labels.
6. ObservationCache over FetchScheduler, and NodeRows over both, instead of arbitrary
   delay.

Out of reach: liveness and whatever needs ENABLED is not proved, only checked;
rendering, parsers of spreadsheets, SQL filters and the contents of specs and
observations are data the models do not look into.
