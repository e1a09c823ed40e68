# FinTrace: verification models

TLA+ models of the FinTrace API (`src/apps/api/app`), the TLC configurations
that check them and the theorems that TLAPS proves about them. Paths below are
relative to `src/apps/api/app/` unless they start with `src/`.

FinTrace takes exports of a company's commerce and finance systems, works out
their columns and how they relate, normalizes them into dataset versions,
reconciles orders, payments, refunds, settlements and inventory into exceptions,
lets a bounded AI loop investigate an exception with deterministic evidence
tools, and puts consequential resolutions under the control of approvers. Several API
processes share one PostgreSQL database. Every repository call is **one
transaction of its own**; a service method is a sequence of such calls, under a
lock that is local to its process. Nearly everything that is hard about this
program lies between two of those calls.

## 1. Inventory

| Component | State it keeps | Operations | Hard behaviour | What makes it correct | Model |
|---|---|---|---|---|---|
| Idempotency ledger (`persistence/repository.py:1378-1486`) | rows of `idempotency_keys`: fingerprint, 425 or final status, response, `expires_at` | get, put, reserve, complete, release | lapsing leases, late owners, a row that vanishes during a reserve | a lease excludes, a completed row is final | `IdempotencyLedger` |
| Investigation start (`investigations/service.py`) | `investigations`, a per-process memory of responses | start, get | crash or failure between reserve, investigate, save and complete | one investigation per key; replays are saved and match | `InvestigationStart` |
| Approval controls (`controls/*.py`) | `approval_requests`, `approval_decisions`, `audit_events` | request_resolution, request_financial_resolution, approve, reject | two approvers at once, retries, thresholds, three transactions per decision | decided requests are final; nobody approves their own; status follows decisions | `Approvals` |
| Source intake (`financial_investigations/`) | `financial_investigations`, `source_files` | create, add_source, delete_source, replay | re-upload while being reviewed, deduplication, deletion with cascades | no reviewed source is lost, one row per content | `SourceReview` |
| Source analysis and mapping review (`source_analysis/`) | source status, `source_analyses`, `source_mappings` | analyze, update_mapping, confirm_mappings, update_classification | check-then-act across transactions, stale status | a READY source has every required field confirmed for its type | `SourceReview` |
| Relationship discovery (`relationship_discovery/`) | `relationship_proposals` | discover, decide | check-then-act, rediscovery of decided proposals | a decision stands; READY_TO_BUILD follows a decision | `DatasetPipeline` |
| Normalization (`normalization/`) | `dataset_versions`, normalized records | normalize, latest | version races, stale checks, answers read back | versions count up, only decided relationships are prepared beside | `DatasetPipeline` |
| Lifecycle construction (`lifecycle_construction/`) | none | construct_lifecycles | rows keyed by a payment, an order or a refund; reversed invoices | every record in a lifecycle, none guessed | `LifecycleConstruction` |
| Reconciliation engine (`reconciliation/engine.py`) | none | reconcile_lifecycle | rule order, early returns, blanks, minor units | a reconciled order balances | `ReconciliationEngine` |
| Reconciliation service (`reconciliation/service.py`) | `financial_reconciliation_runs`, results | run, latest, results | staleness, concurrent runs, failed runs | the status never runs ahead of the tables | `DatasetPipeline`, `RulePipeline` |
| Evidence loop and tools (`investigations/service.py`, `tools.py`) | the evidence of one request | `_investigate`, the tools | bounds, repair, provider failures, fallback | ends within its bounds, concludes on collected evidence | `EvidenceLoop`, `EvidenceTools` |
| Verifier (`investigations/verifier.py`) | none | verify_candidate | two renderings of a value, citations that are true one by one | what it lets pass is a fact of the rows | `EvidenceVerifier` |
| AI provider (`investigations/provider.py`) | `_active_index`, `_fallback_reason` of a shared router | next_step, conclude | nested retries, threads that share the router | bounded posts, only failed clients are passed over | `ProviderRouter` |
| Uploaded-exception investigations (`financial_exception_investigations/`) | `financial_exception_investigations`, their tool calls | investigate, get, list | two keys on one exception, refresh | tool calls match the assessment, a settled one stands | `ExceptionInvestigation` |
| Patterns, graph, analytics | none | queries | - | read-only | - |
| Evaluation (`evaluation/`), simulator (`simulator/`) | files | offline | - | - | - |
| Sample repository (`repositories/sample.py`) | dictionaries under a lock | the repository interface | - | demo backend | - |
| API layer (`main.py`, `api/`) | request times per client | routing, authentication, tenant check, rate limit | window boundary | at most the limit per window | upload handler only, in `SourceReview` |
| Persistence infrastructure (`persistence/`) | connections, schema | connect, migrate, seed | one transaction per call | the grain of the models | - |
| Web client (`src/apps/web`) | none the API relies on | pages | - | - | - |

**Interactions.** Routes call one service method each. Services call the
repository (shared state: the tables), and the ledger before and after every
write that a client may retry. The status of a financial investigation is
written by intake, analysis, relationships, normalization and reconciliation,
without one guarding the other. Normalization hands rows to lifecycle
construction, construction hands lifecycles to the rules, and an investigation
of an uploaded exception hands the lifecycle of one result to the tools, the
provider and the verifier. Request threads share one router of AI providers.
There are no callbacks, queues or background workers: concurrency comes from
requests of several processes and threads, and time enters through
`expires_at`, `started_at`, the time-outs of provider calls and the rate limiter.

`PROJECT.json` lists the hazards of this code line by line, with the properties
about them. A hazard that no property covers says why.

## 2. Modules

| Module | Models | Extends / instantiates |
|---|---|---|
| `IdempotencyLedger` | one row of `idempotency_keys` and the statements on it | - |
| `InvestigationStart` | `InvestigationService.start` by several processes | INSTANCE `IdempotencyLedger` |
| `ApprovalContract` | abstract: a request is opened, collects ballots, is decided once | - |
| `Approvals` | `ControlsService` over PostgreSQL by several processes | INSTANCE `IdempotencyLedger`, `ApprovalContract` |
| `SourceReview` | upload, deletion, analysis and review of sources by several requests | - |
| `DatasetPipeline` | discover, decide, normalize and reconcile by several processes | INSTANCE `IdempotencyLedger` |
| `ExceptionInvestigation` | `FinancialExceptionInvestigationService.investigate` by several processes | INSTANCE `IdempotencyLedger` |
| `EvidenceLoop` | `InvestigationService._investigate`, one investigation | - |
| `ProviderRouter` | `FailoverAIClient` and the retries of its clients, by several threads | - |
| `CanonicalRows` | the rows of a dataset as the deterministic core reads them | - |
| `LifecycleConstruction` | `construct_lifecycles` | EXTENDS `CanonicalRows` |
| `ReconciliationEngine` | `reconcile_lifecycle` | EXTENDS `CanonicalRows` |
| `EvidenceVerifier` | `verify_candidate` | EXTENDS `CanonicalRows` |
| `EvidenceTools` | what each evidence tool reports | EXTENDS `EvidenceVerifier` |
| `RulePipeline` | a run over a dataset, then an investigation of one of its results | EXTENDS the four above |
| `...Proofs` (8) | theorems about the module they are named for | EXTENDS it and `TLAPS` |
| `MC...` (8) | constants and symmetry for TLC | EXTENDS the module they are named for |

### IdempotencyLedger

`response_status = 425` is the state `pending`, any other status is `done`, no
row is `absent`. `expires_at` is the flag `lapsed`: whether the lease is over.
The operators are what a committed statement leaves behind: `Complete` and
`Release` are the `WHERE response_status = 425` statements, which compare
neither the owner nor the fingerprint; `Put` is `ON CONFLICT DO NOTHING`;
`Reservable` is when `reserve_idempotency` wins. `Unused`, `InProgress`,
`Replayable` and `Mismatch` are the four answers a service derives from a row.

### InvestigationStart

`proc[p]` is the request a process serves. A phase names the repository call
that comes next: `reserving`, `readback` (the SELECT after a lost INSERT),
`investigating`, `saving`, `completing`, `releasing`. `cache` is the service's
`_idempotency` dictionary, written before the save as in the code; `saved` is
the table, each row with the key it was made for; `outcome` is what a process
last answered. `Raise` is an exception outside the try around
`save_investigation`, `Crash` empties a process, `LeaseEnds` lets the lease of a
pending row pass. The fingerprint of a request is its exception.

`disturbed` is a history variable: keys whose lease lapsed while pending, or
whose row vanished between a lost reservation and its read-back. It separates what
the ledger promises while its leases are long enough (`LeaseExcludes`,
`OneInvestigationPerKey`, `ReplayCompatible` speak of `Key \ disturbed`) from
what holds whatever happens (`CompletedIsSaved`, `CompletedIsFinal`). Without
the restriction the first three are false of this code, as `Complete` and
`Release` do not look at the owner.

### Approvals

`requests`, `decisions`, `audit` and `ledger` are the tables; `decisions` is a
function because of `UNIQUE (organization_id, approval_request_id, actor_id)`.
`proc[p]` is the call of a process with its phase, as above. `Apply` is the whole transaction
`apply_approval_decision`: row lock, status and duplicate checks, insert, count, derived
status. `Authorized` looks only at columns that never change, as the code does.
`ApprovalPlan` is the policy with its limits. A call that meets a known key
changes nothing and is a stuttering step. `Abort` is a crash or an exception
outside a try between any two transactions.

`KeepsContract` is refinement: `ApprovalContract` knows requests, ballots and
outcomes, no keys, phases or processes. The mapping turns the tables into
ballots; every step of `Approvals` is a step of the contract or a stutter.

### SourceReview

One financial investigation with its sources. `row`, `analysis`, `maps` and
`status` are the tables `source_files`, `source_analyses`, `source_mappings` and
the status of the investigation; `stored` is the upload directory. `call[w]` is a request
with what it has read so far: a phase names the repository call, or the
statement of a transaction, that comes next. Statements are split where one
transaction reads and later writes over what it read: `PickUnready` and
`RemoveUnready`, `CountOthers` and `DropSource`, `Check` and `ConfirmSource`.

| Call | Steps |
|---|---|
| `upload_source`, `add_source` | `Upload` (file stored), `MatchName`, `Compare` or `FindContent`, `PickUnready`/`RemoveUnready`, `Cleared`, `Insert`, `AnswerUpload`; `Discard`, `UploadRaises` |
| `delete_source` | `Delete`, `CountOthers`, `DropSource` |
| `analyze` | `Analyze`, `Reuse` or `StartAnalysis`, `SaveAnalysis`, `SaveMappings`, `FinishAnalysis`, `AnswerAnalysis`; `AnalysisRaises`, `FailAnalysis` |
| `update_mapping` | `EditMapping`, `ChooseMapping`, `WriteMapping` |
| `confirm_mappings` | `Confirm`, `Cover`, `Check`, `ConfirmSource`, `ListReady`, `Promote` |
| `update_classification` | `Classify`, `SetType`, `SaveType` |

`Abandon` ends any call between two steps: its process dies, or it raises where
all that is left is to release the key. A content stands for its bytes and their
hash; what the provider makes of it is given by `Class` and `Proposed`, so that
the offline provider and a model provider are both instances. `begun` counts
calls and numbers the mapping rows of an analysis. A call that meets a known
idempotency key touches none of this; left out as well are `create`, the
parsing and limits of files, and the detected type, which is shown but not read.

Neither service takes a lock, and the code does lose updates when two requests
work on one source: an edit lands on a confirmed mapping, an upload removes a
source that was confirmed after it was listed, a deletion sets DRAFT after another upload.
The first is the run `ConfirmedEdit.cfg`. `contended` is a history variable that
separates this from everything else: it collects the sources (and `"table"`, the
set of sources) that two calls worked on at the same time. `ReadyIsReviewed`,
`AnalyzedHasFile`, `ReadyIsKept` speak of sources outside `contended`,
`DraftIffEmpty` of investigations where it is empty. They remain statements
about any sequence of calls, most of them failing or dying half way, and about
calls on different sources that overlap in any way. `OneSourcePerContent`
holds without it.

### DatasetPipeline

One financial investigation from discovery to reconciliation. `proposals`,
`versions`, `runs` and `status` are the tables `relationship_proposals`,
`dataset_versions`, `financial_reconciliation_runs` and the status of the
investigation; `clock` is `datetime.now` as far as `started_at` reads it. A
process serves a call at a time and a phase names the repository call that comes next.

| Call | Steps |
|---|---|
| `discover` | `Begin`, `Reserve` / `ReserveLost`, `ReadBack`, `Upsert`, `Publish`, `Complete` |
| `decide` | `Begin`, `Reserve`, `Look`, `Apply`, `Reread`, `CountOpen`, `Publish` (of the last open one), `Complete` |
| `normalize` | `Begin`, `Prepare`, `Reserve`, `Number`, `SaveVersion`, `Reread`, `Complete`, `Publish` |
| `reconcile` | `Begin`, `Load`, `Reserve`, `SaveRun`, `Reread`, `Complete`, `Publish`, with `Stamp` before `Reserve` when the results are there and after it otherwise |

`Fails` is an exception inside the try that releases the key, `Abandon` one
outside of it or the death of the process, `LeaseEnds` the end of a lease. The
try of `normalize` and `run` holds the repository's save, which reads the latest
row back after its write has committed (`repository.py:802`, `894`): a failure
there releases the key with the write in its table, and the retry writes once
more. So `AnswerCoversWrite` compares the answer of a key with every write made for it,
and `KeyWritesOnce` is false (section 5). A
dataset is abstracted to `sound`, whether all its rows find their place in a
lifecycle; `RulePipeline` has the rows. `contended` collects the pairs that two
decisions found PROPOSED together, `disturbed` is as in `InvestigationStart`.

### ExceptionInvestigation

`rows` and `traces` are the tables `financial_exception_investigations` and
`financial_exception_investigation_tool_calls`. A row has the id of its column
and the id in its body, as `ON CONFLICT DO UPDATE` keeps the first and replaces
the second. A response is abstracted to its id, which response it is, whether it
settled (`refresh_legacy` does not hold of it) and whether it has tool calls. An assessment
of the provider `stub` settles without any;
the foreign key of the tool calls is `Referable`. A call reads the row
(`Read`), reserves its key, investigates (`Investigate`) and
saves (`Save`); `saved` and `contended` are history.

### EvidenceLoop and ProviderRouter

`EvidenceLoop` is one run of `_investigate`: the baseline tools
(`Collect`), the provider's decisions (`Invoke`, `Refuse`, `Repeat`, `Conclude`),
the repair of an invalid conclusion (`Repair`), the conclusion that is asked for
when the steps are used up (`Finish`), the legacy path of a client without
`next_step` (`Select`, `LegacyConclude`), verification and the one correction
(`Verify`, `Correct`). The provider, the refusals of the tools and the verdict are
free choices.

`ProviderRouter` is what one `next_step` is over HTTP. `active` and `reason`
are the router's fields, without a lock; `call[w]` is the call a thread is in,
with its client, key and attempt. A step is one HTTP exchange. `Adopt` assigns
`_active_index` after the post returned, `FailOver` goes to the next client.
Failures have three categories: transient ones that are retried, rate limits,
and lasting ones.

### The deterministic core

`CanonicalRows`, `LifecycleConstruction`, `ReconciliationEngine`,
`EvidenceVerifier` and `EvidenceTools` are operators, one per function of the
code, on rows that are records of texts: None is a null, `""` the blank cell of
a CSV file, and the two are as different as the code makes them. `Amount` and
`Cased` say what a text is as a number and in upper case, so `_normal_value` and
`str()` differ where they do in the code. `Decimals` are the texts of other numbers,
which `Decimal()` reads and `int()` does not (`1.5` and `1.50` are one), and
`NotANumber` those it reads as NaN, which equals nothing, itself included. `Raises` is
when `int("")` raises out of the rules.

`RulePipeline` composes them. `rows` is a dataset version, `run` the outcome of
`ReconciliationService.run`, `answer` that of an investigation of one of the
results. Of what the schema lets a provider return, the candidates are the SUPPORTED ones
with any root cause and action and nothing contradictory, which cite the evidence of the tools,
less that of one source, or with one doubtful citation besides; `answer.own` says
that a clean answer cites the tools only. The properties are stated on the rows: `Balanced` says what a
balanced order is of the dataset, `Fact` what a root cause says of an order. They restate
the conditions and share with the engine only what a value is (`Misvalued`,
`IsKnown`, `TotalCost`, `TotalValue`). `DATA_QUALITY_ERROR` and
`AMBIGUOUS_ASSOCIATION` state no fact (`Unstated`), and `SupportedIsFact` says nothing of them. The
assumptions of the module are what the parts before it establish: `Normalized` that money is
an integer (`normalization/service.py:62`, where a value that is none blocks it) and
that a settlement has no column of a refund, nor the reverse (a mapping outside
`CANONICAL_ALIASES` of its type is refused, `source_analysis/service.py:251,438`);
`DatasetsAssumption` that each row has a marker of its own; `TextAssumption` that null is
none of the words it is compared with, and that an integer, another number and NaN are three kinds of text.
`ToolEvidenceVerifies` asks that the records of the order can be cited
(`Citable`: they have ids of their own, state a field and hold nothing that reads as NaN) and that
returns are written in upper case; without these it is false, see section 5.

## 3. Runs

| Run | Question | Instance | Result |
|---|---|---|---|
| `InvestigationStart.cfg` | Is an undisturbed lease a lock, does a key pay for one investigation, are replays saved, compatible and final? | 3 processes, 1 key, 2 exceptions, 3 ids | pass |
| `Approvals.cfg` | Do decisions stay sound when processes race, die and retry, and is the contract kept? | 2 processes, 4 keys, 1 request, finance manager and 2 controllers, a small and a large exposure | pass |
| `ResolutionRequests.cfg` | Does an undisturbed key open at most one request? | 2 processes, 2 keys, 2 requests, 2 actors | pass |
| `SourceReview.cfg` | Are READY sources reviewed, kept and backed by a file, contents unique and DRAFT exact, whatever calls fail or race? | 2 requests, 2 sources, 2 names, 2 contents (one recognized), 2 types, 1 column, 5 calls | pass |
| `DatasetPipeline.cfg` | Are versions dense and reviewed, does a decision stand, is a key's answer no older than its writes, is the status backed by the tables? | 2 processes, 3 keys, 2 pairs, 2 decisions, 2 versions, 2 clock readings, 3 calls | pass |
| `ExceptionInvestigation.cfg` | Are tool calls those of their assessment, are replays saved, does a settled assessment stand? | 2 processes, 3 keys, 2 results, 3 responses, 3 calls | pass |
| `ProviderRouter.cfg` | Are posts bounded, is only a failed client passed over, does every call end? | 2 threads, 2 clients of 2 keys | pass |
| `EvidenceLoop.cfg` | Is the baseline compared before a conclusion, is SUPPORTED what was verified, does it end within its bounds? | 3 tools and one that is not allowed, 3 arguments, the code's 8 steps | pass |
| `RulePipeline.cfg` | Does a reconciled order balance, does the verifier accept the tools, does SUPPORTED state a fact of the rows? | 2146 datasets of up to two orders | pass |
| `ExpiredLease.cfg` | docs/architecture.md:99, "PostgreSQL leases reclaim expired pending work" | 1 process, 1 key | violated |
| `PoisonedRefresh.cfg` | financial_exception_investigations/service.py:58, zero-lookup assessments "can be refreshed by an explicit new POST" | 2 processes, 2 keys, 1 result | violated |
| `SharedPayment.cfg` | lifecycle_construction/service.py:51, lifecycles "without guessing missing or ambiguous relationships" | the datasets of `RulePipeline.cfg` | violated |

Each runs with `tlc -workers 2 -config X.cfg MODULE`, MODULE being the MC module
of the same name (`MCApprovals` for `ResolutionRequests`, `MCInvestigationStart`
for `ExpiredLease`, `MCExceptionInvestigation` for `PoisonedRefresh`,
`MCRulePipeline` for `SharedPayment`). The largest, `DatasetPipeline`,
`ExceptionInvestigation` and `ProviderRouter`, have 1197, 853 and 503 thousand
distinct states, and `RulePipeline`, which evaluates the rules, the tools and the
verifier in each, has 39 thousand; none takes more than a minute on four cores.

### Bounds

*InvestigationStart.* Three processes let one hold a lease, one wait in
`readback` and one begin afresh, the longest chain the ledger's statements tell
apart; two exceptions give a matching and a mismatching fingerprint; three ids
allow a failed, a taken-over and a repeated investigation (`MaxInvestigations`,
guard of `Investigate`). One key suffices since no statement touches two rows.

*Approvals.* Two processes race on the one row lock; two controllers and a
manager give both capabilities, a second approval, a self-approval attempt and a
duplicate decision; four keys are one for opening, and one for each of three
decisions, and retries reuse them. The exposures lie on both sides of the
limits. The audit trail is excluded from the fingerprint of `Approvals` states
(`VIEW Unaudited`): nothing reads it, and the two runs with that view check no
property about it.

*SourceReview.* A recognized content and an unrecognized one give an analysis
with and without a type; the one column holds the field that `ORDERS` requires
and that `PAYMENTS` allows but does not do with, so that a change of type takes
the cover away. `MaxCalls` bounds the calls begun (guard of `Begin`): five are
an upload, an analysis and a confirmation, which make a source READY, and two
more that work on it or on the second source, before, between or after.
`Column = {col}` leaves `Covers` two outcomes, the only ones the actions tell apart.

*DatasetPipeline.* It begins when every source is READY and nothing is proposed.
`MaxCalls` (guard of `Begin`) counts calls. Three are two normalizations that draw
one number and a reconciliation of either version, two reconciliations of one
version, a discovery and two decisions that race, or a discovery, a decision and a
normalization beside it, each with retries under its key, failures and
lapsing leases. `MaxVersions` (guard of `Number`) and `MaxClock` (guard of
`Stamp`) are what those calls can use. A fourth call, such as a discovery
repeated after all of this, is left to the proofs, which have no bound.

*ExceptionInvestigation.* Three calls are two that race and one refresh of what
they leave; `MaxResponses` (guard of `Investigate`) gives each a response. Two
results tell a key that is reused for another exception.

*ProviderRouter.* Two clients are one to leave and one to come to; two keys are
one to exhaust and a last one; two threads are enough to move `_active_index`
under each other. Nothing else is bounded, and calls repeat for ever.

*EvidenceLoop.* `Steps` and `IterationLimit` are the values of the code. Two
groups of types, without a baseline and with one that holds a tool the loop does
not allow, are the kinds there are.

*RulePipeline.* Two balanced orders, without and with a refund, changed in at
most two rows: blank, null and differing amounts, fees and dates, missing rows,
doubled rows, ids of the other order's payment, statuses, manual approvals,
employee actions, movements with one id, a return in lower case, a decimal number in two
writings, a text that reads as NaN. A rule looks at one
or two rows, and a pair of changes lets every two rules meet in one lifecycle. One run and one investigation are followed,
since neither changes the rows.

Deadlock is not checked where the system rests: in `Approvals` when every
request is decided, in `SourceReview`, `DatasetPipeline` and
`ExceptionInvestigation` when the calls are used up, in `EvidenceLoop` and
`RulePipeline` when the answer is given. `InvestigationStart` and
`ProviderRouter` always have a step to take, and are checked.

### Fairness

`CallEnds` assumes weak fairness of `Progress(w)` for every thread: every
`urlopen` has a timeout, so a post comes back or fails, and what follows is the
thread's own code. A client need not ask again (`Ask`) and an investigation need
not end (`Record`): neither is fair. `Ends` assumes weak fairness of `Next` in
`EvidenceLoop`: the tools read a lifecycle in memory, the provider's calls end by
`CallEnds`, and one thread runs the loop. Which answers come is never
assumed.

The modules over the ledger assume no fairness: nothing in the code schedules
a retry, and a client that never returns leaves a lease behind for good. Their
properties are safety properties.

## 4. Proofs

Every property of a passing run is proved, except the two liveness properties:
38 of them, by theorems in eight modules, for any values of the constants that the
assumptions of the modules admit.

| Module | Theorems |
|---|---|
| `InvestigationStartProofs` | `TypeCorrect`, `LeaseExclusion`, `SingleInvestigation`, `ReplayCompatibility`, `CompletionAfterSave`, `CompletionIsFinal` |
| `ApprovalsProofs` | `TypeCorrect`, `StatusDerived`, `FourEyesKept`, `SingleRequest`, `ReplayFaithful`, `DecisionIsFinal`, `ContractKept` |
| `SourceReviewProofs` | `TypeCorrect`, `UniqueContent`, `ReadySourceIsReviewed`, `AnalyzedSourceHasFile`, `DraftIsEmpty`, `ReadySourceIsKept` |
| `DatasetPipelineProofs` | `StatesAreTyped`, `VersionsCountUp`, `ReviewedStaysDecided`, `AnswersCoverWrites`, `StatusHasBacking`, `DecisionsAreKept` |
| `ExceptionInvestigationProofs` | `CallsKeepTheirTypes`, `TracesBelongToResponses`, `ReplayedAnswersWereSaved`, `SettledAssessmentsStand` |
| `EvidenceLoopProofs` | `TypesAndBounds`, `BaselineComesFirst`, `SupportedWasCleared` |
| `ProviderRouterProofs` | `IndicesStayInRange`, `FourPostsPerKey`, `OnlyFailedAreSkipped` |
| `RulePipelineProofs` | `SupportedFacts`, `ToolEvidence`, `ReconciledBalance`, `RowsArePartitioned`, `FilledInNeverRaises` |

The assumptions (`StartAssumption`, `ApprovalsAssumption`, `ReviewAssumption`,
`PipelineAssumption`, `InvestigationAssumption`, `LoopAssumption`,
`RouterAssumption`, and `TextAssumption` and `DatasetsAssumption` of section 2) say
that the constants have their types and that the "none" values lie outside the sets
they extend; those of `RulePipeline` also say what normalization leaves. Two more
ask for finiteness: the actors are finite, which makes the count of approvals a number, and the baselines are
finite, which makes the number of tool calls one. `DecidedIsFinal`,
`CompletedIsFinal`, `ReadyIsKept`, `SettledStands` and `DecisionStands` are
action properties, proved from the inductive invariant of their module.

*InvestigationStart.* The properties are not inductive: that a completed key is
saved needs that a process in `completing` has saved what it is about to store,
and exclusion needs that a worker of an undisturbed key still owns the
pending row it reserved. The inductive invariant `IInv` joins `TypeOK`, the
shape of a call in each phase (`RequestsWellFormed`), that every lapsed lease is
on record in `disturbed` (`LapsedIsDisturbed`), `CompletedIsSaved`, and for each
undisturbed key (`Undisturbed`) that one process works for it on the row it
reserved (`Excl`), that a saved investigation keeps the key from being worked
for again (`SavedTakesKey`), and the two properties that follow, `Unique` and
`Compatible`.

*Approvals.* `IInv` joins `TypeOK`, what a call has validated before each of its
transactions (`CallsSound`), freshness of the request id a process has drawn
(`FreshIds`), for every request that its plan is the policy's, that each decision
on it was authorized and that its status and count are those its decisions imply
(`RequestsSound`), and that undisturbed keys have one owner and completed
ones replay what is on record (`KeysSound`). The bound of two approvals comes out of the invariant, not out of the
model: a pending request has fewer approvals than its plan requires.

*SourceReview.* That a READY source is reviewed is not inductive: a call in
`confirming` makes it READY on the strength of two reads made earlier. `IInv` joins
`TypeOK`, what a call carries (`Carried`), `OneSourcePerContent`, `SourcesSound` and
`CountsSound` with `Exclusive`: whatever two calls both touch is in `contended`. So
what a call has read of an uncontended source is still true when the call writes
it, and `CallSound` says for each phase what that is: in `confirming`, that the
type is still the one the call read and is still covered; in `retyping`, that
the source is no longer READY; while uploading, that the source has no
analysis, so that its file may go. Lemma `Step` turns this into one proof obligation per
action: a step that changes only what its call touches has to keep its own
sources and its own knowledge sound, and disturbs no other. `ReadyIsKept` is an
action property: `OnlyDropDeletes` shows that a READY source can only go in
`DropSource` or `RemoveUnready`, and `CallSound` that the latter's source is not
READY.

*DatasetPipeline.* A call reads, and what it read decides what it writes later.
`IInv` joins `TypeOK`, for each call its shape and what it knows (`CallsSound`):
the proposals it saw decided still are, the version it reconciles is in the
table and as sound as it was, all versions below the number it drew exist, what
it wrote is there, and what it is about to store for its key covers every write of that key
(`Newest`: the latest row is not older than any, and nothing that
another process writes is of the same key while its lease is undisturbed);
the tables (`TablesSound`): the versions are exactly 1, ..., m and a latest run
exists; the leases (`LeasesSound`): an undisturbed key has one worker, and a
lapsed one is on record; and the decisions (`DecisionsSound`): two calls that
both found a proposal open have it in `contended`. The unique constraint on the
version number makes `VersionsAreDense` inductive only with the number that each
call holds, since a call that lost the number fails in `SaveVersion`.

*ExceptionInvestigation.* `TraceIsOfResponse` needs that an id belongs to one
result only and was made (`IdInv`), whether a row has it, its body, what a call has
read or what a call is about to save. `SettledStands` needs that of two calls in
flight for a result the later one saw the other, and that what a lonely one read is
still so (`FlightInv`). `AnswerWasSaved` needs the lease argument again
(`LeaseInv`), and that what is about to be stored for a key was saved (`SavedInv`).

*EvidenceLoop.* `CountInv` relates the counters of the loop (steps, tool calls
and posts) to the phase, `CalledInv` the calls to the baseline that is left;
the bounds of `TypeOK` and the two safety properties follow. Cardinalities are
handled by the lemmas of `FiniteSetTheorems`.

*ProviderRouter.* `SentInv` gives the number of posts of a key by attempt and
corrective turn. `SkippedHaveFailed` is split in its parts: a client is added to
`failed` before anything moves past it, and `Adopt` moves to where a call has come.

*RulePipeline.* The state machine is simple: `PipelineInv` says that a run is
what the rows determine, and that an answer has the type of a result of a completed
run and, when it stayed SUPPORTED, a root cause that the verifier's table
(`Expected`) admits for it and that the tools' evidence substantiates when nothing
else is cited (`own`). What remains is about data, and holds for sequences
of any length:

- Every selection, sum and concatenation is a recursive function. The
  library's induction theorems take an operator, which the provers cannot
  instantiate. `LeastNumber` obtains induction over a set of numbers from the
  well-foundedness of the strict order of finite sets, `Iteration` and
  `SequenceInduction` follow from it, and with them what `Pick`, `SumOf` and `FlattenSeq` return.
- *A SUPPORTED root cause is a fact.* `Codes` are the codes of a list of findings. One
  lemma per group of rules (`PaymentCodes`, `SettlementCodes`, `InvoiceCodes`,
  `InventoryCodes`, `RefundCodes`, `ReturnCodes`) says which condition of the rows
  stands behind each code, `FindingsAreFacts` that a finding is the fact of its own
  root causes (`StatesFact`), `CodeGroundsType` that this grounds the type it is renamed to,
  `ReconciledTypeIsGrounded` the same of the early returns. For all types but one, grounded
  means that every root cause the table admits is a fact, so that no citation can make an answer false.
  The two findings on inventory values are renamed to one type, whose two root causes
  the verifier tells apart by citations, and citations do not do it (`ValueRoot.cfg`,
  section 5). There one of the two is a fact, and `MiscalculatedIsMisvalued` shows
  that a calculation error is one when the tools' own citations substantiate it: they
  report a multiplication as wrong only where the rules find it wrong.
- *The verifier accepts the tools.* `FactsVerify`, `AbsenceVerifies` and
  `NoReturnVerifies` take the three shapes of a citation, `InvokeIsOfSource` shows
  that the tools report nothing else.
- *A reconciled order balances.* The lifecycle might lack a row of the order.
  `EveryRowIsConsumed` excludes it: the rows that lifecycles consume have as many
  markers as the dataset has rows, markers are distinct, and a finite set has no proper
  subset of its own size. Hence the settlements and refunds of the lifecycle are all that name
  one of its payments (`PayingIsOfPayments`), and the absence of findings
  (`WithoutExceptions`) is a statement about the dataset.
- *Every row has one order.* `OneLifecyclePerRecord` is false (section 5).
  `RowsArePartitioned` is what is true: when no two orders have payments of one
  id and no two refunds share an id (`KeysAreUnique`), every row is in exactly
  one lifecycle. Normalization checks this within a source file
  (`normalization/service.py:194`), not across the files of one type.

- *A run ends.* `ReconcileIsTotal` is false as well. `FilledInNeverRaises` says of the
  rows when it is true: no cell of money is blank, orders and refunds have an amount,
  invoices a gross amount, and quantities and days can be read (`FilledIn`).

TLC has checked `PipelineInv`, `EveryRowHasItsOrder` and `FilledInIsReconciled` on the
instance of `RulePipeline.cfg` too; datasets with and without `KeysAreUnique`, and with and
without `FilledIn`, are among those that it runs.

Only model-checked: `Ends` and `CallEnds`, since liveness under fairness is out of
the prover's reach; the violations are counterexamples. That an investigation
cannot go on for ever has a proved counterpart in the bounds of `TypesAndBounds`.

## 5. What the checks show about the code

What the passing runs ask holds. Whatever processes crash, fail or race,
decisions follow the policy, a completed key is final, a content is attached
once, versions count up, tool calls stay with their assessment and no client is
passed over that did not fail; while leases are not outlived, keys exclude; while
a source, a proposal or a result is worked on by one call at a time, it is READY
only as reviewed, stays decided, stays settled. A reconciled order balances on every
dataset, and a SUPPORTED root cause is a fact of its rows, except that of the two
of an inventory value the provider can have the other one accepted.

### Findings

Three statements that the code does not keep are runs with a counterexample and
entries under `findings`:

1. an expired lease is not reclaimed by a retry, as the lookup before the
   reservation ignores `expires_at` (`investigations/service.py:62`);
2. two first calls on one exception can leave an assessment that can never be
   refreshed, as the row keeps the id of one and the body of the other
   (`financial_exception_investigations/service.py:146`);
3. a settlement is attached to every order that has a payment with its
   `payment_id`, and the run completes with it in two lifecycles
   (`lifecycle_construction/service.py:118`).

### Known divergences

More statements of the documents or of the code are not what the code does.
Each has a configuration that reproduces it, `tlc -config X.cfg MODULE`; TLC
reports the named definition violated.

| Configuration, module | Violated | What is said | What the code does |
|---|---|---|---|
| `UnsavedAnswer.cfg`, `MCInvestigationStart` | `AnsweredIsSaved` | docs/decisions.md:33, investigations survive restarts | an answer is replayed from memory that no table holds (`investigations/service.py:104`) |
| `UnauditedDecision.cfg`, `MCApprovals` | `DecisionIsAudited` | docs/data_api.md:225, a decision and its audit event are written together | they are separate transactions (`controls/service.py:234`) |
| `LargeDuplicate.cfg`, `MCApprovals` | `LargeExposureHasTwoApprovers` | docs/PRD.md:1450, above 100000 two approvers | a duplicate payment needs one, whatever its size (`controls/policy.py:19`) |
| `LockedSource.cfg`, `MCSourceReview` | `LockedSourceIsDeduplicated` | docs/data_api.md:46, re-uploading the bytes of a READY source is a no-op | the same bytes under the same name are refused (`financial_investigations/service.py:146`) |
| `UnreviewedNormalization.cfg`, `MCSourceReview` | `NormalizationIsBlocked` | docs/data_api.md:93, normalization waits for confirmed required mappings | what an analysis that died half way leaves passes the check (`normalization/service.py:134`) |
| `ConfirmedEdit.cfg`, `MCSourceReview` | `ConfirmedIsNotEdited` | source_analysis/service.py:249, confirmed mappings cannot be edited | an edit that overlaps a confirmation lands after it (`source_analysis/service.py:266`) |
| `DecidedAgain.cfg`, `MCDatasetPipeline` | `DecidedIsNotDecidedAgain` | relationship_discovery/service.py:201, "Only proposed relationships can be decided" | two reviewers that both found it PROPOSED both decide it |
| `RepeatedWrite.cfg`, `MCDatasetPipeline` | `KeyWritesOnce` | docs/security.md:84, "Replay with the same idempotency key is harmless" | when the re-read after the commit fails (`repository.py:802`, `894`), the key is released (`normalization/service.py:257`, `reconciliation/service.py:208`) and its retry writes a second version or run |
| `EscapedAnswer.cfg`, `MCEvidenceLoop` | `EndsTyped` | docs/data_api.md:93, an investigation persists SUPPORTED, UNRESOLVED or FAILED | some answers of a provider, such as tool arguments that are not an object, raise out of the loop |
| `LastingFailure.cfg`, `MCProviderRouter` | `LastingFailureIsFinal` | docs/data_api.md:153, key pools retry only for transient failures | the next key is asked after any failure of a key, quota, authorization and malformed output included |
| `RecordedProvider.cfg`, `MCProviderRouter` | `ActualProviderIsRecorded` | docs/data_api.md:153, persistence includes `actual_provider_used` | the router is read when the investigation ends, after another thread may have moved it |
| `BlankFee.cfg`, `MCRulePipeline` | `ReconcileIsTotal` | reconciliation/engine.py:165-171, "Settlement has no fee evidence." is a finding | a blank CSV cell is `""`, not null, and `int("")` raises out of the whole run (engine.py:133) |
| `RejectedEvidence.cfg`, `MCRulePipeline` | `EveryToolFactVerifies` | docs/PRD.md:1338, what the verifier rejects is cited evidence that does not exist | the verifier compares the first record with the cited id (`verifier.py:116`), so the facts of a second record with that id are rejected; a tool takes a return in lower case for none (`tools.py:154`), which the verifier contradicts; the fact that a record exists, of one that states no field, has no field to verify (`tools.py:301`, `verifier.py:122`); a text such as `NaN`, cited as the tool reads it (`tools.py:283`), becomes a number that is not equal to itself (`verifier.py:170`) |
| `ValueRoot.cfg`, `MCRulePipeline` | `EverySupportedIsFact` | verifier.py:300, a calculation error must "require a cited unit-cost multiplication mismatch" | any true citation that a value is not some other one will do, on an order whose values are all multiplied rightly; nor does the other root cause, that the sums differ, need a citation of a value (`verifier.py:302`) |

Read off the code while modelling, without a configuration: the operator
`missing` is also true of a record whose value merely differs from the expected
one (`verifier.py:150`); a result type outside `ExceptionType` is investigated
as `AMBIGUOUS_ASSOCIATION` and cannot be sent for review (`controls/service.py:98`); the
result rows omit `exposure_category` (`reconciliation/service.py:176`); a payment
without an amount skips the comparison with the order; a record whose id is null is cited
under the text `None` (`tools.py`, `str(item["movement_id"])`); the fingerprint of a
decision leaves out the actor and the reason, so that of two approvers with one key the
second is answered with the first one's decision (`controls/service.py:344`).

## 6. Not modelled

*Whole components.* Patterns, graph and analytics only read. Evaluation and
the simulator run offline on files. The sample repository is a demo backend of
the interface whose PostgreSQL implementation is modelled. Of the API layer the
rate limiter is a list per client under a lock in one process; routes do one call each
(the upload route, which does more, is in `SourceReview`). The persistence
infrastructure gives the models their grain. The web client keeps no state the
API relies on.

*Within components.* Of the sources: `create`, the parsing and limits of files.
Of discovery: how proposals are scored, a choice of `Upsert`. Of normalization:
the conversion of dates and amounts; a source that fails it is a refusal in `Prepare`.
Of the provider: prompts, parsing and health reports; its answers are choices. Of
the verifier: the score, on which nothing is decided. Of the approvals: the
look-ups of `request_financial_resolution` before it joins the modelled path. Of
investigation start and controls: the branches for the in-memory repository.
Audit events are in `Approvals` only.

## 7. Plan

Done, each with its MC module, runs and mutants: `IdempotencyLedger`,
`InvestigationStart`, `ApprovalContract` and `Approvals`, `SourceReview`,
`DatasetPipeline`, `ExceptionInvestigation`, `EvidenceLoop`, `ProviderRouter`,
and the deterministic core with `RulePipeline`, each with its proofs.

Left, in this order:

1. an abstract specification of an idempotent operation, implemented by the
   modules over the ledger;
2. the look-ups of `request_financial_resolution` against a run that finishes
   meanwhile (`DatasetPipeline` with `Approvals`);
3. the rate limiter's window.
