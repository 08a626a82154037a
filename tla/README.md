# Quantum Readiness Platform: a TLA+ verification project

This directory holds TLA+ models of the platform's services, TLC
configurations that check them on small instances, and TLAPS proofs for any
number of jobs, workers, tasks, people, threads, tokens, sessions and assets.
Paths are relative to `src/`; line numbers are in `PROJECT.json` (`map`).

## 1. The system

The platform collects cryptographic evidence (agents), stores it and scores it
(inventory, risk), plans the migration to post-quantum cryptography (planner,
workflow) and shows it (web-ui). Everything enters through `api-gateway`.

| Part | State | Operations | Interaction |
|---|---|---|---|
| api-gateway: scan-job queue (`scan_jobs.py`, `worker.py`, `main.run_scan_job`) | table `scan_jobs` | create, claim, finish, fail and retry, cancel | API processes and worker processes share the table; a worker calls the inventory over HTTP |
| api-gateway: audit (`audit.py`) | table `audit_events`, append-only | record, list | written after the operation it describes, on another connection |
| api-gateway: scan scopes (`scan_scope.py`) | table `scan_scopes` | create, check a target | read before each ingest |
| api-gateway: agents (`agents.py`) | tokens, agents | create and revoke a token, register, heartbeat | agents call with a bearer token |
| api-gateway: users and sessions (`auth.py`) | users, sessions | bootstrap, create user, login, logout, change password | every request passes the RBAC middleware |
| api-gateway: demo load (`demo_seed.py`) | files; rows of the inventory | load, status | several HTTP calls to the inventory |
| inventory-service | workspaces, scans, assets, risk results | ingest, create, update, delete, clean up | calls the risk-engine while ingesting |
| workflow-service | tasks, approvals | create, submit, change status, approve, clean up | called by planner and operators; request threads share the tables |
| planner-service | none | plan, export tasks | reads the inventory, writes workflow tasks one HTTP call at a time |
| risk-engine, policy-engine, scenario-engine | none | score factors and evidence; allow, review or deny; score and rank a portfolio | the inventory scores what it ingests; numbers pass between them rounded |
| crypto-fingerprint, pqc-readiness, finding-attribution | none | classify algorithm names; readiness; place of a finding | asked one after the other by `POST /api/assess` |
| evidence-normalizer | none | one form for nested and flat evidence | its output is what the other readers accept |
| inventory evidence mappers (`windows_evidence.py`, `risk_mapper.py`) | none | a Windows host document to an ingest request, an ingest request to factors | between a scan and the risk-engine |
| graph projection (`tools/graph_projection`), graph-service | a snapshot file | project; neighbours, path, blast radius, trust chain | demo load writes the snapshot, graph-service reads it or takes one from the request |
| copilot, retrieval, integration | none that outlives a request | text assembly, search, export | HTTP |
| agents (Linux, Windows, network, repository, documents) | none | collect evidence, post it | HTTP to the gateway |
| web-ui | page state | fetch and render | HTTP to the gateway |
| tools, infra, scripts, migrations | files | reports, deployment | - |

What is hard here:

- **A repository method is not a transaction.** Every repository opens a
  connection per method, or per query inside one (`tools/db_compat.py`), so
  "read, decide, write" leaves gaps in which other threads and processes run.
  The gap is closed in some methods by a conditional `UPDATE`
  (`mark_running`, `mark_finished`, the retry) and not in others
  (`cancel_job`, `update_task_status`).
- **A worker and the inventory only share a network.** The inventory commits
  before it answers; the answer may be late, an error, or lost; a worker may
  die at any point.
- **Several writes make one operation.** The job row and its audit event, the
  approval row and the task status, the scan row and its assets and risks.
- **Check, then act.** A token, a session, a scan scope or a list of assets is
  read in one transaction and relied on in a later one.
- **Several readers of one document.** Four services read a certificate, each
  with code of its own; three rate the same score.
- **Judgements that must have a direction.** Clamps, caps, boosts, chains of
  `elif` and substring tests decide a rating: worse evidence must not look better.

What makes each modelled component correct:

- *Queue*: one worker per job; an exact retry budget; a cancel that was
  acknowledged stays; outcome and audit agree with what the inventory
  answered; no double ingest that is acknowledged; queued jobs get done.
- *Workflow*: statuses move along the table; approver and requester differ;
  work only on tasks that were approved; a recorded decision takes effect
  unless its request is interrupted or overtaken; only races duplicate a task;
  a clean-up never removes the last task of a kind.
- *Enrollment and accounts*: after a revocation or a logout was answered,
  nobody gets in with it; nobody is in a route without a role for it and, if
  one is set, the key; demo mode changes no account.
- *Scan scopes*: what is passed on was in scope when it was checked.
- *Demo load*: it never claims more than it loaded; repeated loads ingest once.
- *Inventory*: a saved scan stays, an answer means scored assets, clean-ups
  keep one asset of a kind and its history, reports say what scans found.
- *Planner*: an asset is planned once; a worse risk is not put off; an export
  that succeeds has filed everything, one that fails the most urgent part.
- *Judging services*: bounded scores; monotone verdicts; the services agree.
- *Graph*: exact answers that come to an end on any snapshot; a projection
  whose edges all have both ends.

## 2. Modules

Every module is plain TLA+: `Init`, one action per transaction, call or step,
`Next`, `Spec`. `*_proofs` modules extend the module they are about; `MC_*`
modules give TLC its small instances.

| Module | What it models | Extended, instantiated or implemented by |
|---|---|---|
| `JobLifecycle` | the life of one scan job as README and docstrings promise it | refined by `ScanJobs` |
| `ScanJobs` | scan-job table, worker loop, cancel, audit, the inventory's answers | `ScanJobs_proofs`, `MC_ScanJobs` |
| `TaskLifecycle` | tasks, the transition table, decisions | refined by `Workflow` |
| `Workflow` | tasks and approvals, one action per connection | `Workflow_proofs`, `MC_Workflow` |
| `IngestContract` | what `POST /scans/ingest` promises a caller | refined by `Inventory`; assumed by `ScanJobs` and `DemoLoad` |
| `Inventory` | workspaces, scans, assets, risks, reports, one action per commit | `Inventory_proofs`, `MC_Inventory` |
| `Enrollment` | enrollment tokens and agents | `Gateway` |
| `Accounts` | users, sessions, the three middlewares | `Accounts_proofs`, `Gateway` |
| `ScanScope` | scan scopes and the check before an ingest | `Gateway` |
| `DemoLoad` | `POST /api/demo/load` over the inventory | `DemoLoad_proofs`, `Gateway`, `MC_Queries` |
| `Gateway` | the four parts above side by side, and what callers rely on | `Gateway_proofs`, `MC_Gateway` |
| `MigrationPlan` | `build_plan`, and the export of a plan to workflow-service | `Queries_proofs`, `MC_Queries` |
| `RiskScore` | what `POST /score` computes (operators) | `RiskEngine`, `HostEvidence`, `Decisions` |
| `RiskEngine` | evidence of one asset coming in, scan by scan | `Evidence` |
| `HostEvidence` | a Windows host, or another scan, mapped to factors | `Evidence` |
| `Decisions` | scenario-engine over a portfolio, then policy-engine | `Evidence` |
| `Fingerprint` | classification of algorithm names and its summary | `Assess` |
| `Assess` | `POST /api/assess`: fingerprint, readiness, attribution, risk | `Evidence` |
| `EvidenceForms` | the four readers of one certificate | `Evidence` |
| `Evidence` | the parts that judge evidence, side by side | `Evidence_proofs`, `MC_Evidence` |
| `GraphService` | the four queries, two of them a step per turn of the loop | `Queries_proofs`, `GraphProjection` |
| `GraphProjection` | the snapshot made of one host and one service | `MC_Queries` |

### ScanJobs

`status`, `retry_count` and `created_at` are the columns of `scan_jobs` that
are read back. `pc`, `batch`, `mine`, `try` and `new_count` are the locals of
`run_forever` and of the calls under it; `cancel_pc` and `target` those of
`cancel_scan_job`. `request[j][n]` is the inventory's handling of the n-th
try: `sent`, `saved` (the scan row is committed), `created` (201), `rejected`
(4xx, nothing written), `broken` (5xx after the commit). `attempts` is a
history variable: how often a job was claimed.

The actions in the order of the code: `Submit`; `CancelCheck`,
`CancelUpdate`, `CancelReply`; `Sleep`, `Poll` (the `SELECT ... LIMIT 10`),
`Claim` and `Skip` (`mark_running` on the oldest of the batch), `Refused` (the
scope says 403, or nobody listens), `Send`, `Receive`, `LoseReply`, `Finish`,
`ReadFailure`, `RecordFailure`, `Audit`, `Crash`; `Reject`, `Save`, `Reply`,
`Break` of the inventory.

Two details that decide what can happen:

- `_request_json` turns `HTTPError` and `URLError` into `HTTPException`, which
  `run_scan_job` retries. A read time-out is raised outside urllib's own
  conversion and is neither: it reaches `run_forever`'s catch-all. Hence
  `LoseReply` goes back to polling and leaves the row `running`.
- `get_job`, the look-up of the creator and `get_job_input` after a claim read
  columns that no code changes, so they are part of `Claim`. A job cancelled
  just then is still run: the code does not look at the status again.

The inventory knows nothing of jobs: a retried try is a new scan to it.

### Workflow

`status`, `asset` (name and wave), `action` (recommended action),
`requested_by` and `created_at` are the columns of `tasks`; `approvals` is the
other table. `pc`, `task`, `person`, `to`, `wanted` and `delete_ids` are what a
request thread remembers between its transactions. `created_at` values are taken to be distinct (the code stores
microseconds). `Nobody` stands for a local that is not set.

The actions: `CreateFind`, `CreateInsert`; `StatusCheck`, `StatusUpdate` (POST
`/submit` and `/status`); `DecideCheck`, `DecideRecord`, `DecideRecheck`,
`StatusUpdate` (POST `/approve`); `CleanupRead`, `CleanupDelete`; and
`Interrupted`: a request dies, or loses its database, between any two of them
(the `with` of `db_compat.py` commits or rolls back one connection), and what it
committed stays. A request that is answered without a change (404, 409, "already exists") is not
a step. `CreateOutOfBound` ends a creation for which no id is left: it is the
bound on rows, not code.

`CleanupRead` and `CleanupDelete` share one connection, but on PostgreSQL's
default isolation the statements after the `SELECT` see what others committed
meanwhile, and on SQLite the write lock is only taken by the first `DELETE`.

Four history variables say what happened to requests. A request is `overtaken`
when another one changes what it checked: the status of its task, or the
existence of the task it was going to create. `unapplied` are the requests whose
decision was recorded, before anybody overtook them, and has no effect yet;
`raced` are the tasks that an overtaken request created; `approved_once` are the
tasks that were approved at some time. With them `DecisionsAreApplied` and
`OnlyRacesDuplicate` are stated for overlapping and interrupted requests, and
name the one thing that excuses a failure.

### Inventory and IngestContract

`op`, `pc` and the other arrays over `Threads` are what a handler remembers
between two commits; ids are handed out in the order of the `INSERT`s, so that
"newest" is "largest". An ingest is `Ingest`, `AutoWorkspace` (when it names no
workspace), `SaveScan`, then `FindAsset`, `InsertAsset`, `RereadAsset` per
payload asset, `ScoreAsset` per asset, `Created`; `Abort` ends it after any
commit, with everything committed left behind. `UpdateRead`/`UpdateWrite`,
`CleanupRead`/`CleanupDelete` and `ReportScans`/`ReportRisks`/`ReportInsert` are
the other multi-step requests; `CreateAsset` shares the actions of an ingest.

`IngestContract` is all that `ScanJobs` assumes of the inventory: a refused
request saved nothing, a scan is saved once and before the answer, and no
failure takes it back. `Request` in `Inventory` is the refinement mapping: the
request of a thread is `saved` from the commit of the scan row on.

`past` is a history variable: `"overlap"` is in it once two requests were open
at a time, `"edit"` once an asset was renamed or deleted. What the service only
keeps for single requests, or only until an asset is edited, is stated with it, so
that one specification, with every overlap in it, carries all of the properties.
`StoredIsConsistent` is the inductive invariant in four named parts: what is
stored (`IInv`), reports (`Reported`), what no edit disturbed (`Unedited`), and
what no overlap disturbed (`Alone`).

### Enrollment, Accounts, ScanScope, Gateway

`Gateway` puts the parts of api-gateway together. They have tables of their own
and requests of their own, so a step of the gateway is a step of one part that
leaves the others alone (`GatewayNext`).

A request of `Enrollment` is verified (`Verify`, one `SELECT`) and then acts
(`RegisterAgent`, `AuditRegister`, or `GetAgent`, `Touch`); the revocation is
`Revoke`, `RevokeUpdate`, `RevokeAnswer`. `cut` records which revocations were
answered before a request arrived: only those it must respect, because a token
is not read again.

In `Accounts` a request arrives (with a cookie, perhaps the key), passes `Gate`
(RBAC, demo mode, API key, in the order in which the middlewares wrap each
other), and is served by its route: `bootstrap` is `BootstrapCount`, `NameCheck`
and `Insert`; `login` is `Verify` and `CreateSession`. `Expire` ends a session,
`Restart` starts the process again with the tables it left. `boots` and `raced`
are history variables: the users a bootstrap created, and whether two
bootstraps were ever between count and insert at a time.

In `ScanScope` the middle of `_ingest_scan` is `HasScope`, `CheckScope`,
`PassOn`, with scopes created in between. A host is a kind and a path (bits or
labels), so a network or a wildcard is a prefix. `HostOf` is `_extract_host`: a
port that is not digits leaves a host that is no name and no address.
`allowed_scan_types`, like the windows and rates that the module's docstring
names, is stored and not looked at.

### DemoLoad

The stages of the inventory are those of `Inventory` for the one asset of each
payload. `Faults` says which calls may fail: listing (counts as empty), the
workspace, the ingest before or between its commits, the files, and the
time-outs nobody catches (`Die`), after which the inventory goes on alone. The
history variable `disturbed` is set once two loads were open at a time or the
inventory failed or was left half-way: until then a repeated load saves nothing.

### MigrationPlan

`Kept` is the risk the planner keeps per asset name, `Priority` the boosted and
capped priority, `WaveOf` its wave, `Action` the advice. An exporter reads
assets and risks in two requests, then posts one task after the other and stops
at the first failure. `Insert` is workflow-service, which may still insert after
the exporter has timed out. `disturbed` is a history variable: two exports were
open at a time, or one gave up on a request that was still under way (a refusal
and a lost answer do not count). Inventory rows do not carry the stage 2 signals,
dimensions and confidence that some boosts read (`RiskRecord` in the
inventory's models); the model gives risks those fields, so both inputs occur.

### The judging services

`RiskScore` is exact fixed-point arithmetic: weights are multiples of 0.05 and
multipliers of 0.01, so every exact score is an integer of a small unit, and
rounding is explicit where a service reports (`Rounded` allows both neighbours
at a tie, which is what binary floats do). `RiskEngine`, `HostEvidence` and
`Fingerprint` are behaviours of *growing evidence*: each step adds one piece,
so that "worse never looks better" is an action property. `Decisions` chains a
scored asset through scenario-engine into policy-engine. `Assess` adds the
order of four services, each of which may fail. `EvidenceForms` builds one
document and compares what evidence-normalizer, the fingerprint, the
inventory's validators and risk-engine read in it.

Algorithm names are known to the fingerprint only by the tokens it finds in
them, so a name is the set of tokens found in it (`TokensIn`): any set, empty
ones too.

### GraphService and GraphProjection

`Visit` is a turn of the loop of `blast_radius`, `Follow` one of `trust_chain`;
neighbours and `evidence_path` are answered in one step. A snapshot of a request
may be any JSON: edges may repeat, close cycles and lead nowhere. `Reached` is the
reference that a blast radius is compared with: what leads to the node in at
most `k` edges. `GraphInv` is the inductive invariant of both walks. `Project`
composes the snapshot the demo load writes, and the queries then run on it.

## 3. Runs

| Run | Checks | Shows |
|---|---|---|
| `ScanJobs_race` | `SingleHolder`, `OutcomeIsReal`, `AtMostOneCreated`, `AuditIsTruthful`, `CancelHolds`, `IInv`, `CancelIsReliable`, `ImplementsLifecycle` | the queue is safe under every order of two workers, a cancel, a crash and a lost reply |
| `ScanJobs_progress` | `JobsSettle` (fair) | without losses, every queued job gets an outcome and each try an audit event |
| `ScanJobs_cancel_race` | `TerminalIsFinal` (violated) | a finished job can be overwritten with `cancelled` |
| `ScanJobs_lost_reply` | `RunningSettles` (violated) | one lost reply leaves a job running for ever |
| `Workflow_overlap` | `SegregationOfDuties`, `WorkWasApproved`, `OneIsKept`, `IInv`, `DecisionsAreApplied`, `OnlyRacesDuplicate` | what survives overlapping and interrupted requests, and what only an overlap or an interruption explains |
| `Workflow_sequential` | `ImplementsLifecycle` | one request at a time, and some of them interrupted, the service keeps its whole promise |
| `Workflow_lost_update` | `OnlyAllowedTransitions` (violated) | two overlapping status changes leave the table of transitions |
| `Workflow_no_record` | `ApprovedOnRecord` (violated) | `/status` approves without a decision on record |
| `Gateway` | `IInv`, `RevocationHolds`, `RevokedOnce`, `RequestsAreChecked`, `AccountsAreKept`, `ScopesDecide`, `LoadsAreHonest` | tokens, sessions, scopes and demo loads under overlap and failure |
| `Inventory` | `AnswersAreTrue`, `StoredIsConsistent`, `CleanupKeepsHistory`, `KeepsContract`, `SingleRequestsAreExact` | what overlapping and failing requests leave of the tables |
| `Evidence` | `FindingsAreRight`, `AssessAgrees`, `FormsAreReadAlike`, `ScoresAndVerdictsAgree`, `WorseNeverLooksBetter` | the judging services are bounded, agree, and judge in one direction |
| `Queries` | `GraphAnswersAreExact`, `ProjectionIsWhole`, `EachNameOnce`, `ExportsFileInOrder`, `RetriesFileOnce`, `EverythingEnds`, `NoBetterIsNotPostponed` | walks, loads and exports end, with exact answers and nothing filed twice |

The last four runs hold several components, or several instances of one,
**side by side**. These share no state: their initial states choose a `part`, and
only that part moves. So a run explores the sum of the parts' state spaces, not
their product (440,536 states in `Gateway`, 808,577 in `Inventory`, 146,111 in
`Evidence`, 181,067 in `Queries`), and one property names the question with one conjunct per part.
Every step of these runs is a step of the specification the theorems are about,
such as `GatewaySpec`, within smaller bounds. Where components do
interact, the interaction is inside a module: the inventory's stages in
`ScanJobs` and `DemoLoad`, workflow-service in `MigrationPlan`, the snapshot in
`GraphProjection`, four services in `Assess`.

### Bounds, and why they are enough

- Queue: two jobs and two workers are the least that allow a claim race, a
  batch whose second job was taken meanwhile, and a worker that still holds a
  cancelled job while another runs. `MaxRetries = 1` gives a retry and a
  final failure. `ClaimBatch = 2` (10 in the code) makes the batch hold every
  job; `ClaimBatch = 1` in the progress run makes one job wait behind another,
  which is where starvation would show. `MaxCrashes` and `MaxLost` are one
  each: a crash while the other worker's reply is lost is in.
- Workflow: two tasks, two threads, two people. The action set has null and
  the empty string because the clean-up's key confuses them and the look-up
  does not. `MaxOpen` bounds how many requests are open at a time: two in the
  overlapping run, where every pair of multi-step requests meets at every step
  and either one may be interrupted.
- Enrollment: two tokens, one agent row, two threads, three time stamps:
  registration and heartbeat against two revocations of one token.
- Accounts: two threads over the routes that write, and one thread over all
  routes under every setting of key and demo mode. An answer is forgotten when
  its thread takes the next request, so a pair of overlapping requests is met
  once and not once per pair of earlier answers.
- Scan scopes: three scopes that follow each other, addresses of two bits,
  names of up to three labels, two targets per payload: an exclusion inside an
  allowed network, a wildcard against its own domain, a port that is text.
- Demo load: two overlapping loads of three payloads with all faults, which
  includes one after the other; at most two of the six ingests come to an error
  (`FewErrors`), which is one in each load or two in one. In `Queries` one load
  after the other, for the end, without this bound.
- Inventory: five instances, each with the requests its question needs: two
  threads with two scans and two rows of one name for overlap; one thread with
  four rows and two types for exactness. `MaxPayload = 2` lets one payload
  settle on the same asset twice.
- Risk: every field at and around the value where its signal begins, two
  fields at a time, under the least multiplier, the greatest and one between;
  the portfolio has base scores at 50, 60 and 80 points and one of 79.996,
  which a service that rounds may take for 80.
- Evidence: two pieces in a payload. The fingerprint meets the nested form, the
  flat one, both, and two key sizes in either order; `POST /api/assess` then meets
  the nested form with every failing service. Of the four blocks that
  `EvidenceForms` reads two at a time are given (`TwoBlocks`): a clause of its
  properties is about one block and about whether any other one is refused. The
  source of a scan varies for scans that are not a Windows host's, whose
  document has no other source.
- Graph: every graph of up to three edges over three nodes, with a loop on one
  of them, of up to two where the snapshot lacks one of the nodes, and two larger
  ones with ways of different lengths. Projections are those of a host with one
  thing on it or with everything, next to every service.
- Plan: two asset names with risks on both sides of both wave boundaries; one
  exporter that repeats, with two faults (`MaxFaults`) and scans at any time, or
  two that overlap, with one fault and scans until the second one asks, so their
  plans may differ. The scans of all other risks come in without an export.
- Symmetry permutes threads, jobs, workers, tasks and people: no action or
  property orders them, and no run with a liveness property uses it.

`CHECK_DEADLOCK FALSE` is set where the system really may stop: the ids of a
table are used up, a walk is done, or the evidence has as many pieces as the
bound.

### Fairness

- *Queue*: weak fairness of each worker's loop and of each ingest. A worker is a
  process in `while True` that sleeps for a bounded time and whose HTTP calls
  end after 10 s; an ingest runs in the inventory's thread pool. Submitting,
  cancelling, crashing and losing a reply are not assumed to happen. `Sleep` is
  a stuttering step, so a worker with nothing to do satisfies its fairness by
  not moving. `JobsSettle` holds without losses only: after a `LoseReply` or a
  `Crash` nobody looks at a `running` row again (`RunningSettles` is that
  finding).
- *Graph*: weak fairness of the loop of a request (`Walk`): nothing keeps it from
  its next turn.
- *Demo load*: weak fairness of a load that has begun, and of the inventory's
  work on its request; a click is not assumed to happen.
- *Export*: weak fairness of an export that has begun and of workflow-service's
  inserts: every call has a time limit and both services answer.

## 4. Findings

1. `cancel_job` reads and then overwrites without repeating its condition:
   a job that ends in between reads `cancelled` and the client is told 200.
   Docstring and README say that a terminal job cannot be cancelled. What does
   hold, and is proved, is weaker: a terminal job stays terminal
   (`NeverRevived`) and an acknowledged cancel stays (`CancelHolds`).
2. A lost reply strands the job in `running`. That it is not retried is also
   what makes `AtMostOneCreated` true: turning the time-out into a retry is the
   mutant `RetryLostReply`, and it breaks that property.
3. `update_task_status` writes a status it checked against an older one.
   What holds under overlap, and is proved: no decision by the requester,
   no work on a task that was never approved, and a recorded decision that nobody
   overtook takes effect.
4. `/status` takes the approval edge without an approval record.

What the models also show of the code, where no document promises otherwise or
where it only follows from an assumption about use; no run expects these to
fail, and the properties are stated so that they allow for them:

- *Gateway*: two overlapping bootstraps with different names make two admins
  (`main.py:185`), so `OneBootstrap` speaks of one admin until bootstraps race; of two creations
  of one name the loser gets a 500; a delayed heartbeat may set `last_seen`
  back (`agents.py:289`); two overlapping demo loads ingest everything twice, one click never does
  (`LoadsOnce` holds until loads overlap, `OneScanPerLoad` always).
- *Workflow*: `create_approval` commits the record and then checks the task again
  on another connection (`repository.py:190`). If the request fails between the
  two, or another one moved the task, the decision stays on record without effect;
  in the first case the task is still pending and may be decided again, by somebody
  else and otherwise. Two overlapping creations of one task make two
  (`repository.py:105`).
- *Inventory*: overlapping ingests create duplicate assets
  (`repository.py:261`), which the clean-up removes; an update writes back
  columns it read (`repository.py:306`); risk history is joined by name, so it
  also shows assets of that name with another type; an ingest that fails half
  way leaves its scan and some of its assets.
- *Fingerprint*: the token EC is found in AES-128-ECB, which thereby counts as a
  classical public-key name; a name without a token (ElGamal, but also HQC, XMSS or
  LMS) is unknown and counts for nothing, so ElGamal beside ML-DSA still reads
  `pqc_ready`; RSASSA-PSS counts as harvestable; ML-DSA is seen as DSA by readers that do not order their tokens;
  DSA and DH certificates of a Windows host add no exposure.
- *Forms*: a key size that is not a number is dropped silently, while invalid
  `cert_indicators` are accepted; `/api/assess` hands the nested weak key to
  the fingerprint and not to risk-engine.
- *Scores*: a rating is made of the exact score and reported next to the
  rounded one, so 79.998 is reported as 80.0 and rated `high` by one service
  and `critical` by another that reads the report.
- *Planner*: assets are matched by name only; the boosts for signals,
  dimensions and confidence never apply to rows of the inventory, which does
  not store them.
- *Graph*: evidence of a service without an asset name gives a service that no
  asset runs; an elliptic-curve key of 256 bits is a "weak" finding; a leaf
  that is listed in its own chain loses its algorithm in the snapshot; if a chain
  has the same certificate at two places, the trust chain ends in the cycle, without
  what is listed after it.

## 5. Proofs

Assumptions are those the modules state (`InventoryAssumption`,
`PlanAssumption`, `DemoAssumption`, `RoutesAssumption`, ...): bounds are natural
numbers, a missing value is none of the values, routes and modes are those of the
code. Nothing is assumed about the sizes of the sets, except that the threads
are finitely many where a theorem counts open requests. TLC evaluates each
assumption on the instances it checks, and `IInv` of the queue, of the tasks and of
enrollment are invariants of runs.

**Queue** (`ScanJobs_proofs`). `SingleHolder` or `RetryBudget` alone are not
inductive: that a retry writes the right count needs that the worker is the
only one with the job, that the row is `running`, and that the count was read
from it. `IInv` adds what the worker may rely on between its transactions
(`HeldJob`, `CountIsFresh`), what each try left in the inventory
(`TriesInOrder`, `ReplyInHand`) and in the audit trail (`AuditFollows`). One
lemma per action shows that it keeps `IInv`; `Invariance` is the induction. The
state properties follow by implication, `NeverRevived` and `CancelIsReliable`
by cases over the actions, and `Refinement` maps every action to the step of
`JobLifecycle` it is, or to a stutter: a `Finish` on a cancelled row is
invisible, and `Save` is the delivery even when nobody hears the answer.

**Workflow** (`Workflow_proofs`). A thread's locals are stale as soon as
another thread runs; `HandlerArgs` says what of them cannot become false: a
task that existed was created, a requester never changes, a task that was
approved once was approved. From it follow `SegregationOfDuties` and
`WorkWasApproved`, although the final `UPDATE` is unconditional. `OneIsKept`
needs a different argument: whatever clean-ups overlap, each deletes only tasks
that had a newer one of their kind when it read, so the newest task of a kind is
on no clean-up's list (`KeptInv`). `RecordsTakeEffect` and `DuplicatesAreRaces`
rest on `RaceInv`, which turns the history into facts about the tables: as long as
a request is not in `overtaken`, what it checked is still so, its task pending or
the task it is about to insert not there (`Fresh`), because every step that changes
this puts the request into `overtaken`. Neither assumes anything about overlap.
`KeepsLifecycle`, the refinement, does (`OneAtATime`: one open request at a time,
finitely many threads): an open request is then the only one and never overtaken
(`Alone`), so it writes what it checked; an interrupted one has at most recorded
its decision, which is a step of the lifecycle on its own.

**Inventory** (`Inventory_proofs`). What another handler commits can only add
workspaces, rows and risk results (`Grows`), and `Locals` and `Pending` say of a
handler's memory only what survives that: its workspace exists, the scan is
saved, each name in its answer is scored or still queued, the row that an update
will write is whole. What a report read is real, whatever was added since
(`Reported`). These hold for any overlap and after any failure and give
`AnswersStayTrue`. Until an asset is renamed or deleted, the newest asset of a
name and type is on no clean-up's list, so overlapping clean-ups keep one of each
with its risk results (`HistoryStaysWhole`). While no two requests overlap, what
a handler read is still what the tables say (`UpToDate`), from which
`SingleRequestsStayExact` follows. `IngestKeepsItsPromise` is the refinement of
`IngestContract`.

**Accounts** (`Accounts_proofs`). `Checked` says what a thread behind `Gate` was
let through for (`RolesCount`, `LogoutIsFinal`, `KeyIsNeeded`, and the action
properties `FirstCreationStays`, `DemoIsReadOnly`). `BootstrapCreatesOne`: while
bootstraps have not raced, one that is about to insert is the only one and no
bootstrap has created anybody (`FirstAndAlone`).

**DemoLoad** (`DemoLoad_proofs`). The inventory works on a payload only while its
load waits or is gone, so it is the load's next payload; what a load saw, or
called ok, is in the inventory, which only grows. Hence an audited success means
that everything is there (`SuccessMeansLoaded`) and no step hides another
(`NoStepIsHidden`). `ClicksSaveOnce` counts: there are never more scans of a
payload than loads that have recorded it or are at it (`ScansAreCounted`), which
adds one load per `Save`. `LoadingTwiceSavesOnce` and `SuccessMeansScored` are
about undisturbed loads: then nothing is half-way in the inventory except for
the one open load (`NothingIsLost`, `OpenOneIsAlone`).

**The gateway** (`Gateway_proofs`). Enrollment: a token that a request found valid
was not cut off when the request arrived; the rest is monotone
(`RevokedIsCutOff`, `FirstRevocationStays`, `AgentsHaveTokens`). Scopes:
`CheckIsApproval` shows that the order of matching in `check_target` (excluded
first, then networks, then names) decides as the set of approved hosts does; then
the scope in force is always one of those the request has met (`Met`), which
gives `PassedWasInScope` and `RefusedWasOutOfScope` although the check and the
ingest are separate. The theorems of Accounts and DemoLoad are used as they
stand, through the instances of `Gateway`: a step of the gateway is a step of a
part or leaves that part alone, so `GatewaySpec` implements each part's
specification (`MiddlewaresHold`, `RolesStay`, `ScopesAreEnforced`,
`LoadsSayWhatTheyDid`).

**MigrationPlan** (`Queries_proofs`). `PlannedOnce` needs that two risks of
one name are never kept together, whatever the ties; `NothingIsPutOff` that each
boost, cap and tie-break is monotone, so that evidence which is worse in every
respect never moves an asset to a later wave. Of an export, every item asked for
is left to post, in the table, or in the one request the exporter waits for
(`NothingIsDropped`); with the order of the plan this is `FilingIsInOrder`.
`NothingIsFiledTwice` adds that undisturbed exporters have at most one request
under way, for a task that is not there (`OneUnderway`).

**Graph** (`Queries_proofs`). `GraphInductive` is the invariant of a search by breadth on
any snapshot: the queue is in order of the distances, of which there are at most
two, every distance has a way, and what leads to a visited node is seen.
`AnswersAreExact` compares the end of the walk with `Reached`. `Reached` is a
recursive function, so its equations are proved first, by constructing the
function that satisfies them, one number further at a time (`SetInduction`). That the reference needs no
more steps than there are edges is a counting argument (`Counting`): each
distance up to the largest occurs, with an edge of its own. `RootEndangersChain` follows the chain down
from its last certificate.

`SnapshotsAreWhole` adds what holds of the snapshots of the projection, under
`ProjectionAssumption`: packages and configuration files are finitely many, and a
server sends each certificate once, its own first if it is among them. Nothing in
`project_network` checks the second, and without it a trust chain may stop in a
cycle. Every node has the type of its id (`Kinded`), whichever
document is projected later, so an edge can only link what it should (`IsLink`).
The loop over the certificates keeps `Climbed`: along its edges one comes from the
leaf to every certificate and back, and no certificate has two issuers. By the way
back and `LeaveNoGap` a blast radius comes from any certificate down to the leaf, the
service and its asset; by the way up, and since each has one issuer, a trust chain
meets all of them before it can end (`ChainEnds`). `AnswerInv` says what the answer
of a request has to do with its question.

**Evidence** (`Evidence_proofs`). `TheFindingsAreRight` rests on the order of the
table: the post-quantum tokens are its first eight entries, so the first token
found is one of them as soon as the name has one (`PqcCountsFirst`). Nothing is
assumed of what names contain except that where RSASSA or RSAPSS is found, RSA
is (`TokensAssumption`). `FindingIs` says where a finding can come from, and
`ClassesAreReported` that, among certificate, cipher suite and list, every reported
name is one: with both, a verdict is exactly what the reported names earn. For
`AnswersAgree`, `Assembled` is the inductive invariant of a request: the response
is what the services asked so far make of the document, which stays as it is
until the answer is read; one lemma per service shows that it is kept, whether
the service answers or fails. `OneEach` counts the attributed findings by a
bijection. `ReadersAgreeOnForms` needs only that a form is well-formed (a block
has at most one element, a field is a value of its kind, missing or junk), and
compares the readers case by case.

`ScoresAgree` and `NothingLooksBetter` hold for all factors up to 5, assets,
certificates, dates, portfolios and base scores, and for documents with any
numbers (`FactorsAssumption`, `AssetsAssumption`, `PortfolioAssumption`, which say
what pydantic accepts). The invariants are plain: `ScoringOk` and `CollectingOk` say what
documents and hosts look like, `VerdictsAreRight` is inductive as it is. The work
is in the operators. The points of a set of signals are a cardinality, so a sum
grows with the set and with the table (`SumsGrow`); `SignalsGrow` says that a
document which says more has every signal that the other has, field by field; from both,
scores, dimensions and confidence only rise (`ScoresNeverLower`). A host goes through the
mapper first: what the property calls worse (a role, more of what the collector
counts, a first certificate with an RSA or EC key) lowers no factor (`FactorsGrow`),
and takes no signal away (`HostSignalsGrow`). Further certificates are no part of that
claim: one of the store is carried, and another choice may look better.
For the verdicts, scenario-engine starts from a base score that risk-engine
reported to four decimals, so `BasesAgree` bounds how far the two scores can be apart,
and `RunIsRight` shows that sorting, rating and the highest rating are right in
spite of ties.

Only model-checked is liveness (`EverythingEnds`, `JobsSettle`): the prover has no
rule for fairness and `ENABLED`. Every invariant and every action property of the
passing runs has a theorem.

## 6. Not modelled

- *integration-service*: a stateless export and a simulated delivery.
- *copilot-service, retrieval-service*: text assembly for a language model and
  token scoring over documents; no state that outlives a request, and the
  content is wording.
- *agents and scanners*: sequential collection from an operating system, a
  network or files, in Go, PowerShell and Python. What they report is the input
  of `HostEvidence`, `EvidenceForms` and `RiskEngine`.
- *web-ui, report tools, database wrapper, infrastructure, migrations*:
  rendering, offline generators, deployment. `tools/db_compat.py` is read for
  where transactions begin and end; the compose file for how many processes
  run.
- In modelled components: the rate limit of the gateway (a window of wall-clock
  seconds per address), routes that pass a request on unchanged, a change of
  password (a session stays as it is), audit events other than those of scans,
  demo loads and registrations, log texts, labels, descriptions, and warnings.
