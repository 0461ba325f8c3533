# Hypercluster in TLA+

Specifications of the hypercluster challenge service (`src/src/hypercluster`):
a FastAPI process with one SQLite database, in which GPU providers list nodes,
renters lease them and submit multi-node jobs, worker loops drive the jobs from
admission to a score, scores earn points and make weights, and a push loop sends
the weights to a master. The modules below model the parts with state that
several actors race for and the algorithms those parts rest on. TLC checks them
on small instances, and TLAPS proves the main results for every value of the
constants.

Paths such as `job_lifecycle.py:1340` are relative to
`src/src/hypercluster/domain/` unless they name another directory.

## 1. The system

One process (uvicorn, asyncio) serves HTTP requests and may run the combined
worker loop; separate drain loops are possible as well. Everything durable is in
SQLite. Four facts about the database layer give every module its grain:

* sessions do not autoflush and do not expire rows on commit
  (`db/database.py:53`), so what a handler has read stays what it thinks,
  however many awaits pass;
* a SELECT opens no transaction: each sees the latest commit, and two SELECTs of
  a handler may see different states;
* the first INSERT or UPDATE takes SQLite's single write lock and holds it to the
  commit, so a handler's writes are one atomic step;
* the ORM writes `UPDATE ... WHERE id = ?` with the columns whose value changed
  against what was read. Nothing re-checks a status, except
  `cas_status_transition`.

So a handler is modelled as a few *read* actions, each of one committed state,
and *write* actions, each one transaction. Every other process may step between.

### Components

| Component | State it keeps | Operations | Hard behaviour | Correct when |
| --- | --- | --- | --- | --- |
| Job lifecycle (`job_lifecycle.py`) | `jobs.status`, `job_placements`, `job_attempts` | advance one step, time out, fail, cancel, post results | workers, cancels and posts race on stale reads; awaits inside transactions; rollbacks | status only moves forward; placed and launched once; the rows behind a status exist |
| Job queue (`job_queue.py`, `app.py`) | order, budget held by statuses, timers | list, bind capacity, gate, tick | gate is read before the claim; list limit; one rollback ends a tick | caps hold; every job ends |
| Admission, authentication, providers (`jobs.py`, `api/auth.py`, `providers.py`) | `jobs`, nonces, `providers` | admit, authenticate, register | lost, late and repeated requests; concurrent duplicates; pruned nonces | a request is applied once; one job per client request id |
| Result routes (`api/public.py`, `tee_proofs.py`, `scoring_tee.py`) | attempts, proofs, scores | post, quote upgrade | second transaction after the first | scores, proofs and payments go together |
| TEE attestation (`attest/`) | none | verify a quote | which digest is expected | a quote is of its job |
| Points (`points.py`) | ledger, balances | earn | a savepoint whose failure is swallowed | balance = sum of the ledger, one payment per attempt |
| Aggregation, incentive, weights (`aggregation.py`, `incentive.py`, `weights.py`) | settings | window, damping, top-k, cap, normalise | window by a timestamp read outside the lock; cap that shrinks its own base | pay follows rank, cap is fair, self-deals never pay |
| Weight push (`weight_push.py`) | `weight_snapshots` | snapshot, push, acknowledge | lost and late answers, several pushers | acknowledged means accepted by the master |
| Nodes, offers, leases (`nodes.py`, `offers.py`, `leases.py`) | statuses of nodes, offers, leases and pods | register, heartbeat, sweep, create, withdraw, rent, terminate | two rents at once, overlapping offers, stale writes over a rent | one tenant per node, books match |
| Pricing (`pricing.py`, `api/prices.py`) | catalog, history | upsert, disable, seed, quote | copies of what was read, partial column writes | history explains the catalog and the offers |
| GPU probe (`probe/`, `gpu_probes.py`) | evidence, inventory | probe over SSH, attach | uuids read before, merged after; slow hosts; inventories a client makes up | a node shows its newest evidence, unless a client registered otherwise; one node per GPU |
| Fabric (`fabric/`, `fabric_reports.py`) | reports, placements, report of a job | scan, plan, gate, launch, bundle | simulated dates; reports that change between placing and collecting | every rank on one GPU; InfiniBand only where found |
| Simulator, CLI, outbound guard | none of the service's | - | - | not part of the service |

Interactions: a job may name a lease, and its placing step fails when the lease
is no longer active (`try_bind_capacity`); a results post and a worker's collect
both write the attempt, its score and the job's fabric report; a score earns
points; scores make weights; the push loop reads weights; a probe's label and a
scan's flag decide about scores, rents and placements. All of them meet in the
database, none calls back.

The hazards of this code, each with its line and the properties that would catch
it, are listed in `PROJECT.json`.

## 2. Modules

| Module | About | Uses |
| --- | --- | --- |
| `JobStates` | status vocabulary, the variable `status`, budget predicate `CanAdmit` | |
| `JobPromise` | abstract specification of a job's life | `JobStates` |
| `JobLifecycle`, `...Proofs` | any number of workers and requests on the job tables; the proofs also of `JobPromise` and `JobQueue` | refines `JobPromise` |
| `JobQueue` | who is served by the combined worker, with fairness | `JobStates` |
| `Marketplace`, `...Proofs` | nodes, offers and leases under concurrent requests | |
| `PushPromise` | abstract specification of what readers and master may rely on | |
| `WeightPush`, `...Proofs` | push loop and commands against a master over a faulty network | refines `PushPromise` |
| `Attest` | verification of a TEE quote, as operators | |
| `Scoring` | factors, composite, tee bonus, price weight, as operators | |
| `PointsPromise` | abstract specification of points | |
| `Emission`, `...Proofs` | every transaction that writes proofs, a score and points | `Attest`, `Scoring`; refines `PointsPromise` |
| `DeskPromise` | abstract specification of `client_request_id` | |
| `Desk`, `...Proofs` | signed requests over a faulty network, admission, providers | refines `DeskPromise` |
| `Catalog`, `...Proofs` | prices, their history, the boot seed, the price of an offer | |
| `SshSession` | key, commands, timeouts and wall budget of a probe's session | |
| `GpuProbe`, `...Proofs` | probes, attached evidence, inventories | `SshSession` |
| `Fabric` | scans, `require_ib`, the planner, the launcher's gate | |
| `JobReport` | the fabric report of a job | |
| `Incentive` | from score rows to weights | |
| `ComputationProofs` | proofs of the three above, and the lemmas on induction, recursion, sums, folds and sorted orders they share | `Fabric`, `JobReport`, `Incentive` |
| `MC...` | instances for TLC | |

Modules whose proofs share a module are extended together, so the names that
would clash carry a prefix in JobQueue, JobReport and Incentive (`QueueSpec`,
`ReportInit`, `incentiveVars`).

The four abstract specifications are instantiated in the detailed modules as
`Promise == INSTANCE ...`, and `KeepsPromise == Promise!Spec` is a property of a
run and, in each of the four, a theorem.

### JobPromise and JobLifecycle

JobPromise is what a caller may rely on, whoever drives a job: `Admit`, `Advance`
along the success path one status at a time with the placement made on entering
provisioning and the launch on leaving running, and `Finish` in a terminal
status from anywhere. `Finish` also renames one terminal status to another: the
code does that (section 5), and the promise is what the code keeps.

In JobLifecycle `status`, `placements`, `attempts` are the tables (an attempt is
reduced to its status, whether it is sealed and by which envelope, its output
digest and whether it has a score row); `launches` is a history variable that
counts the committed launcher runs. `worker[w]` is what a drain loop has read and
where in `advance_job_one_step` it is; `client[c]` the same for `cancel_job` and
`jobs_post_results`.

| Code | Actions |
| --- | --- |
| refresh, `should_timeout`, `try_bind_capacity` | `WorkerRefresh` |
| `mark_timeout`, `mark_failed` | `WorkerReadAttempt`, then `MarkTimeout` or `MarkFailed` |
| bind gate | `WorkerHold`, or `WorkerBind` and `WorkerReread` |
| `can_admit_to_running` | `WorkerGate` |
| CAS and its side effects up to the commit | `LostClaim`, `ClaimProvisioning`, `ClaimRunning`, `ClaimCollecting` (with `Collect`), `ClaimScoring`, `ClaimSucceeded` |
| `drain_jobs_once` except branch, crash | `WorkerAbort` |
| `cancel_job` | `CancelReadJob`, `CancelReadAttempt`, `CancelWrite` |
| `post_job_results` | `PostReadJob`, `PostReadAttempt`, `PostWrite`, `PostConflict` |
| quote branch of the route | `QuoteWrite` |
| disconnect, error, crash | `ClientAbort` |

`Dirty` is the ORM's rule that an unchanged column is not written. `SealZero`
stands for a score whose failure is swallowed (`job_lifecycle.py:635, 1134,
1310`). Time is a choice: a job past its start may be late at any visit. The
status `submitted` is left out, since `admit_job` inserts rows as admitted. The
numbers behind a score are Emission, the report of a job is JobReport.

### JobQueue

Here one visit of a job is atomic and there is one worker, so that the question
is who is served. `created` gives the queue its order, `overdue` holds the jobs
past the limit of their phase, `tick` is the rest of the list that the running
tick goes through. `Visit` has one disjunct per outcome; `VisitRolledBack` is a
lost claim or an exception, after which the rest of the tick is skipped. (The
rollback expires the listed rows; reading the next one's status outside the try
raises, and `_drain_job_lifecycle` logs it, although the docstring promises to
"advance each drainable job".)

### Marketplace

`node`, `offer`, `lease` are the status columns (each lease has the pod that is
inserted with it), `stale` the nodes whose heartbeat is old. `client[c]` is a
request on one of the routes `Rent`, `Terminate`, `Withdraw`, `Heartbeat` (or
re-registration) and `Sweep`, which commits twice (`SweepProtect`,
`SweepWrite`). `SetNodes` is the ORM's changed-column rule again. `overlapped`
and `client[c].earlier` are history variables: whether a request ever began
during another, and which leases were active when a rent began. A rent does not
refuse an offer whose nodes are rented by status alone, it scans the leases
(`RentScan`); a termination leaves the offer leased. A heartbeat that is refused
for want of probe evidence (`fail_closed`) is answered 409 after its commit.

### WeightPush

A pusher is the worker's loop, `weights push` or `score recompute`. Each goes
through the weights it publishes (`Weigh`; the commands publish what is served,
`Served`), the next revision (`Number`), the row that may be there already
(`Lookup`), the insert of the pending row with its payload (`Build`, `Insert`),
the POST (`Post`), the answer or the giving up (`Receive`, `GiveUp`), the row
read back (`ReadBack`) and the mark (`MarkAcked`, `MarkFailed`, `MarkRejected`).
`wire` and `replies` are messages in flight: a request may arrive after its
pusher gave up, or never; an answer may be lost, or be one that is no
acknowledgement (`SpoilReply`). `MasterReceive` stores by (epoch, revision) and
refuses a second payload, as `sim/mock_master.py` does. `Stop` is a crash
between any two of them. A payload has a nonce of its own (`built`), so two
builds of one revision are told apart. `raced` is history.

### Attest, Scoring and Emission

Attest is `verify_tee` by layout, binding, compose, TCB, event log and GPU
evidence. A digest is the tagged tuple of its inputs, and a verdict is "valid" or
the set of reasons. `FlawsAreFatal` (an assumption TLC evaluates in `emission`)
takes a valid quote and checks that each single flaw makes it invalid. Scoring
holds the four factors, the composite, `compute_tee_bonus`, the honesty of the
probe and the price weight, in halves, quarters and percent so that every product
is an integer.

Emission has the four transactions that score: `PostWrite` (a post that seals),
`QuoteWrite` (the second transaction of a post with a quote), `TimeoutWrite` and
`Collect`. The reads before the first write are actions of their own
(`PostRead`, `QuoteRead`, `TimeoutRead`). Each goes through `PersistScore`, which
writes the row and earns; `Earn` writes ledger and balance in a savepoint, and
`EarnFails` is its swallowed failure. `x or 1.0` in the code, which takes a gate
or efficiency of 0 for one that was not given, is `OrDefault`.

### Desk

`Sign` makes a request with a nonce and a timestamp; `net` keeps it, so that it
may arrive late, twice or never; `Authenticate` checks the window, prunes and
inserts the nonce and commits, before any handler runs; `serving` holds the
handlers: `AdmitRead` and `AdmitInsert` for `POST /v1/jobs`, `RegisterRead`,
`RegisterWrite` and `RegisterName` for providers, `ProviderHeartbeat`. `Abort` is
an exception or a crash after the nonce is spent. A client that hears nothing, or
401 or 5xx, signs anew (`GiveUp`, `Hear`). A signature is what binds a request to
its client: forged ones are outside the model.

### Catalog

`UpsertRead`/`UpsertWrite` and `DisableRead`/`DisableWrite` are the admin routes,
`SeedCount`, `SeedRead` and `SeedWrite` the boot seed, `CreateOffer` (by key, else
by family, else unquoted) and `CreateWrite` the part of `create_offer` that takes
a price. `Flush` is the changed-column rule: an upsert that read the same price
does not write it. `mixed` is history: keys that two requests were changing at a
time. Of every key `HistoryTells` says that its price and its state were each
announced in the history; that the last row of the history has both, and
`SeedKeepsAdmin`, is for the keys that are not mixed. What happens to a mixed key
is in section 5.

### SshSession and GpuProbe

SshSession computes what a session with a host comes to: which key is used, which
commands answer in time, what is left of the wall budget, and how long the
service is held up (the calls block the event loop). GpuProbe reads the node
(`ProbeNode`), the last passed evidence (`ProbePrior`) and the GPUs listed on
other nodes (`ProbeOccupied`), runs the checks in `CheckOrder` (`ProbeRun`), and
commits evidence and merged inventory (`Persist`). `Attach` takes over signed
evidence without looking at other nodes. `Register` is a client that registers a
node with an inventory, and the column is then what it sent: any label, evidence
id and GPUs of `Claims`, made up or read back from an earlier answer. `Move`
changes which GPUs a host has. Two history variables: `claimed` has the nodes
whose list of GPUs a client wrote, until evidence that measured some replaces it;
`mixed` the nodes with attached evidence and those whose probes raced.

### Fabric

`Register` replaces the inventory's devices, `FabricScan` and `CommitScan` are a
scan with its read and its write, `Rent` the `require_ib` check, `Place`
`_place_job` with the planner (`PackOrder`, `PlanPack`, `PlanSpread`,
`BindRanks`), `PostResults` sealed results and `Collect` the launcher with
`evaluate_fabric_gate`. Orders by a key (`PackOrder`, `ById`) are the sorted
enumeration, which is unique since a key ends in the node's id. A simulated scan dates its report by its seed, which is
why `LatestRow` is not always the newest commit (`ScanDates`).

### JobReport

The one row of `job_fabric_reports`: `PostLook`, `PostInsert`, `PostUpdate` for a
results post, `PlaceJob` and `CollectReport` for the worker. A digest is the record of what it is
computed from. A report that comes with a post names stand-ins (`StandIns`),
whether the job was placed or not: `post_job_results` does not pass the rankmap
on. `ReportRow` is what is stored, `PublicNodes` what the public route shows. That
the insert of `CollectSealed` never runs (results sealed early bring their report
with them) is an observation of this model.

### Incentive

`InWindow`, `Damped`, `Aggregates`, `MassMap`, `Leaderboard`, `TopK`,
`MaxFraction`, `Finalize` are the pipeline as operators over integers with a
common denominator; `Leaderboard` is the sorted enumeration of its hotkeys.
`SealScore` writes a score (its `created_at` may be older than that of any rows
that were committed while it waited for the lock), `ReadMass` and `BuildSnapshot`
are the two queries of the loop, `Republish` a command that passes what it was
served through the pipeline again. Both build with `Build`, which emits the
weights of the ss58 hotkeys (`filter_ss58_weights`): after top-k and
normalisation, with the others' share left out and not made up for, and no
snapshot when nothing is left. Hotkeys that signed a request are ss58 addresses;
those of the simulator and of an insecure development setup need not be.

## 3. What TLC checks

| Run | Instance; distinct states | Shows |
| --- | --- | --- |
| `life` | 1 job, 2 workers, 1 request, attempts 1 and 2, 4 envelopes; 1.71 million | `PipelineEvidence`, `SuccessHasResults`, `KeepsPromise` |
| `queue` | 2 giants, 1 micro, one on a lease, one without capacity, limit 3; 14 560 | `BudgetKept`, and the liveness property `Served` |
| `market` | 2 nodes, 2 overlapping offers, 2 leases, 2 requests; 1.65 million | `SerialBooks`, `NoRentOverEarlierLease` |
| `push` | loop, operator and recompute, 2 epochs of 2 revisions, one command, one fault; 0.73 million | `OnePayloadPerRevision`, `LoopCarriesOn`, `AckKept`, the liveness property `EventuallyAcked`, `KeepsPromise` |
| `emission` | a TDX job's attempt and a plain one of one hotkey, 2 clients, 5 posts, 4 launches, 4 proof rows; 0.96 million | `BooksBalance`, `NothingForgotten`, `BonusHasProof`, `MintedWithScore`, `QuoteNamesItsJob`, `KeepsPromise` |
| `desk` | 5 groups of one or two clients, 3 tries each, one fault, a clock of 3 moments; 0.29 million | `AppliedOnce`, `CreatedOnce`, the liveness property `EveryoneIsTold`, `KeepsPromise` |
| `catalog` | 2 keys of one family, 2 requests, 1 offer, 3 changes; 1.07 million | `HistoryTells`, `OffersQuoteHistory`, `SeedKeepsAdmin` |
| `probe` | 2 nodes, 2 GPUs, 2 requests, 2 evidence rows, 3 kinds of host, 2 inventories to register; 2.12 million | `ShownAsFound`, `OneHome`, `FingerprintStable`, `BoundedStall` |
| `fabric` | 3 nodes of 1 or 2 GPUs in 3 fleets, 2 pods, 14 job shapes, 4 injections; 2.59 million | `RanksSound`, `PackIsTight`, `IbBetweenLiveDevices`, `EarnsHonestly`, `RentedOnIb` |
| `report` | a job of 2 nodes by 2 ranks, 2 rank maps, 2 clients, 2 attempts; 0.20 million | `ReportNamesRanks`, `CollectedHasReport`, `WrittenOnce` |
| `incentive` | 3 hotkeys, 2 of them ss58, 4 attempts, 3 scores, 7 settings; 0.20 million | `RanksAgree`, `CapIsFair`, `SelfDealNeverPays` |
| `double_rent` | as `market` | `Exclusive` is violated (section 5) |

What the properties say, by what can go wrong:

* *two actors on one row*: `PipelineEvidence` and the four `KeepsPromise`,
  `OnePayloadPerRevision`, `CreatedOnce`, `WrittenOnce`, `OneHome`,
  `NoRentOverEarlierLease`;
* *two tables that must agree*: `SerialBooks`, `BooksBalance`,
  `NothingForgotten`, `HistoryTells`, `OffersQuoteHistory`,
  `CollectedHasReport`, `ShownAsFound`;
* *something read earlier and used now*: `RanksSound`, `EarnsHonestly`,
  `IbBetweenLiveDevices`, `RentedOnIb`, `LoopCarriesOn`, `QuoteNamesItsJob`,
  `BonusHasProof`, `ReportNamesRanks`, `SeedKeepsAdmin`;
* *lost, late, repeated*: `AppliedOnce`, `AckKept`, `EventuallyAcked`,
  `EveryoneIsTold`;
* *an algorithm at its boundaries*: `CapIsFair`, `RanksAgree`,
  `SelfDealNeverPays`, `PackIsTight`, `BoundedStall`, `BudgetKept`.

Several properties hold only outside a race that the code does lose. They name
that race with a history variable, so that they say exactly how far the code
goes: `SerialBooks` (`overlapped`), `SeedKeepsAdmin` and parts of `HistoryTells`
and `OffersQuoteHistory` (`mixed`), `OneHome` (`mixed`: racing probes and attached
evidence; `claimed`: a list of GPUs that a client registered), `ShownAsFound`
(`claimed`, and its GPUs `mixed`), `FingerprintStable` (`mixed`), `AckKept` and
`LoopCarriesOn` (`raced`, and revisions that a command republished). What happens
inside the race is in section 5. The hazards in `PROJECT.json` name a property
where it covers the race itself, or say in a note what it leaves out.

The type invariants are not properties of a run. `TypeOK` is proved for
JobLifecycle, Marketplace, WeightPush, Emission, GpuProbe and Catalog, and any
configuration can add it.

### Further configurations

Each of these checks one more definition with `tlc -config X.cfg`; all but the
first end in a counterexample that section 5 explains.

| Configuration | Module | Definition |
| --- | --- | --- |
| `budget.cfg` | MCJobLifecycle | `OneWorkerKeepsBudget` holds: 3 jobs of world 1, 2, 2 against a cap of 4 in the fine-grained model, 1 worker (proved for any number: `OneWorkerBudget`) |
| `terminal.cfg` | MCJobLifecycle | `TerminalIsFinal` |
| `starved.cfg` | MCJobQueue | `MicrosNotStarved` |
| `sweep_offline.cfg` | MCMarketplace | `TenantsKeepNodes` |
| `recompute.cfg` | MCWeightPush | `RecomputeRefreshes` |
| `claimed.cfg` | MCGpuProbe | `VerifiedByEvidence` |
| `seed_race.cfg` | MCCatalog | `SeedNeverClobbers` |
| `stand_ins.cfg` | MCJobReport | `StandInsOnlyEarly` |
| `emission.cfg`, with either among its INVARIANTS | MCEmission | `TimeoutHasNoMass`, `BonusWasQuoted` |
| `fabric.cfg`, with it among its INVARIANTS | MCFabric | `SpreadFits` |
| `incentive.cfg`, with it as a PROPERTY | MCIncentive | `RepublishedAsServed` |
| `probe.cfg`, with it among its INVARIANTS | MCGpuProbe | `CutOffInTurn` |

### Bounds, and why they are enough to be interesting

* `life`, `budget`: jobs interact only through `CanAdmit`, so the races on one job
  need one job, and the budget needs as many jobs as exceed it (three). Two
  workers and one request give every pair of processes and the three-way races on
  one attempt; two requests alone are covered by the proofs, which are for any
  number. `MaxAttempt` 2 has the case that matters, an attempt the worker did not
  make. The envelopes are a clean success, a flagged success with a quote, a
  failure with the outputs of the first, and a progress report.
* `queue`: `Limit` is at least the number of jobs: with fewer, `Served` is false,
  which is what `starved.cfg` shows. The giants together exceed the large-job cap,
  which is the cap that binds here (the world budget binds in `budget.cfg`).
* `market`: the offers share one node and differ in the other, so a rent may
  conflict with its own offer or with the other one.
* `push`: `MaxRevision` 2 is the smallest with a predecessor, and two epochs reset
  the numbering once. Two masses tell new weights from old. One command and one
  fault (a lost or spoiled message, a stop) per behaviour still give a
  late answer that meets a row another pusher has touched, since delay is free:
  giving up is always possible and costs no fault.
* `emission`: two attempts of one hotkey, so that a payment may be charged to the
  wrong one; posts with and without quote, quotes of the own and of the other
  job; launches that succeed, fail, time out or break integrity. `MaxProofs` 4
  is a second quote beside the proofs of a collect.
* `desk`: the groups are the races worth having: two submissions under one key
  with different bodies, a refused and a keyless one alone, two registrations, a
  registration with a heartbeat. `NonceTtl` is twice `SignatureTtl`, the smallest
  value `NonceOutlivesSignature` allows (a day against 2 x 300 s in the code),
  and the clock passes both. Clients of one group sign ahead of the clock.
* `catalog`: two keys of one family are what makes resolution by family differ
  from resolution by key. Three changes are read, write over it, and read back.
  Enforcement is soft: the hard mode only refuses more offers.
* `probe`: the hosts are one that answers at once, one whose connection takes too
  long, and one whose commands take until their limits. `CmdCap` and `WallBudget`
  are in quarters of a minute, so that the sums of the fixed commands straddle
  the budget as they do in seconds. `MaxChanges` 2 counts moves and registrations
  together: one of them makes each stale reading possible, two a GPU that moves
  under a registered list. A client registers nothing or a verified label with all
  GPUs; the id it names is of a row that may exist, later or never.
* `fabric`: three nodes of one or two GPUs have worlds that fit one node, two, and
  none; two simulated dates in either order make the newest scan older than the
  one before. A registration is atomic, a scan is not, and at most one is in
  flight; `MaxChanges` counts both.
* `report`: two by two ranks is the smallest report with more than one node and
  more ranks than nodes.
* `incentive`: two self-dealing attempts and a hotkey with two attempts, so that a
  window may hold one and not the other, ranks tie, and a capped hotkey leaves a
  smaller total behind. One hotkey is not ss58: it has mass and rank and is not
  emitted. The settings take the cap, top-k, damping, window and
  normalisation where they bind.

Deadlock is checked in `life`, `market`, `push` and `double_rent`. It is switched off where the
system may really stop, having done all that the bounds let it do: all jobs
terminal (`queue`), the job collected (`fabric`, `report`), every attempt over
(`emission`), everybody answered (`desk`), all changes, moves or seals used up
(`catalog`, `probe`, `incentive`). Symmetry permutes workers, leases, requests,
clients, nodes or GPUs where the instance treats them alike; runs with a liveness
property (`queue`, `push`, `desk`) use none.

### Fairness

* **JobQueue** - `WF(StartTick)`: the loop sleeps and ticks for ever
  (`app.py:77`), and exceptions are caught outside each tick. `WF(Overdue(j))`:
  time passes. `SF(Visit(j))`: a visit is not rolled back every time. Weak
  fairness would not do, because a rollback ends the tick and disables the visit;
  a rollback comes from a busy database or from a request that finishes that very
  job, and neither lasts.
* **WeightPush** - weak fairness of the loop's `Step` (it ticks for ever, its
  awaits return, and httpx has a timeout), of `NewScores` (jobs end) and of
  `MasterReceive` (a master that is up). Nobody has to run a command, and no
  fault has to happen. That faults are finitely many is a bound, and the
  assumption behind `EventuallyAcked`: a network that loses every message
  acknowledges nothing.
* **Desk** - weak fairness of `Sign`, of `Hear`, of `GiveUp` when a client waits
  for an answer that cannot come, and of `Authenticate` and `Handle`: a client
  that wants something goes on asking, and the server serves what reaches it. The
  clock and the faults need not move.

A process of the other modules may stop for ever at any point, and nothing there is fair.

## 4. What is proved

All constants are arbitrary, under the named assumptions of the modules: world
sizes and caps are positive, special values are not members of the sets they are
told apart from, an offer has a node, bounds are natural numbers, nonces are kept
for twice as long as signatures are fresh, and simulated scans have a latest date
(`SimDatesAssumption`; a report that found nothing is dated by the clock, which is
later than every seed's date). Nothing is assumed to be finite except the
nodes of Fabric and JobReport (a service knows finitely many): the number of jobs, workers, requests, clients,
GPUs and keys does not matter.

* **JobLifecycle and JobPromise** - `CountsCorrect`: in the promise, placement and
  launch counts follow the rank of the status; with that, `NeverBackwards` follows
  from each step. `Invariance` proves the inductive invariant of the
  detailed model: type correctness, `OnlyPostsAddAttempts`, `NoPhantomRows`, and
  those counts. The properties alone are not inductive. A
  worker that is about to write back an attempt needs the fact that this row still
  exists or is to be number 1 (`WorkersReal`); a request that is about to score a
  quote needs its row (`ClientsReal`). `Refinement` maps each step to a step of
  `JobPromise` or a stutter. `EvidenceInvariance` adds the rows behind each status
  and gives `PipelineEvidence` and `SuccessHasResults`; the point is that no late
  write of a cancel, a timeout or a post takes a seal or a score away, it can
  only replace a seal. `OneClaimEach` reads the counts off the invariant, and
  `NoWayBack` carries `NeverBackwards` over.
* **The budget** - `BudgetCorrect` proves both caps for JobQueue, the number of large jobs
  and the sum of the world sizes. The model takes that sum as the number of ranks of
  the jobs (`Ranks`, `WorldSum`), so that the library's facts on cardinalities
  apply. The induction is on the jobs that hold budget (`Bounded`): they have
  finitely many ranks, not more than the cap, fewer of them stay bounded, and one
  that passed the gate finds room; that there be finitely many jobs is not needed.
  `OneWorkerBudget` proves the same
  where the check and the claim are two transactions, with one drain loop and any
  requests: what was counted at the gate stays an upper bound until the claim
  (`RoomKept`), since in between jobs only leave. With two loops it is false.
* **Marketplace** - `SerialCorrect` and `RentRespectsEarlier`. What a request
  knows stays true while nothing overlaps: the invariants say, for each program
  counter, how what was read relates to the tables (a lone request's reads are
  current), and for a rent with any overlap that the leases seen at its start are
  either over or were found disjoint by the scan. `OfferInv` adds that an active
  lease's offer is leased while nothing overlaps; it needs what a withdraw and a
  rent have read of the offer.
* **WeightPush** - the invariant `Inv` ties every payload in the database, on the
  wire, in an answer and at the master to the build it comes from; a pusher
  between insert and mark holds a row that is there. It gives `AcksAreTrue` (an
  acknowledged snapshot was accepted by the master with that payload),
  `PayloadsAreUnique`, and, with one lemma for each kind of write, `Refinement`.
  `AcksAreKept`: a push that failed reads the row before it marks it, so an
  acknowledged row that anyone is about to mark was acknowledged in between, which
  is the race that `raced` records (`AckGuarded`). `LoopNeverGoesBack`: what the
  loop weighs is as recent as every row it built before, and its number is later
  than all of theirs (`Fresh`, `Carry`).
* **Emission** - `BooksCorrect`, `PaidOnce` and `MintedCorrect`. The step
  relation `BooksStep` is what the four transactions have in common (nothing, or
  one score with its payment in a savepoint that may fail); each action is shown
  to be one, and the books are then a matter of `BooksStep` alone. `Refinement`
  and `NothingIsForgotten` rest on the same lemma: a seal with positive mass pays,
  finds the payment made, or records that it failed. `BonusIsProven`: proofs of an
  attempt go only in a transaction that scores the attempt anew, and what it
  scores is backed by the rows it leaves (`Seals`, `Backed`). `QuotesNameTheirJob` is an
  action property: the report data a quote is held against was fixed when its post
  was taken up, and a proof keeps what it was verified against.
* **Desk** - `AppliedOnceAlways`: a signed request passes authentication once and
  makes at most one job. The invariant says that the nonce of an accepted request
  is kept until its signature is too old to be accepted again; this is where
  `NonceOutlivesSignature` is used, and with a shorter memory TLC finds a replay.
  `CreatedOnceAlways` and `Refinement` need more, `TellInv`: what every answer on
  its way or told says of the tables. An answer of 200 names the one job of the
  client's hotkey and key, and says "created" to the client that made the row; the
  lookup that answers comes after the row is committed, and rows are never taken
  away.
* **GpuProbe** - `ProbeInvariant`, with one part for each way a stale reading can
  matter, while clients register whatever they like: the label of a node whose
  list no client wrote is that of its newest evidence (`Labelled`), and its GPUs
  are those measured last unless its probes raced (`Listed`); a probe that nothing
  raced has read what the tables still say (`Alone`); evidence of lone probes
  agrees with the last one (`Steady`); and verified nodes have disjoint GPUs
  unless one is marked as racing or claimed (`Apart`). It gives
  `NodesShowEvidence`, `GpusHaveOneHome` and `SameGpusEveryTime`.
  `StallIsBounded` follows the session of SshSession: a command may take what is
  left of the wall budget and no more, and what is left is never overestimated,
  since the sum that counts the past commands twice errs on the short side.
* **Catalog** - `CatalogInvariant`: every price and state in the catalog, and every
  one that a request has read and may write back, was announced for its key
  (`Announced`); the last history row of a key that nobody wrote
  into is the row of the catalog (`Told`), a lone request's reads are current
  (`Alone`), and a price read for an offer still stands or is known to be mixed
  (`Standing`). `HistoryCorrect`, `OffersAreQuoted` and `AdminIsKept` follow; the
  last says nothing of mixed keys, where the seed does overwrite an admin.
* **Reports, fabric** - `RentCorrect`: the newest scan is the one with the
  latest date when it found nothing, since such a row is later than all before it
  (`Dated`); this is all that `require_ib` needs, although simulated dates come
  in any order. `EarningCorrect`: the evidence that a placement stood on stays
  among the rows, and the launcher asks the gate again on the newest ones.
* **The planner** - `RanksCorrect` and `PackCorrect`, for any inventory of finitely
  many nodes and any shape of a job. `PlaceRanksPromise` says what `place_ranks`
  returns, and the invariant `PlanInv` that the job's row keeps it until the job is over
  (`Placement`). For pack, the loop over the nodes is described by `Filled`: after
  `j` nodes of the order the list holds the first of them, each as full as it can
  be but the last. Taking the largest first is best (`GreedyIsBest`): no choice of
  `m` nodes takes more ranks than the first `m`. So what is refused does
  not fit (`NothingFits`), and one node fewer would not do. For spread, the turns
  keep every share within the node's GPUs (`Shared`, `GiveShares`). Binding lays the
  shares out one after the other (`LaidOut`, `Binds`), so that ranks are as many as
  asked for and no two are on one GPU. `IbCorrect` rests on it: every rank is
  on a node of the pod.
* **JobReport** - `ReportIsStable` proves the action property `WrittenOnce` and
  `CollectedCorrect` the invariant `CollectedHasReport`, from the fact that a
  report which a post has found is never deleted (`PostsReal`). `NamesCorrect` proves
  `ReportNamesRanks` with `NamesInv`: the fold over the ranks lists each node once,
  with all its ranks (`SeenOnce`), and whatever is stored comes from a post,
  which names the stand-ins and no node of the pod, or from the placement that the
  job still has; the digest tells which.
* **Incentive** - the invariant `IncentiveInv` types settings, rows and the served
  map; the three properties then follow of any such state, since they say what one
  run of the pipeline computes. `FinalizeIs` states that without folds: who is within
  top-k (`TopOf`), the pot, and each share (`Paid`). `RankingCorrect`: whoever is
  ahead on the board is within top-k if the one behind is, and is paid no less
  (`LeaderboardIs`, `TopInOrder`, `PaidMonotone`). `CapCorrect`: no share is above
  the largest one before the cap, and those within the cap get no less than before
  (`CapMovesDown`). `SelfDealCorrect`: without the flag a hotkey's mass is at
  least what it is with it, and nobody else's differs (`HonestRaises`); if it was
  paid at all, top-k stays as it is (`TopRaised`), and its share of the
  pot does not fall (`CapRatio`, `PaidRaised`), which is the comparison of two
  sums that differ in one summand (`SumScaled`).

The library's induction theorems take an operator and cannot be used here. Induction
over the numbers and over finite sets is stated for a *set* instead: a set of
numbers with 0 and every successor has all of them, by a least counterexample
(`NumberInduction`, from `WFMin`). The recursive functions and folds of these
modules are handled the same way: `Recursion` shows that a function with the
recursion's equations exists, so the one that CHOOSE picks has them (`FoldExists`).

Every invariant and every action property of a passing run is stated by a theorem.
Only model-checked are the three liveness properties (`Served`, `EventuallyAcked`,
`EveryoneIsTold`), which the prover does not cover, and the definitions of the
further configurations above that are counterexamples.

## 5. Where the code and its texts disagree

The first is a run of the project; those that name a definition are counterexamples
TLC finds with a configuration of section 3; the others are observations made
while modelling.

Marketplace and jobs:

1. `Exclusive` (run `double_rent`): "Double-rent fails closed" (`leases.py:3`)
   holds only for rents one after the other. `NoRentOverEarlierLease` says exactly
   how far the check goes.
2. `TenantsKeepNodes` (`sweep_offline.cfg`): the idle sweep writes `offline` over
   a rent that committed after its select (`nodes.py:294`). Its docstring says
   "Does not touch ``rented`` nodes" and the route's that the sweep "never
   offline-kills rented tenant capacity" (`api/public.py:1427`).
3. `TerminalIsFinal` (`terminal.cfg`): a cancel or a post that read the job before
   it ended renames its outcome. docs/jobs.md says "Cancel if non-terminal".
4. The 409 for conflicting digests is decided on a stale row: two posts of
   different digests for one attempt can both be accepted.
5. `MicrosNotStarved` (`starved.cfg`): the list is cut before it is known who
   holds the budget; a job that holds all of it and is not among the first
   `limit` is neither advanced nor timed out. One job of world 64 and sixteen
   micros do it with the default settings. `job_lifecycle.py:714` has the order
   "so micros are not starved".
6. One rollback ends the tick for the jobs behind it (`JobQueue`).

Scores and weights:

7. `RecomputeRefreshes` (`recompute.cfg`): `score recompute` publishes what is
   served, a stored snapshot, as a new revision instead of new weights.
8. `RepublishedAsServed`: a served snapshot goes through damping,
   top-k and the cap again when it is republished, so the master gets weights
   different from those the readers were shown.
9. `TimeoutHasNoMass`: a quote whose second transaction comes
   after the timeout scores the attempt anew and gives it mass.
10. `BonusWasQuoted`: with the flags of a post an ordinary proof
    takes the tier of the job's `tee_mode` and qualifies for the bonus; no quote
    was verified.
11. `EarnsHonestly` is stated for launches without an injected fault: sealed
    results with a forced failed or timed-out launch skip the gate, although a
    comment near `job_lifecycle.py:1007` says that such cheats never arrive at
    positive mass.
12. Nothing in the service sets the self-deal flag except the score details it is
    read from.
13. The preview of weights (`weight_preview_payload`) shows the newest snapshot, while
    `load_raw_weights` prefers the newest acknowledged one; the docstring says
    both are of one family.

Probe, fabric, pricing, attestation:

14. `CutOffInTurn`: the wall budget is compared with a sum in
    which the time of the commands counts twice (`probe/ssh_exec.py:202`), so a
    slow host is cut off at half the configured time.
15. `NodeProbeLock`, a "concurrent probe mutex per node", is used nowhere, and a
    probe's SSH session runs synchronously on the event loop: everything else
    waits for as long as `BoundedStall` allows.
16. `SpreadFits`: a spread placement can be refused as
    `capacity_insufficient` although the pod could take it: the pool is cut to
    the first `nnodes` nodes in order of their ids before anybody looks at their
    GPUs (`fabric/planner.py:243`), and one full node in the pool keeps the
    others from taking more than one rank above it. The docstring says "as many
    nodes as capacity allows".
17. A key that a PUT and a DELETE change at a time may be left disabled after the
    PUT was answered as active (`mixed` in Catalog).
18. `StandInsOnlyEarly` (`stand_ins.cfg`): a report that comes with a post names
    stand-ins, whether the job was placed or not, since `post_job_results` builds it
    without the rankmap (`job_lifecycle.py:538`); the worker's collect does not
    replace it. `job_lifecycle.py:263` has "stubs when no placement yet", and
    `fabric/report.py:3` "report completeness matches rankmap". The digest in the
    report and the one of the attempt can then differ, too. The insert of a report
    in `CollectSealed` is never reached.
19. The `report_data` a quote is checked against may come from the body that
    brings the quote (`Attest`).
20. `VerifiedByEvidence` (`claimed.cfg`): a registration stores the inventory a
    client sends as it is (`nodes.py:114, 150, 175`), its `gpu_probe_status` and
    `gpu_uuids` included, and `node_to_public` shows them. Its docstring says that
    "Register alone never invents ``verified`` silicon status" (`nodes.py:304`),
    docs/gpu-probe.md:61 that it "does **not** auto-mark" it. `ShownAsFound` says
    until when, and from when on again, a node shows its evidence.
21. `SeedNeverClobbers` (`seed_race.cfg`): the seed counts the rows of the catalog
    and then upserts its ladder over whatever is there (`pricing.py:602`); a price an
    admin sets between the two is overwritten, though the docstrings say "never
    clobber" (`pricing.py:592, 680`).

## 6. Not modelled

* The local simulator (`sim/`), which drives the public API with fixtures and
  scenarios; the command line, a client of the API, except its commands that
  write snapshots (WeightPush); the outbound guard, a static scan. None of them
  keeps state of the service. They are about a third of the implementation's
  lines.
* What only labels: names, currency, notes, rates and efficiency metrics of a
  fabric, progress digests, endpoints and keys of a pod, public listings.
* Probe: parsing and redaction of a host's output, the fake transport, digests.
* Attestation: how a compose hash is normalised; quotes packed for tests.
* `expire_due_leases` (nothing calls it), `draining` and `banned` nodes and
  `requested` leases, suspended providers (nothing writes them in the service).
* Forced timestamps and `reuse_snapshot_id` of a push, which only scenarios pass,
  and with them the status `invalid_window`; the weights preview.
* Forged signatures: a signature is what binds a request to its client.
* The draining flag and the readiness probes, which only change a reply.

## 7. Plan

Done: `JobStates`, `JobPromise`, `JobLifecycle`, `JobQueue`, `Marketplace`, then
`WeightPush`, `Emission` (with `Attest` and `Scoring`), `Desk`, `Catalog`,
`GpuProbe` (with `SshSession`), `Fabric`, `JobReport`, `Incentive`, with the
abstract specifications and proofs above; every safety property of the runs is
proved. Left:

1. The composition of JobLifecycle with Marketplace through capacity binding: a
   lease that ends between `try_bind_capacity` and the claim.
2. The weights preview beside the push.
