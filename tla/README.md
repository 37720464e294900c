# ContractScanner: verification project

TLA+ modules, TLC runs and TLAPS proofs for ContractScanner, a service that
takes a payment on a chain for a Solidity contract, analyses the contract in a
sandbox (Slither, optionally an LLM) and stores a report. Paths below are those
of the repository.

## The system

| Component | Code | State | Operations |
|---|---|---|---|
| Payment contract | `contracts/ScanPayments.sol` | `paid[scanId]`, owner, pending owner, balance | `pay`, `withdraw`, `transferOwnership`, `acceptOwnership` |
| Payment watcher | `src/infra/payment_watcher.rs` | block cursor (in Postgres), locals of one poll | `run`, `poll_once`, `handle_log` |
| Scan service and pipeline | `src/services/scan_service.rs` | one tokio task per analysis | `create_scan`, `get_status`, `get_report`, `on_payment_observed`, `run_pipeline`, `fail` |
| Tables | `src/repositories/*`, `migrations/*` | `scans`, `findings`, `reports`, `chain_watcher_state` | one SQL statement per function, no transactions |
| Limiter | `src/infra/rate_limit.rs` | hits per client, semaphore | `check_and_record`, `semaphore` |
| Sandbox, folders, reaper | `src/infra/{docker_runner,slither_runner,temp_files,reaper}.rs` | containers, scan folders | `run_slither`, `analyze`, `create`/`Drop`, `reap_once` |
| Analyzers | `src/analyzers/*` | none (pure) | validate, preprocess, adapt, normalise, score, enrich, report |
| HTTP API, start-up | `src/api/*`, `src/app.rs`, `src/main.rs`, `src/infra/config.rs` | none / configuration | routes, wiring |
| Browser client | `static/index.html` | scan id, polling timer | submit, pay, poll |

How they interact. `POST /api/scans` inserts a row that awaits payment. The
client pays the contract, which emits `ScanPaid`. The watcher reads the logs of
confirmed blocks, `mark_paid` moves the row to `queued` with a conditional
UPDATE, and the pipeline is spawned as a task that nothing else knows of. The
task takes a permit of the limiter's semaphore, runs the sandbox, writes
findings, report and end status in separate statements, and returns. The client
polls the row and, once it says `report_ready`, fetches the report in a second
request. Everything but the tables is lost when the server dies.

### What is hard here, and what must hold

* **Watcher.** RPC nodes lag, blocks are reorganised, a call may hang, every call
  and every statement may fail (after having been applied, too), the server may die
  between any two awaits and be configured differently afterwards. It must not
  start an analysis for an unconfirmed payment, start one twice, or pass a
  payment without starting it.
* **Pipeline.** Some errors end the task silently, some fail the scan, some are
  ignored; status writes are unconditional; permits are bounded. A reader of the
  tables must never see `report_ready` without the report and all findings, or a
  status going back; the source must be there when it is read and gone at the
  end; permits must be neither leaked nor dropped early; tasks must end.
* **Admission.** Identical submissions race between the look-up and the insert;
  the clock of the rate limiter is read before its lock. Nobody may exceed the
  limit or be turned away below it, and a repeated submission must make no second
  scan.
* **Sandbox.** A timeout ends the docker client, not the container, which goes on
  in a folder that is being removed; the reaper looks at folder ages only, by a
  wall clock that may be set; a crash runs no destructor. Folders in use must
  stay, all others must go, permits must come back.
* **Analyzers.** Merging puts results of different detectors, ratings and lines
  together, in whatever order Slither lists them, before they are sorted, scored,
  escalated and excerpted; the LLM may answer anything. No result may be lost,
  doubled or re-rated on the way to the report.
* **Page.** Requests of a timer, of a button and of a submission are under way at
  once, and use `state.scanId` and `state.poll` as they are when the answer comes.
  The page must not show a report nobody paid for, must come to show the end of
  its scan, and must stop polling.

`PROJECT.json` lists each of these hazards at its line, with the properties that
cover it, or why none does.

## Modules

```
ScanLifecycle                 what the service promises about one scan
   ^ implements   ^ implements    ^ its steps are the service the page sees
PaymentWatcher   ScanPipeline    ScanClient
ScanAdmission    Sandbox         FindingAnalysis -> RiskScorer
MC<module>                    instances for TLC, with .cfg files
<module>Proofs                TLAPS proofs, for each module but ScanLifecycle
Induction                     lemmas for FindingAnalysisProofs
```

**ScanLifecycle** is abstract: a scan is opened, claimed if its payment is
settled, started once, possibly has its report stored, and is delivered (only
with the report stored) or given up. Nothing leaves `ready` or `failed`.

**PaymentWatcher** has one action per await of `poll_once`: `PollHead`
(`eth_blockNumber`), `ReadCursor` (the cursor, the first-run sentinel 0 and the
fast-forward), `InitCursor`, `GetLogs`, one of `IgnoreUnderpaid`, `MarkPaid`,
`MarkPaidNoRow` per log in block order, `Spawn`, and `SaveCursor` at the end of a
window. `pc` and the locals `safeTo`, `cursor`, `to`, `windows`, `pending` are
the task's; `status`, `price`, `lastProcessed` are Postgres. The chain is a
height and the set of `ScanPaid` events; `Mine` and `Reorg` are external, and a
node answers from a view at most `RpcLag` behind. Faults: an RPC error, a reply
without an array in `result`, an error of a cursor statement or of `mark_paid`
(each applied or not), a crash with another price on restart, and a call that hangs
(`RpcHangs`, `pc` "hung"): the client has no timeout, so only a connection that
breaks after all (`HungCallFails`) or a crash ends it. SQL statements are taken to
return, with or without an error. `spawned`,
`skipped` and `lost` are bookkeeping for the properties; no guard reads them.
A log is its block, scan and amount: the decoding of topics is left out.
The blocks a poll reads are not replaced under it, since it only looks at
blocks `Confirmations` deep and `FinalityAssumption` says
`ReorgDepth + RpcLag <= Confirmations`, which is what the setting is for.

**ScanPipeline** has one label per await of `run_pipeline` and `fail`, and one
action per statement. `Write` is a statement with its error: the row is written
and the task goes on, or the statement fails, applied or not, and the task goes
where the code sends it (`ended` for `step_failed`, `fail_clear` for findings
and report, simply on for results bound to `_`). `queue` and `holding` are the
tokio semaphore, which is fair. A sandbox run is one step with any number of
findings or any error code of `map_slither_error`. Rows are never deleted, so the
`Ok(None)` branch of `load_pending_source` and a closed semaphore cannot occur.
A crash ends all tasks and empties the queue; the next server may have an LLM
or not.

**ScanAdmission** is `create_scan` with the sliding window of `Limiter`: `Begin` or `Refuse`
(`input_processor::validate`), `Lookup` (`find_recent_by_hash`), `ReadClock` and `CheckAndRecord` (the instant is
taken before the mutex, the deque is pruned from the front and checked under it)
and `Insert`, for any number of requests at once. A request keeps its client
(`ip_hash`) and source (`source_hash`); a scan is named by the request that made
it. The deque holds requests, whose instants are `stamp`. `Tick` is the clock,
`MaxSkew` bounds how long a request can wait for the mutex; `Restart` breaks
requests off and empties the limiter, and a statement may fail, the insert applied
or not. `quota` and `before` are bookkeeping: no guard reads them. Left out are the
retry-after hint and the contents of the answers. The same clock serves limiter
and database: neither compares its times with the other's.

**Sandbox** is `SlitherRunner::analyze` with everything that shares its folder.
`Start` creates the folder and starts the docker client, `ClientReturns` reads the
output and maps it (`Outcomes`), `TimesOut` is the `tokio::time::timeout` around
`run_slither`, `Finish` the rest of the task with its permit. Which error ended an
analysis is left out: `run_pipeline` fails the scan on each, and ScanPipeline has the
codes. The container is an
actor of its own (`BoxWrites`, `BoxEnds`, external), since `kill_on_drop` kills the
client; `abandoned` is bookkeeping for containers without one. `DropFolders` is
`remove_dir_all`, which fails if a container creates its output meanwhile and then
leaves a folder with a new modification time; or for any other reason, leaving all of
the folder or the rest of it, at most `MaxFailures` times. Neither Drop nor the reaper
looks at the error; the reaper tries again at its next round. `Reap` is `reap_once`, at the start
and at every interval; `Stop` a crash (folders stay) or a shutdown (tasks are
dropped, and folders with them). Time is relative: the run's `elapsed`, the
folder's `age`, the reaper's `reapIn`; `SetClock` moves the wall clock, hence the
ages, but no timer. `SandboxAssumption` is the comment in `main.rs` that the
threshold should comfortably exceed the longest scan.

**RiskScorer** and **FindingAnalysis** are the analyzers. RiskScorer has the
scoring of `risk_scorer.rs` in hundredths; the code computes in `f64`, and no
attainable sum lies on the edge of a band (`OffTheEdges`), so rounding does not
matter. FindingAnalysis has one operator per function of `slither_adapter.rs`,
`finding_normalizer.rs`, `llm_analyzer.rs` and `report_generator.rs`, and one
action per step of `run_pipeline` between the sandbox and the tables: `Analyze`
(`analyzers/pipeline.rs`), `SkipEnrich`, `EnrichWith`, `EnrichFails`, `Generate`.
Names of contracts, functions and elements are numbers in the order of their
strings; detectors are representatives of the branches that test prefixes and
substrings; a text is a value, and the wording of the report is left out, but not
which sections, items, counts and texts it has. Each loop of the code is a fold
(`Evidence`, `Groups`, `WindowedExcerpt`, the explanations of `EnrichWith`), and each
sort is the enumeration `SortedBy` chooses, which the keys determine. What Slither
writes and the LLM answers are constants, of which `AnalysisAssumption` says only what
types they have: lines lie within the source, names are numbers, an explanation may
name any id and hold any text. ScanPipeline abstracts all of this to "some number of
findings".

**ScanClient** is the page: `createScan` (`Submit`, `OnCreated`, `OnRefused`),
`startPolling` with its interval (`StartPolling`, `Fire`, `OnStatus`, `TickEnds`),
`loadReport` (`ClickReport`, `OnReport`) and `Reload`. JavaScript runs to its next
await, so each action is the code between two of them. A request carries the scan
it was sent for; its answer is computed when it is handled (`Answer`:
`get_status`, `get_report`, 404, 409 or an error) and used later, in any order.
`poll` is `state.poll`, `live` the intervals the browser runs, `starting` the calls
of `startPolling` whose first tick is under way. The service is ScanLifecycle, so
what holds here holds of any service that implements it, and both halves do. The
wallet is left out: to the page a payment is a step of the service.

Definitions whose name has a suffix after an underscore (`MarkPaid_AnyStatus`)
are mutants: plausible slips in the code, used to see that each property can fail.

## Runs

| Run | Checks | Shows |
|---|---|---|
| `watcher` | `TypeOK`, `PaidBeforeSpawn`, `AtMostOnePipeline`, `NoOtherPaymentMissed`, `CursorNeverGoesBack`, `OnlyOldBlocksSkipped`, `ImplementsLifecycle` | safety of the watcher under every fault |
| `watcher_live` | `PendingPaymentStartsScan` | a payment ahead of the cursor starts its scan in the end, unless a call hangs for ever, the fast-forward skips it or a named fault loses it |
| `watcher_lost` | `NoPaymentSilentlyMissed` (violated) | one failed `mark_paid` loses a payment |
| `watcher_skip` | `SkippedPaymentsAreExpired` (violated) | the fast-forward skips payments of scans that nothing expired |
| `watcher_price` | `SnapshotPriceDecides` (violated) | the configured price, not the snapshot, decides |
| `pipeline` | `TypeOK`, `ReadyIsComplete`, `BoundedSandboxes`, `SourceLifetime`, `NoFaultNoStuckScan`, `StatusNeverGoesBack`, `ImplementsLifecycle`, `EverySpawnedTaskEnds` | the tables and permits under failed statements and crashes |
| `pipeline_stuck` | `FinalStatusReached` (violated) | one failed status update leaves a scan without an end status |
| `admission` | `TypeOK`, `WindowBound`, `RejectionJustified`, `NoSequentialDuplicate`, `QuotaIsForNewScans` | limit and idempotency under concurrent requests, failed statements and restarts |
| `admission_double` | `NoDoubleSubmit` (violated) | two identical submissions at once make two scans |
| `analysis` | `TypeOK`, `EveryResultReported`, `NearbyResultsMerge`, `MergeOrderIndependent`, `CriticalIsJustified`, `ExcerptCoversFindings`, `ReportAddsUp`, `LlmOnlyExplains` | from Slither's output to the report nothing is lost or re-rated, near results merge but at the edge of a bucket, and the overall risk is what the counts make it; Slither's order decides only the score of a group of different detectors |
| `sandbox` | `TypeOK`, `LiveFolderKept`, `OnlyAbandonedExceedPermits`, `EveryAnalysisEnds`, `EveryFolderGoes` | folders, containers and permits under timeouts, failed removals, crashes, shutdowns, the reaper and a clock that is set |
| `client` | `TypeOK`, `ShownReportIsDelivered`, `LeaksComeFromOverlap`, `EndReachesThePage`, `PollingStops` | what the page shows and polls when answers come late, for another scan, or not at all |

Bounds. The watcher has 2 scans (symmetric), amounts 1 and 2, a contract price of
1 and configured prices 1 and 2, so that a payment can be enough for one
configuration and not for the other; 7 blocks, of which 2 confirm and 1 may be
replaced, with nodes up to 1 behind; windows of 2 blocks, 2 windows per poll and
a look-back of 2, so that several windows, a poll that stops in the middle and the
fast-forward all happen; and 1 fault, which together with a replay is enough for
every interleaving of a fault with a second poll. `watcher_live` has one amount, 6
blocks of which 1 confirms, windows of 1 block, 2 of them per poll, and a look-back of
2, so that polls stop in the middle and the fast-forward happens while payments wait,
and 2 faults, so that a poll can fail after another has hung. Without any one of the
three exceptions (a hanging call, `skipped`, `lost`) the property is violated there.
The code's values (99, 200,
5000) only scale these. The pipeline has 2 scans and 1 permit, so that one task
waits for the other; up to 2 findings, so that an insert fails in the middle;
2 faults, so that the handling of a fault meets a second one. `MaxHeight`,
`MaxTime` and `MaxFaults` are the only bounds in guards. Admission has 4 requests of
up to 2 clients, a limit of 2 in a window of 3 instants, an idempotency window of 2
and a skew of 1: two hits fill the deque, a third pushed out of time order and a
fourth that prunes it are what a wrong pruning needs, and `MaxTime` 4 lets hits
and scans of instant 0 leave their windows. The sandbox has 2 scans and 1 permit, a timeout of 1, a threshold of 3
(the minimum), an interval of 2, a slack of 1 and a jump of 1: the longest run, looked at after a jump, is
exactly as old as the threshold, so that an off-by-one is seen; one stop and one
failed removal, since a second finds what a first leaves. The analysis has 15 kinds of detector result in
outputs of up to 3, in every order and with repetitions, chosen so that results
share a function but not a bucket of ten lines, a bucket but not a category, a group
but not a rating, lack lines, or come first in a group without being the worst;
three are needed for a group of two beside another finding. The source has 120
lines, so that windows of 30 lines are cut at both ends, overlap, touch and stay
apart. The client has 2 scans, 2 names for calls of `startPolling` (a name is used
again once nothing refers to it), 2 clicks or submissions and 1 failed request or
reload: two overlapping submissions of different scans, or one followed by the
progress button, are the cases that leak or cut an interval. `Slots` is 1: requests of
one interval do not overlap there, which is the case when answers take less than
2 seconds; its safety theorems hold for any `Slots`. Three clicks give 2.4 million
states, too many for the liveness properties.

The runs of pipeline, admission, analysis and client do not check deadlock: when all
analyses have ended, all requests are answered, the report is made, or the user does
nothing more, the instance is at rest, as the system is. The watcher and the sandbox
never rest.

Fairness. Admission has safety properties only and needs none. `WF(Watcher)`: `run` is
a loop in a task of a multi-threaded runtime, and its sleep is finite. That justifies
progress only while RPC calls are answered: nothing is assumed of `HungCallFails`, no
action of `Watcher` is enabled while a call hangs, and `PendingPaymentStartsScan` is
conditional on no call hanging for ever. `WF(Task(s))`
for each pipeline task, for the same reason; a sandbox run has a timeout, hence comes
back. Weak fairness suffices for the semaphore because tokio's is a queue. For
`watcher_live` the chain is assumed to produce blocks and not to be reorganised below
a new greatest height for ever. No fairness is assumed of faults, creations or
payments. In Sandbox, time passes, the reaper's loop and the tasks are scheduled
(`Reap`, `TimesOut`, `Finish`) and a stopped server is started again; nothing is
assumed of a container or of the docker client, which may hang. In ScanClient,
requests are answered and their answers handled (`Request`) and intervals fire
(`Fire`), as browsers do; nothing is assumed of the user or of the service, which may
never deliver.

`EndReachesThePage` and `PollingStops` except what the code does not promise, and
name it: `cut` records a failed request, a reload, and the answer for an earlier scan
that clears the interval of the current one; `Leaked` an interval that overlapping
calls left behind. Both happen in the instance.

## Proofs

The proof modules prove, for every value of the constants that satisfies the
named assumptions, every invariant and action property of the passing runs, and
for watcher and pipeline that they implement `ScanLifecycle`. The bounds (`MaxHeight`,
`MaxTime`, `MaxFaults`, `MaxClicks`, `MaxStops`, `MaxFailures`, `MaxFindings`) are arbitrary there, so
the theorems do not depend on them, and neither `Scans` nor `Requests` need be finite.

* **PaymentWatcherProofs** (assumes `ConstantsAssumption`, `FinalityAssumption`).
  `IInv` is `TypeOK` and: the chain's events lie within its blocks and pay
  the contract's price, and height and tip are at most `ReorgDepth` apart (`ChainInv`); what the task holds in memory is what a poll can hold, and
  every log it holds is confirmed (`PollInv`); the window being read starts right
  behind the cursor unless the poll was fast-forwarded (`JumpInv`); the count of spawns against the row and the
  claimed scan (`SpawnInv`); a payment stands behind every row past payment
  (`PaidInv`); every payment behind the cursor, or between the cursor and the
  poll's position, is accounted for (`LossInv`). The properties speak of
  the saved cursor only, while a poll is always somewhere ahead of it: `PollInv`
  and the second half of `LossInv` are what makes the invariant inductive.
* **ScanPipelineProofs** (assumes `PipelineAssumption`). `IInv` is `TypeOK`, what
  a row can look like at each label (`StatusInv`, `ReportInv`, `SourceInv`,
  `CodeInv`), and the permits (`PermitInv`). `Statements` reduces each of the
  twelve statements to its `Effect`: applied and on, or failed and wherever the
  code goes. `ReadyIsComplete` needs the labels, because it is the order of the
  statements, not any guard, that keeps `report_ready` behind the report;
  `StatusNeverGoesBack` and the refinement follow from `StatusInv` the same way.

* **ScanAdmissionProofs** (assumes `AdmissionAssumption`). `IInv` is `TypeOK`, who has
  quota and a row (`RequestInv`), what a request must not repeat (`BeforeInv`), that an
  instant read is at most `MaxSkew` old when the lock is taken (`StampInv`), that the
  deque holds distinct admitted requests in time order up to `MaxSkew` (`DequeInv`),
  that a hit leaves it only when its window is over (`PrunedInv`), and the limit for
  every span of time (`SpanInv`). `PrunedDeque` says what pruning from the front of an
  unsorted deque leaves. The limit follows because the last admitted request of a span
  found all others of it still in the deque (`AdmitKeeps`); that nobody is turned away
  too early because the front of the pruned deque is within the window and all behind
  it within `MaxSkew` of it (`RejectionStep`).
* **SandboxProofs** (assumes `SandboxAssumption`). The reaper knows ages only, so what
  is inductive is that the folder of a waiting analysis is no older than its run but
  for the jump of the clock (`FolderInv`); with the slack of the timeout this stays
  below the threshold. `BoxInv` ties a container to its analysis or to `abandoned`.
* **ScanClientProofs** (assumes `ClientAssumption`). A report in an answer is of a scan
  that was ready when it was served, and stays so (`ReportInv`, `ServiceInv`);
  `PollInv` says that while a call of `startPolling` waits, an interval named by
  `state.poll` was set by a call that overlapped it.
* **RiskScorerProofs**: no score lies on the edge of a band (`OffTheEdges`) and the
  severity shown is the band of the score shown (`SeverityIsBand`), for every detector,
  Slither rating and confidence; and a higher rating never lowers a score
  (`ScoreIsMonotone`), because no branch of `map_detector` falls as the severity grows
  (`MapSumsGrow`).

* **Induction** (no assumptions). The library's induction theorems have an operator as
  a parameter, which no installed prover can instantiate. The same induction can be
  stated of a set: `SetInduction` and `BoundedInduction` come from the least element of
  the complement, and are used with `T == {i \in 0..n : ...}`. On it rest
  `FoldExists` and `FoldWorks`: the function by which the community modules define a fold
  exists for every total step, so that the `CHOOSE` behind it gives that function, and
  its values on the prefixes of `1..n` have the equations of a loop (`Folded`).
  `SortedEnumeration` gives a finite set with a total order an ascending enumeration.
* **FindingAnalysisProofs** (assumes `AnalysisAssumption`). Each loop of the code gets a
  lemma that states its equations (`AppendAllNewFold`, `GroupsFold`, `JoinFold`,
  `ExplainFold`, from `FoldWorks`) and one that proves its loop invariant by
  `BoundedInduction`:
  - merging (`MergeHolds`): after any prefix of the results, the groups are those of the
    keys seen, and each group `Describes` the results of its key: its span, evidence,
    severity and confidence are their union or extreme, its detector is one of theirs.
    This does not mention an order, and by `DescribesOne` decides all of a group but its
    detector. That is why order cannot matter elsewhere (`ReportsKeepTheSame`);
  - the key is computed from the start of a result, and merging lowers the start of a
    group; `KeyOfGroup` says that it stays in its bucket, which is what
    `NearbyResultsMerge` and `EveryResultReported` hang on: three findings of one place
    are in three buckets (`ThreeBuckets`);
  - sorting (`SortedByWorks`, `NormalizeLists`): the sort keys are distinct and ordered
    totally, so the list has each group once;
  - joining (`JoinJoins`): the ranges so far are separate and ascending, cover what
    their windows cover, and the last starts no later than the window that comes, which
    holds because the windows are sorted by their starts;
  - explaining (`ExplainKeepsFacts`): each explanation keeps everything but the texts.

  `IInv` is `TypeOK` and: the findings are the groups of Slither's results, each once and
  scored (`Reports` in `FindingsInv`), and the overall risk is theirs; excerpt and risk
  areas are about them (`LlmInv`); the report is made of them (`ReportInv`). It has to
  say how the findings came about rather than restate the invariants: nothing else about
  a list of findings tells which results it stands for, and the LLM changes the list
  afterwards. `Reports` holds before and after that, since it does not mention the
  texts (`SameReports`). TLC checks each invariant that `IInv` implies, not
  `IInv` itself, which quantifies over all groups.

  Beyond the properties of the run, `MergingKeepsScoresHolds`: a result merged into a
  finding of its own detector never scores above the finding, since a group keeps the
  highest ratings and scores are monotone. Of a finding that bears another detector this
  is not claimed (see 7 below).

In short: every `INVARIANT` and every action property of a passing run is a theorem.
Only model-checked are the liveness properties (`PendingPaymentStartsScan`,
`EverySpawnedTaskEnds`, `EveryAnalysisEnds`, `EveryFolderGoes`, `EndReachesThePage`,
`PollingStops`): their proofs need `ENABLED` of the fair actions, which the provers do
not handle. The violated properties are, of course, not theorems.

## What the code does not keep

1. A `mark_paid` that fails is logged and the cursor moves on
   (`scan_service.rs:282`, `payment_watcher.rs:108-113`): the payment is lost,
   against the blueprint's restart-safe backfill (run `watcher_lost`).
2. The fast-forward relies on an expiry that does not exist (`watcher_skip`).
3. The configured price decides, not `price_amount` (`watcher_price`).
4. A failed status update leaves a scan in a non-terminal status for ever, with
   no restart involved (`pipeline_stuck`).
5. Two identical submissions at once make two scans, each with its own payment
   (`scan_service.rs:35`, run `admission_double`).

Found while modelling, not the subject of a run of its own:

6. Findings are sorted by Slither's severity and scored afterwards
   (`analyzers/pipeline.rs:37`); the blueprint asks for "severity, then final score"
   (`PROJECT_BLUEPRINT.md:478`). An escalated finding may stand below a High one.
7. The first result of a merged group names its detector and thereby decides whether
   the group is escalated (`risk_scorer.rs:85`). `MergeOrderIndependent` and
   `CriticalIsJustified` say how far: other facts do not depend on the order.
8. A timeout or a crash leaves the container running (`docker_runner.rs:118`), and the
   reaper removes folders only, where the blueprint asks it to remove "any scan
   containers" (`PROJECT_BLUEPRINT.md:1209`). `OnlyAbandonedExceedPermits` is what
   remains of the limit on sandboxes; `BoundedSandboxes` counts the tasks in the sandbox
   step, not the containers.
9. The page stops polling at the first failed request (`static/index.html:453`) where
   the blueprint asks for a retry with backoff (`PROJECT_BLUEPRINT.md:1091`), has no
   ceiling of 3 minutes (`:1090`), and leaks an interval when two calls of
   `startPolling` overlap.
10. After a reload a scan that awaits payment has no payment panel, since it needs
    `state.payFailed` (`static/index.html:435`).
11. The watcher's HTTP client has no timeout (`payment_watcher.rs:44`; the LLM's has one,
    `llm_client.rs:35`): one call that hangs stops the watcher until a restart, with no
    line in the log. `PendingPaymentStartsScan` is conditional on it.
12. Nearness is a bucket of ten lines (`finding_normalizer.rs:28`): two results of one
    detector in one function at lines 49 and 50 stay two findings, where the blueprint asks
    that findings merge when "nearby lines match" (`PROJECT_BLUEPRINT.md:474`), so that
    users "see one merged finding, not noisy duplicates" (`:464`). `NearbyResultsMerge`
    says how far the code goes: of three findings of one place two are more than ten
    lines apart.
13. The submitted source is "cleared (set NULL) once analysis completes"
    (`migrations/0003_pending_source.sql:3`), but the error of that statement is ignored
    (`scan_service.rs:396`, `:418`), and a task that a failed status update or a crash ends
    never gets there. `SourceLifetime` excepts scans with a fault.
14. A removal of a scan folder that fails is not reported (`temp_files.rs:51`,
    `reaper.rs:49`); one that fails every time leaves the source on the disk for ever.
    `EveryFolderGoes` assumes that only finitely many fail.

## Not modelled, and why

* The wallet (`payWithWallet`), layout and exports of the page: with the wallet's
  states the client is too large for its liveness properties; exports change nothing.
* `withdraw` and the ownership hand-over of the contract: single guarded assignments
  that nothing else reads. `pay` is in PaymentWatcher.
* `PAYMENT_BYPASS`, a development switch: off in the models. Under it the pipeline is
  spawned on a row that still awaits payment, so a payment would start a second.
* The text tests of `validate`, `solidity_preprocessor` and the decoding of logs and
  topics: pure tests of text, whose outcomes the models take as given.
* The fingerprint of a finding, a hash of fields the model keeps.
* Routing, `client_ip`, the error envelope, health, configuration parsing and
  database set-up: constructor calls and formatting.
* The limits given to docker: properties of the container, not of this code.

What a next step would be: the composition of admission, watcher and pipeline in one
module that implements `ScanLifecycle` end to end, with `PAYMENT_BYPASS` as a constant
and resubmissions of scans that have failed; and the wallet in a module of its own.
