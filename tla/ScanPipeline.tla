----------------------------- MODULE ScanPipeline ------------------------------
(***************************************************************************)
(* The analysis of a paid scan (src/services/scan_service.rs, run_pipeline  *)
(* and fail), one tokio task per scan, and the rows it writes.  A task is   *)
(* at a label between two awaits; each action is one database statement,    *)
(* one sandbox run or one semaphore operation, in the order of the code.    *)
(* Every status write is unconditional and no statements share a            *)
(* transaction, so what the tables show to a poller between two steps, and  *)
(* after a crash, is the question.                                          *)
(*                                                                          *)
(* A statement that fails may have been applied or not.  Some errors end    *)
(* the task, some turn into a failed scan, some are ignored.  A crash ends  *)
(* every task; nothing starts them again.                                   *)
(***************************************************************************)
EXTENDS Naturals, Sequences, FiniteSets

CONSTANTS
    Scans,
    MaxConcurrent,  \* MAX_CONCURRENT_SCANS, permits of the semaphore
    MaxFindings,    \* bound: findings an analysis can report
    Faults,         \* the kinds of fault that may happen
    MaxFaults       \* bound: failed statements and crashes

ASSUME PipelineAssumption ==
    /\ MaxConcurrent \in Nat \ {0}
    /\ MaxFindings \in Nat
    /\ Faults \subseteq {"db_error", "crash"}
    /\ MaxFaults \in Nat

VARIABLES
    row,      \* the tables, per scan
    label,    \* where the task of the scan is
    found,    \* findings of the analysis the task holds in memory
    reason,   \* error code the task is failing with
    queue,    \* tasks waiting for a permit, first come first served
    holding,  \* tasks that hold a permit
    llm,      \* an LLM client is configured
    faulty,   \* scans whose task met a failed statement or a crash
    faults    \* faults so far

vars == <<row, label, found, reason, queue, holding, llm, faulty, faults>>

Terminal == {"report_ready", "failed"}
Statuses == {"none", "awaiting_payment", "queued", "running", "analyzing_slither",
             "analyzing_llm", "scoring"} \cup Terminal

\* The error codes fail() is called with.
Codes == {"SLITHER_COMPILATION_FAILED", "SLITHER_FAILED", "INTERNAL_ERROR",
          "REPORT_GENERATION_FAILED"}
NoCode == "none"

Row == [status   : Statuses,            \* scans.status
        source   : BOOLEAN,             \* scans.pending_source is not NULL
        code     : Codes \cup {NoCode}, \* scans.error_code
        risk     : BOOLEAN,             \* scans.overall_risk is not NULL
        findings : 0..MaxFindings,      \* rows of findings
        report   : BOOLEAN]             \* a row of reports

\* Labels of run_pipeline, in the order of the code.
BeforePermit == {"set_queued", "acquire"}
WithPermit ==
    {"load_source", "begin_running", "set_slither", "slither", "set_llm", "set_scoring",
     "insert_findings", "upsert_report", "set_risk", "clear_source", "finish",
     "fail_clear", "fail_finish"}
Running == BeforePermit \cup WithPermit
\* No task; mark_paid done but the task not spawned; the same after a crash; over.
Labels == Running \cup {"none", "claimed", "unspawned", "ended"}

TypeOK ==
    /\ row \in [Scans -> Row]
    /\ label \in [Scans -> Labels]
    /\ found \in [Scans -> 0..MaxFindings]
    /\ reason \in [Scans -> Codes \cup {NoCode}]
    /\ queue \in Seq(Scans)
    /\ holding \subseteq Scans
    /\ llm \in BOOLEAN
    /\ faulty \subseteq Scans
    /\ faults \in Nat

Init ==
    /\ row = [s \in Scans |-> [status |-> "none", source |-> FALSE, code |-> NoCode,
                               risk |-> FALSE, findings |-> 0, report |-> FALSE]]
    /\ label = [s \in Scans |-> "none"]
    /\ found = [s \in Scans |-> 0]
    /\ reason = [s \in Scans |-> NoCode]
    /\ queue = <<>>
    /\ holding = {}
    /\ llm \in BOOLEAN
    /\ faulty = {}
    /\ faults = 0

-----------------------------------------------------------------------------
(* Statements. *)

\* Mutant: the permit is not dropped.
Goto_PermitLeaks(s, next) ==
    /\ label' = [label EXCEPT ![s] = next]
    /\ UNCHANGED holding

\* The task goes to its next label; its permit is dropped when it returns.
Goto(s, next) ==
    /\ label' = [label EXCEPT ![s] = next]
    /\ holding' = IF next = "ended" THEN holding \ {s} ELSE holding

Fault(kind, scans) ==
    /\ kind \in Faults
    /\ faults < MaxFaults
    /\ faults' = faults + 1
    /\ faulty' = faulty \cup scans

\* The statement of the task's label writes `new` and the task goes on to `next`,
\* or it fails, applied or not, and the task goes to `onError`.
Write(s, new, next, onError) ==
    \/ /\ row' = [row EXCEPT ![s] = new]
       /\ Goto(s, next)
       /\ UNCHANGED <<faulty, faults>>
    \/ /\ Fault("db_error", {s})
       /\ row' \in {row, [row EXCEPT ![s] = new]}
       /\ Goto(s, onError)

At(s, here) == label[s] = here

-----------------------------------------------------------------------------
(* Before the task: the API and the payment watcher. *)

Create(s) ==
    /\ row[s].status = "none"
    /\ row' = [row EXCEPT ![s].status = "awaiting_payment", ![s].source = TRUE]
    /\ UNCHANGED <<label, found, reason, queue, holding, llm, faulty, faults>>

\* Mutant: the UPDATE has no condition on the status.
MarkPaid_AnyStatus(s) ==
    /\ row[s].status # "none"
    /\ row' = [row EXCEPT ![s].status = "queued"]
    /\ label' = [label EXCEPT ![s] = "claimed"]
    /\ UNCHANGED <<found, reason, queue, holding, llm, faulty, faults>>

\* mark_paid: the UPDATE needs an awaiting scan.
MarkPaid(s) ==
    /\ row[s].status = "awaiting_payment"
    /\ row' = [row EXCEPT ![s].status = "queued"]
    /\ label' = [label EXCEPT ![s] = "claimed"]
    /\ UNCHANGED <<found, reason, queue, holding, llm, faulty, faults>>

\* spawn_pipeline
Spawn(s) ==
    /\ At(s, "claimed")
    /\ label' = [label EXCEPT ![s] = "set_queued"]
    /\ UNCHANGED <<row, found, reason, queue, holding, llm, faulty, faults>>

-----------------------------------------------------------------------------
(* run_pipeline *)

\* The task joins the semaphore's queue as soon as its row says queued.
SetQueued(s) ==
    /\ At(s, "set_queued")
    /\ Write(s, [row[s] EXCEPT !.status = "queued"], "acquire", "ended")
    /\ queue' = IF label'[s] = "acquire" THEN Append(queue, s) ELSE queue
    /\ UNCHANGED <<found, reason, llm>>

\* Mutant: `let _ = sem.acquire()`, which gives the permit back at once.
Acquire_PermitDropped(s) ==
    /\ At(s, "acquire")
    /\ queue # <<>> /\ Head(queue) = s
    /\ Cardinality(holding) < MaxConcurrent
    /\ queue' = Tail(queue)
    /\ label' = [label EXCEPT ![s] = "load_source"]
    /\ UNCHANGED <<row, found, reason, holding, llm, faulty, faults>>

\* tokio's semaphore hands permits out in the order they were asked for.
Acquire(s) ==
    /\ At(s, "acquire")
    /\ queue # <<>> /\ Head(queue) = s
    /\ Cardinality(holding) < MaxConcurrent
    /\ queue' = Tail(queue)
    /\ holding' = holding \cup {s}
    /\ label' = [label EXCEPT ![s] = "load_source"]
    /\ UNCHANGED <<row, found, reason, llm, faulty, faults>>

\* Mutant: the task returns without calling fail().
FailWith_Return(s, code) ==
    /\ reason' = [reason EXCEPT ![s] = code]
    /\ Goto(s, "ended")

\* The task will fail the scan with this code.
FailWith(s, code) ==
    /\ reason' = [reason EXCEPT ![s] = code]
    /\ Goto(s, "fail_clear")

LoadSource(s) ==
    /\ At(s, "load_source")
    /\ \/ /\ row[s].source
          /\ Goto(s, "begin_running")
          /\ UNCHANGED <<reason, faulty, faults>>
       \/ /\ ~row[s].source
          /\ FailWith(s, "INTERNAL_ERROR")
          /\ UNCHANGED <<faulty, faults>>
       \/ /\ Fault("db_error", {s})
          /\ FailWith(s, "INTERNAL_ERROR")
    /\ UNCHANGED <<row, found, queue, llm>>

BeginRunning(s) ==
    /\ At(s, "begin_running")
    /\ Write(s, [row[s] EXCEPT !.status = "running"], "set_slither", "ended")
    /\ UNCHANGED <<found, reason, queue, llm>>

SetSlither(s) ==
    /\ At(s, "set_slither")
    /\ Write(s, [row[s] EXCEPT !.status = "analyzing_slither"], "slither", "ended")
    /\ UNCHANGED <<found, reason, queue, llm>>

\* map_slither_error
SlitherCodes == {"SLITHER_COMPILATION_FAILED", "SLITHER_FAILED", "INTERNAL_ERROR"}

\* The sandbox run, normalisation and scoring: findings, or an error.  The run has
\* a timeout, so it always comes back.
Slither(s) ==
    /\ At(s, "slither")
    /\ \/ /\ \E n \in 0..MaxFindings : found' = [found EXCEPT ![s] = n]
          /\ Goto(s, IF llm THEN "set_llm" ELSE "set_scoring")
          /\ UNCHANGED reason
       \/ /\ \E code \in SlitherCodes : FailWith(s, code)
          /\ UNCHANGED found
    /\ UNCHANGED <<row, queue, llm, faulty, faults>>

\* The result of this write is ignored; enrich() itself never fails the scan.
SetLlm(s) ==
    /\ At(s, "set_llm")
    /\ Write(s, [row[s] EXCEPT !.status = "analyzing_llm"], "set_scoring", "set_scoring")
    /\ UNCHANGED <<found, reason, queue, llm>>

SetScoring(s) ==
    /\ At(s, "set_scoring")
    /\ Write(s, [row[s] EXCEPT !.status = "scoring"], "insert_findings", "insert_findings")
    /\ UNCHANGED <<found, reason, queue, llm>>

\* Mutant: one INSERT too many.
InsertFinding_OneMore(s) ==
    /\ At(s, "insert_findings")
    /\ row[s].findings <= found[s]
    /\ Write(s, [row[s] EXCEPT !.findings = @ + 1], "insert_findings", "fail_clear")
    /\ UNCHANGED <<found, reason, queue, llm>>

\* Mutant: an error of insert_findings is ignored like those around it.
InsertFinding_ErrorIgnored(s) ==
    /\ At(s, "insert_findings")
    /\ row[s].findings < found[s]
    /\ Write(s, [row[s] EXCEPT !.findings = @ + 1], "insert_findings", "upsert_report")
    /\ UNCHANGED <<found, reason, queue, llm>>

\* insert_findings: one INSERT per finding, no transaction.  An error fails the scan.
InsertFinding(s) ==
    /\ At(s, "insert_findings")
    /\ row[s].findings < found[s]
    /\ Write(s, [row[s] EXCEPT !.findings = @ + 1], "insert_findings", "fail_clear")
    /\ reason' = IF label'[s] = "fail_clear"
                 THEN [reason EXCEPT ![s] = "REPORT_GENERATION_FAILED"] ELSE reason
    /\ UNCHANGED <<found, queue, llm>>

FindingsStored(s) ==
    /\ At(s, "insert_findings")
    /\ row[s].findings = found[s]
    /\ Goto(s, "upsert_report")
    /\ UNCHANGED <<row, found, reason, queue, llm, faulty, faults>>

\* Mutant: an error of upsert_report is ignored.
UpsertReport_ErrorIgnored(s) ==
    /\ At(s, "upsert_report")
    /\ Write(s, [row[s] EXCEPT !.report = TRUE], "set_risk", "set_risk")
    /\ UNCHANGED <<found, reason, queue, llm>>

UpsertReport(s) ==
    /\ At(s, "upsert_report")
    /\ Write(s, [row[s] EXCEPT !.report = TRUE], "set_risk", "fail_clear")
    /\ reason' = IF label'[s] = "fail_clear"
                 THEN [reason EXCEPT ![s] = "REPORT_GENERATION_FAILED"] ELSE reason
    /\ UNCHANGED <<found, queue, llm>>

\* The result of this write is ignored, and that of clear_source too.
SetRisk(s) ==
    /\ At(s, "set_risk")
    /\ Write(s, [row[s] EXCEPT !.risk = TRUE], "clear_source", "clear_source")
    /\ UNCHANGED <<found, reason, queue, llm>>

\* Mutant: the source is kept.
ClearSource_Forgotten(s) ==
    /\ At(s, "clear_source")
    /\ Goto(s, "finish")
    /\ UNCHANGED <<row, found, reason, queue, llm, faulty, faults>>

ClearSource(s) ==
    /\ At(s, "clear_source")
    /\ Write(s, [row[s] EXCEPT !.source = FALSE], "finish", "finish")
    /\ UNCHANGED <<found, reason, queue, llm>>

Finish(s) ==
    /\ At(s, "finish")
    /\ Write(s, [row[s] EXCEPT !.status = "report_ready", !.code = NoCode], "ended", "ended")
    /\ UNCHANGED <<found, reason, queue, llm>>

\* fail(): the result of the first write is ignored, that of the second is logged.
FailClear(s) ==
    /\ At(s, "fail_clear")
    /\ Write(s, [row[s] EXCEPT !.source = FALSE], "fail_finish", "fail_finish")
    /\ UNCHANGED <<found, reason, queue, llm>>

FailFinish(s) ==
    /\ At(s, "fail_finish")
    /\ Write(s, [row[s] EXCEPT !.status = "failed", !.code = reason[s]], "ended", "ended")
    /\ UNCHANGED <<found, reason, queue, llm>>

-----------------------------------------------------------------------------
\* The server dies, or shuts down: every task is gone, the tables stay.  The next
\* server may have another LLM configuration.
Live(s) == label[s] \in Running \cup {"claimed"}

Crash ==
    /\ Fault("crash", {s \in Scans : Live(s)})
    /\ label' = [s \in Scans |->
                   IF At(s, "claimed") THEN "unspawned"
                   ELSE IF label[s] \in Running THEN "ended" ELSE label[s]]
    /\ queue' = <<>>
    /\ holding' = {}
    /\ llm' \in BOOLEAN
    /\ UNCHANGED <<row, found, reason>>

Task(s) ==
    \/ Spawn(s) \/ SetQueued(s) \/ Acquire(s) \/ LoadSource(s) \/ BeginRunning(s)
    \/ SetSlither(s) \/ Slither(s) \/ SetLlm(s) \/ SetScoring(s)
    \/ InsertFinding(s) \/ FindingsStored(s) \/ UpsertReport(s) \/ SetRisk(s)
    \/ ClearSource(s) \/ Finish(s) \/ FailClear(s) \/ FailFinish(s)

Next ==
    \/ \E s \in Scans : Create(s) \/ MarkPaid(s) \/ Task(s)
    \/ Crash

Spec == Init /\ [][Next]_vars

\* The runtime polls every live task again and again.
FairSpec == Spec /\ \A s \in Scans : WF_vars(Task(s))

-----------------------------------------------------------------------------
(* Properties. *)

\* Whoever sees report_ready finds the report and every finding of the analysis,
\* and the report can be fetched in a second query (get_report, "Report is missing
\* for a ready scan."); a failed insert never ends in report_ready.
ReadyIsComplete ==
    \A s \in Scans : row[s].status = "report_ready" =>
        row[s].report /\ row[s].findings = found[s]

\* ScanStatus::progress, as an order
Progress(status) ==
    CASE status = "none" -> 0
      [] status = "awaiting_payment" -> 1
      [] status = "queued" -> 2
      [] status = "running" -> 3
      [] status = "analyzing_slither" -> 4
      [] status = "analyzing_llm" -> 5
      [] status = "scoring" -> 6
      [] OTHER -> 7

\* The statuses a poller sees never go back, and an end status never changes,
\* although every status write is unconditional and failed ones are retried by
\* nobody (set_status, finish).
StatusNeverGoesBack ==
    [][\A s \in Scans :
          /\ Progress(row'[s].status) >= Progress(row[s].status)
          /\ row[s].status \in Terminal => row'[s].status = row[s].status]_vars

\* At most MaxConcurrent tasks run a sandbox at the same time: the permit taken
\* before the analysis is held until the task returns (_permit in run_pipeline).
BoundedSandboxes ==
    Cardinality({s \in Scans : At(s, "slither")}) <= MaxConcurrent

\* The submitted source is there until the task has read it, and is gone when the
\* scan ends without a fault (pending_source).
SourceLifetime ==
    \A s \in Scans :
        /\ label[s] \in {"claimed"} \cup BeforePermit \cup {"load_source"} => row[s].source
        /\ row[s].status \in Terminal /\ s \notin faulty => ~row[s].source

\* A task that met neither a failed statement nor a crash leaves an end status
\* behind, with an error code exactly when it failed (run_pipeline's returns).
NoFaultNoStuckScan ==
    \A s \in Scans : label[s] = "ended" /\ s \notin faulty =>
        /\ row[s].status \in Terminal
        /\ row[s].status = "failed" <=> row[s].code # NoCode

\* A spawned task always returns and gives its permit back, whatever fails and
\* however many tasks wait before it (run_pipeline).
EverySpawnedTaskEnds ==
    \A s \in Scans : At(s, "set_queued") ~> At(s, "ended") /\ s \notin holding

\* The pipeline implements the lifecycle's promise from the payment on.
Phase(s) ==
    IF row[s].status = "none" THEN "absent"
    ELSE IF row[s].status = "awaiting_payment" THEN "awaiting"
    ELSE IF row[s].status = "report_ready" THEN "ready"
    ELSE IF row[s].status = "failed" THEN "failed"
    ELSE IF label[s] \in {"claimed", "unspawned"} THEN "paid"
    ELSE "started"

Lifecycle == INSTANCE ScanLifecycle WITH
    settled <- Scans,
    phase   <- [s \in Scans |-> Phase(s)],
    reports <- {s \in Scans : row[s].report}

\* Every behaviour of the pipeline, mapped to phases, is one ScanLifecycle allows
\* (run_pipeline, fail).
ImplementsLifecycle == Lifecycle!LifecycleSpec

-----------------------------------------------------------------------------
(* Claims of the repository the code does not keep. *)

\* "Final status becomes `report_ready` or `failed`": a spawned analysis leads to
\* an end status.
FinalStatusReached ==
    \A s \in Scans : At(s, "set_queued") ~> row[s].status \in Terminal
=============================================================================
