-------------------------- MODULE ScanPipelineProofs ---------------------------
(***************************************************************************)
(* Proofs about ScanPipeline, for every set of scans, number of permits and *)
(* mixture of failed statements and crashes: type correctness, what a ready *)
(* scan holds, the lifetime of the source, the bound on sandboxes, that a   *)
(* status never goes back, and that the pipeline implements ScanLifecycle.  *)
(***************************************************************************)
EXTENDS ScanPipeline, FiniteSetTheorems, TLAPS

\* What the row's status can be at each label of the task.
StatusInv(s) ==
    /\ label[s] = "none" => row[s].status \in {"none", "awaiting_payment"}
    /\ row[s].status \in {"none", "awaiting_payment"} => label[s] = "none"
    /\ label[s] \in {"claimed", "unspawned", "set_queued", "acquire", "load_source",
                     "begin_running"} => row[s].status = "queued"
    /\ label[s] = "set_slither" => row[s].status = "running"
    /\ label[s] \in {"slither", "set_llm"} => row[s].status = "analyzing_slither"
    /\ label[s] = "set_scoring" => row[s].status \in {"analyzing_slither", "analyzing_llm"}
    /\ label[s] \in {"insert_findings", "upsert_report", "set_risk", "clear_source", "finish"} =>
          row[s].status \in {"analyzing_slither", "analyzing_llm", "scoring"}
    /\ row[s].status \in Terminal => label[s] = "ended"

\* How much of the analysis is stored at each label.
ReportInv(s) ==
    /\ label[s] \in {"upsert_report", "set_risk", "clear_source", "finish"} =>
          row[s].findings = found[s]
    /\ label[s] \in {"set_risk", "clear_source", "finish"} => row[s].report
    /\ row[s].status = "report_ready" => row[s].report /\ row[s].findings = found[s]

\* When the submitted source is there, and when it is not.
SourceInv(s) ==
    /\ row[s].status = "awaiting_payment" => row[s].source
    /\ label[s] \in {"claimed", "set_queued", "acquire", "load_source"} => row[s].source
    /\ label[s] \in {"finish", "fail_finish"} /\ s \notin faulty => ~row[s].source
    /\ row[s].status \in Terminal /\ s \notin faulty => ~row[s].source

\* Where an error code comes from and where it goes.
CodeInv(s) ==
    /\ label[s] \in {"fail_clear", "fail_finish"} => reason[s] # NoCode
    /\ row[s].status = "failed" <=> row[s].code # NoCode
    /\ label[s] = "ended" /\ s \notin faulty => row[s].status \in Terminal
    /\ label[s] = "unspawned" => s \in faulty

Consistent(s) == StatusInv(s) /\ ReportInv(s) /\ SourceInv(s) /\ CodeInv(s)
ScanInv == \A s \in Scans : Consistent(s)

\* Every task past the semaphore holds one of MaxConcurrent permits.
PermitInv ==
    /\ \A s \in Scans : label[s] \in WithPermit => s \in holding
    /\ IsFiniteSet(holding)
    /\ Cardinality(holding) <= MaxConcurrent

IInv == TypeOK /\ ScanInv /\ PermitInv

-----------------------------------------------------------------------------
(* Statements, and the rows they write. *)

\* What a statement leaves of every variable it touches, and of the other scans.
Effect(s, new, next, onError) ==
    /\ row' \in [Scans -> Row] /\ label' \in [Scans -> Labels]
    /\ holding' \subseteq Scans /\ faulty' \subseteq Scans /\ faults' \in Nat
    /\ \A t \in Scans : t # s => row'[t] = row[t] /\ label'[t] = label[t]
    /\ \A t \in Scans : t \in faulty => t \in faulty'
    /\ \/ row'[s] = new /\ label'[s] = next
       \/ row'[s] \in {row[s], new} /\ label'[s] = onError /\ s \in faulty'

LEMMA WriteEffect ==
    ASSUME TypeOK, NEW s \in Scans, NEW new \in Row, NEW next \in Labels,
           NEW onError \in Labels, Write(s, new, next, onError)
    PROVE  Effect(s, new, next, onError)
<1> USE DEF TypeOK, Effect
<1>1. CASE row' = [row EXCEPT ![s] = new] /\ Goto(s, next) /\ UNCHANGED <<faulty, faults>>
  BY <1>1 DEF Goto
<1>2. CASE /\ Fault("db_error", {s}) /\ Goto(s, onError)
           /\ row' \in {row, [row EXCEPT ![s] = new]}
  <2>1. /\ row' \in [Scans -> Row] /\ row'[s] \in {row[s], new}
        /\ \A t \in Scans : t # s => row'[t] = row[t]
    BY <1>2
  <2>2. /\ label' = [label EXCEPT ![s] = onError]
        /\ holding' \subseteq Scans
        /\ faults' \in Nat /\ faulty' = faulty \cup {s}
    BY <1>2 DEF Goto, Fault
  <2> QED BY <2>1, <2>2
<1> QED BY <1>1, <1>2 DEF Write

\* The rows the statements write.
LEMMA RowUpdates ==
    ASSUME NEW r \in Row
    PROVE  /\ \A x \in Statuses : [r EXCEPT !.status = x] \in Row
           /\ \A x \in Statuses, c \in Codes \cup {NoCode} :
                 [r EXCEPT !.status = x, !.code = c] \in Row
           /\ \A x \in Statuses : [r EXCEPT !.status = x, !.source = TRUE] \in Row
           /\ [r EXCEPT !.source = FALSE] \in Row
           /\ [r EXCEPT !.risk = TRUE] \in Row
           /\ [r EXCEPT !.report = TRUE] \in Row
           /\ r.findings < MaxFindings => [r EXCEPT !.findings = @ + 1] \in Row
<1> USE PipelineAssumption DEF Row
<1>1. \A x \in Statuses : [r EXCEPT !.status = x] \in Row OBVIOUS
<1>2. \A x \in Statuses, c \in Codes \cup {NoCode} :
          [r EXCEPT !.status = x, !.code = c] \in Row OBVIOUS
<1>3. \A x \in Statuses : [r EXCEPT !.status = x, !.source = TRUE] \in Row OBVIOUS
<1>4. [r EXCEPT !.source = FALSE] \in Row OBVIOUS
<1>5. [r EXCEPT !.risk = TRUE] \in Row OBVIOUS
<1>6. [r EXCEPT !.report = TRUE] \in Row OBVIOUS
<1>7. r.findings < MaxFindings => [r EXCEPT !.findings = @ + 1] \in Row OBVIOUS
<1> QED BY <1>1, <1>2, <1>3, <1>4, <1>5, <1>6, <1>7

\* Each statement of the task has its effect: the row it writes, the label it
\* leads to, and the label an error leads to.
LEMMA Statements ==
    ASSUME TypeOK, NEW s \in Scans
    PROVE  /\ SetQueued(s) => Effect(s, [row[s] EXCEPT !.status = "queued"], "acquire", "ended")
           /\ BeginRunning(s) =>
                 Effect(s, [row[s] EXCEPT !.status = "running"], "set_slither", "ended")
           /\ SetSlither(s) =>
                 Effect(s, [row[s] EXCEPT !.status = "analyzing_slither"], "slither", "ended")
           /\ SetLlm(s) =>
                 Effect(s, [row[s] EXCEPT !.status = "analyzing_llm"], "set_scoring", "set_scoring")
           /\ SetScoring(s) =>
                 Effect(s, [row[s] EXCEPT !.status = "scoring"], "insert_findings", "insert_findings")
           /\ InsertFinding(s) =>
                 Effect(s, [row[s] EXCEPT !.findings = @ + 1], "insert_findings", "fail_clear")
           /\ UpsertReport(s) =>
                 Effect(s, [row[s] EXCEPT !.report = TRUE], "set_risk", "fail_clear")
           /\ SetRisk(s) => Effect(s, [row[s] EXCEPT !.risk = TRUE], "clear_source", "clear_source")
           /\ ClearSource(s) => Effect(s, [row[s] EXCEPT !.source = FALSE], "finish", "finish")
           /\ Finish(s) =>
                 Effect(s, [row[s] EXCEPT !.status = "report_ready", !.code = NoCode], "ended", "ended")
           /\ FailClear(s) =>
                 Effect(s, [row[s] EXCEPT !.source = FALSE], "fail_finish", "fail_finish")
           /\ FailFinish(s) =>
                 Effect(s, [row[s] EXCEPT !.status = "failed", !.code = reason[s]], "ended", "ended")
<1> USE DEF TypeOK
<1>1. row[s] \in Row OBVIOUS
<1>2. {"acquire", "ended", "set_slither", "slither", "set_scoring", "insert_findings", "fail_clear",
       "set_risk", "clear_source", "finish", "fail_finish"} \subseteq Labels
  BY DEF Labels, Running, BeforePermit, WithPermit
<1>3. {"queued", "running", "analyzing_slither", "analyzing_llm", "scoring", "report_ready",
       "failed"} \subseteq Statuses
  BY DEF Statuses, Terminal
<1>4. found[s] \in 0..MaxFindings /\ reason[s] \in Codes \cup {NoCode} OBVIOUS
<1>5. SetQueued(s) => Effect(s, [row[s] EXCEPT !.status = "queued"], "acquire", "ended")
  <2>1. [row[s] EXCEPT !.status = "queued"] \in Row BY <1>1, <1>3, <1>4, RowUpdates
  <2> QED BY <1>2, <2>1, WriteEffect DEF SetQueued
<1>6. BeginRunning(s) => Effect(s, [row[s] EXCEPT !.status = "running"], "set_slither", "ended")
  <2>1. [row[s] EXCEPT !.status = "running"] \in Row BY <1>1, <1>3, <1>4, RowUpdates
  <2> QED BY <1>2, <2>1, WriteEffect DEF BeginRunning
<1>7. SetSlither(s) => Effect(s, [row[s] EXCEPT !.status = "analyzing_slither"], "slither", "ended")
  <2>1. [row[s] EXCEPT !.status = "analyzing_slither"] \in Row BY <1>1, <1>3, <1>4, RowUpdates
  <2> QED BY <1>2, <2>1, WriteEffect DEF SetSlither
<1>8. SetLlm(s) =>
      Effect(s, [row[s] EXCEPT !.status = "analyzing_llm"], "set_scoring", "set_scoring")
  <2>1. [row[s] EXCEPT !.status = "analyzing_llm"] \in Row BY <1>1, <1>3, <1>4, RowUpdates
  <2> QED BY <1>2, <2>1, WriteEffect DEF SetLlm
<1>9. SetScoring(s) =>
      Effect(s, [row[s] EXCEPT !.status = "scoring"], "insert_findings", "insert_findings")
  <2>1. [row[s] EXCEPT !.status = "scoring"] \in Row BY <1>1, <1>3, <1>4, RowUpdates
  <2> QED BY <1>2, <2>1, WriteEffect DEF SetScoring
<1>10. InsertFinding(s) =>
      Effect(s, [row[s] EXCEPT !.findings = @ + 1], "insert_findings", "fail_clear")
  <2>1. row[s].findings < found[s] => row[s].findings < MaxFindings
    BY <1>1, <1>4, PipelineAssumption DEF Row
  <2>2. row[s].findings < found[s] => [row[s] EXCEPT !.findings = @ + 1] \in Row
    BY <1>1, <2>1, RowUpdates
  <2> QED BY <1>2, <2>2, WriteEffect DEF InsertFinding
<1>11. UpsertReport(s) => Effect(s, [row[s] EXCEPT !.report = TRUE], "set_risk", "fail_clear")
  <2>1. [row[s] EXCEPT !.report = TRUE] \in Row BY <1>1, <1>3, <1>4, RowUpdates
  <2> QED BY <1>2, <2>1, WriteEffect DEF UpsertReport
<1>12. SetRisk(s) => Effect(s, [row[s] EXCEPT !.risk = TRUE], "clear_source", "clear_source")
  <2>1. [row[s] EXCEPT !.risk = TRUE] \in Row BY <1>1, <1>3, <1>4, RowUpdates
  <2> QED BY <1>2, <2>1, WriteEffect DEF SetRisk
<1>13. ClearSource(s) => Effect(s, [row[s] EXCEPT !.source = FALSE], "finish", "finish")
  <2>1. [row[s] EXCEPT !.source = FALSE] \in Row BY <1>1, <1>3, <1>4, RowUpdates
  <2> QED BY <1>2, <2>1, WriteEffect DEF ClearSource
<1>14. Finish(s) =>
      Effect(s, [row[s] EXCEPT !.status = "report_ready", !.code = NoCode], "ended", "ended")
  <2>1. [row[s] EXCEPT !.status = "report_ready", !.code = NoCode] \in Row BY <1>1, <1>3, <1>4,
      RowUpdates
  <2> QED BY <1>2, <2>1, WriteEffect DEF Finish
<1>15. FailClear(s) => Effect(s, [row[s] EXCEPT !.source = FALSE], "fail_finish", "fail_finish")
  <2>1. [row[s] EXCEPT !.source = FALSE] \in Row BY <1>1, <1>3, <1>4, RowUpdates
  <2> QED BY <1>2, <2>1, WriteEffect DEF FailClear
<1>16. FailFinish(s) =>
      Effect(s, [row[s] EXCEPT !.status = "failed", !.code = reason[s]], "ended", "ended")
  <2>1. [row[s] EXCEPT !.status = "failed", !.code = reason[s]] \in Row BY <1>1, <1>3, <1>4,
      RowUpdates
  <2> QED BY <1>2, <2>1, WriteEffect DEF FailFinish
<1> QED BY <1>5, <1>6, <1>7, <1>8, <1>9, <1>10, <1>11, <1>12, <1>13, <1>14, <1>15, <1>16

\* Every step keeps every variable within its type.
LEMMA TypeStep ==
    ASSUME TypeOK, [Next]_vars
    PROVE  TypeOK'
<1> USE PipelineAssumption DEF TypeOK
<1>1. ASSUME NEW s \in Scans, Create(s) PROVE TypeOK'
  <2>1. "awaiting_payment" \in Statuses BY DEF Statuses
  <2>2. [row[s] EXCEPT !.status = "awaiting_payment", !.source = TRUE] \in Row
    BY <2>1, RowUpdates
  <2> QED BY <1>1, <2>2 DEF Create
<1>2. ASSUME NEW s \in Scans, MarkPaid(s) PROVE TypeOK'
  <2>1. "queued" \in Statuses BY DEF Statuses
  <2>2. [row[s] EXCEPT !.status = "queued"] \in Row BY <2>1, RowUpdates
  <2> QED BY <1>2, <2>2 DEF MarkPaid, Labels
<1>3. ASSUME NEW s \in Scans, Spawn(s) PROVE TypeOK'
  BY <1>3 DEF Spawn, Labels, Running, BeforePermit
<1>4. ASSUME NEW s \in Scans, Acquire(s) PROVE TypeOK'
  BY <1>4 DEF Acquire, Labels, Running, WithPermit
<1>5. ASSUME NEW s \in Scans, NEW code \in Codes, FailWith(s, code)
      PROVE  /\ reason' \in [Scans -> Codes \cup {NoCode}]
             /\ label' \in [Scans -> Labels] /\ holding' \subseteq Scans
  BY <1>5 DEF FailWith, Goto, Labels, Running, WithPermit
<1>6. ASSUME NEW s \in Scans, LoadSource(s) PROVE TypeOK'
  <2>1. "INTERNAL_ERROR" \in Codes BY DEF Codes
  <2>2. ASSUME FailWith(s, "INTERNAL_ERROR") PROVE TypeOK'
    BY <1>5, <1>6, <2>1, <2>2 DEF LoadSource, Fault
  <2>3. CASE Goto(s, "begin_running") /\ UNCHANGED <<reason, faulty, faults>>
    BY <1>6, <2>3 DEF LoadSource, Goto, Labels, Running, WithPermit
  <2> QED BY <1>6, <2>2, <2>3 DEF LoadSource
<1>7. ASSUME NEW s \in Scans, Slither(s) PROVE TypeOK'
  <2>1. SlitherCodes \subseteq Codes BY DEF SlitherCodes, Codes
  <2>2. CASE (\E code \in SlitherCodes : FailWith(s, code)) /\ UNCHANGED found
    BY <1>5, <1>7, <2>1, <2>2 DEF Slither
  <2>3. CASE /\ \E n \in 0..MaxFindings : found' = [found EXCEPT ![s] = n]
             /\ Goto(s, IF llm THEN "set_llm" ELSE "set_scoring")
             /\ UNCHANGED reason
    BY <1>7, <2>3 DEF Slither, Goto, Labels, Running, WithPermit
  <2> QED BY <1>7, <2>2, <2>3 DEF Slither
<1>8. ASSUME NEW s \in Scans, FindingsStored(s) PROVE TypeOK'
  BY <1>8 DEF FindingsStored, Goto, Labels, Running, WithPermit
<1>9. ASSUME NEW s \in Scans, SetQueued(s) PROVE TypeOK'
  <2>1. queue' \in Seq(Scans) BY <1>9 DEF SetQueued
  <2>2. Effect(s, [row[s] EXCEPT !.status = "queued"], "acquire", "ended") BY <1>9, Statements
  <2>3. UNCHANGED <<found, reason, llm>> BY <1>9 DEF SetQueued
  <2> QED BY <2>1, <2>2, <2>3 DEF Effect
<1>10. ASSUME NEW s \in Scans, BeginRunning(s) PROVE TypeOK'
  BY <1>10, Statements DEF BeginRunning, Effect
<1>11. ASSUME NEW s \in Scans, SetSlither(s) PROVE TypeOK'
  BY <1>11, Statements DEF SetSlither, Effect
<1>12. ASSUME NEW s \in Scans, SetLlm(s) PROVE TypeOK'
  BY <1>12, Statements DEF SetLlm, Effect
<1>13. ASSUME NEW s \in Scans, SetScoring(s) PROVE TypeOK'
  BY <1>13, Statements DEF SetScoring, Effect
<1>14. ASSUME NEW s \in Scans, InsertFinding(s) PROVE TypeOK'
  BY <1>14, Statements DEF InsertFinding, Effect, Codes
<1>15. ASSUME NEW s \in Scans, UpsertReport(s) PROVE TypeOK'
  BY <1>15, Statements DEF UpsertReport, Effect, Codes
<1>16. ASSUME NEW s \in Scans, SetRisk(s) PROVE TypeOK'
  BY <1>16, Statements DEF SetRisk, Effect
<1>17. ASSUME NEW s \in Scans, ClearSource(s) PROVE TypeOK'
  BY <1>17, Statements DEF ClearSource, Effect
<1>18. ASSUME NEW s \in Scans, Finish(s) PROVE TypeOK'
  BY <1>18, Statements DEF Finish, Effect
<1>19. ASSUME NEW s \in Scans, FailClear(s) PROVE TypeOK'
  BY <1>19, Statements DEF FailClear, Effect
<1>20. ASSUME NEW s \in Scans, FailFinish(s) PROVE TypeOK'
  BY <1>20, Statements DEF FailFinish, Effect
<1>21. CASE Crash
  BY <1>21 DEF Crash, Live, At, Fault, Labels
<1>22. CASE UNCHANGED vars
  BY <1>22 DEF vars
<1> QED
  BY <1>1, <1>2, <1>3, <1>4, <1>6, <1>7, <1>8, <1>9, <1>10, <1>11, <1>12, <1>13, <1>14, <1>15,
     <1>16, <1>17, <1>18, <1>19, <1>20, <1>21, <1>22 DEF Next, Task

\* A step of one task leaves the other scans as they are.
LEMMA OtherScans ==
    ASSUME ScanInv, NEW t \in Scans, row'[t] = row[t], label'[t] = label[t],
           found'[t] = found[t], reason'[t] = reason[t], t \in faulty => t \in faulty'
    PROVE  Consistent(t)'
BY DEF ScanInv, Consistent, StatusInv, ReportInv, SourceInv, CodeInv

\* Every statement moves the row as its label says, applied or not.
LEMMA ScanStep ==
    ASSUME TypeOK, ScanInv, [Next]_vars
    PROVE  ScanInv'
<1>1. ASSUME NEW s \in Scans, Create(s) PROVE ScanInv'
  BY <1>1
     DEF Create, At, TypeOK, Row, Terminal, Codes, NoCode,
         ScanInv, Consistent, StatusInv, ReportInv, SourceInv, CodeInv
<1>2. ASSUME NEW s \in Scans, MarkPaid(s) PROVE ScanInv'
  BY <1>2
     DEF MarkPaid, At, TypeOK, Row, Terminal, Codes, NoCode,
         ScanInv, Consistent, StatusInv, ReportInv, SourceInv, CodeInv
<1>3. ASSUME NEW s \in Scans, Spawn(s) PROVE ScanInv'
  BY <1>3
     DEF Spawn, At, TypeOK, Row, Terminal, Codes, NoCode,
         ScanInv, Consistent, StatusInv, ReportInv, SourceInv, CodeInv
<1>4. ASSUME NEW s \in Scans, SetQueued(s) PROVE ScanInv'
  <2>1. Effect(s, [row[s] EXCEPT !.status = "queued"], "acquire", "ended")
    BY <1>4, Statements
  <2>2. \A t \in Scans : t # s => Consistent(t)'
    BY <1>4, <2>1, OtherScans DEF SetQueued, Effect, TypeOK
  <2>3. row[s] \in Row /\ Consistent(s) BY DEF TypeOK, ScanInv
  <2>4. StatusInv(s)'
    BY <1>4, <2>1, <2>3 DEF SetQueued, At, Effect, Row, Consistent, StatusInv, Terminal
  <2>5. ReportInv(s)'
    BY <1>4, <2>1, <2>3 DEF SetQueued, At, Effect, Row, Consistent, StatusInv, ReportInv, Terminal
  <2>6. SourceInv(s)'
    BY <1>4, <2>1, <2>3 DEF SetQueued, At, Effect, Row, Consistent, StatusInv, SourceInv, Terminal
  <2>7. CodeInv(s)'
    BY <1>4, <2>1, <2>3
       DEF SetQueued, At, Effect, Row, TypeOK, Consistent, StatusInv, CodeInv, Terminal, Codes,
           NoCode
  <2> QED BY <2>2, <2>4, <2>5, <2>6, <2>7 DEF ScanInv, Consistent
<1>5. ASSUME NEW s \in Scans, Acquire(s) PROVE ScanInv'
  BY <1>5
     DEF Acquire, At, TypeOK, Row, Terminal, Codes, NoCode,
         ScanInv, Consistent, StatusInv, ReportInv, SourceInv, CodeInv
<1>6. ASSUME NEW s \in Scans, LoadSource(s) PROVE ScanInv'
  BY <1>6
     DEF LoadSource, At, FailWith, Goto, Fault, TypeOK, Row, Terminal, Codes, NoCode,
         ScanInv, Consistent, StatusInv, ReportInv, SourceInv, CodeInv
<1>7. ASSUME NEW s \in Scans, BeginRunning(s) PROVE ScanInv'
  <2>1. Effect(s, [row[s] EXCEPT !.status = "running"], "set_slither", "ended")
    BY <1>7, Statements
  <2>2. \A t \in Scans : t # s => Consistent(t)'
    BY <1>7, <2>1, OtherScans DEF BeginRunning, Effect, TypeOK
  <2>3. row[s] \in Row /\ Consistent(s) BY DEF TypeOK, ScanInv
  <2>4. StatusInv(s)'
    BY <1>7, <2>1, <2>3 DEF BeginRunning, At, Effect, Row, Consistent, StatusInv, Terminal
  <2>5. ReportInv(s)'
    BY <1>7, <2>1, <2>3 DEF BeginRunning, At, Effect, Row, Consistent, StatusInv, ReportInv,
       Terminal
  <2>6. SourceInv(s)'
    BY <1>7, <2>1, <2>3 DEF BeginRunning, At, Effect, Row, Consistent, StatusInv, SourceInv,
       Terminal
  <2>7. CodeInv(s)'
    BY <1>7, <2>1, <2>3
       DEF BeginRunning, At, Effect, Row, TypeOK, Consistent, StatusInv, CodeInv, Terminal, Codes,
           NoCode
  <2> QED BY <2>2, <2>4, <2>5, <2>6, <2>7 DEF ScanInv, Consistent
<1>8. ASSUME NEW s \in Scans, SetSlither(s) PROVE ScanInv'
  <2>1. Effect(s, [row[s] EXCEPT !.status = "analyzing_slither"], "slither", "ended")
    BY <1>8, Statements
  <2>2. \A t \in Scans : t # s => Consistent(t)'
    BY <1>8, <2>1, OtherScans DEF SetSlither, Effect, TypeOK
  <2>3. row[s] \in Row /\ Consistent(s) BY DEF TypeOK, ScanInv
  <2>4. StatusInv(s)'
    BY <1>8, <2>1, <2>3 DEF SetSlither, At, Effect, Row, Consistent, StatusInv, Terminal
  <2>5. ReportInv(s)'
    BY <1>8, <2>1, <2>3 DEF SetSlither, At, Effect, Row, Consistent, StatusInv, ReportInv, Terminal
  <2>6. SourceInv(s)'
    BY <1>8, <2>1, <2>3 DEF SetSlither, At, Effect, Row, Consistent, StatusInv, SourceInv, Terminal
  <2>7. CodeInv(s)'
    BY <1>8, <2>1, <2>3
       DEF SetSlither, At, Effect, Row, TypeOK, Consistent, StatusInv, CodeInv, Terminal, Codes,
           NoCode
  <2> QED BY <2>2, <2>4, <2>5, <2>6, <2>7 DEF ScanInv, Consistent
<1>9. ASSUME NEW s \in Scans, Slither(s) PROVE ScanInv'
  BY <1>9
     DEF Slither, At, FailWith, Goto, Fault, SlitherCodes, TypeOK, Row, Terminal, Codes, NoCode,
         ScanInv, Consistent, StatusInv, ReportInv, SourceInv, CodeInv
<1>10. ASSUME NEW s \in Scans, SetLlm(s) PROVE ScanInv'
  <2>1. Effect(s, [row[s] EXCEPT !.status = "analyzing_llm"], "set_scoring", "set_scoring")
    BY <1>10, Statements
  <2>2. \A t \in Scans : t # s => Consistent(t)'
    BY <1>10, <2>1, OtherScans DEF SetLlm, Effect, TypeOK
  <2>3. row[s] \in Row /\ Consistent(s) BY DEF TypeOK, ScanInv
  <2>4. StatusInv(s)'
    BY <1>10, <2>1, <2>3 DEF SetLlm, At, Effect, Row, Consistent, StatusInv, Terminal
  <2>5. ReportInv(s)'
    BY <1>10, <2>1, <2>3 DEF SetLlm, At, Effect, Row, Consistent, StatusInv, ReportInv, Terminal
  <2>6. SourceInv(s)'
    BY <1>10, <2>1, <2>3 DEF SetLlm, At, Effect, Row, Consistent, StatusInv, SourceInv, Terminal
  <2>7. CodeInv(s)'
    BY <1>10, <2>1, <2>3
       DEF SetLlm, At, Effect, Row, TypeOK, Consistent, StatusInv, CodeInv, Terminal, Codes, NoCode
  <2> QED BY <2>2, <2>4, <2>5, <2>6, <2>7 DEF ScanInv, Consistent
<1>11. ASSUME NEW s \in Scans, SetScoring(s) PROVE ScanInv'
  <2>1. Effect(s, [row[s] EXCEPT !.status = "scoring"], "insert_findings", "insert_findings")
    BY <1>11, Statements
  <2>2. \A t \in Scans : t # s => Consistent(t)'
    BY <1>11, <2>1, OtherScans DEF SetScoring, Effect, TypeOK
  <2>3. row[s] \in Row /\ Consistent(s) BY DEF TypeOK, ScanInv
  <2>4. StatusInv(s)'
    BY <1>11, <2>1, <2>3 DEF SetScoring, At, Effect, Row, Consistent, StatusInv, Terminal
  <2>5. ReportInv(s)'
    BY <1>11, <2>1, <2>3 DEF SetScoring, At, Effect, Row, Consistent, StatusInv, ReportInv, Terminal
  <2>6. SourceInv(s)'
    BY <1>11, <2>1, <2>3 DEF SetScoring, At, Effect, Row, Consistent, StatusInv, SourceInv, Terminal
  <2>7. CodeInv(s)'
    BY <1>11, <2>1, <2>3
       DEF SetScoring, At, Effect, Row, TypeOK, Consistent, StatusInv, CodeInv, Terminal, Codes,
           NoCode
  <2> QED BY <2>2, <2>4, <2>5, <2>6, <2>7 DEF ScanInv, Consistent
<1>12. ASSUME NEW s \in Scans, InsertFinding(s) PROVE ScanInv'
  <2>1. Effect(s, [row[s] EXCEPT !.findings = @ + 1], "insert_findings", "fail_clear")
    BY <1>12, Statements
  <2>2. \A t \in Scans : t # s => Consistent(t)'
    BY <1>12, <2>1, OtherScans DEF InsertFinding, Effect, TypeOK
  <2>3. row[s] \in Row /\ Consistent(s) BY DEF TypeOK, ScanInv
  <2>4. StatusInv(s)'
    BY <1>12, <2>1, <2>3 DEF InsertFinding, At, Effect, Row, Consistent, StatusInv, Terminal
  <2>5. ReportInv(s)'
    BY <1>12, <2>1, <2>3 DEF InsertFinding, At, Effect, Row, Consistent, StatusInv, ReportInv,
       Terminal
  <2>6. SourceInv(s)'
    BY <1>12, <2>1, <2>3 DEF InsertFinding, At, Effect, Row, Consistent, StatusInv, SourceInv,
       Terminal
  <2>7. CodeInv(s)'
    BY <1>12, <2>1, <2>3
       DEF InsertFinding, At, Effect, Row, TypeOK, Consistent, StatusInv, CodeInv, Terminal,
           Codes, NoCode
  <2> QED BY <2>2, <2>4, <2>5, <2>6, <2>7 DEF ScanInv, Consistent
<1>13. ASSUME NEW s \in Scans, FindingsStored(s) PROVE ScanInv'
  BY <1>13
     DEF FindingsStored, At, Goto, TypeOK, Row, Terminal, Codes, NoCode,
         ScanInv, Consistent, StatusInv, ReportInv, SourceInv, CodeInv
<1>14. ASSUME NEW s \in Scans, UpsertReport(s) PROVE ScanInv'
  <2>1. Effect(s, [row[s] EXCEPT !.report = TRUE], "set_risk", "fail_clear")
    BY <1>14, Statements
  <2>2. \A t \in Scans : t # s => Consistent(t)'
    BY <1>14, <2>1, OtherScans DEF UpsertReport, Effect, TypeOK
  <2>3. row[s] \in Row /\ Consistent(s) BY DEF TypeOK, ScanInv
  <2>4. StatusInv(s)'
    BY <1>14, <2>1, <2>3 DEF UpsertReport, At, Effect, Row, Consistent, StatusInv, Terminal
  <2>5. ReportInv(s)'
    BY <1>14, <2>1, <2>3 DEF UpsertReport, At, Effect, Row, Consistent, StatusInv, ReportInv,
       Terminal
  <2>6. SourceInv(s)'
    BY <1>14, <2>1, <2>3 DEF UpsertReport, At, Effect, Row, Consistent, StatusInv, SourceInv,
       Terminal
  <2>7. CodeInv(s)'
    BY <1>14, <2>1, <2>3
       DEF UpsertReport, At, Effect, Row, TypeOK, Consistent, StatusInv, CodeInv, Terminal, Codes,
           NoCode
  <2> QED BY <2>2, <2>4, <2>5, <2>6, <2>7 DEF ScanInv, Consistent
<1>15. ASSUME NEW s \in Scans, SetRisk(s) PROVE ScanInv'
  <2>1. Effect(s, [row[s] EXCEPT !.risk = TRUE], "clear_source", "clear_source")
    BY <1>15, Statements
  <2>2. \A t \in Scans : t # s => Consistent(t)'
    BY <1>15, <2>1, OtherScans DEF SetRisk, Effect, TypeOK
  <2>3. row[s] \in Row /\ Consistent(s) BY DEF TypeOK, ScanInv
  <2>4. StatusInv(s)'
    BY <1>15, <2>1, <2>3 DEF SetRisk, At, Effect, Row, Consistent, StatusInv, Terminal
  <2>5. ReportInv(s)'
    BY <1>15, <2>1, <2>3 DEF SetRisk, At, Effect, Row, Consistent, StatusInv, ReportInv, Terminal
  <2>6. SourceInv(s)'
    BY <1>15, <2>1, <2>3 DEF SetRisk, At, Effect, Row, Consistent, StatusInv, SourceInv, Terminal
  <2>7. CodeInv(s)'
    BY <1>15, <2>1, <2>3
       DEF SetRisk, At, Effect, Row, TypeOK, Consistent, StatusInv, CodeInv, Terminal, Codes, NoCode
  <2> QED BY <2>2, <2>4, <2>5, <2>6, <2>7 DEF ScanInv, Consistent
<1>16. ASSUME NEW s \in Scans, ClearSource(s) PROVE ScanInv'
  <2>1. Effect(s, [row[s] EXCEPT !.source = FALSE], "finish", "finish")
    BY <1>16, Statements
  <2>2. \A t \in Scans : t # s => Consistent(t)'
    BY <1>16, <2>1, OtherScans DEF ClearSource, Effect, TypeOK
  <2>3. row[s] \in Row /\ Consistent(s) BY DEF TypeOK, ScanInv
  <2>4. StatusInv(s)'
    BY <1>16, <2>1, <2>3 DEF ClearSource, At, Effect, Row, Consistent, StatusInv, Terminal
  <2>5. ReportInv(s)'
    BY <1>16, <2>1, <2>3 DEF ClearSource, At, Effect, Row, Consistent, StatusInv, ReportInv,
       Terminal
  <2>6. SourceInv(s)'
    BY <1>16, <2>1, <2>3 DEF ClearSource, At, Effect, Row, Consistent, StatusInv, SourceInv,
       Terminal
  <2>7. CodeInv(s)'
    BY <1>16, <2>1, <2>3
       DEF ClearSource, At, Effect, Row, TypeOK, Consistent, StatusInv, CodeInv, Terminal, Codes,
           NoCode
  <2> QED BY <2>2, <2>4, <2>5, <2>6, <2>7 DEF ScanInv, Consistent
<1>17. ASSUME NEW s \in Scans, Finish(s) PROVE ScanInv'
  <2>1. Effect(s, [row[s] EXCEPT !.status = "report_ready", !.code = NoCode], "ended", "ended")
    BY <1>17, Statements
  <2>2. \A t \in Scans : t # s => Consistent(t)'
    BY <1>17, <2>1, OtherScans DEF Finish, Effect, TypeOK
  <2>3. row[s] \in Row /\ Consistent(s) BY DEF TypeOK, ScanInv
  <2>4. StatusInv(s)'
    BY <1>17, <2>1, <2>3 DEF Finish, At, Effect, Row, Consistent, StatusInv, Terminal
  <2>5. ReportInv(s)'
    BY <1>17, <2>1, <2>3 DEF Finish, At, Effect, Row, Consistent, StatusInv, ReportInv, Terminal
  <2>6. SourceInv(s)'
    BY <1>17, <2>1, <2>3 DEF Finish, At, Effect, Row, Consistent, StatusInv, SourceInv, Terminal
  <2>7. CodeInv(s)'
    BY <1>17, <2>1, <2>3
       DEF Finish, At, Effect, Row, TypeOK, Consistent, StatusInv, CodeInv, Terminal, Codes, NoCode
  <2> QED BY <2>2, <2>4, <2>5, <2>6, <2>7 DEF ScanInv, Consistent
<1>18. ASSUME NEW s \in Scans, FailClear(s) PROVE ScanInv'
  <2>1. Effect(s, [row[s] EXCEPT !.source = FALSE], "fail_finish", "fail_finish")
    BY <1>18, Statements
  <2>2. \A t \in Scans : t # s => Consistent(t)'
    BY <1>18, <2>1, OtherScans DEF FailClear, Effect, TypeOK
  <2>3. row[s] \in Row /\ Consistent(s) BY DEF TypeOK, ScanInv
  <2>4. StatusInv(s)'
    BY <1>18, <2>1, <2>3 DEF FailClear, At, Effect, Row, Consistent, StatusInv, Terminal
  <2>5. ReportInv(s)'
    BY <1>18, <2>1, <2>3 DEF FailClear, At, Effect, Row, Consistent, StatusInv, ReportInv, Terminal
  <2>6. SourceInv(s)'
    BY <1>18, <2>1, <2>3 DEF FailClear, At, Effect, Row, Consistent, StatusInv, SourceInv, Terminal
  <2>7. CodeInv(s)'
    BY <1>18, <2>1, <2>3
       DEF FailClear, At, Effect, Row, TypeOK, Consistent, StatusInv, CodeInv, Terminal, Codes,
           NoCode
  <2> QED BY <2>2, <2>4, <2>5, <2>6, <2>7 DEF ScanInv, Consistent
<1>19. ASSUME NEW s \in Scans, FailFinish(s) PROVE ScanInv'
  <2>1. Effect(s, [row[s] EXCEPT !.status = "failed", !.code = reason[s]], "ended", "ended")
    BY <1>19, Statements
  <2>2. \A t \in Scans : t # s => Consistent(t)'
    BY <1>19, <2>1, OtherScans DEF FailFinish, Effect, TypeOK
  <2>3. row[s] \in Row /\ Consistent(s) BY DEF TypeOK, ScanInv
  <2>4. StatusInv(s)'
    BY <1>19, <2>1, <2>3 DEF FailFinish, At, Effect, Row, Consistent, StatusInv, Terminal
  <2>5. ReportInv(s)'
    BY <1>19, <2>1, <2>3 DEF FailFinish, At, Effect, Row, Consistent, StatusInv, ReportInv, Terminal
  <2>6. SourceInv(s)'
    BY <1>19, <2>1, <2>3 DEF FailFinish, At, Effect, Row, Consistent, StatusInv, SourceInv, Terminal
  <2>7. CodeInv(s)'
    BY <1>19, <2>1, <2>3
       DEF FailFinish, At, Effect, Row, TypeOK, Consistent, StatusInv, CodeInv, Terminal, Codes,
           NoCode
  <2> QED BY <2>2, <2>4, <2>5, <2>6, <2>7 DEF ScanInv, Consistent
<1>20. CASE Crash
  BY <1>20
     DEF Crash, Live, At, Fault, TypeOK, Labels, Running, BeforePermit, WithPermit, Terminal,
         ScanInv, Consistent, StatusInv, ReportInv, SourceInv, CodeInv
<1>21. CASE UNCHANGED vars
  BY <1>21 DEF vars, ScanInv, Consistent, StatusInv, ReportInv, SourceInv, CodeInv
<1> QED
  BY <1>1, <1>2, <1>3, <1>4, <1>5, <1>6, <1>7, <1>8, <1>9, <1>10, <1>11, <1>12, <1>13, <1>14,
     <1>15, <1>16, <1>17, <1>18, <1>19, <1>20, <1>21 DEF Next, Task

-----------------------------------------------------------------------------
(* Permits. *)

\* A task that goes on past the semaphore keeps its permit until it returns.
LEMMA GotoKeepsPermits ==
    ASSUME TypeOK, PermitInv, NEW s \in Scans, NEW next, Goto(s, next),
           next \in WithPermit => label[s] \in WithPermit
    PROVE  PermitInv'
<1> USE PipelineAssumption DEF TypeOK, PermitInv
<1>1. "ended" \notin WithPermit BY DEF WithPermit
<1>2. \A t \in Scans : label'[t] \in WithPermit => t \in holding'
  BY <1>1 DEF Goto
<1>3. /\ IsFiniteSet(holding \ {s})
      /\ Cardinality(holding \ {s}) <= MaxConcurrent
  <2>1. Cardinality(holding) \in Nat BY FS_CardinalityType
  <2>2. /\ IsFiniteSet(holding \ {s})
        /\ Cardinality(holding \ {s}) =
              IF s \in holding THEN Cardinality(holding) - 1 ELSE Cardinality(holding)
    BY FS_RemoveElement
  <2> QED BY <2>1, <2>2
<1>4. IsFiniteSet(holding') /\ Cardinality(holding') <= MaxConcurrent
  BY <1>3 DEF Goto
<1> QED BY <1>2, <1>4

\* The same for a statement, which is a Goto whatever its outcome.
LEMMA WriteKeepsPermits ==
    ASSUME TypeOK, PermitInv, NEW s \in Scans, NEW new, NEW next, NEW onError,
           Write(s, new, next, onError),
           {next, onError} \subseteq WithPermit \cup {"acquire", "ended"},
           label[s] \in WithPermit \/ {next, onError} = {"acquire", "ended"}
    PROVE  PermitInv'
<1>1. "ended" \notin WithPermit /\ "acquire" \notin WithPermit BY DEF WithPermit
<1>2. Goto(s, next) \/ Goto(s, onError) BY DEF Write
<1> QED BY <1>1, <1>2, GotoKeepsPermits

\* Permits are taken only while there are some left, and every other step either
\* keeps the permit of its task or drops it as the task ends.
LEMMA PermitStep ==
    ASSUME TypeOK, PermitInv, [Next]_vars
    PROVE  PermitInv'
<1>1. ASSUME NEW s \in Scans, Create(s) PROVE PermitInv'
  BY <1>1 DEF Create, PermitInv
<1>2. ASSUME NEW s \in Scans, MarkPaid(s) PROVE PermitInv'
  BY <1>2 DEF MarkPaid, PermitInv, TypeOK, WithPermit
<1>3. ASSUME NEW s \in Scans, Spawn(s) PROVE PermitInv'
  BY <1>3 DEF Spawn, PermitInv, TypeOK, WithPermit
<1>4. ASSUME NEW s \in Scans, Acquire(s) PROVE PermitInv'
  <2>1. /\ IsFiniteSet(holding \cup {s})
        /\ Cardinality(holding \cup {s}) <= MaxConcurrent
    <3>1. IsFiniteSet(holding) BY DEF PermitInv
    <3>2. Cardinality(holding) \in Nat BY <3>1, FS_CardinalityType
    <3>3. Cardinality(holding) < MaxConcurrent BY <1>4 DEF Acquire
    <3>4. /\ IsFiniteSet(holding \cup {s})
          /\ Cardinality(holding \cup {s}) =
                IF s \in holding THEN Cardinality(holding) ELSE Cardinality(holding) + 1
      BY <3>1, FS_AddElement
    <3> QED BY <3>2, <3>3, <3>4, PipelineAssumption
  <2> QED BY <1>4, <2>1 DEF Acquire, PermitInv, TypeOK
<1>5. ASSUME NEW s \in Scans, SetQueued(s) PROVE PermitInv'
  BY <1>5, WriteKeepsPermits DEF SetQueued
<1>6. ASSUME NEW s \in Scans, LoadSource(s) PROVE PermitInv'
  BY <1>6, GotoKeepsPermits DEF LoadSource, FailWith, At, WithPermit
<1>7. ASSUME NEW s \in Scans, BeginRunning(s) PROVE PermitInv'
  BY <1>7, WriteKeepsPermits DEF BeginRunning, At, WithPermit
<1>8. ASSUME NEW s \in Scans, SetSlither(s) PROVE PermitInv'
  BY <1>8, WriteKeepsPermits DEF SetSlither, At, WithPermit
<1>9. ASSUME NEW s \in Scans, Slither(s) PROVE PermitInv'
  BY <1>9, GotoKeepsPermits DEF Slither, FailWith, At, WithPermit
<1>10. ASSUME NEW s \in Scans, SetLlm(s) PROVE PermitInv'
  BY <1>10, WriteKeepsPermits DEF SetLlm, At, WithPermit
<1>11. ASSUME NEW s \in Scans, SetScoring(s) PROVE PermitInv'
  BY <1>11, WriteKeepsPermits DEF SetScoring, At, WithPermit
<1>12. ASSUME NEW s \in Scans, InsertFinding(s) PROVE PermitInv'
  BY <1>12, WriteKeepsPermits DEF InsertFinding, At, WithPermit
<1>13. ASSUME NEW s \in Scans, FindingsStored(s) PROVE PermitInv'
  BY <1>13, GotoKeepsPermits DEF FindingsStored, At, WithPermit
<1>14. ASSUME NEW s \in Scans, UpsertReport(s) PROVE PermitInv'
  BY <1>14, WriteKeepsPermits DEF UpsertReport, At, WithPermit
<1>15. ASSUME NEW s \in Scans, SetRisk(s) PROVE PermitInv'
  BY <1>15, WriteKeepsPermits DEF SetRisk, At, WithPermit
<1>16. ASSUME NEW s \in Scans, ClearSource(s) PROVE PermitInv'
  BY <1>16, WriteKeepsPermits DEF ClearSource, At, WithPermit
<1>17. ASSUME NEW s \in Scans, Finish(s) PROVE PermitInv'
  BY <1>17, WriteKeepsPermits DEF Finish, At, WithPermit
<1>18. ASSUME NEW s \in Scans, FailClear(s) PROVE PermitInv'
  BY <1>18, WriteKeepsPermits DEF FailClear, At, WithPermit
<1>19. ASSUME NEW s \in Scans, FailFinish(s) PROVE PermitInv'
  BY <1>19, WriteKeepsPermits DEF FailFinish, At, WithPermit
<1>20. CASE Crash
  <2>1. \A s \in Scans : label'[s] \notin WithPermit
    BY <1>20 DEF Crash, At, Running, WithPermit
  <2> QED BY <1>20, <2>1, FS_EmptySet, PipelineAssumption DEF Crash, PermitInv
<1>21. CASE UNCHANGED vars
  BY <1>21 DEF vars, PermitInv
<1> QED
  BY <1>1, <1>2, <1>3, <1>4, <1>5, <1>6, <1>7, <1>8, <1>9, <1>10, <1>11, <1>12, <1>13,
     <1>14, <1>15, <1>16, <1>17, <1>18, <1>19, <1>20, <1>21 DEF Next, Task

-----------------------------------------------------------------------------
(* The invariant and what follows from it. *)

LEMMA InitIInv == Init => IInv
<1> SUFFICES ASSUME Init PROVE IInv OBVIOUS
<1> USE PipelineAssumption DEF Init
<1>1. TypeOK BY DEF TypeOK, Row, Statuses, Labels
<1>2. ScanInv
  BY DEF ScanInv, Consistent, StatusInv, ReportInv, SourceInv, CodeInv, Terminal
<1>3. PermitInv BY FS_EmptySet DEF PermitInv, WithPermit
<1> QED BY <1>1, <1>2, <1>3 DEF IInv

LEMMA NextIInv == IInv /\ [Next]_vars => IInv'
BY TypeStep, ScanStep, PermitStep DEF IInv

\* The inductive invariant of the pipeline holds in every reachable state.
THEOREM Invariance == Spec => []IInv
<1>1. Init => IInv BY InitIInv
<1>2. IInv /\ [Next]_vars => IInv' BY NextIInv
<1> QED BY <1>1, <1>2, PTL DEF Spec

\* Type correctness: in particular a task never stores more findings than its
\* analysis found (insert_findings).
THEOREM TypeCorrect == Spec => []TypeOK
<1>1. IInv => TypeOK BY DEF IInv
<1> QED BY <1>1, Invariance, PTL

\* A scan that says report_ready has its report and every finding, whichever
\* statements failed on the way (run_pipeline, finish).
THEOREM ReadyIsCompleteHolds == Spec => []ReadyIsComplete
<1>1. IInv => ReadyIsComplete
  BY DEF IInv, ScanInv, Consistent, ReportInv, ReadyIsComplete
<1> QED BY <1>1, Invariance, PTL

\* The source is stored until the task reads it and gone when an untroubled scan
\* ends (load_pending_source, clear_pending_source).
THEOREM SourceLifetimeHolds == Spec => []SourceLifetime
<1>1. IInv => SourceLifetime
  BY DEF IInv, ScanInv, Consistent, SourceInv, SourceLifetime, BeforePermit
<1> QED BY <1>1, Invariance, PTL

\* Only a failed statement or a crash can leave a finished task's scan without an
\* end status (run_pipeline).
THEOREM NoFaultNoStuckScanHolds == Spec => []NoFaultNoStuckScan
<1>1. IInv => NoFaultNoStuckScan
  BY DEF IInv, ScanInv, Consistent, CodeInv, NoFaultNoStuckScan
<1> QED BY <1>1, Invariance, PTL

\* No more tasks are in the sandbox step at once than there are permits (the _permit of
\* run_pipeline); containers that a timeout abandons are not counted, see Sandbox.
THEOREM BoundedSandboxesHolds == Spec => []BoundedSandboxes
<1>1. IInv => BoundedSandboxes
  <2> SUFFICES ASSUME IInv PROVE BoundedSandboxes OBVIOUS
  <2> DEFINE Sandboxes == {s \in Scans : At(s, "slither")}
  <2>1. Sandboxes \subseteq holding BY DEF IInv, PermitInv, At, WithPermit
  <2>2. /\ Cardinality(Sandboxes) <= Cardinality(holding)
        /\ IsFiniteSet(Sandboxes) /\ IsFiniteSet(holding)
    BY <2>1, FS_Subset DEF IInv, PermitInv
  <2>3. Cardinality(Sandboxes) \in Nat /\ Cardinality(holding) \in Nat
    BY <2>2, FS_CardinalityType
  <2> QED
    BY <2>2, <2>3, PipelineAssumption DEF IInv, PermitInv, BoundedSandboxes
<1> QED BY <1>1, Invariance, PTL

\* A step of the task of s leaves every status as it is, except that it may write x.
WritesAtMost(s, x) ==
    \A t \in Scans : row'[t].status = row[t].status \/ (t = s /\ row'[t].status = x)

\* What each action writes to the status of a scan.
LEMMA StatusWrites ==
    ASSUME TypeOK, NEW s \in Scans
    PROVE  /\ Create(s) => WritesAtMost(s, "awaiting_payment")
           /\ MarkPaid(s) => WritesAtMost(s, "queued")
           /\ SetQueued(s) => WritesAtMost(s, "queued")
           /\ BeginRunning(s) => WritesAtMost(s, "running")
           /\ SetSlither(s) => WritesAtMost(s, "analyzing_slither")
           /\ SetLlm(s) => WritesAtMost(s, "analyzing_llm")
           /\ SetScoring(s) => WritesAtMost(s, "scoring")
           /\ Finish(s) => WritesAtMost(s, "report_ready")
           /\ FailFinish(s) => WritesAtMost(s, "failed")
           /\ \/ InsertFinding(s) \/ UpsertReport(s) \/ SetRisk(s) \/ ClearSource(s) \/ FailClear(s)
              => \A t \in Scans : row'[t].status = row[t].status
<1> USE DEF TypeOK, Row, WritesAtMost
<1>1. Create(s) => WritesAtMost(s, "awaiting_payment") BY DEF Create
<1>2. MarkPaid(s) => WritesAtMost(s, "queued") BY DEF MarkPaid
<1>3. ASSUME SetQueued(s) PROVE WritesAtMost(s, "queued")
  <2>1. Effect(s, [row[s] EXCEPT !.status = "queued"], "acquire", "ended")
    BY <1>3, Statements
  <2> QED BY <2>1 DEF Effect
<1>4. ASSUME BeginRunning(s) PROVE WritesAtMost(s, "running")
  <2>1. Effect(s, [row[s] EXCEPT !.status = "running"], "set_slither", "ended")
    BY <1>4, Statements
  <2> QED BY <2>1 DEF Effect
<1>5. ASSUME SetSlither(s) PROVE WritesAtMost(s, "analyzing_slither")
  <2>1. Effect(s, [row[s] EXCEPT !.status = "analyzing_slither"], "slither", "ended")
    BY <1>5, Statements
  <2> QED BY <2>1 DEF Effect
<1>6. ASSUME SetLlm(s) PROVE WritesAtMost(s, "analyzing_llm")
  <2>1. Effect(s, [row[s] EXCEPT !.status = "analyzing_llm"], "set_scoring", "set_scoring")
    BY <1>6, Statements
  <2> QED BY <2>1 DEF Effect
<1>7. ASSUME SetScoring(s) PROVE WritesAtMost(s, "scoring")
  <2>1. Effect(s, [row[s] EXCEPT !.status = "scoring"], "insert_findings", "insert_findings")
    BY <1>7, Statements
  <2> QED BY <2>1 DEF Effect
<1>8. ASSUME Finish(s) PROVE WritesAtMost(s, "report_ready")
  <2>1. Effect(s, [row[s] EXCEPT !.status = "report_ready", !.code = NoCode], "ended", "ended")
    BY <1>8, Statements
  <2> QED BY <2>1 DEF Effect
<1>9. ASSUME FailFinish(s) PROVE WritesAtMost(s, "failed")
  <2>1. Effect(s, [row[s] EXCEPT !.status = "failed", !.code = reason[s]], "ended", "ended")
    BY <1>9, Statements
  <2> QED BY <2>1 DEF Effect
<1>10. ASSUME InsertFinding(s) PROVE \A t \in Scans : row'[t].status = row[t].status
  <2>1. Effect(s, [row[s] EXCEPT !.findings = @ + 1], "insert_findings", "fail_clear")
    BY <1>10, Statements
  <2> QED BY <2>1 DEF Effect
<1>11. ASSUME UpsertReport(s) PROVE \A t \in Scans : row'[t].status = row[t].status
  <2>1. Effect(s, [row[s] EXCEPT !.report = TRUE], "set_risk", "fail_clear")
    BY <1>11, Statements
  <2> QED BY <2>1 DEF Effect
<1>12. ASSUME SetRisk(s) PROVE \A t \in Scans : row'[t].status = row[t].status
  <2>1. Effect(s, [row[s] EXCEPT !.risk = TRUE], "clear_source", "clear_source")
    BY <1>12, Statements
  <2> QED BY <2>1 DEF Effect
<1>13. ASSUME ClearSource(s) PROVE \A t \in Scans : row'[t].status = row[t].status
  <2>1. Effect(s, [row[s] EXCEPT !.source = FALSE], "finish", "finish")
    BY <1>13, Statements
  <2> QED BY <2>1 DEF Effect
<1>14. ASSUME FailClear(s) PROVE \A t \in Scans : row'[t].status = row[t].status
  <2>1. Effect(s, [row[s] EXCEPT !.source = FALSE], "fail_finish", "fail_finish")
    BY <1>14, Statements
  <2> QED BY <2>1 DEF Effect
<1> QED BY <1>1, <1>2, <1>3, <1>4, <1>5, <1>6, <1>7, <1>8, <1>9, <1>10, <1>11, <1>12, <1>13, <1>14

\* No status goes back and no end status changes: by the invariant a task writes a
\* status only from the statuses before it (set_status, finish).
THEOREM StatusNeverGoesBackHolds == Spec => StatusNeverGoesBack
<1> DEFINE Forward(s) ==
      /\ Progress(row'[s].status) >= Progress(row[s].status)
      /\ row[s].status \in Terminal => row'[s].status = row[s].status
<1>1. \A x \in Statuses : Progress(x) \in 0..7
  BY DEF Progress
<1>2. ASSUME TypeOK, NEW s \in Scans, row'[s].status = row[s].status PROVE Forward(s)
  <2>1. row[s].status \in Statuses BY <1>2 DEF TypeOK, Row
  <2> QED BY <1>1, <1>2, <2>1
<1>3. ASSUME TypeOK, ScanInv, Next, NEW s \in Scans PROVE Forward(s)
  <2>1. ASSUME NEW t \in Scans, NEW x \in Statuses, WritesAtMost(t, x),
               \/ row[t].status = x
               \/ row[t].status \notin Terminal /\ Progress(x) >= Progress(row[t].status)
        PROVE  Forward(s)
    BY <1>2, <1>3, <2>1 DEF WritesAtMost
  <2>2. ASSUME NEW t \in Scans PROVE StatusInv(t) BY <1>3, <2>2 DEF ScanInv, Consistent
  <2>3. ASSUME NEW t \in Scans, Create(t) PROVE Forward(s)
    <3>1. row[t].status = "none"
      BY <2>3 DEF Create
    <3>2. "awaiting_payment" \in Statuses /\ WritesAtMost(t, "awaiting_payment")
      BY <1>3, <2>3, StatusWrites DEF Statuses, Terminal
    <3> QED BY <2>1, <3>1, <3>2 DEF Progress, Terminal
  <2>4. ASSUME NEW t \in Scans, MarkPaid(t) PROVE Forward(s)
    <3>1. row[t].status = "awaiting_payment"
      BY <2>4 DEF MarkPaid
    <3>2. "queued" \in Statuses /\ WritesAtMost(t, "queued")
      BY <1>3, <2>4, StatusWrites DEF Statuses, Terminal
    <3> QED BY <2>1, <3>1, <3>2 DEF Progress, Terminal
  <2>5. ASSUME NEW t \in Scans, SetQueued(t) PROVE Forward(s)
    <3>1. row[t].status = "queued"
      BY <2>2, <2>5 DEF SetQueued, At, StatusInv
    <3>2. "queued" \in Statuses /\ WritesAtMost(t, "queued")
      BY <1>3, <2>5, StatusWrites DEF Statuses, Terminal
    <3> QED BY <2>1, <3>1, <3>2 DEF Progress, Terminal
  <2>6. ASSUME NEW t \in Scans, BeginRunning(t) PROVE Forward(s)
    <3>1. row[t].status = "queued"
      BY <2>2, <2>6 DEF BeginRunning, At, StatusInv
    <3>2. "running" \in Statuses /\ WritesAtMost(t, "running")
      BY <1>3, <2>6, StatusWrites DEF Statuses, Terminal
    <3> QED BY <2>1, <3>1, <3>2 DEF Progress, Terminal
  <2>7. ASSUME NEW t \in Scans, SetSlither(t) PROVE Forward(s)
    <3>1. row[t].status = "running"
      BY <2>2, <2>7 DEF SetSlither, At, StatusInv
    <3>2. "analyzing_slither" \in Statuses /\ WritesAtMost(t, "analyzing_slither")
      BY <1>3, <2>7, StatusWrites DEF Statuses, Terminal
    <3> QED BY <2>1, <3>1, <3>2 DEF Progress, Terminal
  <2>8. ASSUME NEW t \in Scans, SetLlm(t) PROVE Forward(s)
    <3>1. row[t].status = "analyzing_slither"
      BY <2>2, <2>8 DEF SetLlm, At, StatusInv
    <3>2. "analyzing_llm" \in Statuses /\ WritesAtMost(t, "analyzing_llm")
      BY <1>3, <2>8, StatusWrites DEF Statuses, Terminal
    <3> QED BY <2>1, <3>1, <3>2 DEF Progress, Terminal
  <2>9. ASSUME NEW t \in Scans, SetScoring(t) PROVE Forward(s)
    <3>1. row[t].status \in {"analyzing_slither", "analyzing_llm"}
      BY <2>2, <2>9 DEF SetScoring, At, StatusInv
    <3>2. "scoring" \in Statuses /\ WritesAtMost(t, "scoring")
      BY <1>3, <2>9, StatusWrites DEF Statuses, Terminal
    <3> QED BY <2>1, <3>1, <3>2 DEF Progress, Terminal
  <2>10. ASSUME NEW t \in Scans, Finish(t) PROVE Forward(s)
    <3>1. row[t].status \in {"analyzing_slither", "analyzing_llm", "scoring"}
      BY <2>2, <2>10 DEF Finish, At, StatusInv
    <3>2. "report_ready" \in Statuses /\ WritesAtMost(t, "report_ready")
      BY <1>3, <2>10, StatusWrites DEF Statuses, Terminal
    <3> QED BY <2>1, <3>1, <3>2 DEF Progress, Terminal
  <2>11. ASSUME NEW t \in Scans, FailFinish(t) PROVE Forward(s)
    <3>1. row[t].status \notin Terminal
      BY <2>2, <2>11 DEF FailFinish, At, StatusInv
    <3>2. row[t].status \in Statuses BY <1>3 DEF TypeOK, Row
    <3>3. Progress("failed") = 7 BY DEF Progress
    <3>4. "failed" \in Statuses /\ WritesAtMost(t, "failed")
      BY <1>3, <2>11, StatusWrites DEF Statuses, Terminal
    <3> QED BY <1>1, <2>1, <3>1, <3>2, <3>3, <3>4
  <2>12. CASE UNCHANGED row
    BY <1>2, <1>3, <2>12
  <2>13. ASSUME NEW t \in Scans,
               InsertFinding(t) \/ UpsertReport(t) \/ SetRisk(t) \/ ClearSource(t) \/ FailClear(t)
        PROVE  Forward(s)
    BY <1>2, <1>3, <2>13, StatusWrites
  <2> QED
    BY <1>3, <2>3, <2>4, <2>5, <2>6, <2>7, <2>8, <2>9, <2>10, <2>11, <2>12, <2>13
       DEF Next, Task, Spawn, Acquire, LoadSource, Slither, FindingsStored, Crash
<1>4. IInv /\ [Next]_vars => [\A s \in Scans : Forward(s)]_vars
  BY <1>3 DEF IInv
<1> QED BY <1>4, Invariance, PTL DEF Spec, StatusNeverGoesBack

-----------------------------------------------------------------------------
(* Refinement. *)

\* The report of a scan appears in one statement only.
LEMMA ReportWrites ==
    ASSUME TypeOK, NEW s \in Scans,
           SetQueued(s) \/ BeginRunning(s) \/ SetSlither(s) \/ SetLlm(s) \/ SetScoring(s)
           \/ InsertFinding(s) \/ SetRisk(s) \/ ClearSource(s) \/ Finish(s) \/ FailClear(s)
           \/ FailFinish(s)
    PROVE  \A t \in Scans : row'[t].report = row[t].report
<1> USE DEF TypeOK, Row
<1>1. CASE SetQueued(s)
  <2> DEFINE new == [row[s] EXCEPT !.status = "queued"]
  <2>1. Effect(s, new, "acquire", "ended") BY <1>1, Statements
  <2>2. new.report = row[s].report OBVIOUS
  <2> HIDE DEF new
  <2> QED BY <2>1, <2>2 DEF Effect
<1>2. CASE BeginRunning(s)
  <2> DEFINE new == [row[s] EXCEPT !.status = "running"]
  <2>1. Effect(s, new, "set_slither", "ended") BY <1>2, Statements
  <2>2. new.report = row[s].report OBVIOUS
  <2> HIDE DEF new
  <2> QED BY <2>1, <2>2 DEF Effect
<1>3. CASE SetSlither(s)
  <2> DEFINE new == [row[s] EXCEPT !.status = "analyzing_slither"]
  <2>1. Effect(s, new, "slither", "ended") BY <1>3, Statements
  <2>2. new.report = row[s].report OBVIOUS
  <2> HIDE DEF new
  <2> QED BY <2>1, <2>2 DEF Effect
<1>4. CASE SetLlm(s)
  <2> DEFINE new == [row[s] EXCEPT !.status = "analyzing_llm"]
  <2>1. Effect(s, new, "set_scoring", "set_scoring") BY <1>4, Statements
  <2>2. new.report = row[s].report OBVIOUS
  <2> HIDE DEF new
  <2> QED BY <2>1, <2>2 DEF Effect
<1>5. CASE SetScoring(s)
  <2> DEFINE new == [row[s] EXCEPT !.status = "scoring"]
  <2>1. Effect(s, new, "insert_findings", "insert_findings") BY <1>5, Statements
  <2>2. new.report = row[s].report OBVIOUS
  <2> HIDE DEF new
  <2> QED BY <2>1, <2>2 DEF Effect
<1>6. CASE InsertFinding(s)
  <2> DEFINE new == [row[s] EXCEPT !.findings = @ + 1]
  <2>1. Effect(s, new, "insert_findings", "fail_clear") BY <1>6, Statements
  <2>2. new.report = row[s].report OBVIOUS
  <2> HIDE DEF new
  <2> QED BY <2>1, <2>2 DEF Effect
<1>7. CASE SetRisk(s)
  <2> DEFINE new == [row[s] EXCEPT !.risk = TRUE]
  <2>1. Effect(s, new, "clear_source", "clear_source") BY <1>7, Statements
  <2>2. new.report = row[s].report OBVIOUS
  <2> HIDE DEF new
  <2> QED BY <2>1, <2>2 DEF Effect
<1>8. CASE ClearSource(s)
  <2> DEFINE new == [row[s] EXCEPT !.source = FALSE]
  <2>1. Effect(s, new, "finish", "finish") BY <1>8, Statements
  <2>2. new.report = row[s].report OBVIOUS
  <2> HIDE DEF new
  <2> QED BY <2>1, <2>2 DEF Effect
<1>9. CASE Finish(s)
  <2> DEFINE new == [row[s] EXCEPT !.status = "report_ready", !.code = NoCode]
  <2>1. Effect(s, new, "ended", "ended") BY <1>9, Statements
  <2>2. new.report = row[s].report OBVIOUS
  <2> HIDE DEF new
  <2> QED BY <2>1, <2>2 DEF Effect
<1>10. CASE FailClear(s)
  <2> DEFINE new == [row[s] EXCEPT !.source = FALSE]
  <2>1. Effect(s, new, "fail_finish", "fail_finish") BY <1>10, Statements
  <2>2. new.report = row[s].report OBVIOUS
  <2> HIDE DEF new
  <2> QED BY <2>1, <2>2 DEF Effect
<1>11. CASE FailFinish(s)
  <2> DEFINE new == [row[s] EXCEPT !.status = "failed", !.code = reason[s]]
  <2>1. Effect(s, new, "ended", "ended") BY <1>11, Statements
  <2>2. new.report = row[s].report OBVIOUS
  <2> HIDE DEF new
  <2> QED BY <2>1, <2>2 DEF Effect
<1> QED BY <1>1, <1>2, <1>3, <1>4, <1>5, <1>6, <1>7, <1>8, <1>9, <1>10, <1>11

\* A step that keeps every phase and every report is a stutter of the lifecycle, and
\* one that moves a single scan is the lifecycle's Move.
LEMMA Stutter ==
    ASSUME \A t \in Scans : Phase(t)' = Phase(t) /\ row'[t].report = row[t].report
    PROVE  UNCHANGED Lifecycle!lifecycleVars
BY DEF Lifecycle!lifecycleVars

LEMMA Moves ==
    ASSUME NEW s \in Scans, NEW next, Phase(s)' = next,
           \A t \in Scans : t # s => Phase(t)' = Phase(t),
           \A t \in Scans : row'[t].report = row[t].report
    PROVE  /\ Lifecycle!Move(s, Phase(s), next)
           /\ UNCHANGED <<Scans, {t \in Scans : row[t].report}>>
BY DEF Lifecycle!Move

\* While its task runs a scan is started, whatever statement the task executes.
LEMMA StartedStays ==
    ASSUME TypeOK, ScanInv, NEW s \in Scans, label[s] \in Running,
           label'[s] \in Running \cup {"ended"},
           row'[s].status \in {row[s].status, "queued", "running", "analyzing_slither",
                               "analyzing_llm", "scoring"},
           \A t \in Scans : t # s => row'[t] = row[t] /\ label'[t] = label[t]
    PROVE  \A t \in Scans : Phase(t)' = Phase(t)
<1>1. Phase(s) = "started" /\ Phase(s)' = "started"
  BY DEF ScanInv, Consistent, StatusInv, Running, BeforePermit, WithPermit, Phase, Terminal
<1>2. ASSUME NEW t \in Scans, t # s PROVE Phase(t)' = Phase(t)
  BY <1>2 DEF Phase
<1> QED BY <1>1, <1>2

\* Every step is one step of the lifecycle or a stutter.
LEMMA LifecycleStep ==
    ASSUME TypeOK, ScanInv, [Next]_vars
    PROVE  [Lifecycle!LifecycleNext]_(Lifecycle!lifecycleVars)
<1> DEFINE Goal == [Lifecycle!LifecycleNext]_(Lifecycle!lifecycleVars)
           SameReports == \A t \in Scans : row'[t].report = row[t].report
<1> USE DEF TypeOK
<1>1. ASSUME NEW s \in Scans, Create(s) PROVE Goal
  <2>1. Phase(s) = "absent" /\ Phase(s)' = "awaiting" BY <1>1 DEF Create, Phase, Row
  <2>2. SameReports /\ \A t \in Scans : t # s => Phase(t)' = Phase(t)
    BY <1>1 DEF Create, Phase, Row
  <2> QED BY <2>1, <2>2, Moves DEF Lifecycle!LifecycleNext, Lifecycle!Open
<1>2. ASSUME NEW s \in Scans, MarkPaid(s) PROVE Goal
  <2>1. Phase(s) = "awaiting" /\ Phase(s)' = "paid" BY <1>2 DEF MarkPaid, Phase, Row
  <2>2. SameReports /\ \A t \in Scans : t # s => Phase(t)' = Phase(t)
    BY <1>2 DEF MarkPaid, Phase, Row
  <2> QED BY <2>1, <2>2, Moves DEF Lifecycle!LifecycleNext, Lifecycle!Claim
<1>3. ASSUME NEW s \in Scans, Spawn(s) PROVE Goal
  <2>1. row[s].status = "queued" BY <1>3 DEF Spawn, At, ScanInv, Consistent, StatusInv
  <2>2. Phase(s) = "paid" /\ Phase(s)' = "started" BY <1>3, <2>1 DEF Spawn, At, Phase
  <2>3. SameReports /\ \A t \in Scans : t # s => Phase(t)' = Phase(t)
    BY <1>3 DEF Spawn, Phase
  <2> QED BY <2>2, <2>3, Moves DEF Lifecycle!LifecycleNext, Lifecycle!Start
<1>4. ASSUME NEW s \in Scans, SetQueued(s) PROVE Goal
  <2> DEFINE new == [row[s] EXCEPT !.status = "queued"]
  <2>1. Effect(s, new, "acquire", "ended") BY <1>4, Statements
  <2>2. new.status \in {row[s].status, "queued", "running", "analyzing_slither",
                        "analyzing_llm", "scoring"}
    BY DEF Row
  <2> HIDE DEF new
  <2>3. label[s] \in Running /\ label'[s] \in Running \cup {"ended"}
    BY <1>4, <2>1 DEF SetQueued, At, Effect, Running, BeforePermit, WithPermit
  <2>4. \A t \in Scans : Phase(t)' = Phase(t)
    BY <2>1, <2>2, <2>3, StartedStays DEF Effect
  <2> QED BY <1>4, <2>4, ReportWrites, Stutter
<1>5. ASSUME NEW s \in Scans, BeginRunning(s) PROVE Goal
  <2> DEFINE new == [row[s] EXCEPT !.status = "running"]
  <2>1. Effect(s, new, "set_slither", "ended") BY <1>5, Statements
  <2>2. new.status \in {row[s].status, "queued", "running", "analyzing_slither",
                        "analyzing_llm", "scoring"}
    BY DEF Row
  <2> HIDE DEF new
  <2>3. label[s] \in Running /\ label'[s] \in Running \cup {"ended"}
    BY <1>5, <2>1 DEF BeginRunning, At, Effect, Running, BeforePermit, WithPermit
  <2>4. \A t \in Scans : Phase(t)' = Phase(t)
    BY <2>1, <2>2, <2>3, StartedStays DEF Effect
  <2> QED BY <1>5, <2>4, ReportWrites, Stutter
<1>6. ASSUME NEW s \in Scans, SetSlither(s) PROVE Goal
  <2> DEFINE new == [row[s] EXCEPT !.status = "analyzing_slither"]
  <2>1. Effect(s, new, "slither", "ended") BY <1>6, Statements
  <2>2. new.status \in {row[s].status, "queued", "running", "analyzing_slither",
                        "analyzing_llm", "scoring"}
    BY DEF Row
  <2> HIDE DEF new
  <2>3. label[s] \in Running /\ label'[s] \in Running \cup {"ended"}
    BY <1>6, <2>1 DEF SetSlither, At, Effect, Running, BeforePermit, WithPermit
  <2>4. \A t \in Scans : Phase(t)' = Phase(t)
    BY <2>1, <2>2, <2>3, StartedStays DEF Effect
  <2> QED BY <1>6, <2>4, ReportWrites, Stutter
<1>7. ASSUME NEW s \in Scans, SetLlm(s) PROVE Goal
  <2> DEFINE new == [row[s] EXCEPT !.status = "analyzing_llm"]
  <2>1. Effect(s, new, "set_scoring", "set_scoring") BY <1>7, Statements
  <2>2. new.status \in {row[s].status, "queued", "running", "analyzing_slither",
                        "analyzing_llm", "scoring"}
    BY DEF Row
  <2> HIDE DEF new
  <2>3. label[s] \in Running /\ label'[s] \in Running \cup {"ended"}
    BY <1>7, <2>1 DEF SetLlm, At, Effect, Running, BeforePermit, WithPermit
  <2>4. \A t \in Scans : Phase(t)' = Phase(t)
    BY <2>1, <2>2, <2>3, StartedStays DEF Effect
  <2> QED BY <1>7, <2>4, ReportWrites, Stutter
<1>8. ASSUME NEW s \in Scans, SetScoring(s) PROVE Goal
  <2> DEFINE new == [row[s] EXCEPT !.status = "scoring"]
  <2>1. Effect(s, new, "insert_findings", "insert_findings") BY <1>8, Statements
  <2>2. new.status \in {row[s].status, "queued", "running", "analyzing_slither",
                        "analyzing_llm", "scoring"}
    BY DEF Row
  <2> HIDE DEF new
  <2>3. label[s] \in Running /\ label'[s] \in Running \cup {"ended"}
    BY <1>8, <2>1 DEF SetScoring, At, Effect, Running, BeforePermit, WithPermit
  <2>4. \A t \in Scans : Phase(t)' = Phase(t)
    BY <2>1, <2>2, <2>3, StartedStays DEF Effect
  <2> QED BY <1>8, <2>4, ReportWrites, Stutter
<1>9. ASSUME NEW s \in Scans, InsertFinding(s) PROVE Goal
  <2> DEFINE new == [row[s] EXCEPT !.findings = @ + 1]
  <2>1. Effect(s, new, "insert_findings", "fail_clear") BY <1>9, Statements
  <2>2. new.status \in {row[s].status, "queued", "running", "analyzing_slither",
                        "analyzing_llm", "scoring"}
    BY DEF Row
  <2> HIDE DEF new
  <2>3. label[s] \in Running /\ label'[s] \in Running \cup {"ended"}
    BY <1>9, <2>1 DEF InsertFinding, At, Effect, Running, BeforePermit, WithPermit
  <2>4. \A t \in Scans : Phase(t)' = Phase(t)
    BY <2>1, <2>2, <2>3, StartedStays DEF Effect
  <2> QED BY <1>9, <2>4, ReportWrites, Stutter
<1>10. ASSUME NEW s \in Scans, SetRisk(s) PROVE Goal
  <2> DEFINE new == [row[s] EXCEPT !.risk = TRUE]
  <2>1. Effect(s, new, "clear_source", "clear_source") BY <1>10, Statements
  <2>2. new.status \in {row[s].status, "queued", "running", "analyzing_slither",
                        "analyzing_llm", "scoring"}
    BY DEF Row
  <2> HIDE DEF new
  <2>3. label[s] \in Running /\ label'[s] \in Running \cup {"ended"}
    BY <1>10, <2>1 DEF SetRisk, At, Effect, Running, BeforePermit, WithPermit
  <2>4. \A t \in Scans : Phase(t)' = Phase(t)
    BY <2>1, <2>2, <2>3, StartedStays DEF Effect
  <2> QED BY <1>10, <2>4, ReportWrites, Stutter
<1>11. ASSUME NEW s \in Scans, ClearSource(s) PROVE Goal
  <2> DEFINE new == [row[s] EXCEPT !.source = FALSE]
  <2>1. Effect(s, new, "finish", "finish") BY <1>11, Statements
  <2>2. new.status \in {row[s].status, "queued", "running", "analyzing_slither",
                        "analyzing_llm", "scoring"}
    BY DEF Row
  <2> HIDE DEF new
  <2>3. label[s] \in Running /\ label'[s] \in Running \cup {"ended"}
    BY <1>11, <2>1 DEF ClearSource, At, Effect, Running, BeforePermit, WithPermit
  <2>4. \A t \in Scans : Phase(t)' = Phase(t)
    BY <2>1, <2>2, <2>3, StartedStays DEF Effect
  <2> QED BY <1>11, <2>4, ReportWrites, Stutter
<1>12. ASSUME NEW s \in Scans, FailClear(s) PROVE Goal
  <2> DEFINE new == [row[s] EXCEPT !.source = FALSE]
  <2>1. Effect(s, new, "fail_finish", "fail_finish") BY <1>12, Statements
  <2>2. new.status \in {row[s].status, "queued", "running", "analyzing_slither",
                        "analyzing_llm", "scoring"}
    BY DEF Row
  <2> HIDE DEF new
  <2>3. label[s] \in Running /\ label'[s] \in Running \cup {"ended"}
    BY <1>12, <2>1 DEF FailClear, At, Effect, Running, BeforePermit, WithPermit
  <2>4. \A t \in Scans : Phase(t)' = Phase(t)
    BY <2>1, <2>2, <2>3, StartedStays DEF Effect
  <2> QED BY <1>12, <2>4, ReportWrites, Stutter
<1>13. ASSUME NEW s \in Scans, Acquire(s) PROVE Goal
  <2>1. label[s] \in Running /\ label'[s] \in Running
    BY <1>13 DEF Acquire, FailWith, Goto, At, Running, BeforePermit, WithPermit
  <2>2. row' = row /\ \A t \in Scans : t # s => label'[t] = label[t]
    BY <1>13 DEF Acquire, FailWith, Goto
  <2> QED BY <2>1, <2>2, StartedStays, Stutter
<1>14. ASSUME NEW s \in Scans, LoadSource(s) PROVE Goal
  <2>1. label[s] \in Running /\ label'[s] \in Running
    BY <1>14 DEF LoadSource, FailWith, Goto, At, Running, BeforePermit, WithPermit
  <2>2. row' = row /\ \A t \in Scans : t # s => label'[t] = label[t]
    BY <1>14 DEF LoadSource, FailWith, Goto
  <2> QED BY <2>1, <2>2, StartedStays, Stutter
<1>15. ASSUME NEW s \in Scans, Slither(s) PROVE Goal
  <2>1. label[s] \in Running /\ label'[s] \in Running
    BY <1>15 DEF Slither, FailWith, Goto, At, Running, BeforePermit, WithPermit
  <2>2. row' = row /\ \A t \in Scans : t # s => label'[t] = label[t]
    BY <1>15 DEF Slither, FailWith, Goto
  <2> QED BY <2>1, <2>2, StartedStays, Stutter
<1>16. ASSUME NEW s \in Scans, FindingsStored(s) PROVE Goal
  <2>1. label[s] \in Running /\ label'[s] \in Running
    BY <1>16 DEF FindingsStored, FailWith, Goto, At, Running, BeforePermit, WithPermit
  <2>2. row' = row /\ \A t \in Scans : t # s => label'[t] = label[t]
    BY <1>16 DEF FindingsStored, FailWith, Goto
  <2> QED BY <2>1, <2>2, StartedStays, Stutter
<1>17. ASSUME NEW s \in Scans, UpsertReport(s) PROVE Goal
  <2> DEFINE new == [row[s] EXCEPT !.report = TRUE]
  <2>1. Effect(s, new, "set_risk", "fail_clear") BY <1>17, Statements
  <2>2. new.status = row[s].status /\ new.report BY DEF Row
  <2> HIDE DEF new
  <2>3. label[s] \in Running /\ label'[s] \in Running
    BY <1>17, <2>1 DEF UpsertReport, At, Effect, Running, BeforePermit, WithPermit
  <2>4. \A t \in Scans : Phase(t)' = Phase(t)
    BY <2>1, <2>2, <2>3, StartedStays DEF Effect
  <2>5. Phase(s) = "started"
    BY <1>17 DEF UpsertReport, At, Phase, ScanInv, Consistent, StatusInv, Terminal
  <2>6. CASE row'[s] = row[s]
    <3>1. SameReports BY <2>1, <2>6 DEF Effect
    <3> QED BY <2>4, <3>1, Stutter
  <2>7. CASE row'[s] = new
    <3>1. {t \in Scans : row'[t].report} = {t \in Scans : row[t].report} \cup {s}
      BY <2>1, <2>2, <2>7 DEF Effect
    <3>2. [t \in Scans |-> Phase(t)]' = [t \in Scans |-> Phase(t)] BY <2>4
    <3>3. Lifecycle!StoreReport(s) BY <2>5, <3>1, <3>2 DEF Lifecycle!StoreReport
    <3> QED BY <3>3 DEF Lifecycle!LifecycleNext
  <2> QED BY <2>1, <2>6, <2>7 DEF Effect
<1>18. ASSUME NEW s \in Scans, Finish(s) PROVE Goal
  <2> DEFINE new == [row[s] EXCEPT !.status = "report_ready", !.code = NoCode]
  <2>1. Effect(s, new, "ended", "ended") BY <1>18, Statements
  <2>2. new.status = "report_ready" BY DEF Row
  <2> HIDE DEF new
  <2>3. SameReports BY <1>18, ReportWrites
  <2>4. Phase(s) = "started" /\ row[s].report
    BY <1>18 DEF Finish, At, Phase, ScanInv, Consistent, StatusInv, ReportInv, Terminal
  <2>5. CASE row'[s] = row[s]
    <3>1. label[s] \in Running /\ label'[s] = "ended"
      BY <1>18, <2>1 DEF Finish, At, Effect, Running, WithPermit
    <3>2. \A t \in Scans : Phase(t)' = Phase(t) BY <2>1, <2>5, <3>1, StartedStays DEF Effect
    <3> QED BY <2>3, <3>2, Stutter
  <2>6. CASE row'[s] = new
    <3>1. Phase(s)' = "ready" BY <2>2, <2>6 DEF Phase
    <3>2. \A t \in Scans : t # s => Phase(t)' = Phase(t) BY <2>1 DEF Effect, Phase
    <3>3. Lifecycle!Deliver(s) BY <2>3, <2>4, <3>1, <3>2, Moves DEF Lifecycle!Deliver
    <3> QED BY <3>3 DEF Lifecycle!LifecycleNext
  <2> QED BY <2>1, <2>5, <2>6 DEF Effect
<1>19. ASSUME NEW s \in Scans, FailFinish(s) PROVE Goal
  <2> DEFINE new == [row[s] EXCEPT !.status = "failed", !.code = reason[s]]
  <2>1. Effect(s, new, "ended", "ended") BY <1>19, Statements
  <2>2. new.status = "failed" BY DEF Row
  <2> HIDE DEF new
  <2>3. SameReports BY <1>19, ReportWrites
  <2>4. Phase(s) = "started"
    BY <1>19 DEF FailFinish, At, Phase, ScanInv, Consistent, StatusInv, Terminal
  <2>5. CASE row'[s] = row[s]
    <3>1. label[s] \in Running /\ label'[s] = "ended"
      BY <1>19, <2>1 DEF FailFinish, At, Effect, Running, WithPermit
    <3>2. \A t \in Scans : Phase(t)' = Phase(t) BY <2>1, <2>5, <3>1, StartedStays DEF Effect
    <3> QED BY <2>3, <3>2, Stutter
  <2>6. CASE row'[s] = new
    <3>1. Phase(s)' = "failed" BY <2>2, <2>6 DEF Phase
    <3>2. \A t \in Scans : t # s => Phase(t)' = Phase(t) BY <2>1 DEF Effect, Phase
    <3>3. Lifecycle!GiveUp(s) BY <2>3, <2>4, <3>1, <3>2, Moves DEF Lifecycle!GiveUp
    <3> QED BY <3>3 DEF Lifecycle!LifecycleNext
  <2> QED BY <2>1, <2>5, <2>6 DEF Effect
<1>20. CASE Crash
  <2>1. \A t \in Scans : Phase(t)' = Phase(t)
    BY <1>20 DEF Crash, At, Phase, Running, BeforePermit, WithPermit
  <2> QED BY <1>20, <2>1, Stutter DEF Crash
<1>21. CASE UNCHANGED vars
  <2>1. \A t \in Scans : Phase(t)' = Phase(t) BY <1>21 DEF vars, Phase
  <2> QED BY <1>21, <2>1, Stutter DEF vars
<1> QED
  BY <1>1, <1>2, <1>3, <1>4, <1>5, <1>6, <1>7, <1>8, <1>9, <1>10, <1>11, <1>12, <1>13, <1>14,
     <1>15, <1>16, <1>17, <1>18, <1>19, <1>20, <1>21 DEF Next, Task

\* The pipeline implements ScanLifecycle: whatever statements fail and whenever the
\* server dies, a scan is started once after its payment, is ready only with its
\* report stored, and ends once (run_pipeline, fail).
THEOREM ImplementsLifecycleHolds == Spec => ImplementsLifecycle
<1>1. Init => Lifecycle!LifecycleInit
  BY DEF Init, Lifecycle!LifecycleInit, Phase
<1>2. IInv /\ [Next]_vars => [Lifecycle!LifecycleNext]_(Lifecycle!lifecycleVars)
  BY LifecycleStep DEF IInv
<1> QED
  BY <1>1, <1>2, Invariance, PTL DEF Spec, ImplementsLifecycle, Lifecycle!LifecycleSpec
================================================================================
