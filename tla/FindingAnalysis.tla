---------------------------- MODULE FindingAnalysis ----------------------------
(***************************************************************************)
(* What one analysis makes of Slither's output: slither_adapter::parse,     *)
(* finding_normalizer::normalize, risk_scorer, llm_analyzer::enrich and     *)
(* report_generator::generate, in the order of analyzers/pipeline.rs and of *)
(* run_pipeline.  Detector results may repeat one another, lack locations,  *)
(* and come in any order; the LLM may fail or answer anything.              *)
(*                                                                          *)
(* Names of contracts, functions and elements are numbers in the order of   *)
(* the strings they stand for.  An absent name or line is None = 0, which   *)
(* sorts first like Rust's Option::None and is what unwrap_or_default and   *)
(* unwrap_or(0) make of it; Slither's names are not empty, its lines start  *)
(* at 1.  The title of a result goes with its detector and is left out; the *)
(* file is left out because the sandbox holds one.                          *)
(***************************************************************************)
EXTENDS RiskScorer, SequencesExt

CONSTANTS
    Outputs,      \* what Slither can leave in its output file
    SourceLines,  \* lines of the submitted source
    Replies       \* JSON objects the LLM can answer with

None == 0
Blank == "blank"
BucketWidth == 10   \* of line_bucket
MaxEvidence == 5    \* in extract_evidence
Pad == 30           \* PAD of windowed_excerpt

\* The text fields of a finding
Fields == {"summary", "technical_details", "exploit_scenario", "fix_suggestion",
           "false_positive_note"}

\* What they hold.  The provers do not know that a literal is in STRING.
Text == STRING \cup {Blank}

\* A source element of a detector's result, and the result
Element == [type : STRING, name : Nat, parent : Nat, lines : SUBSET (1..SourceLines)]
Result == [check : STRING, impact : STRING, confidence : STRING, elements : Seq(Element)]

\* What parse_and_apply reads of a reply, and a severity it does not read
Explanation == [id : Nat, text : [Fields -> Text], severity : STRING]
RiskArea == [area : STRING, ids : SUBSET Nat]

ASSUME AnalysisAssumption ==
    /\ SourceLines \in Nat \ {0}
    /\ Outputs \subseteq [kind : {"success", "malformed", "compile_error"},
                         detectors : Seq(Result)]
    /\ Replies \subseteq [explanations : Seq(Explanation), areas : Seq(RiskArea),
                         summary : STRING]

VARIABLES
    output,    \* Slither's output file
    large,     \* the source is longer than LLM_SOURCE_CHAR_LIMIT
    phase,     \* the next step of run_pipeline, or how it ended
    findings,  \* outcome.findings
    overall,   \* outcome.overall_risk
    excerpt,   \* the line ranges of the source the LLM was sent
    enrich,    \* the EnrichResult
    report     \* the GeneratedReport

vars == <<output, large, phase, findings, overall, excerpt, enrich, report>>

-----------------------------------------------------------------------------
(* slither_adapter *)

\* extract_location: the first function, else the first contract, else the first.
Chosen(elements) ==
    LET ofType(t) == {i \in DOMAIN elements : elements[i].type = t}
        best == IF ofType("function") # {} THEN ofType("function")
                ELSE IF ofType("contract") # {} THEN ofType("contract")
                ELSE DOMAIN elements
    IN  elements[Min(best)]

\* extract_location: the element's own names and lines, or its parent contract
Location(elements) ==
    IF elements = <<>>
    THEN [contract |-> None, function |-> None, start |-> None, end |-> None]
    ELSE LET el == Chosen(elements)
             own(t) == IF el.type = t THEN el.name ELSE None
         IN  [contract |-> IF own("contract") # None THEN own("contract") ELSE el.parent,
              function |-> own("function"),
              start    |-> IF el.lines = {} THEN None ELSE Min(el.lines),
              end      |-> IF el.lines = {} THEN None ELSE Max(el.lines)]

AppendNew(seq, x) == IF x \in ToSet(seq) THEN seq ELSE Append(seq, x)

\* extract_evidence: the first few distinct names
AddName(ev, e) ==
    IF Len(ev) >= MaxEvidence \/ e.name = None THEN ev ELSE AppendNew(ev, e.name)

Evidence(elements) == FoldLeft(AddName, <<>>, elements)

\* parse_detector
ParseDetector(d) ==
    LET loc == Location(d.elements)
    IN  [detector |-> d.check, impact |-> d.impact, confidence |-> d.confidence,
         contract |-> loc.contract, function |-> loc.function,
         start |-> loc.start, end |-> loc.end, evidence |-> Evidence(d.elements)]

\* parse, of an output Slither declares a success
Raws(out) == [i \in DOMAIN out.detectors |-> ParseDetector(out.detectors[i])]

-----------------------------------------------------------------------------
(* finding_normalizer *)

\* map_category, numbered in the order of the categories' names: Access Control, Code
\* Quality, Dangerous EVM, its Access Control variant, Randomness, Reentrancy,
\* Transfer Safety.
MapCategory(detector) ==
    CASE detector \in ReentrancyFamily -> 6
      [] detector \in UncheckedFamily -> 7
      [] detector = "tx-origin" -> 1
      [] detector = "controlled-delegatecall" -> 4
      [] detector \in {"delegatecall-loop", "assembly"} -> 3
      [] detector = "timestamp" -> 5
      [] OTHER -> 2

MapSeverity(impact) == IF impact \in {"High", "Medium", "Low"} THEN impact ELSE "Informational"
MapConfidence(confidence) == IF confidence \in {"High", "Medium"} THEN confidence ELSE "Low"

\* severity_rank; confidence_rank orders its three levels the same way
Rank(s) ==
    CASE s = "Critical" -> 0 [] s = "High" -> 1 [] s = "Medium" -> 2 [] s = "Low" -> 3
      [] s = "Informational" -> 4

\* Mutant: the later level wins a merge.
Higher_Last(a, b) == b

\* max_severity, max_confidence
Higher(a, b) == IF Rank(a) <= Rank(b) THEN a ELSE b

\* Mutant: an absent line wins the minimum.
MinOpt_NoneWins(a, b) == Min({a, b})

\* min_opt, max_opt: a line beats an absent one.
MinOpt(a, b) == IF None \in {a, b} THEN Max({a, b}) ELSE Min({a, b})
MaxOpt(a, b) == Max({a, b})

\* Mutant: only results on the same first line merge.
DedupKey_ExactLine(r) == <<MapCategory(r.detector), r.contract, r.function, r.start>>

DedupKey(r) == <<MapCategory(r.detector), r.contract, r.function, r.start \div BucketWidth>>

\* entry().or_insert_with: a new group
NewGroup(r) ==
    [detector |-> r.detector, severity |-> MapSeverity(r.impact),
     confidence |-> MapConfidence(r.confidence), contract |-> r.contract,
     function |-> r.function, start |-> r.start, end |-> r.end, evidence |-> <<>>]

AppendAllNew(seq, more) == FoldLeft(AppendNew, seq, more)

\* The rest of an iteration: the group keeps the detector of its first result.
MergeInto(group, r) ==
    [group EXCEPT !.evidence = AppendAllNew(@, r.evidence),
                  !.start = MinOpt(@, r.start),
                  !.end = MaxOpt(@, r.end),
                  !.severity = Higher(@, MapSeverity(r.impact)),
                  !.confidence = Higher(@, MapConfidence(r.confidence))]

\* One iteration of the merging loop of normalize
Merge(groups, r) ==
    [k \in DOMAIN groups \cup {DedupKey(r)} |->
        IF k # DedupKey(r) THEN groups[k]
        ELSE MergeInto(IF k \in DOMAIN groups THEN groups[k] ELSE NewGroup(r), r)]

Groups(raws) == FoldLeft(Merge, <<>>, raws)

LexLess(a, b) ==
    \E i \in DOMAIN a : a[i] < b[i] /\ \A j \in 1..(i - 1) : a[j] = b[j]

\* The members of S in the order of their keys
SortedBy(S, key) ==
    CHOOSE seq \in SetToSeqs(S) :
        \A i, j \in DOMAIN seq : i < j => LexLess(key[seq[i]], key[seq[j]])

\* The sort is by severity, contract, function and first line; it is stable and
\* starts from the order of the keys.
SortKeys(groups) ==
    [k \in DOMAIN groups |->
        <<Rank(groups[k].severity), groups[k].contract, groups[k].function,
          groups[k].start, k[1], k[2], k[3], k[4]>>]

NewFinding(i, g) ==
    [id |-> i, detector |-> g.detector, severity |-> g.severity,
     confidence |-> g.confidence, contract |-> g.contract, function |-> g.function,
     start |-> g.start, end |-> g.end, evidence |-> g.evidence,
     text |-> [k \in Fields |-> Blank], score |-> None]

\* normalize: merge, sort, and number the findings from 1 (FIND-001).
Normalize(raws) ==
    LET groups == Groups(raws)
        order == SortedBy(DOMAIN groups, SortKeys(groups))
    IN  [i \in DOMAIN order |-> NewFinding(i, groups[order[i]])]

-----------------------------------------------------------------------------
(* analyzers/pipeline.rs and the rest of risk_scorer *)

\* The scoring loop of analyze(): the final severity replaces Slither's.
Scored(fs) ==
    [i \in DOMAIN fs |->
        LET s == Score(fs[i].detector, fs[i].severity, fs[i].confidence)
        IN  [fs[i] EXCEPT !.severity = s.severity, !.score = s]]

\* count() of report_generator
Count(fs) == [s \in Severities |-> Cardinality({i \in DOMAIN fs : fs[i].severity = s})]

\* Mutant: three Medium findings are not enough.
OverallRisk_MoreThanThree(fs) ==
    IF fs = <<>> THEN "NoMajorIssues"
    ELSE IF Count(fs)["Critical"] > 0 THEN "Critical"
    ELSE IF Count(fs)["High"] > 0 THEN "High"
    ELSE IF Count(fs)["Medium"] > 3 THEN "Medium"
    ELSE "Low"

\* overall_risk
OverallRisk(fs) ==
    IF fs = <<>> THEN "NoMajorIssues"
    ELSE IF Count(fs)["Critical"] > 0 THEN "Critical"
    ELSE IF Count(fs)["High"] > 0 THEN "High"
    ELSE IF Count(fs)["Medium"] >= 3 THEN "Medium"
    ELSE "Low"

NoText == [summary |-> Blank, areas |-> <<>>, warnings |-> <<>>]
NoReport == [total |-> None]

Init ==
    /\ output \in Outputs
    /\ large \in BOOLEAN
    /\ phase = "analyze"
    /\ findings = <<>>
    /\ overall = "NoMajorIssues"
    /\ excerpt = <<>>
    /\ enrich = NoText
    /\ report = NoReport

\* analyze(): a result that cannot be parsed, or that says success: false, fails the scan.
Analyze ==
    /\ phase = "analyze"
    /\ \/ /\ output.kind \in {"malformed", "compile_error"}
          /\ phase' = "failed"
          /\ UNCHANGED <<findings, overall>>
       \/ /\ output.kind = "success"
          /\ findings' = Scored(Normalize(Raws(output)))
          /\ overall' = OverallRisk(findings')
          /\ phase' = "enrich"
    /\ UNCHANGED <<output, large, excerpt, enrich, report>>

-----------------------------------------------------------------------------
(* llm_analyzer *)

\* Mutant: the window is not cut at the end of the source.
Window_Unclipped(f) == <<Max({f.start - Pad, 1}), f.end + Pad>>

\* windowed_excerpt: the lines around a finding, within the source
Window(f) == <<Max({f.start - Pad, 1}), Min({f.end + Pad, SourceLines})>>

\* Mutant: a window inside the one before cuts it short.
JoinWindow_Shrinks(windows, w) ==
    IF windows # <<>> /\ w[1] <= Last(windows)[2] + 1
    THEN Append(Front(windows), <<Last(windows)[1], w[2]>>)
    ELSE Append(windows, w)

\* windowed_excerpt: a window that overlaps or touches the one before extends it.
JoinWindow(windows, w) ==
    IF windows # <<>> /\ w[1] <= Last(windows)[2] + 1
    THEN Append(Front(windows), <<Last(windows)[1], Max({Last(windows)[2], w[2]})>>)
    ELSE Append(windows, w)

Located(fs) == {i \in DOMAIN fs : fs[i].start # None}

Windows(fs) == {Window(fs[i]) : i \in Located(fs)}

\* Findings without a line have no window.
WindowedExcerpt(fs) ==
    FoldLeft(JoinWindow, <<>>, SortedBy(Windows(fs), [w \in Windows(fs) |-> w]))

\* build_input: the source or an excerpt of it
BuildInput(fs) == IF large THEN WindowedExcerpt(fs) ELSE <<<<1, SourceLines>>>>

\* set_if_present: a missing or blank text leaves what is there.
Filled(text, given) == [k \in Fields |-> IF given[k] = Blank THEN text[k] ELSE given[k]]

\* Mutant: the explanation also rates the finding.
Explain_Rated(fs, e) ==
    IF e.id \in DOMAIN fs
    THEN [fs EXCEPT ![e.id].text = Filled(@, e.text), ![e.id].severity = e.severity]
    ELSE fs

\* parse_and_apply: text for a finding the backend produced; other ids are ignored.
Explain(fs, e) ==
    IF e.id \in DOMAIN fs THEN [fs EXCEPT ![e.id].text = Filled(@, e.text)] ELSE fs

\* parse_and_apply: the risk areas, without ids nobody produced
Areas(reply, fs) ==
    [i \in DOMAIN reply.areas |->
        [area |-> reply.areas[i].area, ids |-> reply.areas[i].ids \cap DOMAIN fs]]

\* run_pipeline without an LLM client, or enrich() without findings
SkipEnrich ==
    /\ phase = "enrich"
    /\ phase' = "report"
    /\ UNCHANGED <<output, large, findings, overall, excerpt, enrich, report>>

\* enrich(): a reply with a JSON object in it
EnrichWith(reply) ==
    /\ phase = "enrich" /\ findings # <<>>
    /\ excerpt' = BuildInput(findings)
    /\ findings' = FoldLeft(Explain, findings, reply.explanations)
    /\ enrich' = [summary |-> reply.summary, areas |-> Areas(reply, findings),
                  warnings |-> <<>>]
    /\ phase' = "report"
    /\ UNCHANGED <<output, large, overall, report>>

\* enrich(): chat() fails, or answers without a JSON object
EnrichFails ==
    /\ phase = "enrich" /\ findings # <<>>
    /\ excerpt' = BuildInput(findings)
    /\ enrich' = [NoText EXCEPT !.warnings = <<"LLM_FAILED">>]
    /\ phase' = "report"
    /\ UNCHANGED <<output, large, findings, overall, report>>

-----------------------------------------------------------------------------
(* report_generator *)

\* markdown(): an item shows a placeholder for a missing text, but no empty note.
MarkdownItem(f) ==
    [id |-> f.id, severity |-> f.severity, score |-> f.score.final,
     evidence |-> f.evidence,
     text |-> [k \in {x \in Fields : x # "false_positive_note" \/ f.text[x] # Blank} |->
                  IF f.text[k] = Blank THEN "_Not available._" ELSE f.text[k]]]

Sections == <<"Summary", "What This Contract Does", "Main Risk Areas", "Contract Metadata",
              "Findings", "Notes">>

\* The sections that have something to say
ShownSections ==
    SelectSeq(Sections, LAMBDA s :
        /\ s = "What This Contract Does" => enrich.summary # Blank
        /\ s = "Main Risk Areas" => enrich.areas # <<>>)

\* markdown(): the sections, the findings, the warnings
Markdown ==
    [sections |-> ShownSections,
     overall |-> overall, counts |-> Count(findings),
     items |-> [i \in DOMAIN findings |-> MarkdownItem(findings[i])],
     notes |-> enrich.warnings]

\* generate()
Generate ==
    /\ phase = "report"
    /\ report' = [overall |-> overall, total |-> Len(findings), counts |-> Count(findings),
                  summary |-> enrich.summary, areas |-> enrich.areas,
                  findings |-> findings, warnings |-> enrich.warnings,
                  markdown |-> Markdown]
    /\ phase' = "done"
    /\ UNCHANGED <<output, large, findings, overall, excerpt, enrich>>

Next ==
    \/ Analyze
    \/ SkipEnrich
    \/ \E reply \in Replies : EnrichWith(reply)
    \/ EnrichFails
    \/ Generate

Spec == Init /\ [][Next]_vars

-----------------------------------------------------------------------------
(* Properties. *)

Finding ==
    [id : 1..Len(findings), detector : STRING, severity : Severities,
     confidence : Confidences, contract : Nat, function : Nat,
     start : 0..SourceLines, end : 0..SourceLines,
     evidence : Seq(Nat), text : [Fields -> Text],
     score : [base : 1..10, final : 0..1000, severity : Severities]]

TypeOK ==
    /\ output \in Outputs
    /\ large \in BOOLEAN
    /\ phase \in {"analyze", "enrich", "report", "done", "failed"}
    /\ findings \in Seq(Finding)
    /\ overall \in {"Critical", "High", "Medium", "Low", "NoMajorIssues"}
    /\ excerpt \in Seq((1..SourceLines) \X (1..SourceLines))
    /\ enrich.warnings \in {<<>>, <<"LLM_FAILED">>}
    /\ report # NoReport <=> phase = "done"

Analyzed == phase \in {"enrich", "report", "done"}
Results == ToSet(Raws(output))

\* The result r of Slither is part of the finding f.
Within(r, f) ==
    /\ MapCategory(r.detector) = MapCategory(f.detector)
    /\ r.contract = f.contract /\ r.function = f.function
    /\ r.start \div BucketWidth = f.start \div BucketWidth

\* Every result of Slither is part of exactly one finding, which covers its lines,
\* keeps its evidence and rates it no lower in impact and confidence, and every
\* finding has a result: merging loses and invents nothing (normalize).
EveryResultReported ==
    Analyzed =>
        /\ \A r \in Results : \E i \in DOMAIN findings :
              LET f == findings[i]
              IN  /\ Within(r, f)
                  /\ \A j \in DOMAIN findings : Within(r, findings[j]) => j = i
                  /\ r.start # None => f.start \in 1..r.start /\ r.end <= f.end
                  /\ ToSet(r.evidence) \subseteq ToSet(f.evidence)
                  /\ f.score.base >= BaseValue(MapSeverity(r.impact))
                  /\ Rank(f.confidence) <= Rank(MapConfidence(r.confidence))
        /\ \A i \in DOMAIN findings : \E r \in Results : Within(r, findings[i])

\* Two findings of one category, contract and function
SamePlace(f, g) ==
    /\ MapCategory(f.detector) = MapCategory(g.detector)
    /\ f.contract = g.contract /\ f.function = g.function

\* Findings of one category, contract and function never begin on the same line, and
\* of any three of them two begin more than BucketWidth lines apart: results that are
\* nearer merge, but for the two on either side of a bucket's edge, however the merges
\* moved the first lines (normalize, line_bucket).
NearbyResultsMerge ==
    \A i, j \in DOMAIN findings :
        i # j /\ SamePlace(findings[i], findings[j]) =>
            /\ findings[i].start # findings[j].start
            /\ \A k \in DOMAIN findings \ {i, j} :
                  SamePlace(findings[i], findings[k]) =>
                      \E a, b \in {i, j, k} :
                          findings[b].start - findings[a].start > BucketWidth

\* A group's results disagree on the detector.
Mixed(f) == Cardinality({r.detector : r \in {x \in Results : Within(x, f)}}) > 1

\* What must not depend on the order Slither lists its results in
OrderFree(fs) ==
    {[place |-> DedupKey(f), start |-> f.start, end |-> f.end, base |-> f.score.base,
      confidence |-> f.confidence, evidence |-> ToSet(f.evidence),
      final |-> IF Mixed(f) THEN None ELSE f.score.final] : f \in ToSet(fs)}

\* Whatever order Slither lists its results in, the findings are the same in place,
\* span, evidence, impact and confidence; the final score may differ only where
\* results of different detectors were merged, since the first one names the group
\* and decides its score (normalize, score).
MergeOrderIndependent ==
    phase = "enrich" =>
        \A p \in Bijection(DOMAIN output.detectors, DOMAIN output.detectors) :
            LET raws == Raws(output)
                other == Scored(Normalize([i \in DOMAIN raws |-> raws[p[i]]]))
            IN  OrderFree(other) = OrderFree(findings)

\* A finding is Critical only if Slither's results that make it up bring both an
\* eligible detector and a High confidence, and it is when all of them are of
\* eligible detectors and one is High (score, "Critical reachability rule").
CriticalIsJustified ==
    \A i \in DOMAIN findings :
        LET parts == {r \in Results : Within(r, findings[i])}
            sure  == \E r \in parts : r.confidence = "High"
        IN  /\ findings[i].severity = "Critical" =>
                  sure /\ \E r \in parts : r.detector \in CriticalEligible
            /\ sure /\ (\A r \in parts : r.detector \in CriticalEligible) =>
                  findings[i].severity = "Critical"

\* The excerpt of a large source consists of separate line ranges in ascending order
\* that hold every line near a finding, and no other (windowed_excerpt).
ExcerptCoversFindings ==
    excerpt # <<>> /\ large =>
        /\ \A i \in 1..(Len(excerpt) - 1) : excerpt[i][2] + 1 < excerpt[i + 1][1]
        /\ UNION {w[1]..w[2] : w \in ToSet(excerpt)} =
              {n \in 1..SourceLines : \E i \in Located(findings) :
                  findings[i].start - Pad <= n /\ n <= findings[i].end + Pad}

\* Everything of a finding but its text
Facts(fs) == [i \in DOMAIN fs |-> [fs[i] EXCEPT !.text = Blank]]

\* "It never creates findings or changes severity/confidence/score/location": once
\* analyzed, the facts of the findings stay, and every id a risk area is based on is
\* that of a finding, whatever the LLM answers (parse_and_apply).
LlmOnlyExplains ==
    [][Analyzed =>
          /\ Facts(findings') = Facts(findings)
          /\ \A a \in ToSet(enrich'.areas) : a.ids \subseteq DOMAIN findings]_vars

\* The findings of one level in the report
Listed(level) == {i \in DOMAIN report.findings : report.findings[i].severity = level}

\* The report counts what it lists, shows each finding in the band of its score, and
\* its overall risk, computed before the LLM was asked, is Critical or High if that is
\* the worst finding it lists, Medium if that is Medium and there are three of them,
\* NoMajorIssues without findings, and Low for all others (generate, count,
\* overall_risk).
ReportAddsUp ==
    phase = "done" =>
        /\ report.total = report.counts["Critical"] + report.counts["High"]
              + report.counts["Medium"] + report.counts["Low"]
              + report.counts["Informational"]
        /\ report.total = Len(report.findings)
        /\ \A i \in DOMAIN report.findings :
              Band(report.findings[i].score.final) = report.markdown.items[i].severity
        /\ LET three == \E i, j, k \in Listed("Medium") : i # j /\ j # k /\ i # k
               severe == Listed("Critical") \cup Listed("High") # {}
           IN  /\ report.overall = "NoMajorIssues" <=> report.total = 0
               /\ report.overall = "Critical" <=> Listed("Critical") # {}
               /\ report.overall = "High" <=> severe /\ Listed("Critical") = {}
               /\ report.overall = "Medium" <=> three /\ ~severe
               /\ report.overall = "Low" <=> report.total > 0 /\ ~three /\ ~severe
================================================================================
