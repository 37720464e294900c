------------------------------ MODULE RiskScorer -------------------------------
(***************************************************************************)
(* The deterministic scoring of a finding (src/analyzers/risk_scorer.rs and *)
(* the value types of src/models/finding.rs).  Scores are in hundredths:    *)
(* every weight, factor and band edge of the code is a multiple of 0.01, and *)
(* no attainable sum lies on a band edge (RiskScorerProofs!OffTheEdges), so *)
(* the rounding of the code's f64 cannot move a score across one.           *)
(***************************************************************************)
EXTENDS Integers

Severities == {"Critical", "High", "Medium", "Low", "Informational"}
Confidences == {"High", "Medium", "Low"}

\* Detectors, one or more per branch of map_detector and map_category; the branches
\* test prefixes and substrings, here they are families.
ReentrancyFamily == {"reentrancy-eth", "reentrancy-no-eth", "reentrancy-events"}
UncheckedFamily == {"unchecked-lowlevel", "unchecked-transfer"}
UnusedFamily == {"unused-return", "unused-state"}
Detectors ==
    ReentrancyFamily \cup UncheckedFamily \cup UnusedFamily \cup
    {"tx-origin", "controlled-delegatecall", "delegatecall-loop", "timestamp", "assembly",
     "solc-version", "naming-convention", "arbitrary-send-eth", "suicidal", "unknown"}

\* CRITICAL_ELIGIBLE
CriticalEligible ==
    {"reentrancy-eth", "reentrancy-no-eth", "controlled-delegatecall", "arbitrary-send-eth"}

\* Severity::base_value
BaseValue(s) ==
    CASE s = "Critical" -> 10 [] s = "High" -> 8 [] s = "Medium" -> 5
      [] s = "Low" -> 3 [] s = "Informational" -> 1

\* Confidence::factor, Exploitability::factor and AssetImpact::factor, in tenths
Factor(level) ==
    CASE level = "High" -> 9 [] level = "Medium" -> 6 [] level = "Low" -> 3
      [] level = "None" -> 1

\* map_detector: exploitability and asset impact of a detector; the severity decides
\* for those without a branch of their own.
MapDetector(detector, severity) ==
    IF detector \in ReentrancyFamily \cup
                    {"tx-origin", "controlled-delegatecall", "delegatecall-loop"}
    THEN <<"High", "High">>
    ELSE IF detector \in UncheckedFamily \cup {"timestamp", "assembly"}
    THEN <<"Medium", "Medium">>
    ELSE IF detector = "solc-version" THEN <<"Low", "Low">>
    ELSE IF detector \in UnusedFamily \cup {"naming-convention"} THEN <<"Low", "None">>
    ELSE CASE severity = "High" -> <<"Medium", "High">>
           [] severity = "Medium" -> <<"Medium", "Medium">>
           [] severity = "Low" -> <<"Low", "Low">>
           [] severity = "Informational" -> <<"Low", "None">>
           [] severity = "Critical" -> <<"High", "High">>

\* The weighted sum of score(), in hundredths: .45 base + 2 conf + 2 exp + 1.5 asset
WeightedScore(detector, severity, confidence) ==
    45 * BaseValue(severity) + 20 * Factor(confidence)
      + 20 * Factor(MapDetector(detector, severity)[1])
      + 15 * Factor(MapDetector(detector, severity)[2])

\* Severity::from_final_score
Band(score) ==
    IF score >= 900 THEN "Critical" ELSE IF score >= 700 THEN "High"
    ELSE IF score >= 400 THEN "Medium" ELSE IF score >= 200 THEN "Low" ELSE "Informational"

\* Mutant: the escalation looks at the severity, not at the confidence.
Escalates_BySeverity(detector, severity, confidence) ==
    severity = "High" /\ detector \in CriticalEligible

\* score(): the Critical escalation
Escalates(detector, severity, confidence) ==
    confidence = "High" /\ detector \in CriticalEligible

\* score()
Score(detector, severity, confidence) ==
    LET sum == WeightedScore(detector, severity, confidence)
    IN  IF Escalates(detector, severity, confidence)
        THEN [base |-> BaseValue(severity), final |-> 900, severity |-> "Critical"]
        ELSE [base |-> BaseValue(severity), final |-> sum, severity |-> Band(sum)]
================================================================================
