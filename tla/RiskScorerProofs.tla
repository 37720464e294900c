--------------------------- MODULE RiskScorerProofs ----------------------------
(***************************************************************************)
(* Facts about the scoring of src/analyzers/risk_scorer.rs, for every       *)
(* detector, also those no sample of a run has, every severity Slither can  *)
(* give and every confidence.                                               *)
(***************************************************************************)
EXTENDS RiskScorer, TLAPS

Given == Severities \ {"Critical"}

\* What exploitability and asset impact add to a score
MapSum(d, s) == 20 * Factor(MapDetector(d, s)[1]) + 15 * Factor(MapDetector(d, s)[2])

\* The sums of the branches of map_detector; the branch for High impact has its own.
LEMMA MapSums ==
    ASSUME NEW d, NEW s \in Given
    PROVE  \/ MapSum(d, s) \in {315, 210, 105, 75}
           \/ s = "High" /\ MapSum(d, s) = 255
<1>1. \/ MapDetector(d, s) = <<"High", "High">>
      \/ MapDetector(d, s) = <<"Medium", "Medium">>
      \/ MapDetector(d, s) = <<"Low", "Low">>
      \/ MapDetector(d, s) = <<"Low", "None">>
      \/ s = "High" /\ MapDetector(d, s) = <<"Medium", "High">>
  BY DEF Given, Severities, MapDetector
<1>2. /\ Factor("High") = 9 /\ Factor("Medium") = 6 /\ Factor("Low") = 3
      /\ Factor("None") = 1
  BY DEF Factor
<1> DEFINE p == MapDetector(d, s)
<1>3. MapSum(d, s) = 20 * Factor(p[1]) + 15 * Factor(p[2])
  BY DEF MapSum
<1> HIDE DEF p
<1>4. \/ p = <<"High", "High">> \/ p = <<"Medium", "Medium">>
      \/ p = <<"Low", "Low">> \/ p = <<"Low", "None">>
      \/ s = "High" /\ p = <<"Medium", "High">>
  BY <1>1 DEF p
<1> QED
  BY <1>2, <1>3, <1>4

\* A detector's branch does not depend on the severity, or it grows with it.
LEMMA MapSumsGrow ==
    ASSUME NEW d, NEW s \in Given, NEW t \in Given, BaseValue(s) <= BaseValue(t)
    PROVE  MapSum(d, s) <= MapSum(d, t)
<1>1. MapSum(d, s) \in Int
  BY MapSums
<1>2. CASE MapDetector(d, s) = MapDetector(d, t)
  BY <1>1, <1>2 DEF MapSum
<1>3. CASE MapDetector(d, s) # MapDetector(d, t)
  <2> DEFINE Own(x) == CASE x = "High" -> <<"Medium", "High">>
                         [] x = "Medium" -> <<"Medium", "Medium">>
                         [] x = "Low" -> <<"Low", "Low">>
                         [] x = "Informational" -> <<"Low", "None">>
                         [] x = "Critical" -> <<"High", "High">>
  <2>1. MapDetector(d, s) = Own(s) /\ MapDetector(d, t) = Own(t)
    <3> HIDE DEF Own
    <3>1. \A x : MapDetector(d, x) = Own(x) \/ \A y : MapDetector(d, y) = MapDetector(d, x)
      BY DEF MapDetector, Own
    <3> QED
      BY <1>3, <3>1
  <2> DEFINE Sum(x) == IF x = "High" THEN 255 ELSE IF x = "Medium" THEN 210
                       ELSE IF x = "Low" THEN 105 ELSE 75
  <2>2. /\ Factor("High") = 9 /\ Factor("Medium") = 6 /\ Factor("Low") = 3
        /\ Factor("None") = 1
    BY DEF Factor
  <2>3. \A x \in Given : 20 * Factor(Own(x)[1]) + 15 * Factor(Own(x)[2]) = Sum(x)
    BY <2>2 DEF Given, Severities
  <2>4. MapSum(d, s) = Sum(s) /\ MapSum(d, t) = Sum(t)
    <3> HIDE DEF Own, Sum
    <3> QED
      BY <2>1, <2>3 DEF MapSum
  <2>5. Sum(s) <= Sum(t)
    BY DEF Given, Severities, BaseValue
  <2> QED
    BY <2>4, <2>5
<1> QED
  BY <1>2, <1>3

\* The weighted sum in terms of these
LEMMA Weighted ==
    ASSUME NEW d, NEW s \in Given, NEW c \in Confidences
    PROVE  /\ WeightedScore(d, s, c) = 45 * BaseValue(s) + 20 * Factor(c) + MapSum(d, s)
           /\ BaseValue(s) \in {8, 5, 3, 1} /\ (s = "High" <=> BaseValue(s) = 8)
           /\ Factor(c) \in {9, 6, 3}
           /\ MapSum(d, s) \in {315, 255, 210, 105, 75} /\ (MapSum(d, s) = 255 => s = "High")
<1>1. MapSum(d, s) \in {315, 255, 210, 105, 75} /\ (MapSum(d, s) = 255 => s = "High")
  BY MapSums
<1>2. BaseValue(s) \in {8, 5, 3, 1} /\ (s = "High" <=> BaseValue(s) = 8)
  BY DEF Given, Severities, BaseValue
<1>3. Factor(c) \in {9, 6, 3}
  BY DEF Confidences, Factor
<1>4. /\ Factor(MapDetector(d, s)[1]) \in Int /\ Factor(MapDetector(d, s)[2]) \in Int
  <2>1. MapDetector(d, s) \in {"High", "Medium", "Low"} \X {"High", "Medium", "Low", "None"}
    BY DEF Given, Severities, MapDetector
  <2>2. \A l \in {"High", "Medium", "Low", "None"} : Factor(l) \in Int
    BY DEF Factor
  <2> QED
    BY <2>1, <2>2
<1> DEFINE x == Factor(MapDetector(d, s)[1])
           y == Factor(MapDetector(d, s)[2])
<1>5. /\ WeightedScore(d, s, c) = 45 * BaseValue(s) + 20 * Factor(c) + 20 * x + 15 * y
      /\ MapSum(d, s) = 20 * x + 15 * y
  BY DEF WeightedScore, MapSum
<1>6. x \in Int /\ y \in Int
  BY <1>4
<1> HIDE DEF x, y
<1> QED
  BY <1>1, <1>2, <1>3, <1>5, <1>6

\* The weighted sum stays below the Critical band and off the edges of the others, so
\* that Critical comes from the escalation alone and rounding cannot move a score
\* across an edge (score, from_final_score).
THEOREM OffTheEdges ==
    ASSUME NEW d, NEW s \in Given, NEW c \in Confidences
    PROVE  /\ WeightedScore(d, s, c) \in 180..855
           /\ WeightedScore(d, s, c) \notin {200, 400, 700, 900}
<1> DEFINE x == BaseValue(s)
           y == Factor(c)
           z == MapSum(d, s)
<1>1. /\ WeightedScore(d, s, c) = 45 * x + 20 * y + z
      /\ x \in {8, 5, 3, 1} /\ y \in {9, 6, 3} /\ z \in {315, 255, 210, 105, 75}
      /\ z = 255 => x = 8
  BY Weighted
<1> HIDE DEF x, y, z
<1> QED
  BY <1>1

\* The severity shown is the band of the score shown, escalated or not, and it is
\* Critical exactly for the escalated (score).
THEOREM SeverityIsBand ==
    ASSUME NEW d, NEW s \in Given, NEW c \in Confidences
    PROVE  /\ Score(d, s, c).severity = Band(Score(d, s, c).final)
           /\ Score(d, s, c).severity = "Critical" <=> Escalates(d, s, c)
<1>1. WeightedScore(d, s, c) \in 180..855
  BY OffTheEdges
<1>2. Band(WeightedScore(d, s, c)) # "Critical"
  BY <1>1 DEF Band
<1> QED
  BY <1>1, <1>2 DEF Score, Band

\* Slither rating a result higher, in impact, in confidence or in both, never lowers its
\* score, escalated or not (score, map_detector).
THEOREM ScoreIsMonotone ==
    ASSUME NEW d, NEW s \in Given, NEW t \in Given,
           NEW b \in Confidences, NEW c \in Confidences,
           BaseValue(s) <= BaseValue(t), Factor(b) <= Factor(c)
    PROVE  Score(d, s, b).final <= Score(d, t, c).final
<1>1. WeightedScore(d, s, b) \in 180..855 /\ WeightedScore(d, t, c) \in 180..855
  BY OffTheEdges
<1>2. WeightedScore(d, s, b) <= WeightedScore(d, t, c)
  <2>1. /\ WeightedScore(d, s, b) = 45 * BaseValue(s) + 20 * Factor(b) + MapSum(d, s)
        /\ BaseValue(s) \in Int /\ Factor(b) \in Int /\ MapSum(d, s) \in Int
    BY Weighted
  <2>2. /\ WeightedScore(d, t, c) = 45 * BaseValue(t) + 20 * Factor(c) + MapSum(d, t)
        /\ BaseValue(t) \in Int /\ Factor(c) \in Int /\ MapSum(d, t) \in Int
    BY Weighted
  <2>3. MapSum(d, s) <= MapSum(d, t)
    BY MapSumsGrow
  <2> QED
    BY <2>1, <2>2, <2>3
<1>3. Escalates(d, s, b) => Escalates(d, t, c)
  BY DEF Escalates, Confidences, Factor
<1> QED
  BY <1>1, <1>2, <1>3 DEF Score
================================================================================
