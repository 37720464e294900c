------------------------- MODULE FindingAnalysisProofs -------------------------
(***************************************************************************)
(* Proofs about FindingAnalysis, for every output of Slither and every      *)
(* reply of the LLM of the assumed form: each step of slither_adapter,      *)
(* finding_normalizer, risk_scorer, llm_analyzer and report_generator by    *)
(* induction over the sequence it folds, then the invariants of an analysis *)
(* from what the list of findings says of Slither's results (Reports).      *)
(***************************************************************************)
EXTENDS FindingAnalysis, RiskScorerProofs, Induction, SequenceTheorems

(* slither_adapter: evidence, location, raw findings. *)

\* Appending a name unless it is there adds it to the names.
LEMMA AppendNewStep ==
    ASSUME NEW s \in Seq(Nat), NEW x \in Nat
    PROVE  /\ AppendNew(s, x) \in Seq(Nat)
           /\ ToSet(AppendNew(s, x)) = ToSet(s) \cup {x}
           /\ Len(AppendNew(s, x)) \in Nat
<1>1. CASE x \in ToSet(s)
  BY <1>1 DEF AppendNew, ToSet
<1>2. CASE x \notin ToSet(s)
  <2> DEFINE t == Append(s, x)
  <2>1. /\ t \in Seq(Nat) /\ Len(t) = Len(s) + 1 /\ DOMAIN t = 1..(Len(s) + 1)
        /\ \A i \in 1..Len(s) : t[i] = s[i]
        /\ t[Len(s) + 1] = x
    OBVIOUS
  <2>2. DOMAIN s = 1..Len(s) /\ Len(s) \in Nat
    OBVIOUS
  <2>3. ToSet(t) = ToSet(s) \cup {x}
    <3> HIDE DEF t
    <3>1. 1..(Len(s) + 1) = 1..Len(s) \cup {Len(s) + 1}
      BY <2>2
    <3> QED
      BY <2>1, <2>2, <3>1 DEF ToSet
  <2> QED
    BY <1>2, <2>1, <2>2, <2>3 DEF AppendNew
<1> QED
  BY <1>1, <1>2

\* The equations of the fold that merges evidence
LEMMA AppendAllNewFold ==
    ASSUME NEW a \in Seq(Nat), NEW b \in Seq(Nat)
    PROVE  \E acc \in [0..Len(b) -> Seq(Nat)] :
              /\ acc[0] = a
              /\ \A i \in 1..Len(b) : acc[i] = AppendNew(acc[i - 1], b[i])
              /\ acc[Len(b)] = AppendAllNew(a, b)
<1> DEFINE n == Len(b)
           V == Seq(Nat)
           step == [w \in V \X (1..n) |-> AppendNew(w[1], b[w[2]])]
           Obeys(g) == g = [s \in SUBSET DOMAIN b |->
                              IF s = {} THEN a
                              ELSE AppendNew(g[s \ {Max(s)}], b[Max(s)])]
           fold == CHOOSE g : Obeys(g)
<1>1. n \in Nat /\ DOMAIN b = 1..n /\ a \in V
  OBVIOUS
<1>2. \A v \in V, i \in 1..n : step[<<v, i>>] = AppendNew(v, b[i])
  OBVIOUS
<1>3. step \in [V \X (1..n) -> V]
  BY AppendNewStep
<1>4. AppendAllNew(a, b) = fold[1..n]
  BY <1>1 DEF AppendAllNew, FoldLeft, MapThenFoldSet
<1> HIDE DEF V, step
<1>5. ASSUME NEW h \in [SUBSET (1..n) -> V], FoldOver(n, a, step, h)
      PROVE  FoldFrom(n, V, a, step, fold)
  <2>1. \A s \in SUBSET (1..n) : s # {} => Max(s) \in 1..n
    BY <1>1, MaxOfSubset
  <2>2. Obeys(h)
    BY <1>1, <1>2, <1>5, <2>1 DEF FoldOver
  <2>3. Obeys(fold)
    <3> HIDE DEF Obeys
    <3> QED
      BY <2>2
  <2> HIDE DEF fold
  <2> QED
    BY <1>1, <1>2, <2>1, <2>3 DEF FoldFrom
<1>6. PICK acc : Folded(n, V, a, step, fold, acc)
  <2> HIDE DEF n, fold
  <2>1. (\E h \in [SUBSET (1..n) -> V] : FoldOver(n, a, step, h)) => FoldFrom(n, V, a, step, fold)
    BY <1>5
  <2> QED
    BY <1>1, <1>3, <2>1, FoldWorks
<1> HIDE DEF fold
<1>7. \A i \in 1..n : acc[i] = AppendNew(acc[i - 1], b[i])
  <2> HIDE DEF n
  <2>1. \A i \in 1..n : i - 1 \in 0..n
    BY <1>1
  <2> QED
    BY <1>2, <1>6, <2>1 DEF Folded
<1> QED
  BY <1>4, <1>6, <1>7 DEF Folded, V

\* Max and Min of two lines are among them and bound them.
LEMMA MaxOfTwo ==
    ASSUME NEW a \in Int, NEW b \in Int
    PROVE  /\ Max({a, b}) \in {a, b} /\ Max({a, b}) >= a /\ Max({a, b}) >= b
           /\ Min({a, b}) \in {a, b} /\ Min({a, b}) <= a /\ Min({a, b}) <= b
<1>1. \E x \in {a, b} : \A y \in {a, b} : x >= y
  OBVIOUS
<1>2. \E x \in {a, b} : \A y \in {a, b} : x <= y
  OBVIOUS
<1>3. Max({a, b}) \in {a, b} /\ \A y \in {a, b} : Max({a, b}) >= y
  BY <1>1 DEF Max
<1>4. Min({a, b}) \in {a, b} /\ \A y \in {a, b} : Min({a, b}) <= y
  BY <1>2 DEF Min
<1> QED
  BY <1>3, <1>4

\* Merged evidence holds the names of both lists, and no other.
LEMMA AppendAllNewFacts ==
    ASSUME NEW a \in Seq(Nat), NEW b \in Seq(Nat)
    PROVE  /\ AppendAllNew(a, b) \in Seq(Nat)
           /\ ToSet(AppendAllNew(a, b)) = ToSet(a) \cup ToSet(b)
<1>1. PICK acc \in [0..Len(b) -> Seq(Nat)] :
              /\ acc[0] = a
              /\ \A i \in 1..Len(b) : acc[i] = AppendNew(acc[i - 1], b[i])
              /\ acc[Len(b)] = AppendAllNew(a, b)
  BY AppendAllNewFold
<1>2. Len(b) \in Nat /\ DOMAIN b = 1..Len(b) /\ \A i \in 1..Len(b) : b[i] \in Nat
  OBVIOUS
<1> DEFINE First(m) == {b[i] : i \in 1..m}
           T == {m \in 0..Len(b) : ToSet(acc[m]) = ToSet(a) \cup First(m)}
<1>3. 0 \in T
  BY <1>1, <1>2
<1>4. ASSUME NEW m \in 0..(Len(b) - 1), m \in T PROVE m + 1 \in T
  <2>1. m + 1 \in 1..Len(b) /\ (m + 1) - 1 = m /\ m \in 0..Len(b) /\ m + 1 \in 0..Len(b)
    BY <1>2
  <2>2. acc[m + 1] = AppendNew(acc[m], b[m + 1])
    BY <1>1, <2>1
  <2>3. ToSet(acc[m + 1]) = ToSet(acc[m]) \cup {b[m + 1]}
    <3>1. acc[m] \in Seq(Nat)
      BY <2>1
    <3>2. b[m + 1] \in Nat
      BY <1>2, <2>1
    <3>3. ToSet(AppendNew(acc[m], b[m + 1])) = ToSet(acc[m]) \cup {b[m + 1]}
      BY <3>1, <3>2, AppendNewStep
    <3> QED
      BY <2>2, <3>3
  <2>4. First(m + 1) = First(m) \cup {b[m + 1]}
    <3>1. 1..(m + 1) = 1..m \cup {m + 1}
      BY <1>2
    <3> QED
      BY <3>1
  <2> HIDE DEF First
  <2> QED
    BY <1>4, <2>1, <2>3, <2>4
<1>5. \A m \in 0..Len(b) : m \in T
  <2> HIDE DEF T
  <2> QED
    BY <1>2, <1>3, <1>4, BoundedInduction
<1>6. AppendAllNew(a, b) \in Seq(Nat)
  BY <1>1, <1>2
<1>7. ToSet(AppendAllNew(a, b)) = ToSet(a) \cup First(Len(b))
  <2> HIDE DEF First
  <2>1. Len(b) \in T
    BY <1>2, <1>5
  <2> QED
    BY <1>1, <2>1
<1>8. First(Len(b)) = ToSet(b)
  BY <1>2 DEF ToSet
<1> QED
  BY <1>6, <1>7, <1>8

\* extract_evidence returns names.
LEMMA EvidenceType ==
    ASSUME NEW es \in Seq(Element)
    PROVE  Evidence(es) \in Seq(Nat)
<1> DEFINE n == Len(es)
           V == Seq(Nat)
           step == [w \in V \X (1..n) |-> AddName(w[1], es[w[2]])]
           Obeys(g) == g = [s \in SUBSET DOMAIN es |->
                              IF s = {} THEN <<>>
                              ELSE AddName(g[s \ {Max(s)}], es[Max(s)])]
           fold == CHOOSE g : Obeys(g)
<1>1. n \in Nat /\ DOMAIN es = 1..n /\ <<>> \in V
  OBVIOUS
<1>2. \A v \in V, i \in 1..n : step[<<v, i>>] = AddName(v, es[i])
  OBVIOUS
<1>3. step \in [V \X (1..n) -> V]
  <2>1. ASSUME NEW v \in V, NEW i \in 1..n PROVE AddName(v, es[i]) \in V
    <3>0. es[i] \in Element
      OBVIOUS
    <3>1. es[i].name \in Nat /\ v \in Seq(Nat)
      BY <3>0 DEF Element
    <3>2. AppendNew(v, es[i].name) \in V
      BY <3>1, AppendNewStep
    <3> QED
      BY <3>2 DEF AddName
  <2> QED
    BY <2>1
<1>4. Evidence(es) = fold[1..n]
  BY <1>1 DEF Evidence, FoldLeft, MapThenFoldSet
<1> HIDE DEF V, step
<1>5. ASSUME NEW h \in [SUBSET (1..n) -> V], FoldOver(n, <<>>, step, h)
      PROVE  FoldFrom(n, V, <<>>, step, fold)
  <2>1. \A s \in SUBSET (1..n) : s # {} => Max(s) \in 1..n
    BY <1>1, MaxOfSubset
  <2>2. Obeys(h)
    BY <1>1, <1>2, <1>5, <2>1 DEF FoldOver
  <2>3. Obeys(fold)
    <3> HIDE DEF Obeys
    <3> QED
      BY <2>2
  <2> HIDE DEF fold
  <2> QED
    BY <1>1, <1>2, <2>1, <2>3 DEF FoldFrom
<1>6. PICK acc : Folded(n, V, <<>>, step, fold, acc)
  <2> HIDE DEF n, fold
  <2>1. (\E h \in [SUBSET (1..n) -> V] : FoldOver(n, <<>>, step, h))
          => FoldFrom(n, V, <<>>, step, fold)
    BY <1>5
  <2> QED
    BY <1>1, <1>3, <2>1, FoldWorks
<1> HIDE DEF fold
<1> QED
  BY <1>1, <1>4, <1>6 DEF Folded, V

\* The type of a raw finding
Raw == [detector : STRING, impact : STRING, confidence : STRING, contract : Nat,
        function : Nat, start : 0..SourceLines, end : 0..SourceLines,
        evidence : Seq(Nat)]

\* The raw findings parse_detector makes
Parsed == {r \in Raw : r.start <= r.end /\ (r.start = None => r.end = None)}

\* extract_location takes one of the elements.
LEMMA ChosenType ==
    ASSUME NEW es \in Seq(Element), es # <<>>
    PROVE  Chosen(es) \in Element
<1>1. \A S \in SUBSET DOMAIN es : S # {} => es[Min(S)] \in Element
  <2> TAKE S \in SUBSET DOMAIN es
  <2> HAVE S # {}
  <2>1. S \subseteq Nat
    OBVIOUS
  <2>2. Min(S) \in S
    BY <2>1, MinProperty
  <2> QED
    BY <2>2
<1> DEFINE ofType(t) == {i \in DOMAIN es : es[i].type = t}
           best == IF ofType("function") # {} THEN ofType("function")
                   ELSE IF ofType("contract") # {} THEN ofType("contract")
                   ELSE DOMAIN es
<1>2. best \in SUBSET DOMAIN es /\ best # {}
  OBVIOUS
<1>3. Chosen(es) = es[Min(best)]
  BY DEF Chosen
<1> HIDE DEF best
<1> QED
  BY <1>1, <1>2, <1>3

\* A parsed detector has lines in order, or none.
LEMMA ParseType ==
    ASSUME NEW d \in Result
    PROVE  ParseDetector(d) \in Parsed
<1> DEFINE loc == Location(d.elements)
<1>1. d.elements \in Seq(Element) /\ d.check \in STRING /\ d.impact \in STRING
        /\ d.confidence \in STRING
  BY DEF Result
<1>2. SourceLines \in Nat
  BY AnalysisAssumption
<1>3. /\ loc.contract \in Nat /\ loc.function \in Nat
      /\ loc.start \in 0..SourceLines /\ loc.end \in 0..SourceLines
      /\ loc.start <= loc.end
      /\ loc.start = None => loc.end = None
  <2>1. CASE d.elements = <<>>
    BY <1>2, <2>1 DEF Location, None
  <2>2. CASE d.elements # <<>>
    <3>1. Chosen(d.elements) \in Element
      BY <1>1, <2>2, ChosenType
    <3> DEFINE el == Chosen(d.elements)
    <3>2. el.name \in Nat /\ el.parent \in Nat /\ el.lines \in SUBSET (1..SourceLines)
      BY <3>1 DEF Element
    <3> HIDE DEF el
    <3>3. el.lines # {} =>
            /\ Min(el.lines) \in 1..SourceLines /\ Max(el.lines) \in 1..SourceLines
            /\ Min(el.lines) <= Max(el.lines)
      <4> HAVE el.lines # {}
      <4>1. el.lines \subseteq Nat /\ \A x \in el.lines : x <= SourceLines
        BY <1>2, <3>2
      <4>2. Max(el.lines) \in el.lines
        BY <1>2, <4>1, MaxProperty
      <4>3. Min(el.lines) \in el.lines /\ \A y \in el.lines : Min(el.lines) <= y
        BY <4>1, MinProperty
      <4> QED
        BY <4>2, <4>3, <3>2
    <3>4. /\ loc.contract = IF (IF el.type = "contract" THEN el.name ELSE None) # None
                            THEN IF el.type = "contract" THEN el.name ELSE None
                            ELSE el.parent
          /\ loc.function = IF el.type = "function" THEN el.name ELSE None
          /\ loc.start = IF el.lines = {} THEN None ELSE Min(el.lines)
          /\ loc.end = IF el.lines = {} THEN None ELSE Max(el.lines)
      BY <2>2 DEF Location, el
    <3> QED
      BY <1>2, <3>2, <3>3, <3>4 DEF None
  <2> QED
    BY <2>1, <2>2
<1>4. Evidence(d.elements) \in Seq(Nat)
  BY <1>1, EvidenceType
<1> HIDE DEF loc
<1>5. ParseDetector(d) =
        [detector |-> d.check, impact |-> d.impact, confidence |-> d.confidence,
         contract |-> loc.contract, function |-> loc.function,
         start |-> loc.start, end |-> loc.end, evidence |-> Evidence(d.elements)]
  BY DEF ParseDetector, loc
<1> QED
  BY <1>1, <1>3, <1>4, <1>5 DEF Parsed, Raw

\* parse returns one raw finding for each detector.
LEMMA RawsType ==
    ASSUME NEW out \in Outputs
    PROVE  /\ Raws(out) \in Seq(Parsed)
           /\ DOMAIN Raws(out) = DOMAIN out.detectors
<1>1. out.detectors \in Seq(Result)
  BY AnalysisAssumption
<1>2. \A i \in DOMAIN out.detectors : ParseDetector(out.detectors[i]) \in Parsed
  BY <1>1, ParseType
<1>3. Raws(out) = [i \in 1..Len(out.detectors) |-> ParseDetector(out.detectors[i])]
  BY <1>1 DEF Raws
<1> QED
  BY <1>1, <1>2, <1>3

--------------------------------------------------------------------------------
(* finding_normalizer: one group. *)

\* What the ranks say of levels, and that the higher of two is the lower-ranked
LEMMA Levels ==
    /\ \A x : MapSeverity(x) \in Given /\ MapConfidence(x) \in Confidences
    /\ Given \subseteq Severities /\ Confidences \subseteq Given
    /\ \A s \in Severities : Rank(s) \in 0..4
    /\ \A s, t \in Severities : Rank(s) = Rank(t) => s = t
    /\ \A s, t \in Severities :
          /\ Higher(s, t) \in {s, t}
          /\ Rank(Higher(s, t)) <= Rank(s) /\ Rank(Higher(s, t)) <= Rank(t)
<1>1. \A x : MapSeverity(x) \in Given /\ MapConfidence(x) \in Confidences
  BY DEF MapSeverity, MapConfidence, Given, Severities, Confidences
<1>2. Given \subseteq Severities /\ Confidences \subseteq Given
  BY DEF Given, Severities, Confidences
<1>3. \A s \in Severities : Rank(s) \in 0..4
  BY DEF Severities, Rank
<1>4. \A s, t \in Severities : Rank(s) = Rank(t) => s = t
  BY DEF Severities, Rank
<1>5. \A s, t \in Severities :
          /\ Higher(s, t) \in {s, t}
          /\ Rank(Higher(s, t)) <= Rank(s) /\ Rank(Higher(s, t)) <= Rank(t)
  BY <1>3 DEF Higher
<1> QED
  BY <1>1, <1>2, <1>3, <1>4, <1>5

\* The type of a group, as the merging loop leaves it
Group == [detector : STRING, severity : Given, confidence : Confidences, contract : Nat,
          function : Nat, start : 0..SourceLines, end : 0..SourceLines,
          evidence : Seq(Nat)]

\* The results of R that fall into the group of the key k
Part(R, k) == {r \in R : DedupKey(r) = k}

\* The group g is what the results in R merge into, but for the order.
Describes(g, R) ==
    /\ \E r \in R : g.detector = r.detector
    /\ \A r \in R : g.contract = r.contract /\ g.function = r.function
    /\ \E r \in R : g.severity = MapSeverity(r.impact)
    /\ \A r \in R : Rank(g.severity) <= Rank(MapSeverity(r.impact))
    /\ \E r \in R : g.confidence = MapConfidence(r.confidence)
    /\ \A r \in R : Rank(g.confidence) <= Rank(MapConfidence(r.confidence))
    /\ \E r \in R : g.start = r.start
    /\ \A r \in R : r.start # None => g.start \in 1..r.start
    /\ \E r \in R : g.end = r.end
    /\ \A r \in R : r.end <= g.end
    /\ ToSet(g.evidence) = UNION {ToSet(r.evidence) : r \in R}

\* min_opt and max_opt return a line they are given, the least and the greatest.
LEMMA LineOptions ==
    ASSUME NEW a \in Nat, NEW b \in Nat
    PROVE  /\ MinOpt(a, b) \in {a, b} /\ MaxOpt(a, b) \in {a, b}
           /\ MaxOpt(a, b) >= a /\ MaxOpt(a, b) >= b
           /\ a # None => MinOpt(a, b) \in 1..a
           /\ b # None => MinOpt(a, b) \in 1..b
<1>1. /\ Max({a, b}) \in {a, b} /\ Max({a, b}) >= a /\ Max({a, b}) >= b
      /\ Min({a, b}) \in {a, b} /\ Min({a, b}) <= a /\ Min({a, b}) <= b
  <2>1. a \in Int /\ b \in Int
    OBVIOUS
  <2> QED
    BY <2>1, MaxOfTwo
<1>2. CASE a = None \/ b = None
  <2>1. MinOpt(a, b) = Max({a, b})
    BY <1>2 DEF MinOpt
  <2> QED
    BY <1>1, <1>2, <2>1 DEF MaxOpt, None
<1>3. CASE a # None /\ b # None
  <2>1. MinOpt(a, b) = Min({a, b})
    BY <1>3 DEF MinOpt
  <2> QED
    BY <1>1, <1>3, <2>1 DEF MaxOpt, None
<1> QED
  BY <1>2, <1>3

\* The fields of a raw finding
LEMMA RawFields ==
    ASSUME NEW r \in Parsed
    PROVE  /\ r.detector \in STRING /\ r.contract \in Nat /\ r.function \in Nat
           /\ r.start \in 0..SourceLines /\ r.end \in 0..SourceLines
           /\ r.start \in Nat /\ r.end \in Nat
           /\ r.start <= r.end
           /\ r.evidence \in Seq(Nat)
BY AnalysisAssumption DEF Parsed, Raw

\* The fields of a group after an iteration of the merging loop
LEMMA MergeFields ==
    ASSUME NEW g \in Group, NEW r \in Parsed
    PROVE  LET h == MergeInto(g, r)
           IN  /\ h \in Group
               /\ h.detector = g.detector /\ h.contract = g.contract
               /\ h.function = g.function
               /\ h.severity = Higher(g.severity, MapSeverity(r.impact))
               /\ h.confidence = Higher(g.confidence, MapConfidence(r.confidence))
               /\ h.start = MinOpt(g.start, r.start) /\ h.end = MaxOpt(g.end, r.end)
               /\ h.evidence = AppendAllNew(g.evidence, r.evidence)
<1> DEFINE h == MergeInto(g, r)
<1>1. /\ g.detector \in STRING /\ g.contract \in Nat /\ g.function \in Nat
      /\ g.severity \in Given /\ g.confidence \in Confidences
      /\ g.start \in 0..SourceLines /\ g.end \in 0..SourceLines
      /\ g.start \in Nat /\ g.end \in Nat /\ g.evidence \in Seq(Nat)
  BY AnalysisAssumption DEF Group
<1>2. /\ h.detector = g.detector /\ h.contract = g.contract
      /\ h.function = g.function
      /\ h.severity = Higher(g.severity, MapSeverity(r.impact))
      /\ h.confidence = Higher(g.confidence, MapConfidence(r.confidence))
      /\ h.start = MinOpt(g.start, r.start) /\ h.end = MaxOpt(g.end, r.end)
      /\ h.evidence = AppendAllNew(g.evidence, r.evidence)
  BY DEF MergeInto, Group
<1>3. MinOpt(g.start, r.start) \in 0..SourceLines /\ MaxOpt(g.end, r.end) \in 0..SourceLines
  BY <1>1, RawFields, LineOptions
<1>4. AppendAllNew(g.evidence, r.evidence) \in Seq(Nat)
  BY <1>1, RawFields, AppendAllNewFacts
<1>5. /\ Higher(g.severity, MapSeverity(r.impact)) \in Given
      /\ Higher(g.confidence, MapConfidence(r.confidence)) \in Confidences
  BY <1>1, Levels
<1>6. \A ev \in Seq(Nat), s \in 0..SourceLines, e \in 0..SourceLines,
         v \in Given, c \in Confidences :
    [g EXCEPT !.evidence = ev, !.start = s, !.end = e, !.severity = v, !.confidence = c] \in Group
  BY DEF Group
<1>7. h \in Group
  BY <1>3, <1>4, <1>5, <1>6 DEF MergeInto
<1> QED
  BY <1>2, <1>7

\* or_insert_with and the rest of the iteration, of a first result
LEMMA GroupOfOne ==
    ASSUME NEW r \in Parsed
    PROVE  /\ MergeInto(NewGroup(r), r) \in Group
           /\ Describes(MergeInto(NewGroup(r), r), {r})
<1> DEFINE n == NewGroup(r)
           g == MergeInto(n, r)
           sev == MapSeverity(r.impact)
           conf == MapConfidence(r.confidence)
<1>1. sev \in Given /\ conf \in Confidences /\ Rank(sev) \in 0..4 /\ Rank(conf) \in 0..4
  BY Levels
<1>2. /\ n \in Group /\ n.detector = r.detector /\ n.contract = r.contract
      /\ n.function = r.function /\ n.severity = sev /\ n.confidence = conf
      /\ n.start = r.start /\ n.end = r.end /\ n.evidence = <<>>
  BY <1>1, RawFields DEF NewGroup, Group
<1> HIDE DEF n
<1>3. /\ g \in Group
      /\ g.detector = n.detector /\ g.contract = n.contract /\ g.function = n.function
      /\ g.severity = Higher(n.severity, sev) /\ g.confidence = Higher(n.confidence, conf)
      /\ g.start = MinOpt(n.start, r.start) /\ g.end = MaxOpt(n.end, r.end)
      /\ g.evidence = AppendAllNew(n.evidence, r.evidence)
  BY <1>2, MergeFields
<1>4. MinOpt(r.start, r.start) = r.start /\ MaxOpt(r.end, r.end) = r.end
  BY RawFields, LineOptions
<1>5. Higher(sev, sev) = sev /\ Higher(conf, conf) = conf
  BY Levels
<1>6. ToSet(g.evidence) = ToSet(r.evidence)
  <2>1. r.evidence \in Seq(Nat)
    BY RawFields
  <2>2. <<>> \in Seq(Nat)
    OBVIOUS
  <2>3. ToSet(AppendAllNew(<<>>, r.evidence)) = ToSet(<<>>) \cup ToSet(r.evidence)
    BY <2>1, <2>2, AppendAllNewFacts
  <2>4. ToSet(<<>>) = {}
    BY DEF ToSet
  <2> QED
    BY <1>2, <1>3, <2>3, <2>4
<1>7. UNION {ToSet(x.evidence) : x \in {r}} = ToSet(r.evidence)
  OBVIOUS
<1> HIDE DEF g
<1>8. Describes(g, {r})
  BY <1>1, <1>2, <1>3, <1>4, <1>5, <1>6, <1>7, RawFields DEF Describes, None
<1> QED
  BY <1>3, <1>8 DEF g, n

\* An iteration that finds the group of the result
LEMMA GroupGrows ==
    ASSUME NEW g \in Group, NEW R \in SUBSET Parsed, NEW r \in Parsed, Describes(g, R),
           g.contract = r.contract, g.function = r.function
    PROVE  /\ MergeInto(g, r) \in Group
           /\ Describes(MergeInto(g, r), R \cup {r})
<1> DEFINE ev == AppendAllNew(g.evidence, r.evidence)
           sev == MapSeverity(r.impact)
           conf == MapConfidence(r.confidence)
           S == R \cup {r}
<1>1. /\ g.detector \in STRING /\ g.contract \in Nat /\ g.function \in Nat
      /\ g.severity \in Given /\ g.confidence \in Confidences
      /\ g.start \in 0..SourceLines /\ g.end \in 0..SourceLines
      /\ g.start \in Nat /\ g.end \in Nat /\ g.evidence \in Seq(Nat)
  BY AnalysisAssumption DEF Group
<1>2. ev \in Seq(Nat) /\ ToSet(ev) = ToSet(g.evidence) \cup ToSet(r.evidence)
  BY <1>1, RawFields, AppendAllNewFacts
<1>3. /\ MinOpt(g.start, r.start) \in {g.start, r.start}
      /\ MaxOpt(g.end, r.end) \in {g.end, r.end}
      /\ MaxOpt(g.end, r.end) >= g.end /\ MaxOpt(g.end, r.end) >= r.end
      /\ g.start # None => MinOpt(g.start, r.start) \in 1..g.start
      /\ r.start # None => MinOpt(g.start, r.start) \in 1..r.start
  BY <1>1, RawFields, LineOptions
<1>4. /\ sev \in Given /\ conf \in Confidences
      /\ Higher(g.severity, sev) \in {g.severity, sev}
      /\ Rank(Higher(g.severity, sev)) <= Rank(g.severity)
      /\ Rank(Higher(g.severity, sev)) <= Rank(sev)
      /\ Higher(g.confidence, conf) \in {g.confidence, conf}
      /\ Rank(Higher(g.confidence, conf)) <= Rank(g.confidence)
      /\ Rank(Higher(g.confidence, conf)) <= Rank(conf)
  BY <1>1, Levels
<1> DEFINE h == MergeInto(g, r)
<1>5. h \in Group
  BY MergeFields
<1>6. /\ h.detector = g.detector /\ h.severity = Higher(g.severity, sev)
      /\ h.confidence = Higher(g.confidence, conf) /\ h.contract = g.contract
      /\ h.function = g.function /\ h.start = MinOpt(g.start, r.start)
      /\ h.end = MaxOpt(g.end, r.end) /\ h.evidence = ev
  BY MergeFields
<1> HIDE DEF ev, sev, conf, h
<1>8. \E x \in S : h.detector = x.detector
  BY <1>6 DEF Describes
<1>9. \A x \in S : h.contract = x.contract /\ h.function = x.function
  BY <1>6 DEF Describes
<1>10. \E x \in S : h.severity = MapSeverity(x.impact)
  BY <1>4, <1>6 DEF Describes, sev
<1>11. \E x \in S : h.confidence = MapConfidence(x.confidence)
  BY <1>4, <1>6 DEF Describes, conf
<1>12. ASSUME NEW x \in S
       PROVE  /\ Rank(h.severity) <= Rank(MapSeverity(x.impact))
              /\ Rank(h.confidence) <= Rank(MapConfidence(x.confidence))
  <2>1. /\ Rank(h.severity) \in Int /\ Rank(g.severity) \in Int /\ Rank(sev) \in Int
        /\ Rank(h.confidence) \in Int /\ Rank(g.confidence) \in Int /\ Rank(conf) \in Int
        /\ Rank(MapSeverity(x.impact)) \in Int /\ Rank(MapConfidence(x.confidence)) \in Int
    <3>1. /\ h.severity \in Severities /\ g.severity \in Severities /\ sev \in Severities
          /\ h.confidence \in Severities /\ g.confidence \in Severities
          /\ conf \in Severities
          /\ MapSeverity(x.impact) \in Severities /\ MapConfidence(x.confidence) \in Severities
      BY <1>1, <1>4, <1>6, Levels
    <3> QED
      BY <3>1, Levels
  <2>2. CASE x \in R
    <3>1. /\ Rank(g.severity) <= Rank(MapSeverity(x.impact))
          /\ Rank(g.confidence) <= Rank(MapConfidence(x.confidence))
      BY <2>2 DEF Describes
    <3> QED
      BY <1>4, <1>6, <2>1, <3>1
  <2>3. CASE x = r
    BY <1>4, <1>6, <2>3 DEF sev, conf
  <2> QED
    BY <2>2, <2>3
<1>13. \E x \in S : h.start = x.start
  BY <1>3, <1>6 DEF Describes
<1>14. \E x \in S : h.end = x.end
  BY <1>3, <1>6 DEF Describes
<1>15. ASSUME NEW x \in S
       PROVE  /\ x.start # None => h.start \in 1..x.start
              /\ x.end <= h.end
  <2>1. x \in Parsed
    OBVIOUS
  <2>2. x.start \in Nat /\ x.end \in Nat /\ r.start \in Nat /\ r.end \in Nat
    BY <2>1, RawFields
  <2>3. CASE x \in R
    <3>1. /\ x.start # None => g.start \in 1..x.start
          /\ x.end <= g.end
      BY <2>3 DEF Describes
    <3> QED
      BY <1>1, <1>3, <1>6, <2>2, <3>1 DEF None
  <2>4. CASE x = r
    BY <1>3, <1>6, <2>4
  <2> QED
    BY <2>3, <2>4
<1>16. ToSet(h.evidence) = UNION {ToSet(x.evidence) : x \in S}
  <2>1. ToSet(g.evidence) = UNION {ToSet(x.evidence) : x \in R}
    BY DEF Describes
  <2>2. UNION {ToSet(x.evidence) : x \in S} =
          (UNION {ToSet(x.evidence) : x \in R}) \cup ToSet(r.evidence)
    OBVIOUS
  <2> QED
    BY <1>2, <1>6, <2>1, <2>2
<1>17. Describes(h, S)
  <2> HIDE DEF S
  <2> QED
    BY <1>8, <1>9, <1>10, <1>11, <1>12, <1>13, <1>14, <1>15, <1>16 DEF Describes
<1> QED
  BY <1>5, <1>17 DEF h

\* What the results of a group have in common decides the group, but for the detector.
LEMMA DescribesOne ==
    ASSUME NEW R \in SUBSET Parsed, NEW g \in Group, NEW h \in Group,
           Describes(g, R), Describes(h, R)
    PROVE  /\ g.contract = h.contract /\ g.function = h.function
           /\ g.severity = h.severity /\ g.confidence = h.confidence
           /\ g.start = h.start /\ g.end = h.end
           /\ ToSet(g.evidence) = ToSet(h.evidence)
<1>1. /\ g.severity \in Severities /\ h.severity \in Severities
      /\ g.confidence \in Severities /\ h.confidence \in Severities
      /\ g.start \in Nat /\ h.start \in Nat /\ g.end \in Nat /\ h.end \in Nat
  BY Levels, AnalysisAssumption DEF Group
<1>2. g.contract = h.contract /\ g.function = h.function
  BY DEF Describes
<1>3. /\ Rank(g.severity) <= Rank(h.severity) /\ Rank(h.severity) <= Rank(g.severity)
      /\ Rank(g.confidence) <= Rank(h.confidence) /\ Rank(h.confidence) <= Rank(g.confidence)
  BY DEF Describes
<1>4. g.severity = h.severity /\ g.confidence = h.confidence
  <2>1. /\ Rank(g.severity) \in Int /\ Rank(h.severity) \in Int
        /\ Rank(g.confidence) \in Int /\ Rank(h.confidence) \in Int
    BY <1>1, Levels
  <2> QED
    BY <1>1, <1>3, <2>1, Levels
<1>5. g.end <= h.end /\ h.end <= g.end
  BY DEF Describes
<1>6. /\ h.start # None => g.start \in 1..h.start
      /\ g.start # None => h.start \in 1..g.start
  BY DEF Describes
<1> QED
  BY <1>1, <1>2, <1>4, <1>5, <1>6 DEF Describes, None

--------------------------------------------------------------------------------
(* finding_normalizer: the map of groups. *)

\* The type of a dedup key
Key == Nat \X Nat \X Nat \X Nat

\* The states of the map that merging fills
Merged == UNION {[K -> Group] : K \in SUBSET Key}

\* Dedup keys are quadruples of numbers.
LEMMA KeyType ==
    ASSUME NEW r, r.start \in Nat, r.contract \in Nat, r.function \in Nat
    PROVE  DedupKey(r) \in Key
<1>1. MapCategory(r.detector) \in Nat
  BY DEF MapCategory
<1>2. r.start \div BucketWidth \in Nat
  BY DEF BucketWidth
<1> QED
  BY <1>1, <1>2 DEF DedupKey, Key

\* The keys and the groups of a state of the map
LEMMA MergedElements ==
    ASSUME NEW G \in Merged
    PROVE  /\ DOMAIN G \in SUBSET Key
           /\ G \in [DOMAIN G -> Group]
           /\ \A k \in DOMAIN G : G[k] \in Group
BY DEF Merged

\* An iteration keeps the type of the map.
LEMMA MergeType ==
    ASSUME NEW G \in Merged, NEW r \in Parsed
    PROVE  Merge(G, r) \in Merged
<1> DEFINE D == DOMAIN G \cup {DedupKey(r)}
<1>1. D \in SUBSET Key
  BY MergedElements, RawFields, KeyType
<1>2. ASSUME NEW k \in D PROVE Merge(G, r)[k] \in Group
  <2>1. CASE k # DedupKey(r)
    BY <2>1, MergedElements DEF Merge
  <2>2. CASE k = DedupKey(r) /\ k \in DOMAIN G
    <3>1. MergeInto(G[k], r) \in Group
      BY <2>2, MergedElements, MergeFields
    <3> QED
      BY <2>2, <3>1 DEF Merge
  <2>3. CASE k = DedupKey(r) /\ k \notin DOMAIN G
    <3>1. MergeInto(NewGroup(r), r) \in Group
      BY GroupOfOne
    <3> QED
      BY <2>3, <3>1 DEF Merge
  <2> QED
    BY <2>1, <2>2, <2>3
<1>3. Merge(G, r) = [k \in D |-> Merge(G, r)[k]]
  BY DEF Merge
<1>4. Merge(G, r) \in [D -> Group]
  <2> HIDE DEF D
  <2> QED
    BY <1>2, <1>3
<1> HIDE DEF D
<1> QED
  BY <1>1, <1>4 DEF Merged

\* The equations of the merging loop
LEMMA GroupsFold ==
    ASSUME NEW raws \in Seq(Parsed)
    PROVE  \E acc \in [0..Len(raws) -> Merged] :
              /\ acc[0] = <<>>
              /\ \A i \in 1..Len(raws) : acc[i] = Merge(acc[i - 1], raws[i])
              /\ acc[Len(raws)] = Groups(raws)
<1> DEFINE n == Len(raws)
           V == Merged
           step == [w \in V \X (1..n) |-> Merge(w[1], raws[w[2]])]
           Obeys(g) == g = [s \in SUBSET DOMAIN raws |->
                              IF s = {} THEN <<>>
                              ELSE Merge(g[s \ {Max(s)}], raws[Max(s)])]
           fold == CHOOSE g : Obeys(g)
<1>1. n \in Nat /\ DOMAIN raws = 1..n /\ <<>> \in V
  <2>1. <<>> \in [{} -> Group]
    OBVIOUS
  <2>2. {} \in SUBSET Key
    OBVIOUS
  <2>3. <<>> \in V
    BY <2>1, <2>2 DEF Merged
  <2> QED
    BY <2>3
<1>2. \A v \in V, i \in 1..n : step[<<v, i>>] = Merge(v, raws[i])
  OBVIOUS
<1>3. step \in [V \X (1..n) -> V]
  BY MergeType
<1>4. Groups(raws) = fold[1..n]
  BY <1>1 DEF Groups, FoldLeft, MapThenFoldSet
<1> HIDE DEF V, step
<1>5. ASSUME NEW h \in [SUBSET (1..n) -> V], FoldOver(n, <<>>, step, h)
      PROVE  FoldFrom(n, V, <<>>, step, fold)
  <2>1. \A s \in SUBSET (1..n) : s # {} => Max(s) \in 1..n
    BY <1>1, MaxOfSubset
  <2>2. Obeys(h)
    BY <1>1, <1>2, <1>5, <2>1 DEF FoldOver
  <2>3. Obeys(fold)
    <3> HIDE DEF Obeys
    <3> QED
      BY <2>2
  <2> HIDE DEF fold
  <2> QED
    BY <1>1, <1>2, <2>1, <2>3 DEF FoldFrom
<1>6. PICK acc : Folded(n, V, <<>>, step, fold, acc)
  <2> HIDE DEF n, fold
  <2>1. (\E h \in [SUBSET (1..n) -> V] : FoldOver(n, <<>>, step, h))
          => FoldFrom(n, V, <<>>, step, fold)
    BY <1>5
  <2> QED
    BY <1>1, <1>3, <2>1, FoldWorks
<1> HIDE DEF fold
<1>7. \A i \in 1..n : acc[i] = Merge(acc[i - 1], raws[i])
  <2> HIDE DEF n
  <2>1. \A i \in 1..n : i - 1 \in 0..n
    BY <1>1
  <2> QED
    BY <1>2, <1>6, <2>1 DEF Folded
<1> QED
  BY <1>4, <1>6, <1>7 DEF Folded, V

\* The groups are those of the results' keys, and each is what its results merge into.
Holds(G, R) ==
    /\ DOMAIN G = {DedupKey(r) : r \in R}
    /\ \A k \in DOMAIN G : Describes(G[k], Part(R, k))

\* An iteration takes its result into the groups: the loop's invariant.
LEMMA MergeHolds ==
    ASSUME NEW G \in Merged, NEW R \in SUBSET Parsed, NEW r \in Parsed, Holds(G, R)
    PROVE  Holds(Merge(G, r), R \cup {r})
<1> DEFINE key == DedupKey(r)
           S == R \cup {r}
           H == Merge(G, r)
<1>1. DOMAIN H = DOMAIN G \cup {key}
  BY DEF Merge
<1>2. DOMAIN H = {DedupKey(x) : x \in S}
  BY <1>1 DEF Holds
<1>3. ASSUME NEW k \in DOMAIN H PROVE Describes(H[k], Part(S, k))
  <2>1. CASE k # key
    <3>1. H[k] = G[k] /\ k \in DOMAIN G
      BY <1>1, <2>1 DEF Merge
    <3>2. Part(S, k) = Part(R, k)
      BY <2>1 DEF Part
    <3> QED
      BY <3>1, <3>2 DEF Holds
  <2>2. CASE k = key /\ k \in DOMAIN G
    <3>1. H[k] = MergeInto(G[k], r)
      BY <1>1, <2>2 DEF Merge
    <3>2. Part(S, k) = Part(R, k) \cup {r}
      BY <2>2 DEF Part
    <3>3. G[k] \in Group /\ Describes(G[k], Part(R, k)) /\ Part(R, k) \in SUBSET Parsed
      BY <2>2, MergedElements DEF Holds, Part
    <3>4. PICK x \in Part(R, k) : G[k].detector = x.detector
      BY <3>3 DEF Describes
    <3>5. G[k].contract = x.contract /\ G[k].function = x.function
      BY <3>3 DEF Describes
    <3>6. DedupKey(x) = DedupKey(r)
      BY <2>2 DEF Part
    <3>7. x.contract = r.contract /\ x.function = r.function
      BY <3>6 DEF DedupKey
    <3>8. Describes(MergeInto(G[k], r), Part(R, k) \cup {r})
      BY <3>3, <3>5, <3>7, GroupGrows
    <3> QED
      BY <3>1, <3>2, <3>8
  <2>3. CASE k = key /\ k \notin DOMAIN G
    <3>1. H[k] = MergeInto(NewGroup(r), r)
      BY <1>1, <2>3 DEF Merge
    <3>2. Part(S, k) = {r}
      BY <2>3 DEF Part, Holds
    <3> QED
      BY <3>1, <3>2, GroupOfOne
  <2> QED
    BY <1>1, <2>1, <2>2, <2>3
<1> QED
  <2> HIDE DEF H, S
  <2>1. Holds(H, S)
    BY <1>2, <1>3 DEF Holds
  <2> QED
    BY <2>1 DEF H, S

\* After the loop the groups are those of all results.
LEMMA GroupsHold ==
    ASSUME NEW raws \in Seq(Parsed)
    PROVE  Groups(raws) \in Merged /\ Holds(Groups(raws), ToSet(raws))
<1>1. PICK acc \in [0..Len(raws) -> Merged] :
              /\ acc[0] = <<>>
              /\ \A i \in 1..Len(raws) : acc[i] = Merge(acc[i - 1], raws[i])
              /\ acc[Len(raws)] = Groups(raws)
  BY GroupsFold
<1>2. Len(raws) \in Nat /\ DOMAIN raws = 1..Len(raws)
  OBVIOUS
<1> DEFINE First(m) == {raws[i] : i \in 1..m}
           T == {m \in 0..Len(raws) : Holds(acc[m], First(m))}
<1>3. 0 \in T
  <2>1. First(0) = {} /\ DOMAIN acc[0] = {}
    BY <1>1
  <2> QED
    BY <1>2, <2>1 DEF Holds
<1>4. ASSUME NEW m \in 0..(Len(raws) - 1), m \in T PROVE m + 1 \in T
  <2>1. m + 1 \in 1..Len(raws) /\ (m + 1) - 1 = m /\ m \in 0..Len(raws)
          /\ m + 1 \in 0..Len(raws)
    BY <1>2
  <2>2. acc[m + 1] = Merge(acc[m], raws[m + 1])
    BY <1>1, <2>1
  <2>3. First(m + 1) = First(m) \cup {raws[m + 1]}
    <3>1. 1..(m + 1) = 1..m \cup {m + 1}
      BY <1>2
    <3> QED
      BY <3>1
  <2>4. acc[m] \in Merged /\ First(m) \in SUBSET Parsed /\ raws[m + 1] \in Parsed
    BY <1>1, <1>2, <2>1
  <2>5. Holds(acc[m], First(m))
    BY <1>4
  <2> HIDE DEF First
  <2>6. Holds(acc[m + 1], First(m + 1))
    BY <2>2, <2>3, <2>4, <2>5, MergeHolds
  <2> QED
    BY <2>1, <2>6
<1>5. \A m \in 0..Len(raws) : m \in T
  <2> HIDE DEF T
  <2> QED
    BY <1>2, <1>3, <1>4, BoundedInduction
<1>6. First(Len(raws)) = ToSet(raws)
  BY <1>2 DEF ToSet
<1>7. Len(raws) \in T
  BY <1>2, <1>5
<1> HIDE DEF First
<1> QED
  BY <1>1, <1>2, <1>6, <1>7

--------------------------------------------------------------------------------
(* finding_normalizer: sorting and numbering. *)

\* Different tuples of one length are ordered.
LEMMA LexTotal ==
    ASSUME NEW n \in Nat, NEW a \in [1..n -> Nat], NEW b \in [1..n -> Nat], a # b
    PROVE  LexLess(a, b) \/ LexLess(b, a)
<1> DEFINE T == {i \in 1..n : a[i] # b[i]}
<1>1. T \subseteq Nat /\ T # {}
  OBVIOUS
<1>2. PICK i \in T : \A j \in T : i <= j
  <2> HIDE DEF T
  <2> QED
    BY <1>1, LeastElement
<1>3. i \in 1..n /\ a[i] # b[i] /\ \A j \in 1..(i - 1) : a[j] = b[j]
  BY <1>2
<1>4. a[i] < b[i] \/ b[i] < a[i]
  BY <1>3
<1> QED
  BY <1>3, <1>4 DEF LexLess

\* The lexicographic order of tuples is transitive.
LEMMA LexTransitive ==
    ASSUME NEW n \in Nat, NEW a \in [1..n -> Nat], NEW b \in [1..n -> Nat],
           NEW c \in [1..n -> Nat], LexLess(a, b), LexLess(b, c)
    PROVE  LexLess(a, c)
<1>1. PICK i \in 1..n : a[i] < b[i] /\ \A j \in 1..(i - 1) : a[j] = b[j]
  BY DEF LexLess
<1>2. PICK k \in 1..n : b[k] < c[k] /\ \A j \in 1..(k - 1) : b[j] = c[j]
  BY DEF LexLess
<1> DEFINE m == IF i <= k THEN i ELSE k
<1>3. m \in 1..n /\ m <= i /\ m <= k
  OBVIOUS
<1>4. \A j \in 1..(m - 1) : a[j] = c[j]
  <2> TAKE j \in 1..(m - 1)
  <2>1. j \in 1..(i - 1) /\ j \in 1..(k - 1)
    BY <1>3
  <2> QED
    BY <1>1, <1>2, <2>1
<1>5. a[m] < c[m]
  <2>1. CASE i < k
    <3>1. i \in 1..(k - 1)
      BY <2>1
    <3> QED
      BY <1>1, <1>2, <2>1, <3>1
  <2>2. CASE i = k
    BY <1>1, <1>2, <2>2
  <2>3. CASE i > k
    <3>1. k \in 1..(i - 1)
      BY <2>3
    <3> QED
      BY <1>1, <1>2, <2>3, <3>1
  <2> QED
    BY <2>1, <2>2, <2>3
<1> QED
  BY <1>3, <1>4, <1>5 DEF LexLess

\* A finite set with distinct keys has the enumeration that SortedBy chooses.
LEMMA SortedByWorks ==
    ASSUME NEW S, IsFiniteSet(S), NEW n \in Nat, NEW key \in [S -> [1..n -> Nat]],
           \A x, y \in S : x # y => key[x] # key[y]
    PROVE  /\ SortedBy(S, key) \in SetToSeqs(S)
           /\ \A i, j \in DOMAIN SortedBy(S, key) : i < j =>
                  LexLess(key[SortedBy(S, key)[i]], key[SortedBy(S, key)[j]])
<1> DEFINE less == {p \in S \X S : LexLess(key[p[1]], key[p[2]])}
           Sorted(seq) == \A i, j \in DOMAIN seq : i < j => LexLess(key[seq[i]], key[seq[j]])
<1>1. \A x, y \in S : <<x, y>> \in less <=> LexLess(key[x], key[y])
  OBVIOUS
<1>2. \A x, y \in S : x # y => <<x, y>> \in less \/ <<y, x>> \in less
  <2> SUFFICES ASSUME NEW x \in S, NEW y \in S, x # y
               PROVE  LexLess(key[x], key[y]) \/ LexLess(key[y], key[x])
    BY <1>1
  <2>1. key[x] \in [1..n -> Nat] /\ key[y] \in [1..n -> Nat] /\ key[x] # key[y]
    OBVIOUS
  <2> QED
    BY <2>1, LexTotal
<1>3. \A x, y, z \in S : <<x, y>> \in less /\ <<y, z>> \in less => <<x, z>> \in less
  <2> SUFFICES ASSUME NEW x \in S, NEW y \in S, NEW z \in S,
                      LexLess(key[x], key[y]), LexLess(key[y], key[z])
               PROVE  LexLess(key[x], key[z])
    BY <1>1
  <2>1. key[x] \in [1..n -> Nat] /\ key[y] \in [1..n -> Nat] /\ key[z] \in [1..n -> Nat]
    OBVIOUS
  <2> QED
    BY <2>1, LexTransitive
<1>4. PICK seq \in SetToSeqs(S) : \A i, j \in DOMAIN seq : i < j => <<seq[i], seq[j]>> \in less
  <2> HIDE DEF less
  <2> QED
    BY <1>2, <1>3, SortedEnumeration
<1>5. Sorted(seq)
  BY <1>4
<1>6. \E s \in SetToSeqs(S) : Sorted(s)
  BY <1>5
<1> DEFINE c == CHOOSE s \in SetToSeqs(S) : Sorted(s)
<1>7. SortedBy(S, key) = c
  BY DEF SortedBy
<1>8. c \in SetToSeqs(S) /\ Sorted(c)
  <2> HIDE DEF Sorted
  <2> QED
    BY <1>6
<1> HIDE DEF c
<1> QED
  BY <1>7, <1>8

\* What the merging loop leaves is finite and has distinct sort keys.
LEMMA SortKeysWork ==
    ASSUME NEW raws \in Seq(Parsed)
    PROVE  LET G == Groups(raws)
           IN  /\ IsFiniteSet(DOMAIN G)
               /\ SortKeys(G) \in [DOMAIN G -> [1..8 -> Nat]]
               /\ \A x, y \in DOMAIN G : x # y => SortKeys(G)[x] # SortKeys(G)[y]
<1> DEFINE G == Groups(raws)
           n == Len(raws)
           f == [i \in 1..n |-> DedupKey(raws[i])]
<1>1. n \in Nat /\ DOMAIN raws = 1..n
  OBVIOUS
<1>2. G \in Merged /\ Holds(G, ToSet(raws))
  BY GroupsHold
<1>3. DOMAIN G = {DedupKey(raws[i]) : i \in 1..n}
  BY <1>1, <1>2 DEF Holds, ToSet
<1> HIDE DEF G
<1>4. IsFiniteSet(DOMAIN G)
  <2> HIDE DEF n
  <2>1. f \in Surjection(1..n, DOMAIN G)
    BY <1>1, <1>3 DEF Surjection
  <2>2. IsFiniteSet(1..n)
    BY <1>1, FS_Interval
  <2> QED
    BY <2>1, <2>2, FS_Surjection
<1>5. ASSUME NEW k \in DOMAIN G
      PROVE  /\ k \in Key /\ G[k].contract \in Nat /\ G[k].function \in Nat
             /\ G[k].start \in Nat /\ Rank(G[k].severity) \in Nat
             /\ SortKeys(G)[k] = <<Rank(G[k].severity), G[k].contract, G[k].function,
                                   G[k].start, k[1], k[2], k[3], k[4]>>
  <2>1. k \in Key /\ G[k] \in Group
    BY <1>2, MergedElements
  <2>2. G[k].severity \in Severities
    BY <2>1, Levels DEF Group
  <2>3. Rank(G[k].severity) \in Nat
    BY <2>2, Levels
  <2> QED
    BY <2>1, <2>3, AnalysisAssumption DEF SortKeys, Group
<1>6. ASSUME NEW k \in DOMAIN G PROVE SortKeys(G)[k] \in [1..8 -> Nat]
  <2>1. k[1] \in Nat /\ k[2] \in Nat /\ k[3] \in Nat /\ k[4] \in Nat
    BY <1>5 DEF Key
  <2>2. /\ Rank(G[k].severity) \in Nat /\ G[k].contract \in Nat
        /\ G[k].function \in Nat /\ G[k].start \in Nat
    BY <1>5
  <2>3. <<Rank(G[k].severity), G[k].contract, G[k].function, G[k].start,
          k[1], k[2], k[3], k[4]>> \in [1..8 -> Nat]
    BY <2>1, <2>2
  <2> QED
    BY <1>5, <2>3
<1>7. ASSUME NEW x \in DOMAIN G, NEW y \in DOMAIN G, SortKeys(G)[x] = SortKeys(G)[y]
      PROVE  x = y
  <2>1. x[1] = y[1] /\ x[2] = y[2] /\ x[3] = y[3] /\ x[4] = y[4]
    BY <1>5, <1>7
  <2>2. x = <<x[1], x[2], x[3], x[4]>> /\ y = <<y[1], y[2], y[3], y[4]>>
    BY <1>5 DEF Key
  <2> QED
    BY <2>1, <2>2
<1>8. SortKeys(G) = [k \in DOMAIN G |-> SortKeys(G)[k]]
  BY DEF SortKeys
<1>9. SortKeys(G) \in [DOMAIN G -> [1..8 -> Nat]]
  BY <1>6, <1>8
<1> QED
  BY <1>4, <1>7, <1>9 DEF G

\* The findings are the groups, each once.
LEMMA NormalizeLists ==
    ASSUME NEW raws \in Seq(Parsed)
    PROVE  \E n \in Nat : \E order \in [1..n -> DOMAIN Groups(raws)] :
              /\ Normalize(raws) = [i \in 1..n |-> NewFinding(i, Groups(raws)[order[i]])]
              /\ \A i, j \in 1..n : i # j => order[i] # order[j]
              /\ \A k \in DOMAIN Groups(raws) : \E i \in 1..n : order[i] = k
<1> DEFINE G == Groups(raws)
           S == DOMAIN G
           order == SortedBy(S, SortKeys(G))
           n == Cardinality(S)
<1>1. /\ IsFiniteSet(S) /\ SortKeys(G) \in [S -> [1..8 -> Nat]]
      /\ \A x, y \in S : x # y => SortKeys(G)[x] # SortKeys(G)[y]
  BY SortKeysWork
<1>2. order \in SetToSeqs(S)
  <2> HIDE DEF S, G
  <2>1. 8 \in Nat
    OBVIOUS
  <2> QED
    BY <1>1, <2>1, SortedByWorks
<1>3. /\ order \in [1..n -> S] /\ n \in Nat
      /\ \A i, j \in 1..n : i # j => order[i] # order[j]
      /\ \A k \in S : \E i \in 1..n : order[i] = k
  <2>1. IsFiniteSet(S)
    BY <1>1
  <2> HIDE DEF S, order
  <2>2. /\ order \in [1..Cardinality(S) -> S] /\ Cardinality(S) \in Nat
        /\ \A i, j \in 1..Cardinality(S) : i # j => order[i] # order[j]
        /\ \A k \in S : \E i \in 1..Cardinality(S) : order[i] = k
    BY <2>1, <1>2, EnumerationCovers
  <2> QED
    BY <2>2
<1>4. Normalize(raws) = [i \in DOMAIN order |-> NewFinding(i, G[order[i]])]
  BY DEF Normalize
<1> HIDE DEF order, n, G
<1>5. Normalize(raws) = [i \in 1..n |-> NewFinding(i, G[order[i]])]
  BY <1>3, <1>4
<1> QED
  BY <1>3, <1>5 DEF G

--------------------------------------------------------------------------------
(* risk_scorer: the list of findings. *)

\* The type of a score
ScoreRecord == [base : 1..10, final : 0..1000, severity : Severities]

\* The fields of a score
LEMMA ScoreType ==
    ASSUME NEW d, NEW s \in Given, NEW c \in Confidences
    PROVE  /\ Score(d, s, c) \in ScoreRecord
           /\ Score(d, s, c).base = BaseValue(s)
<1>1. WeightedScore(d, s, c) \in 180..855
  BY OffTheEdges
<1>2. BaseValue(s) \in 1..10
  BY DEF BaseValue, Given, Severities
<1>3. Band(WeightedScore(d, s, c)) \in Severities
  BY DEF Band, Severities
<1> QED
  BY <1>1, <1>2, <1>3 DEF Score, ScoreRecord, Severities

\* Finding, for a list of n of them
FindingOf(n) ==
    [id : 1..n, detector : STRING, severity : Severities, confidence : Confidences,
     contract : Nat, function : Nat, start : 0..SourceLines, end : 0..SourceLines,
     evidence : Seq(Nat), text : [Fields -> Text], score : ScoreRecord]

\* The finding f is the group g, scored.
Shows(f, g) ==
    /\ f.detector = g.detector /\ f.contract = g.contract /\ f.function = g.function
    /\ f.start = g.start /\ f.end = g.end /\ f.evidence = g.evidence
    /\ f.confidence = g.confidence
    /\ f.score = Score(g.detector, g.severity, g.confidence)
    /\ f.severity = f.score.severity

\* The findings fs are the groups of the results in R, each once.
Reports(fs, R) ==
    /\ \A i \in DOMAIN fs : \E g \in Group :
          Describes(g, Part(R, DedupKey(fs[i]))) /\ Shows(fs[i], g)
    /\ \A i, j \in DOMAIN fs : i # j => DedupKey(fs[i]) # DedupKey(fs[j])
    /\ \A r \in R : \E i \in DOMAIN fs : DedupKey(fs[i]) = DedupKey(r)
    /\ \A i \in DOMAIN fs : \E r \in R : DedupKey(fs[i]) = DedupKey(r)

\* A finding that shows a group has the group's key, though merging moved its start:
\* the start stays within the bucket.
LEMMA KeyOfGroup ==
    ASSUME NEW R \in SUBSET Parsed, NEW k, NEW g \in Group, Describes(g, Part(R, k)),
           NEW f, f.detector = g.detector, f.contract = g.contract,
           f.function = g.function, f.start = g.start
    PROVE  DedupKey(f) = k
<1>1. PICK r \in Part(R, k) : g.start = r.start
  BY DEF Describes
<1>2. PICK s \in Part(R, k) : g.detector = s.detector
  BY DEF Describes
<1>3. g.contract = r.contract /\ g.function = r.function
  BY DEF Describes
<1>4. DedupKey(r) = k /\ DedupKey(s) = k
  BY DEF Part
<1>5. MapCategory(r.detector) = MapCategory(s.detector)
  BY <1>4 DEF DedupKey
<1>6. DedupKey(f) = DedupKey(r)
  BY <1>1, <1>2, <1>3, <1>5 DEF DedupKey
<1> QED
  BY <1>4, <1>6

\* The texts of a new finding
LEMMA BlankText ==
    [k \in Fields |-> Blank] \in [Fields -> Text]
<1>1. Blank \in Text
  BY DEF Text
<1> QED
  BY <1>1

\* A finding of the list, after scoring
LEMMA ScoredFinding ==
    ASSUME NEW n \in Nat, NEW i \in 1..n, NEW g \in Group
    PROVE  LET f == NewFinding(i, g)
               s == Score(f.detector, f.severity, f.confidence)
               h == [f EXCEPT !.severity = s.severity, !.score = s]
           IN  h \in FindingOf(n) /\ Shows(h, g) /\ h.id = i
<1> DEFINE f == NewFinding(i, g)
           s == Score(f.detector, f.severity, f.confidence)
           h == [f EXCEPT !.severity = s.severity, !.score = s]
<1>1. /\ g.detector \in STRING /\ g.contract \in Nat /\ g.function \in Nat
      /\ g.severity \in Given /\ g.confidence \in Confidences
      /\ g.start \in 0..SourceLines /\ g.end \in 0..SourceLines
      /\ g.evidence \in Seq(Nat)
  BY DEF Group
<1>2. /\ f.detector = g.detector /\ f.severity = g.severity
      /\ f.confidence = g.confidence
  BY DEF NewFinding
<1>3. s = Score(g.detector, g.severity, g.confidence) /\ s \in ScoreRecord
  BY <1>1, <1>2, ScoreType
<1>4. s.severity \in Severities
  BY <1>3 DEF ScoreRecord
<1> HIDE DEF s
<1>5. f \in [id : 1..n, detector : STRING, severity : Given, confidence : Confidences,
             contract : Nat, function : Nat, start : 0..SourceLines, end : 0..SourceLines,
             evidence : Seq(Nat), text : [Fields -> Text], score : {None}]
  BY <1>1, BlankText DEF NewFinding
<1>6. h \in FindingOf(n)
  <2> HIDE DEF f
  <2> QED
    BY <1>3, <1>4, <1>5 DEF FindingOf
<1>7. /\ f.id = i /\ f.contract = g.contract /\ f.function = g.function
      /\ f.start = g.start /\ f.end = g.end /\ f.evidence = g.evidence
  BY DEF NewFinding
<1>8. /\ h.id = f.id /\ h.detector = f.detector /\ h.contract = f.contract
      /\ h.function = f.function /\ h.start = f.start /\ h.end = f.end
      /\ h.evidence = f.evidence /\ h.confidence = f.confidence
      /\ h.score = s /\ h.severity = s.severity
  <2> HIDE DEF f
  <2> QED
    BY <1>5
<1> HIDE DEF h, f
<1>9. Shows(h, g)
  BY <1>2, <1>3, <1>7, <1>8 DEF Shows
<1> QED
  BY <1>6, <1>7, <1>8, <1>9 DEF h, f, s

\* What analyze() returns lists the groups of its results, each once, scored.
LEMMA ScoredReports ==
    ASSUME NEW raws \in Seq(Parsed)
    PROVE  LET fs == Scored(Normalize(raws))
           IN  fs \in Seq(FindingOf(Len(fs))) /\ Reports(fs, ToSet(raws))
<1> DEFINE G == Groups(raws)
           R == ToSet(raws)
           fs == Scored(Normalize(raws))
<1>1. G \in Merged /\ Holds(G, R)
  BY GroupsHold
<1>2. R \in SUBSET Parsed
  BY DEF ToSet
<1>3. PICK n \in Nat : \E order \in [1..n -> DOMAIN G] :
              /\ Normalize(raws) = [i \in 1..n |-> NewFinding(i, G[order[i]])]
              /\ \A i, j \in 1..n : i # j => order[i] # order[j]
              /\ \A k \in DOMAIN G : \E i \in 1..n : order[i] = k
  BY NormalizeLists
<1>4. PICK order \in [1..n -> DOMAIN G] :
              /\ Normalize(raws) = [i \in 1..n |-> NewFinding(i, G[order[i]])]
              /\ \A i, j \in 1..n : i # j => order[i] # order[j]
              /\ \A k \in DOMAIN G : \E i \in 1..n : order[i] = k
  BY <1>3
<1>5. fs = [i \in 1..n |->
              LET f == NewFinding(i, G[order[i]])
                  s == Score(f.detector, f.severity, f.confidence)
              IN  [f EXCEPT !.severity = s.severity, !.score = s]]
  BY <1>4 DEF Scored
<1> HIDE DEF fs, G, R
<1>6. ASSUME NEW i \in 1..n
      PROVE  /\ fs[i] \in FindingOf(n) /\ Shows(fs[i], G[order[i]])
             /\ G[order[i]] \in Group
             /\ Describes(G[order[i]], Part(R, order[i]))
             /\ DedupKey(fs[i]) = order[i]
  <2>1. order[i] \in DOMAIN G
    OBVIOUS
  <2>2. G[order[i]] \in Group /\ Describes(G[order[i]], Part(R, order[i]))
    BY <1>1, <2>1, MergedElements DEF Holds
  <2>3. fs[i] \in FindingOf(n) /\ Shows(fs[i], G[order[i]])
    BY <1>5, <2>2, ScoredFinding
  <2>4. DedupKey(fs[i]) = order[i]
    BY <1>2, <2>2, <2>3, KeyOfGroup DEF Shows
  <2> QED
    BY <2>2, <2>3, <2>4
<1>7. fs = [i \in 1..n |-> fs[i]]
  BY <1>5
<1>8. fs \in [1..n -> FindingOf(n)]
  BY <1>6, <1>7
<1>9. fs \in Seq(FindingOf(n)) /\ Len(fs) = n /\ DOMAIN fs = 1..n
  BY <1>8
<1>10. \A i \in DOMAIN fs : \E g \in Group :
          Describes(g, Part(R, DedupKey(fs[i]))) /\ Shows(fs[i], g)
  BY <1>6, <1>9
<1>11. \A i, j \in DOMAIN fs : i # j => DedupKey(fs[i]) # DedupKey(fs[j])
  BY <1>4, <1>6, <1>9
<1>12. DOMAIN G = {DedupKey(r) : r \in R}
  BY <1>1 DEF Holds
<1>13. ASSUME NEW r \in R PROVE \E i \in DOMAIN fs : DedupKey(fs[i]) = DedupKey(r)
  <2>1. DedupKey(r) \in DOMAIN G
    BY <1>12
  <2>2. PICK i \in 1..n : order[i] = DedupKey(r)
    BY <1>4, <2>1
  <2> QED
    BY <1>6, <1>9, <2>2
<1>14. \A i \in DOMAIN fs : \E r \in R : DedupKey(fs[i]) = DedupKey(r)
  BY <1>6, <1>9, <1>12
<1>15. Reports(fs, R)
  BY <1>10, <1>11, <1>13, <1>14 DEF Reports
<1> QED
  BY <1>9, <1>15 DEF fs, R, Reports

\* A result is part of the finding that has its key.
LEMMA WithinIsKey ==
    ASSUME NEW r, NEW f
    PROVE  Within(r, f) <=> DedupKey(r) = DedupKey(f)
BY DEF Within, DedupKey

\* A higher severity has a higher base score.
LEMMA BaseOrder ==
    ASSUME NEW s \in Severities, NEW t \in Severities, Rank(s) <= Rank(t)
    PROVE  BaseValue(s) >= BaseValue(t)
BY DEF Severities, Rank, BaseValue

\* Only High maps to High, and no confidence ranks above it.
LEMMA HighConfidence ==
    /\ \A c : MapConfidence(c) = "High" <=> c = "High"
    /\ \A c \in Confidences : Rank(c) <= Rank("High") => c = "High"
<1>1. \A c : MapConfidence(c) = "High" <=> c = "High"
  BY DEF MapConfidence
<1>2. \A c \in Confidences : Rank(c) <= Rank("High") => c = "High"
  BY DEF Confidences, Rank
<1> QED
  BY <1>1, <1>2

\* EveryResultReported, NearbyResultsMerge and CriticalIsJustified of any list that
\* reports the results R
LEMMA ReportsKeepResults ==
    ASSUME NEW n, NEW fs \in Seq(FindingOf(n)), NEW R \in SUBSET Parsed, Reports(fs, R),
           NEW r \in R
    PROVE  \E i \in DOMAIN fs :
              /\ Within(r, fs[i])
              /\ \A j \in DOMAIN fs : Within(r, fs[j]) => j = i
              /\ r.start # None => fs[i].start \in 1..r.start /\ r.end <= fs[i].end
              /\ ToSet(r.evidence) \subseteq ToSet(fs[i].evidence)
              /\ fs[i].score.base >= BaseValue(MapSeverity(r.impact))
              /\ Rank(fs[i].confidence) <= Rank(MapConfidence(r.confidence))
<1>1. PICK i \in DOMAIN fs : DedupKey(fs[i]) = DedupKey(r)
  BY DEF Reports
<1>2. PICK g \in Group : Describes(g, Part(R, DedupKey(fs[i]))) /\ Shows(fs[i], g)
  BY DEF Reports
<1>3. r \in Part(R, DedupKey(fs[i]))
  BY <1>1 DEF Part
<1>4. Within(r, fs[i])
  BY <1>1, WithinIsKey
<1>5. ASSUME NEW j \in DOMAIN fs, Within(r, fs[j]) PROVE j = i
  <2>1. DedupKey(fs[j]) = DedupKey(fs[i])
    BY <1>1, <1>5, WithinIsKey
  <2> QED
    BY <2>1 DEF Reports
<1>6. r.start # None => fs[i].start \in 1..r.start /\ r.end <= fs[i].end
  BY <1>2, <1>3 DEF Describes, Shows
<1>7. ToSet(r.evidence) \subseteq ToSet(fs[i].evidence)
  <2>1. ToSet(g.evidence) = UNION {ToSet(x.evidence) : x \in Part(R, DedupKey(fs[i]))}
    BY <1>2 DEF Describes
  <2>2. fs[i].evidence = g.evidence
    BY <1>2 DEF Shows
  <2> QED
    BY <1>3, <2>1, <2>2
<1>8. fs[i].score.base >= BaseValue(MapSeverity(r.impact))
  <2>1. g.severity \in Given /\ g.confidence \in Confidences
    BY DEF Group
  <2>2. fs[i].score.base = BaseValue(g.severity)
    BY <1>2, <2>1, ScoreType DEF Shows
  <2>3. Rank(g.severity) <= Rank(MapSeverity(r.impact))
    BY <1>2, <1>3 DEF Describes
  <2>4. g.severity \in Severities /\ MapSeverity(r.impact) \in Severities
    BY <2>1, Levels
  <2> QED
    BY <2>2, <2>3, <2>4, BaseOrder
<1>9. Rank(fs[i].confidence) <= Rank(MapConfidence(r.confidence))
  BY <1>2, <1>3 DEF Describes, Shows
<1> QED
  BY <1>4, <1>5, <1>6, <1>7, <1>8, <1>9

\* Of three lines in different buckets two are more than a bucket apart.
LEMMA ThreeBuckets ==
    ASSUME NEW a \in Nat, NEW b \in Nat, NEW c \in Nat,
           a \div BucketWidth # b \div BucketWidth,
           a \div BucketWidth # c \div BucketWidth,
           b \div BucketWidth # c \div BucketWidth
    PROVE  \/ b - a > BucketWidth \/ a - b > BucketWidth
           \/ c - a > BucketWidth \/ a - c > BucketWidth
           \/ c - b > BucketWidth \/ b - c > BucketWidth
BY DEF BucketWidth

\* Two findings of one place in such a list are of different buckets.
LEMMA ReportsApart ==
    ASSUME NEW n, NEW fs \in Seq(FindingOf(n)), NEW R, Reports(fs, R),
           NEW i \in DOMAIN fs, NEW j \in DOMAIN fs, i # j, SamePlace(fs[i], fs[j])
    PROVE  /\ fs[i].start \in Nat /\ fs[j].start \in Nat
           /\ fs[i].start \div BucketWidth # fs[j].start \div BucketWidth
<1>1. DedupKey(fs[i]) # DedupKey(fs[j])
  BY DEF Reports
<1>2. fs[i] \in FindingOf(n) /\ fs[j] \in FindingOf(n)
  OBVIOUS
<1>3. fs[i].start \in Nat /\ fs[j].start \in Nat
  BY <1>2, AnalysisAssumption DEF FindingOf
<1> QED
  BY <1>1, <1>3 DEF DedupKey, SamePlace

\* NearbyResultsMerge of such a list
LEMMA ReportsNearby ==
    ASSUME NEW n, NEW fs \in Seq(FindingOf(n)), NEW R, Reports(fs, R),
           NEW i \in DOMAIN fs, NEW j \in DOMAIN fs, i # j, SamePlace(fs[i], fs[j])
    PROVE  /\ fs[i].start # fs[j].start
           /\ \A k \in DOMAIN fs \ {i, j} :
                 SamePlace(fs[i], fs[k]) =>
                     \E a, b \in {i, j, k} : fs[b].start - fs[a].start > BucketWidth
<1>1. fs[i].start # fs[j].start
  BY ReportsApart
<1>2. ASSUME NEW k \in DOMAIN fs \ {i, j}, SamePlace(fs[i], fs[k])
      PROVE  \E a, b \in {i, j, k} : fs[b].start - fs[a].start > BucketWidth
  <2>1. SamePlace(fs[j], fs[k])
    BY <1>2 DEF SamePlace
  <2>2. /\ fs[i].start \in Nat /\ fs[j].start \in Nat /\ fs[k].start \in Nat
        /\ fs[i].start \div BucketWidth # fs[j].start \div BucketWidth
        /\ fs[i].start \div BucketWidth # fs[k].start \div BucketWidth
        /\ fs[j].start \div BucketWidth # fs[k].start \div BucketWidth
    BY <1>2, <2>1, ReportsApart
  <2> DEFINE x == fs[i].start
             y == fs[j].start
             z == fs[k].start
  <2> HIDE DEF x, y, z
  <2>3. \/ y - x > BucketWidth \/ x - y > BucketWidth
        \/ z - x > BucketWidth \/ x - z > BucketWidth
        \/ z - y > BucketWidth \/ y - z > BucketWidth
    BY <2>2, ThreeBuckets DEF x, y, z
  <2> QED
    BY <2>3 DEF x, y, z
<1> QED
  BY <1>1, <1>2

\* CriticalIsJustified of such a list
LEMMA ReportsCritical ==
    ASSUME NEW fs, NEW R \in SUBSET Parsed, Reports(fs, R), NEW i \in DOMAIN fs
    PROVE  LET parts == {r \in R : Within(r, fs[i])}
               sure  == \E r \in parts : r.confidence = "High"
           IN  /\ fs[i].severity = "Critical" =>
                     sure /\ \E r \in parts : r.detector \in CriticalEligible
               /\ sure /\ (\A r \in parts : r.detector \in CriticalEligible) =>
                     fs[i].severity = "Critical"
<1> DEFINE parts == {r \in R : Within(r, fs[i])}
           sure  == \E r \in parts : r.confidence = "High"
<1>1. PICK g \in Group : Describes(g, Part(R, DedupKey(fs[i]))) /\ Shows(fs[i], g)
  BY DEF Reports
<1>2. parts = Part(R, DedupKey(fs[i]))
  BY WithinIsKey DEF Part
<1>3. Describes(g, parts)
  BY <1>1, <1>2
<1>4. g.severity \in Given /\ g.confidence \in Confidences
  BY DEF Group
<1>5. fs[i].severity = "Critical" <=> Escalates(g.detector, g.severity, g.confidence)
  BY <1>1, <1>4, SeverityIsBand DEF Shows
<1> HIDE DEF parts
<1>6. PICK r \in parts : g.detector = r.detector
  BY <1>3 DEF Describes
<1>7. PICK s \in parts : g.confidence = MapConfidence(s.confidence)
  BY <1>3 DEF Describes
<1>8. ASSUME fs[i].severity = "Critical"
      PROVE  sure /\ \E x \in parts : x.detector \in CriticalEligible
  <2>1. g.confidence = "High" /\ g.detector \in CriticalEligible
    BY <1>5, <1>8 DEF Escalates
  <2>2. s.confidence = "High"
    BY <1>7, <2>1, HighConfidence
  <2> QED
    BY <1>6, <2>1, <2>2
<1>9. ASSUME sure, \A x \in parts : x.detector \in CriticalEligible
      PROVE  fs[i].severity = "Critical"
  <2>1. PICK x \in parts : x.confidence = "High"
    BY <1>9
  <2>2. Rank(g.confidence) <= Rank(MapConfidence(x.confidence))
    BY <1>3 DEF Describes
  <2>3. g.confidence = "High"
    BY <1>4, <2>1, <2>2, HighConfidence
  <2>4. g.detector \in CriticalEligible
    BY <1>6, <1>9
  <2> QED
    BY <1>5, <2>3, <2>4 DEF Escalates
<1> QED
  BY <1>8, <1>9 DEF parts

\* What OrderFree keeps of a finding
Kept(f) ==
    [place |-> DedupKey(f), start |-> f.start, end |-> f.end, base |-> f.score.base,
     confidence |-> f.confidence, evidence |-> ToSet(f.evidence),
     final |-> IF Mixed(f) THEN None ELSE f.score.final]

\* The results of a key name finitely many detectors.
LEMMA FiniteParts ==
    ASSUME NEW n \in Nat, NEW raws \in [1..n -> Parsed], NEW key
    PROVE  /\ IsFiniteSet({r.detector : r \in Part(ToSet(raws), key)})
           /\ {r.detector : r \in Part(ToSet(raws), key)} =
                {raws[i].detector : i \in {x \in 1..n : DedupKey(raws[x]) = key}}
<1> DEFINE D == {x \in 1..n : DedupKey(raws[x]) = key}
           T == {r.detector : r \in Part(ToSet(raws), key)}
           f == [i \in D |-> raws[i].detector]
<1>1. T = {raws[i].detector : i \in D}
  BY DEF ToSet, Part
<1>2. IsFiniteSet(D)
  <2>1. IsFiniteSet(1..n) /\ D \in SUBSET (1..n)
    BY FS_Interval
  <2> QED
    BY <2>1, FS_Subset
<1>3. f \in Surjection(D, T)
  BY <1>1 DEF Surjection
<1>4. IsFiniteSet(T)
  BY <1>2, <1>3, FS_Surjection
<1> QED
  BY <1>1, <1>4

\* Two lists that report the same results keep the same.
LEMMA ReportsKeepTheSame ==
    ASSUME Results \in SUBSET Parsed,
           \A key : IsFiniteSet({r.detector : r \in Part(Results, key)}),
           NEW fs, NEW gs, Reports(fs, Results), Reports(gs, Results),
           NEW i \in DOMAIN fs
    PROVE  \E j \in DOMAIN gs : Kept(gs[j]) = Kept(fs[i])
<1> DEFINE key == DedupKey(fs[i])
           P == Part(Results, key)
<1>1. PICK g \in Group : Describes(g, P) /\ Shows(fs[i], g)
  BY DEF Reports
<1>2. PICK r \in Results : DedupKey(r) = key
  BY DEF Reports
<1>3. PICK j \in DOMAIN gs : DedupKey(gs[j]) = key
  BY <1>2 DEF Reports
<1>4. PICK h \in Group : Describes(h, P) /\ Shows(gs[j], h)
  BY <1>3 DEF Reports
<1>5. P \in SUBSET Parsed
  BY DEF Part
<1>6. /\ g.severity = h.severity /\ g.confidence = h.confidence
      /\ g.start = h.start /\ g.end = h.end
      /\ ToSet(g.evidence) = ToSet(h.evidence)
  <2> HIDE DEF P
  <2> QED
    BY <1>1, <1>4, <1>5, DescribesOne
<1>7. g.severity \in Given /\ g.confidence \in Confidences
  BY DEF Group
<1>8. fs[i].score.base = gs[j].score.base
  <2>1. /\ fs[i].score = Score(g.detector, g.severity, g.confidence)
        /\ gs[j].score = Score(h.detector, h.severity, h.confidence)
    BY <1>1, <1>4 DEF Shows
  <2>2. fs[i].score.base = BaseValue(g.severity)
    BY <1>7, <2>1, ScoreType
  <2>3. gs[j].score.base = BaseValue(h.severity)
    BY <1>6, <1>7, <2>1, ScoreType
  <2> QED
    BY <1>6, <2>2, <2>3
<1>9. \A x : Within(x, fs[i]) <=> Within(x, gs[j])
  BY <1>3, WithinIsKey
<1>10. Mixed(fs[i]) <=> Mixed(gs[j])
  BY <1>9 DEF Mixed
<1>11. ~Mixed(fs[i]) => fs[i].score = gs[j].score
  <2> HAVE ~Mixed(fs[i])
  <2> DEFINE T == {x.detector : x \in P}
  <2>1. {x \in Results : Within(x, fs[i])} = P
    BY WithinIsKey DEF Part
  <2>2. ~(Cardinality(T) > 1)
    BY <2>1 DEF Mixed
  <2>3. g.detector \in T /\ h.detector \in T
    BY <1>1, <1>4 DEF Describes
  <2>4. IsFiniteSet(T)
    OBVIOUS
  <2> HIDE DEF T
  <2>5. Cardinality(T) \in Nat /\ Cardinality(T) # 0
    BY <2>3, <2>4, FS_CardinalityType, FS_EmptySet
  <2>6. Cardinality(T) = 1
    BY <2>2, <2>5
  <2>7. PICK x : T = {x}
    BY <2>4, <2>6, FS_Singleton
  <2>8. g.detector = h.detector
    BY <2>3, <2>7
  <2> QED
    BY <1>1, <1>4, <1>6, <2>8 DEF Shows
<1>12. /\ fs[i].start = gs[j].start /\ fs[i].end = gs[j].end
       /\ fs[i].confidence = gs[j].confidence
       /\ ToSet(fs[i].evidence) = ToSet(gs[j].evidence)
  BY <1>1, <1>4, <1>6 DEF Shows
<1>13. Kept(gs[j]) = Kept(fs[i])
  BY <1>3, <1>8, <1>10, <1>11, <1>12 DEF Kept
<1> QED
  BY <1>13

--------------------------------------------------------------------------------
(* llm_analyzer: the excerpt. *)

\* Line ranges of the source
Ranges == {w \in (1..SourceLines) \X (1..SourceLines) : w[1] <= w[2]}

\* The lines of a range
LEMMA RangeFields ==
    ASSUME NEW w \in Ranges
    PROVE  /\ w[1] \in 1..SourceLines /\ w[2] \in 1..SourceLines /\ w[1] <= w[2]
           /\ w[1] \in Nat /\ w[2] \in Nat /\ SourceLines \in Nat
BY AnalysisAssumption DEF Ranges

\* The window of a finding holds the lines near it, within the source.
LEMMA WindowType ==
    ASSUME NEW f, f.start \in 1..SourceLines, f.end \in 1..SourceLines, f.start <= f.end
    PROVE  /\ Window(f) \in Ranges
           /\ \A n \in 1..SourceLines :
                 n \in Window(f)[1]..Window(f)[2] <=>
                    f.start - Pad <= n /\ n <= f.end + Pad
<1> DEFINE a == f.start - Pad
           b == f.end + Pad
<1>1. SourceLines \in Nat /\ SourceLines >= 1
  BY AnalysisAssumption
<1>2. /\ a \in Int /\ b \in Int /\ a <= SourceLines /\ 1 <= b /\ a <= b
      /\ f.start \in Int /\ f.end \in Int
  BY <1>1 DEF Pad
<1> HIDE DEF a, b
<1> DEFINE lo == Max({a, 1})
           hi == Min({b, SourceLines})
<1>3. lo \in Int /\ (lo = a \/ lo = 1) /\ lo >= a /\ lo >= 1
  <2>1. 1 \in Int
    OBVIOUS
  <2>2. lo \in {a, 1} /\ lo >= a /\ lo >= 1
    BY <1>2, <2>1, MaxOfTwo
  <2> HIDE DEF lo
  <2> QED
    BY <1>2, <2>2
<1>4. hi \in Int /\ (hi = b \/ hi = SourceLines) /\ hi <= b /\ hi <= SourceLines
  <2>1. SourceLines \in Int
    BY <1>1
  <2>2. hi \in {b, SourceLines} /\ hi <= b /\ hi <= SourceLines
    BY <1>2, <2>1, MaxOfTwo
  <2> HIDE DEF hi
  <2> QED
    BY <1>1, <1>2, <2>2
<1>5. Window(f) = <<lo, hi>>
  BY DEF Window, a, b
<1> HIDE DEF lo, hi
<1>6. Window(f)[1] = lo /\ Window(f)[2] = hi
  BY <1>5
<1>7. lo \in 1..SourceLines /\ hi \in 1..SourceLines /\ lo <= hi
  BY <1>1, <1>2, <1>3, <1>4
<1>8. Window(f) \in Ranges
  BY <1>5, <1>7 DEF Ranges
<1>9. \A n \in 1..SourceLines : n \in lo..hi <=> a <= n /\ n <= b
  BY <1>1, <1>2, <1>3, <1>4, <1>7
<1> QED
  BY <1>6, <1>8, <1>9 DEF a, b

\* The two cases of an iteration of the joining loop
LEMMA JoinShape ==
    ASSUME NEW ws \in Seq(Ranges), NEW w \in Ranges
    PROVE  LET m == Len(ws)
               j == JoinWindow(ws, w)
           IN  /\ m \in Nat
               /\ m # 0 /\ w[1] <= ws[m][2] + 1 =>
                     /\ Len(j) = m /\ j[m] = <<ws[m][1], Max({ws[m][2], w[2]})>>
                     /\ \A i \in 1..(m - 1) : j[i] = ws[i]
                     /\ j \in Seq((1..SourceLines) \X (1..SourceLines))
               /\ ~(m # 0 /\ w[1] <= ws[m][2] + 1) =>
                     /\ Len(j) = m + 1 /\ j[m + 1] = w
                     /\ \A i \in 1..m : j[i] = ws[i]
                     /\ j \in Seq(Ranges)
<1> DEFINE m == Len(ws)
           j == JoinWindow(ws, w)
<1>1. m \in Nat /\ (ws # <<>> <=> m # 0)
  OBVIOUS
<1>2. ASSUME m # 0, w[1] <= ws[m][2] + 1
      PROVE  /\ Len(j) = m /\ j[m] = <<ws[m][1], Max({ws[m][2], w[2]})>>
             /\ \A i \in 1..(m - 1) : j[i] = ws[i]
             /\ j \in Seq((1..SourceLines) \X (1..SourceLines))
  <2> DEFINE x == <<ws[m][1], Max({ws[m][2], w[2]})>>
             fr == SubSeq(ws, 1, m - 1)
  <2>1. j = Append(fr, x)
    BY <1>1, <1>2 DEF JoinWindow, Last, Front
  <2>2. fr \in Seq(Ranges) /\ Len(fr) = m - 1 /\ \A i \in 1..(m - 1) : fr[i] = ws[i]
    <3>1. 1 \in Int /\ m - 1 \in Int /\ \A i \in 1..(m - 1) : ws[i] \in Ranges
      BY <1>1, <1>2
    <3>2. /\ SubSeq(ws, 1, m - 1) \in Seq(Ranges)
          /\ Len(SubSeq(ws, 1, m - 1)) = IF 1 <= m - 1 THEN (m - 1) - 1 + 1 ELSE 0
          /\ \A i \in 1..((m - 1) - 1 + 1) : SubSeq(ws, 1, m - 1)[i] = ws[1 + i - 1]
      <4> HIDE DEF m
      <4> QED
        BY <3>1, SubSeqProperties
    <3> HIDE DEF m
    <3> QED
      BY <1>1, <1>2, <3>2
  <2>3. ws[m] \in Ranges
    BY <1>1, <1>2
  <2>4. x \in (1..SourceLines) \X (1..SourceLines)
    <3>1. /\ ws[m][1] \in 1..SourceLines /\ ws[m][2] \in 1..SourceLines
          /\ ws[m][2] \in Int /\ w[2] \in 1..SourceLines /\ w[2] \in Int
      BY <2>3, RangeFields
    <3>2. Max({ws[m][2], w[2]}) \in {ws[m][2], w[2]}
      BY <3>1, MaxOfTwo
    <3> QED
      BY <3>1, <3>2
  <2>5. fr \in Seq((1..SourceLines) \X (1..SourceLines))
    BY <2>2 DEF Ranges
  <2> HIDE DEF x, fr, j, m
  <2>6. j \in Seq((1..SourceLines) \X (1..SourceLines))
    BY <2>1, <2>4, <2>5
  <2>7. Len(j) = m /\ j[m] = x /\ \A i \in 1..(m - 1) : j[i] = ws[i]
    BY <1>1, <2>1, <2>2
  <2> QED
    BY <2>6, <2>7 DEF x
<1>3. ASSUME ~(m # 0 /\ w[1] <= ws[m][2] + 1)
      PROVE  /\ Len(j) = m + 1 /\ j[m + 1] = w
             /\ \A i \in 1..m : j[i] = ws[i]
             /\ j \in Seq(Ranges)
  <2>1. j = Append(ws, w)
    BY <1>1, <1>3 DEF JoinWindow, Last
  <2> QED
    BY <1>1, <2>1
<1> QED
  BY <1>1, <1>2, <1>3

\* Joining keeps ranges of the source.
LEMMA JoinType ==
    ASSUME NEW ws \in Seq(Ranges), NEW w \in Ranges
    PROVE  JoinWindow(ws, w) \in Seq(Ranges)
<1> DEFINE m == Len(ws)
           j == JoinWindow(ws, w)
<1>1. CASE m # 0 /\ w[1] <= ws[m][2] + 1
  <2>1. /\ m \in Nat /\ Len(j) = m /\ j[m] = <<ws[m][1], Max({ws[m][2], w[2]})>>
        /\ \A i \in 1..(m - 1) : j[i] = ws[i]
        /\ j \in Seq((1..SourceLines) \X (1..SourceLines))
    BY <1>1, JoinShape
  <2>2. ws[m] \in Ranges
    BY <1>1, <2>1
  <2>3. ws[m][1] <= Max({ws[m][2], w[2]})
    <3>1. ws[m][2] \in Int /\ w[2] \in Int /\ ws[m][1] \in Int /\ ws[m][1] <= ws[m][2]
      BY <2>2, RangeFields
    <3>2. Max({ws[m][2], w[2]}) \in {ws[m][2], w[2]} /\ Max({ws[m][2], w[2]}) >= ws[m][2]
      BY <3>1, MaxOfTwo
    <3> QED
      BY <3>1, <3>2
  <2>4. ASSUME NEW i \in 1..m PROVE j[i] \in Ranges
    <3>1. j[i] \in (1..SourceLines) \X (1..SourceLines)
      BY <2>1
    <3>2. CASE i = m
      BY <2>1, <2>3, <3>1, <3>2 DEF Ranges
    <3>3. CASE i # m
      <4>1. i \in 1..(m - 1) /\ ws[i] \in Ranges
        BY <2>1, <3>3
      <4> QED
        BY <2>1, <4>1
    <3> QED
      BY <3>2, <3>3
  <2>5. j = [i \in 1..m |-> j[i]]
    BY <2>1
  <2> HIDE DEF j
  <2>6. j \in [1..m -> Ranges]
    BY <2>4, <2>5
  <2>7. m \in Nat
    BY <2>1
  <2> HIDE DEF m
  <2>8. j \in Seq(Ranges)
    BY <2>6, <2>7
  <2> QED
    BY <2>8 DEF j
<1>2. CASE ~(m # 0 /\ w[1] <= ws[m][2] + 1)
  BY <1>2, JoinShape
<1> QED
  BY <1>1, <1>2

\* The ranges ws are separate, ascending, cover what those of U cover, and the last one
\* starts no later than line lo.
Joined(ws, U, lo) ==
    /\ \A i \in 1..(Len(ws) - 1) : ws[i][2] + 1 < ws[i + 1][1]
    /\ \A x \in 1..SourceLines :
          (\E i \in 1..Len(ws) : x \in ws[i][1]..ws[i][2]) <=> \E u \in U : x \in u[1]..u[2]
    /\ ws # <<>> => ws[Len(ws)][1] <= lo

\* An iteration with a window that starts no earlier keeps the loop's invariant.
LEMMA JoinJoins ==
    ASSUME NEW ws \in Seq(Ranges), NEW U \in SUBSET Ranges, NEW w \in Ranges,
           NEW lo \in Int, Joined(ws, U, lo), lo <= w[1]
    PROVE  Joined(JoinWindow(ws, w), U \cup {w}, w[1])
<1> DEFINE m == Len(ws)
           j == JoinWindow(ws, w)
<1>1. m \in Nat /\ (ws # <<>> <=> m # 0) /\ \A i \in 1..m : ws[i] \in Ranges
  OBVIOUS
<1>2. w[1] \in Int /\ w[2] \in Int /\ w[1] <= w[2] /\ SourceLines \in Nat
  BY RangeFields
<1>3. \A x \in 1..SourceLines :
         (\E u \in U \cup {w} : x \in u[1]..u[2]) <=>
            x \in w[1]..w[2] \/ \E i \in 1..m : x \in ws[i][1]..ws[i][2]
  BY DEF Joined
<1>4. \A i \in 1..m : ws[i][1] \in Int /\ ws[i][2] \in Int /\ ws[i][1] <= ws[i][2]
  BY <1>1, RangeFields
<1>5. CASE m # 0 /\ w[1] <= ws[m][2] + 1
  <2> DEFINE top == Max({ws[m][2], w[2]})
  <2>1. /\ Len(j) = m /\ j[m] = <<ws[m][1], top>>
        /\ \A i \in 1..(m - 1) : j[i] = ws[i]
    BY <1>5, JoinShape
  <2>2. m \in 1..m /\ ws[m][1] \in Int /\ ws[m][2] \in Int /\ ws[m][1] <= ws[m][2]
    BY <1>1, <1>4, <1>5
  <2>3. top \in {ws[m][2], w[2]} /\ top >= ws[m][2] /\ top >= w[2]
    BY <1>2, <2>2, MaxOfTwo
  <2>4. ws[m][1] <= lo /\ ws[m][1] <= w[1]
    BY <1>1, <1>2, <1>5, <2>2 DEF Joined
  <2> HIDE DEF top, j, m
  <2>5. j[m][1] = ws[m][1] /\ j[m][2] = top
    BY <2>1
  <2>6. \A x \in 1..SourceLines :
           x \in j[m][1]..j[m][2] <=> x \in ws[m][1]..ws[m][2] \/ x \in w[1]..w[2]
    BY <1>2, <1>5, <2>2, <2>3, <2>4, <2>5
  <2>7. \A x \in 1..SourceLines :
          (\E i \in 1..Len(j) : x \in j[i][1]..j[i][2])
             <=> x \in w[1]..w[2] \/ \E i \in 1..m : x \in ws[i][1]..ws[i][2]
    <3> TAKE x \in 1..SourceLines
    <3>1. \A i \in 1..m : i = m \/ i \in 1..(m - 1)
      BY <1>1
    <3>2. \A i \in 1..(m - 1) : i \in 1..m
      BY <1>1
    <3> QED
      BY <2>1, <2>2, <2>6, <3>1, <3>2
  <2>8. ASSUME NEW i \in 1..(m - 1) PROVE j[i][2] + 1 < j[i + 1][1]
    <3>1. ws[i][2] + 1 < ws[i + 1][1]
      BY DEF Joined, m
    <3>2. i + 1 = m \/ i + 1 \in 1..(m - 1)
      BY <1>1
    <3> QED
      BY <2>1, <2>5, <3>1, <3>2
  <2>9. j # <<>> => j[Len(j)][1] <= w[1]
    BY <2>1, <2>4, <2>5
  <2>10. Joined(j, U \cup {w}, w[1])
    BY <1>3, <2>1, <2>7, <2>8, <2>9 DEF Joined
  <2> QED
    BY <2>10 DEF j
<1>6. CASE ~(m # 0 /\ w[1] <= ws[m][2] + 1)
  <2>1. /\ Len(j) = m + 1 /\ j[m + 1] = w
        /\ \A i \in 1..m : j[i] = ws[i]
    BY <1>6, JoinShape
  <2>2. m # 0 => ws[m][2] + 1 < w[1]
    BY <1>1, <1>2, <1>4, <1>6
  <2> HIDE DEF j
  <2>3. \A x \in 1..SourceLines :
          (\E i \in 1..Len(j) : x \in j[i][1]..j[i][2])
             <=> x \in w[1]..w[2] \/ \E i \in 1..m : x \in ws[i][1]..ws[i][2]
    <3> TAKE x \in 1..SourceLines
    <3>1. \A i \in 1..(m + 1) : i = m + 1 \/ i \in 1..m
      BY <1>1
    <3>2. m + 1 \in 1..(m + 1) /\ \A i \in 1..m : i \in 1..(m + 1)
      BY <1>1
    <3> HIDE DEF m
    <3> QED
      BY <2>1, <3>1, <3>2
  <2>4. ASSUME NEW i \in 1..m PROVE j[i][2] + 1 < j[i + 1][1]
    <3>1. CASE i = m
      BY <1>1, <2>1, <2>2, <3>1
    <3>2. CASE i # m
      <4>1. i \in 1..(m - 1) /\ i + 1 \in 1..m
        BY <1>1, <3>2
      <4>2. ws[i][2] + 1 < ws[i + 1][1]
        BY <4>1 DEF Joined
      <4> QED
        BY <2>1, <4>1, <4>2
    <3> QED
      BY <3>1, <3>2
  <2>5. j[Len(j)][1] <= w[1]
    BY <1>2, <2>1
  <2>6. Len(j) - 1 = m
    BY <1>1, <2>1
  <2> HIDE DEF m
  <2>7. Joined(j, U \cup {w}, w[1])
    BY <1>3, <2>3, <2>4, <2>5, <2>6 DEF Joined
  <2> QED
    BY <2>7 DEF j
<1> QED
  BY <1>5, <1>6

\* The equations of the joining loop
LEMMA JoinFold ==
    ASSUME NEW ws \in Seq(Ranges)
    PROVE  \E acc \in [0..Len(ws) -> Seq(Ranges)] :
              /\ acc[0] = <<>>
              /\ \A i \in 1..Len(ws) : acc[i] = JoinWindow(acc[i - 1], ws[i])
              /\ acc[Len(ws)] = FoldLeft(JoinWindow, <<>>, ws)
<1> DEFINE n == Len(ws)
           V == Seq(Ranges)
           step == [w \in V \X (1..n) |-> JoinWindow(w[1], ws[w[2]])]
           Obeys(g) == g = [s \in SUBSET DOMAIN ws |->
                              IF s = {} THEN <<>>
                              ELSE JoinWindow(g[s \ {Max(s)}], ws[Max(s)])]
           fold == CHOOSE g : Obeys(g)
<1>1. n \in Nat /\ DOMAIN ws = 1..n /\ <<>> \in V
  OBVIOUS
<1>2. \A v \in V, i \in 1..n : step[<<v, i>>] = JoinWindow(v, ws[i])
  OBVIOUS
<1>3. step \in [V \X (1..n) -> V]
  <2>1. ASSUME NEW v \in V, NEW i \in 1..n PROVE JoinWindow(v, ws[i]) \in V
    <3>1. v \in Seq(Ranges) /\ ws[i] \in Ranges
      BY <1>1
    <3> QED
      BY <3>1, JoinType
  <2> QED
    BY <2>1
<1>4. FoldLeft(JoinWindow, <<>>, ws) = fold[1..n]
  BY <1>1 DEF FoldLeft, MapThenFoldSet
<1> HIDE DEF V, step
<1>5. ASSUME NEW h \in [SUBSET (1..n) -> V], FoldOver(n, <<>>, step, h)
      PROVE  FoldFrom(n, V, <<>>, step, fold)
  <2>1. \A s \in SUBSET (1..n) : s # {} => Max(s) \in 1..n
    BY <1>1, MaxOfSubset
  <2>2. Obeys(h)
    BY <1>1, <1>2, <1>5, <2>1 DEF FoldOver
  <2>3. Obeys(fold)
    <3> HIDE DEF Obeys
    <3> QED
      BY <2>2
  <2> HIDE DEF fold
  <2> QED
    BY <1>1, <1>2, <2>1, <2>3 DEF FoldFrom
<1>6. PICK acc : Folded(n, V, <<>>, step, fold, acc)
  <2> HIDE DEF n, fold
  <2>1. (\E h \in [SUBSET (1..n) -> V] : FoldOver(n, <<>>, step, h))
          => FoldFrom(n, V, <<>>, step, fold)
    BY <1>5
  <2> QED
    BY <1>1, <1>3, <2>1, FoldWorks
<1> HIDE DEF fold
<1>7. \A i \in 1..n : acc[i] = JoinWindow(acc[i - 1], ws[i])
  <2> HIDE DEF n
  <2>1. \A i \in 1..n : i - 1 \in 0..n
    BY <1>1
  <2> QED
    BY <1>2, <1>6, <2>1 DEF Folded
<1> QED
  BY <1>4, <1>6, <1>7 DEF Folded, V

\* Windows in ascending order of their starts, joined
LEMMA JoinedWindows ==
    ASSUME NEW ws \in Seq(Ranges),
           \A i, j \in 1..Len(ws) : i < j => ws[i][1] <= ws[j][1]
    PROVE  LET E == FoldLeft(JoinWindow, <<>>, ws)
           IN  E \in Seq(Ranges) /\ \E lo \in Int : Joined(E, ToSet(ws), lo)
<1>1. PICK acc \in [0..Len(ws) -> Seq(Ranges)] :
              /\ acc[0] = <<>>
              /\ \A i \in 1..Len(ws) : acc[i] = JoinWindow(acc[i - 1], ws[i])
              /\ acc[Len(ws)] = FoldLeft(JoinWindow, <<>>, ws)
  BY JoinFold
<1>2. Len(ws) \in Nat /\ DOMAIN ws = 1..Len(ws) /\ \A i \in 1..Len(ws) : ws[i] \in Ranges
  OBVIOUS
<1> DEFINE First(m) == {ws[i] : i \in 1..m}
           lo(m) == IF m = 0 THEN 0 ELSE ws[m][1]
           T == {m \in 0..Len(ws) : Joined(acc[m], First(m), lo(m))}
<1>3. 0 \in T
  <2>1. First(0) = {} /\ lo(0) = 0
    OBVIOUS
  <2>2. Joined(<<>>, {}, 0)
    BY DEF Joined
  <2> HIDE DEF First, lo
  <2>3. Joined(acc[0], First(0), lo(0))
    BY <1>1, <2>1, <2>2
  <2> QED
    BY <1>2, <2>3
<1>4. \A m \in 0..Len(ws) : lo(m) \in Int
  <2> TAKE m \in 0..Len(ws)
  <2>1. CASE m = 0
    BY <2>1
  <2>2. CASE m # 0
    <3>1. ws[m] \in Ranges
      BY <1>2, <2>2
    <3> QED
      BY <2>2, <3>1, RangeFields
  <2> QED
    BY <2>1, <2>2
<1>5. ASSUME NEW m \in 0..(Len(ws) - 1), m \in T PROVE m + 1 \in T
  <2>1. m + 1 \in 1..Len(ws) /\ (m + 1) - 1 = m /\ m \in 0..Len(ws)
          /\ m + 1 \in 0..Len(ws)
    BY <1>2
  <2>2. acc[m + 1] = JoinWindow(acc[m], ws[m + 1])
    BY <1>1, <2>1
  <2>3. First(m + 1) = First(m) \cup {ws[m + 1]}
    <3>1. 1..(m + 1) = 1..m \cup {m + 1}
      BY <1>2
    <3> QED
      BY <3>1
  <2>4. acc[m] \in Seq(Ranges) /\ First(m) \in SUBSET Ranges /\ ws[m + 1] \in Ranges
    BY <1>1, <1>2, <2>1
  <2>5. Joined(acc[m], First(m), lo(m))
    BY <1>5
  <2>6. lo(m) <= ws[m + 1][1]
    <3>1. CASE m = 0
      <4>1. ws[1] \in Ranges
        BY <2>4, <3>1
      <4>2. 0 <= ws[1][1]
        BY <4>1, RangeFields
      <4> QED
        BY <3>1, <4>2
    <3>2. CASE m # 0
      BY <1>2, <2>1, <3>2
    <3> QED
      BY <3>1, <3>2
  <2>7. lo(m + 1) = ws[m + 1][1] /\ lo(m) \in Int
    BY <1>4, <2>1
  <2> HIDE DEF First, lo
  <2>8. Joined(acc[m + 1], First(m + 1), lo(m + 1))
    BY <2>2, <2>3, <2>4, <2>5, <2>6, <2>7, JoinJoins
  <2> QED
    BY <2>1, <2>8
<1>6. \A m \in 0..Len(ws) : m \in T
  <2> HIDE DEF T
  <2> QED
    BY <1>2, <1>3, <1>5, BoundedInduction
<1>7. First(Len(ws)) = ToSet(ws)
  BY <1>2 DEF ToSet
<1>8. Joined(acc[Len(ws)], First(Len(ws)), lo(Len(ws)))
  <2> HIDE DEF First, lo
  <2>1. Len(ws) \in 0..Len(ws)
    BY <1>2
  <2> QED
    BY <1>6, <2>1
<1>9. lo(Len(ws)) \in Int
  BY <1>2, <1>4
<1> HIDE DEF First, lo
<1> QED
  BY <1>1, <1>2, <1>7, <1>8, <1>9

\* Findings whose lines are in order
InOrder(fs) ==
    \A i \in DOMAIN fs :
        /\ fs[i].start \in 0..SourceLines /\ fs[i].end \in 0..SourceLines
        /\ fs[i].start # None => fs[i].end \in 1..SourceLines /\ fs[i].start <= fs[i].end

\* The windows of the findings are ranges of the source and hold the lines near one.
LEMMA WindowsAreRanges ==
    ASSUME NEW fs, DOMAIN fs = 1..Len(fs), Len(fs) \in Nat, InOrder(fs)
    PROVE  /\ Windows(fs) \in SUBSET Ranges
           /\ IsFiniteSet(Windows(fs))
           /\ \A n \in 1..SourceLines :
                 (\E w \in Windows(fs) : n \in w[1]..w[2]) <=>
                    \E i \in Located(fs) : fs[i].start - Pad <= n /\ n <= fs[i].end + Pad
<1>1. SourceLines \in Nat
  BY AnalysisAssumption
<1>2. ASSUME NEW i \in Located(fs)
      PROVE  /\ Window(fs[i]) \in Ranges
             /\ \A n \in 1..SourceLines :
                   n \in Window(fs[i])[1]..Window(fs[i])[2] <=>
                      fs[i].start - Pad <= n /\ n <= fs[i].end + Pad
  <2>1. /\ fs[i].start \in 1..SourceLines /\ fs[i].end \in 1..SourceLines
        /\ fs[i].start <= fs[i].end
    BY <1>1 DEF Located, InOrder, None
  <2> QED
    BY <2>1, WindowType
<1>3. Windows(fs) \in SUBSET Ranges
  BY <1>2 DEF Windows
<1>4. IsFiniteSet(Windows(fs))
  <2> DEFINE f == [i \in Located(fs) |-> Window(fs[i])]
  <2>1. f \in Surjection(Located(fs), Windows(fs))
    BY DEF Surjection, Windows
  <2>2. IsFiniteSet(1..Len(fs)) /\ Located(fs) \in SUBSET (1..Len(fs))
    BY FS_Interval DEF Located
  <2>3. IsFiniteSet(Located(fs))
    BY <2>2, FS_Subset
  <2> QED
    BY <2>1, <2>3, FS_Surjection
<1>5. \A n \in 1..SourceLines :
         (\E w \in Windows(fs) : n \in w[1]..w[2]) <=>
            \E i \in Located(fs) : fs[i].start - Pad <= n /\ n <= fs[i].end + Pad
  <2> TAKE n \in 1..SourceLines
  <2>1. (\E w \in Windows(fs) : n \in w[1]..w[2]) <=>
          \E i \in Located(fs) : n \in Window(fs[i])[1]..Window(fs[i])[2]
    BY DEF Windows
  <2> QED
    BY <1>2, <2>1
<1> QED
  BY <1>3, <1>4, <1>5

\* What the excerpt promises
CoversFindings(E, fs) ==
    /\ \A i \in 1..(Len(E) - 1) : E[i][2] + 1 < E[i + 1][1]
    /\ UNION {w[1]..w[2] : w \in ToSet(E)} =
          {n \in 1..SourceLines : \E i \in Located(fs) :
              fs[i].start - Pad <= n /\ n <= fs[i].end + Pad}

\* ExcerptCoversFindings of the excerpt of such a list
LEMMA ExcerptCovers ==
    ASSUME NEW fs, DOMAIN fs = 1..Len(fs), Len(fs) \in Nat, InOrder(fs)
    PROVE  /\ WindowedExcerpt(fs) \in Seq(Ranges)
           /\ CoversFindings(WindowedExcerpt(fs), fs)
<1> DEFINE W == Windows(fs)
           key == [w \in W |-> w]
           ws == SortedBy(W, key)
           E == FoldLeft(JoinWindow, <<>>, ws)
<1>1. /\ W \in SUBSET Ranges /\ IsFiniteSet(W)
      /\ \A n \in 1..SourceLines :
            (\E w \in W : n \in w[1]..w[2]) <=>
               \E i \in Located(fs) : fs[i].start - Pad <= n /\ n <= fs[i].end + Pad
  BY WindowsAreRanges
<1> HIDE DEF W
<1>2. \A w \in W : w \in [1..2 -> Nat]
  <2> TAKE w \in W
  <2>1. w \in (1..SourceLines) \X (1..SourceLines) /\ SourceLines \in Nat
    BY <1>1, AnalysisAssumption DEF Ranges
  <2>2. w = <<w[1], w[2]>> /\ w[1] \in Nat /\ w[2] \in Nat
    BY <2>1
  <2>3. <<w[1], w[2]>> \in [1..2 -> Nat]
    BY <2>2
  <2> QED
    BY <2>2, <2>3
<1>3. key \in [W -> [1..2 -> Nat]] /\ \A x, y \in W : x # y => key[x] # key[y]
  BY <1>2
<1>4. /\ ws \in SetToSeqs(W)
      /\ \A i, j \in DOMAIN ws : i < j => LexLess(key[ws[i]], key[ws[j]])
  <2> HIDE DEF key
  <2>1. 2 \in Nat
    OBVIOUS
  <2> QED
    BY <1>1, <1>3, <2>1, SortedByWorks
<1> HIDE DEF ws
<1>5. /\ ws \in Seq(W) /\ ws \in [1..Cardinality(W) -> W]
      /\ Cardinality(W) \in Nat /\ Len(ws) = Cardinality(W)
      /\ \A x \in W : \E i \in 1..Cardinality(W) : ws[i] = x
  <2> HIDE DEF key
  <2> QED
    BY <1>1, <1>4, EnumerationCovers
<1>6. ws \in Seq(Ranges) /\ ToSet(ws) = W
  BY <1>1, <1>5 DEF ToSet
<1>7. ASSUME NEW i \in 1..Len(ws), NEW j \in 1..Len(ws), i < j
      PROVE  ws[i][1] <= ws[j][1]
  <2>1. ws[i] \in W /\ ws[j] \in W /\ i \in DOMAIN ws /\ j \in DOMAIN ws
    BY <1>5
  <2>2. LexLess(ws[i], ws[j])
    BY <1>4, <1>7, <2>1
  <2>3. ws[i] \in [1..2 -> Nat] /\ ws[j] \in [1..2 -> Nat]
    BY <1>2, <2>1
  <2>4. PICK k \in 1..2 : ws[i][k] < ws[j][k] /\ \A l \in 1..(k - 1) : ws[i][l] = ws[j][l]
    BY <2>2, <2>3 DEF LexLess
  <2>5. CASE k = 1
    BY <2>3, <2>4, <2>5
  <2>6. CASE k = 2
    <3>1. 1 \in 1..(k - 1)
      BY <2>6
    <3> QED
      BY <2>3, <2>4, <3>1
  <2> QED
    BY <2>5, <2>6
<1>8. E \in Seq(Ranges)
  BY <1>6, <1>7, JoinedWindows
<1>9. PICK lo \in Int : Joined(E, W, lo)
  BY <1>6, <1>7, JoinedWindows
<1>10. WindowedExcerpt(fs) = E
  BY DEF WindowedExcerpt, ws, W
<1> HIDE DEF E
<1>11. \A i \in 1..(Len(E) - 1) : E[i][2] + 1 < E[i + 1][1]
  BY <1>9 DEF Joined
<1>12. UNION {w[1]..w[2] : w \in ToSet(E)} =
          {n \in 1..SourceLines : \E i \in Located(fs) :
              fs[i].start - Pad <= n /\ n <= fs[i].end + Pad}
  <2>1. DOMAIN E = 1..Len(E) /\ \A i \in 1..Len(E) : E[i] \in Ranges
    BY <1>8
  <2>2. \A w \in ToSet(E) : w[1]..w[2] \subseteq 1..SourceLines
    <3> TAKE w \in ToSet(E)
    <3>1. w \in Ranges
      BY <2>1 DEF ToSet
    <3> QED
      BY <3>1, RangeFields
  <2>3. \A n \in 1..SourceLines :
           (\E w \in ToSet(E) : n \in w[1]..w[2]) <=>
              \E i \in Located(fs) : fs[i].start - Pad <= n /\ n <= fs[i].end + Pad
    <3> TAKE n \in 1..SourceLines
    <3>1. (\E w \in ToSet(E) : n \in w[1]..w[2]) <=> \E i \in 1..Len(E) : n \in E[i][1]..E[i][2]
      BY <2>1 DEF ToSet
    <3>2. (\E i \in 1..Len(E) : n \in E[i][1]..E[i][2]) <=> \E u \in W : n \in u[1]..u[2]
      BY <1>9 DEF Joined
    <3> QED
      BY <1>1, <3>1, <3>2
  <2> QED
    BY <2>2, <2>3
<1> QED
  BY <1>8, <1>10, <1>11, <1>12 DEF CoversFindings

--------------------------------------------------------------------------------
(* llm_analyzer: applying a reply. *)

\* Lists of n findings
Listing(n) == [1..n -> FindingOf(n)]

\* Filling texts in leaves texts.
LEMMA FilledType ==
    ASSUME NEW t \in [Fields -> Text], NEW u \in [Fields -> Text]
    PROVE  Filled(t, u) \in [Fields -> Text]
BY DEF Filled

\* A finding with another text keeps its type and its facts.
LEMMA TextOnly ==
    ASSUME NEW n, NEW f \in FindingOf(n), NEW t \in [Fields -> Text]
    PROVE  /\ [f EXCEPT !.text = t] \in FindingOf(n)
           /\ [[f EXCEPT !.text = t] EXCEPT !.text = Blank] = [f EXCEPT !.text = Blank]
BY DEF FindingOf

\* One explanation keeps the facts.
LEMMA ExplainStep ==
    ASSUME NEW n \in Nat, NEW fs \in Listing(n), NEW e \in Explanation
    PROVE  /\ Explain(fs, e) \in Listing(n)
           /\ Facts(Explain(fs, e)) = Facts(fs)
<1>1. DOMAIN fs = 1..n
  BY DEF Listing
<1>2. CASE e.id \notin DOMAIN fs
  BY <1>2 DEF Explain
<1>3. CASE e.id \in DOMAIN fs
  <2> DEFINE t == Filled(fs[e.id].text, e.text)
             h == [fs[e.id] EXCEPT !.text = t]
             gs == Explain(fs, e)
  <2>1. fs[e.id] \in FindingOf(n)
    BY <1>1, <1>3 DEF Listing
  <2>2. fs[e.id].text \in [Fields -> Text] /\ e.text \in [Fields -> Text]
    BY <2>1 DEF FindingOf, Explanation
  <2>3. t \in [Fields -> Text]
    BY <2>2, FilledType
  <2>4. gs = [fs EXCEPT ![e.id] = h]
    BY <1>3 DEF Explain
  <2> HIDE DEF t
  <2>5. /\ h \in FindingOf(n)
        /\ [h EXCEPT !.text = Blank] = [fs[e.id] EXCEPT !.text = Blank]
    BY <2>1, <2>3, TextOnly
  <2> HIDE DEF h, gs
  <2>6. /\ gs \in Listing(n) /\ DOMAIN gs = DOMAIN fs /\ gs[e.id] = h
        /\ \A i \in DOMAIN fs : i # e.id => gs[i] = fs[i]
    BY <1>1, <1>3, <2>4, <2>5 DEF Listing
  <2>7. \A i \in DOMAIN fs : [gs[i] EXCEPT !.text = Blank] = [fs[i] EXCEPT !.text = Blank]
    BY <2>5, <2>6
  <2>8. Facts(gs) = Facts(fs)
    BY <2>6, <2>7 DEF Facts
  <2> QED
    BY <2>6, <2>8 DEF gs
<1> QED
  BY <1>2, <1>3

\* The equations of the loop over the explanations
LEMMA ExplainFold ==
    ASSUME NEW k \in Nat, NEW fs \in Listing(k), NEW es \in Seq(Explanation)
    PROVE  \E acc \in [0..Len(es) -> Listing(k)] :
              /\ acc[0] = fs
              /\ \A i \in 1..Len(es) : acc[i] = Explain(acc[i - 1], es[i])
              /\ acc[Len(es)] = FoldLeft(Explain, fs, es)
<1> DEFINE n == Len(es)
           V == Listing(k)
           step == [w \in V \X (1..n) |-> Explain(w[1], es[w[2]])]
           Obeys(g) == g = [s \in SUBSET DOMAIN es |->
                              IF s = {} THEN fs
                              ELSE Explain(g[s \ {Max(s)}], es[Max(s)])]
           fold == CHOOSE g : Obeys(g)
<1>1. n \in Nat /\ DOMAIN es = 1..n /\ fs \in V
  OBVIOUS
<1>2. \A v \in V, i \in 1..n : step[<<v, i>>] = Explain(v, es[i])
  OBVIOUS
<1>3. step \in [V \X (1..n) -> V]
  <2>1. ASSUME NEW v \in V, NEW i \in 1..n PROVE Explain(v, es[i]) \in V
    <3>1. v \in Listing(k) /\ es[i] \in Explanation
      BY <1>1
    <3> QED
      BY <3>1, ExplainStep
  <2> QED
    BY <2>1
<1>4. FoldLeft(Explain, fs, es) = fold[1..n]
  BY <1>1 DEF FoldLeft, MapThenFoldSet
<1> HIDE DEF V, step
<1>5. ASSUME NEW h \in [SUBSET (1..n) -> V], FoldOver(n, fs, step, h)
      PROVE  FoldFrom(n, V, fs, step, fold)
  <2>1. \A s \in SUBSET (1..n) : s # {} => Max(s) \in 1..n
    BY <1>1, MaxOfSubset
  <2>2. Obeys(h)
    BY <1>1, <1>2, <1>5, <2>1 DEF FoldOver
  <2>3. Obeys(fold)
    <3> HIDE DEF Obeys
    <3> QED
      BY <2>2
  <2> HIDE DEF fold
  <2> QED
    BY <1>1, <1>2, <2>1, <2>3 DEF FoldFrom
<1>6. PICK acc : Folded(n, V, fs, step, fold, acc)
  <2> HIDE DEF n, fold
  <2>1. (\E h \in [SUBSET (1..n) -> V] : FoldOver(n, fs, step, h))
          => FoldFrom(n, V, fs, step, fold)
    BY <1>5
  <2> QED
    BY <1>1, <1>3, <2>1, FoldWorks
<1> HIDE DEF fold
<1>7. \A i \in 1..n : acc[i] = Explain(acc[i - 1], es[i])
  <2> HIDE DEF n
  <2>1. \A i \in 1..n : i - 1 \in 0..n
    BY <1>1
  <2> QED
    BY <1>2, <1>6, <2>1 DEF Folded
<1> QED
  BY <1>4, <1>6, <1>7 DEF Folded, V

\* Explaining keeps the number and the facts of the findings.
LEMMA ExplainKeepsFacts ==
    ASSUME NEW k \in Nat, NEW fs \in Listing(k), NEW es \in Seq(Explanation)
    PROVE  /\ FoldLeft(Explain, fs, es) \in Listing(k)
           /\ Facts(FoldLeft(Explain, fs, es)) = Facts(fs)
<1>1. PICK acc \in [0..Len(es) -> Listing(k)] :
              /\ acc[0] = fs
              /\ \A i \in 1..Len(es) : acc[i] = Explain(acc[i - 1], es[i])
              /\ acc[Len(es)] = FoldLeft(Explain, fs, es)
  BY ExplainFold
<1>2. Len(es) \in Nat /\ \A i \in 1..Len(es) : es[i] \in Explanation
  OBVIOUS
<1> DEFINE T == {m \in 0..Len(es) : Facts(acc[m]) = Facts(fs)}
<1>3. 0 \in T
  BY <1>1, <1>2
<1>4. ASSUME NEW m \in 0..(Len(es) - 1), m \in T PROVE m + 1 \in T
  <2>1. m + 1 \in 1..Len(es) /\ (m + 1) - 1 = m /\ m \in 0..Len(es) /\ m + 1 \in 0..Len(es)
    BY <1>2
  <2>2. acc[m + 1] = Explain(acc[m], es[m + 1])
    BY <1>1, <2>1
  <2>3. acc[m] \in Listing(k) /\ es[m + 1] \in Explanation
    BY <1>1, <1>2, <2>1
  <2>4. Facts(acc[m + 1]) = Facts(acc[m])
    BY <2>2, <2>3, ExplainStep
  <2> QED
    BY <1>4, <2>1, <2>4
<1>5. \A m \in 0..Len(es) : m \in T
  <2> HIDE DEF T
  <2> QED
    BY <1>2, <1>3, <1>4, BoundedInduction
<1>6. Facts(acc[Len(es)]) = Facts(fs)
  <2>1. Len(es) \in 0..Len(es)
    BY <1>2
  <2> QED
    BY <1>5, <2>1
<1> QED
  BY <1>1, <1>2, <1>6

\* Lists with the same facts differ in the texts alone.
LEMMA SameFacts ==
    ASSUME NEW n \in Nat, NEW fs \in Listing(n), NEW gs \in Listing(n),
           Facts(fs) = Facts(gs), NEW i \in 1..n
    PROVE  /\ fs[i].detector = gs[i].detector /\ fs[i].contract = gs[i].contract
           /\ fs[i].function = gs[i].function /\ fs[i].start = gs[i].start
           /\ fs[i].end = gs[i].end /\ fs[i].evidence = gs[i].evidence
           /\ fs[i].confidence = gs[i].confidence /\ fs[i].severity = gs[i].severity
           /\ fs[i].score = gs[i].score /\ fs[i].id = gs[i].id
<1>1. fs[i] \in FindingOf(n) /\ gs[i] \in FindingOf(n) /\ DOMAIN fs = 1..n /\ DOMAIN gs = 1..n
  BY DEF Listing
<1>2. Facts(fs)[i] = [fs[i] EXCEPT !.text = Blank] /\ Facts(gs)[i] = [gs[i] EXCEPT !.text = Blank]
  BY <1>1 DEF Facts
<1> DEFINE f == [fs[i] EXCEPT !.text = Blank]
           g == [gs[i] EXCEPT !.text = Blank]
<1>3. f = g
  BY <1>2
<1>4. /\ f.detector = fs[i].detector /\ f.contract = fs[i].contract
      /\ f.function = fs[i].function /\ f.start = fs[i].start
      /\ f.end = fs[i].end /\ f.evidence = fs[i].evidence
      /\ f.confidence = fs[i].confidence /\ f.severity = fs[i].severity
      /\ f.score = fs[i].score /\ f.id = fs[i].id
  BY <1>1 DEF FindingOf
<1>5. /\ g.detector = gs[i].detector /\ g.contract = gs[i].contract
      /\ g.function = gs[i].function /\ g.start = gs[i].start
      /\ g.end = gs[i].end /\ g.evidence = gs[i].evidence
      /\ g.confidence = gs[i].confidence /\ g.severity = gs[i].severity
      /\ g.score = gs[i].score /\ g.id = gs[i].id
  BY <1>1 DEF FindingOf
<1> HIDE DEF f, g
<1> QED
  BY <1>3, <1>4, <1>5

\* Lists with the same facts report the same results.
LEMMA SameReports ==
    ASSUME NEW n \in Nat, NEW fs \in Listing(n), NEW gs \in Listing(n),
           Facts(fs) = Facts(gs), NEW R, Reports(fs, R)
    PROVE  Reports(gs, R)
<1>1. DOMAIN fs = 1..n /\ DOMAIN gs = 1..n
  BY DEF Listing
<1>2. ASSUME NEW i \in 1..n
      PROVE  /\ DedupKey(gs[i]) = DedupKey(fs[i])
             /\ \A g \in Group : Shows(fs[i], g) => Shows(gs[i], g)
  BY SameFacts DEF DedupKey, Shows
<1> QED
  BY <1>1, <1>2 DEF Reports

\* Lists with the same facts have the same lines near them.
LEMMA SameExcerpt ==
    ASSUME NEW n \in Nat, NEW fs \in Listing(n), NEW gs \in Listing(n),
           Facts(fs) = Facts(gs), NEW E, CoversFindings(E, fs)
    PROVE  CoversFindings(E, gs)
<1>1. DOMAIN fs = 1..n /\ DOMAIN gs = 1..n
  BY DEF Listing
<1>2. \A i \in 1..n : fs[i].start = gs[i].start /\ fs[i].end = gs[i].end
  BY SameFacts
<1>3. Located(fs) = Located(gs)
  BY <1>1, <1>2 DEF Located
<1>4. \A i \in Located(fs) : i \in 1..n
  BY <1>1 DEF Located
<1>5. {x \in 1..SourceLines : \E i \in Located(fs) :
              fs[i].start - Pad <= x /\ x <= fs[i].end + Pad}
       = {x \in 1..SourceLines : \E i \in Located(gs) :
              gs[i].start - Pad <= x /\ x <= gs[i].end + Pad}
  BY <1>2, <1>3, <1>4
<1> QED
  BY <1>5 DEF CoversFindings

\* The findings of a list that reports results have their lines in order.
LEMMA ReportsInOrder ==
    ASSUME NEW n \in Nat, NEW fs \in Listing(n), NEW R \in SUBSET Parsed, Reports(fs, R)
    PROVE  InOrder(fs)
<1> SUFFICES ASSUME NEW i \in 1..n
             PROVE  /\ fs[i].start \in 0..SourceLines /\ fs[i].end \in 0..SourceLines
                    /\ fs[i].start # None =>
                         fs[i].end \in 1..SourceLines /\ fs[i].start <= fs[i].end
  BY DEF InOrder, Listing
<1>1. fs[i] \in FindingOf(n) /\ DOMAIN fs = 1..n
  BY DEF Listing
<1>2. fs[i].start \in 0..SourceLines /\ fs[i].end \in 0..SourceLines /\ SourceLines \in Nat
  BY <1>1, AnalysisAssumption DEF FindingOf
<1>3. PICK g \in Group : Describes(g, Part(R, DedupKey(fs[i]))) /\ Shows(fs[i], g)
  BY <1>1 DEF Reports
<1>4. PICK r \in Part(R, DedupKey(fs[i])) : g.start = r.start
  BY <1>3 DEF Describes
<1>5. r \in Parsed
  BY DEF Part
<1>6. r.start <= r.end /\ r.end \in Nat
  BY <1>5, RawFields
<1>7. r.end <= g.end
  BY <1>3 DEF Describes
<1>8. fs[i].start = g.start /\ fs[i].end = g.end
  BY <1>3 DEF Shows
<1> QED
  BY <1>2, <1>4, <1>6, <1>7, <1>8 DEF None

--------------------------------------------------------------------------------
(* report_generator: counts and overall risk. *)

\* The findings of one level
OfLevel(fs, s) == {i \in DOMAIN fs : fs[i].severity = s}

\* A count is the number of findings of its level, and not 0 if there is one.
LEMMA CountIs ==
    ASSUME NEW n \in Nat, NEW fs \in Listing(n), NEW s \in Severities
    PROVE  /\ Count(fs)[s] = Cardinality(OfLevel(fs, s))
           /\ IsFiniteSet(OfLevel(fs, s))
           /\ Count(fs)[s] \in Nat
           /\ Count(fs)[s] > 0 <=> \E i \in 1..n : fs[i].severity = s
<1>1. DOMAIN fs = 1..n
  BY DEF Listing
<1>2. Count(fs)[s] = Cardinality(OfLevel(fs, s))
  BY DEF Count, OfLevel
<1>3. IsFiniteSet(OfLevel(fs, s))
  <2>1. IsFiniteSet(1..n) /\ OfLevel(fs, s) \in SUBSET (1..n)
    BY <1>1, FS_Interval DEF OfLevel
  <2> QED
    BY <2>1, FS_Subset
<1>4. Cardinality(OfLevel(fs, s)) \in Nat
  BY <1>3, FS_CardinalityType
<1>5. Cardinality(OfLevel(fs, s)) = 0 <=> OfLevel(fs, s) = {}
  BY <1>3, FS_EmptySet
<1>6. OfLevel(fs, s) # {} <=> \E i \in 1..n : fs[i].severity = s
  BY <1>1 DEF OfLevel
<1> QED
  BY <1>2, <1>3, <1>4, <1>5, <1>6

\* The number of members of a disjoint union
LEMMA DisjointUnion ==
    ASSUME NEW S, NEW T, IsFiniteSet(S), IsFiniteSet(T), S \cap T = {}
    PROVE  /\ IsFiniteSet(S \cup T)
           /\ Cardinality(S \cup T) = Cardinality(S) + Cardinality(T)
<1>1. Cardinality(S) \in Nat /\ Cardinality(T) \in Nat
  BY FS_CardinalityType
<1>2. /\ IsFiniteSet(S \cup T)
      /\ Cardinality(S \cup T) = Cardinality(S) + Cardinality(T) - Cardinality(S \cap T)
  BY FS_Union
<1>3. Cardinality(S \cap T) = 0
  BY FS_EmptySet
<1> QED
  BY <1>1, <1>2, <1>3

\* Every finding is of exactly one level.
LEMMA CountsAddUp ==
    ASSUME NEW n \in Nat, NEW fs \in Listing(n)
    PROVE  n = Count(fs)["Critical"] + Count(fs)["High"] + Count(fs)["Medium"]
                 + Count(fs)["Low"] + Count(fs)["Informational"]
<1> DEFINE A == OfLevel(fs, "Critical")
           B == OfLevel(fs, "High")
           C == OfLevel(fs, "Medium")
           D == OfLevel(fs, "Low")
           E == OfLevel(fs, "Informational")
<1>1. DOMAIN fs = 1..n /\ \A i \in 1..n : fs[i].severity \in Severities
  <2>1. \A i \in 1..n : fs[i] \in FindingOf(n)
    BY DEF Listing
  <2> QED
    BY <2>1 DEF Listing, FindingOf
<1>2. {"Critical", "High", "Medium", "Low", "Informational"} = Severities
  BY DEF Severities
<1>3. /\ IsFiniteSet(A) /\ IsFiniteSet(B) /\ IsFiniteSet(C) /\ IsFiniteSet(D) /\ IsFiniteSet(E)
      /\ Count(fs)["Critical"] = Cardinality(A) /\ Count(fs)["High"] = Cardinality(B)
      /\ Count(fs)["Medium"] = Cardinality(C) /\ Count(fs)["Low"] = Cardinality(D)
      /\ Count(fs)["Informational"] = Cardinality(E)
  BY <1>2, CountIs
<1>4. A \cup B \cup C \cup D \cup E = 1..n
  BY <1>1, <1>2 DEF OfLevel
<1>5. /\ A \cap B = {} /\ (A \cup B) \cap C = {} /\ (A \cup B \cup C) \cap D = {}
      /\ (A \cup B \cup C \cup D) \cap E = {}
  BY DEF OfLevel
<1> HIDE DEF A, B, C, D, E
<1>6. IsFiniteSet(A \cup B) /\ Cardinality(A \cup B) = Cardinality(A) + Cardinality(B)
  BY <1>3, <1>5, DisjointUnion
<1>7. /\ IsFiniteSet(A \cup B \cup C)
      /\ Cardinality(A \cup B \cup C) = Cardinality(A \cup B) + Cardinality(C)
  BY <1>3, <1>5, <1>6, DisjointUnion
<1>8. /\ IsFiniteSet(A \cup B \cup C \cup D)
      /\ Cardinality(A \cup B \cup C \cup D) = Cardinality(A \cup B \cup C) + Cardinality(D)
  BY <1>3, <1>5, <1>7, DisjointUnion
<1>9. Cardinality(A \cup B \cup C \cup D \cup E)
        = Cardinality(A \cup B \cup C \cup D) + Cardinality(E)
  BY <1>3, <1>5, <1>8, DisjointUnion
<1>10. Cardinality(1..n) = n
  BY FS_Interval
<1> QED
  BY <1>3, <1>4, <1>6, <1>7, <1>8, <1>9, <1>10

\* Some three members of S are distinct.
Three(S) == \E x, y, z \in S : x # y /\ y # z /\ x # z

\* A finite set counts three members exactly if it has three distinct ones.
LEMMA ThreeMembers ==
    ASSUME NEW S, IsFiniteSet(S)
    PROVE  Cardinality(S) >= 3 <=> Three(S)
<1>1. ASSUME NEW U, IsFiniteSet(U), NEW x \in U
      PROVE  /\ IsFiniteSet(U \ {x}) /\ Cardinality(U \ {x}) = Cardinality(U) - 1
             /\ Cardinality(U) \in Nat /\ Cardinality(U \ {x}) \in Nat
  BY <1>1, FS_RemoveElement, FS_CardinalityType
<1>2. \A U : IsFiniteSet(U) => (Cardinality(U) = 0 <=> U = {})
  BY FS_EmptySet
<1>3. ASSUME Cardinality(S) >= 3 PROVE Three(S)
  <2>1. PICK x \in S : TRUE
    BY <1>2, <1>3
  <2>2. IsFiniteSet(S \ {x}) /\ Cardinality(S \ {x}) >= 2
    BY <1>1, <1>3, <2>1
  <2>3. PICK y \in S \ {x} : TRUE
    BY <1>2, <2>2
  <2>4. IsFiniteSet((S \ {x}) \ {y}) /\ Cardinality((S \ {x}) \ {y}) >= 1
    BY <1>1, <2>2, <2>3
  <2>5. PICK z \in (S \ {x}) \ {y} : TRUE
    BY <1>2, <2>4
  <2> QED
    BY <2>1, <2>3, <2>5 DEF Three
<1>4. ASSUME Three(S) PROVE Cardinality(S) >= 3
  <2>1. PICK x \in S, y \in S, z \in S : x # y /\ y # z /\ x # z
    BY <1>4 DEF Three
  <2>2. IsFiniteSet(S \ {x}) /\ Cardinality(S \ {x}) = Cardinality(S) - 1
        /\ Cardinality(S) \in Nat
    BY <1>1, <2>1
  <2>3. /\ IsFiniteSet((S \ {x}) \ {y})
        /\ Cardinality((S \ {x}) \ {y}) = Cardinality(S \ {x}) - 1
    BY <1>1, <2>1, <2>2
  <2>4. /\ Cardinality(((S \ {x}) \ {y}) \ {z}) = Cardinality((S \ {x}) \ {y}) - 1
        /\ Cardinality(((S \ {x}) \ {y}) \ {z}) \in Nat
    BY <1>1, <2>1, <2>3
  <2> QED
    BY <2>2, <2>3, <2>4
<1> QED
  BY <1>3, <1>4

\* The overall risk of each kind of list
LEMMA OverallIs ==
    ASSUME NEW n \in Nat, NEW fs \in Listing(n)
    PROVE  LET severe == OfLevel(fs, "Critical") \cup OfLevel(fs, "High") # {}
           IN  /\ OverallRisk(fs) \in {"Critical", "High", "Medium", "Low", "NoMajorIssues"}
               /\ OverallRisk(fs) = "NoMajorIssues" <=> n = 0
               /\ OverallRisk(fs) = "Critical" <=> OfLevel(fs, "Critical") # {}
               /\ OverallRisk(fs) = "High" <=> severe /\ OfLevel(fs, "Critical") = {}
               /\ OverallRisk(fs) = "Medium" <=> Three(OfLevel(fs, "Medium")) /\ ~severe
               /\ OverallRisk(fs) = "Low" <=>
                     n > 0 /\ ~Three(OfLevel(fs, "Medium")) /\ ~severe
<1> DEFINE critical == OfLevel(fs, "Critical") # {}
           high == OfLevel(fs, "High") # {}
           three == Three(OfLevel(fs, "Medium"))
<1>1. DOMAIN fs = 1..n /\ (fs = <<>> <=> n = 0)
  BY DEF Listing
<1>2. n = 0 => ~critical /\ ~high /\ ~three
  BY <1>1 DEF OfLevel, Three
<1>3. \A s \in Severities : Count(fs)[s] > 0 <=> OfLevel(fs, s) # {}
  <2>1. \A s \in Severities : OfLevel(fs, s) # {} <=> \E i \in 1..n : fs[i].severity = s
    BY <1>1 DEF OfLevel
  <2> QED
    BY <2>1, CountIs
<1>4. /\ Count(fs)["Critical"] > 0 <=> critical
      /\ Count(fs)["High"] > 0 <=> high
  BY <1>3 DEF Severities
<1>5. Count(fs)["Medium"] >= 3 <=> three
  <2>1. "Medium" \in Severities
    BY DEF Severities
  <2>2. /\ Count(fs)["Medium"] = Cardinality(OfLevel(fs, "Medium"))
        /\ IsFiniteSet(OfLevel(fs, "Medium"))
    BY <2>1, CountIs
  <2> QED
    BY <2>2, ThreeMembers
<1>6. OfLevel(fs, "Critical") \cup OfLevel(fs, "High") # {} <=> critical \/ high
  OBVIOUS
<1> HIDE DEF critical, high, three
<1>7. /\ OverallRisk(fs) \in {"Critical", "High", "Medium", "Low", "NoMajorIssues"}
      /\ OverallRisk(fs) = "NoMajorIssues" <=> n = 0
      /\ OverallRisk(fs) = "Critical" <=> critical
      /\ OverallRisk(fs) = "High" <=> (critical \/ high) /\ ~critical
      /\ OverallRisk(fs) = "Medium" <=> three /\ ~(critical \/ high)
      /\ OverallRisk(fs) = "Low" <=> n > 0 /\ ~three /\ ~(critical \/ high)
  BY <1>1, <1>2, <1>4, <1>5 DEF OverallRisk
<1> QED
  BY <1>6, <1>7 DEF critical, high, three

\* Lists with the same facts have the same overall risk.
LEMMA SameOverall ==
    ASSUME NEW n \in Nat, NEW fs \in Listing(n), NEW gs \in Listing(n),
           Facts(fs) = Facts(gs)
    PROVE  OverallRisk(fs) = OverallRisk(gs)
<1>1. DOMAIN fs = 1..n /\ DOMAIN gs = 1..n
  BY DEF Listing
<1>2. \A i \in 1..n : fs[i].severity = gs[i].severity
  BY SameFacts
<1>3. \A s : OfLevel(fs, s) = OfLevel(gs, s)
  BY <1>1, <1>2 DEF OfLevel
<1>4. Count(fs) = Count(gs)
  BY <1>3 DEF Count, OfLevel
<1>5. fs = <<>> <=> gs = <<>>
  BY <1>1
<1> QED
  BY <1>4, <1>5 DEF OverallRisk

--------------------------------------------------------------------------------
(* The inductive invariant. *)

\* The findings report Slither's results, whatever the LLM did to their texts.
FindingsInv ==
    /\ Analyzed => Reports(findings, Results) /\ overall = OverallRisk(findings)
    /\ ~Analyzed => findings = <<>>

\* The excerpt covers the findings, and the risk areas name findings.
LlmInv ==
    /\ phase = "analyze" => excerpt = <<>>
    /\ excerpt # <<>> /\ large => CoversFindings(excerpt, findings)
    /\ \A a \in ToSet(enrich.areas) : a.ids \subseteq DOMAIN findings

\* The report is that of the findings.
ReportInv ==
    phase = "done" =>
        /\ report.findings = findings /\ report.total = Len(findings)
        /\ report.counts = Count(findings) /\ report.overall = overall
        /\ report.markdown.items = [i \in DOMAIN findings |-> MarkdownItem(findings[i])]

\* The inductive invariant
IInv == TypeOK /\ FindingsInv /\ LlmInv /\ ReportInv

\* The findings are a list of as many findings as it numbers.
LEMMA FindingsType ==
    /\ findings \in Seq(Finding) <=>
          /\ Len(findings) \in Nat
          /\ findings \in Listing(Len(findings))
    /\ findings \in Seq(Finding) => DOMAIN findings = 1..Len(findings)
<1>1. Finding = FindingOf(Len(findings))
  BY DEF Finding, FindingOf, ScoreRecord
<1> QED
  BY <1>1 DEF Listing

\* The results of a run are raw findings.
LEMMA ResultsType ==
    ASSUME TypeOK
    PROVE  /\ Results \in SUBSET Parsed
           /\ Raws(output) \in Seq(Parsed)
           /\ DOMAIN Raws(output) = DOMAIN output.detectors
           /\ \A key : IsFiniteSet({r.detector : r \in Part(Results, key)})
<1>1. Raws(output) \in Seq(Parsed) /\ DOMAIN Raws(output) = DOMAIN output.detectors
  BY RawsType DEF TypeOK
<1>2. Results \in SUBSET Parsed
  BY <1>1 DEF Results, ToSet
<1>3. ASSUME NEW key PROVE IsFiniteSet({r.detector : r \in Part(Results, key)})
  <2>1. Len(Raws(output)) \in Nat /\ Raws(output) \in [1..Len(Raws(output)) -> Parsed]
    BY <1>1
  <2> QED
    BY <2>1, FiniteParts DEF Results
<1> QED
  BY <1>1, <1>2, <1>3

\* Merging a result into a finding its detector names does not lower its score.
MergingKeepsScores ==
    Analyzed =>
        \A r \in Results, i \in DOMAIN findings :
            Within(r, findings[i]) /\ r.detector = findings[i].detector =>
                Score(r.detector, MapSeverity(r.impact), MapConfidence(r.confidence)).final
                    <= findings[i].score.final

\* The group has the highest severity and confidence of its results, and scores are
\* monotone.
LEMMA ScoresKept ==
    ASSUME IInv
    PROVE  MergingKeepsScores
<1> SUFFICES ASSUME Analyzed, NEW r \in Results, NEW i \in DOMAIN findings,
                    Within(r, findings[i]), r.detector = findings[i].detector
             PROVE  Score(r.detector, MapSeverity(r.impact), MapConfidence(r.confidence)).final
                        <= findings[i].score.final
  BY DEF MergingKeepsScores
<1>1. Reports(findings, Results)
  BY DEF IInv, FindingsInv
<1>2. PICK g \in Group :
          Describes(g, Part(Results, DedupKey(findings[i]))) /\ Shows(findings[i], g)
  BY <1>1 DEF Reports
<1>3. r \in Part(Results, DedupKey(findings[i]))
  BY WithinIsKey DEF Part
<1>4. /\ Rank(g.severity) <= Rank(MapSeverity(r.impact))
      /\ Rank(g.confidence) <= Rank(MapConfidence(r.confidence))
  BY <1>2, <1>3 DEF Describes
<1>5. /\ g.severity \in Given /\ g.confidence \in Confidences
      /\ MapSeverity(r.impact) \in Given /\ MapConfidence(r.confidence) \in Confidences
  BY Levels DEF Group
<1>6. BaseValue(MapSeverity(r.impact)) <= BaseValue(g.severity)
  <2>1. g.severity \in Severities /\ MapSeverity(r.impact) \in Severities
    BY <1>5, Levels
  <2> QED
    BY <1>4, <1>5, <2>1, BaseOrder DEF Given, Severities, BaseValue
<1>7. Factor(MapConfidence(r.confidence)) <= Factor(g.confidence)
  BY <1>4, <1>5 DEF Confidences, Rank, Factor
<1>8. findings[i].score = Score(r.detector, g.severity, g.confidence)
  BY <1>2 DEF Shows
<1> HIDE DEF Analyzed
<1> QED
  BY <1>5, <1>6, <1>7, <1>8, ScoreIsMonotone

\* The inductive invariant implies each of the invariants of the runs.
LEMMA ResultsReported ==
    ASSUME IInv
    PROVE  EveryResultReported
<1> SUFFICES ASSUME Analyzed PROVE EveryResultReported
  BY DEF EveryResultReported
<1>1. Results \in SUBSET Parsed /\ Reports(findings, Results)
  BY ResultsType DEF IInv, FindingsInv
<1>2. findings \in Seq(FindingOf(Len(findings)))
  BY DEF IInv, TypeOK, Finding, FindingOf, ScoreRecord
<1>3. \A r \in Results : \E i \in DOMAIN findings :
              /\ Within(r, findings[i])
              /\ \A j \in DOMAIN findings : Within(r, findings[j]) => j = i
              /\ r.start # None => findings[i].start \in 1..r.start /\ r.end <= findings[i].end
              /\ ToSet(r.evidence) \subseteq ToSet(findings[i].evidence)
              /\ findings[i].score.base >= BaseValue(MapSeverity(r.impact))
              /\ Rank(findings[i].confidence) <= Rank(MapConfidence(r.confidence))
  BY <1>1, <1>2, ReportsKeepResults
<1>4. \A i \in DOMAIN findings : \E r \in Results : Within(r, findings[i])
  BY <1>1, WithinIsKey DEF Reports
<1> QED
  BY <1>3, <1>4 DEF EveryResultReported

\* Results near one another merge.
LEMMA NearbyMerge ==
    ASSUME IInv
    PROVE  NearbyResultsMerge
<1>1. CASE Analyzed
  <2>1. Reports(findings, Results)
    BY <1>1 DEF IInv, FindingsInv
  <2>2. findings \in Seq(FindingOf(Len(findings)))
    BY DEF IInv, TypeOK, Finding, FindingOf, ScoreRecord
  <2> QED
    BY <2>1, <2>2, ReportsNearby DEF NearbyResultsMerge
<1>2. CASE ~Analyzed
  <2>1. DOMAIN findings = {}
    BY <1>2 DEF IInv, FindingsInv
  <2> QED
    BY <2>1 DEF NearbyResultsMerge
<1> QED
  BY <1>1, <1>2

\* Critical findings are justified.
LEMMA CriticalJustified ==
    ASSUME IInv
    PROVE  CriticalIsJustified
<1>1. CASE Analyzed
  <2>1. Reports(findings, Results) /\ Results \in SUBSET Parsed
    BY <1>1, ResultsType DEF IInv, FindingsInv
  <2> QED
    BY <2>1, ReportsCritical DEF CriticalIsJustified
<1>2. CASE ~Analyzed
  <2>1. DOMAIN findings = {}
    BY <1>2 DEF IInv, FindingsInv
  <2> QED
    BY <2>1 DEF CriticalIsJustified
<1> QED
  BY <1>1, <1>2

\* A permutation of the results is one more list of the same results, and two lists
\* that report them keep the same (ReportsKeepTheSame).
LEMMA OrderIndependent ==
    ASSUME IInv
    PROVE  MergeOrderIndependent
<1> SUFFICES ASSUME phase = "enrich",
                    NEW p \in Bijection(DOMAIN output.detectors, DOMAIN output.detectors)
             PROVE  LET raws == Raws(output)
                        other == Scored(Normalize([i \in DOMAIN raws |-> raws[p[i]]]))
                    IN  OrderFree(other) = OrderFree(findings)
  BY DEF MergeOrderIndependent
<1> DEFINE raws == Raws(output)
           moved == [i \in DOMAIN raws |-> raws[p[i]]]
           other == Scored(Normalize(moved))
<1>1. Analyzed
  BY DEF Analyzed
<1>2. /\ Results \in SUBSET Parsed /\ raws \in Seq(Parsed)
      /\ DOMAIN raws = DOMAIN output.detectors
      /\ \A key : IsFiniteSet({r.detector : r \in Part(Results, key)})
  BY ResultsType DEF IInv
<1>3. Reports(findings, Results)
  BY <1>1 DEF IInv, FindingsInv
<1>4. /\ p \in [DOMAIN raws -> DOMAIN raws]
      /\ \A t \in DOMAIN raws : \E s \in DOMAIN raws : p[s] = t
  BY <1>2 DEF Bijection, Surjection
<1>5. Results = {raws[i] : i \in DOMAIN raws}
  BY DEF Results, ToSet
<1> HIDE DEF raws
<1>6. moved \in Seq(Parsed) /\ ToSet(moved) = Results
  <2>1. DOMAIN raws = 1..Len(raws) /\ Len(raws) \in Nat
    BY <1>2
  <2>2. moved \in [1..Len(raws) -> Parsed]
    BY <1>2, <1>4, <2>1
  <2>3. moved \in Seq(Parsed)
    BY <2>1, <2>2
  <2>4. ToSet(moved) = Results
    BY <1>4, <1>5 DEF ToSet
  <2> QED
    BY <2>3, <2>4
<1> HIDE DEF moved
<1>7. Reports(other, Results)
  BY <1>6, ScoredReports
<1> HIDE DEF other
<1>8. \A fs : OrderFree(fs) = {Kept(f) : f \in ToSet(fs)}
  BY DEF OrderFree, Kept
<1>9. \A fs : {Kept(f) : f \in ToSet(fs)} = {Kept(fs[i]) : i \in DOMAIN fs}
  BY DEF ToSet
<1>10. \A i \in DOMAIN other : \E j \in DOMAIN findings : Kept(findings[j]) = Kept(other[i])
  BY <1>2, <1>3, <1>7, ReportsKeepTheSame
<1>11. \A i \in DOMAIN findings : \E j \in DOMAIN other : Kept(other[j]) = Kept(findings[i])
  BY <1>2, <1>3, <1>7, ReportsKeepTheSame
<1>12. {Kept(other[i]) : i \in DOMAIN other} = {Kept(findings[i]) : i \in DOMAIN findings}
  BY <1>10, <1>11
<1> QED
  BY <1>8, <1>9, <1>12 DEF other, moved, raws

\* The excerpt covers the findings.
LEMMA ExcerptHolds ==
    ASSUME IInv
    PROVE  ExcerptCoversFindings
BY DEF IInv, LlmInv, ExcerptCoversFindings, CoversFindings

\* The report adds up, as its findings are those that were counted.
LEMMA ReportHolds ==
    ASSUME IInv
    PROVE  ReportAddsUp
<1> SUFFICES ASSUME phase = "done" PROVE ReportAddsUp
  BY DEF ReportAddsUp
<1> DEFINE n == Len(findings)
<1>1. n \in Nat /\ findings \in Listing(n) /\ DOMAIN findings = 1..n
  BY FindingsType DEF IInv, TypeOK
<1>2. /\ report.findings = findings /\ report.total = n
      /\ report.counts = Count(findings) /\ report.overall = overall
      /\ report.markdown.items = [i \in DOMAIN findings |-> MarkdownItem(findings[i])]
  BY DEF IInv, ReportInv
<1>3. Reports(findings, Results) /\ overall = OverallRisk(findings) /\ Results \in SUBSET Parsed
  BY ResultsType DEF IInv, FindingsInv, Analyzed
<1> HIDE DEF n
<1>4. n = Count(findings)["Critical"] + Count(findings)["High"] + Count(findings)["Medium"]
            + Count(findings)["Low"] + Count(findings)["Informational"]
  BY <1>1, CountsAddUp
<1>5. /\ \A s : Listed(s) = OfLevel(findings, s)
      /\ \A S : Three(S) <=> \E i, j, k \in S : i # j /\ j # k /\ i # k
  BY <1>2 DEF Listed, OfLevel, Three
<1>6. LET severe == OfLevel(findings, "Critical") \cup OfLevel(findings, "High") # {}
      IN  /\ OverallRisk(findings) = "NoMajorIssues" <=> n = 0
          /\ OverallRisk(findings) = "Critical" <=> OfLevel(findings, "Critical") # {}
          /\ OverallRisk(findings) = "High" <=> severe /\ OfLevel(findings, "Critical") = {}
          /\ OverallRisk(findings) = "Medium" <=>
                Three(OfLevel(findings, "Medium")) /\ ~severe
          /\ OverallRisk(findings) = "Low" <=>
                n > 0 /\ ~Three(OfLevel(findings, "Medium")) /\ ~severe
  BY <1>1, OverallIs
<1>7. LET three == Three(Listed("Medium"))
          severe == Listed("Critical") \cup Listed("High") # {}
      IN  /\ report.overall = "NoMajorIssues" <=> report.total = 0
          /\ report.overall = "Critical" <=> Listed("Critical") # {}
          /\ report.overall = "High" <=> severe /\ Listed("Critical") = {}
          /\ report.overall = "Medium" <=> three /\ ~severe
          /\ report.overall = "Low" <=> report.total > 0 /\ ~three /\ ~severe
  BY <1>2, <1>3, <1>5, <1>6
<1>8. ASSUME NEW i \in DOMAIN report.findings
      PROVE  Band(report.findings[i].score.final) = report.markdown.items[i].severity
  <2>1. PICK g \in Group : Shows(findings[i], g)
    BY <1>2, <1>3, <1>8 DEF Reports
  <2>2. g.severity \in Given /\ g.confidence \in Confidences
    BY DEF Group
  <2>3. findings[i].severity = Band(findings[i].score.final)
    BY <2>1, <2>2, SeverityIsBand DEF Shows
  <2>4. report.markdown.items[i].severity = findings[i].severity
    <3>1. \A f : MarkdownItem(f).severity = f.severity
      BY DEF MarkdownItem
    <3>2. report.markdown.items[i] = MarkdownItem(findings[i])
      BY <1>2, <1>8
    <3> QED
      BY <3>1, <3>2
  <2> QED
    BY <1>2, <2>3, <2>4
<1> QED
  BY <1>1, <1>2, <1>4, <1>7, <1>8 DEF ReportAddsUp, Three

\* Initially nothing is found, sent or reported.
LEMMA InitIInv == Init => IInv
<1> SUFFICES ASSUME Init PROVE IInv
  OBVIOUS
<1>1. TypeOK
  BY DEF Init, TypeOK, NoText
<1>2. ~Analyzed
  BY DEF Init, Analyzed
<1>3. FindingsInv
  BY <1>2 DEF Init, FindingsInv
<1>4. LlmInv
  <2>1. ToSet(enrich.areas) = {}
    BY DEF Init, NoText, ToSet
  <2> QED
    BY <2>1 DEF Init, LlmInv
<1>5. ReportInv
  BY DEF Init, ReportInv
<1> QED
  BY <1>1, <1>3, <1>4, <1>5 DEF IInv

\* analyze() lists its findings in order; it fails without any.
LEMMA AnalyzeIInv == ASSUME IInv, Analyze PROVE IInv'
<1>1. /\ output \in Outputs /\ large \in BOOLEAN /\ excerpt = <<>> /\ findings = <<>>
      /\ enrich.warnings \in {<<>>, <<"LLM_FAILED">>}
      /\ report = NoReport
      /\ overall \in {"Critical", "High", "Medium", "Low", "NoMajorIssues"}
      /\ \A a \in ToSet(enrich.areas) : a.ids \subseteq DOMAIN findings
  BY DEF IInv, TypeOK, FindingsInv, LlmInv, Analyze, Analyzed
<1>2. UNCHANGED <<output, large, excerpt, enrich, report>>
  BY DEF Analyze
<1>3. ASSUME phase' = "failed", UNCHANGED <<findings, overall>>
      PROVE  IInv'
  <2>1. TypeOK'
    BY <1>1, <1>2, <1>3 DEF TypeOK
  <2>2. FindingsInv'
    BY <1>1, <1>3 DEF FindingsInv, Analyzed
  <2>3. LlmInv'
    BY <1>1, <1>2, <1>3 DEF LlmInv
  <2>4. ReportInv'
    BY <1>3 DEF ReportInv
  <2> QED
    BY <2>1, <2>2, <2>3, <2>4 DEF IInv
<1>4. ASSUME findings' = Scored(Normalize(Raws(output))), overall' = OverallRisk(findings'),
             phase' = "enrich"
      PROVE  IInv'
  <2>1. Raws(output) \in Seq(Parsed) /\ ToSet(Raws(output)) = Results
    BY ResultsType DEF IInv, Results
  <2>2. /\ findings' \in Seq(FindingOf(Len(findings')))
        /\ Reports(findings', Results)
    BY <1>4, <2>1, ScoredReports
  <2>3. findings' \in Listing(Len(findings')) /\ Len(findings') \in Nat
    BY <2>2 DEF Listing
  <2>4. Results' = Results
    BY <1>2 DEF Results, Raws
  <2>5. findings' \in Seq(Finding')
    BY <2>2 DEF Finding, FindingOf, ScoreRecord
  <2>6. OverallRisk(findings') \in {"Critical", "High", "Medium", "Low", "NoMajorIssues"}
    BY <2>3, OverallIs
  <2>7. TypeOK'
    BY <1>1, <1>2, <1>4, <2>5, <2>6 DEF TypeOK
  <2>8. FindingsInv'
    BY <1>4, <2>2, <2>4 DEF FindingsInv, Analyzed
  <2>9. LlmInv'
    <3>1. \A a \in ToSet(enrich.areas) : a.ids \subseteq {}
      BY <1>1
    <3> QED
      BY <1>1, <1>2, <1>4, <3>1 DEF LlmInv
  <2>10. ReportInv'
    BY <1>4 DEF ReportInv
  <2> QED
    BY <2>7, <2>8, <2>9, <2>10 DEF IInv
<1> QED
  BY <1>3, <1>4 DEF Analyze

\* Skipping the LLM changes the phase alone.
LEMMA SkipEnrichIInv == ASSUME IInv, SkipEnrich PROVE IInv'
<1>1. Analyzed /\ Analyzed'
  BY DEF SkipEnrich, Analyzed
<1>2. Results' = Results
  BY DEF SkipEnrich, Results, Raws
<1>3. TypeOK'
  BY DEF IInv, SkipEnrich, TypeOK, Finding
<1>4. FindingsInv'
  BY <1>1, <1>2 DEF IInv, SkipEnrich, FindingsInv
<1>5. LlmInv'
  BY DEF IInv, SkipEnrich, LlmInv
<1>6. ReportInv'
  BY DEF SkipEnrich, ReportInv
<1> QED
  BY <1>3, <1>4, <1>5, <1>6 DEF IInv

\* The excerpt the LLM is sent
LEMMA InputCovers ==
    ASSUME IInv, phase = "enrich"
    PROVE  /\ BuildInput(findings) \in Seq((1..SourceLines) \X (1..SourceLines))
           /\ large => CoversFindings(BuildInput(findings), findings)
<1> DEFINE n == Len(findings)
<1>1. n \in Nat /\ findings \in Listing(n) /\ DOMAIN findings = 1..n
  BY FindingsType DEF IInv, TypeOK
<1>2. Reports(findings, Results) /\ Results \in SUBSET Parsed
  BY ResultsType DEF IInv, FindingsInv, Analyzed
<1>3. InOrder(findings)
  BY <1>1, <1>2, ReportsInOrder
<1>4. /\ WindowedExcerpt(findings) \in Seq(Ranges)
      /\ CoversFindings(WindowedExcerpt(findings), findings)
  BY <1>1, <1>3, ExcerptCovers
<1>5. CASE large
  <2>1. BuildInput(findings) = WindowedExcerpt(findings)
    BY <1>5 DEF BuildInput
  <2>2. Ranges \subseteq (1..SourceLines) \X (1..SourceLines)
    BY DEF Ranges
  <2> QED
    BY <1>4, <2>1, <2>2
<1>6. CASE ~large
  <2>1. BuildInput(findings) = <<<<1, SourceLines>>>>
    BY <1>6 DEF BuildInput
  <2>2. <<1, SourceLines>> \in (1..SourceLines) \X (1..SourceLines)
    BY AnalysisAssumption
  <2> QED
    BY <1>6, <2>1, <2>2
<1> QED
  BY <1>5, <1>6

\* A reply changes the texts, and only them.
LEMMA ReplyKeepsFacts ==
    ASSUME IInv, NEW reply \in Replies, EnrichWith(reply)
    PROVE  /\ Len(findings) \in Nat /\ Len(findings') = Len(findings)
           /\ findings \in Listing(Len(findings)) /\ findings' \in Listing(Len(findings))
           /\ DOMAIN findings = 1..Len(findings) /\ DOMAIN findings' = 1..Len(findings)
           /\ Facts(findings') = Facts(findings)
           /\ \A a \in ToSet(enrich'.areas) : a.ids \subseteq DOMAIN findings
<1> DEFINE n == Len(findings)
<1>1. n \in Nat /\ findings \in Listing(n) /\ DOMAIN findings = 1..n
  BY FindingsType DEF IInv, TypeOK
<1>2. reply.explanations \in Seq(Explanation) /\ reply.areas \in Seq(RiskArea)
  BY AnalysisAssumption
<1>3. findings' = FoldLeft(Explain, findings, reply.explanations)
  BY DEF EnrichWith
<1>4. findings' \in Listing(n) /\ Facts(findings') = Facts(findings)
  <2> HIDE DEF n
  <2> QED
    BY <1>1, <1>2, <1>3, ExplainKeepsFacts
<1>5. Len(findings') = n /\ DOMAIN findings' = 1..n
  <2> HIDE DEF n
  <2> QED
    BY <1>1, <1>4 DEF Listing
<1>6. enrich'.areas = Areas(reply, findings)
  BY DEF EnrichWith
<1>7. \A a \in ToSet(Areas(reply, findings)) : a.ids \subseteq DOMAIN findings
  <2>1. DOMAIN Areas(reply, findings) = DOMAIN reply.areas
    BY DEF Areas
  <2>2. \A i \in DOMAIN reply.areas :
           Areas(reply, findings)[i].ids = reply.areas[i].ids \cap DOMAIN findings
    BY DEF Areas
  <2> QED
    BY <2>1, <2>2 DEF ToSet
<1> QED
  BY <1>1, <1>4, <1>5, <1>6, <1>7

\* A reply keeps the invariant.
LEMMA EnrichWithIInv == ASSUME IInv, NEW reply \in Replies, EnrichWith(reply) PROVE IInv'
<1> DEFINE n == Len(findings)
<1>1. /\ n \in Nat /\ Len(findings') = n
      /\ findings \in Listing(n) /\ findings' \in Listing(n)
      /\ DOMAIN findings = 1..n /\ DOMAIN findings' = 1..n
      /\ Facts(findings') = Facts(findings)
      /\ \A a \in ToSet(enrich'.areas) : a.ids \subseteq DOMAIN findings
  BY ReplyKeepsFacts
<1>2. /\ phase = "enrich" /\ phase' = "report" /\ excerpt' = BuildInput(findings)
      /\ UNCHANGED <<output, large, overall, report>>
      /\ enrich'.warnings = <<>>
  BY DEF EnrichWith
<1>3. Reports(findings, Results) /\ overall = OverallRisk(findings)
  BY <1>2 DEF IInv, FindingsInv, Analyzed
<1>4. Results' = Results
  BY <1>2 DEF Results, Raws
<1> HIDE DEF n
<1>5. Reports(findings', Results)
  BY <1>1, <1>3, SameReports
<1>6. OverallRisk(findings') = OverallRisk(findings)
  BY <1>1, SameOverall
<1>7. /\ excerpt' \in Seq((1..SourceLines) \X (1..SourceLines))
      /\ large => CoversFindings(excerpt', findings)
  BY <1>2, InputCovers
<1>8. large => CoversFindings(excerpt', findings')
  BY <1>1, <1>7, SameExcerpt
<1>9. findings' \in Seq(Finding')
  <2>1. Finding' = FindingOf(n)
    BY <1>1 DEF Finding, FindingOf, ScoreRecord
  <2> QED
    BY <1>1, <2>1 DEF Listing
<1>10. TypeOK'
  BY <1>2, <1>7, <1>9 DEF IInv, TypeOK
<1>11. FindingsInv'
  BY <1>2, <1>3, <1>4, <1>5, <1>6 DEF FindingsInv, Analyzed
<1>12. LlmInv'
  BY <1>1, <1>2, <1>8 DEF LlmInv
<1>13. ReportInv'
  BY <1>2 DEF ReportInv
<1> QED
  BY <1>10, <1>11, <1>12, <1>13 DEF IInv

\* Without a reply the findings stay as they are.
LEMMA EnrichFailsIInv == ASSUME IInv, EnrichFails PROVE IInv'
<1>1. /\ phase = "enrich" /\ phase' = "report" /\ excerpt' = BuildInput(findings)
      /\ enrich' = [summary |-> Blank, areas |-> <<>>, warnings |-> <<"LLM_FAILED">>]
      /\ UNCHANGED <<output, large, findings, overall, report>>
  BY DEF EnrichFails, NoText
<1>2. /\ excerpt' \in Seq((1..SourceLines) \X (1..SourceLines))
      /\ large => CoversFindings(excerpt', findings)
  BY <1>1, InputCovers
<1>3. Results' = Results
  BY <1>1 DEF Results, Raws
<1>4. TypeOK'
  BY <1>1, <1>2 DEF IInv, TypeOK, Finding
<1>5. FindingsInv'
  BY <1>1, <1>3 DEF IInv, FindingsInv, Analyzed
<1>6. LlmInv'
  <2>1. ToSet(enrich'.areas) = {}
    BY <1>1 DEF ToSet
  <2> QED
    BY <1>1, <1>2, <2>1 DEF LlmInv
<1>7. ReportInv'
  BY <1>1 DEF ReportInv
<1> QED
  BY <1>4, <1>5, <1>6, <1>7 DEF IInv

\* The report is made of the findings, the counts and the overall risk at hand.
LEMMA GenerateIInv == ASSUME IInv, Generate PROVE IInv'
<1>1. /\ phase = "report" /\ phase' = "done"
      /\ UNCHANGED <<output, large, findings, overall, excerpt, enrich>>
      /\ report' = [overall |-> overall, total |-> Len(findings), counts |-> Count(findings),
                    summary |-> enrich.summary, areas |-> enrich.areas,
                    findings |-> findings, warnings |-> enrich.warnings,
                    markdown |-> Markdown]
  BY DEF Generate
<1>2. /\ report'.findings = findings /\ report'.total = Len(findings)
      /\ report'.counts = Count(findings) /\ report'.overall = overall
      /\ report'.markdown.items = [i \in DOMAIN findings |-> MarkdownItem(findings[i])]
  <2>1. Markdown.items = [i \in DOMAIN findings |-> MarkdownItem(findings[i])]
    BY DEF Markdown
  <2> QED
    BY <1>1, <2>1
<1>3. report' # NoReport
  <2>1. "markdown" \in DOMAIN report' /\ "markdown" \notin DOMAIN NoReport
    BY <1>1 DEF NoReport
  <2> QED
    BY <2>1
<1>4. Results' = Results
  BY <1>1 DEF Results, Raws
<1>5. TypeOK'
  BY <1>1, <1>3 DEF IInv, TypeOK, Finding
<1>6. FindingsInv'
  BY <1>1, <1>4 DEF IInv, FindingsInv, Analyzed
<1>7. LlmInv'
  BY <1>1 DEF IInv, LlmInv
<1>8. ReportInv'
  <2> SUFFICES /\ report'.findings = findings' /\ report'.total = Len(findings')
               /\ report'.counts = Count(findings') /\ report'.overall = overall'
               /\ report'.markdown.items = [i \in DOMAIN findings' |-> MarkdownItem(findings'[i])]
    BY DEF ReportInv
  <2> QED
    BY <1>1, <1>2
<1> QED
  BY <1>5, <1>6, <1>7, <1>8 DEF IInv

\* Nothing changes.
LEMMA StutterIInv == ASSUME IInv, UNCHANGED vars PROVE IInv'
<1>1. UNCHANGED <<output, large, phase, findings, overall, excerpt, enrich, report>>
  BY DEF vars
<1>2. Results' = Results /\ (Analyzed' <=> Analyzed)
  BY <1>1 DEF Results, Raws, Analyzed
<1>3. TypeOK'
  BY <1>1 DEF IInv, TypeOK, Finding
<1>4. FindingsInv'
  BY <1>1, <1>2 DEF IInv, FindingsInv
<1>5. LlmInv'
  BY <1>1 DEF IInv, LlmInv
<1>6. ReportInv'
  BY <1>1 DEF IInv, ReportInv
<1> QED
  BY <1>3, <1>4, <1>5, <1>6 DEF IInv

\* Each step keeps the invariant.
LEMMA NextIInv == IInv /\ [Next]_vars => IInv'
BY AnalyzeIInv, SkipEnrichIInv, EnrichWithIInv, EnrichFailsIInv, GenerateIInv, StutterIInv
   DEF Next

\* The inductive invariant holds in every reachable state, whatever Slither writes and
\* the LLM answers.
THEOREM Invariance == Spec => []IInv
BY InitIInv, NextIInv, PTL DEF Spec

\* The variables have their types: scores are at most 1000 and lines within the source.
THEOREM TypeCorrect == Spec => []TypeOK
BY Invariance, PTL DEF IInv

\* Every result of Slither is part of exactly one finding, which covers its lines, keeps
\* its evidence and rates it no lower, for any number of results (normalize).
THEOREM EveryResultReportedHolds == Spec => []EveryResultReported
BY Invariance, ResultsReported, PTL

\* For any number of results, findings of one category, contract and function begin on
\* different lines, and of any three two begin more than ten lines apart, although
\* merging moves the first line of a group (normalize, line_bucket).
THEOREM NearbyResultsMergeHolds == Spec => []NearbyResultsMerge
BY Invariance, NearbyMerge, PTL

\* For every permutation of Slither's detector results, however many, the findings keep
\* their places, spans, evidence, impacts and confidences, and their final scores unless
\* results of different detectors were merged (normalize, score).
THEOREM MergeOrderIndependentHolds == Spec => []MergeOrderIndependent
BY Invariance, OrderIndependent, PTL

\* A finding is Critical only if its results bring an eligible detector and a High
\* confidence, and is when all are eligible and one is High (score, after normalize).
THEOREM CriticalIsJustifiedHolds == Spec => []CriticalIsJustified
BY Invariance, CriticalJustified, PTL

\* A result's own score is never above that of the finding it was merged into, if the
\* finding bears its detector: duplicates of one detector cannot hide the worst of them
\* (normalize, score).
THEOREM MergingKeepsScoresHolds == Spec => []MergingKeepsScores
BY Invariance, ScoresKept, PTL

\* The excerpt of a large source holds exactly the lines near a finding, in separate
\* ascending ranges, for any number of findings (windowed_excerpt).
THEOREM ExcerptCoversFindingsHolds == Spec => []ExcerptCoversFindings
BY Invariance, ExcerptHolds, PTL

\* The counts of a report add up to its findings, and its overall risk is that of
\* overall_risk's cases for the findings it lists: Critical or High if one is, else
\* Medium from three Medium findings on, else Low, for any number of findings (generate,
\* count, overall_risk).
THEOREM ReportAddsUpHolds == Spec => []ReportAddsUp
BY Invariance, ReportHolds, PTL

\* A step after the analysis keeps the facts and grounds the risk areas.
LEMMA StepOnlyExplains ==
    ASSUME IInv, [Next]_vars, Analyzed
    PROVE  /\ Facts(findings') = Facts(findings)
           /\ \A a \in ToSet(enrich'.areas) : a.ids \subseteq DOMAIN findings
<1>1. \A a \in ToSet(enrich.areas) : a.ids \subseteq DOMAIN findings
  BY DEF IInv, LlmInv
<1>2. CASE Analyze
  BY <1>2 DEF Analyze, Analyzed
<1>3. CASE SkipEnrich
  BY <1>1, <1>3 DEF SkipEnrich
<1>4. ASSUME NEW reply \in Replies, EnrichWith(reply)
      PROVE  /\ Facts(findings') = Facts(findings)
             /\ \A a \in ToSet(enrich'.areas) : a.ids \subseteq DOMAIN findings
  BY <1>4, ReplyKeepsFacts
<1>5. CASE EnrichFails
  <2>1. findings' = findings /\ enrich'.areas = <<>>
    BY <1>5 DEF EnrichFails, NoText
  <2>2. ToSet(enrich'.areas) = {}
    BY <2>1 DEF ToSet
  <2> QED
    BY <2>1, <2>2
<1>6. CASE Generate
  BY <1>1, <1>6 DEF Generate
<1>7. CASE UNCHANGED vars
  BY <1>1, <1>7 DEF vars
<1> QED
  BY <1>2, <1>3, <1>4, <1>5, <1>6, <1>7 DEF Next

\* No reply, with any number of explanations of any ids, changes anything of a finding
\* but its text, or leaves a risk area on an id nobody produced (parse_and_apply).
THEOREM LlmOnlyExplainsHolds == Spec => LlmOnlyExplains
<1>1. IInv /\ [Next]_vars =>
        [Analyzed => /\ Facts(findings') = Facts(findings)
                     /\ \A a \in ToSet(enrich'.areas) : a.ids \subseteq DOMAIN findings]_vars
  BY StepOnlyExplains
<1> QED
  BY <1>1, Invariance, PTL DEF Spec, LlmOnlyExplains
================================================================================
