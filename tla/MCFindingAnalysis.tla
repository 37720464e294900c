--------------------------- MODULE MCFindingAnalysis ---------------------------
(* Small instances of FindingAnalysis for TLC. *)
EXTENDS FindingAnalysis

CONSTANT MaxResults  \* bound: detector results in one output of Slither

El(type, name, parent, lines) ==
    [type |-> type, name |-> name, parent |-> parent, lines |-> lines]
Fn(name, lines) == El("function", name, 1, lines)
Node(name, lines) == El("node", name, 1, lines)
Res(check, impact, confidence, elements) ==
    [check |-> check, impact |-> impact, confidence |-> confidence, elements |-> elements]

\* Contracts are 1 and 2, functions 11 to 13, other elements 31 and up.  Lines on both
\* sides of a bucket edge, at both ends of the source, and absent ones.
Samples ==
    {Res("reentrancy-eth", "High", "High", <<Fn(11, {42, 43}), Node(31, {43})>>),
     Res("reentrancy-no-eth", "Medium", "Medium", <<Node(31, {49}), Fn(11, {44, 45, 58})>>),
     Res("reentrancy-events", "Low", "Medium", <<Fn(11, {41, 49}), Node(32, {49})>>),
     Res("reentrancy-eth", "High", "Medium", <<Fn(11, {50, 51})>>),
     Res("arbitrary-send-eth", "High", "Medium", <<Fn(12, {8, 12})>>),
     Res("naming-convention", "Informational", "High", <<Fn(12, {9})>>),
     Res("suicidal", "High", "High", <<Fn(12, {5, 6, 7})>>),
     Res("unused-return", "Medium", "Medium", <<Fn(12, {}), Node(33, {30})>>),
     Res("solc-version", "Informational", "High", <<El("pragma", None, None, {1})>>),
     Res("unknown", "absent", "absent", <<>>),
     Res("assembly", "Informational", "High", <<Fn(11, {100, 118})>>),
     Res("delegatecall-loop", "High", "Medium",
         <<Node(34, {21}), El("contract", 1, None, 20..88)>>),
     Res("tx-origin", "Medium", "Medium", <<Node(33, {109})>>),
     Res("unchecked-transfer", "High", "Low",
         [i \in 1..7 |-> Node(40 + (i % 6), {118})]),
     Res("controlled-delegatecall", "High", "Medium",
         <<El("function", 13, 2, {75, 76}), Node(35, {76})>>)}

MCOutputs ==
    {[kind |-> "success", detectors |-> ds] :
        ds \in UNION {[1..n -> Samples] : n \in 0..MaxResults}}
    \cup {[kind |-> k, detectors |-> <<>>] : k \in {"malformed", "compile_error"}}

Says(summary, note) ==
    [k \in Fields |-> IF k = "summary" THEN summary
                      ELSE IF k = "false_positive_note" THEN note ELSE Blank]
About(id, summary, note) ==
    [id |-> id, text |-> Says(summary, note), severity |-> "Low"]

\* Two explanations of one finding, ids nobody produced, a reply without any.
MCReplies ==
    {[explanations |-> <<About(1, "t1", "n1"), About(99, "t9", Blank), About(1, "t2", Blank)>>,
      areas |-> <<[area |-> "a1", ids |-> {1, 99, 2}], [area |-> "a2", ids |-> {}]>>,
      summary |-> "s1"],
     [explanations |-> <<>>, areas |-> <<>>, summary |-> Blank]}
================================================================================
