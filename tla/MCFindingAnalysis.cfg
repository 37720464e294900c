SPECIFICATION Spec
CONSTANTS
    Outputs <- MCOutputs
    SourceLines = 120
    Replies <- MCReplies
    MaxResults = 3
\* A scan ends with its report.
CHECK_DEADLOCK FALSE
INVARIANTS TypeOK EveryResultReported NearbyResultsMerge MergeOrderIndependent CriticalIsJustified ExcerptCoversFindings ReportAddsUp
PROPERTIES LlmOnlyExplains
