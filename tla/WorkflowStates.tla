--------------------------- MODULE WorkflowStates ---------------------------
(***************************************************************************)
(* The states of one triage run and the two copies of its transition       *)
(* graph: the table RunJournal.transition consults before it moves, and    *)
(* the rule RunManifest validates every history with.                      *)
(***************************************************************************)

FailureStates ==
    {"INVALID_SARIF", "CODEQL_FAILED", "CONTEXT_INCOMPLETE", "MODEL_FAILED",
     "POLICY_REJECTED"}

ProgressStates ==
    {"CREATED", "PROJECT_VALIDATED", "WORKSPACE_READY", "SOURCE_READY",
     "BUILD_READY", "CODEQL_DB_READY", "SCANNED", "SARIF_INGESTED",
     "NORMALIZED", "CONTEXT_READY", "ANALYZED", "REBUTTED", "JUDGED"}

WorkflowState == ProgressStates \cup FailureStates

\* The states complete() accepts.
GoalStates == {"CONTEXT_READY", "JUDGED"}

Modes == {"sarif", "scan"}

\* States only a CodeQL scan passes through, and the one only an ingest does.
ScanBranch == {"BUILD_READY", "CODEQL_DB_READY", "SCANNED"}
IngestBranch == {"SARIF_INGESTED"}

\* _ALLOWED_TRANSITIONS: no entry leads to a failure state, fail() does.
JournalEdges ==
    {<<"CREATED", "PROJECT_VALIDATED">>,
     <<"PROJECT_VALIDATED", "WORKSPACE_READY">>,
     <<"WORKSPACE_READY", "SOURCE_READY">>,
     <<"SOURCE_READY", "BUILD_READY">>, <<"SOURCE_READY", "SARIF_INGESTED">>,
     <<"BUILD_READY", "CODEQL_DB_READY">>, <<"CODEQL_DB_READY", "SCANNED">>,
     <<"SCANNED", "NORMALIZED">>, <<"SARIF_INGESTED", "NORMALIZED">>,
     <<"NORMALIZED", "CONTEXT_READY">>, <<"CONTEXT_READY", "ANALYZED">>,
     <<"ANALYZED", "REBUTTED">>, <<"REBUTTED", "JUDGED">>}

\* Mutant of ManifestEdges: the validator's copy misses an edge of the table.
ManifestEdgesStale == JournalEdges \ {<<"REBUTTED", "JUDGED">>}

\* _workflow_transition_is_allowed, the validator's own copy of the graph.
ManifestEdges ==
    {<<"CREATED", "PROJECT_VALIDATED">>,
     <<"PROJECT_VALIDATED", "WORKSPACE_READY">>,
     <<"WORKSPACE_READY", "SOURCE_READY">>,
     <<"SOURCE_READY", "BUILD_READY">>, <<"SOURCE_READY", "SARIF_INGESTED">>,
     <<"BUILD_READY", "CODEQL_DB_READY">>, <<"CODEQL_DB_READY", "SCANNED">>,
     <<"SCANNED", "NORMALIZED">>, <<"SARIF_INGESTED", "NORMALIZED">>,
     <<"NORMALIZED", "CONTEXT_READY">>, <<"CONTEXT_READY", "ANALYZED">>,
     <<"ANALYZED", "REBUTTED">>, <<"REBUTTED", "JUDGED">>}

ManifestAllows(previous, following) ==
    IF following \in FailureStates
    THEN previous \notin FailureStates
    ELSE <<previous, following>> \in ManifestEdges

\* How far a state is from CREATED; every edge of the journal goes up.
Rank == [s \in WorkflowState |->
    IF s = "CREATED" THEN 0 ELSE IF s = "PROJECT_VALIDATED" THEN 1
    ELSE IF s = "WORKSPACE_READY" THEN 2 ELSE IF s = "SOURCE_READY" THEN 3
    ELSE IF s \in {"BUILD_READY", "SARIF_INGESTED"} THEN 4
    ELSE IF s = "CODEQL_DB_READY" THEN 5 ELSE IF s = "SCANNED" THEN 6
    ELSE IF s = "NORMALIZED" THEN 7 ELSE IF s = "CONTEXT_READY" THEN 8
    ELSE IF s = "ANALYZED" THEN 9 ELSE IF s = "REBUTTED" THEN 10
    ELSE IF s = "JUDGED" THEN 11 ELSE 12]

=============================================================================
