---------------------------- MODULE RunLifecycle ----------------------------
(***************************************************************************)
(* What a run promises to whoever reads run-manifest.json while the        *)
(* command works or after it stopped: one path through the graph of        *)
(* RunManifest, one ending, no way back.  It is the specification the      *)
(* detailed modules implement; no part of it translates a function.        *)
(***************************************************************************)
EXTENDS WorkflowStates

VARIABLES
    mode, goal,     \* what the command was asked for
    state, status   \* what the manifest says; "none" while there is none

lifecycleVars == <<mode, goal, state, status>>

Init ==
    /\ mode \in Modes /\ goal \in GoalStates
    /\ state = "CREATED" /\ status = "none"

Begin == status = "none" /\ status' = "running" /\ state' = state

\* Progress is one edge at a time, on the branch of the mode, up to the goal.
Advance ==
    /\ status = "running" /\ state # goal
    /\ state' \notin (IF mode = "sarif" THEN ScanBranch ELSE IngestBranch)
    /\ ManifestAllows(state, state') /\ state' \in ProgressStates
    /\ status' = "running"

Complete == status = "running" /\ state = goal /\ status' = "completed" /\ state' = state

\* A run may fail anywhere, but CodeQL cannot fail a run that never calls it.
Fail ==
    /\ status = "running" /\ status' = "failed"
    /\ state' \in FailureStates \ (IF mode = "sarif" THEN {"CODEQL_FAILED"} ELSE {})

Next == (Begin \/ Advance \/ Complete \/ Fail) /\ UNCHANGED <<mode, goal>>

Spec == Init /\ [][Next]_lifecycleVars

=============================================================================
