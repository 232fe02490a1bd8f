----------------------------- MODULE MCPipeline -----------------------------
(* The four kinds of command, one alert, the files of two CodeQL commands. *)
EXTENDS Pipeline

MCCommands ==
    {[mode |-> m, goal |-> g, supplement |-> g = "JUDGED"] :
        m \in Modes, g \in GoalStates}
MCSlicePaths == <<"context/slices/run-000000-result-000000.json">>
MCToolLogs == <<"codeql/database-create.stdout.log",
                "codeql/database-analyze.stdout.log">>

=============================================================================
