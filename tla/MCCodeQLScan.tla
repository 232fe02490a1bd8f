---------------------------- MODULE MCCodeQLScan ----------------------------
(* Two scans of one workspace, with one incident. *)
EXTENDS CodeQLScan, TLC

CONSTANTS s1, s2

Setup(plan, tools, java) ==
    [plan |-> plan, tools |-> tools,
     version |-> <<"pinned", java, "pinned">>]

MCSetups ==
    {Setup("pinned", "found", "pinned"), Setup("pinned", "found", "other"),
     Setup("pinned", "found", "unknown"), Setup("unsafe", "found", "pinned"),
     Setup("pinned", "missing", "pinned"), Setup("pinned", "mixed", "pinned")}

=============================================================================
