---------------------------- MODULE MCRunJournal ----------------------------
(* A journal used by any client in any order.  MaxIncidents bounds the     *)
(* refused system calls and outside file changes of one run together.      *)
EXTENDS RunJournal

CONSTANT MaxIncidents

VARIABLE incidents

MCPaths == {"descriptor", "report"}
MCInitialArtifacts == <<"descriptor">>

MCInit == Init /\ incidents = 0

MCNext ==
    \/ \E io \in IO :
         /\ incidents' = incidents + (IF io = "none" THEN 0 ELSE 1)
         /\ incidents' <= MaxIncidents
         /\ Step(io)
    \/ /\ incidents < MaxIncidents
       /\ incidents' = incidents + 1
       /\ \E p \in Paths : Alter(p)

MCSpec == MCInit /\ [][MCNext]_<<journalVars, incidents>>

=============================================================================
