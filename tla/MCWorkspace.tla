---------------------------- MODULE MCWorkspace ----------------------------
(***************************************************************************)
(* Small instances of Workspace.                                           *)
(***************************************************************************)
EXTENDS Workspace

MCStops == {"stop"}
MCEverything == {"stop", "edit", "tamper"}
MCProcs == {"p1", "p2"}
MCSpecs == {"spec", "other spec"}
MCContents == {"tree", "edited tree"}
MCOneSpec == {"spec"}
MCOneContent == {"tree"}

=============================================================================
