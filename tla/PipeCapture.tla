---------------------------- MODULE PipeCapture ----------------------------
(***************************************************************************)
(* How the output of one credential tool reaches the program: a thread     *)
(* drains a pipe while another one waits for the tool.  Output is counted  *)
(* in chunks, and since a pipe keeps their order, what was kept is a       *)
(* prefix of what was written.  The capture of standard error is a second  *)
(* pipe of the same kind and is left out.                                  *)
(***************************************************************************)
EXTENDS Naturals, FiniteSetsExt

CONSTANTS
    Output,     \* bound: the most chunks the processes at the other end write
    PipeSize,   \* chunks that fit into the pipe
    Limit       \* chunks that are retained, maximum_bytes + 1

ASSUME CaptureAssumption == {Output, PipeSize, Limit} \subseteq Nat \ {0}

VARIABLES
    writers,    \* who has the write end open: the runner, the tool, its heir
    written,    \* chunks written so far
    taken,      \* chunks read so far
    kept,       \* chunks in the buffer
    size,       \* chunks the tool writes if nobody stops it
    due,        \* chunks the tool had written when it ended
    reader,     \* what the reading thread does
    finished    \* the event _subprocess_finished

capture == <<writers, written, taken, kept, size, due, reader, finished>>

CaptureType ==
    /\ writers \subseteq {"runner", "tool", "heir"}
    /\ {written, taken, size, due} \subseteq 0 .. Output
    /\ taken <= written /\ written - taken <= PipeSize
    /\ kept = Min({taken, Limit})
    /\ reader \in {"off", "reading", "took", "found nothing", "done"}
    /\ finished \in BOOLEAN

Closed ==
    /\ writers = {} /\ written = 0 /\ taken = 0 /\ kept = 0
    /\ size = 0 /\ due = 0
    /\ reader = "off" /\ finished = FALSE

Close ==
    /\ writers' = {} /\ written' = 0 /\ taken' = 0 /\ kept' = 0
    /\ size' = 0 /\ due' = 0
    /\ reader' = "off" /\ finished' = FALSE

\* The thread is started before the tool.
Spawn(chunks) ==
    /\ reader = "off" /\ reader' = "reading"
    /\ writers' = {"runner", "tool"} /\ size' = chunks
    /\ UNCHANGED <<written, taken, kept, due, finished>>

ToolWrites ==
    /\ \/ "tool" \in writers /\ written < size
       \/ "heir" \in writers /\ written < Output
    /\ written - taken < PipeSize
    /\ written' = written + 1
    /\ UNCHANGED <<writers, taken, kept, size, due, reader, finished>>

\* The tool exits or is killed.  A process it left behind keeps the pipe open.
ToolEnds ==
    /\ "tool" \in writers
    /\ \E heir \in {{}, {"heir"}} : writers' = (writers \ {"tool"}) \cup heir
    /\ due' = written
    /\ UNCHANGED <<written, taken, kept, size, reader, finished>>

CloseOwnEnd ==
    /\ "runner" \in writers /\ "tool" \notin writers
    /\ writers' = writers \ {"runner"}
    /\ UNCHANGED <<written, taken, kept, size, due, reader, finished>>

SetFinished ==
    /\ reader # "off" /\ writers \cap {"runner", "tool"} = {}
    /\ ~finished /\ finished' = TRUE
    /\ UNCHANGED <<writers, written, taken, kept, size, due, reader>>

Read ==
    /\ reader = "reading"
    /\ \/ /\ taken < written /\ taken' = written
          /\ kept' = Min({written, Limit}) /\ reader' = "took"
       \/ /\ taken = written /\ UNCHANGED <<taken, kept>>
          /\ reader' = IF writers = {} THEN "done" ELSE "found nothing"
    /\ UNCHANGED <<writers, written, size, due, finished>>

\* Mutant of AfterChunk: the thread stops once it has all it may keep.
AfterChunkStopsWhenFull ==
    /\ reader = "took"
    /\ reader' = IF kept = Limit THEN "done" ELSE "reading"
    /\ UNCHANGED <<writers, written, taken, kept, size, due, finished>>

AfterChunk ==
    /\ reader = "took"
    /\ reader' = IF finished /\ kept = Limit THEN "done" ELSE "reading"
    /\ UNCHANGED <<writers, written, taken, kept, size, due, finished>>

\* Mutant of AfterNothing: the thread waits for the end of the stream.
AfterNothingWaits ==
    /\ reader = "found nothing" /\ reader' = "reading"
    /\ UNCHANGED <<writers, written, taken, kept, size, due, finished>>

\* The event is looked at after the read that found nothing.
AfterNothing ==
    /\ reader = "found nothing"
    /\ reader' = IF finished THEN "done" ELSE "reading"
    /\ UNCHANGED <<writers, written, taken, kept, size, due, finished>>

Joined == finished /\ reader = "done"

\* What subprocess.CompletedProcess carries of the output of a tool.
Captured ==
    IF kept = Limit THEN "too large"
    ELSE IF kept = due THEN "whole"
    ELSE IF kept = 0 THEN "empty"
    ELSE IF kept < due THEN "cut" ELSE "mixed"

ReaderSteps == Read \/ AfterChunk \/ AfterNothing
CaptureSteps == ReaderSteps \/ ToolWrites \/ CloseOwnEnd \/ SetFinished

-----------------------------------------------------------------------------
(* Properties. *)

\* While the tool can write, somebody reads: the bound on what is retained
\* never makes a tool wait for a full pipe until it is killed.
ReaderOutlivesTheTool == reader = "done" => "tool" \notin writers

\* "Drain one child pipe while retaining at most maximum_bytes + 1"
\* (credentials.py:84): what a tool wrote before it ended is in the buffer.
CapturedOutputIsWhole == Joined => kept >= Min({due, Limit})

=============================================================================
