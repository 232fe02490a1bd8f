----------------------------- MODULE CodeQLScan -----------------------------
(***************************************************************************)
(* CodeQLRunner.scan, by one or more processes in one managed workspace:   *)
(* its checks, the five commands and the files they leave.  A command runs *)
(* as a child that may leave descendants behind, which keep its pipes open *)
(* or go on working on the SARIF file; what a tool does is external.       *)
(***************************************************************************)
EXTENDS ScanFiles, FiniteSets, SequencesExt

CONSTANTS
    Procs,          \* processes that scan the workspace
    Setups,         \* what the build plan and the installed tools are like
    MaxIncidents    \* bound: refused writes and kills

Nobody == "nobody"
Commands ==
    <<"codeql-version", "java-version", "javac-version",
      "database-create", "database-analyze">>
Create == 4
Analyze == 5
Parts == <<"stdout.log", "stderr.log", "command.json">>

\* The logs in the order of their writing.
Logs == [i \in 1 .. Len(Commands) * Len(Parts) |->
           <<Commands[(i - 1) \div Len(Parts) + 1], Parts[((i - 1) % Len(Parts)) + 1]>>]
Sarif == <<"results", "sarif">>
Metadata == <<"run", "json">>
Paths == ToSet(Logs) \cup {Sarif, Metadata}

ASSUME ScanAssumption ==
    /\ Nobody \notin Procs /\ MaxIncidents \in Nat
    /\ Setups \subseteq
         [plan : {"pinned", "unsafe"}, tools : {"found", "missing", "mixed"},
          version : [1 .. Create - 1 -> {"pinned", "other", "unknown"}]]

VARIABLES
    setup,
    files,      \* path -> its content
    author,     \* path -> the process that wrote it
    database,   \* the CodeQL database is there
    at, step,   \* what a process does, and in which command
    part,       \* the log it writes next
    child,      \* its child, or a descendant that keeps the pipes open
    ended,      \* how the present command ended
    exits,      \* how its commands have ended so far
    bytes,      \* what it read of the SARIF file
    outcome,    \* how its scan ended
    orphans,    \* commands, by process, of which a descendant lives on
    incidents

control == <<at, step, part, exits, bytes>>
vars == <<setup, files, author, database, control, child, ended, outcome,
          orphans, incidents>>

None == "none"
Pending == [kind |-> "pending"]

Init ==
    /\ setup \in Setups
    /\ files = [f \in Paths |-> "absent"] /\ author = [f \in Paths |-> Nobody]
    /\ database = FALSE
    /\ at = [p \in Procs |-> "call"] /\ step = [p \in Procs |-> 1]
    /\ part = [p \in Procs |-> 1] /\ child = [p \in Procs |-> None]
    /\ ended = [p \in Procs |-> None] /\ exits = [p \in Procs |-> <<>>]
    /\ bytes = [p \in Procs |-> None] /\ outcome = [p \in Procs |-> Pending]
    /\ orphans = {} /\ incidents = 0

Goto(p, where) == at' = [at EXCEPT ![p] = where]
Incident == incidents < MaxIncidents /\ incidents' = incidents + 1

End(p, how) ==
    /\ Goto(p, "ended") /\ outcome' = [outcome EXCEPT ![p] = how]
    /\ UNCHANGED <<step, part, exits, bytes>>

Raise(p, kind) == End(p, [kind |-> kind, step |-> step[p]])

Proceed(p, where) == Goto(p, where) /\ UNCHANGED <<step, part, exits, bytes, outcome>>

\* The file is opened for exclusive creation and written.
Write(p, path, content) ==
    /\ files' = [files EXCEPT ![path] = content]
    /\ author' = [author EXCEPT ![path] = p]

-----------------------------------------------------------------------------
(* Before the first command. *)

\* _validated_paths: neither a database nor a SARIF file is overwritten.
PathsAreFree == ~database /\ files[Sarif] = "absent"

\* _validate_maven_wrapper: one exact release, by HTTPS and digest.
PlanIsPinned == setup.plan = "pinned"

\* _find_tool, _require_same_jdk
ToolsAreFound == setup.tools # "missing"
ToolsAreOfOneJdk == setup.tools # "mixed"

Begin(p) ==
    /\ at[p] = "call"
    /\ CASE ~PathsAreFree -> Raise(p, "unsafe path")
         [] PathsAreFree /\ ~PlanIsPinned -> Raise(p, "build plan")
         [] PathsAreFree /\ PlanIsPinned /\ ~ToolsAreFound -> Raise(p, "no tool")
         [] PathsAreFree /\ PlanIsPinned /\ ToolsAreFound ->
              IF ToolsAreOfOneJdk THEN Proceed(p, "start") ELSE Raise(p, "build plan")
    /\ UNCHANGED <<setup, files, author, database, child, ended, orphans, incidents>>

-----------------------------------------------------------------------------
(* One command: _run_command. *)

StartCommand(p) ==
    /\ at[p] = "start" /\ Proceed(p, "wait")
    /\ child' = [child EXCEPT ![p] = "running"]
    /\ UNCHANGED <<setup, files, author, database, ended, orphans, incidents>>

CannotStart(p) ==
    /\ at[p] = "start" /\ Incident /\ Proceed(p, "write")
    /\ ended' = [ended EXCEPT ![p] = "not started"]
    /\ UNCHANGED <<setup, files, author, database, child, orphans>>

\* The build creates the database; the analysis writes the SARIF file, whose
\* beginning does not parse.
ToolWorks(p) ==
    /\ child[p] = "running"
    /\ \/ /\ step[p] = Create /\ ~database /\ database' = TRUE
          /\ UNCHANGED <<files, author>>
       \/ /\ step[p] = Analyze /\ files[Sarif] # "original"
          /\ Write(p, Sarif, IF files[Sarif] = "absent" THEN "partial" ELSE "original")
          /\ UNCHANGED database
    /\ UNCHANGED <<setup, control, child, ended, outcome, orphans, incidents>>

\* Only a build or an analysis has descendants; one of them may keep the pipes.
LivesOn(p) ==
    orphans' \in {orphans} \cup
        (IF step[p] >= Create THEN {orphans \cup {<<p, step[p]>>}} ELSE {})

ToolExits(p) ==
    /\ child[p] = "running" /\ ended' \in {[ended EXCEPT ![p] = e] : e \in {"ok", "failed"}}
    /\ LivesOn(p)
    /\ child' \in {[child EXCEPT ![p] = c] :
         c \in {None} \cup (IF <<p, step[p]>> \in orphans' THEN {"heir"} ELSE {})}
    /\ UNCHANGED <<setup, files, author, database, control, outcome, incidents>>

HeirLetsGo(p) ==
    /\ child[p] = "heir" /\ child' = [child EXCEPT ![p] = None]
    /\ UNCHANGED <<setup, files, author, database, control, ended, outcome,
                   orphans, incidents>>

\* Mutant of Timeout: once the child is killed, its pipes are read to the end.
TimeoutDrainsThePipes(p) ==
    /\ child[p] = "running"
    /\ ended' = [ended EXCEPT ![p] = "timeout"]
    /\ LivesOn(p)
    /\ child' \in {[child EXCEPT ![p] = c] :
         c \in {None} \cup (IF <<p, step[p]>> \in orphans' THEN {"heir"} ELSE {})}
    /\ UNCHANGED <<setup, files, author, database, control, outcome, incidents>>

\* The child is killed and not its descendants; the exit of a child whose
\* pipes are still open counts for nothing.
Timeout(p) ==
    /\ child[p] # None /\ child' = [child EXCEPT ![p] = None]
    /\ ended' = [ended EXCEPT ![p] = "timeout"]
    /\ LivesOn(p)
    /\ UNCHANGED <<setup, files, author, database, control, outcome, incidents>>

CommandReturns(p) ==
    /\ at[p] = "wait" /\ child[p] = None /\ ended[p] # None /\ Proceed(p, "write")
    /\ UNCHANGED <<setup, files, author, database, child, ended, orphans, incidents>>

Log(p) == <<Commands[step[p]], Parts[part[p]]>>

\* The last of the three is the record of the command, and scan() goes on.
NextPart(p) ==
    IF part[p] < Len(Parts)
    THEN part' = [part EXCEPT ![p] = @ + 1] /\ UNCHANGED <<at, step, exits, bytes, outcome>>
    ELSE /\ part' = [part EXCEPT ![p] = 1] /\ Goto(p, "check")
         /\ exits' = [exits EXCEPT ![p] = Append(@, ended[p])]
         /\ UNCHANGED <<step, bytes, outcome>>

\* Mutant of WriteLog: a log that is there is written over.
WriteLogOver(p) ==
    /\ at[p] = "write" /\ Write(p, Log(p), "original") /\ NextPart(p)
    /\ UNCHANGED <<setup, database, child, ended, orphans, incidents>>

WriteLog(p) ==
    /\ at[p] = "write"
    /\ IF files[Log(p)] = "absent" THEN Write(p, Log(p), "original") /\ NextPart(p)
       ELSE Raise(p, "unsafe path") /\ UNCHANGED <<files, author>>
    /\ UNCHANGED <<setup, database, child, ended, orphans, incidents>>

Target(p) == IF at[p] = "publish" THEN Metadata ELSE Log(p)

\* The file cannot be created or written.
WriteFails(p) ==
    /\ at[p] \in {"write", "publish"} /\ files[Target(p)] = "absent" /\ Incident
    /\ Write(p, Target(p), "partial") \/ UNCHANGED <<files, author>>
    /\ Raise(p, "no artifact")
    /\ UNCHANGED <<setup, database, child, ended, orphans>>

-----------------------------------------------------------------------------
(* After a command. *)

\* Mutant of Verdict: what has no exit code was not started.
VerdictByExitCode(how) ==
    IF how \in {"timeout", "not started"} THEN "not started"
    ELSE IF how = "ok" THEN "ok" ELSE "failed"

\* _require_success
Verdict(how) ==
    IF how = "timeout" THEN "timeout"
    ELSE IF how = "not started" THEN "not started"
    ELSE IF how = "ok" THEN "ok" ELSE "failed"

\* What is read of the logs, against the pins of the project.
Pinned(s) == setup.version[s] = "pinned"
Readable(s) == setup.version[s] # "unknown"

\* The output is there that the next step works with.
HasOutput(s) == IF s = Create THEN database ELSE files[Sarif] # "absent"

NextCommand(p) ==
    /\ Goto(p, "start") /\ step' = [step EXCEPT ![p] = @ + 1]
    /\ UNCHANGED <<part, exits, bytes, outcome>>

Check(p) ==
    /\ at[p] = "check" /\ ended' = [ended EXCEPT ![p] = None]
    /\ LET s == step[p]
           verdict == Verdict(ended[p])
       IN IF verdict # "ok" THEN Raise(p, verdict)
          ELSE IF s < Create /\ ~Readable(s) THEN Raise(p, "no version")
          ELSE IF s < Create /\ ~Pinned(s) THEN Raise(p, "version")
          ELSE IF s >= Create /\ ~HasOutput(s) THEN Raise(p, "no output")
          ELSE IF s = Analyze THEN Proceed(p, "read") ELSE NextCommand(p)
    /\ UNCHANGED <<setup, files, author, database, child, orphans, incidents>>

ReadSarif(p) ==
    /\ at[p] = "read" /\ bytes' = [bytes EXCEPT ![p] = files[Sarif]]
    /\ Goto(p, "parse") /\ UNCHANGED <<step, part, exits, outcome>>
    /\ UNCHANGED <<setup, files, author, database, child, ended, orphans, incidents>>

\* Mutant of ParseSarif: any regular file will do.
ParseSarifNever(p) ==
    /\ at[p] = "parse" /\ Proceed(p, "publish")
    /\ UNCHANGED <<setup, files, author, database, child, ended, orphans, incidents>>

ParseSarif(p) ==
    /\ at[p] = "parse"
    /\ IF bytes[p] = "partial" THEN Raise(p, "no SARIF") ELSE Proceed(p, "publish")
    /\ UNCHANGED <<setup, files, author, database, child, ended, orphans, incidents>>

\* run.json, with the digest of the bytes that were parsed.
Publish(p) ==
    /\ at[p] = "publish"
    /\ IF files[Metadata] = "absent"
       THEN Write(p, Metadata, "original") /\ End(p, [kind |-> "succeeded", sarif |-> bytes[p]])
       ELSE Raise(p, "unsafe path") /\ UNCHANGED <<files, author>>
    /\ UNCHANGED <<setup, database, child, ended, orphans, incidents>>

-----------------------------------------------------------------------------
(* What happens around the scan. *)

\* A descendant makes the database after all, or finishes the SARIF file, or
\* spoils the finished one.
OrphanWorks(p) ==
    /\ \/ <<p, Create>> \in orphans /\ ~database /\ database' = TRUE
          /\ UNCHANGED <<files, author>>
       \/ /\ <<p, Analyze>> \in orphans /\ files[Sarif] # "altered"
          /\ Write(p, Sarif, CASE files[Sarif] = "absent" -> "partial"
                               [] files[Sarif] = "partial" -> "original"
                               [] files[Sarif] = "original" -> "altered")
          /\ UNCHANGED database
    /\ UNCHANGED <<setup, control, child, ended, outcome, orphans, incidents>>

OrphanEnds ==
    /\ \E o \in orphans :
         /\ ~(child[o[1]] = "heir" /\ step[o[1]] = o[2]) /\ orphans' = orphans \ {o}
    /\ UNCHANGED <<setup, files, author, database, control, child, ended,
                   outcome, incidents>>

\* The process is killed, perhaps with a file half-written; its child lives on.
Kill(p) ==
    /\ at[p] # "ended" /\ Incident /\ End(p, [kind |-> "killed"])
    /\ \/ UNCHANGED <<files, author>>
       \/ /\ at[p] \in {"write", "publish"} /\ files[Target(p)] = "absent"
          /\ Write(p, Target(p), "partial")
    /\ child' = [child EXCEPT ![p] = None]
    /\ orphans' = IF child[p] = None THEN orphans ELSE orphans \cup {<<p, step[p]>>}
    /\ UNCHANGED <<setup, database, ended>>

Commanded(p) ==
    \/ Begin(p) \/ StartCommand(p) \/ CommandReturns(p) \/ WriteLog(p)
    \/ Check(p) \/ ReadSarif(p) \/ ParseSarif(p) \/ Publish(p)

Next ==
    \/ \E p \in Procs :
         \/ Commanded(p)
         \/ CannotStart(p) \/ WriteFails(p) \/ Kill(p)
         \/ OrphanWorks(p) \/ ToolWorks(p) \/ ToolExits(p) \/ HeirLetsGo(p) \/ Timeout(p)
    \/ OrphanEnds

\* The scan goes on and its timeouts expire; of tools and of what they leave
\* behind nothing is assumed.
Fairness == \A p \in Procs : WF_vars(Commanded(p)) /\ WF_vars(Timeout(p))

Spec == Init /\ [][Next]_vars /\ Fairness

-----------------------------------------------------------------------------
(* Properties. *)

TypeOK ==
    /\ setup \in Setups /\ database \in BOOLEAN
    /\ files \in [Paths -> {"absent", "partial", "original", "altered"}]
    /\ \A f \in Paths : (author[f] = Nobody) = (files[f] = "absent")
    /\ orphans \subseteq Procs \X DOMAIN Commands /\ incidents <= MaxIncidents
    /\ \A p \in Procs :
         /\ at[p] \in {"call", "start", "wait", "write", "check", "read", "parse",
                       "publish", "ended"}
         /\ step[p] \in DOMAIN Commands /\ part[p] \in DOMAIN Parts
         /\ child[p] \in {None, "running", "heir"}
         /\ child[p] # None => at[p] = "wait"
         /\ ended[p] \in {None, "ok", "failed", "timeout", "not started"}
         /\ (outcome[p] = Pending) = (at[p] # "ended")
         /\ Len(exits[p]) \in {step[p] - 1, step[p]}

\* "A result is returned only after both CodeQL stages exit zero and the SARIF
\* file is a regular managed artifact.  Otherwise a typed error contains
\* structured command/audit details and no success surrogate" (scan): a result
\* has five successful commands, pinned versions, and the digest of a SARIF
\* file that parsed; an error is that of the command that failed, whose record
\* is on the disk; nothing is built with versions other than the pinned ones.
OutcomeTellsTheCommands ==
    /\ TypeOK
    /\ \A p \in Procs :
         /\ outcome[p].kind = "succeeded" =>
              /\ exits[p] = [i \in DOMAIN Commands |-> "ok"]
              /\ outcome[p].sarif # "partial" /\ files[Metadata] = "original"
         /\ outcome[p].kind \in {"timeout", "not started", "failed"} =>
              /\ Len(exits[p]) = outcome[p].step /\ Last(exits[p]) = outcome[p].kind
              /\ files[<<Commands[outcome[p].step], "command.json">>] = "original"
         /\ \A i \in DOMAIN exits[p] :
              exits[p][i] # "ok" =>
                /\ i = Len(exits[p])
                /\ at[p] # "check" => outcome[p].kind \in {exits[p][i], "killed"}
    /\ database => \A s \in 1 .. Create - 1 : Pinned(s)

\* "refusing to overwrite CodeQL artifact": when scans of one workspace meet,
\* or one follows one that died, the logs, the database and the SARIF file
\* there are those of one scan, and no other one gets to build.
AuditBelongsToOneScan ==
    /\ Cardinality({author[f] : f \in Paths} \ {Nobody}) <= 1
    /\ \A p, q \in Procs :
         Len(exits[p]) > 0 /\ Len(exits[q]) > 0 => p = q

\* What the scan step of Pipeline takes for granted of the files of a scan,
\* but for what a descendant changes later.
ScanKeepsTheContract ==
    LeftBehind([f \in Paths |-> IF files[f] = "altered" THEN "original" ELSE files[f]],
               Logs, (Analyze - 1) * Len(Parts), Sarif, Metadata)

\* Every scan ends, whatever its tools and their descendants do.
ScansReturn == \A p \in Procs : <>(at[p] = "ended")

=============================================================================
