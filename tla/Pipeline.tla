------------------------------ MODULE Pipeline ------------------------------
(***************************************************************************)
(* One `evitriage` command (ingest, scan, or either one with triage) from  *)
(* workspace allocation to the exit of the process: the journal calls of   *)
(* pipeline.py in their order, the stage handler that turns an             *)
(* EviTriageError into a recorded failure, and that handler's own errors.  *)
(* An OSError or a ValidationError passes every handler and main().        *)
(*                                                                         *)
(* A command is a sequence of steps.  A step is one journal call or one    *)
(* computation that may raise; `handler` is the set of failure states its  *)
(* except clauses may pass to _fail_run, empty outside every try block.    *)
(* The process may be killed between any two steps; a kill inside a call   *)
(* is that call failing on a system call and the process then being killed.*)
(***************************************************************************)
EXTENDS WorkflowStates, ScanFiles, SequencesExt

CONSTANTS
    Commands,       \* the commands considered, as [mode, goal, supplement]
    SlicePaths,     \* one slice artifact per alert occurrence
    ToolLogs,       \* logs of the CodeQL commands, the last of database-analyze
    MaxIncidents    \* bound on refused system calls plus outside file changes

Descriptor == ".evitriage-workspace.json"
ResolvedSpec == "project-spec.resolved.yaml"
SarifInput == "input/source.sarif"
SupplementInput == "input/evidence-supplement.json"
ScanSarif == "codeql/results.sarif"
RunMetadata == "codeql/run.json"
ErrorReport == "metadata/error.json"

\* The paths no step of a command writes: the allocation, the journal itself
\* and the failure handler do.
Reserved ==
    {Descriptor, ResolvedSpec, ErrorReport, "workflow-events.jsonl", "run-manifest.json"}

ASSUME PipelineAssumption ==
    /\ Commands \subseteq [mode : Modes, goal : GoalStates, supplement : BOOLEAN]
    /\ SlicePaths \in Seq(STRING) /\ ToolLogs \in Seq(STRING)
    /\ (ToSet(SlicePaths) \cup ToSet(ToolLogs)) \cap Reserved = {}
    /\ MaxIncidents \in Nat

VARIABLES
    mode, state, status, events, artifacts, log, torn, manifest, files, sealed,
    call, exc, late,    \* the journal: see RunJournal
    cmd,            \* the command line: input mode, goal state, supplement
    pc,             \* index of the next step
    phase,          \* "run", or what the failure handler is doing
    failTo,         \* the failure state the handler records
    pending,        \* CodeQL files the handler has listed and not yet recorded
    journalError,   \* details["journal_error"] is set on the reported error
    outcome,        \* how the process ended
    incidents       \* refused system calls and outside file changes so far

-----------------------------------------------------------------------------
(* The steps of a command. *)

Op(op, arg, handler) == [op |-> op, arg |-> arg, handler |-> handler]
Writes(paths, handler) ==
    [i \in DOMAIN paths |-> Op("write", paths[i], handler)]

PrepareSteps ==
    <<Op("work", "allocate workspace", {}), Op("open", "", {}),
      Op("register", "", {}), Op("register", "", {}),
      Op("transition", "PROJECT_VALIDATED", {}),
      Op("transition", "WORKSPACE_READY", {}),
      Op("transition", "SOURCE_READY", {})>>

ProfileSteps == <<Op("work", "match the LLM profile", {"POLICY_REJECTED"})>>

IngestSteps ==
    LET h == {"INVALID_SARIF"} IN
    <<Op("ingest", SarifInput, h), Op("transition", "SARIF_INGESTED", h)>>

ScanSteps ==
    LET h == {"CODEQL_FAILED"} IN
    <<Op("transition", "BUILD_READY", {}), Op("scan", "", h),
      Op("versions", "", h)>>
    \o [i \in DOMAIN ToolLogs |-> Op("record", ToolLogs[i], h)]
    \o <<Op("record", RunMetadata, h), Op("record", ScanSarif, h),
         Op("check", ScanSarif, h), Op("transition", "CODEQL_DB_READY", h),
         Op("transition", "SCANNED", h)>>

SupplementSteps ==
    LET h == {"POLICY_REJECTED"} IN
    <<Op("ingest", SupplementInput, h), Op("work", "validate supplement", h)>>

NormalizeSteps ==
    LET h == {"INVALID_SARIF"} IN
    <<Op("work", "parse and normalize", h),
      Op("write", "normalized/alerts.json", h), Op("versions", "", h),
      Op("transition", "NORMALIZED", h)>>

BuildRegistry == "build the evidence registry"

ContextSteps ==
    LET h == {"CONTEXT_INCOMPLETE"} IN
    <<Op("work", "build slices", h)>> \o Writes(SlicePaths, h)
    \o <<Op("write", "context/index.json", h),
         Op("work", BuildRegistry, h)>>
    \o Writes(<<"evidence/registry.json", "evidence/graph.dot",
                "context/source-map.html">>, h)
    \o <<Op("versions", "", h), Op("transition", "CONTEXT_READY", h)>>

ContextGoalSteps == <<Op("complete", "", {"CONTEXT_INCOMPLETE"})>>

TriageGoalSteps ==
    LET h == {"MODEL_FAILED"} IN
    <<Op("versions", "", h),
      Op("work", "triage every alert", {"MODEL_FAILED", "POLICY_REJECTED"}),
      Op("write", "triage/analyst.json", h), Op("transition", "ANALYZED", h),
      Op("write", "triage/rebuttal.json", h), Op("transition", "REBUTTED", h),
      Op("write", "triage/judged.json", h), Op("transition", "JUDGED", h),
      Op("versions", "", h), Op("write", "reports/decisions.jsonl", h),
      Op("write", "reports/index.html", h), Op("complete", "", h)>>

Program(c) ==
    LET triage == c.goal = "JUDGED" IN
    PrepareSteps
    \o (IF triage THEN ProfileSteps ELSE <<>>)
    \o (IF c.mode = "sarif" THEN IngestSteps ELSE ScanSteps)
    \o (IF triage /\ c.supplement THEN SupplementSteps ELSE <<>>)
    \o NormalizeSteps \o ContextSteps
    \o (IF triage THEN TriageGoalSteps ELSE ContextGoalSteps)

WrittenBy(c) ==
    {Program(c)[i].arg : i \in {j \in DOMAIN Program(c) :
        Program(c)[j].op \in {"write", "ingest", "record"}}}

AllPaths ==
    {Descriptor, ResolvedSpec, ErrorReport} \cup UNION {WrittenBy(c) : c \in Commands}

Journal == INSTANCE RunJournal
    WITH Paths <- AllPaths, InitialArtifacts <- <<Descriptor, ResolvedSpec>>

commandVars == <<cmd, pc, phase, failTo, pending, journalError, outcome>>
vars == <<mode, state, status, events, artifacts, log, torn, manifest, files,
          sealed, call, exc, late, cmd, pc, phase, failTo, pending,
          journalError, outcome, incidents>>

-----------------------------------------------------------------------------
(* Steps of the command. *)

Init ==
    /\ cmd \in Commands
    /\ mode = cmd.mode
    /\ state = "CREATED" /\ status = "running"
    /\ events = <<>> /\ artifacts = <<>> /\ log = <<>> /\ torn = FALSE
    /\ manifest = Journal!NoManifest
    /\ files = [p \in AllPaths |->
         IF p \in {Descriptor, ResolvedSpec} THEN "original" ELSE "absent"]
    /\ sealed = {} /\ call = "new" /\ exc = "none" /\ late = {}
    /\ pc = 1 /\ phase = "run" /\ failTo = "none" /\ pending = {}
    /\ journalError = FALSE /\ outcome = "pending" /\ incidents = 0

\* The bound of the model: each refused system call is one incident.
Budget(io) ==
    /\ incidents' = incidents + (IF io = "none" THEN 0 ELSE 1)
    /\ incidents' <= MaxIncidents

Here == Program(cmd)[pc]

\* main(): the exit status, or the traceback of an exception it does not catch.
Exit(how) == phase' = "done" /\ outcome' = how

\* Exceptions that no except clause of pipeline.py or cli.py names.
Unhandled == {"validation", "oserror"}

\* Control flow after a step: an exception that is not an EviTriageError is seen
\* by no handler; an error outside every try block ends the command.
Continue(handler) ==
    /\ pending' = pending
    /\ journalError' = journalError
    /\ \/ /\ exc' = "none"
          /\ pc' = pc + 1
          /\ failTo' = failTo
          /\ IF pc = Len(Program(cmd)) THEN Exit("success")
             ELSE phase' = "run" /\ outcome' = outcome
       \/ /\ exc' \in Unhandled /\ Exit("traceback")
          /\ UNCHANGED <<pc, failTo>>
       \/ /\ exc' = "evitriage" /\ handler = {} /\ Exit("error")
          /\ UNCHANGED <<pc, failTo>>
       \/ /\ exc' = "evitriage"
          /\ failTo' \in handler
          /\ phase' = IF failTo' = "CODEQL_FAILED" THEN "list" ELSE "write_error"
          /\ UNCHANGED <<pc, outcome>>

\* One step made of a single journal call.
JournalStep(io) ==
    /\ phase = "run" /\ Here.op # "complete"
    /\ \/ Here.op = "open" /\ Journal!Open(io)
       \/ Here.op = "register" /\ Journal!RegisterInitial(io)
       \/ Here.op = "transition" /\ Journal!Transition(Here.arg, io)
       \/ Here.op = "versions" /\ Journal!AddToolVersions(io)
       \/ Here.op = "ingest" /\ Journal!IngestFile(Here.arg, io)
       \/ Here.op = "write" /\ Journal!WriteArtifact(Here.arg, io)
       \/ Here.op = "record" /\ Journal!RecordExisting(Here.arg, io)
    /\ Budget(io)
    /\ Continue(Here.handler)
    /\ UNCHANGED cmd

JournalUnchanged ==
    UNCHANGED <<mode, state, status, events, artifacts, log, torn, manifest,
                sealed, call, late>>

\* The computations that look into files: copies of the source, source lines,
\* replayed answers.
LooksIntoFiles ==
    {"allocate workspace", "parse and normalize", "build slices", "triage every alert"}

\* A computation that may raise an EviTriageError: parsing, normalization,
\* slicing, the evidence registry, the agents.  The registry may also refuse to
\* be what was built (Evidence!OnlyTwinGapsCrash says when), and where files
\* are looked into a refused fstat, read or close may be nobody's to catch.
Work ==
    /\ phase = "run" /\ Here.op = "work"
    /\ \/ exc' \in {"none", "evitriage"} /\ Budget("none")
       \/ Here.arg = BuildRegistry /\ exc' = "validation" /\ Budget("none")
       \/ Here.arg \in LooksIntoFiles /\ exc' = "oserror" /\ Budget("uncaught")
    /\ JournalUnchanged /\ UNCHANGED <<files, cmd>>
    /\ Continue(Here.handler)

ToolOutput == ToSet(ToolLogs) \cup {ScanSarif, RunMetadata}

\* CodeQLRunner.scan: all files on success, and on failure those that module
\* CodeQLScan shows it to leave behind; what looks at its paths and reads its
\* logs and SARIF back may raise an OSError.
Scan ==
    /\ phase = "run" /\ Here.op = "scan"
    /\ \E left \in [ToolOutput -> {"original", "partial", "absent"}] :
         /\ LeftBehind(left, ToolLogs, Len(ToolLogs) - 1, ScanSarif, RunMetadata)
         /\ files' = [p \in AllPaths |->
              IF p \in ToolOutput THEN left[p] ELSE files[p]]
         /\ IF \A p \in ToolOutput : left[p] = "original"
            THEN exc' = "none" /\ Budget("none")
            ELSE \/ exc' = "evitriage" /\ Budget("none")
                 \/ exc' = "oserror" /\ Budget("uncaught")
    /\ JournalUnchanged /\ UNCHANGED cmd
    /\ Continue(Here.handler)

\* Mutant of CheckSarif: the SARIF must be registered, with any digest.
CheckSarifByName ==
    /\ phase = "run" /\ Here.op = "check"
    /\ exc' = IF ScanSarif \in Journal!Registered THEN "none" ELSE "evitriage"
    /\ JournalUnchanged /\ UNCHANGED <<files, cmd, incidents>>
    /\ Continue(Here.handler)

\* The registered SARIF must be the one the runner parsed.
CheckSarif ==
    /\ phase = "run" /\ Here.op = "check"
    /\ exc' = IF \E i \in DOMAIN artifacts :
                   artifacts[i] = [path |-> ScanSarif, digest |-> "original"]
              THEN "none" ELSE "evitriage"
    /\ JournalUnchanged /\ UNCHANGED <<files, cmd, incidents>>
    /\ Continue(Here.handler)

CompleteCheck(io) ==
    /\ phase = "run" /\ Here.op = "complete"
    /\ Journal!CompleteVerify(io)
    /\ Budget(io)
    /\ \/ exc' = "none" /\ phase' = "completing"
          /\ UNCHANGED <<pc, failTo, pending, journalError, outcome>>
       \/ exc' # "none" /\ Continue(Here.handler)
    /\ UNCHANGED cmd

CompleteFinish(io) ==
    /\ phase = "completing"
    /\ \/ Journal!CompleteCommit(io)
       \/ \E n \in 0 .. Len(artifacts) : Journal!SealRefused(n, io)
    /\ Budget(io)
    /\ Continue(Here.handler)
    /\ UNCHANGED cmd

-----------------------------------------------------------------------------
(* The failure handler. *)

\* _record_partial_codeql_artifacts: list what CodeQL left and is not recorded
\* (run.json is not in allowed_names).  The order of the names is left open.
\* The look at the directory is not caught, a refused listing is only noted.
ListPartial(io) ==
    /\ phase = "list" /\ io \in {"none", "list_refused", "uncaught"}
    /\ Budget(io)
    /\ LET found == {p \in ToSet(ToolLogs) \cup {ScanSarif} :
                        files[p] # "absent" /\ p \notin Journal!Registered}
       IN IF io = "uncaught"
          THEN Exit("traceback") /\ exc' = "oserror" /\ UNCHANGED pending
          ELSE IF ~Journal!ValidManifest(Journal!Projection)
          THEN Exit("traceback") /\ exc' = "validation" /\ UNCHANGED pending
          ELSE IF io = "list_refused" \/ found = {}
          THEN phase' = "write_error" /\ UNCHANGED <<pending, outcome, exc>>
          ELSE phase' = "record" /\ pending' = found /\ UNCHANGED <<outcome, exc>>
    /\ JournalUnchanged
    /\ UNCHANGED <<files, cmd, pc, failTo, journalError>>

\* Each listed file is recorded; an EviTriageError about one is only noted.
RecordPartial(io) ==
    /\ phase = "record"
    /\ \E p \in pending : Journal!RecordExisting(p, io) /\ pending' = pending \ {p}
    /\ Budget(io)
    /\ IF exc' \in Unhandled THEN Exit("traceback")
       ELSE /\ phase' = IF pending' = {} THEN "write_error" ELSE "record"
            /\ outcome' = outcome
    /\ UNCHANGED <<cmd, pc, failTo, journalError>>

\* Mutant of WriteError: the error is not added to the reported details.
WriteErrorSilently(io) ==
    /\ phase = "write_error"
    /\ Journal!WriteArtifact(ErrorReport, io)
    /\ Budget(io)
    /\ IF exc' \in Unhandled THEN Exit("traceback")
       ELSE phase' = "fail" /\ outcome' = outcome
    /\ UNCHANGED <<journalError, cmd, pc, failTo, pending>>

\* _fail_run, first try block: metadata/error.json.
WriteError(io) ==
    /\ phase = "write_error"
    /\ Journal!WriteArtifact(ErrorReport, io)
    /\ Budget(io)
    /\ IF exc' \in Unhandled THEN Exit("traceback")
       ELSE phase' = "fail" /\ outcome' = outcome
    /\ journalError' = (journalError \/ exc' = "evitriage")
    /\ UNCHANGED <<cmd, pc, failTo, pending>>

\* _fail_run, second try block: journal.fail().
FailCheck(io) ==
    /\ phase = "fail"
    /\ Journal!FailVerify(failTo, io)
    /\ Budget(io)
    /\ IF exc' = "none" THEN phase' = "failing" /\ outcome' = outcome
       ELSE Exit(IF exc' \in Unhandled THEN "traceback" ELSE "error")
    /\ journalError' = (journalError \/ exc' = "evitriage")
    /\ UNCHANGED <<cmd, pc, failTo, pending>>

FailFinish(io) ==
    /\ phase = "failing"
    /\ \/ Journal!FailCommit(io)
       \/ \E n \in 0 .. Len(artifacts) : Journal!SealRefused(n, io)
    /\ Budget(io)
    /\ Exit(IF exc' \in Unhandled THEN "traceback" ELSE "error")
    /\ journalError' = (journalError \/ exc' = "evitriage")
    /\ UNCHANGED <<cmd, pc, failTo, pending>>

-----------------------------------------------------------------------------
(* The environment. *)

Kill ==
    /\ outcome = "pending"
    /\ Exit("killed")
    /\ JournalUnchanged
    /\ UNCHANGED <<files, exc, cmd, pc, failTo, pending, journalError, incidents>>

Disturb ==
    /\ outcome = "pending"
    /\ incidents < MaxIncidents
    /\ incidents' = incidents + 1
    /\ \E p \in AllPaths : Journal!Alter(p)
    /\ UNCHANGED commandVars

Command(io) ==
    \/ JournalStep(io) \/ CompleteCheck(io) \/ CompleteFinish(io)
    \/ ListPartial(io) \/ RecordPartial(io)
    \/ WriteError(io) \/ FailCheck(io) \/ FailFinish(io)

Proceed == Work \/ Scan \/ CheckSarif \/ \E io \in Journal!IO \cup {"list_refused"} : Command(io)

Next == Proceed \/ Kill \/ Disturb

Spec == Init /\ [][Next]_vars

-----------------------------------------------------------------------------
(* Properties. *)

Ended == outcome \in {"success", "error", "traceback", "killed"}

\* Every variable holds a value of its type.
TypeOK ==
    /\ Journal!TypeOK
    /\ cmd \in Commands /\ mode = cmd.mode
    /\ pc \in 1 .. Len(Program(cmd)) + 1
    /\ phase \in {"run", "completing", "list", "record", "write_error", "fail",
                  "failing", "done"}
    /\ failTo \in FailureStates \cup {"none"}
    /\ pending \subseteq AllPaths
    /\ journalError \in BOOLEAN
    /\ outcome \in {"pending", "success", "error", "traceback", "killed"}
    /\ (phase = "done") = Ended
    /\ incidents \in 0 .. MaxIncidents

\* A command that reports success has left a completed manifest at the state it
\* was asked for, an intact log of the same history, every artifact its steps
\* produce registered, and all of it read-only (run_artifacts.py:241-255).
SuccessIsAudited ==
    outcome = "success" =>
        /\ manifest.status = "completed" /\ manifest.state = cmd.goal
        /\ manifest.events = log /\ ~torn
        /\ Journal!PathsIn(manifest.artifacts)
             = WrittenBy(cmd) \cup {Descriptor, ResolvedSpec}
        /\ WrittenBy(cmd) \cup {Descriptor, ResolvedSpec} \cup Journal!AuditFiles
             \subseteq sealed

\* A run whose manifest has passed SCANNED registered the SARIF bytes that the
\* CodeQL runner parsed, even if the file was changed between the runner's
\* check and the journal's read.
ScannedSarifIsTheParsedOne ==
    (\E i \in DOMAIN manifest.events : manifest.events[i].to = "SCANNED") =>
        \E i \in DOMAIN manifest.artifacts :
            manifest.artifacts[i] = [path |-> ScanSarif, digest |-> "original"]

\* What a success is worth (pipeline.py:95-165, 366-372), in states of the
\* right types.
SuccessIsEarned == TypeOK /\ SuccessIsAudited /\ ScannedSarifIsTheParsedOne

\* The failure state on disk belongs to the stage that the history had reached,
\* also when the failing call was the one that advances the history.
StagesOf(failure) ==
    CASE failure = "INVALID_SARIF" ->
           {"SOURCE_READY", "SARIF_INGESTED", "SCANNED", "NORMALIZED"}
      [] failure = "CODEQL_FAILED" -> ScanBranch
      [] failure = "CONTEXT_INCOMPLETE" -> {"NORMALIZED", "CONTEXT_READY"}
      [] failure = "MODEL_FAILED" ->
           {"CONTEXT_READY", "ANALYZED", "REBUTTED", "JUDGED"}
      [] failure = "POLICY_REJECTED" ->
           {"SOURCE_READY", "SARIF_INGESTED", "SCANNED", "CONTEXT_READY"}

FailureNamesItsStage ==
    manifest.status = "failed" =>
        Last(manifest.events).from \in StagesOf(manifest.state)

\* When a stage handler has run and the command reports the error, the disk
\* says failed, with the handler's state and the error report, or the reported
\* error admits that the journal could not be brought to that state.
FailureIsRecordedOrAdmitted ==
    outcome = "error" /\ failTo # "none" /\ ~journalError =>
        /\ manifest.status = "failed" /\ manifest.state = failTo
        /\ ErrorReport \in Journal!PathsIn(manifest.artifacts)
        /\ Journal!PathsIn(manifest.artifacts) \subseteq sealed

\* Without a refused system call or an outside change every error of a handled
\* stage ends in a failed, sealed run whose log ends in that failure: what the
\* tools left behind, complete or not, never prevents it.
UndisturbedFailureIsFinal ==
    incidents = 0 /\ outcome = "error" /\ failTo # "none" =>
        /\ manifest.status = "failed" /\ manifest.state = failTo
        /\ Last(log).to = failTo /\ ~journalError
        /\ {p \in AllPaths : files[p] # "absent"} \ {RunMetadata}
             \subseteq Journal!PathsIn(manifest.artifacts)

\* What a reported failure leaves on disk (pipeline.py:886-971).
FailureIsTold ==
    FailureNamesItsStage /\ FailureIsRecordedOrAdmitted /\ UndisturbedFailureIsFinal

\* A ValidationError only escapes when the command builds the registry, or is
\* at a transition whose event is missing from the history, and the run is left
\* running.
ValidationErrorsAreKnown ==
    outcome = "traceback" /\ exc = "validation" =>
        /\ manifest.status = "running"
        /\ \/ Here.arg = BuildRegistry
           \/ Here.op = "transition" /\ \A i \in DOMAIN events : events[i].to # Here.arg

\* An OSError that escapes, from a step or from the handler of its failure,
\* leaves a run that a reader takes for running, or the final manifest the
\* command was about to be told of: at the goal or at the handler's failure,
\* with the history of an intact log, what it registered read-only.
EscapesEndNothingElse ==
    outcome = "traceback" /\ manifest.status \in {"completed", "failed"} =>
        /\ IF manifest.status = "completed"
           THEN Here.op = "complete" /\ failTo = "none" /\ manifest.state = cmd.goal
           ELSE manifest.state = failTo
        /\ manifest.events = log /\ ~torn
        /\ Journal!PathsIn(manifest.artifacts) \subseteq sealed

\* A command that ends in a traceback raised a known ValidationError or, after
\* a refused system call, an OSError, and no run ends by it otherwise than it
\* would have (run_artifacts.py:361-522, cli.py:569).
OnlyKnownErrorsEscape ==
    /\ outcome = "traceback" =>
         exc = "validation" \/ (exc = "oserror" /\ incidents > 0)
    /\ ValidationErrorsAreKnown /\ EscapesEndNothingElse

\* The manifest on disk, whatever fails and wherever the process is killed,
\* moves as RunLifecycle allows: the run never skips a stage in the eyes of a
\* reader, never leaves its branch, and ends at most once and at its goal.
Lifecycle == INSTANCE RunLifecycle
    WITH goal <- cmd.goal, state <- manifest.state, status <- manifest.status

ImplementsRunLifecycle == Lifecycle!Spec

\* docs/architecture.md:104: the RunJournal must not "leave a failed run marked
\* successful".  Checked as a claim the code refutes.
FailedCommandIsNotCompleted ==
    outcome = "error" => manifest.status # "completed"

\* README.md:359: "Failures after allocation retain structured, redacted error
\* metadata".  Claimed here only for steps inside a try block and for handlers
\* that do not report an error of their own; checked as a claim the code refutes.
HandledFailureKeepsMetadata ==
    outcome \in {"error", "traceback"} /\ Here.handler # {} /\ ~journalError =>
        ErrorReport \in Journal!PathsIn(manifest.artifacts)

=============================================================================
