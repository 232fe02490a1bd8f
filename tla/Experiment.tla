----------------------------- MODULE Experiment -----------------------------
(***************************************************************************)
(* experiment preflight, run and evaluate: processes work on one manifest  *)
(* and one artifact root.  A run checks every case, triages the cases one  *)
(* after the other, writes the aggregate file by file, indexes it and      *)
(* makes it read-only; an evaluation reads the baseline afterwards.        *)
(*                                                                         *)
(* A SARIF file is what its digest tells; the source tree and the          *)
(* ProjectSpec of a case are checked and go stale in the same way.  The    *)
(* triage of a case is one step (Pipeline and Triage have its details).    *)
(***************************************************************************)
EXTENDS Evaluation

CONSTANTS
    Procs,          \* the processes that run a command
    Manifest,       \* the cases: [mode, sarif, prefix], in their order
    Results,        \* how many results each SARIF content has
    RunLabels,      \* bound: the labels a triage may give
    Before, After,  \* the two cases of the historical comparison, 0 without one
    Target,         \* the identities of the historical target
    Rendered,       \* the names of the rendered reports
    Baselines,      \* what the baseline file may hold
    Incidents,      \* the kinds of incidents that may happen
    MaxIncidents,   \* bound: how many of them
    NoEvaluation, NoSummary

Contents == DOMAIN Results
Cases == DOMAIN Manifest
NoPrefix == "no prefix"
Evaluated == "evaluation-v1-baseline.json"
Index == "SHA256SUMS"
Decided == "automatic-decisions.jsonl"
Summary == "summary.json"
Historical == "historical-comparison.json"

\* Mutant of Files: the index is written before the reports.
FilesIndexedEarly ==
    <<"preflight.json", Summary, Decided, Index, Historical>> \o Rendered

\* What a run writes, in this order; preflight.json stands for the resolved
\* manifest as well.
Files == <<"preflight.json", Summary, Decided, Historical>> \o Rendered \o <<Index>>
Names == {Files[i] : i \in DOMAIN Files} \cup {Evaluated}

\* What the manifest's validators admit.
ValidManifest ==
    /\ Manifest \in Seq([mode : {"triage", "audit_only"}, sarif : Contents,
                         prefix : STRING])
    /\ \E c \in Cases : Manifest[c].mode = "triage"
    /\ \A c \in Cases : Manifest[c].prefix # NoPrefix =>
          /\ Manifest[c].mode = "triage" /\ Results[Manifest[c].sarif] > 0
          /\ \A d \in Cases : Manifest[d].prefix = Manifest[c].prefix => d = c
    /\ \/ Before = 0 /\ After = 0
       \/ {Before, After} \subseteq {c \in Cases : Manifest[c].mode = "triage"}

ASSUME ExperimentAssumption ==
    /\ \A s \in Contents : Results[s] \in Nat
    /\ ValidManifest
    /\ Baselines \subseteq
          Seq([prefix : STRING, index : Nat, label : Labels, agrees : BOOLEAN])
    /\ RunLabels \subseteq Labels
    /\ Rendered \in Seq(STRING)
    /\ \A i, j \in DOMAIN Files : Files[i] = Files[j] => i = j
    /\ Evaluated \notin {Files[i] : i \in DOMAIN Files}
    /\ Incidents \subseteq {"stop", "exchange", "review"} /\ MaxIncidents \in Nat
    /\ NoEvaluation \notin Evaluations

\* The SARIF each baseline prefix is bound to.
Bindings ==
    [x \in {Manifest[c].prefix : c \in Cases} \ {NoPrefix} |->
        (CHOOSE case \in {Manifest[c] : c \in Cases} : case.prefix = x).sarif]

VARIABLES
    inputs,         \* the SARIF file of each case
    baseline,       \* the rows of the human baseline
    files,          \* the artifact root: each file is missing, torn or whole
    readOnly,       \* the files nobody may write
    summary, decisions, index, evaluation,  \* what the whole files say
    touched,        \* an LLM profile, a credential or a model was used
    at, command,    \* where each process is, and in which command
    next,           \* its next case or file
    outcomes,       \* the case results it collected
    todo,           \* the files it still has to make read-only
    result,         \* the evaluation it computed
    reply,          \* how its last command ended
    incidents, exchanged    \* how many incidents, and which cases they changed

root == <<files, readOnly, summary, decisions, index, evaluation>>
outside == <<inputs, baseline, incidents, exchanged>>
locals == <<at, command, next, outcomes, todo, result, reply>>
vars == <<outside, root, touched, locals>>

Init ==
    /\ inputs \in [Cases -> Contents] /\ baseline \in Baselines
    /\ files = [f \in Names |-> "missing"] /\ readOnly = {}
    /\ summary = NoSummary /\ decisions = {} /\ index = {}
    /\ evaluation = NoEvaluation /\ touched = FALSE
    /\ at = [p \in Procs |-> "idle"] /\ command = [p \in Procs |-> "none"]
    /\ next = [p \in Procs |-> 1] /\ outcomes = [p \in Procs |-> <<>>]
    /\ todo = [p \in Procs |-> {}] /\ result = [p \in Procs |-> NoEvaluation]
    /\ reply = [p \in Procs |-> "none"]
    /\ incidents = 0 /\ exchanged = {}

\* The process goes on elsewhere, with the first case or file.
Goto(p, where) ==
    /\ at' = [at EXCEPT ![p] = where] /\ next' = [next EXCEPT ![p] = 1]
    /\ UNCHANGED <<command, outcomes, todo, result, reply>>

Repeat(p) ==
    /\ next' = [next EXCEPT ![p] = @ + 1]
    /\ UNCHANGED <<at, command, outcomes, todo, result, reply>>

\* The command ends: by its result, or by an exception.
End(p, how) ==
    /\ at' = [at EXCEPT ![p] = "idle"] /\ reply' = [reply EXCEPT ![p] = how]
    /\ command' = [command EXCEPT ![p] = "none"] /\ next' = [next EXCEPT ![p] = 1]
    /\ outcomes' = [outcomes EXCEPT ![p] = <<>>]
    /\ todo' = [todo EXCEPT ![p] = {}]
    /\ result' = [result EXCEPT ![p] = NoEvaluation]

Call(p) ==
    /\ at[p] = "idle" /\ reply' = [reply EXCEPT ![p] = "none"]
    /\ \E c \in {"preflight", "dry run", "run", "evaluate"} :
          /\ command' = [command EXCEPT ![p] = c]
          /\ at' = [at EXCEPT ![p] = IF c = "evaluate" THEN "require" ELSE "preflight"]
    /\ UNCHANGED <<outside, root, touched, next, outcomes, todo, result>>

-----------------------------------------------------------------------------
(* preflight_existing_sarif_experiment, called by the command and once     *)
(* more by the run itself                                                  *)

AfterPreflight(p) ==
    \/ command[p] = "preflight" /\ End(p, "ok")
    \/ command[p] = "dry run" /\ at[p] = "preflight" /\ Goto(p, "recheck")
    \/ command[p] = "dry run" /\ at[p] = "recheck" /\ End(p, "ok")
    \/ command[p] = "run" /\ at[p] = "preflight" /\ Goto(p, "adapter")
    \/ command[p] = "run" /\ at[p] = "recheck" /\ Goto(p, "cases")

Preflight(p) ==
    /\ at[p] \in {"preflight", "recheck"}
    /\ IF next[p] > Len(Manifest) THEN AfterPreflight(p)
       ELSE IF inputs[next[p]] # Manifest[next[p]].sarif THEN End(p, "failed")
       ELSE Repeat(p)
    /\ UNCHANGED <<outside, root, touched>>

\* The profile and the credential are read and the adapter is made.
MakeAdapter(p) ==
    /\ at[p] = "adapter" /\ Goto(p, "recheck") /\ touched' = TRUE
    /\ UNCHANGED <<outside, root>>

-----------------------------------------------------------------------------
(* run_existing_sarif_experiment *)

\* The decisions of one triage: a label for every result it read.
Triages(sarif) ==
    {{[sarif |-> sarif, index |-> i, label |-> label[i]] : i \in DOMAIN label} :
        label \in [0 .. Results[sarif] - 1 -> RunLabels]}

Outcome(status, reports, alerts) ==
    [status |-> status, reports |-> reports, alerts |-> alerts]

\* A completed case counts the alerts it read, every other case those of the
\* preflight.
CaseOutcomes(c) ==
    LET expected == Results[Manifest[c].sarif]
    IN  IF Manifest[c].mode = "audit_only"
        THEN {Outcome("audit_only", {}, expected)}
        ELSE {Outcome("failed", {}, expected)} \cup
             {Outcome("completed", r, Cardinality(r)) : r \in Triages(inputs[c])}

\* A failed case does not keep the others from running.
RunCase(p) ==
    /\ at[p] = "cases"
    /\ IF next[p] > Len(Manifest) THEN Goto(p, "root")
       ELSE /\ \E o \in CaseOutcomes(next[p]) :
                 outcomes' = [outcomes EXCEPT ![p] = Append(@, o)]
            /\ next' = [next EXCEPT ![p] = @ + 1]
            /\ UNCHANGED <<at, command, todo, result, reply>>
    /\ UNCHANGED <<outside, root, touched>>

Completed(p) == {i \in DOMAIN outcomes[p] : outcomes[p][i].status = "completed"}

\* Mutant of Status: the last case decides.
StatusOfLast(p) ==
    IF outcomes[p][Len(outcomes[p])].status = "failed" THEN "incomplete" ELSE "completed"

Status(p) ==
    IF \E i \in DOMAIN outcomes[p] : outcomes[p][i].status = "failed"
    THEN "incomplete" ELSE "completed"


\* Reports of all completed cases, with the case they come from.
Reports(p) ==
    UNION {{<<i, r>> : r \in outcomes[p][i].reports} : i \in Completed(p)}

SummaryOf(p) ==
    [status |-> Status(p),
     cases |-> [i \in DOMAIN outcomes[p] |-> outcomes[p][i].status],
     decided |-> Cardinality(Reports(p))]

-----------------------------------------------------------------------------
(* finalize_experiment_artifacts *)

\* Anything but the directory of the runs makes the root unusable.
CheckRoot(p) ==
    /\ at[p] = "root"
    /\ IF \E f \in Names : files[f] # "missing" THEN End(p, "failed")
       ELSE Goto(p, "finalize")
    /\ UNCHANGED <<outside, root, touched>>

\* The next file of the run is f.
Writes(p, f) ==
    at[p] = "finalize" /\ next[p] \in DOMAIN Files /\ f = Files[next[p]]

\* Mutant of Create: the file is created with its final mode.
CreateReadOnly(p, f) ==
    /\ IF files[f] # "missing" THEN End(p, "failed") /\ UNCHANGED <<files, readOnly>>
       ELSE /\ files' = [files EXCEPT ![f] = "whole"] /\ Repeat(p)
            /\ readOnly' = readOnly \cup {f}

\* The next file is created, which fails if it exists, and written.
Create(p, f) ==
    /\ IF files[f] # "missing" THEN End(p, "failed") /\ UNCHANGED files
       ELSE files' = [files EXCEPT ![f] = "whole"] /\ Repeat(p)
    /\ UNCHANGED readOnly

Keep(f, old, new) == IF files[f] = "missing" THEN new ELSE old

WriteSummary(p) ==
    /\ Writes(p, Summary) /\ Create(p, Summary)
    /\ summary' = Keep(Summary, summary, SummaryOf(p))
    /\ UNCHANGED <<outside, decisions, index, evaluation, touched>>

Occurrences(p) == {x[2] : x \in Reports(p)}

\* The same occurrence in two cases is refused before the file is created.
Duplicated(p) ==
    \E x, y \in Reports(p) : x # y /\ Identity(x[2]) = Identity(y[2])

WriteDecisions(p) ==
    /\ Writes(p, Decided)
    /\ IF Duplicated(p)
       THEN End(p, "failed") /\ UNCHANGED <<files, readOnly, decisions>>
       ELSE /\ Create(p, Decided)
            /\ decisions' = Keep(Decided, decisions, Occurrences(p))
    /\ UNCHANGED <<outside, summary, index, evaluation, touched>>

TargetReports(p, case) ==
    {r \in Occurrences(p) : r.sarif = Manifest[case].sarif /\ Identity(r) \in Target}

\* A complete experiment must find its target once before and never after, if
\* the manifest has a comparison at all.
WriteHistorical(p) ==
    /\ Writes(p, Historical)
    /\ IF /\ Before # 0 /\ Status(p) = "completed"
          /\ \/ Cardinality(TargetReports(p, Before)) # 1
             \/ TargetReports(p, After) # {}
       THEN End(p, "failed") /\ UNCHANGED <<files, readOnly>>
       ELSE Create(p, Historical)
    /\ UNCHANGED <<outside, summary, decisions, index, evaluation, touched>>

WriteOther(p) ==
    /\ \E f \in Names \ {Summary, Decided, Historical, Index} :
          Writes(p, f) /\ Create(p, f)
    /\ UNCHANGED <<outside, summary, decisions, index, evaluation, touched>>

\* What the index lists: every file there is, but not itself.
Present == {f \in Names \ {Index} : files[f] # "missing"}

WriteIndex(p) ==
    /\ Writes(p, Index) /\ Create(p, Index)
    /\ index' = Keep(Index, index, Present)
    /\ UNCHANGED <<outside, summary, decisions, evaluation, touched>>

\* The directory is listed once; the files are then made read-only.
ListFiles(p) ==
    /\ at[p] = "finalize" /\ next[p] > Len(Files)
    /\ at' = [at EXCEPT ![p] = "freeze"] /\ next' = [next EXCEPT ![p] = 1]
    /\ todo' = [todo EXCEPT ![p] = {f \in Names : files[f] # "missing"}]
    /\ UNCHANGED <<outside, root, touched, command, outcomes, result, reply>>

\* A file that is gone is passed over.
Freeze(p) ==
    /\ at[p] = "freeze"
    /\ \E f \in todo[p] :
          /\ readOnly' = IF files[f] = "missing" THEN readOnly ELSE readOnly \cup {f}
          /\ todo' = [todo EXCEPT ![p] = @ \ {f}]
    /\ UNCHANGED <<outside, files, summary, decisions, index, evaluation, touched,
                   at, command, next, outcomes, result, reply>>

\* A file that was there when it was looked at is gone when its mode is set: no
\* handler knows that exception.
FreezeMisses(p) ==
    /\ at[p] = "freeze" /\ End(p, "failed")
    /\ \E f \in todo[p] : files[f] = "missing"
    /\ UNCHANGED <<outside, root, touched>>

\* Mutant of Finish: the command does not wait for the last files.
FinishEarly(p) ==
    /\ at[p] = "freeze" /\ End(p, Status(p))
    /\ UNCHANGED <<outside, root, touched>>

\* The command reports the status of the summary; incomplete exits with 1.
Finish(p) ==
    /\ at[p] = "freeze" /\ todo[p] = {} /\ End(p, Status(p))
    /\ UNCHANGED <<outside, root, touched>>

-----------------------------------------------------------------------------
(* evaluate_frozen_experiment *)

\* Mutant of Require: the file must be there, in whatever mode.
RequireExists(p) ==
    /\ at[p] = "require"
    /\ IF files[Decided] = "missing" THEN End(p, "failed") ELSE Goto(p, "compare")
    /\ UNCHANGED <<outside, root, touched>>

Require(p) ==
    /\ at[p] = "require"
    /\ IF files[Decided] = "missing" \/ Decided \notin readOnly
       THEN End(p, "failed") ELSE Goto(p, "compare")
    /\ UNCHANGED <<outside, root, touched>>

\* Both readings of the decisions see one file: it is read-only by now.
CompareLabels(p) ==
    /\ at[p] = "compare"
    /\ LET bound == Bind(baseline, decisions, Bindings)
       IN  IF ~ bound.accepted \/ ~ NoDuplicates(bound.records, Bindings)
           THEN End(p, "failed")
           ELSE /\ result' = [result EXCEPT ![p] =
                                Evaluate(decisions, bound.records, Bindings)]
                /\ at' = [at EXCEPT ![p] = "write evaluation"]
                /\ UNCHANGED <<command, next, outcomes, todo, reply>>
    /\ UNCHANGED <<outside, root, touched>>

\* Mutant of WriteEvaluation: an earlier evaluation is replaced.
WriteEvaluationAgain(p) ==
    /\ at[p] = "write evaluation" /\ Goto(p, "seal evaluation")
    /\ files' = [files EXCEPT ![Evaluated] = "whole"] /\ evaluation' = result[p]
    /\ UNCHANGED <<outside, readOnly, summary, decisions, index, touched>>

WriteEvaluation(p) ==
    /\ at[p] = "write evaluation"
    /\ IF files[Evaluated] # "missing"
       THEN End(p, "failed") /\ UNCHANGED <<files, evaluation>>
       ELSE /\ Goto(p, "seal evaluation")
            /\ files' = [files EXCEPT ![Evaluated] = "whole"]
            /\ evaluation' = result[p]
    /\ UNCHANGED <<outside, readOnly, summary, decisions, index, touched>>

SealEvaluation(p) ==
    /\ at[p] = "seal evaluation" /\ Goto(p, "open index")
    /\ readOnly' = readOnly \cup {Evaluated}
    /\ UNCHANGED <<outside, files, summary, decisions, index, evaluation, touched>>

OpenIndex(p) ==
    /\ at[p] = "open index"
    /\ IF files[Index] = "missing" THEN End(p, "failed") /\ UNCHANGED readOnly
       ELSE Goto(p, "remove index") /\ readOnly' = readOnly \ {Index}
    /\ UNCHANGED <<outside, files, summary, decisions, index, evaluation, touched>>

\* The mode of a file goes with the file.
RemoveIndex(p) ==
    /\ at[p] = "remove index" /\ Goto(p, "rewrite index")
    /\ files' = [files EXCEPT ![Index] = "missing"] /\ readOnly' = readOnly \ {Index}
    /\ index' = {}
    /\ UNCHANGED <<outside, summary, decisions, evaluation, touched>>

RewriteIndex(p) ==
    /\ at[p] = "rewrite index"
    /\ IF files[Index] # "missing" THEN End(p, "failed") /\ UNCHANGED <<files, index>>
       ELSE /\ Goto(p, "seal index")
            /\ files' = [files EXCEPT ![Index] = "whole"] /\ index' = Present
    /\ UNCHANGED <<outside, readOnly, summary, decisions, evaluation, touched>>

SealIndex(p) ==
    /\ at[p] = "seal index" /\ End(p, "evaluated")
    /\ readOnly' = readOnly \cup {Index}
    /\ UNCHANGED <<outside, files, summary, decisions, index, evaluation, touched>>

-----------------------------------------------------------------------------
(* What the program does not control *)

Incident(kind) ==
    /\ kind \in Incidents /\ incidents < MaxIncidents /\ incidents' = incidents + 1

\* The file a process is about to write.
Writing(p) ==
    IF at[p] = "finalize" THEN {f \in Names : Writes(p, f)}
    ELSE IF at[p] = "write evaluation" THEN {Evaluated}
    ELSE IF at[p] = "rewrite index" THEN {Index} ELSE {}

\* A system call fails, an exception nobody catches ends the command, or the
\* process is killed; a file that is being written may be left torn.
Stop(p) ==
    /\ Incident("stop") /\ at[p] # "idle" /\ End(p, "failed")
    /\ \E torn \in SUBSET {f \in Writing(p) : files[f] = "missing"} :
          files' = [f \in Names |-> IF f \in torn THEN "torn" ELSE files[f]]
    /\ UNCHANGED <<inputs, baseline, exchanged, readOnly, summary, decisions, index,
                   evaluation, touched>>

\* Another program replaces the input of a case.
Exchange ==
    /\ Incident("exchange")
    /\ \E c \in Cases : \E s \in Contents \ {inputs[c]} :
          /\ inputs' = [inputs EXCEPT ![c] = s] /\ exchanged' = exchanged \cup {c}
    /\ UNCHANGED <<baseline, root, touched, locals>>

\* The reviewers change their baseline.
Review ==
    /\ Incident("review") /\ baseline' \in Baselines \ {baseline}
    /\ UNCHANGED <<inputs, exchanged, root, touched, locals>>

-----------------------------------------------------------------------------
Run(p) == Preflight(p) \/ MakeAdapter(p) \/ RunCase(p)

Finalize(p) ==
    \/ CheckRoot(p) \/ WriteSummary(p) \/ WriteDecisions(p) \/ WriteHistorical(p)
    \/ WriteOther(p) \/ WriteIndex(p) \/ ListFiles(p) \/ Freeze(p)
    \/ FreezeMisses(p) \/ Finish(p)

EvaluateStep(p) ==
    \/ Require(p) \/ CompareLabels(p) \/ WriteEvaluation(p) \/ SealEvaluation(p)
    \/ OpenIndex(p) \/ RemoveIndex(p) \/ RewriteIndex(p) \/ SealIndex(p)

Next ==
    \/ \E p \in Procs : Call(p) \/ Run(p) \/ Finalize(p) \/ EvaluateStep(p) \/ Stop(p)
    \/ Exchange \/ Review

Spec == Init /\ [][Next]_vars

-----------------------------------------------------------------------------
(* Properties *)

Stations ==
    {"idle", "preflight", "adapter", "recheck", "cases", "root", "finalize", "freeze",
     "require", "compare", "write evaluation", "seal evaluation", "open index",
     "remove index", "rewrite index", "seal index"}

\* Types; a process that is idle holds nothing.
TypeOK ==
    /\ inputs \in [Cases -> Contents] /\ baseline \in Baselines
    /\ files \in [Names -> {"missing", "torn", "whole"}]
    /\ readOnly \subseteq {f \in Names : files[f] # "missing"}
    /\ index \subseteq Names
    /\ touched \in BOOLEAN
    /\ at \in [Procs -> Stations]
    /\ next \in [Procs -> Nat \ {0}]
    /\ todo \in [Procs -> SUBSET Names]
    /\ \A p \in Procs :
          /\ at[p] = "idle" => outcomes[p] = <<>> /\ todo[p] = {}
          /\ Len(outcomes[p]) <= Len(Manifest)
    /\ incidents \in 0 .. MaxIncidents /\ exchanged \subseteq Cases

Aggregate == {Files[i] : i \in DOMAIN Files}

\* Nothing that costs anything is touched for a manifest whose inputs are
\* wrong, however late the wrong one comes: preflight is global.
WrongInputsCostNothing ==
    exchanged = {} /\ (\E c \in Cases : inputs[c] # Manifest[c].sarif) => ~ touched

\* The aggregate tells what the runs did: the summary counts the decisions
\* beside it, and it calls the experiment completed only if every alert of
\* every triage case has its decision (unless an input was exchanged after
\* it was checked).  A failed case is never a decision (experiments.py:196-268).
SummaryCountsTheDecisions ==
    files[Decided] = "whole" =>
        /\ summary.decided = Cardinality(decisions)
        /\ summary.status = "completed" /\ exchanged = {} =>
              {Identity(r) : r \in decisions} =
                 UNION {{<<Manifest[c].sarif, i>> : i \in 0 .. Results[Manifest[c].sarif] - 1} :
                            c \in {d \in Cases : Manifest[d].mode = "triage"}}

\* The aggregate is about the manifest that was asked for, or there is none.
SummaryTellsTheTruth == WrongInputsCostNothing /\ SummaryCountsTheDecisions

\* Read-only decisions are the sign of a finished aggregate: whatever stopped
\* or overtook the run, every file was written before the first was frozen,
\* and only an evaluation that has begun to write can be without an index.
FrozenMeansFinished ==
    Decided \in readOnly =>
        /\ \A f \in Aggregate \ {Index} : files[f] = "whole"
        /\ files[Index] = "whole" \/ files[Evaluated] = "whole"

\* A whole index lists whole files only, and every file but itself and an
\* evaluation that is still to be indexed; an evaluation that succeeded is
\* indexed, whatever ran at the same time.
IndexListsWholeFiles ==
    /\ files[Index] = "whole" =>
          /\ \A f \in index : files[f] = "whole"
          /\ Present \ index \subseteq {Evaluated}
    /\ (\E p \in Procs : reply[p] = "evaluated") =>
          Evaluated \in index /\ {Evaluated, Index} \subseteq readOnly

\* A run that reports its status left a frozen aggregate that says the same,
\* whoever ran or evaluated beside it.
SuccessIsFrozen ==
    \A p \in Procs : reply[p] \in {"completed", "incomplete"} =>
        /\ summary.status = reply[p]
        /\ Aggregate \ {Index} \subseteq readOnly
        /\ Index \in readOnly \/ files[Evaluated] # "missing"

\* What is said of the aggregate, by its index and by the commands, is so.
IndexTellsTheTruth == IndexListsWholeFiles /\ SuccessIsFrozen

\* The evaluation is about all rows of one baseline and all decisions: no row
\* is dropped, none is without a decision, and the counts agree.
EvaluationCoversTheBaseline ==
    files[Evaluated] = "whole" =>
        LET Sum(f) == f["TP"] + f["FP"] + f["NMC"]
        IN  /\ evaluation.missing_automatic = 0
            /\ \E b \in Baselines : evaluation.aligned = Len(b) /\
                   \A l \in Labels : evaluation.baseline_counts[l] =
                       Cardinality({i \in DOMAIN b : b[i].label = l})
            /\ evaluation.aligned + evaluation.missing_baseline = Cardinality(decisions)
            /\ \A l \in Labels : Sum(evaluation.matrix[l]) = evaluation.baseline_counts[l]
            /\ Sum(evaluation.automatic_counts) = evaluation.aligned

\* What is published stays: once the decisions are read-only nothing of the
\* aggregate but the index ever changes again, and an evaluation is final.
PublishedStaysPublished ==
    [][/\ Decided \in readOnly =>
            /\ Decided \in readOnly' /\ UNCHANGED <<summary, decisions>>
            /\ \A f \in Aggregate \ {Index} : files'[f] = files[f]
       /\ files[Evaluated] # "missing" =>
            files'[Evaluated] = files[Evaluated] /\ UNCHANGED evaluation]_vars

\* A reader of the artifact root sees the decisions published, then compared.
PublicationOfRoot == INSTANCE Publication WITH
    phase <- IF files[Evaluated] = "whole" THEN "evaluated"
             ELSE IF Decided \in readOnly THEN "published" ELSE "open",
    decisions <- IF Decided \in readOnly THEN decisions ELSE {}
ImplementsPublication == PublicationOfRoot!Spec

\* experiments/rocketmq-resource-leak-20260812-v2/protocol.md:17 lets the
\* baseline be opened only after all automatic decisions and reports are
\* read-only.  The code looks at the decisions alone.
BaselineIsOpenedAfterTheFreeze ==
    \A p \in Procs : at[p] = "compare" =>
        Aggregate \ {Index} \subseteq readOnly

=============================================================================
