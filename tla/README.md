# EviTriage-QL: verification project

EviTriage-QL takes a CodeQL result file (or produces one with CodeQL), turns
every alert into bounded evidence, lets three language-model roles argue about
it, applies a deterministic policy to the outcome and writes an auditable run.
This directory holds TLA+ models of that program, the TLC runs that check them
and the proofs TLAPS checks. Code paths below are relative to
`src/evitriage/`; `docs/` and `README.md` of the program are quoted as such.

    tlasany M.tla                       parse a module
    tlc -config X.cfg MCmodule.tla      model-check a run (see PROJECT.json)
    tlapm M.tla                         check the proofs of a module

## 1. Inventory

| Part | Source | State it keeps | Operations |
|---|---|---|---|
| RunJournal | `run_artifacts.py`, `domain/run.py` | in memory: state, status, events, artifact records, tool versions; on disk: `workflow-events.jsonl`, `run-manifest.json`, artifact files and their modes | constructor, `transition`, `add_tool_versions`, `write_artifact`, `ingest_file`, `record_existing_artifact`, `complete`, `fail` |
| Pipeline | `pipeline.py`, `cli.py` | one journal, the stage in progress | the four run commands, `_fail_run`, `_record_partial_codeql_artifacts` |
| Triage | `agents/workflow.py`, `agents/resource_workflow.py`, `agents/dispatcher.py` | invocation list, the three roles' outputs | `triage`, one bounded repair per role |
| Policies | `agents/policy.py`, `agents/resource_policy.py` | none | `apply` |
| WorkspaceManager | `workspace/manager.py` | snapshots by digest, one tree set per run, ownership descriptor, lock files | `prepare` (`snapshot_local_source`, `create_run`), `cleanup_run` |
| LLM adapters | `llm/structured.py` | none, or a cursor (Fake) | `complete`, with transport retry (DeepSeek) or the stored answers (Replay) |
| CodeQLRunner | `codeql/runner.py` | database, logs, SARIF | `scan` |
| SARIF parser and normalizer | `sarif/` | none | parse, normalize |
| Context builder, evidence registry | `context/`, `evidence/` | none | build, merge |
| Report renderer, evaluation | `reporting/`, `evaluation.py` | none | render, evaluate |
| Experiments | `experiments.py`, `experiment_artifacts.py`, `experiment_cli.py` | aggregate directory, its checksum index and modes | preflight, run, finalize, evaluate |
| Credentials | `credentials.py` | one private file | discover, resolve, store, load |
| Project registry, configuration | `projects/`, `config.py` | identities seen by one registry | validate, load, list |
| Storage, doctor, release, schema generation, secret scan, observability | the files of those names | none, or an SQLite schema | I/O and build-time checks |

**How they interact.** The command line calls the pipeline. The pipeline
allocates a workspace, opens a journal in it and then alternates computations
(parse, normalize, slice, triage, render) with journal calls. Triage calls an
LLM adapter and a policy. The manifest validator (`domain/run.py`) is a second
party to every journal call: the journal may only write what it accepts. An
experiment runs the pipeline once per case and aggregates what the runs left.

**What is hard.** A run command has one thread that does the work, so most of
its hazards are not interleavings inside the program. They are system calls that
fail half-way and leave memory and disk apart; a process killed between two of
them; answers that are given and never arrive; other programs that change files already read, hashed or registered; two
processes that prepare, scan or clean up one run, store a credential or evaluate
an experiment; tools whose descendants live on; a model that answers with
anything at all, within a call budget; and exceptions that no handler expects.
The exception is the capture of a credential tool's output, which two threads
share. `PROJECT.json` lists every hazard at its line, with the properties aimed
at it or the reason there is none.

**What makes each part correct.**

- *Journal*: the manifest never tells a history the log does not; a final
  manifest lists only artifacts that were verified and sealed; final is final.
- *Pipeline*: success means a sealed, completed run; a failure is recorded with
  the state of its stage, or the command says that it could not be; every command
  ends. Two kinds of exception pass every handler and end a command in a traceback:
  the `ValidationError` of the evidence registry or of a manifest whose history lost
  an event, and the bare `OSError` of a system call outside every `except` of the
  journal or of a stage (`run_artifacts.py:383, 391, 426, 429, 464, 473, 521`,
  `codeql/runner.py:697, 705`). They may leave the run `running`, and end it in no
  other way than its command, or the handler of its failure, was about to.
- *Triage*: an error never becomes a label; no alert costs more than its
  budget; an accepted conversation always passes the validators of the records
  built from it.
- *Policies*: TP and FP need the evidence the design promises.
- *WorkspaceManager*: a snapshot is what its digest says; a run belongs to the
  inputs that claimed it; nothing unowned is removed; as long as somebody calls, somebody
  returns.
- *CodeQLRunner*: a result exists only when all five commands ended well and
  describes the bytes that were parsed; the logs of one scan are its own; every
  scan ends although no tool promises to.
- *Context builder*: what is shown is one version of the snapshot, the one the
  alerts were bound to; what an alert names and is not shown is declared.
- *Evidence registry*: every item rests on the rule of its own alert, a context is
  complete exactly when it has no gap item; nothing but the known twin of gap items is refused.
- *Credentials*: a command uses the key of the source it says, or fails, and passes
  over no source that is there; a key whose storing was reported survives a loss of
  power for as long as the directory that holds it. The first store makes that
  directory, and its parents, and flushes only what it contains
  (`credentials.py:620, 888`), so this directory may be lost with the key in it.
- *LLM adapters*: an answer that has arrived is not asked for again, but for one
  repair of an invalid one. A request whose answer is lost on the way, or is not read
  within the timeout, is sent again and paid for again (`llm/structured.py:392,
  408-420`): a request at most three times, a role at most six.
- *Experiments*: nothing is paid for before all inputs are checked; a batch is
  complete only if every case is; its
  decisions are frozen before a human label is read and never change; the
  checksum index matches.

## 2. Modules and their correspondence to the code

```
WorkflowStates <- RunJournal <- RunJournalProofs            (MCRunJournal)
       ^              ^
  RunLifecycle  <-  Pipeline  <-  PipelineProofs            (MCPipeline)
                      |
                  ScanFiles  <-  CodeQLScan  <-  ScanProofs  (MCCodeQLScan)
SliceContext <- EvidenceGraph <- Evidence <- EvidenceProofs (MCEvidence)
                SarifLocations <-'
DecisionPolicy <- ResourcePolicy <- Triage <- TriageProofs  (MCTriage)
                     TriageOutcome <-'
PipeCapture <- Credentials <- ModelAccess <- AccessProofs   (MCModelAccess)
RunOwnership  <-  Workspace  <-  WorkspaceProofs            (MCWorkspace)
Evaluation <- Publication <- Experiment <- ExperimentProofs (MCExperiment)
```

**WorkflowStates** holds the two copies of the transition graph, the journal's
table and the manifest validator's rule, separately, because the code has both.

**RunJournal** has one variable per field of the class (`mode`, `state`,
`status`, `events`, `artifacts`) and per thing on disk (`log`, `torn`,
`manifest`, `files`, `sealed`), `exc` for how the last call ended, and `late`, a
ghost. Each operation takes `io`, the one system call refused during that call,
and does what the code has done up to there. Most refusals become an EviTriageError;
`uncaught`, `uncaught_kept`, `uncaught_replaced` and `uncaught_close` are those that
no `except OSError` covers (the sets `ReadFaults`, `PersistFaults` and `SealFaults`),
and leave the call as the `OSError` they are (`exc = "oserror"`). `complete` and `fail` are split
between the digest check and the chmod, where another program (`Alter`) may
write. A manifest that the validator would refuse raises `ValidationError`.

**Pipeline** is a program counter over a sequence of steps; the sequence is
computed from the command (mode, goal, supplement) and every step names the
failure states its `except` clauses may pass on. It composes RunJournal by
`INSTANCE` with the same variables. The handler `_fail_run` and its own failures
are phases. `Work` steps are computations that may raise an EviTriageError, and an
OSError where they look into files (`LooksIntoFiles`). Neither an `OSError` nor a
`ValidationError` is known to any handler or to `main` (`Unhandled`): the command ends
there, also in the middle of the handler.
Of the files that the handler finds after a failed scan it records one after the
other; the code sorts them by name, the model leaves the order open (`pending`).
What the scan may leave behind is `LeftBehind` of **ScanFiles**, the contract
CodeQLScan is checked to keep. The registry may raise the `ValidationError` that
run `gaps_end_the_run` shows it to raise (`BuildRegistry`). **RunLifecycle** is
its abstract specification.

**CodeQLScan** has processes that go through `scan` in one workspace: the checks
of plan, tools and absence of outputs, five commands with three logs each, the
SARIF file and `run.json`. A command runs as a `child`; when it ends or is
killed at its timeout, a descendant may keep its pipes open or go on writing the
SARIF file (`OrphanWorks`). Contents are `absent`, `partial`, `original`, so
that the scan's files are those of Pipeline.

**SliceContext** has the context builder as functions of one alert: References,
the order in which they are taken, the window or enclosing callable of each, the
coordinates and digests that are compared, the reasons why a file cannot be shown
(`Unreadable`, a code and what its detail tells apart), the budget, the same-file callees, the
union of overlapping slices and the omissions. A document is what the lexical
passes find in a file. **EvidenceGraph** has the items, edges and validators of
the registry; an item is the content its identifier is the digest of.
**SarifLocations** has the location resolver: artifacts, nested URI bases with
their cache and depth limit, joins and anchors; and, beside it, what a location
means when nothing is cached. **Evidence** puts them in order: locate and hash,
location by location and SARIF run by SARIF run, read the files again alert by
alert, build the registry, merge the supplement, while another program may
`Change` a file.

**PipeCapture** is the pipe between a credential tool and the thread that drains
it, chunk by chunk: who holds the write end, how many chunks were written, taken
and kept, and whether the thread has looked at the pipe or at the event last.
**Credentials** extends it with the commands of `credentials.py` system call by
system call: lookup of the three sources, loading, and the private write (temporary
file, `fsync`, `rename`, `fsync` of the directory). The disk has what a reader sees
and what a loss of power would leave: `path` and `durable`, and of the directory
whether it is there, private and `anchored`, that is, whether its own entry and those
above it are flushed, which a store never does. **ModelAccess** extends it with
the requests a triage then makes: transport retries, the classes of reply and whether
a reply `arrives`, the repair of the role, and the cache of the replay adapter. To the
client an answer that is lost is the same silence as one that was never given; the
list `replies` tells them apart, for the one who pays.

**DecisionPolicy**, **ResourcePolicy** are pure operators, gate by gate in the
order of the code. A claim is its own identifier, because the code's identifier
is a digest of the claim's content and author; an evidence identifier is a key
of the registry.

**Triage** sends each alert to its workflow, asks Analyst, Rebuttal and Judge,
checks the budget before each call, validates references, repairs at most
`Repairs` times per role, materializes claims, applies the policy and, after the
last alert, builds the stage records with the validators of `domain/triage.py`
and then the report (`reporting/renderer.py`) with the validators of
`domain/report.py`; either may refuse what it is given, and the run then crashes.
The model is any function from (family, role) to a set of replies; each call
returns one of them, an answer outside the schema, or an error. **TriageOutcome**
is its abstract specification.

**Workspace** has processes that go through `prepare` and `cleanup_run` system
call by system call, with the two locks they take. A call may `Stop` anywhere:
a system call fails or the process dies; the disk stays as it is, the locks are
released. A tree is what its digest
tells: a content, nothing, half removed (`Partial`), used by a build (`Used`) or
changed by somebody else (`Tampered`). Paths and locks contain the run id, so
one run is enough. Clients are external: whoever was given the run may use its
build copy. **RunOwnership** is its abstract specification.

**Experiment** has processes that run `experiment preflight`, `run` (also dry)
and `evaluate` on one manifest and one artifact root. A run loops over the cases
twice to check them, once before and once after the adapter is made, then over
the triages, then over `Files`, each created exclusively, and then freezes the
files in any order; a file that an evaluation has removed between the look at it and
its `chmod` ends the command (`FreezeMisses`). The historical comparison is one of
the files, and has nothing to compare when the manifest names no cases for it
(`Before = 0`). `files`, `readOnly` and the four contents are the root on
disk; `next`, `outcomes`, `todo` and `result` are the locals of a command. A
stop leaves a file that is being written missing or torn. The triage of a case is
one step: it completes with a label for every result it reads, or fails.
**Evaluation** has the comparison as pure operators; **Publication** is the
abstract specification.

`PROJECT.json` maps each definition to the lines it translates.

**Abstractions shared by all modules.** Digests are the contents themselves.
Timestamps, sizes, texts, confidence values, media types and layout are left
out. Checks of paths and symbolic links that raise before anything has changed
are left out: they only make a call fail, which `Stop`, `work` or `io` already
allows. Per module: the evidence identifiers of a draft are a set, so two drafts
that differ only in their order are duplicates in the model and not in the code;
two alerts of a bundle never share an occurrence, which `domain/alerts.py`
validates; the mismatch between the SARIF digests of registry and target is not
modelled, since both come from one bundle. A staging tree a killed process
leaves behind is not kept: nothing reads it.

## 3. Runs

Every property of a passing run is accompanied by a mutant: an operator of the
same module that changes one translated definition the way a plausible bug
would (`PROJECT.json`, "mutants"). Under the mutant TLC finds the property
violated, so each property depends on the code it is about.

| Run | States | Question | Shows |
|---|---|---|---|
| `journal` | 899,969 | Any client, any order of calls, any refused system call, any file changed from outside | `ManifestReplaysLog`, `FinalManifestIsAudited`, `FinalIsFinal` |
| `pipeline` | 437,237 | Four kinds of command, two incidents (refused calls, caught or not, and changed files), a kill anywhere | `SuccessIsEarned`, `FailureIsTold`, `OnlyKnownErrorsEscape`, `ImplementsRunLifecycle` (refinement) |
| `scan` | 56,827 | Two scans of one workspace, one refused write or kill, descendants that live on | `OutcomeTellsTheCommands`, `AuditBelongsToOneScan`, `ScanKeepsTheContract` (what Pipeline relies on), `ScansReturn` |
| `evidence` | 296,842 | 21 inputs over two files of any kind, one file changed at any time | `LocationsMeanWhatTheyName`, `ContextIsHonest`, `RegistryIsGrounded`, `OnlyTwinGapsCrash` |
| `triage` | 303,874 | Three alerts of three families, one repair, budget 5, answers that pass and miss the gates | `BudgetHolds`, `AcceptedIsDecided`, `VerdictsAreGrounded`, `EveryRoleGetsItsRepair`, `ImplementsTriageOutcome` (refinement), `Terminates` |
| `access` | 356,528 | Two processes store, resolve, show and use credentials; one is killed, the power fails, a tool fails or a call is refused; answers are lost | `CaptureIsSound`, `UndisturbedCommandsTellTheSources`, `FoundIsNotPassedOver`, `StoredCredentialsSurvive`, `OnlySilenceIsAskedAgain`, `CommandsReturn` |
| `experiment` | 4,070,586 | Two processes check, run and evaluate one experiment; one stop, exchanged input or changed baseline | `SummaryTellsTheTruth`, `FrozenMeansFinished`, `IndexTellsTheTruth`, `EvaluationCoversTheBaseline`, `PublishedStaysPublished`, `ImplementsPublication` (refinement) |
| `workspace` | 273,406 | Two processes, two sources, two specs, two incidents, under fairness | `TypeOK`, `SnapshotsKeepIdentity`, `GrantIsOwned`, `WorkIsKept`, `UndisturbedRefusalsAreReal`, `ImplementsRunOwnership` (refinement), `SomebodyReturns` |

`SuccessIsEarned`, `FailureIsTold`, `AcceptedIsDecided` and `SummaryTellsTheTruth`
are conjunctions of named parts, each with its comment in the module. The column
"States" counts distinct states.

**Bounds, and why they are enough.**

- *Journal, pipeline*: `MaxIncidents = 2` for the safety runs, because the
  interesting histories are a failure followed by a failure of its handler. One initial artifact, one further path, one slice
  and two tool logs: the journal treats every path alike, and the partial
  capture needs one that exists and one that does not. The proofs of section 5
  remove these bounds for the journal and for the pipeline.
- *Triage*: a security alert, a lock alert and an alert with an incomplete
  context, so that the dispatcher, both workflows and the loop over alerts are
  exercised. `MaxCalls = 5` is less than the six calls of three repaired roles,
  so the budget is what ends a conversation; it is also above three, so repairs
  happen. The replies are few and chosen to pass and to miss gates: a full case, a
  rebuttal, a foreign reference, a release that is and is not covered. The proofs
  remove the bounds.
- *Scan*: two processes, because the only thing that keeps two scans apart is the
  exclusive creation of a file. Six setups, one for every check that may refuse
  and one where all pass. Every command may end in any way, whatever the setup.
- *Evidence*: two files of every kind, and documents with every feature the
  builder tells apart: lines inside and outside a callable, a callable that calls
  a unique, an overloaded and an undefined one, marks and resource lines. `Radius
  = 1` and `Budget = 12` make windows overlap and budgets run out in the middle of
  an alert; `MaximumCallees = 1` lets one of two callees through. The inputs have
  one alert, two that share files, repeated locations, metadata above the budget,
  supplements of this and another run, and no alert at all. Fourteen of them are one
  SARIF file with two builds, whose bases have one name and two roots (one on a
  Windows drive), and every way of spelling a place in the second: nested, cyclic,
  undeclared and foreign bases, absolute URIs, artifacts, regions that end before
  they begin, a location that only refers. `MaximumDepth = 2` makes three bases too many. One change is enough to
  fall between any two reads of a file.
- *Access*: `Output = 3` chunks, `PipeSize = 1` and `Limit = 2`, so a tool may
  write less than the limit, the limit and more, and must wait on a full pipe. One
  command per process and one incident; the pairs of commands are those that share
  a source, and stores that find no credential directory. One capture goes on at a time.
- *Workspace*: two processes are what an interleaving of two steps needs; a
  third would only wait for a lock. Two contents and two specs give every
  combination of equal and different inputs. The number of calls is not bounded.
- *Experiment*: two processes, because a run may meet a run, an evaluation meet
  a freezing run, and an evaluation meet an evaluation. A case with a result, one
  without and one that is only counted; every input may be wrong from the start,
  so the preflight meets a wrong case in every place. One incident: a stop in any
  place, an exchanged input (which also makes one occurrence appear in two
  cases) or a changed baseline. No rendered report (`Rendered` is empty):
  `preflight.json` and `historical-comparison.json` already are files that are
  only written, indexed and frozen. The two processes are interchangeable
  (symmetry); no liveness is checked.

**Deadlock** is checked for the workspace and the experiment, whose processes
always may call again. The other runs end, so their configurations turn it off;
`ScansReturn` and `CommandsReturn` say that scans and commands end, and `Terminates` says that a triage ends only where it
should.

**Fairness.** Triage: each provider answers
or fails in bounded time, since the transport has a timeout and at most three
attempts (`llm/structured.py:386-395`). Workspace: a process that may go on does,
and takes a lock that stays free (`WF`); no process is promised a lock that
others keep taking, because `flock` promises no order. So `SomebodyReturns` is
stated, and that every call returns is not. Scan: `WF` of the scan's own steps
and of its timeouts; nothing is assumed of the tools, which may run, hold their
pipes and work for ever. Access: `WF` of the program's own steps, of its
reading thread and of the tool in charge, because a tool that does nothing is
killed at its timeout; nothing is assumed of descendants that keep the pipe.

## 4. Findings

Four runs are expected to be violated; each states one sentence of the
program's documentation and TLC shows what the code does instead.

- `gaps_end_the_run` (`evidence/registry.py:226`): the gap item of an omission
  leaves out its path, so a resource alert with two files missing in one way has
  one evidence identifier twice. The validator raises an exception no handler
  expects: the run ends in a traceback and stays `running`, against
  `KNOWN_LIMITATIONS.md:101-103`. `OnlyTwinGapsCrash` says that this is the only
  such case.
- `capture_loses_output` (`credentials.py:115`): the thread that drains a pipe
  finds it empty, then the tool writes and ends, then the thread sees that the
  tool has ended and stops. What the tool printed is lost, against the docstring
  at `credentials.py:87`.
- `conflicting_facts` (`agents/resource_policy.py:89`): the FP branch of the
  resource policy never reads the Analyst's exit assessment, so confirmed
  release and confirmed leak pass as FP, against `docs/adr/0014`.
- `repeat_refused` (`workspace/manager.py:335`): a prepare that fails between
  the run's directory and its descriptor makes the run id unusable: every repeat
  and every cleanup is refused, against the docstring of `prepare`.

Three more configurations reproduce divergences of the same kind and are kept
beside the runs:

- `MCFailedCommandIsNotCompleted.cfg` (`run_artifacts.py:254`): `complete` writes
  the completed manifest before it seals the audit files. When that chmod fails
  the command reports an error about a run its manifest calls completed, against
  `docs/architecture.md:104`.
- `MCHandledFailureKeepsMetadata.cfg` (`run_artifacts.py:426`, `:142`): a refused
  `mkdir` of an artifact's directory, or a refused `read` of an input, is an `OSError`
  that no handler expects: the run stays `running` without an error report, against
  `README.md:359`. So it does after one failed append to the event log, which moves
  the in-memory state ahead of its events and makes every later manifest invalid.
- `MCBaselineIsOpenedAfterTheFreeze.cfg` (`experiment_artifacts.py:87`): the
  evaluation takes the mode of the decisions as the sign that everything is
  frozen; the files are frozen one by one, so the baseline is opened while reports
  are writable, against
  `experiments/rocketmq-resource-leak-20260812-v2/protocol.md:17`.

Met while modelling, without a run: a called method with no definition in the
file gives no omission (`context/builder.py:601`), although
`KNOWN_LIMITATIONS.md:18-20` calls missing callees a context gap; and the depth
limit of URI bases is checked before the cache is asked
(`sarif/normalizer.py:275`), so that whether a base that is too deep is accepted
depends on which locations were resolved before.

## 5. Proofs

**RunJournalProofs** holds for any set of paths, any sequence of initial
artifacts, any client and any number of refused system calls.

- `TypeCorrect`: `TypeOK`, one lemma per operation.
- `ReplaysLog`: `ManifestReplaysLog` is not inductive: an append that fails
  leaves a state that no event explains. The invariant (`HistoryInv` in
  `JournalInv`) distinguishes the journal whose history is intact from the one
  whose history is lost; once lost it stays lost, because every transition goes
  up in `Rank`, so the last event can never again end in the current state, and
  the validator then refuses every manifest.
- `FinalIsAudited`: `AuditInv` follows the artifacts from the digest check over
  the chmod to the manifest; `late` collects what was changed in between.
- `FinalStaysFinal`: from the same invariant, as an action property.

**PipelineProofs** holds for any set of commands, any slices and tool logs, and any
number of refused system calls and outside changes.

- *The program.* What a command does next is an entry of a sequence whose parts have
  lengths that depend on the command, the slices and the logs. The first half of the
  module computes where the parts lie, which state the journal has before every step
  (`StageAt`), and that every step suits its place (`StepsFit`): a transition follows
  an edge that both graphs have and stays on its branch, the failure states of a
  handler belong to the stage of the step, nothing but the handler writes the error
  report.
- *The invariant.* `PlaceInv` says what the journal is at every place: before step `i`
  memory, log and manifest tell one valid history (`InTime`) and the records are those
  of the steps before. In the handler the journal is one of three: as good as before
  (`Known`), without the event of the transition that failed (`Lost`), or ended by a
  `complete()` that then failed (`Over`). These three are why the properties hold and
  why they are not inductive: from a lost history the validator refuses every
  manifest, so the handler cannot record the failure and the exception escapes; a run
  that is over is changed by no call of the handler, which then reports the error of
  its own. An `OSError` that nobody catches meets the journal in any of these places;
  what it leaves on disk is one of two things: a running manifest, or, when it comes
  after the last manifest of `complete()` or `fail()`, a final one with everything it
  lists sealed (`EscapesEndNothingElse`). `QuietInv` is about commands that met no incident: every record is right,
  every file is recorded or in the hands of the handler, and a failing step leaves a
  `Known` journal.
- *The steps.* `AfterStep` says what a step owes (`Owed`, `OwedQuiet`) for the
  invariant to survive, whatever its outcome; one lemma per action pays it, and says
  at the same time how the manifest may move (`MayBecome`). What the calls of the
  journal do to a sound or a lost history is shown once, before, and their types come
  from `RunJournalProofs`.
- Theorems: `SuccessEarned` (`SuccessIsEarned`), `FailureTold` (`FailureIsTold`),
  `ErrorsEscapeAsKnown` (`OnlyKnownErrorsEscape`), and `RefinesLifecycle`
  (`ImplementsRunLifecycle`): every step of a command is one of RunLifecycle or leaves
  the manifest as it is.

**TriageProofs** holds for any bundle, registry, set of replies and budgets the
configuration's validator allows (`TriageAssumption`).

- The invariant `TriageInv` has five parts: `TraceInv` (the invocation list is
  three runs of attempts, one per role, and within the budgets), `AnswersInv`
  (accepted outputs passed their validator against claims of earlier roles),
  `StagesInv` (what is recorded of finished alerts), `RowsInv` (its results are
  rows the report accepts) and `VerdictsAreGrounded`. `NeverCrashes` needs the
  first four together: the validators of the stage records count attempts and
  compare claims that were materialized in different calls, and those of the
  report derive the claims again and look every citation up once more.
- Theorems: `TypeCorrect`, `Grounded` (`VerdictsAreGrounded`), `Budget`,
  `NoCrash`, `RejectionsExplained`, `PaidIsDecided` (both together:
  `AcceptedIsDecided`), and `Implements`: every step of Triage is a
  step of TriageOutcome or a stutter.
- `RepairsAreUsed` (`EveryRoleGetsItsRepair`, an action property) needs
  `AttemptsInv`: a repair under way has left an invalid record for each attempt
  before it, so the answer that exhausts the repairs completes the list.

**ExperimentProofs** holds for any processes, any valid manifest, any rendered
reports, and any number of stops, exchanged inputs and changed baselines.

- `FrozenAreFinished`: that decisions are read-only says nothing about a run
  that is still writing, so `FrozenMeansFinished` is not inductive. The invariant
  `PublicationInv` adds who owns the root. The run that created the first file
  owns it (`OneOwner`): while it writes, that file is there (`WrittenInOrder`),
  so no other run can create it; it freezes only after the last file
  (`FreezesTheFinished`). So when the decisions are frozen nobody writes the
  aggregate any more (`FrozenIsFinished`), and an evaluation, which starts from
  frozen decisions and takes the index away only after its own file is written
  (`EvaluatesTheFrozen`), cannot unfinish it.
- `PublishedIsFinal`: `PublishedStaysPublished` as an action property, from the
  same invariant: a file that is there is created no second time, and the
  evaluation removes nothing but the index.

Its second half says what the artifact root tells once it is published.

- The invariant is built in layers, each with the help of the one before: who owns
  the root (`PublicationInv`, above); what is read-only, listed and compared
  (`IndexInv`, with `ModesInv` for the files an evaluation replaces); that a run
  which goes on to the model has checked every case (`InputsInv`); and what the files
  say (`DataInv`). A step is not looked at once for every part: `RootStep`, `OwnStep`,
  `InputStep` and `DataStep` say what any step of a process may do to each layer, every
  action is shown to be such a step, and the layer to survive such steps.
- Theorems: `TypesAreKept` (the type invariant `TypeOK`, proved and not in the run),
  `AggregateTellsTheTruth`
  (`SummaryTellsTheTruth`), `IndexIsTrue` (`IndexTellsTheTruth`), `NothingIsLeftOut`
  (`EvaluationCoversTheBaseline`: the counts of a comparison add up, a fact about
  cardinalities of the two decision sets) and `ImplementsThePublication`: the
  experiment refines Publication, in which publishing is the first freeze and
  comparing the one creation of the evaluation.

**WorkspaceProofs** holds for any number of processes, any sources, specifications
and contents, and any number of incidents.

- `TypeCorrect`, and `SnapshotIdentity` (`SnapshotsKeepIdentity`): a snapshot that its
  installer found missing is still missing when it is renamed into place
  (`MayInstall`), because the lock of its digest is held in between.
- `GrantsAreOwned`, `WorkStays` and the refinement `ImplementsOwnership` rest on
  `Progress`: whoever is past the lock of the run holds it alone, so that what it
  found or wrote of the run still holds at its next step.
- `QuietRefusals` (`UndisturbedRefusalsAreReal`) needs a second invariant that only
  speaks of a time in which nothing came from outside: there the descriptor tells
  exactly what exists of the run, but for the middle of its holder's work.

**ScanProofs** holds for any number of processes in one workspace, any build plans,
tool versions and logs, and any number of kills and refused writes.

- `OneScanOnly` (`AuditBelongsToOneScan`): nothing keeps two scans apart but the
  exclusive creation of the first log. The invariant makes its author the owner:
  whoever is further than that log, or has left a descendant of a later command, is
  that author.
- `FilesAreInOrder` (`ScanKeepsTheContract`): with one owner, the logs grow in one
  order, and where the owner is in its program tells which of them are there.
- `ResultsAreEarned` (`OutcomeTellsTheCommands`): what a process says of itself is kept
  by the steps of all others, which only add files and never take one away.

**AccessProofs** holds for any finite set of commands with any workloads, any keys,
any bound of a pipe's content and any number of incidents.

- `CaptureSound` (`CaptureIsSound`): `Place` says of every place of a command what it
  has there: whose tool the pipes serve, and which file it has written. The
  ciphertexts are at most one and those of the commands that have stored one.
- `StoredSurvive` (`StoredCredentialsSurvive`): what was reported is no newer than the
  file that survives, and that one only moves forward as the disk catches up, until the
  directory itself is lost; the next one is too late for any file that was stored
  before it (`Folder`, `FolderStays`), and an anchored one is never lost.
- `AskedAgainAfterSilence` (`OnlySilenceIsAskedAgain`): the replies of a conversation
  are a bad one at most per repair between short runs of silence, be it answers that
  were lost or none, the last of which is as long as the tries of the present request.
- `SourcesAreTold` (`UndisturbedCommandsTellTheSources`): in a time without incidents
  every command knows of the sources what it has looked at (`Seen`, `Resolving`,
  `Showing`, `Storing`), and what the tool has told it is the content of the source.
- `NothingFoundIsPassedOver` (`FoundIsNotPassedOver`): the same race without the quiet
  time. A step of a command (`Keeping`) moves to the next provider at its first look
  only, and the step that ends with a key names the provider it is at.

**EvidenceProofs** holds for any results that the SARIF parser accepts, any
documents, paths, budget, policy and supplement, and any number of changes of the
snapshot.

- *Folds.* The context builder and the registry are folds and flattenings of
  sequences. What such a fold computes is defined by recursion, so it is told here by
  the values it goes through (`FoldRuns`, `FlattenSteps`); these exist by induction
  over the naturals, taken from the well-foundedness of `<`, which is stated of sets
  and needs no operator. A lemma about one step (`AdmitMeets`, `OneMoreReference`)
  then becomes one about the whole by the same induction.
- *The invariant.* `Building` says that the context of every finished alert is honest
  of what the cache holds (`IsContext`), `Taking` the same of the references of the
  alert under way that were taken so far (`TakenInv`). Both speak of the cache and not
  of the snapshot, which may have changed since, and survive because a cache forgets
  nothing (`Later`). `Normalizing` adds that alerts are well formed, `Staged` what the
  registry was built of.
- `ContextsAreHonest` (`ContextIsHonest`): a reference that is taken is shown or
  declared (`ReferIs`), nothing the budget or the callees do loses one of the two
  (`Grown`), two slices with the same lines are one (`Distinct`), and the tokens that
  are counted are those of the slices (`Spent`).
- `RegistryGrounds` (`RegistryIsGrounded`) and `OnlyTwinsCrash` (`OnlyTwinGapsCrash`):
  the items of an alert are told apart by what they are about (`About`), slices by
  their lines and selection, omissions by code and detail alone, which is why only
  twins collide; every edge stays among the items of its alert, and four steps along
  the edges lead to its rule (`ItemsRest`).

The assumptions are those of the modules; TLC evaluates each of them in a run.
`InitialArtifactsAssumption` and `AuditFilesAssumption`: the files of a run do not
include its own log and manifest (`PipelineProofs` shows both of the pipeline's
journal). `PipelineAssumption`: the commands are those the command line parses to, and
slices and tool logs have paths of their own, which the code forms under
`context/slices/` and `codeql/`. `TriageAssumption`: the budgets its configuration's
validator allows. `WorkspaceAssumption`, `ScanAssumption`, `CaptureAssumption`: the
names of processes and contents are none of the values that say "nothing".
`CredentialsAssumption`: the same, the commands are those the command line parses to,
and they are finitely many, which counting the ciphertexts needs.
`SliceContextAssumption`: a document is what the lexical passes can find in a file
with at least one line, and digests are none of the ways in which reading fails.
`EvidenceAssumption`: what the models of the SARIF parser accept (raw_models.py:43-46),
that the bases of a SARIF run are finitely many, and that the related locations of a
sound result have distinct ids, which is part of that verdict. `SarifLocationsAssumption`:
the root of the snapshot is an absolute path and the depth limit is positive.
`ExperimentAssumption`: a manifest names every case once, and a baseline is what
`DecisionBaseline`'s validator accepts (evaluation.py:19, 25-32, 43-54, 144).

**Model-checked only.** Liveness (`Terminates`, `SomebodyReturns`, `ScansReturn`,
`CommandsReturn`): out of the reach of the provers. Every safety invariant and every
action property that a passing run checks is stated by a theorem.

## 6. What is not modelled

The parser is a step that may raise. Of the report, the consistency checks are
modelled and the texts are not. Of a SARIF result, rule, message, fingerprints
and the form of its flows are one verdict (`sound`); a URI is what its text is
parsed to. Left out are the conventions of line ends, encodings, and what the
lexical passes recognize in a text. Timestamps are left out, so a clock that
steps back is a hazard without a property. A cleanup under a working pipeline is not
modelled, since `cleanup_run` has no caller in the command line. Some properties leave
out what the code gives away, and say so where they do: `SummaryCountsTheDecisions`
the inputs that are exchanged between preflight and triage (`experiments.py:229`),
`FrozenMeansFinished` the index that a stopped evaluation has removed
(`experiment_artifacts.py:110`), and `GrantIsOwned` the build copy of a ready run that
a cleanup has half removed (`workspace/manager.py:252`). Project registry,
storage, doctor, observability, release, schema generation and secret scan keep no
state that several steps of a command share. `PROJECT.json` says for each component
what is left out and why.

## 7. Plan

All modules of the first plan are written: the journal, the pipeline, the triage
with its policies, the workspace, the experiment, the CodeQL scan, the context and
its evidence, and the access to credentials and models.

What could be added: the identities the project registry keeps apart, and a clock
for the journal.

What is left to the model checker is liveness (section 5).
