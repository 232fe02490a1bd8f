----------------------------- MODULE RunJournal -----------------------------
(***************************************************************************)
(* RunJournal: the object that owns one run's audit trail.  It keeps a     *)
(* history in memory, appends it to workflow-events.jsonl, projects it to  *)
(* run-manifest.json after every change, and seals (chmod 0400) what it    *)
(* registered when the run ends.                                           *)
(*                                                                         *)
(* Every operation takes `io`, the one system call the operating system    *)
(* refuses during the call ("none" when all succeed).  Most become an      *)
(* EviTriageError; those outside every `except OSError` of this class      *)
(* leave the operation as the OSError they are, exc = "oserror": the look  *)
(* at a path, mkdir and chmod of a parent, fstat, read and close of an     *)
(* open file, and what removes a temporary manifest.  complete() and       *)
(* fail() are split where they stop looking at file contents, so that      *)
(* another process may change a file between the digest check and chmod.   *)
(*                                                                         *)
(* Left out: timestamps, tool version values, roles, media types, sizes,   *)
(* parent directories and symbolic links.                                  *)
(* The digest of a file is its content.                                    *)
(***************************************************************************)
EXTENDS WorkflowStates, SequencesExt

CONSTANTS
    Paths,              \* artifact paths below the run root
    InitialArtifacts    \* the sequence of paths the constructor registers

ASSUME InitialArtifactsAssumption ==
    InitialArtifacts \in Seq(Paths)

LogFile == "workflow-events.jsonl"
ManifestFile == "run-manifest.json"
AuditFiles == {LogFile, ManifestFile}

ASSUME AuditFilesAssumption == Paths \cap AuditFiles = {}

VARIABLES
    mode,       \* _input_mode
    state,      \* _state
    status,     \* _status
    events,     \* _events, as [seq, from, to]
    artifacts,  \* _artifacts, as [path, digest], in registration order
    log,        \* the complete lines of workflow-events.jsonl
    torn,       \* the log holds a line that was only partly written
    manifest,   \* the content of run-manifest.json
    files,      \* what each artifact path holds on disk
    sealed,     \* the files that are owner-read-only
    call,       \* the multi-step call in progress
    exc,        \* how the last journal call ended
    late        \* ghost: registered files changed after complete() or fail()
                \* checked them and before it sealed them

journalVars == <<mode, state, status, events, artifacts, log, torn, manifest,
                 files, sealed, call, exc, late>>

Contents == {"absent", "partial", "original", "altered"}

AppendFaults == {"append_refused", "append_torn", "append_unsynced"}
\* "uncaught_kept": the old manifest cannot be looked at, or the temporary one
\* not removed after a failure; "uncaught_replaced": the temporary one cannot
\* be looked for although it has been moved.
PersistFaults ==
    {"persist_kept", "persist_replaced", "uncaught_kept", "uncaught_replaced"}
WriteFaults == {"write_refused", "write_partial"}
\* "uncaught": a look, a mkdir, a chmod, an fstat, a read or a close before the
\* operation has changed anything.
ReadFaults == {"read_refused", "uncaught"}
AuditFaults == {"audit_log_refused", "audit_manifest_refused"}
\* "uncaught_close": a close in the finally clause that follows the seals.
SealFaults == {"seal_refused", "uncaught_close"}
Uncaught == {"uncaught", "uncaught_kept", "uncaught_replaced", "uncaught_close"}
Faults == AppendFaults \cup PersistFaults \cup WriteFaults \cup ReadFaults
            \cup AuditFaults \cup SealFaults
IO == {"none"} \cup Faults

Event == [seq : Nat, from : WorkflowState \cup {"none"}, to : WorkflowState]
ArtifactRecord == [path : Paths, digest : Contents]

Projection == [state |-> state, status |-> status, events |-> events,
               artifacts |-> artifacts]

NoManifest == [state |-> "CREATED", status |-> "none", events |-> <<>>,
               artifacts |-> <<>>]

PathsIn(records) == {records[i].path : i \in DOMAIN records}
Registered == PathsIn(artifacts)
Finalizing == call = "completing" \/ call \in FailureStates

-----------------------------------------------------------------------------
(* RunManifest's validator. *)

ChainIsConsistent(history) ==
    /\ history # <<>>
    /\ history[1] = [seq |-> 0, from |-> "none", to |-> "CREATED"]
    /\ \A i \in 2 .. Len(history) :
         /\ history[i].seq = i - 1
         /\ history[i].from = history[i - 1].to
         /\ ManifestAllows(history[i - 1].to, history[i].to)

ValidManifest(m) ==
    /\ ChainIsConsistent(m.events)
    /\ m.state = m.events[Len(m.events)].to
    /\ \A i, j \in DOMAIN m.artifacts :
         m.artifacts[i].path = m.artifacts[j].path => i = j
    /\ \A i \in DOMAIN m.events :
         m.events[i].to \notin (IF mode = "sarif" THEN ScanBranch
                                                  ELSE IngestBranch)
    /\ ~(mode = "sarif" /\ m.state = "CODEQL_FAILED")
    /\ m.status = "completed" => m.state \in GoalStates
    /\ m.status = "failed" <=> m.state \in FailureStates

-----------------------------------------------------------------------------
(* The internal steps the operations are made of. *)

\* What the caller sees of a refused system call, and of a call that raises
\* before it changes anything.
Error(io) == IF io \in Uncaught THEN "oserror" ELSE "evitriage"
Early(io) == IF io = "uncaught" THEN "oserror" ELSE "evitriage"

Stop(io) ==
    /\ exc' = Early(io)
    /\ UNCHANGED <<mode, state, status, events, artifacts, log, torn, manifest,
                   files, sealed, call, late>>

Refuse == Stop("none")

\* Mutant of AppendEvent: the event is kept in memory although it could not be
\* written.
AppendEventKeptInMemory(from, to, io) ==
    LET event == [seq |-> Len(events), from |-> from, to |-> to] IN
    /\ events' = Append(events, event)
    /\ log' = IF torn \/ io \in {"append_refused", "append_torn"}
              THEN log ELSE Append(log, event)
    /\ torn' = (torn \/ io = "append_torn")

\* One line is appended and synced.  A failure may leave no byte, part of the
\* line, or the whole line in the file; memory keeps the event only on success.
AppendEvent(from, to, io) ==
    LET event == [seq |-> Len(events), from |-> from, to |-> to] IN
    /\ events' = IF io \in AppendFaults THEN events ELSE Append(events, event)
    /\ log' = IF torn \/ io \in {"append_refused", "append_torn"}
              THEN log ELSE Append(log, event)
    /\ torn' = (torn \/ io = "append_torn")

\* self.manifest is validated, written to a temporary file and moved over the
\* old one.  A failure leaves the old content (before os.replace) or the new
\* one (after it); pydantic's ValidationError is not an EviTriageError, nor is
\* an OSError of the finally clause.
PersistManifest(io) ==
    /\ manifest' = IF ValidManifest(Projection')
                       /\ io \notin {"persist_kept", "uncaught_kept"}
                   THEN Projection' ELSE manifest
    /\ exc' = IF ~ValidManifest(Projection') THEN "validation"
              ELSE IF io \in PersistFaults \cup AuditFaults THEN Error(io)
              ELSE "none"

\* _record_artifact: the record stays in memory when the manifest cannot be
\* rewritten.
Register(p, digest, io) ==
    IF p \in Registered
    THEN /\ exc' = "evitriage"
         /\ UNCHANGED <<mode, state, status, events, artifacts, manifest>>
    ELSE /\ artifacts' = Append(artifacts, [path |-> p, digest |-> digest])
         /\ UNCHANGED <<mode, state, status, events>>
         /\ PersistManifest(io)

-----------------------------------------------------------------------------
(* Operations. *)

Init ==
    /\ mode \in Modes
    /\ state = "CREATED"
    /\ status = "running"
    /\ events = <<>> /\ log = <<>> /\ torn = FALSE
    /\ artifacts = <<>>
    /\ manifest = NoManifest
    /\ files \in [Paths -> {"absent", "original"}]
    /\ \A i \in DOMAIN InitialArtifacts :
         files[InitialArtifacts[i]] = "original"
    /\ sealed = {} /\ late = {}
    /\ call = "new"
    /\ exc = "none"

\* RunJournal(...): a look at the run root, the first event and manifest.
Open(io) ==
    /\ io \in {"none", "uncaught"} \cup AppendFaults \cup PersistFaults
    /\ call = "new"
    /\ UNCHANGED <<mode, state, status, artifacts, files, sealed, late>>
    /\ IF io = "uncaught"
       THEN exc' = "oserror" /\ UNCHANGED <<events, log, torn, manifest>>
       ELSE /\ AppendEvent("none", "CREATED", io)
            /\ IF io \in AppendFaults
               THEN exc' = "evitriage" /\ UNCHANGED manifest
               ELSE PersistManifest(io)
    /\ call' = IF exc' # "none" THEN "dead"
               ELSE IF InitialArtifacts = <<>> THEN "idle" ELSE "opening"

\* The constructor registers what workspace allocation left in the run root.
\* An exception here means that the caller never gets a journal.
RegisterInitial(io) ==
    /\ io \in {"none"} \cup ReadFaults \cup PersistFaults
    /\ call = "opening"
    /\ UNCHANGED <<log, torn, files, sealed, late>>
    /\ LET p == InitialArtifacts[Len(artifacts) + 1] IN
         IF io \in ReadFaults \/ files[p] = "absent"
         THEN /\ exc' = Early(io)
              /\ UNCHANGED <<mode, state, status, events, artifacts, manifest>>
         ELSE Register(p, files[p], io)
    /\ call' = IF exc' # "none" THEN "dead"
               ELSE IF Len(artifacts') = Len(InitialArtifacts) THEN "idle"
               ELSE "opening"

\* Mutant of Transition: the check that the run is still running is dropped.
TransitionAfterTheEnd(to, io) ==
    /\ io \in {"none"} \cup AppendFaults \cup PersistFaults
    /\ call = "idle"
    /\ IF <<state, to>> \notin JournalEdges
       THEN Refuse
       ELSE /\ state' = to
            /\ UNCHANGED <<mode, status, artifacts, files, sealed, call, late>>
            /\ AppendEvent(state, to, io)
            /\ IF io \in AppendFaults
               THEN exc' = "evitriage" /\ UNCHANGED manifest
               ELSE PersistManifest(io)

\* transition(): the state moves before the event is appended.
Transition(to, io) ==
    /\ io \in {"none"} \cup AppendFaults \cup PersistFaults
    /\ call = "idle"
    /\ IF status # "running" \/ <<state, to>> \notin JournalEdges
       THEN Refuse
       ELSE /\ state' = to
            /\ UNCHANGED <<mode, status, artifacts, files, sealed, call, late>>
            /\ AppendEvent(state, to, io)
            /\ IF io \in AppendFaults
               THEN exc' = "evitriage" /\ UNCHANGED manifest
               ELSE PersistManifest(io)

\* add_tool_versions(): the values are left out, the rewrite is not.
AddToolVersions(io) ==
    /\ io \in {"none"} \cup PersistFaults
    /\ call = "idle"
    /\ IF status # "running"
       THEN Refuse
       ELSE /\ UNCHANGED <<mode, state, status, events, artifacts, log, torn,
                           files, sealed, call, late>>
            /\ PersistManifest(io)

\* write_artifact(): the parents are made or secured, the file is created
\* exclusively and registered.
WriteArtifact(p, io) ==
    /\ io \in {"none", "uncaught"} \cup WriteFaults \cup PersistFaults
    /\ call = "idle"
    /\ IF status # "running" THEN Refuse
       ELSE IF io = "uncaught" \/ files[p] # "absent" THEN Stop(io)
       ELSE /\ UNCHANGED <<log, torn, sealed, call, late>>
            /\ files' = [files EXCEPT ![p] =
                 IF io = "write_refused" THEN "absent"
                 ELSE IF io = "write_partial" THEN "partial" ELSE "original"]
            /\ IF io \in WriteFaults
               THEN /\ exc' = "evitriage"
                    /\ UNCHANGED <<mode, state, status, events, artifacts,
                                   manifest>>
               ELSE Register(p, "original", io)

\* ingest_file(): a bounded read of the caller's file, then write_artifact().
IngestFile(p, io) ==
    IF io \in ReadFaults THEN call = "idle" /\ Stop(io) ELSE WriteArtifact(p, io)

\* record_existing_artifact(): the parents are secured as for a new file, the
\* file is opened and read; registers whatever the file holds now.
RecordExisting(p, io) ==
    /\ io \in {"none"} \cup ReadFaults \cup PersistFaults
    /\ call = "idle"
    /\ IF status # "running" THEN Refuse
       ELSE IF io \in ReadFaults \/ files[p] = "absent" THEN Stop(io)
       ELSE /\ UNCHANGED <<log, torn, files, sealed, call, late>>
            /\ Register(p, files[p], io)

\* Mutant of Verified: the files must exist, their digests are not compared.
VerifiedByName(io) ==
    /\ io \notin ReadFaults
    /\ \A i \in DOMAIN artifacts : files[artifacts[i].path] # "absent"

\* Every registered file is reopened, as record_existing_artifact() does, and
\* its digest compared.
Verified(io) ==
    /\ io \notin ReadFaults
    /\ \A i \in DOMAIN artifacts : files[artifacts[i].path] = artifacts[i].digest

CompleteVerify(io) ==
    /\ io \in {"none"} \cup ReadFaults
    /\ call = "idle"
    /\ IF status # "running" \/ state \notin GoalStates THEN Refuse
       ELSE IF ~Verified(io) THEN Stop(io)
       ELSE /\ call' = "completing"
            /\ exc' = "none"
            /\ UNCHANGED <<mode, state, status, events, artifacts, log, torn,
                           manifest, files, sealed, late>>

\* Mutant of FailVerify: fail() does not ask whether the run is over.
FailVerifyAfterTheEnd(to, io) ==
    /\ io \in {"none"} \cup ReadFaults
    /\ call = "idle"
    /\ IF ~Verified(io)
       THEN Stop(io)
       ELSE /\ call' = to
            /\ exc' = "none"
            /\ UNCHANGED <<mode, state, status, events, artifacts, log, torn,
                           manifest, files, sealed, late>>

\* The failure state stays in `call` until FailCommit assigns it.
FailVerify(to, io) ==
    /\ io \in {"none"} \cup ReadFaults
    /\ call = "idle"
    /\ IF status # "running" THEN Refuse
       ELSE IF ~Verified(io) THEN Stop(io)
       ELSE /\ call' = to
            /\ exc' = "none"
            /\ UNCHANGED <<mode, state, status, events, artifacts, log, torn,
                           manifest, files, sealed, late>>

\* fchmod fails on the file after the first n, or a close after it or after
\* all: the call raises, the run is still running and n files stay read-only.
SealRefused(n, io) ==
    /\ io \in SealFaults
    /\ Finalizing
    /\ n < Len(artifacts) \/ (n = Len(artifacts) /\ io = "uncaught_close")
    /\ sealed' = sealed \cup {artifacts[i].path : i \in 1 .. n}
    /\ call' = "idle"
    /\ exc' = Error(io)
    /\ UNCHANGED <<mode, state, status, events, artifacts, log, torn, manifest,
                   files, late>>

\* The registered files, and with the manifest written also the audit files.
Seal(io) ==
    sealed' = sealed \cup Registered \cup
        {f \in AuditFiles : \/ exc' = "none"
                            \/ /\ exc' = "evitriage" /\ f = LogFile
                               /\ io = "audit_manifest_refused"}

CompleteCommit(io) ==
    /\ io \in {"none"} \cup PersistFaults \cup AuditFaults
    /\ call = "completing"
    /\ status' = "completed"
    /\ call' = "idle"
    /\ UNCHANGED <<mode, state, events, artifacts, log, torn, files, late>>
    /\ PersistManifest(io)
    /\ Seal(io)

FailCommit(io) ==
    /\ io \in {"none"} \cup AppendFaults \cup PersistFaults \cup AuditFaults
    /\ call \in FailureStates
    /\ state' = call
    /\ status' = "failed"
    /\ call' = "idle"
    /\ UNCHANGED <<mode, artifacts, files, late>>
    /\ AppendEvent(state, call, io)
    /\ IF io \in AppendFaults
       THEN exc' = "evitriage" /\ UNCHANGED manifest
       ELSE PersistManifest(io)
    /\ Seal(io)

\* Another program of the same user rewrites or deletes a writable file.
Alter(p) ==
    /\ p \notin sealed
    /\ files[p] # "absent"
    /\ \E content \in {"altered", "absent"} :
         files' = [files EXCEPT ![p] = content]
    /\ late' = IF Finalizing /\ p \in Registered THEN late \cup {p} ELSE late
    /\ UNCHANGED <<mode, state, status, events, artifacts, log, torn, manifest,
                   sealed, call, exc>>

-----------------------------------------------------------------------------
(* A journal used by an arbitrary client. *)

Step(io) ==
    \/ Open(io) \/ RegisterInitial(io)
    \/ \E to \in WorkflowState : Transition(to, io)
    \/ AddToolVersions(io)
    \/ \E p \in Paths : WriteArtifact(p, io) \/ IngestFile(p, io)
    \/ \E p \in Paths : RecordExisting(p, io)
    \/ CompleteVerify(io) \/ CompleteCommit(io)
    \/ \E to \in FailureStates : FailVerify(to, io)
    \/ FailCommit(io)
    \/ \E n \in 0 .. Len(artifacts) : SealRefused(n, io)

Next ==
    \/ \E io \in IO : Step(io)
    \/ \E p \in Paths : Alter(p)

Spec == Init /\ [][Next]_journalVars

-----------------------------------------------------------------------------
(* Properties. *)

\* Every variable holds a value of its type.
TypeOK ==
    /\ mode \in Modes
    /\ state \in WorkflowState
    /\ status \in {"running", "completed", "failed"}
    /\ events \in Seq(Event) /\ log \in Seq(Event) /\ torn \in BOOLEAN
    /\ artifacts \in Seq(ArtifactRecord)
    /\ manifest \in [state : WorkflowState,
                     status : {"none", "running", "completed", "failed"},
                     events : Seq(Event), artifacts : Seq(ArtifactRecord)]
    /\ files \in [Paths -> Contents]
    /\ sealed \subseteq Paths \cup AuditFiles
    /\ call \in {"new", "opening", "idle", "completing", "dead"} \cup FailureStates
    /\ exc \in {"none", "evitriage", "validation", "oserror"}
    /\ late \subseteq Paths

\* Whatever system call fails, the manifest on disk never tells of a
\* transition that the event log cannot replay: its history is a prefix of
\* the readable log and its state is where that history ends.
ManifestReplaysLog ==
    manifest # NoManifest =>
        /\ IsPrefix(manifest.events, log)
        /\ manifest.state = manifest.events[Len(manifest.events)].to

\* A manifest that says completed or failed only exists once every artifact it
\* lists is read-only and, outside the window between digest check and chmod,
\* still has the bytes it was registered with.
FinalManifestIsAudited ==
    manifest.status \in {"completed", "failed"} =>
        \A i \in DOMAIN manifest.artifacts :
            LET r == manifest.artifacts[i] IN
            /\ r.path \in sealed
            /\ files[r.path] = r.digest \/ r.path \in late

\* A run that the disk calls completed or failed is over: no later call of any
\* client changes its manifest or adds to its log.
FinalIsFinal ==
    [][manifest.status \in {"completed", "failed"} =>
         UNCHANGED <<manifest, log>>]_journalVars

-----------------------------------------------------------------------------
(* Strengthenings: what makes the invariants above inductive. *)

\* The constructor has a next artifact to register until it returns.
OpeningOK ==
    /\ call = "new" => artifacts = <<>>
    /\ call = "opening" => Len(artifacts) < Len(InitialArtifacts)

\* Memory, log and state tell the same history.
InSync == events = log /\ ~torn /\ state = events[Len(events)].to

\* An event is missing from memory, and RunManifest will never accept it again:
\* the state has moved above the last event, or a later event does not start
\* where its predecessor ended.
HistoryLost ==
    \/ Rank[events[Len(events)].to] < Rank[state]
    \/ \E i \in 2 .. Len(events) : events[i].from # events[i - 1].to

HistoryInv ==
    /\ call = "new" =>
         /\ events = <<>> /\ log = <<>> /\ ~torn
         /\ state = "CREATED" /\ manifest = NoManifest
    /\ call \notin {"new", "dead"} => events # <<>> /\ (InSync \/ HistoryLost)
    /\ status = "running" => state \in ProgressStates
    /\ Finalizing => status = "running"

\* What makes FinalManifestIsAudited inductive.
AuditInv ==
    /\ status # "running" => call = "idle"
    /\ manifest.status \in {"completed", "failed"} => status # "running"
    /\ Finalizing => \A i \in DOMAIN artifacts :
         \/ files[artifacts[i].path] = artifacts[i].digest
         \/ artifacts[i].path \in late

JournalInv == OpeningOK /\ HistoryInv /\ AuditInv

=============================================================================
