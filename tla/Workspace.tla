----------------------------- MODULE Workspace -----------------------------
(***************************************************************************)
(* WorkspaceManager: processes prepare and clean up one managed run and    *)
(* share the content-addressed snapshots of the source.  Runs with other   *)
(* identifiers have paths and locks of their own, so one is enough.        *)
(*                                                                         *)
(* A tree is what its digest tells: a content, or no tree, or one that is  *)
(* half removed, used by a build or tampered with.  Staging copies are private and installed by   *)
(* one rename.  The kernel drops the file locks of a process that dies.    *)
(***************************************************************************)
EXTENDS Naturals

CONSTANTS
    Procs,          \* the processes that use the manager
    Contents,       \* what the source directory may hold, by digest
    Specs,          \* the resolved ProjectSpecs a client may pass
    Incidents,      \* the kinds of incidents that may happen
    MaxIncidents    \* bound: how many of them

NoTree == "no tree"
Partial == "partial"
Used == "used"
Tampered == "tampered"
Nobody == "nobody"
NoFile == "no file"
NoDescriptor == [status |-> "none"]

ASSUME WorkspaceAssumption ==
    /\ Contents # {} /\ Contents \cap {NoTree, Partial, Used, Tampered} = {}
    /\ Nobody \notin Procs /\ NoFile \notin Specs
    /\ Incidents \subseteq {"stop", "edit", "tamper"}
    /\ MaxIncidents \in Nat

Directories == {"codeql_database", "temporary"}
Descriptor ==
    [spec : Specs, snapshot : Contents, status : {"preparing", "ready"}]

VARIABLES
    source,         \* the original source directory
    sources,        \* the managed snapshots, by digest
    buildCopy, directories, artifactRoot, descriptor, specFile,   \* the run
    snapshotLock, runLock,      \* who holds the lock of a digest, of the run
    at,             \* where each process is in its call
    spec, want,     \* the ProjectSpec of each call, the digest it computed
    staging,        \* the private copy of the source
    reply,          \* the result of each process' last call
    incidents       \* how many incidents happened

run == <<buildCopy, directories, artifactRoot, descriptor, specFile>>
disk == <<source, sources, run>>
locks == <<snapshotLock, runLock>>
calls == <<spec, want, staging>>
vars == <<disk, locks, at, calls, reply, incidents>>

Init ==
    /\ source \in Contents /\ sources = [c \in Contents |-> NoTree]
    /\ buildCopy \in {NoTree, Used}      \* a directory nobody owns
    /\ directories = {} /\ artifactRoot = FALSE
    /\ descriptor = NoDescriptor /\ specFile = NoFile
    /\ snapshotLock = [c \in Contents |-> Nobody] /\ runLock = Nobody
    /\ at = [p \in Procs |-> "idle"]
    /\ spec = [p \in Procs |-> NoFile] /\ want = [p \in Procs |-> NoTree]
    /\ staging = [p \in Procs |-> NoTree]
    /\ reply = [p \in Procs |-> "none"] /\ incidents = 0

Goto(p, where) == at' = [at EXCEPT ![p] = where]

\* The call returns or raises; its locks are released, its variables gone.
End(p, how) ==
    /\ Goto(p, "idle") /\ reply' = [reply EXCEPT ![p] = how]
    /\ spec' = [spec EXCEPT ![p] = NoFile] /\ want' = [want EXCEPT ![p] = NoTree]
    /\ runLock' = IF runLock = p THEN Nobody ELSE runLock
    /\ snapshotLock' =
         [c \in Contents |-> IF snapshotLock[c] = p THEN Nobody ELSE snapshotLock[c]]

\* The call goes on and keeps its locks.
Continue(p, where) == Goto(p, where) /\ UNCHANGED <<locks, spec, want, reply>>

-----------------------------------------------------------------------------
(* snapshot_local_source *)

\* The digest of the source is taken before any lock.
CallPrepare(p) ==
    /\ at[p] = "idle" /\ Goto(p, "lock snapshot")
    /\ \E s \in Specs : spec' = [spec EXCEPT ![p] = s]
    /\ want' = [want EXCEPT ![p] = source]
    /\ reply' = [reply EXCEPT ![p] = "none"]
    /\ UNCHANGED <<disk, locks, staging, incidents>>

\* Mutant of LockSnapshot: the lock is shared.
LockSnapshotShared(p) ==
    /\ at[p] = "lock snapshot"
    /\ snapshotLock' = [snapshotLock EXCEPT ![want[p]] = p]
    /\ Goto(p, "check snapshot")
    /\ UNCHANGED <<disk, runLock, calls, reply, incidents>>

LockSnapshot(p) ==
    /\ at[p] = "lock snapshot" /\ snapshotLock[want[p]] = Nobody
    /\ snapshotLock' = [snapshotLock EXCEPT ![want[p]] = p]
    /\ Goto(p, "check snapshot")
    /\ UNCHANGED <<disk, runLock, calls, reply, incidents>>

UnlockSnapshot(p) ==
    /\ snapshotLock' = [snapshotLock EXCEPT ![want[p]] = Nobody]
    /\ Goto(p, "lock run") /\ UNCHANGED <<runLock, spec, want, reply>>

\* An existing snapshot is digested again before it is reused.
CheckSnapshot(p) ==
    /\ at[p] = "check snapshot"
    /\ IF sources[want[p]] = NoTree THEN Continue(p, "copy source")
       ELSE IF sources[want[p]] = want[p] THEN UnlockSnapshot(p)
       ELSE End(p, "conflict")
    /\ UNCHANGED <<disk, staging, incidents>>

CopySource(p) ==
    /\ at[p] = "copy source" /\ Continue(p, "install")
    /\ staging' = [staging EXCEPT ![p] = source]
    /\ UNCHANGED <<disk, incidents>>

Unstage(p) == staging' = [staging EXCEPT ![p] = NoTree]

\* Mutant of InstallSnapshot: the copy is not digested again.
InstallSnapshotUnverified(p) ==
    /\ at[p] = "install"
    /\ IF sources[want[p]] # NoTree THEN End(p, "failed") /\ UNCHANGED sources
       ELSE /\ sources' = [sources EXCEPT ![want[p]] = staging[p]]
            /\ UnlockSnapshot(p)
    /\ Unstage(p) /\ UNCHANGED <<source, run, incidents>>

\* A rename cannot replace a directory that is not empty.
InstallSnapshot(p) ==
    /\ at[p] = "install"
    /\ IF staging[p] # want[p] THEN End(p, "conflict") /\ UNCHANGED sources
       ELSE IF sources[want[p]] # NoTree
       THEN End(p, "failed") /\ UNCHANGED sources
       ELSE /\ sources' = [sources EXCEPT ![want[p]] = staging[p]]
            /\ UnlockSnapshot(p)
    /\ Unstage(p) /\ UNCHANGED <<source, run, incidents>>

-----------------------------------------------------------------------------
(* create_run *)

LockRun(p) ==
    /\ at[p] \in {"lock run", "lock cleanup"} /\ runLock = Nobody
    /\ runLock' = p
    /\ Goto(p, IF at[p] = "lock run" THEN "inspect" ELSE "check owner")
    /\ UNCHANGED <<disk, snapshotLock, calls, reply, incidents>>

Owned(p, status) == [spec |-> spec[p], snapshot |-> want[p], status |-> status]

\* The directories of a ready run exist and hold this ProjectSpec; the build
\* copy belongs to the build and is not digested.
ValidReady(p) ==
    buildCopy # NoTree /\ directories = Directories /\ specFile = spec[p]

\* Mutant of Inspect: the descriptor's inputs are not compared.
InspectStatusOnly(p) ==
    /\ at[p] = "inspect"
    /\ IF artifactRoot
       THEN IF descriptor = NoDescriptor THEN End(p, "conflict")
            ELSE IF descriptor.status = "preparing" THEN Continue(p, "write preparing")
            ELSE IF ValidReady(p) THEN End(p, "granted") ELSE End(p, "failed")
       ELSE IF buildCopy # NoTree \/ directories # {} THEN End(p, "conflict")
       ELSE Continue(p, "make root")
    /\ UNCHANGED <<disk, staging, incidents>>

\* Mutant of Inspect: a preparation that has begun is waited for.
InspectWaits(p) ==
    /\ at[p] = "inspect"
    /\ IF artifactRoot
       THEN IF descriptor = NoDescriptor THEN End(p, "conflict")
            ELSE IF descriptor.status = "preparing" THEN Continue(p, "inspect")
            ELSE IF descriptor # Owned(p, "ready") THEN End(p, "conflict")
            ELSE IF ValidReady(p) THEN End(p, "granted") ELSE End(p, "failed")
       ELSE IF buildCopy # NoTree \/ directories # {} THEN End(p, "conflict")
       ELSE Continue(p, "make root")
    /\ UNCHANGED <<disk, staging, incidents>>

\* Mutant of Inspect: a run that is ready is prepared once more.
InspectAlwaysResumes(p) ==
    /\ at[p] = "inspect"
    /\ IF artifactRoot
       THEN IF descriptor \notin {Owned(p, "preparing"), Owned(p, "ready")}
            THEN End(p, "conflict")
            ELSE Continue(p, "write preparing")
       ELSE IF buildCopy # NoTree \/ directories # {} THEN End(p, "conflict")
       ELSE Continue(p, "make root")
    /\ UNCHANGED <<disk, staging, incidents>>

\* Reuse the run, resume its preparation or begin it.
Inspect(p) ==
    /\ at[p] = "inspect"
    /\ IF artifactRoot
       THEN IF descriptor \notin {Owned(p, "preparing"), Owned(p, "ready")}
            THEN End(p, "conflict")
            ELSE IF descriptor.status = "preparing" THEN Continue(p, "write preparing")
            ELSE IF ValidReady(p) THEN End(p, "granted") ELSE End(p, "failed")
       ELSE IF buildCopy # NoTree \/ directories # {} THEN End(p, "conflict")
       ELSE Continue(p, "make root")
    /\ UNCHANGED <<disk, staging, incidents>>

MakeRoot(p) ==
    /\ at[p] = "make root" /\ Continue(p, "write preparing")
    /\ artifactRoot' = TRUE
    /\ UNCHANGED <<source, sources, buildCopy, directories, descriptor, specFile,
                   staging, incidents>>

WritePreparing(p) ==
    /\ at[p] = "write preparing" /\ Continue(p, "check build")
    /\ descriptor' = Owned(p, "preparing")
    /\ UNCHANGED <<source, sources, buildCopy, directories, artifactRoot, specFile,
                   staging, incidents>>

\* What an interrupted preparation left is kept only if it is whole.
CheckBuild(p) ==
    /\ at[p] = "check build"
    /\ IF buildCopy = NoTree THEN Continue(p, "copy build") /\ UNCHANGED buildCopy
       ELSE IF buildCopy = want[p]
       THEN Continue(p, "make directories") /\ UNCHANGED buildCopy
       ELSE Continue(p, "discard build") /\ buildCopy' = Partial
    /\ UNCHANGED <<source, sources, directories, artifactRoot, descriptor, specFile,
                   staging, incidents>>

DiscardBuild(p) ==
    /\ at[p] = "discard build" /\ Continue(p, "copy build")
    /\ buildCopy' = NoTree
    /\ UNCHANGED <<source, sources, directories, artifactRoot, descriptor, specFile,
                   staging, incidents>>

\* Mutant of CopyBuild: the snapshot is not digested again.
CopyBuildUnverified(p) ==
    /\ at[p] = "copy build"
    /\ Continue(p, "make directories") /\ buildCopy' = sources[want[p]]
    /\ UNCHANGED <<source, sources, directories, artifactRoot, descriptor, specFile,
                   staging, incidents>>

\* The snapshot and the copy are both digested before the copy is installed.
CopyBuild(p) ==
    /\ at[p] = "copy build"
    /\ IF sources[want[p]] = want[p]
       THEN Continue(p, "make directories") /\ buildCopy' = want[p]
       ELSE End(p, "conflict") /\ UNCHANGED buildCopy
    /\ UNCHANGED <<source, sources, directories, artifactRoot, descriptor, specFile,
                   staging, incidents>>

MakeDirectories(p) ==
    /\ at[p] = "make directories"
    /\ IF directories = Directories
       THEN Continue(p, "write spec") /\ UNCHANGED directories
       ELSE /\ Continue(p, "make directories")
            /\ directories' = directories \cup
                 {IF "codeql_database" \in directories THEN "temporary"
                  ELSE "codeql_database"}
    /\ UNCHANGED <<source, sources, buildCopy, artifactRoot, descriptor, specFile,
                   staging, incidents>>

WriteSpec(p) ==
    /\ at[p] = "write spec"
    /\ IF specFile \in {NoFile, spec[p]}
       THEN Continue(p, "write ready") /\ specFile' = spec[p]
       ELSE End(p, "conflict") /\ UNCHANGED specFile
    /\ UNCHANGED <<source, sources, buildCopy, directories, artifactRoot, descriptor,
                   staging, incidents>>

WriteReady(p) ==
    /\ at[p] = "write ready" /\ End(p, "granted")
    /\ descriptor' = Owned(p, "ready")
    /\ UNCHANGED <<source, sources, buildCopy, directories, artifactRoot, specFile,
                   staging, incidents>>

-----------------------------------------------------------------------------
(* cleanup_run *)

CallCleanup(p) ==
    /\ at[p] = "idle" /\ Goto(p, "lock cleanup")
    /\ reply' = [reply EXCEPT ![p] = "none"]
    /\ UNCHANGED <<disk, locks, calls, incidents>>

NothingThere == buildCopy = NoTree /\ directories = {} /\ ~artifactRoot

\* Mutant of CheckOwner: what is there is removed, owned or not.
CheckOwnerNever(p) ==
    /\ at[p] = "check owner" /\ Continue(p, "remove build")
    /\ UNCHANGED <<disk, staging, incidents>>

\* Without a descriptor nothing is removed.
CheckOwner(p) ==
    /\ at[p] = "check owner"
    /\ IF NothingThere THEN End(p, "none")
       ELSE IF descriptor = NoDescriptor THEN End(p, "conflict")
       ELSE Continue(p, "remove build")
    /\ UNCHANGED <<disk, staging, incidents>>

\* A tree is removed entry by entry.
RemoveBuild(p) ==
    /\ at[p] = "remove build"
    /\ IF buildCopy \in {NoTree, Partial}
       THEN Continue(p, "remove directories") /\ buildCopy' = NoTree
       ELSE Continue(p, "remove build") /\ buildCopy' = Partial
    /\ UNCHANGED <<source, sources, directories, artifactRoot, descriptor, specFile,
                   staging, incidents>>

RemoveDirectories(p) ==
    /\ at[p] = "remove directories"
    /\ IF directories = {} THEN Continue(p, "remove root") /\ UNCHANGED directories
       ELSE /\ Continue(p, "remove directories")
            /\ directories' = directories \
                 {IF "codeql_database" \in directories THEN "codeql_database"
                  ELSE "temporary"}
    /\ UNCHANGED <<source, sources, buildCopy, artifactRoot, descriptor, specFile,
                   staging, incidents>>

\* The entries of the artifact root go in the order the directory lists them.
RemoveRoot(p) ==
    /\ at[p] = "remove root"
    /\ \/ /\ descriptor # NoDescriptor /\ descriptor' = NoDescriptor
          /\ Continue(p, "remove root") /\ UNCHANGED <<specFile, artifactRoot>>
       \/ /\ specFile # NoFile /\ specFile' = NoFile
          /\ Continue(p, "remove root") /\ UNCHANGED <<descriptor, artifactRoot>>
       \/ /\ descriptor = NoDescriptor /\ specFile = NoFile
          /\ artifactRoot' = FALSE
          /\ End(p, "none") /\ UNCHANGED <<descriptor, specFile>>
    /\ UNCHANGED <<source, sources, buildCopy, directories, staging, incidents>>

-----------------------------------------------------------------------------
(* The clients and the incidents. *)

\* The build of a client that was given the run changes its build copy.
UseBuild(p) ==
    /\ at[p] = "idle" /\ reply[p] = "granted" /\ buildCopy \in Contents
    /\ buildCopy' = Used
    /\ UNCHANGED <<source, sources, directories, artifactRoot, descriptor, specFile,
                   locks, at, calls, reply, incidents>>

Happens(kind) ==
    /\ kind \in Incidents /\ incidents < MaxIncidents
    /\ incidents' = incidents + 1

\* A system call fails and the call raises, or the process dies: either way
\* its locks and its staging copy are gone and the rest stays as it is.
Stop(p) ==
    /\ Happens("stop") /\ at[p] # "idle"
    /\ End(p, "failed") /\ Unstage(p) /\ UNCHANGED disk

\* Somebody edits the original source.
EditSource ==
    /\ Happens("edit") /\ source' \in Contents \ {source}
    /\ UNCHANGED <<sources, run, locks, at, calls, reply>>

\* Somebody changes a managed snapshot.
Tamper ==
    /\ Happens("tamper")
    /\ \E c \in Contents :
         sources[c] # NoTree /\ sources' = [sources EXCEPT ![c] = Tampered]
    /\ UNCHANGED <<source, run, locks, at, calls, reply>>

Prepare(p) ==
    \/ CheckSnapshot(p) \/ CopySource(p) \/ InstallSnapshot(p)
    \/ Inspect(p) \/ MakeRoot(p) \/ WritePreparing(p) \/ CheckBuild(p)
    \/ DiscardBuild(p) \/ CopyBuild(p) \/ MakeDirectories(p) \/ WriteSpec(p)
    \/ WriteReady(p)

Cleanup(p) ==
    CheckOwner(p) \/ RemoveBuild(p) \/ RemoveDirectories(p) \/ RemoveRoot(p)

Next ==
    \/ \E p \in Procs :
         \/ CallPrepare(p) \/ CallCleanup(p) \/ LockSnapshot(p) \/ LockRun(p)
         \/ Prepare(p) \/ Cleanup(p) \/ UseBuild(p) \/ Stop(p)
    \/ EditSource \/ Tamper

Spec == Init /\ [][Next]_vars

\* A process that may go on does, and takes a lock that stays free.
FairSpec ==
    /\ Spec
    /\ \A p \in Procs :
         /\ WF_vars(Prepare(p) \/ Cleanup(p))
         /\ WF_vars(LockSnapshot(p)) /\ WF_vars(LockRun(p))

-----------------------------------------------------------------------------
Steps ==
    {"idle", "lock snapshot", "check snapshot", "copy source", "install", "lock run",
     "inspect", "make root", "write preparing", "check build", "discard build",
     "copy build", "make directories", "write spec", "write ready", "lock cleanup",
     "check owner", "remove build", "remove directories", "remove root"}

\* Every variable has its type; a build copy is never taken from a snapshot
\* that was tampered with (_materialize_build_copy).
TypeOK ==
    /\ source \in Contents
    /\ sources \in [Contents -> Contents \cup {NoTree, Tampered}]
    /\ buildCopy \in Contents \cup {NoTree, Partial, Used}
    /\ directories \in SUBSET Directories /\ artifactRoot \in BOOLEAN
    /\ descriptor \in Descriptor \cup {NoDescriptor}
    /\ specFile \in Specs \cup {NoFile}
    /\ snapshotLock \in [Contents -> Procs \cup {Nobody}]
    /\ runLock \in Procs \cup {Nobody}
    /\ at \in [Procs -> Steps] /\ spec \in [Procs -> Specs \cup {NoFile}]
    /\ want \in [Procs -> Contents \cup {NoTree}]
    /\ staging \in [Procs -> Contents \cup {NoTree}]
    /\ reply \in [Procs -> {"none", "granted", "conflict", "failed"}]
    /\ incidents \in 0..MaxIncidents

\* A snapshot that nobody tampered with holds the tree its name is the digest
\* of, although the digest is taken before the lock and the source may be
\* edited while it is copied (snapshot_local_source).
SnapshotsKeepIdentity == \A c \in Contents : sources[c] \in {NoTree, c, Tampered}

Answered(p, how) == at[p] # "idle" /\ reply'[p] = how

\* Whoever is given the run finds the ownership descriptor, the resolved
\* spec and the directories of its own inputs; a build copy it prepared, or
\* resumed, is the tree it asked for unless a client has used it.
GrantIsOwned ==
    [][\A p \in Procs : Answered(p, "granted") =>
         /\ artifactRoot' /\ descriptor' = Owned(p, "ready")
         /\ specFile' = spec[p] /\ directories' = Directories
         /\ \/ buildCopy' \in {want[p], Used}
            \/ buildCopy' = Partial /\ descriptor.status = "ready"]_vars

\* What the client of a ready run did to its build copy is removed by a
\* cleanup only, and a directory without a descriptor is left alone by every
\* call (cleanup_run: "Remove only the exact writable roots owned by one run").
WorkIsKept ==
    [][buildCopy = Used /\ buildCopy' # Used =>
         /\ descriptor # NoDescriptor
         /\ \/ descriptor.status = "preparing"
            \/ \E p \in Procs : at[p] = "remove build"]_vars

Theirs(p) == descriptor.spec # spec[p] \/ descriptor.snapshot # want[p]

\* As long as nothing fails, dies, is edited or tampered with, no call fails,
\* however the processes interleave, and a call is refused only because the
\* run belongs to other inputs or its directory to nobody.
UndisturbedRefusalsAreReal ==
    [][incidents' = 0 => \A p \in Procs :
         /\ ~Answered(p, "failed")
         /\ Answered(p, "conflict") =>
              \/ descriptor # NoDescriptor /\ Theirs(p)
              \/ ~artifactRoot /\ buildCopy # NoTree]_vars

Ownership == INSTANCE RunOwnership WITH
    Inputs <- [spec : Specs, snapshot : Contents],
    NoInputs <- NoDescriptor,
    owner <- IF descriptor = NoDescriptor THEN NoDescriptor
             ELSE [spec |-> descriptor.spec, snapshot |-> descriptor.snapshot],
    ready <- descriptor.status = "ready"

\* The descriptor makes the identifier belong to the inputs that claimed it
\* until a cleanup releases it (_create_or_reuse_run).
ImplementsRunOwnership == Ownership!Spec

\* The processes never all wait for each other: again and again one of them
\* is out of its call.
SomebodyReturns == []<>(\E p \in Procs : at[p] = "idle")

\* "Repeating this call with the same ``run_id`` and inputs returns the
\* existing allocation; changing an input for an existing run is rejected"
\* (WorkspaceManager.prepare): where an earlier call made the root of the run,
\* a repeat is refused only if the descriptor in it names other inputs.
RepeatIsRefusedOnlyForItsInputs ==
    [][\A p \in Procs :
         at[p] = "inspect" /\ artifactRoot /\ Answered(p, "conflict") =>
           descriptor # NoDescriptor /\ Theirs(p)]_vars

=============================================================================
