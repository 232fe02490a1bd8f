--------------------------- MODULE WorkspaceProofs ---------------------------
(***************************************************************************)
(* For any number of processes, any sources, any ProjectSpecs and any      *)
(* number of incidents: what WorkspaceManager promises of a snapshot, of   *)
(* a run it grants and of a run it takes back.                             *)
(*                                                                         *)
(* Whoever is past the lock of the run holds it alone, so what it has      *)
(* found or written of the run is still so at its next step (Progress).    *)
(* A snapshot that is missing stays missing while its lock is held.  As    *)
(* long as nothing happens from outside, the descriptor tells exactly what *)
(* there is of the run, except in the middle of its holder's work (Quiet). *)
(***************************************************************************)
EXTENDS Workspace, TLAPS

\* The steps between taking and releasing the lock of a digest, of the run.
InSnapshot == {"check snapshot", "copy source", "install"}
Building ==
    {"check build", "discard build", "copy build", "make directories", "write spec",
     "write ready"}
Removing == {"remove build", "remove directories", "remove root"}
InRun == {"inspect", "make root", "write preparing", "check owner"} \cup Building \cup Removing

\* The steps of prepare(), and those with a snapshot.
HasSnapshot == {"lock run", "inspect", "make root", "write preparing"} \cup Building
Preparing == {"lock snapshot"} \cup InSnapshot \cup HasSnapshot

HoldsLocks(p) ==
    /\ runLock = p <=> at[p] \in InRun
    /\ at[p] \in InSnapshot => snapshotLock[want[p]] = p

HasInputs(p) ==
    /\ at[p] \in Preparing => spec[p] \in Specs /\ want[p] \in Contents
    /\ at[p] # "idle" => reply[p] = "none"

\* The snapshot that was missing is still missing.
MayInstall(p) == at[p] \in {"copy source", "install"} => sources[want[p]] = NoTree

CallsAreHeld ==
    \A p \in Procs : HoldsLocks(p) /\ HasInputs(p) /\ MayInstall(p)

\* What a process has found, or made, of the run it holds.
Progress(p) ==
    /\ at[p] = "make root" => ~artifactRoot
    /\ at[p] \in {"write preparing"} \cup Building => artifactRoot
    /\ at[p] = "write preparing" => descriptor \in {NoDescriptor, Owned(p, "preparing")}
    /\ at[p] \in Building => descriptor = Owned(p, "preparing")
    /\ at[p] \in {"make directories", "write spec", "write ready"} =>
          buildCopy \in {want[p], Used}
    /\ at[p] \in {"write spec", "write ready"} => directories = Directories
    /\ at[p] = "write ready" => specFile = spec[p]
    /\ at[p] \in {"remove build", "remove directories"} => descriptor # NoDescriptor

RunIsKnown ==
    /\ \A p \in Procs : Progress(p)
    /\ ~artifactRoot => descriptor = NoDescriptor /\ specFile = NoFile
    /\ descriptor.status = "ready" =>
          buildCopy \in {descriptor.snapshot, Used, Partial, NoTree}

OwnedInv ==
    /\ TypeOK /\ SnapshotsKeepIdentity
    /\ CallsAreHeld /\ RunIsKnown

\* What holds in addition until somebody interferes.
QuietSources ==
    /\ \A c \in Contents : sources[c] \in {NoTree, c}
    /\ \A p \in Procs :
          /\ at[p] \in Preparing => want[p] = source
          /\ at[p] \in HasSnapshot => sources[want[p]] = want[p]
          /\ at[p] = "install" => staging[p] = want[p]

QuietRun ==
    /\ artifactRoot =>
          \/ descriptor # NoDescriptor
          \/ \E p \in Procs : at[p] \in {"write preparing", "remove root"}
    /\ ~artifactRoot => directories = {}
    /\ descriptor # NoDescriptor => specFile \in {NoFile, descriptor.spec}
    /\ descriptor.status = "ready" =>
          \/ /\ buildCopy # NoTree /\ directories = Directories
             /\ specFile = descriptor.spec
          \/ \E p \in Procs : at[p] \in Removing
    /\ \A p \in Procs :
          /\ at[p] = "write preparing" /\ descriptor = NoDescriptor => specFile = NoFile
          /\ at[p] = "remove root" => directories = {}

Quiet == incidents = 0 => QuietSources /\ QuietRun

WorkspaceInv == OwnedInv /\ Quiet

-----------------------------------------------------------------------------
(* How a call goes on *)

ControlTypes ==
    /\ snapshotLock \in [Contents -> Procs \cup {Nobody}]
    /\ runLock \in Procs \cup {Nobody} /\ at \in [Procs -> Steps]
    /\ spec \in [Procs -> Specs \cup {NoFile}]
    /\ want \in [Procs -> Contents \cup {NoTree}]
    /\ reply \in [Procs -> {"none", "granted", "conflict", "failed"}]

DiskTypes ==
    /\ source \in Contents
    /\ sources \in [Contents -> Contents \cup {NoTree, Tampered}]
    /\ buildCopy \in Contents \cup {NoTree, Partial, Used}
    /\ directories \in SUBSET Directories /\ artifactRoot \in BOOLEAN
    /\ descriptor \in Descriptor \cup {NoDescriptor}
    /\ specFile \in Specs \cup {NoFile}
    /\ staging \in [Procs -> Contents \cup {NoTree}]
    /\ incidents \in 0..MaxIncidents

LEMMA Types == TypeOK <=> ControlTypes /\ DiskTypes
  BY DEF TypeOK, ControlTypes, DiskTypes

\* What a step of p leaves to the others: their place, their inputs, their locks.
Others(p) ==
    \A q \in Procs \ {p} :
        /\ at'[q] = at[q] /\ spec'[q] = spec[q] /\ want'[q] = want[q]
        /\ reply'[q] = reply[q]
        /\ runLock' = q <=> runLock = q
        /\ \A c \in Contents : snapshotLock[c] = q => snapshotLock'[c] = q

LEMMA EndEffect ==
    ASSUME ControlTypes, NEW p \in Procs,
           NEW how \in {"none", "granted", "conflict", "failed"}, End(p, how)
    PROVE  /\ ControlTypes' /\ Others(p) /\ at'[p] = "idle" /\ runLock' # p
           /\ reply' = [reply EXCEPT ![p] = how]
<1>1. Nobody \notin Procs
  BY WorkspaceAssumption
<1> QED
  BY <1>1 DEF ControlTypes, End, Goto, Others, Steps

LEMMA ContinueEffect ==
    ASSUME ControlTypes, NEW p \in Procs, NEW where \in Steps, Continue(p, where)
    PROVE  /\ ControlTypes' /\ Others(p) /\ at'[p] = where
           /\ UNCHANGED <<runLock, snapshotLock, spec, want, reply>>
  BY DEF ControlTypes, Continue, Goto, Others, locks

LEMMA UnlockEffect ==
    ASSUME ControlTypes, NEW p \in Procs, UnlockSnapshot(p),
           want[p] \in Contents, snapshotLock[want[p]] = p
    PROVE  /\ ControlTypes' /\ Others(p) /\ at'[p] = "lock run"
           /\ UNCHANGED <<runLock, spec, want, reply>>
  BY DEF ControlTypes, UnlockSnapshot, Goto, Others, Steps

\* The steps that begin a call or take a lock.
LEMMA LockEffect ==
    ASSUME ControlTypes, DiskTypes, NEW p \in Procs,
           CallPrepare(p) \/ CallCleanup(p) \/ LockSnapshot(p) \/ LockRun(p)
    PROVE  /\ ControlTypes' /\ Others(p)
           /\ UNCHANGED <<source, sources, buildCopy, directories, artifactRoot,
                          descriptor, specFile, staging, incidents>>
<1>1. Nobody \notin Procs
  BY WorkspaceAssumption
<1> USE DEF ControlTypes, Others, Steps, Goto, disk, run, locks, calls
<1>2. CASE CallPrepare(p)
  <2>1. PICK s \in Specs : spec' = [spec EXCEPT ![p] = s]
    BY <1>2 DEF CallPrepare
  <2>2. /\ at' = [at EXCEPT ![p] = "lock snapshot"]
        /\ want' = [want EXCEPT ![p] = source]
        /\ reply' = [reply EXCEPT ![p] = "none"]
        /\ UNCHANGED <<disk, snapshotLock, runLock, staging, incidents>>
    BY <1>2 DEF CallPrepare
  <2> QED
    BY <2>1, <2>2 DEF DiskTypes
<1>3. CASE CallCleanup(p)
  BY <1>3 DEF CallCleanup
<1>4. CASE LockSnapshot(p)
  BY <1>1, <1>4 DEF LockSnapshot
<1>5. CASE LockRun(p)
  BY <1>1, <1>5 DEF LockRun
<1> QED
  BY <1>2, <1>3, <1>4, <1>5

\* The inputs and the locks that the steps of a call rely on.
LEMMA InputsAndLocks ==
    ASSUME OwnedInv, NEW p \in Procs
    PROVE  /\ ControlTypes /\ DiskTypes
           /\ at[p] \in {"check snapshot", "copy source", "install", "write preparing",
                         "copy build", "write spec", "write ready"} =>
                 spec[p] \in Specs /\ want[p] \in Contents
           /\ at[p] \in {"check snapshot", "install"} => snapshotLock[want[p]] = p
  BY Types DEF OwnedInv, CallsAreHeld, HoldsLocks, HasInputs, InSnapshot, Preparing,
               HasSnapshot, Building

LEMMA OwnedStatus ==
    ASSUME NEW p \in Procs
    PROVE  /\ Owned(p, "preparing").status = "preparing" /\ Owned(p, "ready").status = "ready"
           /\ Owned(p, "preparing") # NoDescriptor /\ Owned(p, "ready") # NoDescriptor
<1>1. /\ Owned(p, "preparing").status = "preparing" /\ Owned(p, "ready").status = "ready"
      /\ NoDescriptor.status = "none"
  BY DEF Owned, NoDescriptor
<1> QED
  BY <1>1

LEMMA IncidentHappens ==
    ASSUME DiskTypes, NEW kind, Happens(kind)
    PROVE  incidents' \in 0 .. MaxIncidents /\ incidents' # 0
  BY WorkspaceAssumption DEF DiskTypes, Happens

-----------------------------------------------------------------------------
(* The steps, for each part of the invariant *)

LEMMA TypesKept ==
    ASSUME OwnedInv, [Next]_vars
    PROVE  TypeOK'
<1> USE DEF ControlTypes, DiskTypes, run, disk, locks, calls
<1>t. ControlTypes /\ DiskTypes
  BY Types DEF OwnedInv
<1> SUFFICES ControlTypes' /\ DiskTypes'
  BY DEF TypeOK
<1>1. ASSUME NEW p \in Procs, CallPrepare(p) PROVE ControlTypes' /\ DiskTypes'
  BY <1>1, <1>t, InputsAndLocks, LockEffect DEF CallPrepare, Steps
<1>2. ASSUME NEW p \in Procs, CallCleanup(p) PROVE ControlTypes' /\ DiskTypes'
  BY <1>2, <1>t, InputsAndLocks, LockEffect DEF CallCleanup, Steps
<1>3. ASSUME NEW p \in Procs, LockSnapshot(p) PROVE ControlTypes' /\ DiskTypes'
  BY <1>3, <1>t, InputsAndLocks, LockEffect DEF LockSnapshot, Steps
<1>4. ASSUME NEW p \in Procs, LockRun(p) PROVE ControlTypes' /\ DiskTypes'
  BY <1>4, <1>t, InputsAndLocks, LockEffect DEF LockRun, Steps
<1>5. ASSUME NEW p \in Procs, CheckSnapshot(p) PROVE ControlTypes' /\ DiskTypes'
  BY <1>5, <1>t, InputsAndLocks, EndEffect, ContinueEffect, UnlockEffect DEF
     CheckSnapshot, Steps
<1>6. ASSUME NEW p \in Procs, CopySource(p) PROVE ControlTypes' /\ DiskTypes'
  BY <1>6, <1>t, InputsAndLocks, ContinueEffect DEF CopySource, Steps
<1>7. ASSUME NEW p \in Procs, InstallSnapshot(p) PROVE ControlTypes' /\ DiskTypes'
  <2>1. want[p] \in Contents /\ snapshotLock[want[p]] = p
    BY <1>7, InputsAndLocks DEF InstallSnapshot
  <2>2. ControlTypes'
    BY <1>7, <2>1, <1>t, EndEffect, UnlockEffect DEF InstallSnapshot
  <2>3. DiskTypes'
    BY <1>7, <2>1, <1>t DEF InstallSnapshot, Unstage
  <2> QED
    BY <2>2, <2>3
<1>8. ASSUME NEW p \in Procs, Inspect(p) PROVE ControlTypes' /\ DiskTypes'
  BY <1>8, <1>t, InputsAndLocks, EndEffect, ContinueEffect DEF Inspect, Owned,
     Steps
<1>9. ASSUME NEW p \in Procs, MakeRoot(p) PROVE ControlTypes' /\ DiskTypes'
  BY <1>9, <1>t, InputsAndLocks, ContinueEffect DEF MakeRoot, Steps
<1>10. ASSUME NEW p \in Procs, WritePreparing(p) PROVE ControlTypes' /\ DiskTypes'
  BY <1>10, <1>t, InputsAndLocks, ContinueEffect DEF WritePreparing, Owned, Steps,
     Descriptor
<1>11. ASSUME NEW p \in Procs, CheckBuild(p) PROVE ControlTypes' /\ DiskTypes'
  BY <1>11, <1>t, InputsAndLocks, ContinueEffect DEF CheckBuild, Steps
<1>12. ASSUME NEW p \in Procs, DiscardBuild(p) PROVE ControlTypes' /\ DiskTypes'
  BY <1>12, <1>t, InputsAndLocks, ContinueEffect DEF DiscardBuild, Steps
<1>13. ASSUME NEW p \in Procs, CopyBuild(p) PROVE ControlTypes' /\ DiskTypes'
  <2>1. want[p] \in Contents
    BY <1>13, InputsAndLocks DEF CopyBuild
  <2>2. ControlTypes'
    BY <1>13, <1>t, EndEffect, ContinueEffect DEF CopyBuild, Steps
  <2> QED
    BY <1>13, <2>1, <2>2, <1>t DEF CopyBuild
<1>14. ASSUME NEW p \in Procs, MakeDirectories(p) PROVE ControlTypes' /\ DiskTypes'
  <2>1. directories' = directories \/ directories' \subseteq directories \cup Directories
    BY <1>14 DEF MakeDirectories, Directories
  <2> QED
    BY <1>14, <2>1, <1>t, ContinueEffect DEF MakeDirectories, Steps
<1>15. ASSUME NEW p \in Procs, WriteSpec(p) PROVE ControlTypes' /\ DiskTypes'
  <2>1. spec[p] \in Specs
    BY <1>15, InputsAndLocks DEF WriteSpec
  <2>2. ControlTypes'
    BY <1>15, <1>t, EndEffect, ContinueEffect DEF WriteSpec, Steps
  <2> QED
    BY <1>15, <2>1, <2>2, <1>t DEF WriteSpec
<1>16. ASSUME NEW p \in Procs, WriteReady(p) PROVE ControlTypes' /\ DiskTypes'
  BY <1>16, <1>t, InputsAndLocks, EndEffect DEF WriteReady, Owned, Steps,
     Descriptor
<1>17. ASSUME NEW p \in Procs, CheckOwner(p) PROVE ControlTypes' /\ DiskTypes'
  BY <1>17, <1>t, InputsAndLocks, EndEffect, ContinueEffect DEF CheckOwner, Steps
<1>18. ASSUME NEW p \in Procs, RemoveBuild(p) PROVE ControlTypes' /\ DiskTypes'
  BY <1>18, <1>t, InputsAndLocks, ContinueEffect DEF RemoveBuild, Steps
<1>19. ASSUME NEW p \in Procs, RemoveDirectories(p) PROVE ControlTypes' /\ DiskTypes'
  BY <1>19, <1>t, InputsAndLocks, ContinueEffect DEF RemoveDirectories, Steps
<1>20. ASSUME NEW p \in Procs, RemoveRoot(p) PROVE ControlTypes' /\ DiskTypes'
  BY <1>20, <1>t, InputsAndLocks, EndEffect, ContinueEffect DEF RemoveRoot, Steps
<1>21. ASSUME NEW p \in Procs, UseBuild(p) PROVE ControlTypes' /\ DiskTypes'
  BY <1>21, <1>t, InputsAndLocks DEF UseBuild, Steps
<1>22. ASSUME NEW p \in Procs, Stop(p) PROVE ControlTypes' /\ DiskTypes'
  BY <1>22, <1>t, InputsAndLocks, EndEffect, IncidentHappens DEF Stop, Unstage,
     Steps
<1>23. CASE EditSource
  BY <1>23, <1>t, InputsAndLocks, IncidentHappens DEF EditSource, Steps
<1>24. CASE Tamper
  <2>1. /\ sources' \in [Contents -> Contents \cup {NoTree, Tampered}]
        /\ UNCHANGED <<source, run, locks, at, calls, reply>>
    BY <1>24, <1>t DEF Tamper
  <2>2. incidents' \in 0 .. MaxIncidents
    BY <1>24, <1>t, IncidentHappens DEF Tamper
  <2> QED
    BY <2>1, <2>2, <1>t
<1>25. CASE UNCHANGED vars
  BY <1>25, <1>t, InputsAndLocks DEF vars, Steps
<1> QED
  BY <1>1, <1>2, <1>3, <1>4, <1>5, <1>6, <1>7, <1>8, <1>9, <1>10, <1>11, <1>12,
     <1>13, <1>14, <1>15, <1>16, <1>17, <1>18, <1>19, <1>20, <1>21, <1>22, <1>23,
     <1>24, <1>25 DEF Next, Prepare, Cleanup


\* A copy is installed only if it has the digest it is named after.
LEMMA IdentityKept ==
    ASSUME OwnedInv, [Next]_vars
    PROVE  SnapshotsKeepIdentity'
<1> USE DEF SnapshotsKeepIdentity, run, disk
<1>t. DiskTypes /\ SnapshotsKeepIdentity
  BY Types DEF OwnedInv
<1>1. CASE sources' = sources
  BY <1>1, <1>t
<1>2. ASSUME NEW p \in Procs, InstallSnapshot(p) PROVE SnapshotsKeepIdentity'
  BY <1>2, <1>t DEF InstallSnapshot, DiskTypes
<1>3. CASE Tamper
  BY <1>3, <1>t DEF Tamper, DiskTypes
<1>4. ASSUME NEW p \in Procs, ~ InstallSnapshot(p),
             \/ CallPrepare(p) \/ CallCleanup(p) \/ LockSnapshot(p) \/ LockRun(p)
             \/ Prepare(p) \/ Cleanup(p) \/ UseBuild(p) \/ Stop(p)
      PROVE  sources' = sources
  BY <1>4 DEF CallPrepare, CallCleanup, LockSnapshot, LockRun, Prepare, Cleanup, UseBuild, Stop,
     CheckSnapshot, CopySource, Inspect, MakeRoot, WritePreparing, CheckBuild, DiscardBuild,
     CopyBuild, MakeDirectories, WriteSpec, WriteReady, CheckOwner, RemoveBuild,
     RemoveDirectories, RemoveRoot
<1> QED
  BY <1>1, <1>2, <1>3, <1>4 DEF Next, EditSource, vars

Acts(p) ==
    \/ CallPrepare(p) \/ CallCleanup(p) \/ LockSnapshot(p) \/ LockRun(p)
    \/ Prepare(p) \/ Cleanup(p) \/ UseBuild(p) \/ Stop(p)

\* A lock is held from its taking to its release or the end of the call, and
\* nobody else's step releases it.
LEMMA LocksKept ==
    ASSUME OwnedInv, NEW p \in Procs, Acts(p)
    PROVE  Others(p) /\ HoldsLocks(p)' /\ HasInputs(p)'
<1> USE DEF run, disk, locks, calls
<1>t. ControlTypes /\ DiskTypes /\ HoldsLocks(p) /\ HasInputs(p)
  BY Types DEF OwnedInv, CallsAreHeld
<1>u. UNCHANGED <<at, runLock, snapshotLock, spec, want, reply>> =>
        Others(p) /\ HoldsLocks(p)' /\ HasInputs(p)'
  BY <1>t DEF Others, HoldsLocks, HasInputs
<1>e. ASSUME NEW how \in {"none", "granted", "conflict", "failed"}, End(p, how)
      PROVE Others(p) /\ HoldsLocks(p)' /\ HasInputs(p)'
  BY <1>e, <1>t, EndEffect DEF HoldsLocks, HasInputs, InRun, InSnapshot, Building, Removing,
        Preparing, HasSnapshot
<1>r. ASSUME NEW where \in Steps, Continue(p, where), at[p] \in InRun, where \in InRun,
             where \in Preparing => at[p] \in Preparing
      PROVE Others(p) /\ HoldsLocks(p)' /\ HasInputs(p)'
  BY <1>r, <1>t, ContinueEffect DEF HoldsLocks, HasInputs, InRun, InSnapshot, Building, Removing
<1> USE DEF InRun, InSnapshot, Building, Removing, Preparing, HasSnapshot
<1>1. CASE CallPrepare(p)
  <2>1. PICK s \in Specs : spec' = [spec EXCEPT ![p] = s]
    BY <1>1 DEF CallPrepare
  <2>2. HoldsLocks(p)' /\ HasInputs(p)'
    BY <1>1, <2>1, <1>t DEF CallPrepare, Goto, HoldsLocks, HasInputs, ControlTypes, DiskTypes
  <2> QED
    BY <1>1, <2>2, <1>t, LockEffect
<1>2. CASE CallCleanup(p)
  <2>1. HoldsLocks(p)' /\ HasInputs(p)'
    BY <1>2, <1>t DEF CallCleanup, Goto, HoldsLocks, HasInputs, ControlTypes
  <2> QED
    BY <1>2, <2>1, <1>t, LockEffect
<1>3. CASE LockSnapshot(p)
  <2>1. HoldsLocks(p)' /\ HasInputs(p)'
    BY <1>3, <1>t DEF LockSnapshot, Goto, HoldsLocks, HasInputs, ControlTypes
  <2> QED
    BY <1>3, <2>1, <1>t, LockEffect
<1>4. CASE LockRun(p)
  <2>1. HoldsLocks(p)' /\ HasInputs(p)'
    BY <1>4, <1>t DEF LockRun, Goto, HoldsLocks, HasInputs, ControlTypes
  <2> QED
    BY <1>4, <2>1, <1>t, LockEffect
<1>5. CASE CheckSnapshot(p)
  BY <1>5, <1>e, <1>t, InputsAndLocks, ContinueEffect, UnlockEffect DEF
     CheckSnapshot, Steps, HoldsLocks, HasInputs
<1>6. CASE CopySource(p)
  BY <1>6, <1>t, InputsAndLocks, ContinueEffect DEF CopySource, Steps, HoldsLocks,
     HasInputs
<1>7. CASE InstallSnapshot(p)
  BY <1>7, <1>e, <1>t, InputsAndLocks, ContinueEffect, UnlockEffect DEF
     InstallSnapshot, Unstage, Steps, HoldsLocks, HasInputs
<1>8. CASE Inspect(p)
  BY <1>8, <1>e, <1>r DEF Inspect, Owned, Steps
<1>9. CASE MakeRoot(p)
  BY <1>9, <1>r DEF MakeRoot, Steps
<1>10. CASE WritePreparing(p)
  BY <1>10, <1>r DEF WritePreparing, Owned, Steps
<1>11. CASE CheckBuild(p)
  BY <1>11, <1>r DEF CheckBuild, Steps
<1>12. CASE DiscardBuild(p)
  BY <1>12, <1>r DEF DiscardBuild, Steps
<1>13. CASE CopyBuild(p)
  BY <1>13, <1>e, <1>r DEF CopyBuild, Steps
<1>14. CASE MakeDirectories(p)
  BY <1>14, <1>r DEF MakeDirectories, Steps
<1>15. CASE WriteSpec(p)
  BY <1>15, <1>e, <1>r DEF WriteSpec, Steps
<1>16. CASE WriteReady(p)
  BY <1>16, <1>e DEF WriteReady, Owned, Steps
<1>17. CASE CheckOwner(p)
  BY <1>17, <1>e, <1>r DEF CheckOwner, Steps
<1>18. CASE RemoveBuild(p)
  BY <1>18, <1>r DEF RemoveBuild, Steps
<1>19. CASE RemoveDirectories(p)
  BY <1>19, <1>r DEF RemoveDirectories, Steps
<1>20. CASE RemoveRoot(p)
  BY <1>20, <1>e, <1>r DEF RemoveRoot, Steps
<1>21. CASE UseBuild(p)
  BY <1>21, <1>u DEF UseBuild
<1>22. CASE Stop(p)
  BY <1>22, <1>e DEF Stop, Unstage, Steps
<1> QED
  BY <1>1, <1>2, <1>3, <1>4, <1>5, <1>6, <1>7, <1>8, <1>9, <1>10, <1>11, <1>12,
     <1>13, <1>14, <1>15, <1>16, <1>17, <1>18, <1>19, <1>20, <1>21, <1>22 DEF Acts,
     Prepare, Cleanup


\* A missing snapshot is installed by the holder of its lock only.
LEMMA MissingStaysMissing ==
    ASSUME OwnedInv, NEW p \in Procs, Acts(p), NEW q \in Procs
    PROVE  MayInstall(q)'
<1> USE DEF MayInstall, run, disk, locks, calls
<1>t. /\ ControlTypes /\ DiskTypes /\ Others(p) /\ MayInstall(q)
      /\ HoldsLocks(q) /\ HasInputs(q)
  BY Types, LocksKept DEF OwnedInv, CallsAreHeld
<1>s. ~ InstallSnapshot(p) => sources' = sources
  BY DEF Acts, CallPrepare, CallCleanup, LockSnapshot, LockRun, Prepare, Cleanup, UseBuild, Stop,
     CheckSnapshot, CopySource, Inspect, MakeRoot, WritePreparing, CheckBuild, DiscardBuild,
     CopyBuild, MakeDirectories, WriteSpec, WriteReady, CheckOwner, RemoveBuild,
     RemoveDirectories, RemoveRoot
<1>1. CASE q # p /\ ~ InstallSnapshot(p)
  BY <1>1, <1>s, <1>t DEF Others
<1>2. CASE q # p /\ InstallSnapshot(p)
  <2>1. /\ snapshotLock[want[p]] = p /\ want[p] \in Contents
        /\ at[q] \in {"copy source", "install"} => snapshotLock[want[q]] = q
    BY <1>2, <1>t, InputsAndLocks DEF InstallSnapshot, HoldsLocks, InSnapshot
  <2>2. at'[q] = at[q] /\ want'[q] = want[q]
    BY <1>2, <1>t DEF Others
  <2>3. at[q] \in {"copy source", "install"} /\ want[q] # want[p] =>
           sources'[want[q]] = sources[want[q]]
    BY <1>2, <1>t, InputsAndLocks DEF InstallSnapshot, DiskTypes
  <2> QED
    BY <1>2, <1>t, <2>1, <2>2, <2>3
<1>3. CASE q = p
  <2>1. CASE CheckSnapshot(p)
    <3>1. CASE sources[want[p]] = NoTree
      <4>1. Continue(p, "copy source") /\ UNCHANGED sources
        BY <2>1, <3>1 DEF CheckSnapshot
      <4> QED
        BY <4>1, <3>1, <1>3, <1>t, ContinueEffect DEF Steps
    <3>2. CASE sources[want[p]] # NoTree
      <4>1. at'[p] \in {"idle", "lock run"}
        BY <2>1, <3>2, <1>t DEF CheckSnapshot, End, UnlockSnapshot, Goto, ControlTypes
      <4> QED
        BY <4>1, <1>3
    <3> QED
      BY <3>1, <3>2
  <2>2. CASE CopySource(p)
    BY <1>3, <1>t, <2>2, ContinueEffect DEF CopySource, Steps
  <2>3. CASE ~ CheckSnapshot(p) /\ ~ CopySource(p)
    <3>1. CASE Prepare(p)
      BY <2>3, <3>1, <1>3, <1>t DEF Prepare, InstallSnapshot, Inspect, MakeRoot,
         WritePreparing, CheckBuild, DiscardBuild, CopyBuild, MakeDirectories, WriteSpec,
         WriteReady, Goto, Continue, UnlockSnapshot, End, ControlTypes
    <3>2. CASE Cleanup(p)
      BY <3>2, <1>3, <1>t DEF Cleanup, CheckOwner, RemoveBuild, RemoveDirectories, RemoveRoot,
         Goto, Continue, End, ControlTypes
    <3>3. CASE ~ Prepare(p) /\ ~ Cleanup(p)
      <4>1. UseBuild(p) => UNCHANGED <<at, sources, want>>
        BY DEF UseBuild
      <4> QED
        BY <2>3, <3>3, <4>1, <1>3, <1>t DEF Acts, CallPrepare, CallCleanup, LockSnapshot, LockRun,
           Stop, Goto, End, ControlTypes
    <3> QED
      BY <3>1, <3>2, <3>3
  <2> QED
    BY <2>1, <2>2, <2>3
<1> QED
  BY <1>1, <1>2, <1>3

-----------------------------------------------------------------------------
(* The run *)

\* Nobody else's step changes what the holder of the run has found.
LEMMA ProgressOfOthers ==
    ASSUME OwnedInv, NEW p \in Procs, Acts(p), NEW q \in Procs \ {p}
    PROVE  Progress(q)'
<1> USE DEF run, disk, locks, calls
<1>t. /\ DiskTypes /\ Others(p) /\ Progress(q) /\ HoldsLocks(p) /\ HoldsLocks(q)
      /\ Nobody \notin Procs
  BY Types, LocksKept, WorkspaceAssumption DEF OwnedInv, CallsAreHeld, RunIsKnown
<1>1. CASE at[q] \notin InRun
  BY <1>1, <1>t DEF Others, Progress, InRun, Building, Removing
<1>2. CASE at[q] \in InRun
  <2>1. runLock = q /\ at[p] \notin InRun
    BY <1>2, <1>t DEF HoldsLocks
  <2>2. UNCHANGED run \/ UseBuild(p)
    BY <2>1, <1>t DEF Acts, CallPrepare, CallCleanup, LockSnapshot, LockRun, Prepare, Cleanup,
       Stop, CheckSnapshot, CopySource, InstallSnapshot, Inspect, MakeRoot, WritePreparing,
       CheckBuild, DiscardBuild, CopyBuild, MakeDirectories, WriteSpec, WriteReady, CheckOwner,
       RemoveBuild, RemoveDirectories, RemoveRoot, InRun, Building, Removing
  <2>3. CASE UNCHANGED run
    BY <2>3, <1>t DEF Others, Progress, Owned
  <2>4. CASE UseBuild(p)
    BY <2>4, <1>t DEF UseBuild, Others, Progress, Owned
  <2> QED
    BY <2>2, <2>3, <2>4
<1> QED
  BY <1>1, <1>2

RunFacts ==
    /\ ~artifactRoot => descriptor = NoDescriptor /\ specFile = NoFile
    /\ descriptor.status = "ready" =>
          buildCopy \in {descriptor.snapshot, Used, Partial, NoTree}

\* Each step of a call finds the run as the steps before it left it.
LEMMA ProgressOfSelf ==
    ASSUME OwnedInv, NEW p \in Procs, Acts(p)
    PROVE  Progress(p)' /\ RunFacts'
<1> USE DEF run, disk, locks, calls
<1>t. /\ ControlTypes /\ DiskTypes /\ Progress(p) /\ RunFacts
      /\ at \in [Procs -> Steps] /\ artifactRoot \in BOOLEAN
      /\ descriptor \in Descriptor \cup {NoDescriptor}
  BY Types DEF OwnedInv, RunIsKnown, RunFacts, ControlTypes, DiskTypes
<1>1. CASE CallPrepare(p)
  BY <1>1, <1>t, InputsAndLocks DEF CallPrepare, Goto, Steps, Owned, Progress,
     RunFacts, Building
<1>2. CASE CallCleanup(p)
  BY <1>2, <1>t, InputsAndLocks DEF CallCleanup, Goto, Steps, Owned, Progress,
     RunFacts, Building
<1>3. CASE LockSnapshot(p)
  BY <1>3, <1>t, InputsAndLocks DEF LockSnapshot, Goto, Steps, Owned, Progress,
     RunFacts, Building
<1>4. CASE LockRun(p)
  BY <1>4, <1>t, InputsAndLocks DEF LockRun, Goto, Steps, Owned, Progress,
     RunFacts, Building
<1>5. CASE CheckSnapshot(p)
  BY <1>5, <1>t, InputsAndLocks, EndEffect, ContinueEffect, UnlockEffect DEF
     CheckSnapshot, Steps, Owned, Progress, RunFacts, Building
<1>6. CASE CopySource(p)
  BY <1>6, <1>t, InputsAndLocks, ContinueEffect DEF CopySource, Steps, Owned,
     Progress, RunFacts, Building
<1>7. CASE InstallSnapshot(p)
  BY <1>7, <1>t, InputsAndLocks, EndEffect, ContinueEffect, UnlockEffect DEF
     InstallSnapshot, Unstage, Steps, Owned, Progress, RunFacts, Building
<1>8. CASE Inspect(p)
  <2>1. UNCHANGED run
    BY <1>8 DEF Inspect
  <2>2. CASE \E how \in {"conflict", "granted", "failed"} : End(p, how)
    BY <2>1, <2>2, <1>t, EndEffect DEF Progress, RunFacts, Building
  <2>3. CASE Continue(p, "write preparing")
    <3>1. /\ artifactRoot /\ descriptor \in {Owned(p, "preparing"), Owned(p, "ready")}
          /\ descriptor.status = "preparing"
      BY <1>8, <2>3, <1>t DEF Inspect, Continue, Goto, End
    <3>2. descriptor = Owned(p, "preparing")
      BY <3>1 DEF Owned
    <3> QED
      BY <2>1, <2>3, <3>1, <3>2, <1>t, ContinueEffect DEF Steps, Progress, RunFacts, Building, Owned
  <2>4. CASE Continue(p, "make root")
    <3>1. ~artifactRoot
      BY <1>8, <2>4, <1>t DEF Inspect, Continue, Goto, End
    <3> QED
      BY <2>1, <2>4, <3>1, <1>t, ContinueEffect DEF Steps, Progress, RunFacts, Building
  <2> QED
    BY <1>8, <2>2, <2>3, <2>4 DEF Inspect
<1>9. CASE MakeRoot(p)
  BY <1>9, <1>t, InputsAndLocks, ContinueEffect DEF MakeRoot, Steps, Owned,
     Progress, RunFacts, Building
<1>10. CASE WritePreparing(p)
  BY <1>10, <1>t, InputsAndLocks, ContinueEffect DEF WritePreparing, Owned, Steps,
     Progress, RunFacts, Building
<1>11. CASE CheckBuild(p)
  BY <1>11, <1>t, InputsAndLocks, ContinueEffect DEF CheckBuild, Steps, Owned,
     Progress, RunFacts, Building
<1>12. CASE DiscardBuild(p)
  BY <1>12, <1>t, InputsAndLocks, ContinueEffect DEF DiscardBuild, Steps, Owned,
     Progress, RunFacts, Building
<1>13. CASE CopyBuild(p)
  <2>1. descriptor = Owned(p, "preparing") /\ artifactRoot
    BY <1>13, <1>t DEF CopyBuild, Progress, Building
  <2>2. descriptor.status # "ready" /\ UNCHANGED <<artifactRoot, descriptor, specFile>>
    BY <1>13, <2>1 DEF CopyBuild, Owned
  <2>3. CASE End(p, "conflict")
    BY <2>1, <2>2, <2>3, <1>t, EndEffect DEF Progress, RunFacts, Building
  <2>4. CASE Continue(p, "make directories") /\ buildCopy' = want[p]
    BY <2>1, <2>2, <2>4, <1>t, ContinueEffect DEF Steps, Progress, RunFacts, Building, Owned
  <2> QED
    BY <1>13, <2>3, <2>4 DEF CopyBuild
<1>14. CASE MakeDirectories(p)
  BY <1>14, <1>t, InputsAndLocks, ContinueEffect DEF MakeDirectories, Steps,
     Owned, Progress, RunFacts, Building
<1>15. CASE WriteSpec(p)
  BY <1>15, <1>t, InputsAndLocks, EndEffect, ContinueEffect DEF WriteSpec, Steps,
     Owned, Progress, RunFacts, Building
<1>16. CASE WriteReady(p)
  BY <1>16, <1>t, InputsAndLocks, EndEffect DEF WriteReady, Owned, Steps,
     Progress, RunFacts, Building
<1>17. CASE CheckOwner(p)
  BY <1>17, <1>t, InputsAndLocks, EndEffect, ContinueEffect DEF CheckOwner, Steps,
     Owned, Progress, RunFacts, Building
<1>18. CASE RemoveBuild(p)
  BY <1>18, <1>t, InputsAndLocks, ContinueEffect DEF RemoveBuild, Steps, Owned,
     Progress, RunFacts, Building
<1>19. CASE RemoveDirectories(p)
  BY <1>19, <1>t, InputsAndLocks, ContinueEffect DEF RemoveDirectories, Steps,
     Owned, Progress, RunFacts, Building
<1>20. CASE RemoveRoot(p)
  <2>1. descriptor' \in {descriptor, NoDescriptor} /\ UNCHANGED buildCopy
    BY <1>20 DEF RemoveRoot
  <2>2. at'[p] \in {"idle", "remove root"}
    BY <1>20, <1>t, EndEffect, ContinueEffect DEF RemoveRoot, Steps
  <2>3. Progress(p)'
    BY <2>2 DEF Progress, Building
  <2>4. RunFacts'
    <3>1. descriptor'.status = "ready" => descriptor' = descriptor
      BY <2>1 DEF NoDescriptor
    <3>2. \/ UNCHANGED artifactRoot /\ (descriptor # NoDescriptor \/ specFile # NoFile)
          \/ descriptor' = NoDescriptor /\ specFile' = NoFile
      BY <1>20 DEF RemoveRoot
    <3> QED
      BY <2>1, <3>1, <3>2, <1>t DEF RunFacts
  <2> QED
    BY <2>3, <2>4
<1>21. CASE UseBuild(p)
  BY <1>21, <1>t, InputsAndLocks DEF UseBuild, Steps, Owned, Progress, RunFacts,
     Building
<1>22. CASE Stop(p)
  BY <1>22, <1>t, InputsAndLocks, EndEffect DEF Stop, Unstage, Steps, Owned,
     Progress, RunFacts, Building
<1> QED
  BY <1>1, <1>2, <1>3, <1>4, <1>5, <1>6, <1>7, <1>8, <1>9, <1>10, <1>11, <1>12,
     <1>13, <1>14, <1>15, <1>16, <1>17, <1>18, <1>19, <1>20, <1>21, <1>22 DEF Acts,
     Prepare, Cleanup


LEMMA OwnedStep == OwnedInv /\ [Next]_vars => OwnedInv'
<1> SUFFICES ASSUME OwnedInv, [Next]_vars PROVE OwnedInv'
  OBVIOUS
<1>1. TypeOK' /\ SnapshotsKeepIdentity'
  BY TypesKept, IdentityKept
<1>2. ASSUME NEW p \in Procs, Acts(p)
      PROVE  CallsAreHeld' /\ RunIsKnown'
  <2>1. ASSUME NEW q \in Procs PROVE HoldsLocks(q)' /\ HasInputs(q)' /\ MayInstall(q)'
    <3>1. CASE q = p
      BY <1>2, <3>1, LocksKept, MissingStaysMissing
    <3>2. CASE q # p
      <4>1. HoldsLocks(q) /\ HasInputs(q) /\ ControlTypes
        BY Types DEF OwnedInv, CallsAreHeld
      <4>2. HoldsLocks(q)' /\ HasInputs(q)'
        <5>1. Others(p) /\ (at[q] \in InSnapshot => want[q] \in Contents)
          BY <1>2, <4>1, LocksKept DEF HasInputs, Preparing
        <5>2. /\ at'[q] = at[q] /\ spec'[q] = spec[q] /\ want'[q] = want[q]
              /\ reply'[q] = reply[q]
              /\ runLock' = q <=> runLock = q
              /\ \A c \in Contents : snapshotLock[c] = q => snapshotLock'[c] = q
          BY <3>2, <5>1 DEF Others
        <5> QED
          BY <4>1, <5>1, <5>2 DEF HoldsLocks, HasInputs
      <4> QED
        BY <1>2, <4>2, MissingStaysMissing
    <3> QED
      BY <3>1, <3>2
  <2>2. \A q \in Procs : Progress(q)'
    BY <1>2, ProgressOfOthers, ProgressOfSelf
  <2>3. RunFacts'
    BY <1>2, ProgressOfSelf
  <2> QED
    BY <2>1, <2>2, <2>3 DEF CallsAreHeld, RunIsKnown, RunFacts
<1>3. CASE EditSource \/ Tamper
  <2>1. /\ UNCHANGED <<run, locks, at, spec, want, reply>>
        /\ \A c \in Contents : sources[c] = NoTree => sources'[c] = NoTree
    BY <1>3, Types DEF EditSource, Tamper, calls, OwnedInv, DiskTypes
  <2>2. CallsAreHeld'
    BY <2>1 DEF OwnedInv, CallsAreHeld, HoldsLocks, HasInputs, MayInstall, locks,
       Preparing, InSnapshot
  <2>3. RunIsKnown'
    BY <2>1 DEF OwnedInv, RunIsKnown, Progress, Owned, run
  <2> QED
    BY <2>2, <2>3, <1>1 DEF OwnedInv
<1>4. CASE UNCHANGED vars
  BY <1>4, <1>1 DEF vars, disk, run, locks, calls, OwnedInv, CallsAreHeld, HoldsLocks, HasInputs,
     MayInstall, RunIsKnown, Progress, Owned
<1> QED
  BY <1>1, <1>2, <1>3, <1>4 DEF Next, Acts, OwnedInv

LEMMA InitOwned == Init => OwnedInv
<1> SUFFICES ASSUME Init PROVE OwnedInv
  OBVIOUS
<1>1. TypeOK
  <2>1. DiskTypes
    <3>1. incidents \in 0 .. MaxIncidents
      BY WorkspaceAssumption DEF Init
    <3>2. source \in Contents /\ sources \in [Contents -> Contents \cup {NoTree, Tampered}]
      BY DEF Init
    <3>3. /\ buildCopy \in Contents \cup {NoTree, Partial, Used}
          /\ directories \in SUBSET Directories /\ artifactRoot \in BOOLEAN
          /\ descriptor \in Descriptor \cup {NoDescriptor}
          /\ specFile \in Specs \cup {NoFile}
          /\ staging \in [Procs -> Contents \cup {NoTree}]
      BY DEF Init
    <3> QED
      BY <3>1, <3>2, <3>3 DEF DiskTypes
  <2>2. ControlTypes
    <3>1. snapshotLock \in [Contents -> Procs \cup {Nobody}] /\ runLock \in Procs \cup {Nobody}
      BY DEF Init
    <3>2. at \in [Procs -> Steps]
      BY DEF Init, Steps
    <3>3. /\ spec \in [Procs -> Specs \cup {NoFile}] /\ want \in [Procs -> Contents \cup {NoTree}]
          /\ reply \in [Procs -> {"none", "granted", "conflict", "failed"}]
      BY DEF Init
    <3> QED
      BY <3>1, <3>2, <3>3 DEF ControlTypes
  <2> QED
    BY <2>1, <2>2, Types
<1>2. SnapshotsKeepIdentity
  BY DEF Init, SnapshotsKeepIdentity
<1>3. CallsAreHeld
  BY WorkspaceAssumption DEF Init, CallsAreHeld, HoldsLocks, HasInputs, MayInstall, InRun, InSnapshot, Building,
     Removing, Preparing, HasSnapshot
<1>4. RunIsKnown
  BY DEF Init, RunIsKnown, Progress, Building, NoDescriptor
<1> QED
  BY <1>1, <1>2, <1>3, <1>4 DEF OwnedInv

LEMMA OwnedAlways == Spec => []OwnedInv
  BY InitOwned, OwnedStep, PTL DEF Spec

-----------------------------------------------------------------------------
(* The quiet time: nothing has happened from outside *)

LEMMA Undisturbed ==
    ASSUME OwnedInv, NEW p \in Procs, Acts(p), incidents' = 0
    PROVE  incidents = 0 /\ source' = source /\ ~ Stop(p)
<1>1. ~ Stop(p)
  BY Types, IncidentHappens DEF Stop, OwnedInv
<1> QED
  BY <1>1 DEF Acts, CallPrepare, CallCleanup, LockSnapshot, LockRun, Prepare, Cleanup, UseBuild,
     CheckSnapshot, CopySource, InstallSnapshot, Inspect, MakeRoot, WritePreparing, CheckBuild,
     DiscardBuild, CopyBuild, MakeDirectories, WriteSpec, WriteReady, CheckOwner, RemoveBuild,
     RemoveDirectories, RemoveRoot, disk

\* While a call holds the run, the others are outside of it.
LEMMA Alone ==
    ASSUME OwnedInv, NEW p \in Procs, Acts(p), at[p] \in InRun
    PROVE  \A q \in Procs \ {p} : at[q] \notin InRun /\ at'[q] \notin InRun
<1>1. Others(p)
  BY LocksKept
<1>2. \A q \in Procs : runLock = q <=> at[q] \in InRun
  BY DEF OwnedInv, CallsAreHeld, HoldsLocks
<1> QED
  BY <1>1, <1>2 DEF Others

\* The steps of a call that does not hold the run.
LEMMA OutsideRun ==
    ASSUME OwnedInv, NEW p \in Procs, Acts(p), at[p] \notin InRun
    PROVE  /\ UNCHANGED <<directories, artifactRoot, descriptor, specFile>>
           /\ buildCopy' \in {buildCopy, Used}
           /\ at'[p] \notin Removing \cup {"write preparing"}
<1> DEFINE Goal == /\ UNCHANGED <<directories, artifactRoot, descriptor, specFile>>
                   /\ buildCopy' \in {buildCopy, Used}
                   /\ at'[p] \notin Removing \cup {"write preparing"}
<1> SUFFICES Goal
  OBVIOUS
<1>t. ControlTypes
  BY Types DEF OwnedInv
<1> USE DEF disk, run, locks, InRun, Building, Removing
<1>1. CASE CallPrepare(p)
  BY <1>1, <1>t DEF CallPrepare, Goto, ControlTypes
<1>2. CASE CallCleanup(p)
  BY <1>2, <1>t DEF CallCleanup, Goto, ControlTypes
<1>3. CASE LockSnapshot(p)
  BY <1>3, <1>t DEF LockSnapshot, Goto, ControlTypes
<1>4. CASE LockRun(p)
  BY <1>4, <1>t DEF LockRun, Goto, ControlTypes
<1>5. CASE CheckSnapshot(p)
  BY <1>5, <1>t, InputsAndLocks, EndEffect, ContinueEffect, UnlockEffect DEF
     CheckSnapshot, Steps
<1>6. CASE CopySource(p)
  BY <1>6, <1>t, ContinueEffect DEF CopySource, Goto, ControlTypes, Steps
<1>7. CASE InstallSnapshot(p)
  BY <1>7, <1>t, InputsAndLocks, EndEffect, UnlockEffect DEF InstallSnapshot
<1>8. CASE Inspect(p)
  BY <1>8 DEF Inspect
<1>9. CASE MakeRoot(p)
  BY <1>9 DEF MakeRoot
<1>10. CASE WritePreparing(p)
  BY <1>10 DEF WritePreparing
<1>11. CASE CheckBuild(p)
  BY <1>11 DEF CheckBuild
<1>12. CASE DiscardBuild(p)
  BY <1>12 DEF DiscardBuild
<1>13. CASE CopyBuild(p)
  BY <1>13 DEF CopyBuild
<1>14. CASE MakeDirectories(p)
  BY <1>14 DEF MakeDirectories
<1>15. CASE WriteSpec(p)
  BY <1>15 DEF WriteSpec
<1>16. CASE WriteReady(p)
  BY <1>16 DEF WriteReady
<1>17. CASE CheckOwner(p)
  BY <1>17 DEF CheckOwner
<1>18. CASE RemoveBuild(p)
  BY <1>18 DEF RemoveBuild
<1>19. CASE RemoveDirectories(p)
  BY <1>19 DEF RemoveDirectories
<1>20. CASE RemoveRoot(p)
  BY <1>20 DEF RemoveRoot
<1>21. CASE UseBuild(p)
  BY <1>21 DEF UseBuild
<1>22. CASE Stop(p)
  BY <1>22, <1>t, EndEffect DEF Stop
<1> QED
  BY <1>1, <1>2, <1>3, <1>4, <1>5, <1>6, <1>7, <1>8, <1>9, <1>10, <1>11, <1>12,
     <1>13, <1>14, <1>15, <1>16, <1>17, <1>18, <1>19, <1>20, <1>21, <1>22 DEF Acts,
     Prepare, Cleanup


OwnSources(p) ==
    /\ at[p] \in Preparing => want[p] = source
    /\ at[p] \in HasSnapshot => sources[want[p]] = want[p]
    /\ at[p] = "install" => staging[p] = want[p]

\* What a call knows of the source and of its snapshot.
LEMMA OwnSourcesKept ==
    ASSUME OwnedInv, NEW p \in Procs, OwnSources(p), Acts(p), ~ InstallSnapshot(p), ~ Stop(p),
           UNCHANGED <<source, sources>>
    PROVE  OwnSources(p)'
<1>t. ControlTypes /\ DiskTypes /\ HasInputs(p)
  BY Types DEF OwnedInv, CallsAreHeld
<1>e. ASSUME NEW how \in {"none", "granted", "conflict", "failed"}, End(p, how)
      PROVE  OwnSources(p)'
  BY <1>e, <1>t, EndEffect DEF OwnSources, Preparing, HasSnapshot, InSnapshot, Building
<1>r. ASSUME NEW where \in Steps, Continue(p, where), where # "install",
             where \in Preparing => at[p] \in Preparing,
             where \in HasSnapshot => at[p] \in HasSnapshot
      PROVE  OwnSources(p)'
  BY <1>r, <1>t, ContinueEffect DEF OwnSources
<1> USE DEF InSnapshot, Building, Removing, Preparing, HasSnapshot, Steps
<1>1. CASE CallPrepare(p)
  BY <1>1, <1>t DEF CallPrepare, Goto, ControlTypes, OwnSources, calls
<1>2. CASE CallCleanup(p)
  BY <1>2, <1>t DEF CallCleanup, Goto, ControlTypes, OwnSources, calls
<1>3. CASE LockSnapshot(p)
  BY <1>3, <1>t DEF LockSnapshot, Goto, ControlTypes, OwnSources, calls
<1>4. CASE LockRun(p)
  BY <1>4, <1>t DEF LockRun, Goto, ControlTypes, OwnSources, calls
<1>5. CASE CheckSnapshot(p)
  <2>1. CASE sources[want[p]] = NoTree
    BY <1>5, <2>1, <1>r DEF CheckSnapshot
  <2>2. CASE sources[want[p]] = want[p] /\ sources[want[p]] # NoTree
    <3>1. at'[p] = "lock run" /\ UNCHANGED want
      BY <1>5, <2>2, <1>t, InputsAndLocks, UnlockEffect DEF CheckSnapshot
    <3> QED
      BY <1>5, <2>2, <3>1 DEF CheckSnapshot, OwnSources
  <2>3. CASE sources[want[p]] \notin {NoTree, want[p]}
    BY <1>5, <2>3, <1>e DEF CheckSnapshot
  <2> QED
    BY <2>1, <2>2, <2>3
<1>6. CASE CopySource(p)
  <2>1. /\ at'[p] = "install" /\ UNCHANGED want
        /\ staging' = [staging EXCEPT ![p] = source]
    BY <1>6, <1>t, ContinueEffect DEF CopySource
  <2> QED
    BY <1>6, <2>1, <1>t DEF CopySource, OwnSources, DiskTypes
<1>7. CASE InstallSnapshot(p)
  BY <1>7
<1>8. CASE Inspect(p)
  BY <1>8, <1>e, <1>r DEF Inspect, Owned
<1>9. CASE MakeRoot(p)
  BY <1>9, <1>r DEF MakeRoot
<1>10. CASE WritePreparing(p)
  BY <1>10, <1>r DEF WritePreparing, Owned
<1>11. CASE CheckBuild(p)
  BY <1>11, <1>r DEF CheckBuild
<1>12. CASE DiscardBuild(p)
  BY <1>12, <1>r DEF DiscardBuild
<1>13. CASE CopyBuild(p)
  BY <1>13, <1>e, <1>r DEF CopyBuild
<1>14. CASE MakeDirectories(p)
  BY <1>14, <1>r DEF MakeDirectories
<1>15. CASE WriteSpec(p)
  BY <1>15, <1>e, <1>r DEF WriteSpec
<1>16. CASE WriteReady(p)
  BY <1>16, <1>e DEF WriteReady, Owned
<1>17. CASE CheckOwner(p)
  BY <1>17, <1>e, <1>r DEF CheckOwner
<1>18. CASE RemoveBuild(p)
  BY <1>18, <1>r DEF RemoveBuild
<1>19. CASE RemoveDirectories(p)
  BY <1>19, <1>r DEF RemoveDirectories
<1>20. CASE RemoveRoot(p)
  BY <1>20, <1>e, <1>r DEF RemoveRoot
<1>21. CASE UseBuild(p)
  BY <1>21, <1>t DEF UseBuild, OwnSources, calls
<1>22. CASE Stop(p)
  BY <1>22
<1> QED
  BY <1>1, <1>2, <1>3, <1>4, <1>5, <1>6, <1>7, <1>8, <1>9, <1>10, <1>11, <1>12,
     <1>13, <1>14, <1>15, <1>16, <1>17, <1>18, <1>19, <1>20, <1>21, <1>22 DEF Acts,
     Prepare, Cleanup


LEMMA QuietSourcesKept ==
    ASSUME OwnedInv, QuietSources, NEW p \in Procs, Acts(p), incidents' = 0
    PROVE  QuietSources'
<1>t. /\ ControlTypes /\ DiskTypes /\ Others(p) /\ source' = source /\ ~ Stop(p)
      /\ HasInputs(p) /\ MayInstall(p)
  BY Types, LocksKept, Undisturbed DEF OwnedInv, CallsAreHeld
<1>i. CASE InstallSnapshot(p)
  <2>1. staging[p] = want[p] /\ want[p] \in Contents /\ sources[want[p]] = NoTree
    BY <1>i, InputsAndLocks, <1>t DEF InstallSnapshot, QuietSources, MayInstall
  <2>2. /\ sources' = [sources EXCEPT ![want[p]] = want[p]] /\ UnlockSnapshot(p)
        /\ staging' = [staging EXCEPT ![p] = NoTree]
    BY <1>i, <2>1 DEF InstallSnapshot, Unstage
  <2>3. at'[p] = "lock run" /\ want' = want
    BY <2>1, <2>2, <1>i, <1>t, InputsAndLocks, UnlockEffect DEF InstallSnapshot
  <2>4. \A c \in Contents : sources'[c] \in {NoTree, c}
    BY <2>2, <1>t DEF QuietSources, DiskTypes
  <2>5. want[p] = source
    BY <1>i DEF QuietSources, InstallSnapshot, Preparing, InSnapshot
  <2>6. sources'[want[p]] = want[p]
    BY <2>1, <2>2, <1>t DEF DiskTypes
  <2>7. ASSUME NEW q \in Procs \ {p}
        PROVE  /\ at'[q] \in Preparing => want'[q] = source'
               /\ at'[q] \in HasSnapshot => sources'[want'[q]] = want'[q]
               /\ at'[q] = "install" => staging'[q] = want'[q]
    <3>1. at'[q] = at[q] /\ want'[q] = want[q] /\ staging'[q] = staging[q]
      BY <2>2, <1>t DEF Others, DiskTypes
    <3>2. at[q] \in HasSnapshot => want[q] = want[p]
      BY <2>5 DEF QuietSources, Preparing
    <3> QED
      BY <3>1, <3>2, <2>6, <1>t DEF QuietSources
  <2> QED
    BY <2>3, <2>4, <2>5, <2>6, <2>7, <1>t DEF QuietSources
<1>n. CASE ~ InstallSnapshot(p)
  <2>1. sources' = sources
    BY <1>n, <1>t DEF Acts, CallPrepare, CallCleanup, LockSnapshot, LockRun, Prepare, Cleanup,
       UseBuild, CheckSnapshot, CopySource, Inspect, MakeRoot, WritePreparing, CheckBuild,
       DiscardBuild, CopyBuild, MakeDirectories, WriteSpec, WriteReady, CheckOwner, RemoveBuild,
       RemoveDirectories, RemoveRoot, disk, run
  <2>2. \A q \in Procs \ {p} : staging'[q] = staging[q]
    BY <1>n, <1>t DEF Acts, CallPrepare, CallCleanup, LockSnapshot, LockRun, Prepare, Cleanup,
       UseBuild, CheckSnapshot, CopySource, Inspect, MakeRoot, WritePreparing, CheckBuild,
       DiscardBuild, CopyBuild, MakeDirectories, WriteSpec, WriteReady, CheckOwner, RemoveBuild,
       RemoveDirectories, RemoveRoot, calls, DiskTypes
  <2>3. OwnSources(p)'
    <3>1. OwnSources(p)
      BY DEF QuietSources, OwnSources
    <3> QED
      BY <1>n, <2>1, <3>1, <1>t, OwnSourcesKept
  <2> QED
    BY <2>1, <2>2, <2>3, <1>t DEF QuietSources, Others, OwnSources
<1> QED
  BY <1>i, <1>n

\* What holds of the run while p holds it, or nobody.
RunWith(p) ==
    /\ artifactRoot =>
          \/ descriptor # NoDescriptor
          \/ at[p] \in {"write preparing", "remove root"}
    /\ ~artifactRoot => directories = {}
    /\ descriptor # NoDescriptor => specFile \in {NoFile, descriptor.spec}
    /\ descriptor.status = "ready" =>
          \/ /\ buildCopy # NoTree /\ directories = Directories
             /\ specFile = descriptor.spec
          \/ at[p] \in Removing
    /\ at[p] = "write preparing" /\ descriptor = NoDescriptor => specFile = NoFile
    /\ at[p] = "remove root" => directories = {}

LEMMA RunWithHolder ==
    ASSUME QuietRun, NEW p \in Procs, \A q \in Procs \ {p} : at[q] \notin InRun
    PROVE  RunWith(p)
  BY DEF QuietRun, RunWith, InRun, Removing

LEMMA HeldRunActs ==
    ASSUME NEW p \in Procs, Acts(p), at[p] \in InRun, ~ Stop(p)
    PROVE  Inspect(p) \/ MakeRoot(p) \/ WritePreparing(p) \/ CheckBuild(p) \/ DiscardBuild(p)
             \/ CopyBuild(p) \/ MakeDirectories(p) \/ WriteSpec(p) \/ WriteReady(p) \/ Cleanup(p)
  BY DEF Acts, InRun, Building, Removing, CallPrepare, CallCleanup, LockSnapshot, LockRun,
     Prepare, UseBuild, CheckSnapshot, CopySource, InstallSnapshot

LEMMA RunWithKept ==
    ASSUME OwnedInv, NEW p \in Procs, RunWith(p), Acts(p), at[p] \in InRun, ~ Stop(p)
    PROVE  RunWith(p)'
<1>t. ControlTypes /\ DiskTypes /\ HasInputs(p) /\ Progress(p) /\ RunIsKnown
  BY Types DEF OwnedInv, CallsAreHeld, RunIsKnown
<1>e. ASSUME NEW how \in {"none", "granted", "conflict", "failed"}, End(p, how), UNCHANGED run,
             descriptor.status = "ready" => at[p] \notin Removing,
             artifactRoot => at[p] \notin {"write preparing", "remove root"}
      PROVE  RunWith(p)'
  <2>1. at'[p] = "idle"
    BY <1>e, <1>t, EndEffect
  <2> QED
    BY <1>e, <2>1 DEF RunWith, run
<1>b. ASSUME at[p] \in Building, at'[p] \in Building \cup {"idle"},
             UNCHANGED <<artifactRoot, descriptor, spec>>, specFile' \in {specFile, spec[p]}
      PROVE  RunWith(p)'
  <2>1. descriptor = Owned(p, "preparing") /\ artifactRoot
    BY <1>b, <1>t DEF Progress
  <2>2. descriptor # NoDescriptor /\ descriptor.status # "ready" /\ descriptor.spec = spec[p]
    BY <2>1, OwnedStatus DEF Owned
  <2>3. specFile' \in {NoFile, descriptor.spec} /\ at'[p] \notin {"write preparing", "remove root"}
    BY <1>b, <2>2 DEF RunWith, Building
  <2> QED
    BY <1>b, <2>1, <2>2, <2>3 DEF RunWith
<1> USE DEF Building, Removing, Steps
<1>1. CASE Inspect(p)
  <2>1. UNCHANGED run /\ at[p] = "inspect"
    BY <1>1 DEF Inspect, disk
  <2>2. CASE artifactRoot /\ descriptor = Owned(p, "preparing")
    <3>1. Continue(p, "write preparing")
      BY <1>1, <2>2, OwnedStatus DEF Inspect
    <3> QED
      BY <2>1, <2>2, <3>1, <1>t, ContinueEffect, OwnedStatus DEF RunWith, run
  <2>3. CASE ~artifactRoot /\ buildCopy = NoTree /\ directories = {}
    <3>1. Continue(p, "make root")
      BY <1>1, <2>3 DEF Inspect
    <3>2. descriptor = NoDescriptor /\ specFile = NoFile /\ NoDescriptor.status = "none"
      BY <2>3, <1>t DEF RunIsKnown, NoDescriptor
    <3> QED
      BY <2>1, <2>3, <3>1, <3>2, <1>t, ContinueEffect DEF RunWith, run
  <2>4. CASE /\ ~ (artifactRoot /\ descriptor = Owned(p, "preparing"))
             /\ ~ (~artifactRoot /\ buildCopy = NoTree /\ directories = {})
    <3>1. \E how \in {"granted", "conflict", "failed"} : End(p, how)
      BY <1>1, <2>4, OwnedStatus DEF Inspect
    <3> QED
      BY <2>1, <3>1, <1>e
  <2> QED
    BY <2>2, <2>3, <2>4
<1>2. CASE MakeRoot(p)
  <2>1. descriptor = NoDescriptor /\ specFile = NoFile
    BY <1>2, <1>t DEF MakeRoot, Progress, RunIsKnown
  <2>2. /\ at'[p] = "write preparing" /\ artifactRoot'
        /\ UNCHANGED <<descriptor, buildCopy, directories, specFile>>
    BY <1>2, <1>t, ContinueEffect DEF MakeRoot
  <2>3. NoDescriptor.status = "none"
    BY DEF NoDescriptor
  <2> QED
    BY <2>1, <2>2, <2>3 DEF RunWith
<1>3. CASE WritePreparing(p)
  <2>1. /\ artifactRoot /\ descriptor \in {NoDescriptor, Owned(p, "preparing")}
        /\ specFile \in {NoFile, spec[p]}
    <3>1. at[p] = "write preparing"
      BY <1>3 DEF WritePreparing
    <3>2. artifactRoot /\ descriptor \in {NoDescriptor, Owned(p, "preparing")}
      BY <3>1, <1>t DEF Progress
    <3>3. Owned(p, "preparing").spec = spec[p]
      BY DEF Owned
    <3> QED
      BY <3>1, <3>2, <3>3, OwnedStatus DEF RunWith
  <2>2. /\ at'[p] = "check build" /\ descriptor' = Owned(p, "preparing")
        /\ UNCHANGED <<artifactRoot, buildCopy, directories, specFile>>
    BY <1>3, <1>t, ContinueEffect DEF WritePreparing
  <2>3. Owned(p, "preparing").spec = spec[p]
    BY DEF Owned
  <2> QED
    BY <2>1, <2>2, <2>3, OwnedStatus DEF RunWith
<1>4. CASE CheckBuild(p)
  <2>1. at'[p] \in Building \cup {"idle"} /\ at[p] \in Building
    BY <1>4, <1>t, EndEffect, ContinueEffect DEF CheckBuild
  <2>2. UNCHANGED <<artifactRoot, descriptor, specFile>>
    BY <1>4 DEF CheckBuild
  <2>3. UNCHANGED spec
    BY <1>4 DEF CheckBuild, Continue
  <2> QED
    BY <2>1, <2>2, <2>3, <1>b
<1>5. CASE DiscardBuild(p)
  <2>1. at'[p] \in Building \cup {"idle"} /\ at[p] \in Building
    BY <1>5, <1>t, EndEffect, ContinueEffect DEF DiscardBuild
  <2>2. UNCHANGED <<artifactRoot, descriptor, specFile>>
    BY <1>5 DEF DiscardBuild
  <2>3. UNCHANGED spec
    BY <1>5 DEF DiscardBuild, Continue
  <2> QED
    BY <2>1, <2>2, <2>3, <1>b
<1>6. CASE CopyBuild(p)
  <2>1. CASE sources[want[p]] = want[p]
    BY <1>6, <2>1, <1>t, <1>b, ContinueEffect DEF CopyBuild
  <2>2. CASE sources[want[p]] # want[p]
    <3>1. End(p, "conflict") /\ UNCHANGED run
      BY <1>6, <2>2 DEF CopyBuild, run
    <3> QED
      BY <1>6, <3>1, <1>t, <1>e, OwnedStatus DEF CopyBuild, Progress
  <2> QED
    BY <2>1, <2>2
<1>7. CASE MakeDirectories(p)
  <2>1. at'[p] \in Building \cup {"idle"} /\ at[p] \in Building
    BY <1>7, <1>t, EndEffect, ContinueEffect DEF MakeDirectories
  <2>2. UNCHANGED <<artifactRoot, descriptor, specFile>>
    BY <1>7 DEF MakeDirectories
  <2>3. UNCHANGED spec
    BY <1>7 DEF MakeDirectories, Continue
  <2> QED
    BY <2>1, <2>2, <2>3, <1>b
<1>8. CASE WriteSpec(p)
  <2>1. CASE specFile \in {NoFile, spec[p]}
    <3>1. Continue(p, "write ready") /\ specFile' = spec[p]
      BY <1>8, <2>1 DEF WriteSpec
    <3> QED
      BY <1>8, <3>1, <1>t, <1>b, ContinueEffect DEF WriteSpec
  <2>2. CASE specFile \notin {NoFile, spec[p]}
    <3>1. End(p, "conflict") /\ UNCHANGED run
      BY <1>8, <2>2 DEF WriteSpec, run
    <3> QED
      BY <1>8, <3>1, <1>t, <1>e, OwnedStatus DEF WriteSpec, Progress
  <2> QED
    BY <2>1, <2>2
<1>9. CASE WriteReady(p)
  <2>1. /\ artifactRoot /\ buildCopy \in {want[p], Used} /\ directories = Directories
        /\ specFile = spec[p] /\ want[p] \in Contents
    BY <1>9, <1>t, InputsAndLocks DEF WriteReady, Progress
  <2>2. /\ at'[p] = "idle" /\ descriptor' = Owned(p, "ready")
        /\ UNCHANGED <<artifactRoot, buildCopy, directories, specFile>>
    BY <1>9, <1>t, EndEffect DEF WriteReady
  <2>3. Owned(p, "ready").spec = spec[p]
    BY DEF Owned
  <2>4. buildCopy # NoTree
    BY <2>1, WorkspaceAssumption DEF Used, NoTree
  <2> QED
    BY <2>1, <2>2, <2>3, <2>4, OwnedStatus DEF RunWith
<1>10. CASE CheckOwner(p)
  <2>1. UNCHANGED run /\ at[p] = "check owner"
    BY <1>10 DEF CheckOwner, disk
  <2>2. CASE NothingThere \/ descriptor = NoDescriptor
    <3>1. End(p, "none") \/ End(p, "conflict")
      BY <1>10, <2>2 DEF CheckOwner
    <3> QED
      BY <2>1, <3>1, <1>e
  <2>3. CASE ~NothingThere /\ descriptor # NoDescriptor
    <3>1. at'[p] = "remove build"
      BY <1>10, <2>3, <1>t, ContinueEffect DEF CheckOwner
    <3> QED
      BY <2>1, <2>3, <3>1 DEF RunWith, run
  <2> QED
    BY <2>2, <2>3
<1>11. CASE RemoveBuild(p)
  <2>1. /\ at'[p] \in {"remove build", "remove directories"}
        /\ descriptor # NoDescriptor
        /\ UNCHANGED <<directories, artifactRoot, descriptor, specFile>>
    BY <1>11, <1>t, ContinueEffect DEF RemoveBuild, Progress
  <2> QED
    BY <2>1 DEF RunWith
<1>12. CASE RemoveDirectories(p)
  <2>1. /\ at'[p] \in {"remove directories", "remove root"}
        /\ at'[p] = "remove root" => directories' = {}
        /\ descriptor # NoDescriptor
        /\ UNCHANGED <<buildCopy, artifactRoot, descriptor, specFile>>
    BY <1>12, <1>t, ContinueEffect DEF RemoveDirectories, Progress
  <2>2. directories' \subseteq directories
    BY <1>12 DEF RemoveDirectories
  <2> QED
    BY <2>1, <2>2 DEF RunWith
<1>13. CASE RemoveRoot(p)
  <2>1. directories = {} /\ UNCHANGED <<buildCopy, directories>>
    BY <1>13 DEF RemoveRoot, RunWith
  <2>2. NoDescriptor.status = "none"
    BY DEF NoDescriptor
  <2>3. CASE descriptor # NoDescriptor /\ descriptor' = NoDescriptor /\ Continue(p, "remove root")
             /\ UNCHANGED <<specFile, artifactRoot>>
    BY <2>1, <2>2, <2>3, <1>t, ContinueEffect DEF RunWith
  <2>4. CASE specFile' = NoFile /\ Continue(p, "remove root")
             /\ UNCHANGED <<descriptor, artifactRoot>>
    BY <2>1, <2>4, <1>t, ContinueEffect DEF RunWith
  <2>5. CASE /\ descriptor = NoDescriptor /\ artifactRoot' = FALSE /\ End(p, "none")
             /\ UNCHANGED <<descriptor, specFile>>
    BY <2>1, <2>2, <2>5, <1>t, EndEffect DEF RunWith
  <2> QED
    BY <1>13, <2>3, <2>4, <2>5 DEF RemoveRoot
<1> QED
  BY <1>1, <1>2, <1>3, <1>4, <1>5, <1>6, <1>7, <1>8, <1>9, <1>10, <1>11, <1>12,
     <1>13, HeldRunActs DEF Cleanup


LEMMA QuietRunKept ==
    ASSUME OwnedInv, QuietRun, NEW p \in Procs, Acts(p), ~ Stop(p)
    PROVE  QuietRun'
<1>1. Others(p)
  BY LocksKept
<1>2. CASE at[p] \in InRun
  <2>1. \A q \in Procs \ {p} : at[q] \notin InRun /\ at'[q] \notin InRun
    BY <1>2, Alone
  <2>2. RunWith(p)'
    BY <1>2, <2>1, RunWithHolder, RunWithKept
  <2> QED
    BY <2>1, <2>2 DEF QuietRun, RunWith, InRun, Removing
<1>3. CASE at[p] \notin InRun
  <2>1. /\ UNCHANGED <<directories, artifactRoot, descriptor, specFile>>
        /\ buildCopy' \in {buildCopy, Used}
        /\ at'[p] \notin Removing \cup {"write preparing"}
        /\ at[p] \notin Removing \cup {"write preparing"}
    BY <1>3, OutsideRun DEF InRun
  <2>2. \A q \in Procs : at[q] \in Removing \cup {"write preparing"} => at'[q] = at[q]
    BY <1>1, <2>1 DEF Others
  <2>3. \A q \in Procs : at'[q] \in Removing \cup {"write preparing"} => at'[q] = at[q]
    BY <1>1, <2>1 DEF Others
  <2> QED
    BY <2>1, <2>2, <2>3 DEF QuietRun, Removing, Used, NoTree
<1> QED
  BY <1>2, <1>3

LEMMA QuietKept ==
    ASSUME WorkspaceInv, [Next]_vars
    PROVE  Quiet'
<1> SUFFICES ASSUME incidents' = 0 PROVE QuietSources' /\ QuietRun'
  BY DEF Quiet
<1>1. CASE UNCHANGED vars
  BY <1>1 DEF vars, disk, run, calls, WorkspaceInv, Quiet, QuietSources, QuietRun
<1>2. ASSUME NEW p \in Procs, Acts(p) PROVE QuietSources' /\ QuietRun'
  <2>1. incidents = 0 /\ ~ Stop(p)
    BY <1>2, Undisturbed DEF WorkspaceInv
  <2> QED
    BY <1>2, <2>1, QuietSourcesKept, QuietRunKept DEF WorkspaceInv, Quiet
<1>3. CASE EditSource \/ Tamper
  BY <1>3, Types, IncidentHappens DEF EditSource, Tamper, WorkspaceInv, OwnedInv
<1> QED
  BY <1>1, <1>2, <1>3 DEF Next, Acts

LEMMA InitQuiet == Init => Quiet
  BY DEF Init, Quiet, QuietSources, QuietRun, Preparing, InSnapshot, HasSnapshot, Building,
     NoDescriptor

LEMMA WorkspaceAlways == Spec => []WorkspaceInv
<1>1. Init => WorkspaceInv
  BY InitOwned, InitQuiet DEF WorkspaceInv
<1>2. WorkspaceInv /\ [Next]_vars => WorkspaceInv'
  BY OwnedStep, QuietKept DEF WorkspaceInv
<1> QED
  BY <1>1, <1>2, PTL DEF Spec

-----------------------------------------------------------------------------
(* The promises *)

\* The types hold.
THEOREM TypeCorrect == Spec => []TypeOK
<1>1. OwnedInv => TypeOK
  BY DEF OwnedInv
<1> QED
  BY <1>1, OwnedAlways, PTL

\* A snapshot that nobody tampered with holds the tree it is named after.
THEOREM SnapshotIdentity == Spec => []SnapshotsKeepIdentity
<1>1. OwnedInv => SnapshotsKeepIdentity
  BY DEF OwnedInv
<1> QED
  BY <1>1, OwnedAlways, PTL

\* Only the caller's own step answers it.
LEMMA Answering ==
    ASSUME OwnedInv, [Next]_vars, NEW p \in Procs,
           NEW how \in {"granted", "conflict", "failed"}, Answered(p, how)
    PROVE  Acts(p) /\ reply[p] = "none" /\ reply'[p] = how
<1>1. at[p] # "idle" /\ reply[p] = "none" /\ reply'[p] = how
  BY DEF Answered, OwnedInv, CallsAreHeld, HasInputs
<1>2. UNCHANGED reply => FALSE
  BY <1>1
<1>3. ASSUME NEW q \in Procs \ {p}, Acts(q) PROVE FALSE
  BY <1>3, <1>1, LocksKept DEF Others
<1> QED
  BY <1>1, <1>2, <1>3 DEF Next, Acts, EditSource, Tamper, vars

\* Only the two places that return an allocation grant the run.
LEMMA Granting ==
    ASSUME OwnedInv, NEW p \in Procs, Acts(p), Answered(p, "granted")
    PROVE  \/ WriteReady(p)
           \/ /\ at[p] = "inspect" /\ artifactRoot /\ UNCHANGED run
              /\ descriptor = Owned(p, "ready") /\ ValidReady(p)
<1> DEFINE Goal == \/ WriteReady(p)
                   \/ /\ at[p] = "inspect" /\ artifactRoot /\ UNCHANGED run
                      /\ descriptor = Owned(p, "ready") /\ ValidReady(p)
<1> USE DEF disk, locks
<1>t. ControlTypes /\ DiskTypes /\ at[p] # "idle" /\ reply[p] = "none" /\ reply'[p] = "granted"
  BY Types DEF OwnedInv, CallsAreHeld, HasInputs, Answered
<1>e. ASSUME NEW how \in {"none", "conflict", "failed"}, End(p, how) PROVE FALSE
  BY <1>e, <1>t, EndEffect DEF ControlTypes
<1>c. ASSUME UNCHANGED reply PROVE FALSE
  BY <1>c, <1>t
<1>k. ASSUME NEW where, Continue(p, where) PROVE FALSE
  BY <1>k, <1>c DEF Continue
<1> SUFFICES Goal
  OBVIOUS
<1>1. CASE CallPrepare(p)
  BY <1>1, <1>t DEF CallPrepare
<1>2. CASE CallCleanup(p)
  BY <1>2, <1>t DEF CallCleanup
<1>3. CASE LockSnapshot(p)
  BY <1>3, <1>c DEF LockSnapshot
<1>4. CASE LockRun(p)
  BY <1>4, <1>c DEF LockRun
<1>5. CASE CheckSnapshot(p)
  BY <1>5, <1>e, <1>k, <1>c DEF CheckSnapshot, UnlockSnapshot
<1>6. CASE CopySource(p)
  BY <1>6, <1>k DEF CopySource
<1>7. CASE InstallSnapshot(p)
  BY <1>7, <1>e, <1>k, <1>c DEF InstallSnapshot, UnlockSnapshot
<1>8. CASE Inspect(p)
  <2>1. UNCHANGED run /\ at[p] = "inspect"
    BY <1>8 DEF Inspect
  <2>2. \/ artifactRoot /\ descriptor = Owned(p, "ready") /\ ValidReady(p)
        \/ End(p, "conflict") \/ End(p, "failed")
        \/ Continue(p, "write preparing") \/ Continue(p, "make root")
    <3>1. CASE ~artifactRoot
      BY <1>8, <3>1 DEF Inspect
    <3>2. CASE artifactRoot /\ descriptor \notin {Owned(p, "preparing"), Owned(p, "ready")}
      BY <1>8, <3>2 DEF Inspect
    <3>3. CASE artifactRoot /\ descriptor = Owned(p, "preparing")
      BY <1>8, <3>3, OwnedStatus DEF Inspect
    <3>4. CASE artifactRoot /\ descriptor = Owned(p, "ready")
      BY <1>8, <3>4, OwnedStatus DEF Inspect
    <3> QED
      BY <3>1, <3>2, <3>3, <3>4
  <2> QED
    BY <2>1, <2>2, <1>e, <1>k
<1>9. CASE MakeRoot(p)
  BY <1>9, <1>k DEF MakeRoot
<1>10. CASE WritePreparing(p)
  BY <1>10, <1>k DEF WritePreparing
<1>11. CASE CheckBuild(p)
  BY <1>11, <1>k DEF CheckBuild
<1>12. CASE DiscardBuild(p)
  BY <1>12, <1>k DEF DiscardBuild
<1>13. CASE CopyBuild(p)
  BY <1>13, <1>e, <1>k DEF CopyBuild
<1>14. CASE MakeDirectories(p)
  BY <1>14, <1>k DEF MakeDirectories
<1>15. CASE WriteSpec(p)
  BY <1>15, <1>e, <1>k DEF WriteSpec
<1>16. CASE WriteReady(p)
  BY <1>16
<1>17. CASE CheckOwner(p)
  BY <1>17, <1>e, <1>k DEF CheckOwner
<1>18. CASE RemoveBuild(p)
  BY <1>18, <1>k DEF RemoveBuild
<1>19. CASE RemoveDirectories(p)
  BY <1>19, <1>k DEF RemoveDirectories
<1>20. CASE RemoveRoot(p)
  BY <1>20, <1>e, <1>k DEF RemoveRoot
<1>21. CASE UseBuild(p)
  BY <1>21, <1>t DEF UseBuild
<1>22. CASE Stop(p)
  BY <1>22, <1>e DEF Stop
<1> QED
  BY <1>1, <1>2, <1>3, <1>4, <1>5, <1>6, <1>7, <1>8, <1>9, <1>10, <1>11, <1>12,
     <1>13, <1>14, <1>15, <1>16, <1>17, <1>18, <1>19, <1>20, <1>21, <1>22 DEF Acts,
     Prepare, Cleanup


\* Whoever is given the run finds the descriptor, the resolved spec and the
\* directories of its own inputs (_create_or_reuse_run).
THEOREM GrantsAreOwned == Spec => GrantIsOwned
<1> DEFINE Granted(p) ==
      Answered(p, "granted") =>
         /\ artifactRoot' /\ descriptor' = Owned(p, "ready")
         /\ specFile' = spec[p] /\ directories' = Directories
         /\ \/ buildCopy' \in {want[p], Used}
            \/ buildCopy' = Partial /\ descriptor.status = "ready"
<1>1. ASSUME OwnedInv, [Next]_vars
      PROVE  \A p \in Procs : Granted(p)
  <2> TAKE p \in Procs
  <2>t. HasInputs(p) /\ HoldsLocks(p) /\ Progress(p) /\ RunIsKnown /\ ControlTypes
    BY <1>1, Types DEF OwnedInv, CallsAreHeld, RunIsKnown
  <2> SUFFICES ASSUME Answered(p, "granted") PROVE Granted(p)
    OBVIOUS
  <2>2. Acts(p)
    BY <1>1, Answering
  <2>3. CASE WriteReady(p)
    <3>1. /\ artifactRoot /\ buildCopy \in {want[p], Used} /\ directories = Directories
          /\ specFile = spec[p]
      BY <2>3, <2>t DEF WriteReady, Progress, Building
    <3>2. /\ descriptor' = Owned(p, "ready")
          /\ UNCHANGED <<artifactRoot, buildCopy, directories, specFile>>
      BY <2>3 DEF WriteReady
    <3> QED
      BY <3>1, <3>2
  <2>4. CASE /\ at[p] = "inspect" /\ artifactRoot /\ UNCHANGED run
             /\ descriptor = Owned(p, "ready") /\ ValidReady(p)
    <3>1. descriptor.status = "ready" /\ descriptor.snapshot = want[p]
      BY <2>4 DEF Owned
    <3>2. buildCopy \in {want[p], Used, Partial}
      BY <2>4, <2>t, <3>1 DEF RunIsKnown, ValidReady
    <3> QED
      BY <2>4, <3>1, <3>2 DEF ValidReady, run
  <2> QED
    BY <2>2, <2>3, <2>4, <1>1, Granting
<1> QED
  BY <1>1, OwnedAlways, PTL DEF Spec, GrantIsOwned

\* Only a preparation that resumes or a cleanup touches what a client built.
LEMMA BuildChanges ==
    ASSUME NEW p \in Procs, Acts(p), buildCopy = Used, buildCopy' # Used
    PROVE  at[p] \in Building \/ at[p] = "remove build"
<1>1. UseBuild(p) \/ UNCHANGED buildCopy => FALSE
  BY DEF UseBuild
<1> QED
  BY <1>1 DEF Acts, CallPrepare, CallCleanup, LockSnapshot, LockRun, Prepare, Cleanup, Stop,
     CheckSnapshot, CopySource, InstallSnapshot, Inspect, MakeRoot, WritePreparing, CheckBuild,
     DiscardBuild, CopyBuild, MakeDirectories, WriteSpec, WriteReady, CheckOwner, RemoveBuild,
     RemoveDirectories, RemoveRoot, disk, run, Building

\* What the client of a ready run did to its build copy is removed by a
\* cleanup only, and never where no descriptor says whose it is (cleanup_run).
THEOREM WorkStays == Spec => WorkIsKept
<1> DEFINE Kept ==
      buildCopy = Used /\ buildCopy' # Used =>
         /\ descriptor # NoDescriptor
         /\ \/ descriptor.status = "preparing"
            \/ \E p \in Procs : at[p] = "remove build"
<1>1. ASSUME OwnedInv, [Next]_vars PROVE Kept
  <2> SUFFICES ASSUME buildCopy = Used, buildCopy' # Used PROVE Kept
    OBVIOUS
  <2>1. PICK p \in Procs : Acts(p)
    BY <1>1 DEF Next, Acts, EditSource, Tamper, vars, disk, run
  <2>2. at[p] \in Building \/ at[p] = "remove build"
    BY <2>1, BuildChanges
  <2>3. Progress(p)
    BY <1>1 DEF OwnedInv, RunIsKnown
  <2>4. at[p] \in Building => descriptor.status = "preparing" /\ descriptor # NoDescriptor
    BY <2>3, OwnedStatus DEF Progress
  <2> QED
    BY <2>2, <2>3, <2>4 DEF Progress
<1> QED
  BY <1>1, OwnedAlways, PTL DEF Spec, WorkIsKept

OwnershipStep == Ownership!Claim \/ Ownership!Complete \/ Ownership!Release

\* Which steps change the descriptor.
LEMMA DescriptorChanges ==
    ASSUME NEW p \in Procs, Acts(p), ~ WritePreparing(p), ~ WriteReady(p), ~ RemoveRoot(p)
    PROVE  UNCHANGED descriptor
  BY DEF Acts, CallPrepare, CallCleanup, LockSnapshot, LockRun, Prepare, Cleanup, UseBuild, Stop,
     CheckSnapshot, CopySource, InstallSnapshot, Inspect, MakeRoot, CheckBuild, DiscardBuild,
     CopyBuild, MakeDirectories, WriteSpec, CheckOwner, RemoveBuild, RemoveDirectories, disk, run

\* The descriptor makes the identifier of the run belong to the inputs that
\* claimed it, until a cleanup releases it.
THEOREM ImplementsOwnership == Spec => ImplementsRunOwnership
<1> DEFINE owner == IF descriptor = NoDescriptor THEN NoDescriptor
                    ELSE [spec |-> descriptor.spec, snapshot |-> descriptor.snapshot]
           ready == descriptor.status = "ready"
<1>1. Init => Ownership!Init
  BY DEF Init, Ownership!Init, NoDescriptor
<1>2. ASSUME OwnedInv, [Next]_vars
      PROVE  OwnershipStep \/ UNCHANGED <<owner, ready>>
  <2>1. CASE UNCHANGED descriptor
    BY <2>1
  <2>2. ASSUME NEW p \in Procs, WritePreparing(p)
        PROVE  OwnershipStep \/ UNCHANGED <<owner, ready>>
    <3>1. /\ descriptor \in {NoDescriptor, Owned(p, "preparing")}
          /\ descriptor' = Owned(p, "preparing")
          /\ spec[p] \in Specs /\ want[p] \in Contents
      BY <2>2, <1>2, InputsAndLocks DEF WritePreparing, OwnedInv, RunIsKnown, Progress
    <3>2. CASE descriptor = NoDescriptor
      BY <3>1, <3>2 DEF OwnershipStep, Ownership!Claim, Owned, NoDescriptor
    <3>3. CASE descriptor = Owned(p, "preparing")
      BY <3>1, <3>3
    <3> QED
      BY <3>1, <3>2, <3>3
  <2>3. ASSUME NEW p \in Procs, WriteReady(p)
        PROVE  OwnershipStep \/ UNCHANGED <<owner, ready>>
    <3>1. descriptor = Owned(p, "preparing") /\ descriptor' = Owned(p, "ready")
      BY <2>3, <1>2 DEF WriteReady, OwnedInv, RunIsKnown, Progress, Building
    <3> QED
      BY <3>1 DEF OwnershipStep, Ownership!Complete, Owned, NoDescriptor
  <2>4. ASSUME NEW p \in Procs, RemoveRoot(p)
        PROVE  OwnershipStep \/ UNCHANGED <<owner, ready>>
    <3>1. UNCHANGED descriptor \/ (descriptor # NoDescriptor /\ descriptor' = NoDescriptor)
      BY <2>4 DEF RemoveRoot
    <3>2. descriptor \in Descriptor \cup {NoDescriptor}
      BY <1>2, Types DEF OwnedInv, DiskTypes
    <3> QED
      BY <3>1, <3>2 DEF OwnershipStep, Ownership!Release, NoDescriptor, Descriptor
  <2>5. ASSUME NEW p \in Procs, Acts(p)
        PROVE  OwnershipStep \/ UNCHANGED <<owner, ready>>
    BY <2>1, <2>2, <2>3, <2>4, <2>5, DescriptorChanges
  <2> QED
    BY <1>2, <2>1, <2>5 DEF Next, Acts, EditSource, Tamper, vars, disk, run
<1> QED
  BY <1>1, <1>2, OwnedAlways, PTL
     DEF Spec, ImplementsRunOwnership, Ownership!Spec, Ownership!ownershipVars, OwnershipStep

\* In the quiet time no step of a call fails.
LEMMA NothingFails ==
    ASSUME WorkspaceInv, NEW p \in Procs, Acts(p), incidents' = 0, Answered(p, "failed")
    PROVE  FALSE
<1>t. /\ ControlTypes /\ DiskTypes /\ OwnedInv /\ at[p] # "idle"
      /\ reply[p] = "none" /\ reply'[p] = "failed" /\ ~ Stop(p) /\ incidents = 0
      /\ MayInstall(p) /\ Progress(p) /\ QuietRun
  BY Types, Undisturbed DEF WorkspaceInv, OwnedInv, CallsAreHeld, HasInputs, Answered, RunIsKnown,
     Quiet
<1>e. ASSUME NEW how \in {"none", "granted", "conflict"}, End(p, how) PROVE FALSE
  BY <1>e, <1>t, EndEffect DEF ControlTypes
<1>c. ASSUME UNCHANGED reply PROVE FALSE
  BY <1>c, <1>t
<1>k. ASSUME NEW where, Continue(p, where) PROVE FALSE
  BY <1>k, <1>c DEF Continue
<1>1. CASE CallPrepare(p)
  BY <1>1, <1>t DEF CallPrepare
<1>2. CASE CallCleanup(p)
  BY <1>2, <1>t DEF CallCleanup
<1>3. CASE LockSnapshot(p)
  BY <1>3, <1>c DEF LockSnapshot
<1>4. CASE LockRun(p)
  BY <1>4, <1>c DEF LockRun
<1>5. CASE CheckSnapshot(p)
  BY <1>5, <1>e, <1>k, <1>c DEF CheckSnapshot, UnlockSnapshot
<1>6. CASE CopySource(p)
  BY <1>6, <1>k DEF CopySource
<1>7. CASE InstallSnapshot(p)
  <2>1. sources[want[p]] = NoTree
    BY <1>7, <1>t DEF InstallSnapshot, MayInstall
  <2>2. End(p, "conflict") \/ UnlockSnapshot(p)
    BY <1>7, <2>1 DEF InstallSnapshot
  <2> QED
    BY <2>2, <1>e, <1>c DEF UnlockSnapshot
<1>8. CASE Inspect(p)
  <2>1. at[p] = "inspect" /\ RunWith(p)
    BY <1>8, <1>t, Alone, RunWithHolder DEF Inspect, InRun
  <2>2. CASE artifactRoot /\ descriptor = Owned(p, "ready")
    <3>1. buildCopy # NoTree /\ directories = Directories /\ specFile = descriptor.spec
      BY <2>1, <2>2, OwnedStatus DEF RunWith, Removing
    <3>2. ValidReady(p)
      BY <3>1, <2>2 DEF ValidReady, Owned
    <3> QED
      BY <1>8, <2>2, <3>2, OwnedStatus, <1>e DEF Inspect
  <2>3. CASE artifactRoot /\ descriptor = Owned(p, "preparing")
    BY <1>8, <2>3, OwnedStatus, <1>k DEF Inspect
  <2>4. CASE artifactRoot /\ descriptor \notin {Owned(p, "preparing"), Owned(p, "ready")}
    BY <1>8, <2>4, <1>e DEF Inspect
  <2>5. CASE ~artifactRoot
    BY <1>8, <2>5, <1>e, <1>k DEF Inspect
  <2> QED
    BY <2>2, <2>3, <2>4, <2>5
<1>9. CASE MakeRoot(p)
  BY <1>9, <1>k DEF MakeRoot
<1>10. CASE WritePreparing(p)
  BY <1>10, <1>k DEF WritePreparing
<1>11. CASE CheckBuild(p)
  BY <1>11, <1>k DEF CheckBuild
<1>12. CASE DiscardBuild(p)
  BY <1>12, <1>k DEF DiscardBuild
<1>13. CASE CopyBuild(p)
  BY <1>13, <1>e, <1>k DEF CopyBuild
<1>14. CASE MakeDirectories(p)
  BY <1>14, <1>k DEF MakeDirectories
<1>15. CASE WriteSpec(p)
  BY <1>15, <1>e, <1>k DEF WriteSpec
<1>16. CASE WriteReady(p)
  BY <1>16, <1>e DEF WriteReady
<1>17. CASE CheckOwner(p)
  BY <1>17, <1>e, <1>k DEF CheckOwner
<1>18. CASE RemoveBuild(p)
  BY <1>18, <1>k DEF RemoveBuild
<1>19. CASE RemoveDirectories(p)
  BY <1>19, <1>k DEF RemoveDirectories
<1>20. CASE RemoveRoot(p)
  BY <1>20, <1>e, <1>k DEF RemoveRoot
<1>21. CASE UseBuild(p)
  BY <1>21, <1>t DEF UseBuild
<1>22. CASE Stop(p)
  BY <1>22, <1>t
<1> QED
  BY <1>1, <1>2, <1>3, <1>4, <1>5, <1>6, <1>7, <1>8, <1>9, <1>10, <1>11, <1>12,
     <1>13, <1>14, <1>15, <1>16, <1>17, <1>18, <1>19, <1>20, <1>21, <1>22 DEF Acts,
     Prepare, Cleanup


\* In the quiet time a call is refused because of what there is of the run.
LEMMA RefusedForTheRun ==
    ASSUME WorkspaceInv, NEW p \in Procs, Acts(p), incidents' = 0, Answered(p, "conflict")
    PROVE  \/ descriptor # NoDescriptor /\ Theirs(p)
           \/ ~artifactRoot /\ buildCopy # NoTree
<1>t. /\ ControlTypes /\ DiskTypes /\ OwnedInv /\ at[p] # "idle"
      /\ reply[p] = "none" /\ reply'[p] = "conflict" /\ ~ Stop(p) /\ incidents = 0
      /\ MayInstall(p) /\ Progress(p) /\ QuietRun /\ QuietSources
  BY Types, Undisturbed DEF WorkspaceInv, OwnedInv, CallsAreHeld, HasInputs, Answered, RunIsKnown,
     Quiet
<1>e. ASSUME NEW how \in {"none", "granted", "failed"}, End(p, how) PROVE FALSE
  BY <1>e, <1>t, EndEffect DEF ControlTypes
<1>c. ASSUME UNCHANGED reply PROVE FALSE
  BY <1>c, <1>t
<1>k. ASSUME NEW where, Continue(p, where) PROVE FALSE
  BY <1>k, <1>c DEF Continue
<1> DEFINE Goal == \/ descriptor # NoDescriptor /\ Theirs(p)
                   \/ ~artifactRoot /\ buildCopy # NoTree
<1> SUFFICES Goal
  OBVIOUS
<1>1. CASE CallPrepare(p)
  BY <1>1, <1>t DEF CallPrepare
<1>2. CASE CallCleanup(p)
  BY <1>2, <1>t DEF CallCleanup
<1>3. CASE LockSnapshot(p)
  BY <1>3, <1>c DEF LockSnapshot
<1>4. CASE LockRun(p)
  BY <1>4, <1>c DEF LockRun
<1>5. CASE CheckSnapshot(p)
  <2>1. sources[want[p]] \in {NoTree, want[p]}
    BY <1>5, <1>t, InputsAndLocks DEF CheckSnapshot, QuietSources
  <2>2. Continue(p, "copy source") \/ UnlockSnapshot(p)
    BY <1>5, <2>1 DEF CheckSnapshot
  <2> QED
    BY <2>2, <1>k, <1>c DEF UnlockSnapshot
<1>6. CASE CopySource(p)
  BY <1>6, <1>k DEF CopySource
<1>7. CASE InstallSnapshot(p)
  <2>1. staging[p] = want[p]
    BY <1>7, <1>t DEF InstallSnapshot, QuietSources
  <2>2. End(p, "failed") \/ UnlockSnapshot(p)
    BY <1>7, <2>1 DEF InstallSnapshot
  <2> QED
    BY <2>2, <1>e, <1>c DEF UnlockSnapshot
<1>8. CASE Inspect(p)
  <2>1. at[p] = "inspect" /\ RunWith(p)
    BY <1>8, <1>t, Alone, RunWithHolder DEF Inspect, InRun
  <2>2. CASE artifactRoot /\ descriptor \in {Owned(p, "preparing"), Owned(p, "ready")}
    BY <1>8, <2>2, <1>e, <1>k DEF Inspect
  <2>3. CASE artifactRoot /\ descriptor \notin {Owned(p, "preparing"), Owned(p, "ready")}
    <3>1. descriptor \in Descriptor
      BY <2>1, <2>3, <1>t DEF RunWith, DiskTypes
    <3>2. Theirs(p)
      BY <3>1, <2>3 DEF Theirs, Owned, Descriptor
    <3> QED
      BY <2>1, <2>3, <3>2 DEF RunWith
  <2>4. CASE ~artifactRoot
    BY <1>8, <2>1, <2>4, <1>e, <1>k DEF Inspect, RunWith
  <2> QED
    BY <2>2, <2>3, <2>4
<1>9. CASE MakeRoot(p)
  BY <1>9, <1>k DEF MakeRoot
<1>10. CASE WritePreparing(p)
  BY <1>10, <1>k DEF WritePreparing
<1>11. CASE CheckBuild(p)
  BY <1>11, <1>k DEF CheckBuild
<1>12. CASE DiscardBuild(p)
  BY <1>12, <1>k DEF DiscardBuild
<1>13. CASE CopyBuild(p)
  <2>1. sources[want[p]] = want[p]
    BY <1>13, <1>t DEF CopyBuild, QuietSources, HasSnapshot, Building
  <2> QED
    BY <1>13, <2>1, <1>k DEF CopyBuild
<1>14. CASE MakeDirectories(p)
  BY <1>14, <1>k DEF MakeDirectories
<1>15. CASE WriteSpec(p)
  <2>1. at[p] = "write spec" /\ RunWith(p)
    BY <1>15, <1>t, Alone, RunWithHolder DEF WriteSpec, InRun, Building
  <2>2. descriptor = Owned(p, "preparing")
    BY <2>1, <1>t DEF Progress, Building
  <2>3. specFile \in {NoFile, spec[p]}
    BY <2>1, <2>2, OwnedStatus DEF RunWith, Owned
  <2> QED
    BY <1>15, <2>3, <1>k DEF WriteSpec
<1>16. CASE WriteReady(p)
  BY <1>16, <1>e DEF WriteReady
<1>17. CASE CheckOwner(p)
  <2>1. at[p] = "check owner" /\ RunWith(p)
    BY <1>17, <1>t, Alone, RunWithHolder DEF CheckOwner, InRun
  <2>2. ~NothingThere /\ descriptor = NoDescriptor
    BY <1>17, <1>e, <1>k DEF CheckOwner
  <2> QED
    BY <2>1, <2>2 DEF RunWith, NothingThere
<1>18. CASE RemoveBuild(p)
  BY <1>18, <1>k DEF RemoveBuild
<1>19. CASE RemoveDirectories(p)
  BY <1>19, <1>k DEF RemoveDirectories
<1>20. CASE RemoveRoot(p)
  BY <1>20, <1>e, <1>k DEF RemoveRoot
<1>21. CASE UseBuild(p)
  BY <1>21, <1>t DEF UseBuild
<1>22. CASE Stop(p)
  BY <1>22, <1>t
<1> QED
  BY <1>1, <1>2, <1>3, <1>4, <1>5, <1>6, <1>7, <1>8, <1>9, <1>10, <1>11, <1>12,
     <1>13, <1>14, <1>15, <1>16, <1>17, <1>18, <1>19, <1>20, <1>21, <1>22 DEF Acts,
     Prepare, Cleanup


\* As long as nothing happens from outside, no call fails, and a call is
\* refused only because the run belongs to other inputs or its directory to
\* nobody (snapshot_local_source, create_run, cleanup_run).
THEOREM QuietRefusals == Spec => UndisturbedRefusalsAreReal
<1> DEFINE Real ==
      incidents' = 0 => \A p \in Procs :
         /\ ~Answered(p, "failed")
         /\ Answered(p, "conflict") =>
              \/ descriptor # NoDescriptor /\ Theirs(p)
              \/ ~artifactRoot /\ buildCopy # NoTree
<1>1. ASSUME WorkspaceInv, [Next]_vars PROVE Real
  <2> SUFFICES ASSUME incidents' = 0, NEW p \in Procs
               PROVE  /\ ~Answered(p, "failed")
                      /\ Answered(p, "conflict") =>
                           \/ descriptor # NoDescriptor /\ Theirs(p)
                           \/ ~artifactRoot /\ buildCopy # NoTree
    OBVIOUS
  <2>1. Answered(p, "failed") \/ Answered(p, "conflict") => Acts(p)
    BY <1>1, Answering DEF WorkspaceInv
  <2> QED
    BY <1>1, <2>1, NothingFails, RefusedForTheRun
<1> QED
  BY <1>1, WorkspaceAlways, PTL DEF Spec, UndisturbedRefusalsAreReal

=============================================================================
