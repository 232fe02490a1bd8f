-------------------------- MODULE RunJournalProofs --------------------------
(***************************************************************************)
(* Theorems about a RunJournal used by any client, for every set of paths. *)
(***************************************************************************)
EXTENDS RunJournal, TLAPS

-----------------------------------------------------------------------------
(* Facts about sequences. *)

\* A sequence is a prefix of itself: a manifest just projected from an intact
\* history replays the log.
LEMMA PrefixReflexive ==
    ASSUME NEW S, NEW s \in Seq(S)
    PROVE  IsPrefix(s, s)
  BY DEF IsPrefix

\* Appending a line to the log keeps every prefix of it.
LEMMA PrefixAppend ==
    ASSUME NEW S, NEW s \in Seq(S), NEW t \in Seq(S), NEW e \in S, IsPrefix(s, t)
    PROVE  IsPrefix(s, Append(t, e))
<1>1. Len(s) <= Len(t) /\ SubSeq(s, 1, Len(s)) = SubSeq(t, 1, Len(s))
  BY DEF IsPrefix
<1>2. Len(s) \in Nat /\ Len(t) \in Nat /\ Len(Append(t, e)) = Len(t) + 1
  OBVIOUS
<1>3. SubSeq(Append(t, e), 1, Len(s)) = SubSeq(t, 1, Len(s))
  BY <1>1, <1>2
<1> QED
  BY <1>1, <1>2, <1>3 DEF IsPrefix

-----------------------------------------------------------------------------
(* Type correctness. *)

\* Whatever is appended, the history and the log stay sequences of events.
LEMMA AppendEventType ==
    ASSUME TypeOK, NEW from \in WorkflowState \cup {"none"},
           NEW to \in WorkflowState, NEW io, AppendEvent(from, to, io)
    PROVE  events' \in Seq(Event) /\ log' \in Seq(Event) /\ torn' \in BOOLEAN
<1> DEFINE e == [seq |-> Len(events), from |-> from, to |-> to]
<1>1. events \in Seq(Event) /\ log \in Seq(Event) /\ torn \in BOOLEAN
  BY DEF TypeOK
<1>2. e \in Event
  BY <1>1 DEF Event
<1>3. Append(events, e) \in Seq(Event) /\ Append(log, e) \in Seq(Event)
  BY <1>1, <1>2
<1> QED
  BY <1>1, <1>3 DEF AppendEvent

\* The manifest on disk is the old one or a projection of typed memory.
LEMMA PersistType ==
    ASSUME TypeOK, NEW io, PersistManifest(io),
           state' \in WorkflowState, status' \in {"running", "completed", "failed"},
           events' \in Seq(Event), artifacts' \in Seq(ArtifactRecord)
    PROVE  /\ manifest' \in [state : WorkflowState,
                       status : {"none", "running", "completed", "failed"},
                       events : Seq(Event), artifacts : Seq(ArtifactRecord)]
           /\ exc' \in {"none", "evitriage", "validation", "oserror"}
<1>1. Projection' \in [state : WorkflowState,
                       status : {"none", "running", "completed", "failed"},
                       events : Seq(Event), artifacts : Seq(ArtifactRecord)]
  BY DEF Projection
<1> QED
  BY <1>1 DEF PersistManifest, Error, TypeOK

\* Registration keeps memory and disk typed.
LEMMA RegisterType ==
    ASSUME TypeOK, NEW p \in Paths, NEW d \in Contents, NEW io, Register(p, d, io)
    PROVE  /\ UNCHANGED <<mode, state, status, events>>
           /\ artifacts' \in Seq(ArtifactRecord)
           /\ manifest' \in [state : WorkflowState,
                       status : {"none", "running", "completed", "failed"},
                       events : Seq(Event), artifacts : Seq(ArtifactRecord)]
           /\ exc' \in {"none", "evitriage", "validation", "oserror"}
<1>1. CASE p \in Registered
  BY <1>1 DEF Register, TypeOK
<1>2. CASE p \notin Registered
  <2>1. [path |-> p, digest |-> d] \in ArtifactRecord
    BY DEF ArtifactRecord
  <2>2. /\ artifacts' = Append(artifacts, [path |-> p, digest |-> d])
        /\ UNCHANGED <<mode, state, status, events>> /\ PersistManifest(io)
    BY <1>2 DEF Register
  <2>3. artifacts' \in Seq(ArtifactRecord)
    BY <2>1, <2>2 DEF TypeOK
  <2> QED
    BY <2>2, <2>3, PersistType DEF TypeOK
<1> QED
  BY <1>1, <1>2

\* A refused call changes nothing but the outcome of the call.
LEMMA StopType ==
    ASSUME TypeOK, NEW io, Stop(io)
    PROVE  TypeOK'
  BY DEF TypeOK, Stop, Early

\* Every record that is in the list names a path.
LEMMA RecordedPaths ==
    ASSUME TypeOK
    PROVE  Registered \subseteq Paths
<1>1. ASSUME NEW i \in DOMAIN artifacts
      PROVE  artifacts[i].path \in Paths
  <2>1. artifacts[i] \in ArtifactRecord
    BY <1>1 DEF TypeOK
  <2> QED
    BY <2>1 DEF ArtifactRecord
<1> QED
  BY <1>1 DEF Registered, PathsIn

\* Sealing only concerns registered and audit files.
LEMMA SealType ==
    ASSUME TypeOK, NEW io, Seal(io)
    PROVE  sealed' \subseteq Paths \cup AuditFiles
<1>1. sealed \subseteq Paths \cup AuditFiles
  BY DEF TypeOK
<1> QED
  BY <1>1, RecordedPaths DEF Seal

\* The initial states are typed.
LEMMA InitType == Init => TypeOK /\ OpeningOK
<1> SUFFICES ASSUME Init PROVE TypeOK /\ OpeningOK
  OBVIOUS
<1>1. events \in Seq(Event) /\ log \in Seq(Event) /\ artifacts \in Seq(ArtifactRecord)
  BY DEF Init
<1>2. state \in WorkflowState
  BY DEF Init, WorkflowState, ProgressStates
<1>3. manifest \in [state : WorkflowState,
                   status : {"none", "running", "completed", "failed"},
                   events : Seq(Event), artifacts : Seq(ArtifactRecord)]
  BY DEF Init, NoManifest, WorkflowState, ProgressStates
<1>4. files \in [Paths -> Contents]
  BY DEF Init, Contents
<1> QED
  BY <1>1, <1>2, <1>3, <1>4 DEF Init, TypeOK, OpeningOK

\* The constructor's first half.
LEMMA OpenType ==
    ASSUME TypeOK, OpeningOK, NEW io, Open(io)
    PROVE  TypeOK' /\ OpeningOK'
<1> USE DEF TypeOK
<1>1. "none" \in WorkflowState \cup {"none"} /\ "CREATED" \in WorkflowState
  BY DEF WorkflowState, ProgressStates
<1>2. events' \in Seq(Event) /\ log' \in Seq(Event) /\ torn' \in BOOLEAN
  <2>1. CASE io = "uncaught"
    BY <2>1 DEF Open
  <2>2. CASE io # "uncaught"
    BY <1>1, <2>2, AppendEventType DEF Open
  <2> QED
    BY <2>1, <2>2
<1>3. /\ manifest' \in [state : WorkflowState,
               status : {"none", "running", "completed", "failed"},
               events : Seq(Event), artifacts : Seq(ArtifactRecord)]
      /\ exc' \in {"none", "evitriage", "validation", "oserror"}
  <2>1. CASE io = "uncaught" \/ io \in AppendFaults
    BY <2>1 DEF Open
  <2>2. CASE ~(io = "uncaught" \/ io \in AppendFaults)
    BY <1>2, <2>2, PersistType DEF Open
  <2> QED
    BY <2>1, <2>2
<1>4. OpeningOK'
  BY InitialArtifactsAssumption DEF Open, OpeningOK
<1> QED
  BY <1>2, <1>3, <1>4 DEF Open

\* Its second half: there is a next artifact, and it is a path.
LEMMA RegisterInitialType ==
    ASSUME TypeOK, OpeningOK, NEW io, RegisterInitial(io)
    PROVE  TypeOK' /\ OpeningOK'
<1> DEFINE p == InitialArtifacts[Len(artifacts) + 1]
<1>1. p \in Paths /\ files[p] \in Contents
  BY InitialArtifactsAssumption DEF RegisterInitial, OpeningOK, TypeOK
<1>2. /\ UNCHANGED <<mode, state, status, events, log, torn, files, sealed, late>>
      /\ artifacts' \in Seq(ArtifactRecord)
      /\ manifest' \in [state : WorkflowState,
               status : {"none", "running", "completed", "failed"},
               events : Seq(Event), artifacts : Seq(ArtifactRecord)]
      /\ exc' \in {"none", "evitriage", "validation", "oserror"}
  <2>1. CASE io \in ReadFaults \/ files[p] = "absent"
    BY <2>1 DEF RegisterInitial, Early, TypeOK
  <2>2. CASE ~(io \in ReadFaults \/ files[p] = "absent")
    <3>1. Register(p, files[p], io)
      BY <2>2 DEF RegisterInitial
    <3> HIDE DEF p
    <3>2. /\ artifacts' \in Seq(ArtifactRecord)
          /\ UNCHANGED <<mode, state, status, events>>
          /\ manifest' \in [state : WorkflowState,
               status : {"none", "running", "completed", "failed"},
               events : Seq(Event), artifacts : Seq(ArtifactRecord)]
          /\ exc' \in {"none", "evitriage", "validation", "oserror"}
      BY <1>1, <3>1, RegisterType
    <3> QED
      BY <3>2 DEF RegisterInitial
  <2> QED
    BY <2>1, <2>2
<1>3. Len(artifacts') <= Len(artifacts) + 1
  <2>1. CASE artifacts' = artifacts
    BY <2>1 DEF TypeOK
  <2>2. CASE artifacts' # artifacts
    <3>1. PICK d : artifacts' = Append(artifacts, d)
      BY <2>2 DEF RegisterInitial, Register
    <3> QED
      BY <3>1 DEF TypeOK
  <2> QED
    BY <2>1, <2>2
<1>4. OpeningOK'
  BY <1>2, <1>3, InitialArtifactsAssumption DEF RegisterInitial, OpeningOK, TypeOK
<1> QED
  BY <1>2, <1>4 DEF RegisterInitial, TypeOK

\* transition() and add_tool_versions().
LEMMA TransitionType ==
    ASSUME TypeOK, NEW to \in WorkflowState, NEW io, Transition(to, io)
    PROVE  TypeOK'
<1>1. CASE status # "running" \/ <<state, to>> \notin JournalEdges
  BY <1>1, StopType DEF Transition, Refuse
<1>2. CASE ~(status # "running" \/ <<state, to>> \notin JournalEdges)
  <2>1. /\ state' = to
        /\ UNCHANGED <<mode, status, artifacts, files, sealed, call, late>>
        /\ AppendEvent(state, to, io)
    BY <1>2 DEF Transition
  <2>2. events' \in Seq(Event) /\ log' \in Seq(Event) /\ torn' \in BOOLEAN
    <3>1. state \in WorkflowState \cup {"none"}
      BY DEF TypeOK
    <3> QED
      BY <2>1, <3>1, AppendEventType
  <2>3. /\ manifest' \in [state : WorkflowState,
                 status : {"none", "running", "completed", "failed"},
                 events : Seq(Event), artifacts : Seq(ArtifactRecord)]
        /\ exc' \in {"none", "evitriage", "validation", "oserror"}
    <3>1. CASE io \in AppendFaults
      BY <1>2, <3>1 DEF Transition, TypeOK
    <3>2. CASE io \notin AppendFaults
      <4>1. PersistManifest(io)
        BY <1>2, <3>2 DEF Transition
      <4>2. /\ state' \in WorkflowState
            /\ status' \in {"running", "completed", "failed"}
            /\ artifacts' \in Seq(ArtifactRecord)
        BY <2>1 DEF TypeOK
      <4> QED
        BY <2>2, <4>1, <4>2, PersistType
    <3> QED
      BY <3>1, <3>2
  <2> QED
    BY <2>1, <2>2, <2>3 DEF TypeOK
<1> QED
  BY <1>1, <1>2

\* add_tool_versions() only rewrites the manifest.
LEMMA AddToolVersionsType ==
    ASSUME TypeOK, NEW io, AddToolVersions(io)
    PROVE  TypeOK'
<1>1. CASE status # "running"
  BY <1>1, StopType DEF AddToolVersions, Refuse
<1>2. CASE status = "running"
  BY <1>2, PersistType DEF AddToolVersions, TypeOK
<1> QED
  BY <1>1, <1>2

\* write_artifact(), ingest_file() and record_existing_artifact().
LEMMA WriteArtifactType ==
    ASSUME TypeOK, NEW p \in Paths, NEW io, WriteArtifact(p, io)
    PROVE  TypeOK'
<1>1. CASE status # "running" \/ io = "uncaught" \/ files[p] # "absent"
  BY <1>1, StopType DEF WriteArtifact, Refuse
<1>2. CASE ~(status # "running" \/ io = "uncaught" \/ files[p] # "absent")
  <2>1. UNCHANGED <<log, torn, sealed, call, late>> /\ files' \in [Paths -> Contents]
    BY <1>2 DEF WriteArtifact, TypeOK, Contents
  <2>2. CASE io \in WriteFaults
    BY <1>2, <2>1, <2>2 DEF WriteArtifact, TypeOK
  <2>3. CASE io \notin WriteFaults
    <3>1. Register(p, "original", io)
      BY <1>2, <2>3 DEF WriteArtifact
    <3>2. "original" \in Contents
      BY DEF Contents
    <3> QED
      BY <2>1, <3>1, <3>2, RegisterType DEF TypeOK
  <2> QED
    BY <2>2, <2>3
<1> QED
  BY <1>1, <1>2

\* record_existing_artifact() registers what a file holds.
LEMMA RecordExistingType ==
    ASSUME TypeOK, NEW p \in Paths, NEW io, RecordExisting(p, io)
    PROVE  TypeOK'
<1>1. CASE status # "running" \/ io \in ReadFaults \/ files[p] = "absent"
  BY <1>1, StopType DEF RecordExisting, Refuse
<1>2. CASE ~(status # "running" \/ io \in ReadFaults \/ files[p] = "absent")
  <2>1. UNCHANGED <<log, torn, files, sealed, call, late>> /\ Register(p, files[p], io)
    BY <1>2 DEF RecordExisting
  <2>2. files[p] \in Contents
    BY DEF TypeOK
  <2> QED
    BY <2>1, <2>2, RegisterType DEF TypeOK
<1> QED
  BY <1>1, <1>2

\* complete() and fail().
LEMMA VerifyType ==
    ASSUME TypeOK, NEW io,
           CompleteVerify(io) \/ \E to \in FailureStates : FailVerify(to, io)
    PROVE  TypeOK'
<1>1. CASE Refuse \/ Stop(io)
  BY <1>1, StopType DEF Refuse
<1>2. CASE ~(Refuse \/ Stop(io))
  BY <1>2 DEF CompleteVerify, FailVerify, TypeOK
<1> QED
  BY <1>1, <1>2

\* A refused fchmod leaves some registered files sealed.
LEMMA SealRefusedType ==
    ASSUME TypeOK, NEW n \in Nat, NEW io, SealRefused(n, io)
    PROVE  TypeOK'
<1>1. {artifacts[i].path : i \in 1 .. n} \subseteq Paths
  <2>1. \A i \in 1 .. n : artifacts[i] \in ArtifactRecord
    BY DEF SealRefused, TypeOK
  <2> QED
    BY <2>1 DEF ArtifactRecord
<1> QED
  BY <1>1 DEF SealRefused, Error, TypeOK

\* complete()'s second half.
LEMMA CompleteCommitType ==
    ASSUME TypeOK, NEW io, CompleteCommit(io)
    PROVE  TypeOK'
<1>1. /\ manifest' \in [state : WorkflowState,
               status : {"none", "running", "completed", "failed"},
               events : Seq(Event), artifacts : Seq(ArtifactRecord)]
      /\ exc' \in {"none", "evitriage", "validation", "oserror"}
  BY PersistType DEF CompleteCommit, TypeOK
<1>2. sealed' \subseteq Paths \cup AuditFiles
  BY SealType DEF CompleteCommit
<1> QED
  BY <1>1, <1>2 DEF CompleteCommit, TypeOK

\* fail()'s second half: an event, the manifest and the seals.
LEMMA FailCommitType ==
    ASSUME TypeOK, NEW io, FailCommit(io)
    PROVE  TypeOK'
<1>1. state \in WorkflowState \cup {"none"} /\ call \in WorkflowState
  BY DEF FailCommit, TypeOK, WorkflowState
<1>2. events' \in Seq(Event) /\ log' \in Seq(Event) /\ torn' \in BOOLEAN
  BY <1>1, AppendEventType DEF FailCommit
<1>3. /\ manifest' \in [state : WorkflowState,
               status : {"none", "running", "completed", "failed"},
               events : Seq(Event), artifacts : Seq(ArtifactRecord)]
      /\ exc' \in {"none", "evitriage", "validation", "oserror"}
  <2>1. CASE io \in AppendFaults
    BY <2>1 DEF FailCommit, TypeOK
  <2>2. CASE io \notin AppendFaults
    BY <1>1, <1>2, <2>2, PersistType DEF FailCommit, TypeOK
  <2> QED
    BY <2>1, <2>2
<1>4. sealed' \subseteq Paths \cup AuditFiles
  BY SealType DEF FailCommit
<1> QED
  BY <1>1, <1>2, <1>3, <1>4 DEF FailCommit, TypeOK

\* The environment.
LEMMA AlterType ==
    ASSUME TypeOK, NEW p \in Paths, Alter(p)
    PROVE  TypeOK'
  BY DEF Alter, TypeOK, Contents

\* Only the two constructor actions touch what OpeningOK speaks of.
LEMMA OpeningStep ==
    ASSUME OpeningOK, TypeOK, call \notin {"new", "opening"}, [Next]_journalVars
    PROVE  OpeningOK'
<1>1. call' \notin {"new", "opening"}
  BY DEF Next, Step, Open, RegisterInitial, Transition, AddToolVersions,
     WriteArtifact, IngestFile, RecordExisting, CompleteVerify, FailVerify,
     CompleteCommit, FailCommit, SealRefused, Alter, Refuse, Stop, journalVars,
     FailureStates
<1> QED
  BY <1>1 DEF OpeningOK

\* Every step of the journal and of its environment keeps the types.
LEMMA StepType ==
    ASSUME TypeOK, OpeningOK, [Next]_journalVars
    PROVE  TypeOK' /\ OpeningOK'
<1>1. CASE UNCHANGED journalVars
  BY <1>1 DEF journalVars, TypeOK, OpeningOK
<1>2. CASE \E io \in IO : Open(io) \/ RegisterInitial(io)
  BY <1>2, OpenType, RegisterInitialType
<1>3. CASE \E p \in Paths : Alter(p)
  BY <1>3, AlterType DEF Alter, OpeningOK
<1>4. ASSUME NEW io \in IO, Step(io), ~Open(io), ~RegisterInitial(io)
      PROVE  TypeOK' /\ OpeningOK'
  <2>1. call \notin {"new", "opening"}
    BY <1>4 DEF Step, Transition, AddToolVersions, WriteArtifact, IngestFile,
       RecordExisting, CompleteVerify, FailVerify, CompleteCommit, FailCommit,
       SealRefused, Finalizing, FailureStates
  <2>2. OpeningOK'
    BY <2>1, OpeningStep
  <2>3. CASE \E to \in WorkflowState : Transition(to, io)
    BY <2>2, <2>3, TransitionType
  <2>4. CASE AddToolVersions(io)
    BY <2>2, <2>4, AddToolVersionsType
  <2>5. CASE \E p \in Paths : WriteArtifact(p, io)
    BY <2>2, <2>5, WriteArtifactType
  <2>6. CASE \E p \in Paths : IngestFile(p, io)
    BY <2>2, <2>6, WriteArtifactType, StopType DEF IngestFile
  <2>7. CASE \E p \in Paths : RecordExisting(p, io)
    BY <2>2, <2>7, RecordExistingType
  <2>8. CASE CompleteVerify(io) \/ \E to \in FailureStates : FailVerify(to, io)
    BY <2>2, <2>8, VerifyType
  <2>9. CASE CompleteCommit(io)
    BY <2>2, <2>9, CompleteCommitType
  <2>10. CASE FailCommit(io)
    BY <2>2, <2>10, FailCommitType
  <2>11. CASE \E n \in 0 .. Len(artifacts) : SealRefused(n, io)
    BY <2>2, <2>11, SealRefusedType
  <2> QED
    BY <1>4, <2>3, <2>4, <2>5, <2>6, <2>7, <2>8, <2>9, <2>10, <2>11 DEF Step
<1> QED
  BY <1>1, <1>2, <1>3, <1>4 DEF Next

\* RunJournal's state is always of its type, for any set of artifact paths and
\* any list of initial artifacts.
THEOREM TypeCorrect == Spec => []TypeOK
<1>1. Init => TypeOK /\ OpeningOK
  BY InitType
<1>2. (TypeOK /\ OpeningOK) /\ [Next]_journalVars => (TypeOK /\ OpeningOK)'
  BY StepType
<1> QED
  BY <1>1, <1>2, PTL DEF Spec

-----------------------------------------------------------------------------
(* The manifest replays the log. *)

\* Every edge of the journal's table, and every failure, goes up.
LEMMA EdgesRise ==
    ASSUME NEW a \in WorkflowState, NEW b \in WorkflowState,
           <<a, b>> \in JournalEdges \/ (a \in ProgressStates /\ b \in FailureStates)
    PROVE  Rank[a] < Rank[b]
  BY DEF JournalEdges, Rank, WorkflowState, ProgressStates, FailureStates

\* A rank is a number.
LEMMA RankType == \A s \in WorkflowState : Rank[s] \in Nat
  BY DEF Rank

\* Appending an event, or failing to, after the state has moved: what was in
\* sync stays so or becomes lost, what was lost stays lost.
LEMMA AppendKeepsHistory ==
    ASSUME TypeOK, events # <<>>, InSync \/ HistoryLost,
           NEW to \in WorkflowState, Rank[state] < Rank[to],
           NEW io, AppendEvent(state, to, io), state' = to
    PROVE  events' # <<>> /\ (InSync' \/ HistoryLost')
<1> DEFINE n == Len(events)
           e == [seq |-> n, from |-> state, to |-> to]
<1>0. /\ events \in Seq(Event) /\ log \in Seq(Event) /\ n \in Nat /\ n > 0
      /\ state \in WorkflowState
  BY DEF TypeOK
<1>a. events[n] \in Event
  BY <1>0
<1>b. e \in Event
  BY <1>0 DEF Event
<1>1. /\ events \in Seq(Event) /\ log \in Seq(Event) /\ n \in Nat /\ n > 0
      /\ events[n] \in Event /\ e \in Event /\ state \in WorkflowState
  BY <1>0, <1>a, <1>b
<1>2. events[n].to \in WorkflowState
  BY <1>1 DEF Event
<1>3. Rank[events[n].to] \in Nat /\ Rank[state] \in Nat /\ Rank[to] \in Nat
  BY <1>1, <1>2, RankType
<1>4. CASE io \in AppendFaults
  <2>1. events' = events
    BY <1>4 DEF AppendEvent
  <2>2. CASE \E i \in 2 .. Len(events) : events[i].from # events[i - 1].to
    BY <1>1, <2>1, <2>2 DEF HistoryLost
  <2>3. CASE Rank[events[n].to] <= Rank[state]
    BY <1>1, <1>3, <2>1, <2>3 DEF HistoryLost
  <2> QED
    BY <1>1, <1>3, <2>2, <2>3 DEF InSync, HistoryLost
<1>5. CASE io \notin AppendFaults
  <2>1. events' = Append(events, e) /\ log' = (IF torn THEN log ELSE Append(log, e))
        /\ torn' = torn
    BY <1>5 DEF AppendEvent, AppendFaults, TypeOK
  <2>2. /\ Len(events') = n + 1 /\ events'[n + 1] = e
        /\ \A i \in 1 .. n : events'[i] = events[i]
    BY <1>1, <2>1
  <2>3. CASE InSync
    BY <1>1, <2>1, <2>2, <2>3 DEF InSync
  <2>4. CASE HistoryLost
    <3>1. CASE Rank[events[n].to] < Rank[state]
      <4>1. e.from # events[n].to
        BY <1>3, <3>1
      <4> QED
        BY <1>1, <2>2, <4>1 DEF HistoryLost
    <3>2. CASE \E i \in 2 .. Len(events) : events[i].from # events[i - 1].to
      BY <1>1, <2>2, <3>2 DEF HistoryLost
    <3> QED
      BY <2>4, <3>1, <3>2 DEF HistoryLost
  <2> QED
    BY <2>3, <2>4
<1> QED
  BY <1>4, <1>5

\* The log only grows, line by line.
LEMMA AppendKeepsPrefix ==
    ASSUME TypeOK, NEW s \in Seq(Event), IsPrefix(s, log),
           NEW from \in WorkflowState \cup {"none"}, NEW to \in WorkflowState,
           NEW io, AppendEvent(from, to, io)
    PROVE  IsPrefix(s, log')
<1> DEFINE e == [seq |-> Len(events), from |-> from, to |-> to]
<1>1. log \in Seq(Event) /\ e \in Event
  BY DEF TypeOK, Event
<1>2. log' = log \/ log' = Append(log, e)
  BY DEF AppendEvent
<1> QED
  BY <1>1, <1>2, PrefixAppend

\* A history that RunManifest accepts has lost nothing.
LEMMA ValidIsNotLost ==
    ASSUME ValidManifest(Projection), TypeOK, events # <<>>, InSync \/ HistoryLost
    PROVE  InSync
<1>1. /\ state = events[Len(events)].to
      /\ \A i \in 2 .. Len(events) : events[i].from = events[i - 1].to
  BY DEF ValidManifest, Projection, ChainIsConsistent
<1>2. ~HistoryLost
  <2>1. Rank[state] \in Nat
    BY RankType DEF TypeOK
  <2> QED
    BY <1>1, <2>1 DEF HistoryLost
<1> QED
  BY <1>2

\* Rewriting the manifest from such a memory keeps it a replay of the log.
LEMMA PersistReplays ==
    ASSUME TypeOK', events' # <<>>, InSync' \/ HistoryLost',
           manifest # NoManifest =>
             /\ IsPrefix(manifest.events, log')
             /\ manifest.state = manifest.events[Len(manifest.events)].to,
           NEW io, PersistManifest(io)
    PROVE  ManifestReplaysLog'
<1>1. CASE manifest' = manifest
  BY <1>1 DEF ManifestReplaysLog
<1>2. CASE manifest' # manifest
  <2>1. ValidManifest(Projection') /\ manifest' = Projection'
    BY <1>2 DEF PersistManifest
  <2>2. InSync'
    <3>1. /\ state' = events'[Len(events')].to
          /\ \A i \in 2 .. Len(events') : events'[i].from = events'[i - 1].to
      BY <2>1 DEF ValidManifest, Projection, ChainIsConsistent
    <3>2. ~HistoryLost'
      <4>1. Rank[state'] \in Nat
        BY RankType DEF TypeOK
      <4> QED
        BY <3>1, <4>1 DEF HistoryLost
    <3> QED
      BY <3>2
  <2>3. manifest'.events = log' /\ manifest'.state = manifest'.events[Len(manifest'.events)].to
    BY <2>1, <2>2 DEF InSync, Projection
  <2>4. IsPrefix(log', log')
    BY PrefixReflexive DEF TypeOK
  <2> QED
    BY <2>3, <2>4 DEF ManifestReplaysLog
<1> QED
  BY <1>1, <1>2

\* Rewriting the manifest when memory has not moved.
LEMMA PersistUnmoved ==
    ASSUME TypeOK', ManifestReplaysLog, events # <<>>, InSync \/ HistoryLost,
           UNCHANGED <<state, events, log, torn>>, NEW io, PersistManifest(io)
    PROVE  ManifestReplaysLog'
<1>1. events' # <<>> /\ (InSync' \/ HistoryLost')
  BY DEF InSync, HistoryLost
<1>2. manifest # NoManifest =>
        /\ IsPrefix(manifest.events, log')
        /\ manifest.state = manifest.events[Len(manifest.events)].to
  BY DEF ManifestReplaysLog
<1> QED
  BY <1>1, <1>2, PersistReplays

\* The first event and the first manifest.
LEMMA OpenHistory ==
    ASSUME TypeOK, TypeOK', HistoryInv, NEW io, Open(io)
    PROVE  HistoryInv' /\ ManifestReplaysLog'
<1> DEFINE e == [seq |-> Len(events), from |-> "none", to |-> "CREATED"]
<1>1. /\ events = <<>> /\ log = <<>> /\ ~torn /\ state = "CREATED"
      /\ manifest = NoManifest /\ state' = state /\ status' = status
  BY DEF Open, HistoryInv
<1>2. ~Finalizing' /\ state \in ProgressStates
  BY <1>1 DEF Open, Finalizing, FailureStates, ProgressStates
<1>3. CASE io = "uncaught" \/ io \in AppendFaults
  BY <1>1, <1>2, <1>3 DEF Open, HistoryInv, ManifestReplaysLog
<1>4. CASE ~(io = "uncaught" \/ io \in AppendFaults)
  <2>1. events' = <<e>> /\ log' = <<e>> /\ torn' = FALSE
    <3>1. AppendEvent("none", "CREATED", io)
      BY <1>4 DEF Open
    <3>2. events' = Append(<<>>, e) /\ log' = Append(<<>>, e) /\ torn' = FALSE
      BY <1>1, <1>4, <3>1 DEF AppendEvent, AppendFaults
    <3> QED
      BY <3>2
  <2>2. events' # <<>> /\ InSync'
    BY <1>1, <2>1 DEF InSync
  <2>3. ManifestReplaysLog'
    BY <1>1, <1>4, <2>2, PersistReplays DEF Open
  <2>4. call' # "new"
    BY DEF Open
  <2> QED
    BY <1>1, <1>2, <2>2, <2>3, <2>4 DEF HistoryInv
<1> QED
  BY <1>3, <1>4

\* Operations that touch neither the history nor the log.
LEMMA UnmovedHistory ==
    ASSUME TypeOK, TypeOK', HistoryInv, ManifestReplaysLog,
           call \notin {"new", "dead"}, call' # "new",
           UNCHANGED <<state, events, log, torn>>,
           UNCHANGED manifest \/ \E io : PersistManifest(io),
           status' = "running" => status = "running",
           Finalizing' => status' = "running"
    PROVE  HistoryInv' /\ ManifestReplaysLog'
<1>1. events # <<>> /\ (InSync \/ HistoryLost)
  BY DEF HistoryInv
<1>2. ManifestReplaysLog'
  BY <1>1, PersistUnmoved DEF ManifestReplaysLog
<1>3. events' # <<>> /\ (InSync' \/ HistoryLost')
  BY <1>1 DEF InSync, HistoryLost
<1> QED
  BY <1>2, <1>3 DEF HistoryInv

\* Register() is such an operation.
LEMMA RegisterPersists ==
    ASSUME NEW p, NEW d, NEW io, Register(p, d, io)
    PROVE  /\ UNCHANGED <<state, events, status>>
           /\ UNCHANGED manifest \/ PersistManifest(io)
  BY DEF Register

\* A move of the state with its event.
LEMMA MoveHistory ==
    ASSUME TypeOK, TypeOK', HistoryInv, ManifestReplaysLog,
           call \notin {"new", "dead"}, call' = "idle",
           NEW to \in WorkflowState, Rank[state] < Rank[to], NEW io,
           AppendEvent(state, to, io), state' = to,
           UNCHANGED manifest \/ PersistManifest(io),
           status' = "running" => to \in ProgressStates
    PROVE  HistoryInv' /\ ManifestReplaysLog'
<1>1. events' # <<>> /\ (InSync' \/ HistoryLost')
  BY AppendKeepsHistory DEF HistoryInv
<1>2. manifest # NoManifest =>
        /\ IsPrefix(manifest.events, log')
        /\ manifest.state = manifest.events[Len(manifest.events)].to
  <2>1. manifest.events \in Seq(Event) /\ state \in WorkflowState \cup {"none"}
    BY DEF TypeOK
  <2> QED
    BY <2>1, AppendKeepsPrefix DEF ManifestReplaysLog
<1>3. ManifestReplaysLog'
  <2>1. CASE UNCHANGED manifest
    BY <1>2, <2>1 DEF ManifestReplaysLog
  <2>2. CASE PersistManifest(io)
    BY <1>1, <1>2, <2>2, PersistReplays
  <2> QED
    BY <2>1, <2>2
<1>4. ~Finalizing'
  BY DEF Finalizing, FailureStates
<1> QED
  BY <1>1, <1>3, <1>4 DEF HistoryInv

\* transition() moves the state with its event, or loses the event.
LEMMA TransitionHistory ==
    ASSUME TypeOK, TypeOK', HistoryInv, ManifestReplaysLog,
           NEW to \in WorkflowState, NEW io, Transition(to, io)
    PROVE  HistoryInv' /\ ManifestReplaysLog'
<1>1. CASE Refuse
  BY <1>1, UnmovedHistory DEF Refuse, Stop, Transition, HistoryInv, Finalizing, FailureStates
<1>2. CASE ~Refuse
  <2>1. /\ status = "running" /\ <<state, to>> \in JournalEdges /\ state' = to
        /\ status' = status /\ call = "idle" /\ call' = "idle"
        /\ AppendEvent(state, to, io)
        /\ UNCHANGED manifest \/ PersistManifest(io)
    BY <1>2 DEF Transition
  <2>2. Rank[state] < Rank[to]
    BY <2>1, EdgesRise DEF TypeOK
  <2>3. to \in ProgressStates
    BY <2>1 DEF JournalEdges, ProgressStates
  <2> QED
    BY <2>1, <2>2, <2>3, MoveHistory
<1> QED
  BY <1>1, <1>2

\* fail() moves to a failure state with its event, or loses it.
LEMMA FailCommitHistory ==
    ASSUME TypeOK, TypeOK', HistoryInv, ManifestReplaysLog, NEW io, FailCommit(io)
    PROVE  HistoryInv' /\ ManifestReplaysLog'
<1>1. /\ call \in FailureStates /\ state' = call /\ status' = "failed"
      /\ call' = "idle" /\ AppendEvent(state, call, io)
      /\ UNCHANGED manifest \/ PersistManifest(io)
  BY DEF FailCommit
<1>2. state \in ProgressStates
  BY <1>1 DEF HistoryInv, Finalizing
<1>3. call \in WorkflowState /\ state \in WorkflowState /\ call \notin {"new", "dead"}
  BY <1>1, <1>2 DEF WorkflowState, FailureStates
<1>4. Rank[state] < Rank[call]
  BY <1>1, <1>2, <1>3, EdgesRise
<1> QED
  BY <1>1, <1>3, <1>4, MoveHistory

\* Every step keeps the history invariant and the replay.
LEMMA StepHistory ==
    ASSUME TypeOK, TypeOK', HistoryInv, ManifestReplaysLog, [Next]_journalVars
    PROVE  HistoryInv' /\ ManifestReplaysLog'
<1>1. CASE UNCHANGED journalVars
  BY <1>1 DEF journalVars, HistoryInv, ManifestReplaysLog, InSync, HistoryLost, Finalizing
<1>2. CASE \E p \in Paths : Alter(p)
  BY <1>2 DEF Alter, HistoryInv, ManifestReplaysLog, InSync, HistoryLost, Finalizing
<1>3. ASSUME NEW io, Open(io) PROVE HistoryInv' /\ ManifestReplaysLog'
  BY <1>3, OpenHistory
<1>4. ASSUME NEW io, RegisterInitial(io) PROVE HistoryInv' /\ ManifestReplaysLog'
  <2>1. UNCHANGED <<state, status, events, log, torn>>
        /\ (UNCHANGED manifest \/ PersistManifest(io))
    BY <1>4, RegisterPersists DEF RegisterInitial
  <2>2. call = "opening" /\ call' # "new" /\ ~Finalizing'
    BY <1>4 DEF RegisterInitial, Finalizing, FailureStates
  <2> QED
    BY <2>1, <2>2, UnmovedHistory
<1>5. ASSUME NEW io, NEW to \in WorkflowState, Transition(to, io)
      PROVE HistoryInv' /\ ManifestReplaysLog'
  BY <1>5, TransitionHistory
<1>6. ASSUME NEW io, \/ AddToolVersions(io)
                     \/ \E p \in Paths : WriteArtifact(p, io) \/ IngestFile(p, io)
                     \/ \E p \in Paths : RecordExisting(p, io)
      PROVE HistoryInv' /\ ManifestReplaysLog'
  <2>1. call = "idle" /\ call' = "idle" /\ UNCHANGED <<state, status, events, log, torn>>
        /\ (UNCHANGED manifest \/ PersistManifest(io))
    BY <1>6, RegisterPersists
       DEF AddToolVersions, WriteArtifact, IngestFile, RecordExisting, Refuse, Stop
  <2>2. ~Finalizing'
    BY <2>1 DEF Finalizing, FailureStates
  <2> QED
    BY <2>1, <2>2, UnmovedHistory
<1>7. ASSUME NEW io, CompleteVerify(io) \/ \E to \in FailureStates : FailVerify(to, io)
      PROVE HistoryInv' /\ ManifestReplaysLog'
  <2>1. /\ call = "idle" /\ UNCHANGED <<state, status, events, log, torn, manifest>>
        /\ call' # "new"
        /\ call' # "idle" => status = "running"
    BY <1>7 DEF CompleteVerify, FailVerify, Refuse, Stop, FailureStates
  <2>2. Finalizing' => status' = "running"
    BY <2>1 DEF Finalizing, FailureStates
  <2> QED
    BY <2>1, <2>2, UnmovedHistory
<1>8. ASSUME NEW io, CompleteCommit(io) PROVE HistoryInv' /\ ManifestReplaysLog'
  <2>1. /\ call = "completing" /\ call' = "idle" /\ PersistManifest(io)
        /\ UNCHANGED <<state, events, log, torn>> /\ status' = "completed"
    BY <1>8 DEF CompleteCommit
  <2>2. ~Finalizing'
    BY <2>1 DEF Finalizing, FailureStates
  <2> QED
    BY <2>1, <2>2, UnmovedHistory
<1>9. ASSUME NEW io, FailCommit(io) PROVE HistoryInv' /\ ManifestReplaysLog'
  BY <1>9, FailCommitHistory
<1>10. ASSUME NEW n, NEW io, SealRefused(n, io) PROVE HistoryInv' /\ ManifestReplaysLog'
  <2>1. /\ UNCHANGED <<state, status, events, log, torn, manifest>>
        /\ Finalizing /\ call' = "idle"
    BY <1>10 DEF SealRefused
  <2>2. ~Finalizing' /\ call \notin {"new", "dead"}
    BY <2>1 DEF Finalizing, FailureStates
  <2> QED
    BY <2>1, <2>2, UnmovedHistory
<1> QED
  BY <1>1, <1>2, <1>3, <1>4, <1>5, <1>6, <1>7, <1>8, <1>9, <1>10 DEF Next, Step

\* No refused system call, in any operation of any client, lets the manifest
\* tell of a transition that the event log cannot replay.
THEOREM ReplaysLog == Spec => []ManifestReplaysLog
<1>1. Init => HistoryInv /\ ManifestReplaysLog
  BY DEF Init, HistoryInv, ManifestReplaysLog, Finalizing, ProgressStates, FailureStates
<1>2. TypeOK /\ TypeOK' /\ (HistoryInv /\ ManifestReplaysLog) /\ [Next]_journalVars
        => (HistoryInv /\ ManifestReplaysLog)'
  BY StepHistory
<1> QED
  BY <1>1, <1>2, TypeCorrect, PTL DEF Spec

-----------------------------------------------------------------------------
(* Final manifests. *)

\* A call that leaves the run running cannot make the manifest final.
LEMMA RunningAudit ==
    ASSUME AuditInv, status = "running", status' = "running", ~Finalizing',
           UNCHANGED manifest \/ \E io : PersistManifest(io)
    PROVE  AuditInv' /\ FinalManifestIsAudited'
<1>1. manifest'.status \notin {"completed", "failed"}
  BY DEF AuditInv, PersistManifest, Projection
<1> QED
  BY <1>1 DEF AuditInv, FinalManifestIsAudited

\* A refused call moves nothing that the audit speaks of.
LEMMA StopAudit ==
    ASSUME AuditInv, FinalManifestIsAudited, NEW io, Stop(io)
    PROVE  AuditInv' /\ FinalManifestIsAudited'
  BY DEF AuditInv, FinalManifestIsAudited, Stop, Finalizing

\* The digest check is what the sealing step relies on.
LEMMA VerifyAudit ==
    ASSUME AuditInv, FinalManifestIsAudited, NEW io,
           CompleteVerify(io) \/ \E to \in FailureStates : FailVerify(to, io)
    PROVE  AuditInv' /\ FinalManifestIsAudited'
<1>1. CASE Refuse \/ Stop(io)
  BY <1>1, StopAudit DEF Refuse
<1>2. CASE ~(Refuse \/ Stop(io))
  <2>1. /\ UNCHANGED <<status, artifacts, manifest, files, sealed, late>>
        /\ status = "running" /\ Verified(io)
    BY <1>2 DEF CompleteVerify, FailVerify
  <2> QED
    BY <2>1 DEF Verified, AuditInv, FinalManifestIsAudited
<1> QED
  BY <1>1, <1>2

\* complete() and fail() seal what they have verified before the manifest that
\* is final reaches the disk.
LEMMA CommitAudit ==
    ASSUME AuditInv, Finalizing, status = "running", call' = "idle",
           status' \in {"completed", "failed"},
           UNCHANGED <<artifacts, files, late>>, NEW io, Seal(io),
           UNCHANGED manifest \/ PersistManifest(io)
    PROVE  AuditInv' /\ FinalManifestIsAudited'
<1>1. ~Finalizing'
  BY DEF Finalizing, FailureStates
<1>2. CASE UNCHANGED manifest
  BY <1>1, <1>2 DEF AuditInv, FinalManifestIsAudited
<1>3. CASE manifest' = Projection'
  <2>1. manifest'.artifacts = artifacts
    BY <1>3 DEF Projection
  <2>2. \A i \in DOMAIN artifacts : artifacts[i].path \in sealed'
    BY DEF Seal, Registered, PathsIn
  <2>3. \A i \in DOMAIN artifacts : \/ files'[artifacts[i].path] = artifacts[i].digest
                                   \/ artifacts[i].path \in late'
    BY DEF AuditInv
  <2>4. FinalManifestIsAudited'
    BY <2>1, <2>2, <2>3 DEF FinalManifestIsAudited
  <2> QED
    BY <1>1, <2>4 DEF AuditInv
<1> QED
  BY <1>2, <1>3 DEF PersistManifest

\* Another program can only change what is not sealed, and a change of a
\* registered file after its check is remembered in `late`.
LEMMA AlterAudit ==
    ASSUME TypeOK, AuditInv, FinalManifestIsAudited, NEW p \in Paths, Alter(p)
    PROVE  AuditInv' /\ FinalManifestIsAudited'
<1>1. /\ UNCHANGED <<status, artifacts, manifest, sealed, call>> /\ p \notin sealed
      /\ late \subseteq late'
      /\ \A q \in Paths : q # p => files'[q] = files[q]
      /\ Finalizing /\ p \in Registered => p \in late'
  BY DEF Alter, TypeOK
<1>2. \A i \in DOMAIN manifest.artifacts : manifest.artifacts[i].path \in Paths
  <2> SUFFICES ASSUME NEW i \in DOMAIN manifest.artifacts
               PROVE  manifest.artifacts[i].path \in Paths
    OBVIOUS
  <2>1. manifest.artifacts \in Seq(ArtifactRecord)
    BY DEF TypeOK
  <2>2. manifest.artifacts[i] \in ArtifactRecord
    BY <2>1
  <2> QED
    BY <2>2 DEF ArtifactRecord
<1>3. FinalManifestIsAudited'
  BY <1>1, <1>2 DEF FinalManifestIsAudited
<1>4. Finalizing' => \A i \in DOMAIN artifacts :
         \/ files'[artifacts[i].path] = artifacts[i].digest
         \/ artifacts[i].path \in late'
  <2> SUFFICES ASSUME Finalizing, NEW i \in DOMAIN artifacts
               PROVE  \/ files'[artifacts[i].path] = artifacts[i].digest
                      \/ artifacts[i].path \in late'
    BY <1>1 DEF Finalizing
  <2>1. artifacts[i].path \in Registered /\ artifacts[i].path \in Paths
    BY RecordedPaths DEF Registered, PathsIn
  <2> QED
    BY <1>1, <2>1 DEF AuditInv
<1> QED
  BY <1>1, <1>3, <1>4 DEF AuditInv

\* Every step keeps final manifests audited.
LEMMA StepAudit ==
    ASSUME TypeOK, HistoryInv, AuditInv, FinalManifestIsAudited, [Next]_journalVars
    PROVE  AuditInv' /\ FinalManifestIsAudited'
<1>1. CASE UNCHANGED journalVars
  BY <1>1 DEF journalVars, AuditInv, FinalManifestIsAudited, Finalizing
<1>2. CASE \E p \in Paths : Alter(p)
  BY <1>2, AlterAudit
<1>3. ASSUME NEW io, Open(io) \/ RegisterInitial(io)
      PROVE  AuditInv' /\ FinalManifestIsAudited'
  <2>1. status = "running" /\ status' = "running" /\ ~Finalizing'
    BY <1>3 DEF Open, RegisterInitial, Register, AuditInv, Finalizing, FailureStates
  <2>2. UNCHANGED manifest \/ PersistManifest(io)
    BY <1>3, RegisterPersists DEF Open, RegisterInitial
  <2> QED
    BY <2>1, <2>2, RunningAudit
<1>4. ASSUME NEW io, \/ \E to \in WorkflowState : Transition(to, io)
                     \/ AddToolVersions(io)
                     \/ \E p \in Paths : WriteArtifact(p, io) \/ IngestFile(p, io)
                     \/ \E p \in Paths : RecordExisting(p, io)
      PROVE  AuditInv' /\ FinalManifestIsAudited'
  <2>1. CASE Refuse \/ Stop(io)
    BY <2>1, StopAudit DEF Refuse
  <2>2. CASE ~(Refuse \/ Stop(io))
    <3>1. /\ status = "running" /\ status' = "running" /\ call' = "idle"
          /\ UNCHANGED manifest \/ PersistManifest(io)
      BY <1>4, <2>2, RegisterPersists
         DEF Transition, AddToolVersions, WriteArtifact, IngestFile, RecordExisting
    <3>2. ~Finalizing'
      BY <3>1 DEF Finalizing, FailureStates
    <3> QED
      BY <3>1, <3>2, RunningAudit
  <2> QED
    BY <2>1, <2>2
<1>5. ASSUME NEW io, CompleteVerify(io) \/ \E to \in FailureStates : FailVerify(to, io)
      PROVE  AuditInv' /\ FinalManifestIsAudited'
  BY <1>5, VerifyAudit
<1>6. ASSUME NEW io, CompleteCommit(io) \/ FailCommit(io)
      PROVE  AuditInv' /\ FinalManifestIsAudited'
  <2>1. /\ Finalizing /\ call' = "idle" /\ status' \in {"completed", "failed"}
        /\ UNCHANGED <<artifacts, files, late>> /\ Seal(io)
        /\ UNCHANGED manifest \/ PersistManifest(io)
    BY <1>6 DEF CompleteCommit, FailCommit, Finalizing
  <2> QED
    BY <2>1, CommitAudit DEF HistoryInv
<1>7. ASSUME NEW n, NEW io, SealRefused(n, io)
      PROVE  AuditInv' /\ FinalManifestIsAudited'
  <2>1. /\ Finalizing /\ UNCHANGED <<manifest, status>> /\ call' = "idle"
    BY <1>7 DEF SealRefused
  <2>2. status = "running" /\ ~Finalizing'
    BY <2>1 DEF HistoryInv, Finalizing, FailureStates
  <2> QED
    BY <2>1, <2>2, RunningAudit
<1> QED
  BY <1>1, <1>2, <1>3, <1>4, <1>5, <1>6, <1>7 DEF Next, Step

\* A manifest that says completed or failed lists only sealed artifacts with
\* the bytes they were registered with, for any paths and any client.
THEOREM FinalIsAudited == Spec => []FinalManifestIsAudited
<1>1. Init => HistoryInv /\ ManifestReplaysLog /\ AuditInv /\ FinalManifestIsAudited
  BY DEF Init, HistoryInv, ManifestReplaysLog, AuditInv, FinalManifestIsAudited,
     NoManifest, Finalizing, ProgressStates, FailureStates
<1>2. TypeOK /\ TypeOK' /\ [Next]_journalVars
        /\ (HistoryInv /\ ManifestReplaysLog /\ AuditInv /\ FinalManifestIsAudited)
        => (HistoryInv /\ ManifestReplaysLog /\ AuditInv /\ FinalManifestIsAudited)'
  BY StepHistory, StepAudit
<1> QED
  BY <1>1, <1>2, TypeCorrect, PTL DEF Spec

\* Nothing any client calls after the disk says completed or failed changes the
\* manifest or the log.
THEOREM FinalStaysFinal == Spec => FinalIsFinal
<1>1. ASSUME AuditInv, [Next]_journalVars, manifest.status \in {"completed", "failed"}
      PROVE  UNCHANGED <<manifest, log>>
  <2>1. status # "running" /\ call = "idle"
    BY <1>1 DEF AuditInv
  <2> QED
    BY <1>1, <2>1 DEF Next, Step, Open, RegisterInitial, Transition, AddToolVersions,
       WriteArtifact, IngestFile, RecordExisting, CompleteVerify, FailVerify,
       CompleteCommit, FailCommit, SealRefused, Alter, Refuse, Stop, Finalizing,
       FailureStates, journalVars
<1>2. Init => HistoryInv /\ ManifestReplaysLog /\ AuditInv /\ FinalManifestIsAudited
  BY DEF Init, HistoryInv, ManifestReplaysLog, AuditInv, FinalManifestIsAudited,
     NoManifest, Finalizing, ProgressStates, FailureStates
<1>3. TypeOK /\ TypeOK' /\ [Next]_journalVars
        /\ (HistoryInv /\ ManifestReplaysLog /\ AuditInv /\ FinalManifestIsAudited)
        => (HistoryInv /\ ManifestReplaysLog /\ AuditInv /\ FinalManifestIsAudited)'
  BY StepHistory, StepAudit
<1>4. []AuditInv /\ [][Next]_journalVars
        => [][manifest.status \in {"completed", "failed"}
                => UNCHANGED <<manifest, log>>]_journalVars
  BY <1>1, PTL
<1> QED
  BY <1>2, <1>3, <1>4, TypeCorrect, PTL DEF Spec, FinalIsFinal

=============================================================================
