--------------------------- MODULE PipelineProofs ---------------------------
(***************************************************************************)
(* For any set of commands, any slices and tool logs, and any number of    *)
(* refused system calls and outside changes: what the end of a command     *)
(* leaves on disk is what its outcome says, and the manifest goes through  *)
(* the life of a run (RunLifecycle).                                       *)
(*                                                                         *)
(* A program is a sequence of parts whose lengths depend on the command,   *)
(* the slices and the logs.  The first sections compute where each part    *)
(* begins, the state of the journal at every place (StageAt), and that     *)
(* every step suits its place (StepsFit): a transition follows an edge of  *)
(* the journal, a handler's failure state belongs to the stage.  From      *)
(* there on a step is an index and what StepsFit says of it.               *)
(*                                                                         *)
(* The invariant says what the journal is when step i is next: memory, log *)
(* and manifest tell one valid history (InTime) and the records are those  *)
(* of the steps before (AtStep).  A step that fails leaves one of three    *)
(* journals to the handler: as good as before (Known), without the event   *)
(* of the transition that failed (Lost), or ended by complete() (Over).    *)
(* While no incident has happened every record is right and every file is  *)
(* recorded or waits for the handler (Quiet), which is what makes an       *)
(* undisturbed failure final.                                              *)
(***************************************************************************)
EXTENDS Pipeline, TLAPS

-----------------------------------------------------------------------------
(* Sequences. *)

\* One sequence after the other.
LEMMA Joined ==
  ASSUME NEW S, NEW s \in Seq(S), NEW t \in Seq(S)
  PROVE  /\ s \o t \in Seq(S) /\ Len(s \o t) = Len(s) + Len(t)
         /\ \A i \in 1 .. Len(s) : (s \o t)[i] = s[i]
         /\ \A i \in 1 .. Len(t) : (s \o t)[Len(s) + i] = t[i]
  OBVIOUS

\* Three parts in a row.
LEMMA ThreeJoined ==
  ASSUME NEW S, NEW a \in Seq(S), NEW b \in Seq(S), NEW c \in Seq(S)
  PROVE  /\ a \o b \o c \in Seq(S) /\ Len(a \o b \o c) = Len(a) + Len(b) + Len(c)
         /\ \A i \in 1 .. Len(a) : (a \o b \o c)[i] = a[i]
         /\ \A i \in 1 .. Len(b) : (a \o b \o c)[Len(a) + i] = b[i]
         /\ \A i \in 1 .. Len(c) : (a \o b \o c)[Len(a) + Len(b) + i] = c[i]
<1> DEFINE ab == a \o b
           s == ab \o c
<1>1. /\ ab \in Seq(S) /\ Len(ab) = Len(a) + Len(b)
      /\ \A i \in 1 .. Len(a) : ab[i] = a[i]
      /\ \A i \in 1 .. Len(b) : ab[Len(a) + i] = b[i]
  BY Joined
<1>2. s = ab \o c
  OBVIOUS
<1>3. Len(a) \in Nat /\ Len(b) \in Nat /\ Len(c) \in Nat
  OBVIOUS
<1> HIDE DEF ab, s
<1>4. /\ s \in Seq(S) /\ Len(s) = Len(ab) + Len(c)
      /\ \A i \in 1 .. Len(ab) : s[i] = ab[i]
      /\ \A i \in 1 .. Len(c) : s[Len(ab) + i] = c[i]
  <2>1. ab \in Seq(S) /\ c \in Seq(S)
    BY <1>1
  <2>2. /\ ab \o c \in Seq(S) /\ Len(ab \o c) = Len(ab) + Len(c)
        /\ \A i \in 1 .. Len(ab) : (ab \o c)[i] = ab[i]
        /\ \A i \in 1 .. Len(c) : (ab \o c)[Len(ab) + i] = c[i]
    BY <2>1, Joined
  <2> QED
    BY <1>2, <2>2
<1>5. ASSUME NEW i \in 1 .. Len(a) PROVE s[i] = a[i]
  BY <1>1, <1>3, <1>4
<1>6. ASSUME NEW i \in 1 .. Len(b) PROVE s[Len(a) + i] = b[i]
  <2>1. Len(a) + i \in 1 .. Len(ab)
    BY <1>1, <1>3
  <2> QED
    BY <1>1, <1>4, <2>1
<1> QED
  BY <1>1, <1>3, <1>4, <1>5, <1>6 DEF s, ab

-----------------------------------------------------------------------------
(* The places of a program *)

\* The last step of each part.
PrepEnd(c) == IF c.goal = "JUDGED" THEN 8 ELSE 7
InputEnd(c) == PrepEnd(c) + (IF c.mode = "sarif" THEN 2 ELSE Len(ToolLogs) + 8)
SupplementEnd(c) == InputEnd(c) + (IF c.goal = "JUDGED" /\ c.supplement THEN 2 ELSE 0)
NormalizeEnd(c) == SupplementEnd(c) + 4
ContextEnd(c) == NormalizeEnd(c) + Len(SlicePaths) + 8
ProgramEnd(c) == ContextEnd(c) + (IF c.goal = "JUDGED" THEN 12 ELSE 1)

\* What the steps are made of.
Ops ==
    {"work", "open", "register", "transition", "ingest", "scan", "versions", "record",
     "check", "write", "complete"}
Args ==
    {"", "allocate workspace", "PROJECT_VALIDATED", "WORKSPACE_READY", "SOURCE_READY",
     "match the LLM profile", SarifInput, "SARIF_INGESTED", "BUILD_READY", RunMetadata,
     ScanSarif, "CODEQL_DB_READY", "SCANNED", SupplementInput, "validate supplement",
     "parse and normalize", "normalized/alerts.json", "NORMALIZED", BuildRegistry,
     "build slices", "context/index.json", "evidence/registry.json", "evidence/graph.dot",
     "context/source-map.html", "CONTEXT_READY", "triage every alert",
     "triage/analyst.json", "ANALYZED", "triage/rebuttal.json", "REBUTTED",
     "triage/judged.json", "JUDGED", "reports/decisions.jsonl", "reports/index.html"}
      \cup ToSet(SlicePaths) \cup ToSet(ToolLogs)
Steps == [op : Ops, arg : Args, handler : SUBSET FailureStates]

\* The parts that depend on the command.
ProfileOf(c) == IF c.goal = "JUDGED" THEN ProfileSteps ELSE <<>>
InputOf(c) == IF c.mode = "sarif" THEN IngestSteps ELSE ScanSteps
SupplementOf(c) == IF c.goal = "JUDGED" /\ c.supplement THEN SupplementSteps ELSE <<>>
GoalOf(c) == IF c.goal = "JUDGED" THEN TriageGoalSteps ELSE ContextGoalSteps

\* The lists of paths are sequences.
LEMMA Lists ==
    /\ Len(ToolLogs) \in Nat /\ DOMAIN ToolLogs = 1 .. Len(ToolLogs)
    /\ Len(SlicePaths) \in Nat /\ DOMAIN SlicePaths = 1 .. Len(SlicePaths)
    /\ \A i \in DOMAIN ToolLogs : ToolLogs[i] \in ToSet(ToolLogs)
    /\ \A i \in DOMAIN SlicePaths : SlicePaths[i] \in ToSet(SlicePaths)
<1>1. ToolLogs \in Seq(STRING) /\ SlicePaths \in Seq(STRING)
  BY PipelineAssumption
<1> QED
  BY <1>1 DEF ToSet

\* A step is what Op makes it.
LEMMA OpFields ==
    ASSUME NEW o \in Ops, NEW a \in Args, NEW h \in SUBSET FailureStates
    PROVE  Op(o, a, h) \in Steps
  BY DEF Op, Steps

\* The steps that need no lists.
LEMMA FixedBlocks ==
    /\ PrepareSteps \in Seq(Steps) /\ Len(PrepareSteps) = 7
    /\ ProfileSteps \in Seq(Steps) /\ Len(ProfileSteps) = 1
    /\ IngestSteps \in Seq(Steps) /\ Len(IngestSteps) = 2
    /\ SupplementSteps \in Seq(Steps) /\ Len(SupplementSteps) = 2
    /\ NormalizeSteps \in Seq(Steps) /\ Len(NormalizeSteps) = 4
    /\ ContextGoalSteps \in Seq(Steps) /\ Len(ContextGoalSteps) = 1
    /\ TriageGoalSteps \in Seq(Steps) /\ Len(TriageGoalSteps) = 12
<1> USE DEF Ops, Args, Steps, FailureStates, Op
<1>1. PrepareSteps \in Seq(Steps) /\ Len(PrepareSteps) = 7
  BY DEF PrepareSteps
<1>2. ProfileSteps \in Seq(Steps) /\ Len(ProfileSteps) = 1
  BY DEF ProfileSteps
<1>3. IngestSteps \in Seq(Steps) /\ Len(IngestSteps) = 2
  BY DEF IngestSteps
<1>4. SupplementSteps \in Seq(Steps) /\ Len(SupplementSteps) = 2
  BY DEF SupplementSteps
<1>5. NormalizeSteps \in Seq(Steps) /\ Len(NormalizeSteps) = 4
  BY DEF NormalizeSteps
<1>6. ContextGoalSteps \in Seq(Steps) /\ Len(ContextGoalSteps) = 1
  BY DEF ContextGoalSteps
<1>7. TriageGoalSteps \in Seq(Steps) /\ Len(TriageGoalSteps) = 12
  BY DEF TriageGoalSteps
<1> QED
  BY <1>1, <1>2, <1>3, <1>4, <1>5, <1>6, <1>7, Zenon

\* The steps of a list of files.
LEMMA WritesAre ==
    ASSUME NEW paths, NEW h \in SUBSET FailureStates, Len(paths) \in Nat,
           DOMAIN paths = 1 .. Len(paths), \A i \in DOMAIN paths : paths[i] \in Args
    PROVE  /\ Writes(paths, h) \in Seq(Steps) /\ Len(Writes(paths, h)) = Len(paths)
           /\ \A i \in 1 .. Len(paths) : Writes(paths, h)[i] = Op("write", paths[i], h)
<1> DEFINE n == Len(paths)
<1>1. n \in Nat /\ Writes(paths, h) = [i \in 1 .. n |-> Op("write", paths[i], h)]
  BY DEF Writes
<1>2. \A i \in 1 .. n : Op("write", paths[i], h) \in Steps
  BY OpFields DEF Ops
<1> HIDE DEF n
<1>3. /\ Writes(paths, h) \in Seq(Steps) /\ Len(Writes(paths, h)) = n
      /\ \A i \in 1 .. n : Writes(paths, h)[i] = Op("write", paths[i], h)
  BY <1>1, <1>2
<1> QED
  BY <1>3 DEF n

\* The steps of a scan.
LEMMA ScanBlock ==
    ASSUME NEW n, n = Len(ToolLogs), NEW h, h = {"CODEQL_FAILED"}
    PROVE  /\ ScanSteps \in Seq(Steps) /\ Len(ScanSteps) = n + 8
           /\ ScanSteps[1] = Op("transition", "BUILD_READY", {})
           /\ ScanSteps[2] = Op("scan", "", h) /\ ScanSteps[3] = Op("versions", "", h)
           /\ \A i \in 1 .. n : ScanSteps[3 + i] = Op("record", ToolLogs[i], h)
           /\ ScanSteps[n + 4] = Op("record", RunMetadata, h)
           /\ ScanSteps[n + 5] = Op("record", ScanSarif, h)
           /\ ScanSteps[n + 6] = Op("check", ScanSarif, h)
           /\ ScanSteps[n + 7] = Op("transition", "CODEQL_DB_READY", h)
           /\ ScanSteps[n + 8] = Op("transition", "SCANNED", h)
<1> DEFINE a == <<Op("transition", "BUILD_READY", {}), Op("scan", "", h), Op("versions", "", h)>>
           b == [i \in DOMAIN ToolLogs |-> Op("record", ToolLogs[i], h)]
           c == <<Op("record", RunMetadata, h), Op("record", ScanSarif, h),
                  Op("check", ScanSarif, h), Op("transition", "CODEQL_DB_READY", h),
                  Op("transition", "SCANNED", h)>>
<1>1. h \in SUBSET FailureStates
  BY DEF FailureStates
<1>2. a \in Seq(Steps) /\ Len(a) = 3
  BY DEF Ops, Args, Steps, FailureStates, Op
<1>3. c \in Seq(Steps) /\ Len(c) = 5
  BY DEF Ops, Args, Steps, FailureStates, Op
<1>4. b \in Seq(Steps) /\ Len(b) = n /\ \A i \in 1 .. n : b[i] = Op("record", ToolLogs[i], h)
  <2>1. \A i \in 1 .. n : Op("record", ToolLogs[i], h) \in Steps
    BY <1>1, OpFields, Lists, Zenon DEF Ops, Args
  <2>2. n \in Nat /\ b = [i \in 1 .. n |-> Op("record", ToolLogs[i], h)]
    BY Lists
  <2> HIDE DEF b
  <2> QED
    BY <2>1, <2>2
<1>5. ScanSteps = a \o b \o c
  BY DEF ScanSteps
<1>6. /\ ScanSteps \in Seq(Steps) /\ Len(ScanSteps) = Len(a) + Len(b) + Len(c)
      /\ \A i \in 1 .. Len(a) : ScanSteps[i] = a[i]
      /\ \A i \in 1 .. Len(b) : ScanSteps[Len(a) + i] = b[i]
      /\ \A i \in 1 .. Len(c) : ScanSteps[Len(a) + Len(b) + i] = c[i]
  <2> HIDE DEF a, b, c
  <2>1. a \in Seq(Steps) /\ b \in Seq(Steps) /\ c \in Seq(Steps)
    BY <1>2, <1>3, <1>4
  <2>2. /\ a \o b \o c \in Seq(Steps) /\ Len(a \o b \o c) = Len(a) + Len(b) + Len(c)
        /\ \A i \in 1 .. Len(a) : (a \o b \o c)[i] = a[i]
        /\ \A i \in 1 .. Len(b) : (a \o b \o c)[Len(a) + i] = b[i]
        /\ \A i \in 1 .. Len(c) : (a \o b \o c)[Len(a) + Len(b) + i] = c[i]
    BY <2>1, ThreeJoined, SMTT(30)
  <2> QED
    BY <1>5, <2>2
<1>7. /\ a[1] = Op("transition", "BUILD_READY", {}) /\ a[2] = Op("scan", "", h)
      /\ a[3] = Op("versions", "", h) /\ c[1] = Op("record", RunMetadata, h)
      /\ c[2] = Op("record", ScanSarif, h) /\ c[3] = Op("check", ScanSarif, h)
      /\ c[4] = Op("transition", "CODEQL_DB_READY", h) /\ c[5] = Op("transition", "SCANNED", h)
  OBVIOUS
<1>8. n \in Nat
  BY Lists
<1> HIDE DEF a, b, c
<1>9. /\ ScanSteps \in Seq(Steps) /\ Len(ScanSteps) = n + 8
      /\ \A i \in 1 .. 3 : ScanSteps[i] = a[i]
      /\ \A i \in 1 .. n : ScanSteps[3 + i] = b[i]
      /\ \A i \in 1 .. 5 : ScanSteps[3 + n + i] = c[i]
  BY <1>2, <1>3, <1>4, <1>6, <1>8
<1>a. ScanSteps[1] = a[1] /\ ScanSteps[2] = a[2] /\ ScanSteps[3] = a[3]
  BY <1>9
<1>10. \A i \in 1 .. 5 : ScanSteps[n + 3 + i] = c[i]
  BY <1>8, <1>9
<1>11. /\ ScanSteps[n + 3 + 1] = c[1] /\ ScanSteps[n + 3 + 2] = c[2] /\ ScanSteps[n + 3 + 3] = c[3]
       /\ ScanSteps[n + 3 + 4] = c[4] /\ ScanSteps[n + 3 + 5] = c[5]
  BY <1>10
<1>12. n + 3 + 1 = n + 4 /\ n + 3 + 2 = n + 5 /\ n + 3 + 3 = n + 6 /\ n + 3 + 4 = n + 7
       /\ n + 3 + 5 = n + 8
  BY <1>8
<1> QED
  BY <1>4, <1>7, <1>9, <1>a, <1>11, <1>12, Zenon

\* The steps that build the contexts.
LEMMA ContextBlock ==
    ASSUME NEW m, m = Len(SlicePaths), NEW h, h = {"CONTEXT_INCOMPLETE"}
    PROVE  /\ ContextSteps \in Seq(Steps) /\ Len(ContextSteps) = m + 8
           /\ ContextSteps[1] = Op("work", "build slices", h)
           /\ \A i \in 1 .. m : ContextSteps[1 + i] = Op("write", SlicePaths[i], h)
           /\ ContextSteps[m + 2] = Op("write", "context/index.json", h)
           /\ ContextSteps[m + 3] = Op("work", BuildRegistry, h)
           /\ ContextSteps[m + 4] = Op("write", "evidence/registry.json", h)
           /\ ContextSteps[m + 5] = Op("write", "evidence/graph.dot", h)
           /\ ContextSteps[m + 6] = Op("write", "context/source-map.html", h)
           /\ ContextSteps[m + 7] = Op("versions", "", h)
           /\ ContextSteps[m + 8] = Op("transition", "CONTEXT_READY", h)
<1> DEFINE paths == <<"evidence/registry.json", "evidence/graph.dot", "context/source-map.html">>
           a == <<Op("work", "build slices", h)>>
           b == Writes(SlicePaths, h)
           c == <<Op("write", "context/index.json", h), Op("work", BuildRegistry, h)>>
           d == Writes(paths, h)
           e == <<Op("versions", "", h), Op("transition", "CONTEXT_READY", h)>>
           abc == a \o b \o c
<1>1. h \in SUBSET FailureStates
  BY DEF FailureStates
<1>2. /\ a \in Seq(Steps) /\ Len(a) = 1 /\ c \in Seq(Steps) /\ Len(c) = 2
      /\ e \in Seq(Steps) /\ Len(e) = 2
  BY DEF Ops, Args, Steps, FailureStates, Op
<1>3. /\ b \in Seq(Steps) /\ Len(b) = m
      /\ \A i \in 1 .. m : b[i] = Op("write", SlicePaths[i], h)
  BY <1>1, WritesAre, Lists, Zenon DEF Args
<1>4. d \in Seq(Steps) /\ Len(d) = 3 /\ \A i \in 1 .. 3 : d[i] = Op("write", paths[i], h)
  <2>a. Len(paths) = 3 /\ DOMAIN paths = 1 .. 3
    OBVIOUS
  <2>b. paths[1] \in Args /\ paths[2] \in Args /\ paths[3] \in Args
    BY DEF Args
  <2>1. Len(paths) = 3 /\ DOMAIN paths = 1 .. 3 /\ \A i \in DOMAIN paths : paths[i] \in Args
    <3> HIDE DEF paths
    <3>1. \A i \in 1 .. 3 : i = 1 \/ i = 2 \/ i = 3
      OBVIOUS
    <3> QED
      BY <2>a, <2>b, <3>1
  <2> HIDE DEF paths
  <2> QED
    BY <1>1, <2>1, WritesAre
<1>5. ContextSteps = abc \o d \o e
  BY DEF ContextSteps
<1>6. /\ a[1] = Op("work", "build slices", h) /\ c[1] = Op("write", "context/index.json", h)
      /\ c[2] = Op("work", BuildRegistry, h) /\ e[1] = Op("versions", "", h)
      /\ e[2] = Op("transition", "CONTEXT_READY", h)
      /\ d[1] = Op("write", "evidence/registry.json", h)
      /\ d[2] = Op("write", "evidence/graph.dot", h)
      /\ d[3] = Op("write", "context/source-map.html", h)
  <2>1. /\ d[1] = Op("write", paths[1], h) /\ d[2] = Op("write", paths[2], h)
        /\ d[3] = Op("write", paths[3], h)
    <3> HIDE DEF d, paths
    <3> QED
      BY <1>4
  <2>2. /\ paths[1] = "evidence/registry.json" /\ paths[2] = "evidence/graph.dot"
        /\ paths[3] = "context/source-map.html"
    OBVIOUS
  <2> HIDE DEF d, paths
  <2> QED
    BY <2>1, <2>2
<1>7. m \in Nat
  BY Lists
<1>l. Len(a) = 1 /\ Len(b) = m /\ Len(c) = 2 /\ Len(d) = 3 /\ Len(e) = 2
  <2> HIDE DEF a, b, c, d, e
  <2> QED
    BY <1>2, <1>3, <1>4
<1>8. /\ abc \in Seq(Steps) /\ Len(abc) = m + 3 /\ abc[1] = a[1]
      /\ \A i \in 1 .. m : abc[1 + i] = b[i]
      /\ abc[m + 2] = c[1] /\ abc[m + 3] = c[2]
  <2> HIDE DEF a, b, c
  <2>1. a \in Seq(Steps) /\ b \in Seq(Steps) /\ c \in Seq(Steps)
    BY <1>2, <1>3, Zenon
  <2>2. /\ abc \in Seq(Steps) /\ Len(abc) = Len(a) + Len(b) + Len(c)
        /\ \A i \in 1 .. Len(a) : abc[i] = a[i]
        /\ \A i \in 1 .. Len(b) : abc[Len(a) + i] = b[i]
        /\ \A i \in 1 .. Len(c) : abc[Len(a) + Len(b) + i] = c[i]
    BY <2>1, ThreeJoined, SMTT(30)
  <2> HIDE DEF abc
  <2>3. \A i \in 1 .. 2 : abc[m + 1 + i] = c[i]
    <3>1. Len(a) + Len(b) = m + 1 /\ Len(c) = 2
      BY <1>l, <1>7
    <3> QED
      BY <2>2, <3>1
  <2>4. abc[m + 1 + 1] = c[1] /\ abc[m + 1 + 2] = c[2]
    BY <2>3
  <2>5. m + 1 + 1 = m + 2 /\ m + 1 + 2 = m + 3
    BY <1>7
  <2>6. abc[1] = a[1]
    BY <1>l, <2>2
  <2>7. \A i \in 1 .. m : abc[1 + i] = b[i]
    BY <1>l, <2>2
  <2>8. Len(abc) = m + 3
    BY <1>l, <1>7, <2>2
  <2> QED
    BY <2>2, <2>4, <2>5, <2>6, <2>7, <2>8
<1> HIDE DEF a, b, c, d, e, abc, paths
<1>9. /\ ContextSteps \in Seq(Steps) /\ Len(ContextSteps) = m + 8
      /\ \A i \in 1 .. m + 3 : ContextSteps[i] = abc[i]
      /\ \A i \in 1 .. 3 : ContextSteps[m + 3 + i] = d[i]
      /\ \A i \in 1 .. 2 : ContextSteps[m + 6 + i] = e[i]
  <2>1. abc \in Seq(Steps) /\ d \in Seq(Steps) /\ e \in Seq(Steps)
    BY <1>2, <1>4, <1>8
  <2>2. /\ abc \o d \o e \in Seq(Steps) /\ Len(abc \o d \o e) = Len(abc) + Len(d) + Len(e)
        /\ \A i \in 1 .. Len(abc) : (abc \o d \o e)[i] = abc[i]
        /\ \A i \in 1 .. Len(d) : (abc \o d \o e)[Len(abc) + i] = d[i]
        /\ \A i \in 1 .. Len(e) : (abc \o d \o e)[Len(abc) + Len(d) + i] = e[i]
    BY <2>1, ThreeJoined, SMTT(30)
  <2>3. Len(abc) = m + 3 /\ Len(d) = 3 /\ Len(e) = 2 /\ Len(abc) + Len(d) = m + 6
        /\ Len(abc) + Len(d) + Len(e) = m + 8
    BY <1>l, <1>7, <1>8
  <2> QED
    BY <1>5, <2>2, <2>3
<1>10. /\ ContextSteps[1] = abc[1] /\ \A i \in 1 .. m : ContextSteps[1 + i] = abc[1 + i]
       /\ ContextSteps[m + 2] = abc[m + 2] /\ ContextSteps[m + 3] = abc[m + 3]
  BY <1>7, <1>9, SMTT(30)
<1>11. /\ ContextSteps[m + 3 + 1] = d[1] /\ ContextSteps[m + 3 + 2] = d[2]
       /\ ContextSteps[m + 3 + 3] = d[3]
       /\ ContextSteps[m + 6 + 1] = e[1] /\ ContextSteps[m + 6 + 2] = e[2]
  BY <1>9
<1>12. /\ m + 3 + 1 = m + 4 /\ m + 3 + 2 = m + 5 /\ m + 3 + 3 = m + 6 /\ m + 6 + 1 = m + 7
       /\ m + 6 + 2 = m + 8
  BY <1>7
<1> QED
  BY <1>3, <1>6, <1>8, <1>9, <1>10, <1>11, <1>12, Zenon

\* The ends of the parts are numbers, one not before the other.
LEMMA Ends ==
    ASSUME NEW c
    PROVE  /\ PrepEnd(c) \in {7, 8} /\ InputEnd(c) \in Nat /\ SupplementEnd(c) \in Nat
           /\ NormalizeEnd(c) \in Nat /\ ContextEnd(c) \in Nat /\ ProgramEnd(c) \in Nat
           /\ c.mode = "sarif" => InputEnd(c) = PrepEnd(c) + 2
           /\ c.mode # "sarif" => InputEnd(c) = PrepEnd(c) + Len(ToolLogs) + 8
           /\ PrepEnd(c) + 2 <= InputEnd(c)
           /\ SupplementEnd(c) = InputEnd(c) \/ SupplementEnd(c) = InputEnd(c) + 2
           /\ NormalizeEnd(c) = SupplementEnd(c) + 4
           /\ ContextEnd(c) = NormalizeEnd(c) + Len(SlicePaths) + 8
           /\ ProgramEnd(c) = ContextEnd(c) + 12 \/ ProgramEnd(c) = ContextEnd(c) + 1
           /\ Len(SlicePaths) \in Nat /\ Len(ToolLogs) \in Nat
           /\ PrepEnd(c) \in Nat /\ 7 <= PrepEnd(c) /\ 9 <= InputEnd(c)
           /\ InputEnd(c) <= SupplementEnd(c) /\ SupplementEnd(c) < NormalizeEnd(c)
           /\ NormalizeEnd(c) + 8 <= ContextEnd(c) /\ ContextEnd(c) < ProgramEnd(c)
<1>1. PrepEnd(c) \in {7, 8}
  BY DEF PrepEnd
<1>2. Len(SlicePaths) \in Nat /\ Len(ToolLogs) \in Nat
  BY Lists
<1>3. /\ InputEnd(c) \in Nat /\ PrepEnd(c) + 2 <= InputEnd(c)
      /\ c.mode = "sarif" => InputEnd(c) = PrepEnd(c) + 2
      /\ c.mode # "sarif" => InputEnd(c) = PrepEnd(c) + Len(ToolLogs) + 8
  <2>1. CASE c.mode = "sarif"
    BY <1>1, <2>1 DEF InputEnd
  <2>2. CASE c.mode # "sarif"
    BY <1>1, <1>2, <2>2 DEF InputEnd
  <2> QED
    BY <2>1, <2>2
<1>4. SupplementEnd(c) \in Nat /\ (SupplementEnd(c) = InputEnd(c) \/ SupplementEnd(c) = InputEnd(c) + 2)
  BY <1>3 DEF SupplementEnd
<1>5. NormalizeEnd(c) \in Nat
  BY <1>4 DEF NormalizeEnd
<1>6. ContextEnd(c) \in Nat
  BY <1>2, <1>5 DEF ContextEnd
<1>7. ProgramEnd(c) \in Nat /\ (ProgramEnd(c) = ContextEnd(c) + 12 \/ ProgramEnd(c) = ContextEnd(c) + 1)
  BY <1>6 DEF ProgramEnd
<1>8. NormalizeEnd(c) = SupplementEnd(c) + 4 /\ ContextEnd(c) = NormalizeEnd(c) + Len(SlicePaths) + 8
  BY DEF NormalizeEnd, ContextEnd
<1>9. PrepEnd(c) \in Nat /\ 7 <= PrepEnd(c)
  BY <1>1
<1>10. 9 <= InputEnd(c) /\ InputEnd(c) <= SupplementEnd(c)
  BY <1>3, <1>4, <1>9
<1>11. SupplementEnd(c) < NormalizeEnd(c)
  BY <1>4, <1>8
<1>12. NormalizeEnd(c) + 8 <= ContextEnd(c)
  BY <1>2, <1>5, <1>8
<1>13. ContextEnd(c) < ProgramEnd(c)
  BY <1>6, <1>7
<1> QED
  BY <1>1, <1>2, <1>3, <1>4, <1>5, <1>6, <1>7, <1>8, <1>9, <1>10, <1>11, <1>12, <1>13

\* Where the parts of a program begin and end.
LEMMA Layout ==
    ASSUME NEW c \in Commands
    PROVE  /\ Program(c) \in Seq(Steps) /\ Len(Program(c)) = ProgramEnd(c)
           /\ \A k \in 1 .. 7 : Program(c)[k] = PrepareSteps[k]
           /\ \A k \in 1 .. PrepEnd(c) - 7 : Program(c)[7 + k] = ProfileSteps[k]
           /\ \A k \in 1 .. InputEnd(c) - PrepEnd(c) : Program(c)[PrepEnd(c) + k] = InputOf(c)[k]
           /\ \A k \in 1 .. SupplementEnd(c) - InputEnd(c) :
                Program(c)[InputEnd(c) + k] = SupplementSteps[k]
           /\ \A k \in 1 .. 4 : Program(c)[SupplementEnd(c) + k] = NormalizeSteps[k]
           /\ \A k \in 1 .. Len(SlicePaths) + 8 :
                Program(c)[NormalizeEnd(c) + k] = ContextSteps[k]
           /\ \A k \in 1 .. ProgramEnd(c) - ContextEnd(c) :
                Program(c)[ContextEnd(c) + k] = GoalOf(c)[k]
<1> DEFINE n == Len(ToolLogs)
           m == Len(SlicePaths)
           x == PrepareSteps \o ProfileOf(c) \o InputOf(c)
           y == x \o SupplementOf(c) \o NormalizeSteps
           z == y \o ContextSteps \o GoalOf(c)
<1>1. n \in Nat /\ m \in Nat
  BY Lists
<1>2. Program(c) = z
  BY DEF Program, ProfileOf, InputOf, SupplementOf, GoalOf
<1>e. /\ PrepEnd(c) \in {7, 8} /\ InputEnd(c) \in Nat /\ SupplementEnd(c) \in Nat
      /\ NormalizeEnd(c) \in Nat /\ ContextEnd(c) \in Nat /\ ProgramEnd(c) \in Nat
      /\ c.mode = "sarif" => InputEnd(c) = PrepEnd(c) + 2
      /\ c.mode # "sarif" => InputEnd(c) = PrepEnd(c) + n + 8
      /\ PrepEnd(c) + 2 <= InputEnd(c)
      /\ SupplementEnd(c) = InputEnd(c) \/ SupplementEnd(c) = InputEnd(c) + 2
      /\ NormalizeEnd(c) = SupplementEnd(c) + 4 /\ ContextEnd(c) = NormalizeEnd(c) + m + 8
      /\ ProgramEnd(c) = ContextEnd(c) + 12 \/ ProgramEnd(c) = ContextEnd(c) + 1
  BY Ends
<1> HIDE DEF n, m
<1>n. /\ PrepEnd(c) \in Int /\ InputEnd(c) \in Int /\ SupplementEnd(c) \in Int
      /\ NormalizeEnd(c) \in Int /\ ContextEnd(c) \in Int /\ ProgramEnd(c) \in Int /\ m \in Int
  BY <1>1, <1>e
<1>a. \A a, b \in Int : a + (b - a) = b
  OBVIOUS
<1>b. \A a \in Int : 7 + (a - 7) = a
  OBVIOUS
<1>3. /\ PrepareSteps \in Seq(Steps) /\ Len(PrepareSteps) = 7
      /\ ProfileOf(c) \in Seq(Steps) /\ Len(ProfileOf(c)) = PrepEnd(c) - 7
      /\ \A k \in 1 .. PrepEnd(c) - 7 : ProfileOf(c)[k] = ProfileSteps[k]
  <2>1. CASE c.goal = "JUDGED"
    BY <2>1, FixedBlocks DEF ProfileOf, PrepEnd
  <2>2. CASE c.goal # "JUDGED"
    BY <2>2, FixedBlocks DEF ProfileOf, PrepEnd
  <2> QED
    BY <2>1, <2>2
<1>4. InputOf(c) \in Seq(Steps) /\ Len(InputOf(c)) = InputEnd(c) - PrepEnd(c)
  <2>1. CASE c.mode = "sarif"
    <3>1. InputOf(c) = IngestSteps /\ InputEnd(c) = PrepEnd(c) + 2
      BY <2>1, <1>e DEF InputOf
    <3>2. InputEnd(c) - PrepEnd(c) = 2
      BY <1>e, <3>1
    <3> QED
      BY <3>1, <3>2, FixedBlocks
  <2>2. CASE c.mode # "sarif"
    <3>1. ScanSteps \in Seq(Steps) /\ Len(ScanSteps) = n + 8
      BY ScanBlock, Zenon DEF n
    <3>2. InputOf(c) = ScanSteps /\ InputEnd(c) = PrepEnd(c) + n + 8
      BY <2>2, <1>e DEF InputOf
    <3>3. InputEnd(c) - PrepEnd(c) = n + 8
      BY <1>1, <1>e, <3>2
    <3> QED
      BY <3>1, <3>2, <3>3
  <2> QED
    BY <2>1, <2>2
<1>5. /\ SupplementOf(c) \in Seq(Steps) /\ Len(SupplementOf(c)) = SupplementEnd(c) - InputEnd(c)
      /\ \A k \in 1 .. SupplementEnd(c) - InputEnd(c) : SupplementOf(c)[k] = SupplementSteps[k]
  <2>1. CASE c.goal = "JUDGED" /\ c.supplement
    <3>1. SupplementOf(c) = SupplementSteps /\ SupplementEnd(c) = InputEnd(c) + 2
      BY <2>1 DEF SupplementOf, SupplementEnd
    <3>2. SupplementEnd(c) - InputEnd(c) = 2
      BY <1>e, <3>1
    <3> QED
      BY <3>1, <3>2, FixedBlocks
  <2>2. CASE ~(c.goal = "JUDGED" /\ c.supplement)
    <3>1. SupplementOf(c) = <<>> /\ SupplementEnd(c) = InputEnd(c) + 0
      BY <2>2 DEF SupplementOf, SupplementEnd
    <3>2. SupplementEnd(c) - InputEnd(c) = 0
      BY <1>e, <3>1
    <3> QED
      BY <3>1, <3>2
  <2> QED
    BY <2>1, <2>2
<1>6. /\ NormalizeSteps \in Seq(Steps) /\ Len(NormalizeSteps) = 4
      /\ ContextSteps \in Seq(Steps) /\ Len(ContextSteps) = m + 8
  BY FixedBlocks, ContextBlock, Zenon DEF m
<1>7. GoalOf(c) \in Seq(Steps) /\ Len(GoalOf(c)) = ProgramEnd(c) - ContextEnd(c)
  <2>2. CASE c.goal = "JUDGED"
    <3>1. GoalOf(c) = TriageGoalSteps /\ ProgramEnd(c) = ContextEnd(c) + 12
      BY <2>2 DEF GoalOf, ProgramEnd
    <3>2. ProgramEnd(c) - ContextEnd(c) = 12
      BY <1>e, <3>1
    <3> QED
      BY <3>1, <3>2, FixedBlocks
  <2>3. CASE c.goal # "JUDGED"
    <3>1. GoalOf(c) = ContextGoalSteps /\ ProgramEnd(c) = ContextEnd(c) + 1
      BY <2>3 DEF GoalOf, ProgramEnd
    <3>2. ProgramEnd(c) - ContextEnd(c) = 1
      BY <1>e, <3>1
    <3> QED
      BY <3>1, <3>2, FixedBlocks
  <2> QED
    BY <2>2, <2>3
<1>l. /\ Len(PrepareSteps) = 7 /\ Len(ProfileOf(c)) = PrepEnd(c) - 7
      /\ Len(InputOf(c)) = InputEnd(c) - PrepEnd(c)
      /\ Len(SupplementOf(c)) = SupplementEnd(c) - InputEnd(c)
      /\ Len(NormalizeSteps) = 4 /\ Len(ContextSteps) = m + 8
      /\ Len(GoalOf(c)) = ProgramEnd(c) - ContextEnd(c)
  BY <1>3, <1>4, <1>5, <1>6, <1>7
<1>s. /\ PrepareSteps \in Seq(Steps) /\ ProfileOf(c) \in Seq(Steps) /\ InputOf(c) \in Seq(Steps)
      /\ SupplementOf(c) \in Seq(Steps) /\ NormalizeSteps \in Seq(Steps)
      /\ ContextSteps \in Seq(Steps) /\ GoalOf(c) \in Seq(Steps)
  BY <1>3, <1>4, <1>5, <1>6, <1>7
<1>8. /\ x \in Seq(Steps) /\ Len(x) = InputEnd(c)
      /\ \A k \in 1 .. 7 : x[k] = PrepareSteps[k]
      /\ \A k \in 1 .. PrepEnd(c) - 7 : x[7 + k] = ProfileOf(c)[k]
      /\ \A k \in 1 .. InputEnd(c) - PrepEnd(c) : x[PrepEnd(c) + k] = InputOf(c)[k]
  <2>1. /\ x \in Seq(Steps) /\ Len(x) = Len(PrepareSteps) + Len(ProfileOf(c)) + Len(InputOf(c))
        /\ \A k \in 1 .. Len(PrepareSteps) : x[k] = PrepareSteps[k]
        /\ \A k \in 1 .. Len(ProfileOf(c)) : x[Len(PrepareSteps) + k] = ProfileOf(c)[k]
        /\ \A k \in 1 .. Len(InputOf(c)) :
             x[Len(PrepareSteps) + Len(ProfileOf(c)) + k] = InputOf(c)[k]
    <3>1. PrepareSteps \in Seq(Steps) /\ ProfileOf(c) \in Seq(Steps) /\ InputOf(c) \in Seq(Steps)
      BY <1>s
    <3> QED
      BY <3>1, ThreeJoined, SMTT(30)
  <2> HIDE DEF x
  <2>2. /\ Len(PrepareSteps) + Len(ProfileOf(c)) = PrepEnd(c)
        /\ Len(PrepareSteps) + Len(ProfileOf(c)) + Len(InputOf(c)) = InputEnd(c)
    BY <1>n, <1>a, <1>b, <1>l, SMTT(30)
  <2> QED
    BY <1>l, <2>1, <2>2
<1> HIDE DEF x
<1>9. /\ y \in Seq(Steps) /\ Len(y) = NormalizeEnd(c)
      /\ \A k \in 1 .. InputEnd(c) : y[k] = x[k]
      /\ \A k \in 1 .. SupplementEnd(c) - InputEnd(c) : y[InputEnd(c) + k] = SupplementOf(c)[k]
      /\ \A k \in 1 .. 4 : y[SupplementEnd(c) + k] = NormalizeSteps[k]
  <2>1. /\ y \in Seq(Steps) /\ Len(y) = Len(x) + Len(SupplementOf(c)) + Len(NormalizeSteps)
        /\ \A k \in 1 .. Len(x) : y[k] = x[k]
        /\ \A k \in 1 .. Len(SupplementOf(c)) : y[Len(x) + k] = SupplementOf(c)[k]
        /\ \A k \in 1 .. Len(NormalizeSteps) :
             y[Len(x) + Len(SupplementOf(c)) + k] = NormalizeSteps[k]
    <3>1. x \in Seq(Steps) /\ SupplementOf(c) \in Seq(Steps) /\ NormalizeSteps \in Seq(Steps)
      BY <1>s, <1>8
    <3> QED
      BY <3>1, ThreeJoined, SMTT(30)
  <2> HIDE DEF y
  <2>2. /\ Len(x) + Len(SupplementOf(c)) = SupplementEnd(c)
        /\ Len(x) + Len(SupplementOf(c)) + Len(NormalizeSteps) = NormalizeEnd(c)
    <3>1. Len(x) + Len(SupplementOf(c)) = SupplementEnd(c)
      <4>1. Len(x) = InputEnd(c) /\ Len(SupplementOf(c)) = SupplementEnd(c) - InputEnd(c)
        BY <1>l, <1>8
      <4>2. InputEnd(c) + (SupplementEnd(c) - InputEnd(c)) = SupplementEnd(c)
        BY <1>n
      <4> QED
        BY <4>1, <4>2
    <3> QED
      BY <1>e, <1>l, <3>1
  <2> QED
    BY <1>l, <1>8, <2>1, <2>2
<1> HIDE DEF y
<1>10. /\ z \in Seq(Steps) /\ Len(z) = ProgramEnd(c)
       /\ \A k \in 1 .. NormalizeEnd(c) : z[k] = y[k]
       /\ \A k \in 1 .. m + 8 : z[NormalizeEnd(c) + k] = ContextSteps[k]
       /\ \A k \in 1 .. ProgramEnd(c) - ContextEnd(c) : z[ContextEnd(c) + k] = GoalOf(c)[k]
  <2>1. /\ z \in Seq(Steps) /\ Len(z) = Len(y) + Len(ContextSteps) + Len(GoalOf(c))
        /\ \A k \in 1 .. Len(y) : z[k] = y[k]
        /\ \A k \in 1 .. Len(ContextSteps) : z[Len(y) + k] = ContextSteps[k]
        /\ \A k \in 1 .. Len(GoalOf(c)) :
             z[Len(y) + Len(ContextSteps) + k] = GoalOf(c)[k]
    <3>1. y \in Seq(Steps) /\ ContextSteps \in Seq(Steps) /\ GoalOf(c) \in Seq(Steps)
      BY <1>s, <1>9
    <3> QED
      BY <3>1, ThreeJoined, SMTT(30)
  <2> HIDE DEF z
  <2>2. /\ Len(y) + Len(ContextSteps) = ContextEnd(c)
        /\ Len(y) + Len(ContextSteps) + Len(GoalOf(c)) = ProgramEnd(c)
    <3>1. Len(y) + Len(ContextSteps) = ContextEnd(c)
      <4>1. Len(y) = NormalizeEnd(c) /\ Len(ContextSteps) = m + 8
        BY <1>l, <1>9
      <4>2. NormalizeEnd(c) + (m + 8) = NormalizeEnd(c) + m + 8
        BY <1>n
      <4> QED
        BY <1>e, <4>1, <4>2
    <3> QED
      BY <1>n, <1>a, <1>l, <3>1, SMTT(30)
  <2> QED
    BY <1>l, <1>9, <2>1, <2>2
<1> HIDE DEF z
<1>11. /\ 7 <= PrepEnd(c) /\ PrepEnd(c) <= InputEnd(c) /\ InputEnd(c) <= SupplementEnd(c)
       /\ SupplementEnd(c) + 4 = NormalizeEnd(c) /\ PrepEnd(c) \in Nat
  BY <1>e
<1>12. \A k \in 1 .. InputEnd(c) : z[k] = x[k]
  <2>1. \A k \in 1 .. InputEnd(c) : k \in 1 .. NormalizeEnd(c)
    BY <1>e, <1>11
  <2> QED
    BY <1>9, <1>10, <2>1
<1>13. ASSUME NEW k \in 1 .. 7 PROVE z[k] = PrepareSteps[k]
  <2>1. k \in 1 .. InputEnd(c)
    BY <1>e, <1>11
  <2> QED
    BY <1>8, <1>12, <2>1
<1>14. ASSUME NEW k \in 1 .. PrepEnd(c) - 7 PROVE z[7 + k] = ProfileSteps[k]
  <2>1. 7 + k \in 1 .. InputEnd(c)
    BY <1>e, <1>11
  <2> QED
    BY <1>3, <1>8, <1>12, <2>1
<1>15. ASSUME NEW k \in 1 .. InputEnd(c) - PrepEnd(c) PROVE z[PrepEnd(c) + k] = InputOf(c)[k]
  <2>1. PrepEnd(c) + k \in 1 .. InputEnd(c)
    BY <1>e, <1>11
  <2> QED
    BY <1>8, <1>12, <2>1
<1>16. ASSUME NEW k \in 1 .. SupplementEnd(c) - InputEnd(c)
       PROVE  z[InputEnd(c) + k] = SupplementSteps[k]
  <2>1. InputEnd(c) + k \in 1 .. NormalizeEnd(c)
    BY <1>n, <1>e, <1>11
  <2> QED
    BY <1>5, <1>9, <1>10, <2>1
<1>17. ASSUME NEW k \in 1 .. 4 PROVE z[SupplementEnd(c) + k] = NormalizeSteps[k]
  <2>1. SupplementEnd(c) + k \in 1 .. NormalizeEnd(c)
    BY <1>e, <1>11
  <2> QED
    BY <1>9, <1>10, <2>1
<1> QED
  BY <1>2, <1>10, <1>13, <1>14, <1>15, <1>16, <1>17 DEF m

-----------------------------------------------------------------------------
(* The state of the journal and the steps at every place. *)

\* The state of the journal before step i.
StageAt(c, i) ==
    IF i <= 5 THEN "CREATED" ELSE IF i = 6 THEN "PROJECT_VALIDATED"
    ELSE IF i = 7 THEN "WORKSPACE_READY" ELSE IF i <= PrepEnd(c) + 1 THEN "SOURCE_READY"
    ELSE IF c.mode = "sarif" /\ i <= InputEnd(c) THEN "SOURCE_READY"
    ELSE IF i <= InputEnd(c) - 1 THEN "BUILD_READY"
    ELSE IF i = InputEnd(c) THEN "CODEQL_DB_READY"
    ELSE IF i <= NormalizeEnd(c) THEN IF c.mode = "sarif" THEN "SARIF_INGESTED" ELSE "SCANNED"
    ELSE IF i <= ContextEnd(c) THEN "NORMALIZED" ELSE IF i <= ContextEnd(c) + 4 THEN "CONTEXT_READY"
    ELSE IF i <= ContextEnd(c) + 6 THEN "ANALYZED" ELSE IF i <= ContextEnd(c) + 8 THEN "REBUTTED"
    ELSE "JUDGED"

\* Operations that write or record a file of the run.
Writing == {"write", "ingest", "record"}

\* A transition follows an edge of the journal, on the branch of the mode, and
\* only SCANNED ends the input of a scan; no other step moves the journal.
Moves(c, i, s) ==
    /\ s.op = "transition" =>
         /\ i > 4 /\ <<StageAt(c, i), s.arg>> \in JournalEdges /\ s.arg = StageAt(c, i + 1)
         /\ StageAt(c, i) # c.goal
         /\ s.arg \notin (IF c.mode = "sarif" THEN ScanBranch ELSE IngestBranch)
         /\ s.arg = "SCANNED" => c.mode # "sarif" /\ i = InputEnd(c)
    /\ s.op # "transition" => StageAt(c, i + 1) = StageAt(c, i)

\* The failure states of a handler belong to the stage of the step.
Handles(c, i, s) ==
    \A f \in s.handler :
         /\ f \in FailureStates /\ i > 7 /\ StageAt(c, i) \in StagesOf(f)
         /\ s.op = "transition" => s.arg \in StagesOf(f)
         /\ f = "CODEQL_FAILED" => c.mode # "sarif" /\ i <= InputEnd(c)
         /\ f # "CODEQL_FAILED" /\ c.mode # "sarif" => i <= PrepEnd(c) \/ i > InputEnd(c)

\* Which steps are found where.
Places(c, i, s) ==
    /\ i <= 4 => s.op \in {"work", "open", "register"}
    /\ (s.op = "complete") <=> (i = ProgramEnd(c))
    /\ (s.op = "open") <=> (i = 2)
    /\ (s.op = "register") <=> (i = 3 \/ i = 4)
    /\ (s.op = "scan") <=> (c.mode # "sarif" /\ i = PrepEnd(c) + 2)
    /\ (s.op = "check") <=> (c.mode # "sarif" /\ i = InputEnd(c) - 2)

\* Step s is at home at place i.
Fits(c, i, s) ==
    /\ Places(c, i, s)
    /\ s.op = "complete" => StageAt(c, i) = c.goal
    /\ s.arg = BuildRegistry => i > 4
    /\ s.op \in Writing =>
         /\ i > PrepEnd(c) /\ (c.mode # "sarif" => i > PrepEnd(c) + 2)
         /\ s.arg \notin Reserved
    /\ s.op = "scan" => s.handler = {"CODEQL_FAILED"}
    /\ Moves(c, i, s) /\ Handles(c, i, s)

\* A command is one of the four kinds.
LEMMA CommandKinds ==
    ASSUME NEW c \in Commands
    PROVE  c.mode \in {"sarif", "scan"} /\ c.goal \in {"CONTEXT_READY", "JUDGED"}
  BY PipelineAssumption DEF Modes, GoalStates

\* A step that neither moves the journal nor belongs to the scan.
LEMMA PlainFits ==
    ASSUME NEW c \in Commands, NEW i \in Int, i > 7, i # ProgramEnd(c),
           c.mode # "sarif" => i # PrepEnd(c) + 2 /\ i # InputEnd(c) - 2,
           NEW o \in {"work", "versions", "write", "ingest", "record"}, NEW a, a \notin Reserved,
           o \in Writing => i > PrepEnd(c) /\ (c.mode # "sarif" => i > PrepEnd(c) + 2),
           NEW g, StageAt(c, i) = g, StageAt(c, i + 1) = g,
           NEW h \in SUBSET FailureStates, \A f \in h : g \in StagesOf(f),
           "CODEQL_FAILED" \in h => c.mode # "sarif" /\ i <= InputEnd(c),
           c.mode # "sarif" =>
             h \subseteq {"CODEQL_FAILED"} \/ i <= PrepEnd(c) \/ i > InputEnd(c)
    PROVE  Fits(c, i, Op(o, a, h))
<1> DEFINE s == Op(o, a, h)
<1>1. s = [op |-> o, arg |-> a, handler |-> h]
  BY DEF Op
<1>2. s.op = o /\ s.arg = a /\ s.handler = h
  BY <1>1
<1>3. o # "complete" /\ o # "open" /\ o # "register" /\ o # "scan" /\ o # "check" /\ o # "transition"
  OBVIOUS
<1> HIDE DEF s
<1>4. Places(c, i, s)
  BY <1>2, <1>3 DEF Places
<1>5. Moves(c, i, s)
  BY <1>2, <1>3 DEF Moves
<1>6. Handles(c, i, s)
  BY <1>2, <1>3 DEF Handles
<1> QED
  BY <1>2, <1>3, <1>4, <1>5, <1>6 DEF Fits, s

\* A step that moves the journal.
LEMMA MoveFits ==
    ASSUME NEW c \in Commands, NEW i \in Int, i > 4, i # ProgramEnd(c),
           c.mode # "sarif" => i # PrepEnd(c) + 2 /\ i # InputEnd(c) - 2,
           NEW a, NEW g, StageAt(c, i) = g, StageAt(c, i + 1) = a, <<g, a>> \in JournalEdges,
           g # c.goal, a \notin (IF c.mode = "sarif" THEN ScanBranch ELSE IngestBranch),
           a # BuildRegistry, a = "SCANNED" => c.mode # "sarif" /\ i = InputEnd(c),
           NEW h \in SUBSET FailureStates, \A f \in h : g \in StagesOf(f) /\ a \in StagesOf(f),
           h # {} => i > 7,
           "CODEQL_FAILED" \in h => c.mode # "sarif" /\ i <= InputEnd(c),
           c.mode # "sarif" =>
             h \subseteq {"CODEQL_FAILED"} \/ i <= PrepEnd(c) \/ i > InputEnd(c)
    PROVE  Fits(c, i, Op("transition", a, h))
<1> DEFINE s == Op("transition", a, h)
<1>1. s = [op |-> "transition", arg |-> a, handler |-> h]
  BY DEF Op
<1>2. s.op = "transition" /\ s.arg = a /\ s.handler = h
  BY <1>1
<1> HIDE DEF s
<1>4. Places(c, i, s)
  BY <1>2 DEF Places
<1>5. Moves(c, i, s)
  BY <1>2 DEF Moves
<1>6. Handles(c, i, s)
  BY <1>2 DEF Handles
<1> QED
  BY <1>2, <1>4, <1>5, <1>6 DEF Fits, Writing, s

-----------------------------------------------------------------------------
(* Every step is at its place. *)

\* The preparation.
LEMMA PrepareFits ==
    ASSUME NEW c \in Commands, NEW k \in 1 .. 7
    PROVE  Fits(c, k, PrepareSteps[k])
<1>1. /\ PrepEnd(c) \in Int /\ InputEnd(c) \in Int /\ ProgramEnd(c) \in Int
      /\ PrepEnd(c) >= 7 /\ InputEnd(c) >= 9 /\ ProgramEnd(c) >= 14
      /\ c.mode # "sarif" => InputEnd(c) >= 15
  <2>1. /\ PrepEnd(c) \in Nat /\ 7 <= PrepEnd(c) /\ 9 <= InputEnd(c) /\ InputEnd(c) <= SupplementEnd(c)
        /\ SupplementEnd(c) < NormalizeEnd(c) /\ NormalizeEnd(c) + 8 <= ContextEnd(c)
        /\ ContextEnd(c) < ProgramEnd(c)
        /\ InputEnd(c) \in Nat /\ SupplementEnd(c) \in Nat /\ NormalizeEnd(c) \in Nat
        /\ ContextEnd(c) \in Nat /\ ProgramEnd(c) \in Nat /\ Len(ToolLogs) \in Nat
        /\ c.mode # "sarif" => InputEnd(c) = PrepEnd(c) + Len(ToolLogs) + 8
    BY Ends
  <2> QED
    BY <2>1
<1>2. c.mode \in {"sarif", "scan"} /\ c.goal \in {"CONTEXT_READY", "JUDGED"}
  BY CommandKinds
<1>4. /\ StageAt(c, 1) = "CREATED" /\ StageAt(c, 2) = "CREATED" /\ StageAt(c, 3) = "CREATED"
      /\ StageAt(c, 4) = "CREATED" /\ StageAt(c, 5) = "CREATED"
      /\ StageAt(c, 6) = "PROJECT_VALIDATED" /\ StageAt(c, 7) = "WORKSPACE_READY"
      /\ StageAt(c, 8) = "SOURCE_READY"
  BY <1>1 DEF StageAt
<1>5. ASSUME NEW o \in {"work", "open", "register"}, NEW a, a # BuildRegistry, NEW i \in 1 .. 4,
             (o = "open") <=> (i = 2), (o = "register") <=> (i = 3 \/ i = 4)
      PROVE  Fits(c, i, Op(o, a, {}))
  <2> DEFINE s == Op(o, a, {})
  <2>1. s = [op |-> o, arg |-> a, handler |-> {}]
    BY DEF Op
  <2>2. s.op = o /\ s.arg = a /\ s.handler = {}
    BY <2>1
  <2>3. StageAt(c, i + 1) = StageAt(c, i)
    BY <1>4
  <2> HIDE DEF s
  <2>4. Places(c, i, s)
    BY <1>1, <1>5, <2>2 DEF Places
  <2> QED
    BY <2>2, <2>3, <2>4, <1>5 DEF Fits, Moves, Handles, Writing, s
<1>6. /\ Fits(c, 1, Op("work", "allocate workspace", {})) /\ Fits(c, 2, Op("open", "", {}))
      /\ Fits(c, 3, Op("register", "", {})) /\ Fits(c, 4, Op("register", "", {}))
  <2>1. "" # BuildRegistry /\ "allocate workspace" # BuildRegistry
    BY DEF BuildRegistry
  <2>2. ASSUME NEW a, a # BuildRegistry PROVE Fits(c, 1, Op("work", a, {}))
    <3>1. 1 \in 1 .. 4 /\ "work" \in {"work", "open", "register"} /\ 1 # 2 /\ 1 # 3 /\ 1 # 4
          /\ "work" # "open" /\ "work" # "register"
      OBVIOUS
    <3> QED
      BY <1>5, <2>2, <3>1, Zenon
  <2>3. ASSUME NEW a, a # BuildRegistry PROVE Fits(c, 2, Op("open", a, {}))
    <3>1. 2 \in 1 .. 4 /\ "open" \in {"work", "open", "register"} /\ 2 # 3 /\ 2 # 4
          /\ "open" # "register"
      OBVIOUS
    <3> QED
      BY <1>5, <2>3, <3>1, Zenon
  <2>4. ASSUME NEW a, a # BuildRegistry, NEW i \in {3, 4} PROVE Fits(c, i, Op("register", a, {}))
    <3>1. i \in 1 .. 4 /\ "register" \in {"work", "open", "register"} /\ i # 2 /\ (i = 3 \/ i = 4)
          /\ "open" # "register"
      OBVIOUS
    <3> QED
      BY <1>5, <2>4, <3>1, Zenon
  <2> QED
    BY <2>1, <2>2, <2>3, <2>4, Zenon
<1>7. ASSUME NEW i \in 5 .. 7, NEW g, NEW a, StageAt(c, i) = g, StageAt(c, i + 1) = a,
             <<g, a>> \in JournalEdges, g \in {"CREATED", "PROJECT_VALIDATED", "WORKSPACE_READY"},
             a \in {"PROJECT_VALIDATED", "WORKSPACE_READY", "SOURCE_READY"}
      PROVE  Fits(c, i, Op("transition", a, {}))
  <2>1. i > 4 /\ i # ProgramEnd(c) /\ (c.mode # "sarif" => i # PrepEnd(c) + 2 /\ i # InputEnd(c) - 2)
    BY <1>1
  <2>2. /\ g # c.goal /\ a \notin (IF c.mode = "sarif" THEN ScanBranch ELSE IngestBranch)
        /\ a # BuildRegistry /\ a # "SCANNED"
    BY <1>2, <1>7, Zenon DEF ScanBranch, IngestBranch, BuildRegistry
  <2>3. i \in Int /\ {} \in SUBSET FailureStates
    OBVIOUS
  <2> QED
    BY <1>7, <2>1, <2>2, <2>3, MoveFits
<1>8. /\ Fits(c, 5, Op("transition", "PROJECT_VALIDATED", {}))
      /\ Fits(c, 6, Op("transition", "WORKSPACE_READY", {}))
      /\ Fits(c, 7, Op("transition", "SOURCE_READY", {}))
  <2>1. /\ <<"CREATED", "PROJECT_VALIDATED">> \in JournalEdges
        /\ <<"PROJECT_VALIDATED", "WORKSPACE_READY">> \in JournalEdges
        /\ <<"WORKSPACE_READY", "SOURCE_READY">> \in JournalEdges
    BY DEF JournalEdges
  <2> QED
    BY <1>4, <1>7, <2>1
<1>3. /\ PrepareSteps[1] = Op("work", "allocate workspace", {})
      /\ PrepareSteps[2] = Op("open", "", {})
      /\ PrepareSteps[3] = Op("register", "", {})
      /\ PrepareSteps[4] = Op("register", "", {})
      /\ PrepareSteps[5] = Op("transition", "PROJECT_VALIDATED", {})
      /\ PrepareSteps[6] = Op("transition", "WORKSPACE_READY", {})
      /\ PrepareSteps[7] = Op("transition", "SOURCE_READY", {})
  BY DEF PrepareSteps
<1>9. k = 1 \/ k = 2 \/ k = 3 \/ k = 4 \/ k = 5 \/ k = 6 \/ k = 7
  OBVIOUS
<1> QED
  BY <1>3, <1>6, <1>8, <1>9, Zenon

\* The numbers the other parts begin and end at.
LEMMA Numbers ==
    ASSUME NEW c \in Commands
    PROVE  /\ PrepEnd(c) \in Int /\ InputEnd(c) \in Int /\ SupplementEnd(c) \in Int
           /\ NormalizeEnd(c) \in Int /\ ContextEnd(c) \in Int /\ ProgramEnd(c) \in Int
           /\ Len(SlicePaths) \in Nat /\ Len(ToolLogs) \in Nat
           /\ c.goal = "JUDGED" => PrepEnd(c) = 8
           /\ c.goal # "JUDGED" => PrepEnd(c) = 7
           /\ c.mode = "sarif" => InputEnd(c) = PrepEnd(c) + 2
           /\ c.mode # "sarif" => InputEnd(c) = PrepEnd(c) + Len(ToolLogs) + 8
           /\ SupplementEnd(c) = InputEnd(c) \/ SupplementEnd(c) = InputEnd(c) + 2
           /\ NormalizeEnd(c) = SupplementEnd(c) + 4
           /\ ContextEnd(c) = NormalizeEnd(c) + Len(SlicePaths) + 8
           /\ c.goal = "JUDGED" => ProgramEnd(c) = ContextEnd(c) + 12
           /\ c.goal # "JUDGED" => ProgramEnd(c) = ContextEnd(c) + 1
<1>1. /\ PrepEnd(c) \in Nat /\ InputEnd(c) \in Nat /\ SupplementEnd(c) \in Nat
      /\ NormalizeEnd(c) \in Nat /\ ContextEnd(c) \in Nat /\ ProgramEnd(c) \in Nat
      /\ Len(SlicePaths) \in Nat /\ Len(ToolLogs) \in Nat
      /\ c.mode = "sarif" => InputEnd(c) = PrepEnd(c) + 2
      /\ c.mode # "sarif" => InputEnd(c) = PrepEnd(c) + Len(ToolLogs) + 8
      /\ SupplementEnd(c) = InputEnd(c) \/ SupplementEnd(c) = InputEnd(c) + 2
      /\ NormalizeEnd(c) = SupplementEnd(c) + 4
      /\ ContextEnd(c) = NormalizeEnd(c) + Len(SlicePaths) + 8
  BY Ends
<1>2. c.goal = "JUDGED" => PrepEnd(c) = 8 /\ ProgramEnd(c) = ContextEnd(c) + 12
  BY DEF PrepEnd, ProgramEnd
<1>3. c.goal # "JUDGED" => PrepEnd(c) = 7 /\ ProgramEnd(c) = ContextEnd(c) + 1
  BY DEF PrepEnd, ProgramEnd
<1>4. \A x \in Nat : x \in Int
  OBVIOUS
<1>5. /\ PrepEnd(c) \in Int /\ InputEnd(c) \in Int /\ SupplementEnd(c) \in Int
      /\ NormalizeEnd(c) \in Int /\ ContextEnd(c) \in Int /\ ProgramEnd(c) \in Int
  BY <1>1, <1>4
<1> QED
  BY <1>1, <1>2, <1>3, <1>5, Zenon

\* The stages of the places after the preparation.
LEMMA Stages ==
    ASSUME NEW c \in Commands, NEW i \in Int
    PROVE  /\ i = 8 \/ i = PrepEnd(c) + 1 => StageAt(c, i) = "SOURCE_READY"
           /\ c.mode = "sarif" /\ i > 7 /\ i <= InputEnd(c) => StageAt(c, i) = "SOURCE_READY"
           /\ c.mode # "sarif" /\ i > PrepEnd(c) + 1 /\ i <= InputEnd(c) - 1 =>
                StageAt(c, i) = "BUILD_READY"
           /\ c.mode # "sarif" /\ i = InputEnd(c) => StageAt(c, i) = "CODEQL_DB_READY"
           /\ i > InputEnd(c) /\ i <= NormalizeEnd(c) =>
                StageAt(c, i) = IF c.mode = "sarif" THEN "SARIF_INGESTED" ELSE "SCANNED"
           /\ i > NormalizeEnd(c) /\ i <= ContextEnd(c) => StageAt(c, i) = "NORMALIZED"
           /\ i > ContextEnd(c) /\ i <= ContextEnd(c) + 4 => StageAt(c, i) = "CONTEXT_READY"
           /\ i > ContextEnd(c) + 4 /\ i <= ContextEnd(c) + 6 => StageAt(c, i) = "ANALYZED"
           /\ i > ContextEnd(c) + 6 /\ i <= ContextEnd(c) + 8 => StageAt(c, i) = "REBUTTED"
           /\ i > ContextEnd(c) + 8 => StageAt(c, i) = "JUDGED"
<1> DEFINE p == PrepEnd(c)
           n == InputEnd(c)
           s == SupplementEnd(c)
           t == NormalizeEnd(c)
           x == ContextEnd(c)
<1>1. /\ p \in Int /\ n \in Int /\ s \in Int /\ t \in Int /\ x \in Int
      /\ p = 7 \/ p = 8
      /\ c.mode = "sarif" => n = p + 2
      /\ c.mode # "sarif" => n = p + Len(ToolLogs) + 8
      /\ s = n \/ s = n + 2
      /\ t = s + 4 /\ x = t + Len(SlicePaths) + 8
      /\ Len(ToolLogs) \in Nat /\ Len(SlicePaths) \in Nat
  BY Numbers, Zenon
<1> HIDE DEF p, n, s, t, x
<1>2. (c.mode # "sarif" => n >= p + 8) /\ n >= p + 2 /\ t >= n + 4 /\ x >= t + 8
  <2>1. n >= p + 2
    <3>1. CASE c.mode = "sarif"
      BY <1>1, <3>1
    <3>2. CASE c.mode # "sarif"
      BY <1>1, <3>2
    <3> QED
      BY <3>1, <3>2
  <2> QED
    BY <1>1, <2>1
<1>3. i > p + 1 => ~(i <= 5) /\ i # 6 /\ i # 7
  BY <1>1
<1>4. i = 8 \/ i = p + 1 => ~(i <= 5) /\ i # 6 /\ i # 7 /\ i <= p + 1
  BY <1>1
<1>5. i > n => i > p + 1 /\ ~(i <= p + 1) /\ ~(i <= n) /\ ~(i <= n - 1) /\ i # n
  BY <1>1, <1>2
<1>6. i > t => i > n /\ ~(i <= t)
  BY <1>1, <1>2
<1>7. i > x => i > t /\ ~(i <= x)
  BY <1>1, <1>2
<1>8. c.mode # "sarif" /\ i = n => i > p + 1 /\ ~(i <= p + 1) /\ ~(i <= n - 1)
  BY <1>1, <1>2
<1>9. i > p + 1 => ~(i <= p + 1)
  BY <1>1
<1>10. i > 7 => ~(i <= 5) /\ i # 6 /\ i # 7
  OBVIOUS
<1>s. StageAt(c, i) =
        IF i <= 5 THEN "CREATED" ELSE IF i = 6 THEN "PROJECT_VALIDATED"
        ELSE IF i = 7 THEN "WORKSPACE_READY" ELSE IF i <= p + 1 THEN "SOURCE_READY"
        ELSE IF c.mode = "sarif" /\ i <= n THEN "SOURCE_READY"
        ELSE IF i <= n - 1 THEN "BUILD_READY"
        ELSE IF i = n THEN "CODEQL_DB_READY"
        ELSE IF i <= t THEN IF c.mode = "sarif" THEN "SARIF_INGESTED" ELSE "SCANNED"
        ELSE IF i <= x THEN "NORMALIZED" ELSE IF i <= x + 4 THEN "CONTEXT_READY"
        ELSE IF i <= x + 6 THEN "ANALYZED" ELSE IF i <= x + 8 THEN "REBUTTED"
        ELSE "JUDGED"
  BY DEF StageAt, p, n, t, x
<1>11. i = 8 \/ i = p + 1 => StageAt(c, i) = "SOURCE_READY"
  BY <1>4, <1>s
<1>12. c.mode = "sarif" /\ i > 7 /\ i <= n => StageAt(c, i) = "SOURCE_READY"
  BY <1>10, <1>s
<1>13. c.mode # "sarif" /\ i > p + 1 /\ i <= n - 1 => StageAt(c, i) = "BUILD_READY"
  BY <1>3, <1>9, <1>s
<1>14. c.mode # "sarif" /\ i = n => StageAt(c, i) = "CODEQL_DB_READY"
  BY <1>3, <1>8, <1>s
<1>15. i > n => StageAt(c, i) =
         IF i <= t THEN IF c.mode = "sarif" THEN "SARIF_INGESTED" ELSE "SCANNED"
         ELSE IF i <= x THEN "NORMALIZED" ELSE IF i <= x + 4 THEN "CONTEXT_READY"
         ELSE IF i <= x + 6 THEN "ANALYZED" ELSE IF i <= x + 8 THEN "REBUTTED"
         ELSE "JUDGED"
  BY <1>3, <1>5, <1>s
<1>16. i > x => StageAt(c, i) = IF i <= x + 4 THEN "CONTEXT_READY"
         ELSE IF i <= x + 6 THEN "ANALYZED" ELSE IF i <= x + 8 THEN "REBUTTED" ELSE "JUDGED"
  BY <1>6, <1>7, <1>15
<1>17. i > t /\ i <= x => StageAt(c, i) = "NORMALIZED"
  BY <1>6, <1>15
<1>18. i > x + 4 => i > x /\ ~(i <= x + 4)
  BY <1>1
<1>19. i > x + 6 => i > x + 4 /\ ~(i <= x + 6)
  BY <1>1
<1>20. i > x + 8 => i > x + 6 /\ ~(i <= x + 8)
  BY <1>1
<1>21. i > x /\ i <= x + 4 => StageAt(c, i) = "CONTEXT_READY"
  BY <1>16
<1>22. i > x + 4 /\ i <= x + 6 => StageAt(c, i) = "ANALYZED"
  BY <1>16, <1>18
<1>23. i > x + 6 /\ i <= x + 8 => StageAt(c, i) = "REBUTTED"
  BY <1>16, <1>18, <1>19
<1>24. i > x + 8 => StageAt(c, i) = "JUDGED"
  BY <1>16, <1>18, <1>19, <1>20
<1> QED
  BY <1>11, <1>12, <1>13, <1>14, <1>15, <1>17, <1>21, <1>22, <1>23, <1>24, Zenon DEF p, n, t, x

\* Operations that leave the state of the journal alone, and the failure
\* states of the parts after the input.
Plain == {"work", "versions", "write", "ingest"}
LateStates == FailureStates \ {"CODEQL_FAILED"}

\* Where the later parts lie.
LEMMA LateNumbers ==
    ASSUME NEW c \in Commands, NEW i \in Int, i > InputEnd(c)
    PROVE  /\ i > 7 /\ i > PrepEnd(c) /\ i > PrepEnd(c) + 2 /\ i # PrepEnd(c) + 2
           /\ i # InputEnd(c) - 2 /\ i # InputEnd(c)
<1>1. /\ PrepEnd(c) \in Int /\ InputEnd(c) \in Int /\ 7 <= PrepEnd(c)
      /\ PrepEnd(c) + 2 <= InputEnd(c)
  <2>1. PrepEnd(c) \in Nat /\ InputEnd(c) \in Nat /\ 7 <= PrepEnd(c) /\ PrepEnd(c) + 2 <= InputEnd(c)
    BY Ends
  <2> QED
    BY <2>1
<1> QED
  BY <1>1

\* Steps after the input, first those that do not move the journal.
LEMMA LatePlain ==
    ASSUME NEW c \in Commands, NEW i \in Int, i > InputEnd(c), i # ProgramEnd(c),
           NEW o \in Plain, NEW a, a \notin Reserved,
           NEW g, StageAt(c, i) = g, StageAt(c, i + 1) = g,
           NEW h \in SUBSET LateStates, \A f \in h : g \in StagesOf(f)
    PROVE  Fits(c, i, Op(o, a, h))
<1>1. /\ i > 7 /\ i > PrepEnd(c) /\ i > PrepEnd(c) + 2 /\ i # PrepEnd(c) + 2
      /\ i # InputEnd(c) - 2 /\ i # InputEnd(c)
  BY LateNumbers
<1>2. /\ h \in SUBSET FailureStates /\ "CODEQL_FAILED" \notin h
      /\ o \in {"work", "versions", "write", "ingest", "record"}
  BY DEF LateStates, Plain
<1> QED
  BY <1>1, <1>2, PlainFits

\* A transition after the input is at its place.
LEMMA LateMove ==
    ASSUME NEW c \in Commands, NEW i \in Int, i > InputEnd(c), i # ProgramEnd(c),
           NEW a, NEW g, StageAt(c, i) = g, StageAt(c, i + 1) = a, <<g, a>> \in JournalEdges,
           g # c.goal, a \in {"NORMALIZED", "CONTEXT_READY", "ANALYZED", "REBUTTED", "JUDGED"},
           NEW h \in SUBSET LateStates, \A f \in h : g \in StagesOf(f) /\ a \in StagesOf(f)
    PROVE  Fits(c, i, Op("transition", a, h))
<1>1. /\ i > 7 /\ i > PrepEnd(c) /\ i > PrepEnd(c) + 2 /\ i # PrepEnd(c) + 2
      /\ i # InputEnd(c) - 2 /\ i # InputEnd(c)
  BY LateNumbers
<1>2. i > 4
  BY <1>1
<1>3. /\ h \in SUBSET FailureStates /\ "CODEQL_FAILED" \notin h
  BY DEF LateStates
<1>4. /\ a # BuildRegistry /\ a # "SCANNED"
      /\ a \notin (IF c.mode = "sarif" THEN ScanBranch ELSE IngestBranch)
  BY Zenon DEF BuildRegistry, ScanBranch, IngestBranch
<1> QED
  BY <1>1, <1>2, <1>3, <1>4, MoveFits

\* The last step.
LEMMA CompleteFits ==
    ASSUME NEW c \in Commands, NEW h \in SUBSET LateStates,
           StageAt(c, ProgramEnd(c)) = c.goal, StageAt(c, ProgramEnd(c) + 1) = c.goal,
           \A f \in h : c.goal \in StagesOf(f)
    PROVE  Fits(c, ProgramEnd(c), Op("complete", "", h))
<1> DEFINE i == ProgramEnd(c)
           s == Op("complete", "", h)
<1>1. i \in Int /\ i > InputEnd(c)
  <2>1. /\ InputEnd(c) \in Nat /\ InputEnd(c) <= SupplementEnd(c)
        /\ SupplementEnd(c) < NormalizeEnd(c) /\ NormalizeEnd(c) + 8 <= ContextEnd(c)
        /\ ContextEnd(c) < ProgramEnd(c)
        /\ SupplementEnd(c) \in Nat /\ NormalizeEnd(c) \in Nat
        /\ ContextEnd(c) \in Nat /\ ProgramEnd(c) \in Nat
    BY Ends
  <2> QED
    BY <2>1
<1>3. s = [op |-> "complete", arg |-> "", handler |-> h]
  BY DEF Op
<1> HIDE DEF i, s
<1>4. s.op = "complete" /\ s.arg = "" /\ s.handler = h
  BY <1>3, Zenon
<1>2. /\ i > 7 /\ i > PrepEnd(c) /\ i > PrepEnd(c) + 2 /\ i # PrepEnd(c) + 2
      /\ i # InputEnd(c) - 2 /\ i # InputEnd(c)
  BY <1>1, LateNumbers
<1>5. ~(i <= 4) /\ i # 2 /\ i # 3 /\ i # 4
  BY <1>1, <1>2
<1>6. Places(c, i, s)
  BY <1>1, <1>2, <1>4, <1>5, Zenon DEF Places, i
<1>7. Moves(c, i, s)
  BY <1>4, Zenon DEF Moves, i
<1>8. Handles(c, i, s)
  BY <1>1, <1>2, <1>4, Zenon DEF Handles, LateStates, i
<1>9. "" # BuildRegistry
  BY DEF BuildRegistry
<1>10. Fits(c, i, s)
  BY <1>4, <1>6, <1>7, <1>8, <1>9, Zenon DEF Fits, Writing, i
<1> QED
  BY <1>10, Zenon DEF i, s

\* The failures of the later stages.
LEMMA LateFailures ==
    /\ {"POLICY_REJECTED"} \in SUBSET LateStates /\ {"INVALID_SARIF"} \in SUBSET LateStates
    /\ {"CONTEXT_INCOMPLETE"} \in SUBSET LateStates /\ {"MODEL_FAILED"} \in SUBSET LateStates
    /\ {"MODEL_FAILED", "POLICY_REJECTED"} \in SUBSET LateStates
    /\ \A g \in {"SARIF_INGESTED", "SCANNED", "CONTEXT_READY"} : g \in StagesOf("POLICY_REJECTED")
    /\ \A g \in {"SARIF_INGESTED", "SCANNED", "NORMALIZED"} : g \in StagesOf("INVALID_SARIF")
    /\ \A g \in {"NORMALIZED", "CONTEXT_READY"} : g \in StagesOf("CONTEXT_INCOMPLETE")
    /\ \A g \in {"CONTEXT_READY", "ANALYZED", "REBUTTED", "JUDGED"} : g \in StagesOf("MODEL_FAILED")
  BY DEF LateStates, FailureStates, StagesOf

\* The supplement.
LEMMA SupplementFits ==
    ASSUME NEW c \in Commands, NEW k \in 1 .. SupplementEnd(c) - InputEnd(c)
    PROVE  Fits(c, InputEnd(c) + k, SupplementSteps[k])
<1> DEFINE h == {"POLICY_REJECTED"}
           g == IF c.mode = "sarif" THEN "SARIF_INGESTED" ELSE "SCANNED"
           i == InputEnd(c) + k
           n == InputEnd(c)
           e == SupplementEnd(c)
           t == NormalizeEnd(c)
<1>1. n \in Int /\ e \in Int /\ t \in Int /\ t = e + 4 /\ (e = n \/ e = n + 2)
  BY Numbers
<1> HIDE DEF n, e, t
<1>2. k \in 1 .. e - n
  BY DEF n, e
<1>3. i = n + k
  BY DEF n
<1> HIDE DEF i
<1>4. i \in Int /\ i > n /\ i + 1 > n /\ i + 1 <= t /\ i <= t /\ i + 1 \in Int /\ (k = 1 \/ k = 2)
  BY <1>1, <1>2, <1>3
<1>5. StageAt(c, i) = g /\ StageAt(c, i + 1) = g
  BY <1>4, Stages DEF n, t
<1>6. i # ProgramEnd(c)
  <2>1. /\ NormalizeEnd(c) + 8 <= ContextEnd(c) /\ ContextEnd(c) < ProgramEnd(c)
        /\ ContextEnd(c) \in Nat /\ ProgramEnd(c) \in Nat
    BY Ends
  <2> QED
    BY <1>1, <1>4, <2>1 DEF t
<1>7. h \in SUBSET LateStates /\ \A f \in h : g \in StagesOf(f)
  BY LateFailures
<1>8. ASSUME NEW o \in Plain, NEW a, a \notin Reserved PROVE Fits(c, i, Op(o, a, h))
  <2>1. i > InputEnd(c)
    BY <1>4 DEF n
  <2> HIDE DEF g, h
  <2> QED
    BY <1>4, <1>5, <1>6, <1>7, <1>8, <2>1, LatePlain
<1>9. /\ SupplementSteps[1] = Op("ingest", SupplementInput, h)
      /\ SupplementSteps[2] = Op("work", "validate supplement", h)
  BY DEF SupplementSteps
<1>10. /\ SupplementInput \notin Reserved /\ "validate supplement" \notin Reserved
       /\ "ingest" \in Plain /\ "work" \in Plain
  BY DEF SupplementInput, Reserved, Descriptor, ResolvedSpec, ErrorReport, Plain
<1> HIDE DEF h
<1>11. Fits(c, i, SupplementSteps[1]) /\ Fits(c, i, SupplementSteps[2])
  BY <1>8, <1>9, <1>10, Zenon
<1> QED
  BY <1>4, <1>11 DEF i

\* Where the parts after the supplement lie.
LEMMA LaterNumbers ==
    ASSUME NEW c \in Commands, NEW i \in Int
    PROVE  /\ i > SupplementEnd(c) => i > InputEnd(c)
           /\ i > NormalizeEnd(c) => i > SupplementEnd(c)
           /\ i > ContextEnd(c) => i > NormalizeEnd(c)
           /\ i <= NormalizeEnd(c) => i <= ContextEnd(c)
           /\ i <= ContextEnd(c) => i # ProgramEnd(c)
<1>1. /\ InputEnd(c) \in Nat /\ InputEnd(c) <= SupplementEnd(c)
      /\ SupplementEnd(c) < NormalizeEnd(c) /\ NormalizeEnd(c) + 8 <= ContextEnd(c)
      /\ ContextEnd(c) < ProgramEnd(c)
      /\ SupplementEnd(c) \in Nat /\ NormalizeEnd(c) \in Nat
      /\ ContextEnd(c) \in Nat /\ ProgramEnd(c) \in Nat
  BY Ends
<1> QED
  BY <1>1

\* Parsing and normalizing.
LEMMA NormalizeFits ==
    ASSUME NEW c \in Commands, NEW k \in 1 .. 4
    PROVE  Fits(c, SupplementEnd(c) + k, NormalizeSteps[k])
<1> DEFINE h == {"INVALID_SARIF"}
           g == IF c.mode = "sarif" THEN "SARIF_INGESTED" ELSE "SCANNED"
           i == SupplementEnd(c) + k
           e == SupplementEnd(c)
<1>1. e \in Int /\ NormalizeEnd(c) = e + 4
  BY Numbers
<1>2. i = e + k
  OBVIOUS
<1> HIDE DEF i, e
<1>3. i \in Int /\ i > e /\ i <= e + 4 /\ i + 1 > e /\ i + 1 \in Int /\ (k < 4 => i + 1 <= e + 4)
      /\ (k = 4 => i + 1 > e + 4 /\ i + 1 <= e + 8)
      /\ (k = 1 \/ k = 2 \/ k = 3 \/ k = 4)
  BY <1>1, <1>2
<1>4. i > InputEnd(c) /\ i + 1 > InputEnd(c) /\ i <= NormalizeEnd(c) /\ i # ProgramEnd(c)
  BY <1>1, <1>3, LaterNumbers DEF e
<1>5. StageAt(c, i) = g
  BY <1>3, <1>4, Stages
<1>6. k < 4 => StageAt(c, i + 1) = g
  BY <1>1, <1>3, <1>4, Stages
<1>7. k = 4 => StageAt(c, i + 1) = "NORMALIZED"
  <2>1. /\ ContextEnd(c) \in Nat /\ NormalizeEnd(c) \in Nat /\ NormalizeEnd(c) + 8 <= ContextEnd(c)
    BY Ends
  <2>2. k = 4 => i + 1 > NormalizeEnd(c) /\ i + 1 <= ContextEnd(c)
    BY <1>1, <1>3, <2>1
  <2> QED
    BY <1>3, <2>2, Stages
<1>8. h \in SUBSET LateStates /\ \A f \in h : g \in StagesOf(f) /\ "NORMALIZED" \in StagesOf(f)
  BY LateFailures
<1>9. ASSUME k < 4, NEW o \in Plain, NEW a, a \notin Reserved PROVE Fits(c, i, Op(o, a, h))
  <2> HIDE DEF g, h
  <2> QED
    BY <1>3, <1>4, <1>5, <1>6, <1>8, <1>9, LatePlain
<1>10. ASSUME k = 4 PROVE Fits(c, i, Op("transition", "NORMALIZED", h))
  <2>1. <<g, "NORMALIZED">> \in JournalEdges
    BY DEF JournalEdges
  <2>2. g # c.goal
    BY CommandKinds
  <2> HIDE DEF g, h
  <2> QED
    BY <1>3, <1>4, <1>5, <1>7, <1>8, <1>10, <2>1, <2>2, LateMove
<1>11. /\ NormalizeSteps[1] = Op("work", "parse and normalize", h)
       /\ NormalizeSteps[2] = Op("write", "normalized/alerts.json", h)
       /\ NormalizeSteps[3] = Op("versions", "", h)
       /\ NormalizeSteps[4] = Op("transition", "NORMALIZED", h)
  BY DEF NormalizeSteps
<1>12. /\ "parse and normalize" \notin Reserved /\ "normalized/alerts.json" \notin Reserved
       /\ "" \notin Reserved /\ "work" \in Plain /\ "write" \in Plain /\ "versions" \in Plain
  BY DEF Reserved, Descriptor, ResolvedSpec, ErrorReport, Plain
<1> HIDE DEF h
<1>13. /\ k < 4 => /\ Fits(c, i, NormalizeSteps[1]) /\ Fits(c, i, NormalizeSteps[2])
                   /\ Fits(c, i, NormalizeSteps[3])
       /\ k = 4 => Fits(c, i, NormalizeSteps[4])
  BY <1>9, <1>10, <1>11, <1>12, Zenon
<1>14. (k = 1 \/ k = 2 \/ k = 3) => k < 4
  OBVIOUS
<1> QED
  BY <1>3, <1>13, <1>14 DEF i

\* No path of the report is an artifact of a step.
LEMMA ReportIsApart ==
    /\ \A k \in DOMAIN SlicePaths : SlicePaths[k] \notin Reserved
    /\ \A k \in DOMAIN ToolLogs : ToolLogs[k] \notin Reserved
  BY PipelineAssumption, Lists

\* Building the contexts.
LEMMA ContextFits ==
    ASSUME NEW c \in Commands, NEW k \in 1 .. Len(SlicePaths) + 8
    PROVE  Fits(c, NormalizeEnd(c) + k, ContextSteps[k])
<1> DEFINE h == {"CONTEXT_INCOMPLETE"}
           m == Len(SlicePaths)
           i == NormalizeEnd(c) + k
           t == NormalizeEnd(c)
           x == ContextEnd(c)
<1>1. t \in Int /\ x \in Int /\ x = t + m + 8 /\ m \in Nat
  BY Numbers
<1>2. i = t + k /\ k \in 1 .. m + 8
  OBVIOUS
<1> HIDE DEF i, t, m, x
<1>3. i \in Int /\ i > t /\ i <= x /\ i + 1 > t /\ i + 1 \in Int /\ (k # m + 8 => i + 1 <= x)
      /\ (k = m + 8 => i = x)
  BY <1>1, <1>2
<1>4. i > InputEnd(c) /\ i # ProgramEnd(c)
  BY <1>3, LaterNumbers DEF t, x
<1>5. StageAt(c, i) = "NORMALIZED" /\ (k # m + 8 => StageAt(c, i + 1) = "NORMALIZED")
  BY <1>3, Stages DEF t, x
<1>6. k = m + 8 => StageAt(c, i + 1) = "CONTEXT_READY"
  <2>1. k = m + 8 => i + 1 > x /\ i + 1 <= x + 4
    BY <1>1, <1>3
  <2> QED
    BY <1>3, <2>1, Stages DEF x
<1>7. /\ h \in SUBSET LateStates
      /\ \A f \in h : "NORMALIZED" \in StagesOf(f) /\ "CONTEXT_READY" \in StagesOf(f)
  BY LateFailures
<1> HIDE DEF h
<1>8. ASSUME k # m + 8, NEW o \in Plain, NEW a, a \notin Reserved PROVE Fits(c, i, Op(o, a, h))
  BY <1>3, <1>4, <1>5, <1>7, <1>8, LatePlain
<1>9. ASSUME k = m + 8 PROVE Fits(c, i, Op("transition", "CONTEXT_READY", h))
  <2>1. <<"NORMALIZED", "CONTEXT_READY">> \in JournalEdges
    BY DEF JournalEdges
  <2>2. "NORMALIZED" # c.goal
    BY CommandKinds
  <2> QED
    BY <1>3, <1>4, <1>5, <1>6, <1>7, <1>9, <2>1, <2>2, LateMove
<1>10. /\ ContextSteps[1] = Op("work", "build slices", h)
       /\ \A j \in 1 .. m : ContextSteps[1 + j] = Op("write", SlicePaths[j], h)
       /\ ContextSteps[m + 2] = Op("write", "context/index.json", h)
       /\ ContextSteps[m + 3] = Op("work", BuildRegistry, h)
       /\ ContextSteps[m + 4] = Op("write", "evidence/registry.json", h)
       /\ ContextSteps[m + 5] = Op("write", "evidence/graph.dot", h)
       /\ ContextSteps[m + 6] = Op("write", "context/source-map.html", h)
       /\ ContextSteps[m + 7] = Op("versions", "", h)
       /\ ContextSteps[m + 8] = Op("transition", "CONTEXT_READY", h)
  BY ContextBlock, Zenon DEF h, m
<1>11. /\ "build slices" \notin Reserved /\ "context/index.json" \notin Reserved
       /\ BuildRegistry \notin Reserved /\ "evidence/registry.json" \notin Reserved
       /\ "evidence/graph.dot" \notin Reserved /\ "context/source-map.html" \notin Reserved
       /\ "" \notin Reserved /\ "work" \in Plain /\ "write" \in Plain /\ "versions" \in Plain
  BY DEF Reserved, Descriptor, ResolvedSpec, ErrorReport, Plain, BuildRegistry
<1>12. \A j \in 1 .. m : SlicePaths[j] \notin Reserved
  BY ReportIsApart, Lists DEF m
<1>13. k = m + 8 => Fits(c, i, ContextSteps[k])
  BY <1>9, <1>10, Zenon
<1>14. k # m + 8 => /\ Fits(c, i, ContextSteps[1])
                    /\ \A j \in 1 .. m : Fits(c, i, ContextSteps[1 + j])
                    /\ Fits(c, i, ContextSteps[m + 2]) /\ Fits(c, i, ContextSteps[m + 3])
                    /\ Fits(c, i, ContextSteps[m + 4]) /\ Fits(c, i, ContextSteps[m + 5])
                    /\ Fits(c, i, ContextSteps[m + 6]) /\ Fits(c, i, ContextSteps[m + 7])
  BY <1>8, <1>10, <1>11, <1>12, Zenon
<1>15. /\ k = 1 \/ k - 1 \in 1 .. m \/ k = m + 2 \/ k = m + 3 \/ k = m + 4 \/ k = m + 5
         \/ k = m + 6 \/ k = m + 7 \/ k = m + 8
       /\ 1 + (k - 1) = k
  BY <1>1, <1>2
<1>16. Fits(c, i, ContextSteps[k])
  <2>1. CASE k = m + 8
    BY <1>13, <2>1
  <2>2. CASE k # m + 8 /\ k - 1 \in 1 .. m
    BY <1>14, <1>15, <2>2
  <2>3. CASE k # m + 8 /\ k - 1 \notin 1 .. m
    BY <1>14, <1>15, <2>3
  <2> QED
    BY <2>1, <2>2, <2>3
<1> QED
  BY <1>16 DEF i

\* The last part of a command without triage.
LEMMA ContextGoalFits ==
    ASSUME NEW c \in Commands, c.goal # "JUDGED"
    PROVE  Fits(c, ContextEnd(c) + 1, ContextGoalSteps[1])
<1> DEFINE x == ContextEnd(c)
<1>1. x \in Int /\ ProgramEnd(c) = x + 1
  BY Numbers
<1>2. ContextGoalSteps[1] = Op("complete", "", {"CONTEXT_INCOMPLETE"})
  BY DEF ContextGoalSteps
<1>3. c.goal = "CONTEXT_READY"
  BY CommandKinds
<1> HIDE DEF x
<1>4. /\ x + 1 > x /\ x + 1 <= x + 4 /\ x + 1 \in Int
      /\ x + 1 + 1 > x /\ x + 1 + 1 <= x + 4 /\ x + 1 + 1 \in Int
  BY <1>1
<1>5. StageAt(c, x + 1) = c.goal /\ StageAt(c, x + 1 + 1) = c.goal
  BY <1>3, <1>4, Stages DEF x
<1>6. \A f \in {"CONTEXT_INCOMPLETE"} : c.goal \in StagesOf(f)
  BY <1>3, LateFailures
<1>7. {"CONTEXT_INCOMPLETE"} \in SUBSET LateStates
  BY LateFailures
<1>8. Fits(c, ProgramEnd(c), Op("complete", "", {"CONTEXT_INCOMPLETE"}))
  <2> DEFINE h == {"CONTEXT_INCOMPLETE"}
  <2>1. h \in SUBSET LateStates /\ \A f \in h : c.goal \in StagesOf(f)
    BY <1>6, <1>7
  <2> HIDE DEF h
  <2>2. Fits(c, ProgramEnd(c), Op("complete", "", h))
    BY <1>1, <1>5, <2>1, CompleteFits, Zenon
  <2> QED
    BY <2>2, Zenon DEF h
<1> QED
  BY <1>1, <1>2, <1>8, Zenon DEF x

\* The last part of a command with triage.
LEMMA TriageGoalFits ==
    ASSUME NEW c \in Commands, c.goal = "JUDGED", NEW k \in 1 .. 12
    PROVE  Fits(c, ContextEnd(c) + k, TriageGoalSteps[k])
<1> DEFINE h == {"MODEL_FAILED"}
           x == ContextEnd(c)
           i == ContextEnd(c) + k
<1>1. x \in Int /\ ProgramEnd(c) = x + 12
  BY Numbers
<1>2. i = x + k
  OBVIOUS
<1> HIDE DEF x, i
<1>3. /\ i \in Int /\ i + 1 \in Int /\ i > x
      /\ k < 4 => i <= x + 4 /\ i + 1 <= x + 4 /\ i + 1 > x
      /\ k = 4 => i <= x + 4 /\ i + 1 > x + 4 /\ i + 1 <= x + 6
      /\ k = 5 => i > x + 4 /\ i <= x + 6 /\ i + 1 > x + 4 /\ i + 1 <= x + 6
      /\ k = 6 => i > x + 4 /\ i <= x + 6 /\ i + 1 > x + 6 /\ i + 1 <= x + 8
      /\ k = 7 => i > x + 6 /\ i <= x + 8 /\ i + 1 > x + 6 /\ i + 1 <= x + 8
      /\ k = 8 => i > x + 6 /\ i <= x + 8 /\ i + 1 > x + 8
      /\ k > 8 => i > x + 8 /\ i + 1 > x + 8
      /\ k # 12 => i # ProgramEnd(c)
      /\ k = 12 => i = ProgramEnd(c)
  BY <1>1, <1>2
<1>4. i > InputEnd(c)
  BY <1>3, LaterNumbers DEF x
<1>5. /\ k < 4 => StageAt(c, i) = "CONTEXT_READY" /\ StageAt(c, i + 1) = "CONTEXT_READY"
      /\ k = 4 => StageAt(c, i) = "CONTEXT_READY" /\ StageAt(c, i + 1) = "ANALYZED"
      /\ k = 5 => StageAt(c, i) = "ANALYZED" /\ StageAt(c, i + 1) = "ANALYZED"
      /\ k = 6 => StageAt(c, i) = "ANALYZED" /\ StageAt(c, i + 1) = "REBUTTED"
      /\ k = 7 => StageAt(c, i) = "REBUTTED" /\ StageAt(c, i + 1) = "REBUTTED"
      /\ k = 8 => StageAt(c, i) = "REBUTTED" /\ StageAt(c, i + 1) = "JUDGED"
      /\ k > 8 => StageAt(c, i) = "JUDGED" /\ StageAt(c, i + 1) = "JUDGED"
  <2>1. k < 4 => StageAt(c, i) = "CONTEXT_READY" /\ StageAt(c, i + 1) = "CONTEXT_READY"
    BY <1>3, Stages DEF x
  <2>2. k = 4 => StageAt(c, i) = "CONTEXT_READY" /\ StageAt(c, i + 1) = "ANALYZED"
    BY <1>3, Stages DEF x
  <2>3. k = 5 => StageAt(c, i) = "ANALYZED" /\ StageAt(c, i + 1) = "ANALYZED"
    BY <1>3, Stages DEF x
  <2>4. k = 6 => StageAt(c, i) = "ANALYZED" /\ StageAt(c, i + 1) = "REBUTTED"
    BY <1>3, Stages DEF x
  <2>5. k = 7 => StageAt(c, i) = "REBUTTED" /\ StageAt(c, i + 1) = "REBUTTED"
    BY <1>3, Stages DEF x
  <2>6. k = 8 => StageAt(c, i) = "REBUTTED" /\ StageAt(c, i + 1) = "JUDGED"
    BY <1>3, Stages DEF x
  <2>7. k > 8 => StageAt(c, i) = "JUDGED" /\ StageAt(c, i + 1) = "JUDGED"
    BY <1>3, Stages DEF x
  <2> QED
    BY <2>1, <2>2, <2>3, <2>4, <2>5, <2>6, <2>7
<1>6. /\ h \in SUBSET LateStates
      /\ \A g \in {"CONTEXT_READY", "ANALYZED", "REBUTTED", "JUDGED"} :
           \A f \in h : g \in StagesOf(f)
  BY LateFailures
<1> HIDE DEF h
<1>7. ASSUME NEW o \in Plain, NEW a, a \notin Reserved, k # 4, k # 6, k # 8, k # 12
      PROVE  Fits(c, i, Op(o, a, h))
  <2>1. PICK g \in {"CONTEXT_READY", "ANALYZED", "REBUTTED", "JUDGED"} :
          StageAt(c, i) = g /\ StageAt(c, i + 1) = g
    <3>1. k < 4 \/ k = 5 \/ k = 7 \/ k > 8
      BY <1>7
    <3> QED
      BY <1>5, <3>1
  <2>2. \A f \in h : g \in StagesOf(f)
    BY <1>6
  <2>3. i # ProgramEnd(c) /\ i \in Int
    BY <1>3, <1>7
  <2>4. h \in SUBSET LateStates /\ StageAt(c, i) = g /\ StageAt(c, i + 1) = g
    BY <1>6, <2>1
  <2>5. o \in Plain /\ a \notin Reserved
    BY <1>7
  <2> QED
    BY <1>4, <2>2, <2>3, <2>4, <2>5, LatePlain
<1>8. ASSUME k = 2
      PROVE  Fits(c, i, Op("work", "triage every alert", {"MODEL_FAILED", "POLICY_REJECTED"}))
  <2> DEFINE both == {"MODEL_FAILED", "POLICY_REJECTED"}
  <2>1. k < 4
    BY <1>8
  <2>2. StageAt(c, i) = "CONTEXT_READY" /\ StageAt(c, i + 1) = "CONTEXT_READY"
    BY <1>5, <2>1
  <2>3. i # ProgramEnd(c)
    BY <1>3, <1>8
  <2>4. both \in SUBSET LateStates /\ \A f \in both : "CONTEXT_READY" \in StagesOf(f)
    BY LateFailures
  <2>5. "work" \in Plain /\ "triage every alert" \notin Reserved
    BY DEF Plain, Reserved, Descriptor, ResolvedSpec, ErrorReport
  <2> HIDE DEF both
  <2>6. Fits(c, i, Op("work", "triage every alert", both))
    BY <1>3, <1>4, <2>2, <2>3, <2>4, <2>5, LatePlain, Zenon
  <2> QED
    BY <2>6, Zenon DEF both
<1>9. ASSUME NEW g \in {"CONTEXT_READY", "ANALYZED", "REBUTTED"}, NEW a \in {"ANALYZED", "REBUTTED", "JUDGED"},
             <<g, a>> \in JournalEdges, StageAt(c, i) = g, StageAt(c, i + 1) = a, k # 12
      PROVE  Fits(c, i, Op("transition", a, h))
  <2>1. g # c.goal /\ a \in {"NORMALIZED", "CONTEXT_READY", "ANALYZED", "REBUTTED", "JUDGED"}
    OBVIOUS
  <2>2. \A f \in h : g \in StagesOf(f) /\ a \in StagesOf(f)
    BY <1>6
  <2>3. i # ProgramEnd(c)
    BY <1>3, <1>9
  <2> QED
    BY <1>3, <1>4, <1>6, <1>9, <2>1, <2>2, <2>3, LateMove
<1>10. /\ k = 4 => Fits(c, i, Op("transition", "ANALYZED", h))
       /\ k = 6 => Fits(c, i, Op("transition", "REBUTTED", h))
       /\ k = 8 => Fits(c, i, Op("transition", "JUDGED", h))
  <2>1. /\ <<"CONTEXT_READY", "ANALYZED">> \in JournalEdges
        /\ <<"ANALYZED", "REBUTTED">> \in JournalEdges /\ <<"REBUTTED", "JUDGED">> \in JournalEdges
    BY DEF JournalEdges
  <2>2. k = 4 => Fits(c, i, Op("transition", "ANALYZED", h))
    BY <1>5, <1>9, <2>1
  <2>3. k = 6 => Fits(c, i, Op("transition", "REBUTTED", h))
    BY <1>5, <1>9, <2>1
  <2>4. k = 8 => Fits(c, i, Op("transition", "JUDGED", h))
    BY <1>5, <1>9, <2>1
  <2> QED
    BY <2>2, <2>3, <2>4
<1>11. k = 12 => Fits(c, i, Op("complete", "", h))
  <2>1. k = 12 => StageAt(c, i) = c.goal /\ StageAt(c, i + 1) = c.goal /\ i = ProgramEnd(c)
    BY <1>3, <1>5
  <2>2. \A f \in h : c.goal \in StagesOf(f)
    BY <1>6
  <2> QED
    BY <1>6, <2>1, <2>2, CompleteFits, Zenon
<1>12. /\ TriageGoalSteps[1] = Op("versions", "", h)
       /\ TriageGoalSteps[2] = Op("work", "triage every alert", {"MODEL_FAILED", "POLICY_REJECTED"})
       /\ TriageGoalSteps[3] = Op("write", "triage/analyst.json", h)
       /\ TriageGoalSteps[4] = Op("transition", "ANALYZED", h)
       /\ TriageGoalSteps[5] = Op("write", "triage/rebuttal.json", h)
       /\ TriageGoalSteps[6] = Op("transition", "REBUTTED", h)
       /\ TriageGoalSteps[7] = Op("write", "triage/judged.json", h)
       /\ TriageGoalSteps[8] = Op("transition", "JUDGED", h)
       /\ TriageGoalSteps[9] = Op("versions", "", h)
       /\ TriageGoalSteps[10] = Op("write", "reports/decisions.jsonl", h)
       /\ TriageGoalSteps[11] = Op("write", "reports/index.html", h)
       /\ TriageGoalSteps[12] = Op("complete", "", h)
  BY DEF TriageGoalSteps, h
<1>13. /\ "" \notin Reserved /\ "triage/analyst.json" \notin Reserved
       /\ "triage/rebuttal.json" \notin Reserved /\ "triage/judged.json" \notin Reserved
       /\ "reports/decisions.jsonl" \notin Reserved /\ "reports/index.html" \notin Reserved
       /\ "versions" \in Plain /\ "write" \in Plain
  BY DEF Plain, Reserved, Descriptor, ResolvedSpec, ErrorReport
<1>14. k # 4 /\ k # 6 /\ k # 8 /\ k # 12 =>
         /\ Fits(c, i, TriageGoalSteps[1]) /\ Fits(c, i, TriageGoalSteps[3])
         /\ Fits(c, i, TriageGoalSteps[5]) /\ Fits(c, i, TriageGoalSteps[7])
         /\ Fits(c, i, TriageGoalSteps[9]) /\ Fits(c, i, TriageGoalSteps[10])
         /\ Fits(c, i, TriageGoalSteps[11])
  BY <1>7, <1>12, <1>13, Zenon
<1>15. /\ k = 4 => Fits(c, i, TriageGoalSteps[4])
       /\ k = 6 => Fits(c, i, TriageGoalSteps[6])
       /\ k = 8 => Fits(c, i, TriageGoalSteps[8])
       /\ k = 12 => Fits(c, i, TriageGoalSteps[12])
       /\ k = 2 => Fits(c, i, TriageGoalSteps[2])
  BY <1>8, <1>10, <1>11, <1>12, Zenon
<1>16. \/ k = 1 \/ k = 2 \/ k = 3 \/ k = 4 \/ k = 5 \/ k = 6 \/ k = 7 \/ k = 8 \/ k = 9 \/ k = 10
       \/ k = 11 \/ k = 12
  OBVIOUS
<1>17. Fits(c, i, TriageGoalSteps[k])
  <2>1. CASE k = 2 \/ k = 4 \/ k = 6 \/ k = 8 \/ k = 12
    BY <1>15, <2>1
  <2>2. CASE ~(k = 2 \/ k = 4 \/ k = 6 \/ k = 8 \/ k = 12)
    BY <1>14, <1>16, <2>2
  <2> QED
    BY <2>1, <2>2
<1> QED
  BY <1>17 DEF i

\* The check of the LLM profile.
LEMMA ProfileFits ==
    ASSUME NEW c \in Commands, NEW k \in 1 .. PrepEnd(c) - 7
    PROVE  Fits(c, 7 + k, ProfileSteps[k])
<1>1. /\ PrepEnd(c) \in Int /\ InputEnd(c) \in Int /\ ProgramEnd(c) \in Int
      /\ PrepEnd(c) = 7 \/ PrepEnd(c) = 8
      /\ InputEnd(c) >= PrepEnd(c) + 2 /\ ProgramEnd(c) > InputEnd(c)
      /\ c.mode # "sarif" => InputEnd(c) >= PrepEnd(c) + 8
  <2>1. /\ PrepEnd(c) \in Nat /\ PrepEnd(c) + 2 <= InputEnd(c) /\ InputEnd(c) <= SupplementEnd(c)
        /\ SupplementEnd(c) < NormalizeEnd(c) /\ NormalizeEnd(c) + 8 <= ContextEnd(c)
        /\ ContextEnd(c) < ProgramEnd(c) /\ PrepEnd(c) \in {7, 8}
        /\ InputEnd(c) \in Nat /\ SupplementEnd(c) \in Nat /\ NormalizeEnd(c) \in Nat
        /\ ContextEnd(c) \in Nat /\ ProgramEnd(c) \in Nat /\ Len(ToolLogs) \in Nat
        /\ c.mode # "sarif" => InputEnd(c) = PrepEnd(c) + Len(ToolLogs) + 8
    BY Ends
  <2> QED
    BY <2>1, SMTT(30)
<1>2. k = 1 /\ PrepEnd(c) = 8
  BY <1>1
<1>3. StageAt(c, 8) = "SOURCE_READY" /\ StageAt(c, 8 + 1) = "SOURCE_READY"
  <2>1. 8 \in Int /\ 8 + 1 \in Int /\ 8 + 1 = PrepEnd(c) + 1
    BY <1>2
  <2> QED
    BY <2>1, Stages
<1>4. Fits(c, 8, Op("work", "match the LLM profile", {"POLICY_REJECTED"}))
  <2> DEFINE h == {"POLICY_REJECTED"}
  <2>1. /\ h \in SUBSET FailureStates /\ \A f \in h : "SOURCE_READY" \in StagesOf(f)
        /\ "CODEQL_FAILED" \notin h
    BY DEF FailureStates, StagesOf
  <2>2. "match the LLM profile" \notin Reserved /\ "work" \notin Writing
    BY DEF Reserved, Descriptor, ResolvedSpec, ErrorReport, Writing
  <2>3. /\ 8 \in Int /\ 8 > 7 /\ 8 # ProgramEnd(c) /\ 8 <= PrepEnd(c)
        /\ c.mode # "sarif" => 8 # PrepEnd(c) + 2 /\ 8 # InputEnd(c) - 2
    BY <1>1, <1>2
  <2> HIDE DEF h
  <2>4. Fits(c, 8, Op("work", "match the LLM profile", h))
    BY <1>3, <2>1, <2>2, <2>3, PlainFits, Zenon
  <2> QED
    BY <2>4, Zenon DEF h
<1>5. ProfileSteps[1] = Op("work", "match the LLM profile", {"POLICY_REJECTED"}) /\ 7 + 1 = 8
  BY DEF ProfileSteps
<1> QED
  BY <1>2, <1>4, <1>5, Zenon

\* The SARIF of an ingest.
LEMMA IngestFits ==
    ASSUME NEW c \in Commands, c.mode = "sarif", NEW k \in 1 .. 2
    PROVE  Fits(c, PrepEnd(c) + k, IngestSteps[k])
<1> DEFINE h == {"INVALID_SARIF"}
           p == PrepEnd(c)
           i == PrepEnd(c) + k
<1>1. p \in Int /\ InputEnd(c) = p + 2 /\ (p = 7 \/ p = 8)
  BY Numbers
<1>2. i = p + k
  OBVIOUS
<1> HIDE DEF p, i
<1>3. /\ i \in Int /\ i + 1 \in Int /\ i > 7 /\ i > p /\ i <= InputEnd(c)
      /\ k = 1 => i + 1 <= InputEnd(c) /\ i + 1 > 7
      /\ k = 2 => i + 1 = InputEnd(c) + 1
      /\ k = 1 \/ k = 2
  BY <1>1, <1>2
<1>4. i # ProgramEnd(c) /\ (k = 2 => i + 1 > InputEnd(c) /\ i + 1 <= NormalizeEnd(c))
  <2>1. /\ InputEnd(c) <= SupplementEnd(c) /\ NormalizeEnd(c) = SupplementEnd(c) + 4
        /\ NormalizeEnd(c) + 8 <= ContextEnd(c) /\ ContextEnd(c) < ProgramEnd(c)
        /\ InputEnd(c) \in Nat /\ SupplementEnd(c) \in Nat /\ NormalizeEnd(c) \in Nat
        /\ ContextEnd(c) \in Nat /\ ProgramEnd(c) \in Nat
    BY Ends
  <2> QED
    BY <1>3, <2>1
<1>5. /\ StageAt(c, i) = "SOURCE_READY" /\ (k = 1 => StageAt(c, i + 1) = "SOURCE_READY")
      /\ k = 2 => StageAt(c, i + 1) = "SARIF_INGESTED"
  BY <1>3, <1>4, Stages
<1>6. /\ h \in SUBSET FailureStates /\ "CODEQL_FAILED" \notin h
      /\ \A f \in h : "SOURCE_READY" \in StagesOf(f) /\ "SARIF_INGESTED" \in StagesOf(f)
  BY DEF FailureStates, StagesOf
<1> HIDE DEF h
<1>7. k = 1 => Fits(c, i, Op("ingest", SarifInput, h))
  <2>1. SarifInput \notin Reserved
    BY DEF SarifInput, Reserved, Descriptor, ResolvedSpec, ErrorReport
  <2>2. "ingest" \in {"work", "versions", "write", "ingest", "record"}
    OBVIOUS
  <2>3. i > PrepEnd(c) /\ i > 7 /\ i \in Int
    BY <1>3 DEF p
  <2> QED
    BY <1>4, <1>5, <1>6, <2>1, <2>2, <2>3, PlainFits
<1>8. k = 2 => Fits(c, i, Op("transition", "SARIF_INGESTED", h))
  <2>1. <<"SOURCE_READY", "SARIF_INGESTED">> \in JournalEdges /\ "SOURCE_READY" # c.goal
    BY CommandKinds DEF JournalEdges
  <2>2. /\ "SARIF_INGESTED" \notin (IF c.mode = "sarif" THEN ScanBranch ELSE IngestBranch)
        /\ "SARIF_INGESTED" # BuildRegistry /\ "SARIF_INGESTED" # "SCANNED"
    BY DEF ScanBranch, BuildRegistry
  <2>3. i > 4 /\ i > 7 /\ i \in Int
    BY <1>3
  <2> QED
    BY <1>4, <1>5, <1>6, <2>1, <2>2, <2>3, MoveFits
<1>9. /\ IngestSteps[1] = Op("ingest", SarifInput, h)
      /\ IngestSteps[2] = Op("transition", "SARIF_INGESTED", h)
  BY DEF IngestSteps, h
<1> QED
  BY <1>3, <1>7, <1>8, <1>9 DEF i

\* The scan.
LEMMA ScanFits ==
    ASSUME NEW c \in Commands, c.mode # "sarif", NEW k \in 1 .. Len(ToolLogs) + 8
    PROVE  Fits(c, PrepEnd(c) + k, ScanSteps[k])
<1> DEFINE h == {"CODEQL_FAILED"}
           p == PrepEnd(c)
           n == Len(ToolLogs)
           i == PrepEnd(c) + k
<1>1. p \in Int /\ InputEnd(c) = p + n + 8 /\ (p = 7 \/ p = 8) /\ n \in Nat
  BY Numbers
<1>2. i = p + k /\ k \in 1 .. n + 8
  OBVIOUS
<1> HIDE DEF p, n, i
<1>3. /\ i \in Int /\ i + 1 \in Int /\ i > 7 /\ i > p /\ i <= InputEnd(c)
      /\ i = p + 2 <=> k = 2
      /\ i = InputEnd(c) - 2 <=> k = n + 6
      /\ k = 1 => i = p + 1 /\ i + 1 > p + 1 /\ i + 1 <= InputEnd(c) - 1
      /\ k > 1 => i > p + 1
      /\ k > 2 => i > p + 2
      /\ k > 1 /\ k < n + 7 => i <= InputEnd(c) - 1 /\ i + 1 > p + 1 /\ i + 1 <= InputEnd(c) - 1
      /\ k = n + 7 => i <= InputEnd(c) - 1 /\ i > p + 1 /\ i + 1 = InputEnd(c)
      /\ k = n + 8 => i = InputEnd(c) /\ i + 1 = InputEnd(c) + 1
  BY <1>1, <1>2
<1>4. i # ProgramEnd(c) /\ (k = n + 8 => i + 1 > InputEnd(c) /\ i + 1 <= NormalizeEnd(c))
  <2>1. /\ InputEnd(c) <= SupplementEnd(c) /\ NormalizeEnd(c) = SupplementEnd(c) + 4
        /\ NormalizeEnd(c) + 8 <= ContextEnd(c) /\ ContextEnd(c) < ProgramEnd(c)
        /\ InputEnd(c) \in Nat /\ SupplementEnd(c) \in Nat /\ NormalizeEnd(c) \in Nat
        /\ ContextEnd(c) \in Nat /\ ProgramEnd(c) \in Nat
    BY Ends
  <2> QED
    BY <1>3, <2>1, SMTT(30)
<1>5. /\ k = 1 => StageAt(c, i) = "SOURCE_READY" /\ StageAt(c, i + 1) = "BUILD_READY"
      /\ k > 1 /\ k < n + 7 => StageAt(c, i) = "BUILD_READY" /\ StageAt(c, i + 1) = "BUILD_READY"
      /\ k = n + 7 => StageAt(c, i) = "BUILD_READY" /\ StageAt(c, i + 1) = "CODEQL_DB_READY"
      /\ k = n + 8 => StageAt(c, i) = "CODEQL_DB_READY" /\ StageAt(c, i + 1) = "SCANNED"
  <2>1. k = 1 => StageAt(c, i) = "SOURCE_READY" /\ StageAt(c, i + 1) = "BUILD_READY"
    BY <1>3, Stages DEF p
  <2>2. k > 1 /\ k < n + 7 => StageAt(c, i) = "BUILD_READY" /\ StageAt(c, i + 1) = "BUILD_READY"
    BY <1>3, Stages DEF p
  <2>3. k = n + 7 => StageAt(c, i) = "BUILD_READY" /\ StageAt(c, i + 1) = "CODEQL_DB_READY"
    BY <1>3, Stages DEF p
  <2>4. k = n + 8 => StageAt(c, i) = "CODEQL_DB_READY" /\ StageAt(c, i + 1) = "SCANNED"
    BY <1>3, <1>4, Stages DEF p
  <2> QED
    BY <2>1, <2>2, <2>3, <2>4
<1>6. /\ h \in SUBSET FailureStates /\ {} \in SUBSET FailureStates
      /\ \A f \in h : /\ "BUILD_READY" \in StagesOf(f) /\ "CODEQL_DB_READY" \in StagesOf(f)
                      /\ "SCANNED" \in StagesOf(f)
      /\ h \subseteq {"CODEQL_FAILED"}
  BY DEF FailureStates, StagesOf, ScanBranch
<1> HIDE DEF h
<1>7. k = 1 => Fits(c, i, Op("transition", "BUILD_READY", {}))
  <2>1. <<"SOURCE_READY", "BUILD_READY">> \in JournalEdges /\ "SOURCE_READY" # c.goal
    BY CommandKinds DEF JournalEdges
  <2>2. /\ "BUILD_READY" \notin (IF c.mode = "sarif" THEN ScanBranch ELSE IngestBranch)
        /\ "BUILD_READY" # BuildRegistry /\ "BUILD_READY" # "SCANNED"
    BY DEF IngestBranch, BuildRegistry
  <2>3. i > 4 /\ i > 7 /\ i \in Int /\ (k = 1 => i # PrepEnd(c) + 2 /\ i # InputEnd(c) - 2)
    BY <1>1, <1>3 DEF p
  <2> QED
    BY <1>4, <1>5, <1>6, <2>1, <2>2, <2>3, MoveFits
<1>8. ASSUME NEW g \in {"BUILD_READY", "CODEQL_DB_READY"}, NEW a \in {"CODEQL_DB_READY", "SCANNED"},
             <<g, a>> \in JournalEdges, StageAt(c, i) = g, StageAt(c, i + 1) = a,
             k = n + 7 \/ k = n + 8, a = "SCANNED" => k = n + 8
      PROVE  Fits(c, i, Op("transition", a, h))
  <2>1. /\ g # c.goal /\ a \notin (IF c.mode = "sarif" THEN ScanBranch ELSE IngestBranch)
        /\ a # BuildRegistry
    BY CommandKinds, Zenon DEF IngestBranch, BuildRegistry
  <2>3. i > 4 /\ i > 7 /\ i \in Int /\ i # PrepEnd(c) + 2 /\ i # InputEnd(c) - 2 /\ i <= InputEnd(c)
    BY <1>1, <1>3, <1>8 DEF p
  <2>4. a = "SCANNED" => i = InputEnd(c)
    BY <1>3, <1>8
  <2>5. \A f \in h : g \in StagesOf(f) /\ a \in StagesOf(f)
    BY <1>6
  <2> QED
    BY <1>4, <1>6, <1>8, <2>1, <2>3, <2>4, <2>5, MoveFits
<1>9. /\ k = n + 7 => Fits(c, i, Op("transition", "CODEQL_DB_READY", h))
      /\ k = n + 8 => Fits(c, i, Op("transition", "SCANNED", h))
  <2>1. /\ <<"BUILD_READY", "CODEQL_DB_READY">> \in JournalEdges
        /\ <<"CODEQL_DB_READY", "SCANNED">> \in JournalEdges
    BY DEF JournalEdges
  <2>2. k = n + 7 => Fits(c, i, Op("transition", "CODEQL_DB_READY", h))
    BY <1>5, <1>8, <2>1
  <2>3. k = n + 8 => Fits(c, i, Op("transition", "SCANNED", h))
    BY <1>5, <1>8, <2>1
  <2> QED
    BY <2>2, <2>3
<1>10. ASSUME NEW o \in {"versions", "record"}, NEW a, a \notin Reserved, k > 2, k < n + 6
       PROVE  Fits(c, i, Op(o, a, h))
  <2>1. StageAt(c, i) = "BUILD_READY" /\ StageAt(c, i + 1) = "BUILD_READY"
    <3>1. k > 1 /\ k < n + 7
      BY <1>1, <1>2, <1>10
    <3> QED
      BY <1>5, <3>1
  <2>2. /\ i > PrepEnd(c) /\ i > PrepEnd(c) + 2 /\ i # PrepEnd(c) + 2 /\ i # InputEnd(c) - 2
        /\ i <= InputEnd(c) /\ i > 7 /\ i \in Int
    BY <1>1, <1>2, <1>3, <1>10 DEF p
  <2>3. \A f \in h : "BUILD_READY" \in StagesOf(f)
    BY <1>6
  <2>4. o \in {"work", "versions", "write", "ingest", "record"} /\ a \notin Reserved
    BY <1>10
  <2> QED
    BY <1>4, <1>6, <2>1, <2>2, <2>3, <2>4, PlainFits
<1>11. ASSUME NEW o \in {"scan", "check"}, NEW a, a # BuildRegistry,
              o = "scan" => k = 2, o = "check" => k = n + 6
       PROVE  Fits(c, i, Op(o, a, h))
  <2> DEFINE s == Op(o, a, h)
  <2> HIDE DEF s
  <2>1. s = [op |-> o, arg |-> a, handler |-> h]
    BY DEF Op, s
  <2>2. s.op = o /\ s.arg = a /\ s.handler = h
    BY <2>1
  <2>3. StageAt(c, i) = "BUILD_READY" /\ StageAt(c, i + 1) = "BUILD_READY"
    <3>1. k > 1 /\ k < n + 7
      BY <1>1, <1>2, <1>11
    <3> QED
      BY <1>5, <3>1
  <2>4. Places(c, i, s)
    <3>1. i > 7 /\ ~(i <= 4) /\ i # 2 /\ i # 3 /\ i # 4
      BY <1>3
    <3>2. i = PrepEnd(c) + 2 <=> o = "scan"
      BY <1>1, <1>3, <1>11 DEF p
    <3>3. i = InputEnd(c) - 2 <=> o = "check"
      BY <1>1, <1>3, <1>11
    <3> QED
      BY <1>4, <2>2, <3>1, <3>2, <3>3 DEF Places
  <2>5. Moves(c, i, s)
    BY <2>2, <2>3 DEF Moves
  <2>6. Handles(c, i, s)
    BY <1>3, <1>6, <2>2, <2>3 DEF Handles
  <2>7. s.handler = {"CODEQL_FAILED"}
    BY <2>2 DEF h
  <2>8. Fits(c, i, s)
    BY <1>11, <2>2, <2>4, <2>5, <2>6, <2>7 DEF Fits, Writing
  <2> QED
    BY <2>8 DEF s
<1>12. /\ ScanSteps[1] = Op("transition", "BUILD_READY", {})
       /\ ScanSteps[2] = Op("scan", "", h) /\ ScanSteps[3] = Op("versions", "", h)
       /\ \A j \in 1 .. n : ScanSteps[3 + j] = Op("record", ToolLogs[j], h)
       /\ ScanSteps[n + 4] = Op("record", RunMetadata, h)
       /\ ScanSteps[n + 5] = Op("record", ScanSarif, h)
       /\ ScanSteps[n + 6] = Op("check", ScanSarif, h)
       /\ ScanSteps[n + 7] = Op("transition", "CODEQL_DB_READY", h)
       /\ ScanSteps[n + 8] = Op("transition", "SCANNED", h)
  BY ScanBlock, Zenon DEF h, n
<1>13. /\ "" \notin Reserved /\ RunMetadata \notin Reserved /\ ScanSarif \notin Reserved
       /\ "" # BuildRegistry /\ ScanSarif # BuildRegistry
       /\ \A j \in 1 .. n : ToolLogs[j] \notin Reserved
  BY ReportIsApart, Lists DEF Reserved, Descriptor, ResolvedSpec, ErrorReport, RunMetadata, ScanSarif, BuildRegistry, n
<1>14. /\ k = 1 => Fits(c, i, ScanSteps[1])
       /\ k = n + 7 => Fits(c, i, ScanSteps[n + 7])
       /\ k = n + 8 => Fits(c, i, ScanSteps[n + 8])
  BY <1>7, <1>9, <1>12, Zenon
<1>15. k = 2 => Fits(c, i, ScanSteps[2])
  BY <1>11, <1>12, <1>13, Zenon
<1>16. k = n + 6 => Fits(c, i, ScanSteps[n + 6])
  BY <1>11, <1>12, <1>13, Zenon
<1>17. k > 2 /\ k < n + 6 =>
         /\ Fits(c, i, ScanSteps[3]) /\ \A j \in 1 .. n : Fits(c, i, ScanSteps[3 + j])
         /\ Fits(c, i, ScanSteps[n + 4]) /\ Fits(c, i, ScanSteps[n + 5])
  BY <1>10, <1>12, <1>13, Zenon
<1>18. /\ \/ k = 1 \/ k = 2 \/ k = 3 \/ k - 3 \in 1 .. n \/ k = n + 4 \/ k = n + 5 \/ k = n + 6
          \/ k = n + 7 \/ k = n + 8
       /\ 3 + (k - 3) = k
       /\ k = 3 \/ k - 3 \in 1 .. n \/ k = n + 4 \/ k = n + 5 => k > 2 /\ k < n + 6
  BY <1>1, <1>2
<1>19. Fits(c, i, ScanSteps[k])
  <2>1. CASE k = 3 \/ k = n + 4 \/ k = n + 5
    BY <1>17, <1>18, <2>1
  <2>2. CASE k - 3 \in 1 .. n
    BY <1>17, <1>18, <2>2
  <2>3. CASE k = 1 \/ k = 2 \/ k = n + 6 \/ k = n + 7 \/ k = n + 8
    BY <1>14, <1>15, <1>16, <2>3
  <2> QED
    BY <1>18, <2>1, <2>2, <2>3
<1> QED
  BY <1>19 DEF i

\* Every step of every command is at its place.
LEMMA StepsFit ==
    ASSUME NEW c \in Commands, NEW i \in 1 .. ProgramEnd(c)
    PROVE  Fits(c, i, Program(c)[i])
<1> DEFINE P == Program(c)
           p == PrepEnd(c)
           n == InputEnd(c)
           s == SupplementEnd(c)
           t == NormalizeEnd(c)
           m == Len(SlicePaths)
           x == ContextEnd(c)
           e == ProgramEnd(c)
<1>1. /\ \A k \in 1 .. 7 : P[k] = PrepareSteps[k]
      /\ \A k \in 1 .. p - 7 : P[7 + k] = ProfileSteps[k]
      /\ \A k \in 1 .. n - p : P[p + k] = InputOf(c)[k]
      /\ \A k \in 1 .. s - n : P[n + k] = SupplementSteps[k]
      /\ \A k \in 1 .. 4 : P[s + k] = NormalizeSteps[k]
      /\ \A k \in 1 .. m + 8 : P[t + k] = ContextSteps[k]
      /\ \A k \in 1 .. e - x : P[x + k] = GoalOf(c)[k]
  BY Layout
<1>2. /\ p \in Int /\ n \in Int /\ s \in Int /\ t \in Int /\ x \in Int /\ e \in Int /\ m \in Int
      /\ t = s + 4 /\ x = t + m + 8 /\ i \in 1 .. e
  <2>1. Len(SlicePaths) \in Int
    BY Lists
  <2> QED
    BY <2>1, Numbers, Zenon
<1> HIDE DEF P, p, n, s, t, m, x, e
<1>3. CASE i \in 1 .. 7
  BY <1>1, <1>3, PrepareFits DEF P
<1>4. CASE i - 7 \in 1 .. p - 7
  <2>1. 7 + (i - 7) = i
    BY <1>2
  <2>2. Fits(c, 7 + (i - 7), P[7 + (i - 7)])
    BY <1>1, <1>4, ProfileFits DEF p
  <2> QED
    BY <2>1, <2>2 DEF P
<1>5. CASE i - p \in 1 .. n - p
  <2> DEFINE k == i - p
  <2>1. p + k = i /\ k \in 1 .. n - p
    BY <1>2, <1>5
  <2> HIDE DEF k
  <2>2. P[p + k] = InputOf(c)[k]
    BY <1>1, <2>1
  <2>3. Fits(c, p + k, InputOf(c)[k])
    <3>1. CASE c.mode = "sarif"
      <4>1. InputOf(c) = IngestSteps /\ n = p + 2
        BY <3>1, Numbers DEF InputOf, n, p
      <4>2. k \in 1 .. 2
        BY <1>2, <2>1, <4>1
      <4> QED
        BY <3>1, <4>1, <4>2, IngestFits DEF p
    <3>2. CASE c.mode # "sarif"
      <4>1. InputOf(c) = ScanSteps /\ n = p + Len(ToolLogs) + 8 /\ Len(ToolLogs) \in Nat
        BY <3>2, Numbers DEF InputOf, n, p
      <4>2. k \in 1 .. Len(ToolLogs) + 8
        BY <1>2, <2>1, <4>1
      <4> QED
        BY <3>2, <4>1, <4>2, ScanFits DEF p
    <3> QED
      BY <3>1, <3>2
  <2> QED
    BY <2>1, <2>2, <2>3 DEF P
<1>6. CASE i - n \in 1 .. s - n
  <2>1. n + (i - n) = i
    BY <1>2
  <2>2. Fits(c, n + (i - n), P[n + (i - n)])
    BY <1>1, <1>6, SupplementFits DEF n, s
  <2> QED
    BY <2>1, <2>2 DEF P
<1>7. CASE i - s \in 1 .. 4
  <2>1. s + (i - s) = i
    BY <1>2
  <2>2. Fits(c, s + (i - s), P[s + (i - s)])
    BY <1>1, <1>7, NormalizeFits DEF s
  <2> QED
    BY <2>1, <2>2 DEF P
<1>8. CASE i - t \in 1 .. m + 8
  <2>1. t + (i - t) = i
    BY <1>2
  <2>2. Fits(c, t + (i - t), P[t + (i - t)])
    BY <1>1, <1>8, ContextFits DEF t, m
  <2> QED
    BY <2>1, <2>2 DEF P
<1>9. CASE i - x \in 1 .. e - x
  <2> DEFINE k == i - x
  <2>1. x + k = i /\ k \in 1 .. e - x
    BY <1>2, <1>9
  <2> HIDE DEF k
  <2>2. P[x + k] = GoalOf(c)[k]
    BY <1>1, <2>1
  <2>3. Fits(c, x + k, GoalOf(c)[k])
    <3>1. CASE c.goal = "JUDGED"
      <4>1. GoalOf(c) = TriageGoalSteps /\ e = x + 12
        BY <3>1, Numbers DEF GoalOf, e, x
      <4>2. k \in 1 .. 12
        BY <1>2, <2>1, <4>1
      <4> QED
        BY <3>1, <4>1, <4>2, TriageGoalFits DEF x
    <3>2. CASE c.goal # "JUDGED"
      <4>1. GoalOf(c) = ContextGoalSteps /\ e = x + 1
        BY <3>2, Numbers DEF GoalOf, e, x
      <4>2. k = 1
        BY <1>2, <2>1, <4>1
      <4> QED
        BY <3>2, <4>1, <4>2, ContextGoalFits DEF x
    <3> QED
      BY <3>1, <3>2
  <2> QED
    BY <2>1, <2>2, <2>3 DEF P
<1>10. \/ i \in 1 .. 7 \/ i - 7 \in 1 .. p - 7 \/ i - p \in 1 .. n - p \/ i - n \in 1 .. s - n
       \/ i - s \in 1 .. 4 \/ i - t \in 1 .. m + 8 \/ i - x \in 1 .. e - x
  BY <1>2
<1> QED
  BY <1>3, <1>4, <1>5, <1>6, <1>7, <1>8, <1>9, <1>10

\* The paths the steps before step i write.
Written(c, i) ==
    {Program(c)[j].arg : j \in {k \in 1 .. i - 1 : Program(c)[k].op \in Writing}}

\* After the scan everything it leaves behind is an artifact of a step.
LEMMA ScanIsWritten ==
    ASSUME NEW c \in Commands, c.mode # "sarif", NEW i \in Int, i > InputEnd(c)
    PROVE  ToolOutput \subseteq Written(c, i)
<1> DEFINE p == PrepEnd(c)
           n == Len(ToolLogs)
           h == {"CODEQL_FAILED"}
<1>1. p \in Int /\ n \in Nat /\ InputEnd(c) = p + n + 8 /\ p > 0
  <2>1. p \in Int /\ n \in Nat /\ InputEnd(c) = p + n + 8 /\ (p = 7 \/ p = 8)
    BY Numbers
  <2> QED
    BY <2>1
<1>2. \A k \in 1 .. InputEnd(c) - p : Program(c)[p + k] = ScanSteps[k]
  BY Layout DEF InputOf
<1>3. /\ \A j \in 1 .. n : ScanSteps[3 + j] = Op("record", ToolLogs[j], h)
      /\ ScanSteps[n + 4] = Op("record", RunMetadata, h)
      /\ ScanSteps[n + 5] = Op("record", ScanSarif, h)
  BY ScanBlock, Zenon
<1> HIDE DEF p, n, h
<1>4. ASSUME NEW k \in 1 .. n + 8, NEW a, ScanSteps[k] = Op("record", a, h)
      PROVE  a \in Written(c, i)
  <2>1. p + k \in 1 .. i - 1 /\ k \in 1 .. InputEnd(c) - p
    BY <1>1
  <2>2. Program(c)[p + k] = [op |-> "record", arg |-> a, handler |-> h]
    BY <1>2, <1>4, <2>1 DEF Op
  <2>3. Program(c)[p + k].op \in Writing /\ Program(c)[p + k].arg = a
    BY <2>2 DEF Writing
  <2> QED
    BY <2>1, <2>3 DEF Written
<1>5. RunMetadata \in Written(c, i) /\ ScanSarif \in Written(c, i)
  <2>1. n + 4 \in 1 .. n + 8 /\ n + 5 \in 1 .. n + 8
    BY <1>1
  <2> QED
    BY <1>3, <1>4, <2>1
<1>6. ASSUME NEW j \in 1 .. n PROVE ToolLogs[j] \in Written(c, i)
  <2>1. 3 + j \in 1 .. n + 8
    BY <1>1
  <2> QED
    BY <1>3, <1>4, <2>1
<1>7. ToSet(ToolLogs) \subseteq Written(c, i)
  BY <1>6, Lists DEF ToSet, n
<1> QED
  BY <1>5, <1>7 DEF ToolOutput

\* What a step adds to the paths written before it.
LEMMA WrittenStep ==
    ASSUME NEW c \in Commands, NEW i \in 1 .. ProgramEnd(c)
    PROVE  /\ Program(c)[i].op \in Writing =>
                Written(c, i + 1) = Written(c, i) \cup {Program(c)[i].arg}
           /\ Program(c)[i].op \notin Writing => Written(c, i + 1) = Written(c, i)
<1> DEFINE P == Program(c)
           before == {k \in 1 .. i - 1 : P[k].op \in Writing}
           after == {k \in 1 .. (i + 1) - 1 : P[k].op \in Writing}
<1>1. i \in Int /\ i >= 1
  <2>1. ProgramEnd(c) \in Int
    BY Numbers
  <2> QED
    BY <2>1
<1>2. Written(c, i) = {P[j].arg : j \in before} /\ Written(c, i + 1) = {P[j].arg : j \in after}
  BY DEF Written
<1>3. \A k : k \in 1 .. (i + 1) - 1 <=> k \in 1 .. i - 1 \/ k = i
  BY <1>1
<1> HIDE DEF P
<1>4. P[i].op \in Writing => after = before \cup {i}
  BY <1>3
<1>5. P[i].op \notin Writing => after = before
  BY <1>3
<1> HIDE DEF before, after
<1> QED
  BY <1>2, <1>4, <1>5 DEF P

\* Nothing is written before the scan or before the journal is open.
LEMMA NothingWritten ==
    ASSUME NEW c \in Commands, NEW i \in 1 .. ProgramEnd(c),
           i <= 5 \/ (c.mode # "sarif" /\ i <= PrepEnd(c) + 2)
    PROVE  Written(c, i) = {}
<1>1. ASSUME NEW k \in 1 .. i - 1 PROVE Program(c)[k].op \notin Writing
  <2>1. k \in 1 .. ProgramEnd(c)
    <3>1. ProgramEnd(c) \in Int
      BY Numbers
    <3> QED
      BY <3>1
  <2>2. Fits(c, k, Program(c)[k])
    BY <2>1, StepsFit
  <2>3. PrepEnd(c) \in Int /\ PrepEnd(c) >= 7
    <3>1. PrepEnd(c) \in Nat /\ 7 <= PrepEnd(c)
      BY Ends
    <3> QED
      BY <3>1
  <2>4. ~(k > PrepEnd(c) /\ (c.mode # "sarif" => k > PrepEnd(c) + 2))
    BY <2>3
  <2> QED
    BY <2>2, <2>4 DEF Fits
<1> QED
  BY <1>1 DEF Written

\* All of them are paths of the run, and in the end all that the steps write.
LEMMA WrittenPaths ==
    ASSUME NEW c \in Commands
    PROVE  /\ \A i \in 1 .. ProgramEnd(c) : Program(c)[i].op \in Writing => Program(c)[i].arg \in AllPaths
           /\ Written(c, ProgramEnd(c)) = WrittenBy(c)
           /\ WrittenBy(c) \subseteq AllPaths
<1>1. DOMAIN Program(c) = 1 .. ProgramEnd(c) /\ ProgramEnd(c) \in Nat /\ ProgramEnd(c) > 0
  <2>1. Program(c) \in Seq(Steps) /\ Len(Program(c)) = ProgramEnd(c)
    BY Layout
  <2>2. DOMAIN Program(c) = 1 .. ProgramEnd(c)
    BY <2>1
  <2>3. ProgramEnd(c) \in Nat /\ ContextEnd(c) \in Nat /\ ContextEnd(c) < ProgramEnd(c)
    BY Ends
  <2> QED
    BY <2>2, <2>3
<1>2. WrittenBy(c) = {Program(c)[i].arg : i \in {j \in 1 .. ProgramEnd(c) : Program(c)[j].op \in Writing}}
  BY <1>1 DEF WrittenBy, Writing
<1>3. WrittenBy(c) \subseteq AllPaths
  BY DEF AllPaths
<1>4. Written(c, ProgramEnd(c) + 1) = WrittenBy(c)
  <2> DEFINE A == {k \in 1 .. (ProgramEnd(c) + 1) - 1 : Program(c)[k].op \in Writing}
             B == {k \in 1 .. ProgramEnd(c) : Program(c)[k].op \in Writing}
  <2>1. \A k : k \in 1 .. (ProgramEnd(c) + 1) - 1 <=> k \in 1 .. ProgramEnd(c)
    BY <1>1
  <2>2. A = B
    BY <2>1, Zenon
  <2>3. Written(c, ProgramEnd(c) + 1) = {Program(c)[j].arg : j \in A}
    BY DEF Written
  <2>4. WrittenBy(c) = {Program(c)[j].arg : j \in B}
    BY <1>2
  <2> HIDE DEF A, B
  <2> QED
    BY <2>2, <2>3, <2>4
<1>5. Program(c)[ProgramEnd(c)].op \notin Writing
  <2>1. ProgramEnd(c) \in 1 .. ProgramEnd(c)
    BY <1>1
  <2>2. Places(c, ProgramEnd(c), Program(c)[ProgramEnd(c)])
    BY <2>1, StepsFit DEF Fits
  <2> QED
    BY <2>2 DEF Places, Writing
<1>6. Written(c, ProgramEnd(c) + 1) = Written(c, ProgramEnd(c))
  <2>1. ProgramEnd(c) \in 1 .. ProgramEnd(c)
    BY <1>1
  <2> QED
    BY <1>5, <2>1, WrittenStep
<1> QED
  BY <1>2, <1>3, <1>4, <1>6

-----------------------------------------------------------------------------
(* The journal of a command is the journal that RunJournalProofs is about. *)

\* That journal.
JP == INSTANCE RunJournalProofs
    WITH Paths <- AllPaths, InitialArtifacts <- <<Descriptor, ResolvedSpec>>

\* What that journal assumes of its paths.
LEMMA JournalAssumptions ==
    /\ <<Descriptor, ResolvedSpec>> \in Seq(AllPaths)
    /\ AllPaths \cap Journal!AuditFiles = {}
<1>1. Descriptor \in AllPaths /\ ResolvedSpec \in AllPaths
  BY DEF AllPaths
<1>2. Journal!AuditFiles = {"workflow-events.jsonl", "run-manifest.json"}
  BY DEF Journal!AuditFiles, Journal!LogFile, Journal!ManifestFile
<1>3. ASSUME NEW p \in AllPaths PROVE p \notin Journal!AuditFiles
  <2>1. CASE p \in {Descriptor, ResolvedSpec, ErrorReport}
    BY <1>2, <2>1 DEF Descriptor, ResolvedSpec, ErrorReport
  <2>2. CASE p \notin {Descriptor, ResolvedSpec, ErrorReport}
    <3>1. PICK c \in Commands : p \in WrittenBy(c)
      BY <2>2 DEF AllPaths
    <3>2. p \in Written(c, ProgramEnd(c))
      BY <3>1, WrittenPaths
    <3>3. PICK k \in 1 .. ProgramEnd(c) - 1 :
            Program(c)[k].op \in Writing /\ p = Program(c)[k].arg
      BY <3>2 DEF Written
    <3>4. k \in 1 .. ProgramEnd(c)
      <4>1. ProgramEnd(c) \in Int
        BY Numbers
      <4> QED
        BY <4>1
    <3>5. p \notin Reserved
      BY <3>3, <3>4, StepsFit DEF Fits
    <3> QED
      BY <1>2, <3>5 DEF Reserved
  <2> QED
    BY <2>1, <2>2
<1> QED
  BY <1>1, <1>3

\* The words of the two are the same.
LEMMA Words ==
    /\ Journal!TypeOK <=> JP!TypeOK
    /\ Journal!AppendFaults = JP!AppendFaults /\ Journal!PersistFaults = JP!PersistFaults
    /\ Journal!WriteFaults = JP!WriteFaults /\ Journal!ReadFaults = JP!ReadFaults
    /\ Journal!AuditFaults = JP!AuditFaults /\ Journal!AuditFiles = JP!AuditFiles
    /\ Journal!LogFile = JP!LogFile
    /\ Journal!FailureStates = JP!FailureStates /\ Journal!Registered = JP!Registered
    /\ Journal!JournalEdges = JP!JournalEdges /\ Journal!GoalStates = JP!GoalStates
    /\ Journal!SealFaults = JP!SealFaults /\ Journal!Uncaught = JP!Uncaught
    /\ (Journal!Finalizing <=> JP!Finalizing)
    /\ Journal!WorkflowState = JP!WorkflowState
  BY DEF Journal!TypeOK, JP!TypeOK, Journal!Event, JP!Event, Journal!ArtifactRecord,
     JP!ArtifactRecord, Journal!Contents, JP!Contents, Journal!AuditFiles, JP!AuditFiles,
     Journal!LogFile, JP!LogFile, Journal!ManifestFile, JP!ManifestFile,
     Journal!WorkflowState, JP!WorkflowState, Journal!ProgressStates, JP!ProgressStates,
     Journal!FailureStates, JP!FailureStates, Journal!Modes, JP!Modes,
     Journal!AppendFaults, JP!AppendFaults, Journal!PersistFaults, JP!PersistFaults,
     Journal!WriteFaults, JP!WriteFaults, Journal!ReadFaults, JP!ReadFaults,
     Journal!AuditFaults, JP!AuditFaults, Journal!Registered, JP!Registered,
     Journal!PathsIn, JP!PathsIn, Journal!JournalEdges, JP!JournalEdges,
     Journal!GoalStates, JP!GoalStates, Journal!SealFaults, JP!SealFaults,
     Journal!Uncaught, JP!Uncaught, Journal!Finalizing, JP!Finalizing

\* Typed after a step is typed after a step.
LEMMA SameTypes == Journal!TypeOK' <=> JP!TypeOK'
  BY Words, PTL

\* So are the parts its calls are made of.
LEMMA SameValidator ==
    ASSUME NEW m
    PROVE  Journal!ValidManifest(m) <=> JP!ValidManifest(m)
  BY DEF Journal!ValidManifest, JP!ValidManifest, Journal!ChainIsConsistent,
     JP!ChainIsConsistent, Journal!ManifestAllows, JP!ManifestAllows,
     Journal!ManifestEdges, JP!ManifestEdges, Journal!FailureStates, JP!FailureStates,
     Journal!ScanBranch, JP!ScanBranch, Journal!IngestBranch, JP!IngestBranch,
     Journal!GoalStates, JP!GoalStates

\* The helpers of the two are the same.
LEMMA SameParts ==
    ASSUME NEW io
    PROVE  /\ Journal!PersistManifest(io) <=> JP!PersistManifest(io)
           /\ \A p, d : Journal!Register(p, d, io) <=> JP!Register(p, d, io)
           /\ \A from, to : Journal!AppendEvent(from, to, io) <=> JP!AppendEvent(from, to, io)
           /\ Journal!Verified(io) <=> JP!Verified(io)
           /\ Journal!Seal(io) <=> JP!Seal(io)
           /\ Journal!Error(io) = JP!Error(io) /\ Journal!Early(io) = JP!Early(io)
           /\ Journal!Stop(io) <=> JP!Stop(io)
           /\ Journal!Refuse <=> JP!Refuse
<1>1. Journal!Projection' = JP!Projection'
  BY DEF Journal!Projection, JP!Projection
<1>2. Journal!Error(io) = JP!Error(io)
  BY Words DEF Journal!Error, JP!Error
<1>3. /\ Journal!Early(io) = JP!Early(io)
      /\ Journal!Stop(io) <=> JP!Stop(io)
      /\ Journal!Refuse <=> JP!Refuse
  BY DEF Journal!Early, JP!Early, Journal!Stop, JP!Stop, Journal!Refuse, JP!Refuse
<1>4. Journal!PersistManifest(io) <=> JP!PersistManifest(io)
  BY <1>1, <1>2, SameValidator, Words DEF Journal!PersistManifest, JP!PersistManifest
<1>5. ASSUME NEW p, NEW d PROVE Journal!Register(p, d, io) <=> JP!Register(p, d, io)
  BY <1>4, Words DEF Journal!Register, JP!Register
<1>6. ASSUME NEW from, NEW to
      PROVE  Journal!AppendEvent(from, to, io) <=> JP!AppendEvent(from, to, io)
  BY Words DEF Journal!AppendEvent, JP!AppendEvent
<1>7. Journal!Verified(io) <=> JP!Verified(io)
  BY Words DEF Journal!Verified, JP!Verified
<1>8. Journal!Seal(io) <=> JP!Seal(io)
  BY Words DEF Journal!Seal, JP!Seal
<1> QED
  BY <1>2, <1>3, <1>4, <1>5, <1>6, <1>7, <1>8

\* Hence every call of the command keeps the journal's variables typed.
LEMMA OpeningTypes ==
    ASSUME Journal!TypeOK, Journal!OpeningOK, NEW io,
           Journal!Open(io) \/ Journal!RegisterInitial(io)
    PROVE  Journal!TypeOK'
<1>1. Journal!OpeningOK <=> JP!OpeningOK
  BY DEF Journal!OpeningOK, JP!OpeningOK
<1>2. Journal!Open(io) => JP!Open(io)
  BY Words, SameParts DEF Journal!Open, JP!Open
<1>3. Journal!RegisterInitial(io) => JP!RegisterInitial(io)
  BY Words, SameParts DEF Journal!RegisterInitial, JP!RegisterInitial
<1>4. JP!TypeOK /\ JP!OpeningOK
  BY <1>1, Words
<1>5. JP!Open(io) => JP!TypeOK'
  BY <1>4, JP!OpenType, JournalAssumptions, Words
<1>6. JP!RegisterInitial(io) => JP!TypeOK'
  BY <1>4, JP!RegisterInitialType, JournalAssumptions, Words
<1> QED
  BY <1>2, <1>3, <1>5, <1>6, SameTypes

\* The calls that record files keep the journal typed.
LEMMA RecordingTypes ==
    ASSUME Journal!TypeOK, NEW p \in AllPaths, NEW io,
           \/ Journal!AddToolVersions(io) \/ Journal!WriteArtifact(p, io)
           \/ Journal!IngestFile(p, io) \/ Journal!RecordExisting(p, io)
    PROVE  Journal!TypeOK'
<1>1. JP!TypeOK
  BY Words
<1>2. Journal!AddToolVersions(io) => JP!AddToolVersions(io)
  BY Words, SameParts DEF Journal!AddToolVersions, JP!AddToolVersions
<1>3. Journal!WriteArtifact(p, io) => JP!WriteArtifact(p, io)
  BY Words, SameParts DEF Journal!WriteArtifact, JP!WriteArtifact
<1>4. Journal!RecordExisting(p, io) => JP!RecordExisting(p, io)
  BY Words, SameParts DEF Journal!RecordExisting, JP!RecordExisting
<1>5. Journal!IngestFile(p, io) => JP!WriteArtifact(p, io) \/ JP!Stop(io)
  BY <1>3, Words, SameParts DEF Journal!IngestFile
<1>6. JP!AddToolVersions(io) => JP!TypeOK'
  BY <1>1, JP!AddToolVersionsType, JournalAssumptions, Words
<1>7. JP!WriteArtifact(p, io) => JP!TypeOK'
  BY <1>1, JP!WriteArtifactType, JournalAssumptions, Words
<1>8. JP!RecordExisting(p, io) => JP!TypeOK'
  BY <1>1, JP!RecordExistingType, JournalAssumptions, Words
<1>9. JP!Stop(io) => JP!TypeOK'
  BY <1>1, JP!StopType, JournalAssumptions, Words
<1> QED
  BY <1>2, <1>3, <1>4, <1>5, <1>6, <1>7, <1>8, <1>9, SameTypes

\* So does a transition,
LEMMA TransitionTypes ==
    ASSUME Journal!TypeOK, NEW to \in WorkflowState, NEW io, Journal!Transition(to, io)
    PROVE  Journal!TypeOK'
<1>1. JP!TypeOK
  BY Words
<1>2. JP!Transition(to, io)
  BY Words, SameParts DEF Journal!Transition, JP!Transition
<1>3. to \in JP!WorkflowState
  BY DEF WorkflowState, ProgressStates, FailureStates, JP!WorkflowState, JP!ProgressStates,
     JP!FailureStates
<1>4. JP!TypeOK'
  BY <1>1, <1>2, <1>3, JP!TransitionType, JournalAssumptions, Words
<1> QED
  BY <1>4, SameTypes

\* and so do the calls that end a run, and an outside change.
LEMMA EndingTypes ==
    ASSUME Journal!TypeOK, NEW io,
           \/ Journal!CompleteVerify(io) \/ \E to \in FailureStates : Journal!FailVerify(to, io)
           \/ Journal!CompleteCommit(io) \/ Journal!FailCommit(io)
           \/ \E n \in 0 .. Len(artifacts) : Journal!SealRefused(n, io)
           \/ \E p \in AllPaths : Journal!Alter(p)
    PROVE  Journal!TypeOK'
<1>1. JP!TypeOK
  BY Words
<1>2. Journal!CompleteVerify(io) => JP!CompleteVerify(io)
  BY Words, SameParts DEF Journal!CompleteVerify, JP!CompleteVerify
<1>3. (\E to \in FailureStates : Journal!FailVerify(to, io)) =>
         \E to \in JP!FailureStates : JP!FailVerify(to, io)
  <2>1. \A to : Journal!FailVerify(to, io) => JP!FailVerify(to, io)
    BY Words, SameParts DEF Journal!FailVerify, JP!FailVerify
  <2>2. FailureStates = JP!FailureStates
    BY DEF FailureStates, JP!FailureStates
  <2> QED
    BY <2>1, <2>2
<1>4. Journal!CompleteCommit(io) => JP!CompleteCommit(io)
  BY Words, SameParts DEF Journal!CompleteCommit, JP!CompleteCommit
<1>5. Journal!FailCommit(io) => JP!FailCommit(io)
  BY Words, SameParts DEF Journal!FailCommit, JP!FailCommit
<1>6. \A n : Journal!SealRefused(n, io) => JP!SealRefused(n, io)
  BY Words DEF Journal!SealRefused, JP!SealRefused, Journal!Error, JP!Error
<1>7. \A p : Journal!Alter(p) => JP!Alter(p)
  BY Words DEF Journal!Alter, JP!Alter
<1>8. Len(artifacts) \in Nat
  BY DEF Journal!TypeOK
<1>9. ASSUME NEW n \in 0 .. Len(artifacts), Journal!SealRefused(n, io) PROVE JP!TypeOK'
  <2>1. n \in Nat
    BY <1>8
  <2> QED
    BY <1>1, <1>6, <1>9, <2>1, JP!SealRefusedType, JournalAssumptions, Words
<1>10. ASSUME NEW p \in AllPaths, Journal!Alter(p) PROVE JP!TypeOK'
  BY <1>1, <1>7, <1>10, JP!AlterType, JournalAssumptions, Words
<1>11. JP!CompleteVerify(io) \/ (\E to \in JP!FailureStates : JP!FailVerify(to, io)) => JP!TypeOK'
  BY <1>1, JP!VerifyType, JournalAssumptions, Words
<1>12. JP!CompleteCommit(io) => JP!TypeOK'
  BY <1>1, JP!CompleteCommitType, JournalAssumptions, Words
<1>13. JP!FailCommit(io) => JP!TypeOK'
  BY <1>1, JP!FailCommitType, JournalAssumptions, Words
<1> QED
  BY <1>2, <1>3, <1>4, <1>5, <1>9, <1>10, <1>11, <1>12, <1>13, SameTypes

-----------------------------------------------------------------------------
(* What the calls of the journal do. *)

\* The journal's copies of the states and edges.
LEMMA Names ==
    /\ Journal!FailureStates = FailureStates /\ Journal!ProgressStates = ProgressStates
    /\ Journal!WorkflowState = WorkflowState /\ Journal!JournalEdges = JournalEdges
    /\ Journal!GoalStates = GoalStates /\ Journal!Modes = Modes
    /\ Journal!ScanBranch = ScanBranch /\ Journal!IngestBranch = IngestBranch
    /\ \A a, b : Journal!ManifestAllows(a, b) <=> ManifestAllows(a, b)
  BY DEF Journal!FailureStates, FailureStates, Journal!ProgressStates, ProgressStates,
     Journal!WorkflowState, WorkflowState, Journal!JournalEdges, JournalEdges,
     Journal!GoalStates, GoalStates, Journal!Modes, Modes, Journal!ScanBranch, ScanBranch,
     Journal!IngestBranch, IngestBranch, Journal!ManifestAllows, ManifestAllows,
     Journal!ManifestEdges, ManifestEdges

\* Every edge of the journal goes up, between progress states, and the validator allows it.
LEMMA Edges ==
    ASSUME NEW a, NEW b, <<a, b>> \in JournalEdges
    PROVE  /\ a \in ProgressStates /\ b \in ProgressStates
           /\ Rank[a] \in Nat /\ Rank[b] \in Nat /\ Rank[a] < Rank[b]
           /\ ManifestAllows(a, b)
<1>1. a \in ProgressStates /\ b \in ProgressStates
  BY DEF JournalEdges, ProgressStates
<1>2. a \in WorkflowState /\ b \in WorkflowState
  BY <1>1 DEF WorkflowState
<1>3. Rank[a] \in Nat /\ Rank[b] \in Nat /\ Rank[a] < Rank[b]
  BY <1>2 DEF JournalEdges, Rank
<1>4. ManifestAllows(a, b)
  BY <1>1 DEF ManifestAllows, JournalEdges, ManifestEdges, FailureStates, ProgressStates
<1> QED
  BY <1>1, <1>3, <1>4

\* Ranks are numbers.
LEMMA Ranks == \A s \in WorkflowState : Rank[s] \in Nat
  BY DEF Rank

\* The types of the histories and records.
LEMMA JournalTypes ==
    ASSUME Journal!TypeOK
    PROVE  /\ events \in Seq(Journal!Event) /\ log \in Seq(Journal!Event)
           /\ artifacts \in Seq(Journal!ArtifactRecord)
           /\ Len(events) \in Nat /\ DOMAIN events = 1 .. Len(events)
           /\ Len(artifacts) \in Nat /\ DOMAIN artifacts = 1 .. Len(artifacts)
           /\ \A i \in DOMAIN events : events[i].to \in WorkflowState
           /\ state \in WorkflowState /\ files \in [AllPaths -> Journal!Contents]
           /\ status \in {"running", "completed", "failed"}
           /\ \A i \in DOMAIN artifacts : artifacts[i].path \in AllPaths
<1>1. /\ events \in Seq(Journal!Event) /\ log \in Seq(Journal!Event)
      /\ artifacts \in Seq(Journal!ArtifactRecord) /\ state \in WorkflowState
      /\ files \in [AllPaths -> Journal!Contents] /\ status \in {"running", "completed", "failed"}
  BY Names DEF Journal!TypeOK
<1>2. \A i \in DOMAIN events : events[i] \in Journal!Event
  BY <1>1
<1>3. \A i \in DOMAIN artifacts : artifacts[i] \in Journal!ArtifactRecord
  BY <1>1
<1>4. \A i \in DOMAIN events : events[i].to \in WorkflowState
  BY <1>2, Names DEF Journal!Event
<1>5. \A i \in DOMAIN artifacts : artifacts[i].path \in AllPaths
  BY <1>3 DEF Journal!ArtifactRecord
<1>6. /\ Len(events) \in Nat /\ DOMAIN events = 1 .. Len(events)
      /\ Len(artifacts) \in Nat /\ DOMAIN artifacts = 1 .. Len(artifacts)
  BY <1>1
<1> QED
  BY <1>1, <1>4, <1>5, <1>6

\* What the validator of the manifest asks of records and histories, and what
\* a history before the state s looks like.
Distinct(records) ==
    \A i, j \in DOMAIN records : records[i].path = records[j].path => i = j
OnBranch(m, history) ==
    \A i \in DOMAIN history :
        history[i].to \notin (IF m = "sarif" THEN ScanBranch ELSE IngestBranch)
Below(s, history) == \A i \in DOMAIN history : Rank[history[i].to] <= Rank[s]

\* What makes a manifest of a running command valid.
LEMMA RunningIsValid ==
    ASSUME NEW s \in ProgressStates, NEW history, NEW records, Journal!ChainIsConsistent(history),
           s = history[Len(history)].to, Distinct(records), OnBranch(mode, history),
           NEW u, u = "running" \/ (u = "completed" /\ s \in GoalStates)
    PROVE  Journal!ValidManifest([state |-> s, status |-> u, events |-> history,
                                  artifacts |-> records])
<1> DEFINE m == [state |-> s, status |-> u, events |-> history, artifacts |-> records]
<1>1. m.state = s /\ m.status = u /\ m.events = history /\ m.artifacts = records
  OBVIOUS
<1> HIDE DEF m
<1>2. s \notin FailureStates /\ s # "CODEQL_FAILED" /\ u # "failed"
  BY DEF ProgressStates, FailureStates
<1>3. u = "completed" => s \in GoalStates
  OBVIOUS
<1>4. Journal!ValidManifest(m)
  BY <1>1, <1>2, <1>3, Names DEF Journal!ValidManifest, Distinct, OnBranch
<1> QED
  BY <1>4 DEF m

\* A failed command's manifest.
LEMMA FailedIsValid ==
    ASSUME NEW s \in FailureStates, NEW history, NEW records, Journal!ChainIsConsistent(history),
           s = history[Len(history)].to, Distinct(records), OnBranch(mode, history),
           s = "CODEQL_FAILED" => mode # "sarif"
    PROVE  Journal!ValidManifest([state |-> s, status |-> "failed", events |-> history,
                                  artifacts |-> records])
<1> DEFINE m == [state |-> s, status |-> "failed", events |-> history, artifacts |-> records]
<1>1. m.state = s /\ m.status = "failed" /\ m.events = history /\ m.artifacts = records
  OBVIOUS
<1> HIDE DEF m
<1>2. "failed" # "completed"
  OBVIOUS
<1>4. Journal!ValidManifest(m)
  BY <1>1, <1>2, Names DEF Journal!ValidManifest, Distinct, OnBranch
<1> QED
  BY <1>4 DEF m

\* A history grows by a move that the validator allows.
LEMMA HistoryGrows ==
    ASSUME NEW history \in Seq(Journal!Event), Journal!ChainIsConsistent(history),
           NEW s, s = history[Len(history)].to, NEW to \in WorkflowState, ManifestAllows(s, to),
           NEW e, e = [seq |-> Len(history), from |-> s, to |-> to]
    PROVE  /\ Append(history, e) \in Seq(Journal!Event)
           /\ Journal!ChainIsConsistent(Append(history, e))
           /\ Append(history, e)[Len(Append(history, e))] = e
           /\ \A i \in DOMAIN Append(history, e) :
                \/ (i \in DOMAIN history /\ Append(history, e)[i] = history[i])
                \/ (i = Len(history) + 1 /\ Append(history, e)[i] = e)
<1> DEFINE g == Append(history, e)
           n == Len(history)
<1>1. n \in Nat /\ DOMAIN history = 1 .. n /\ history # <<>>
  BY DEF Journal!ChainIsConsistent
<1>2. n >= 1
  <2>1. n # 0
    BY <1>1
  <2> QED
    BY <1>1, <2>1
<1>3. history[n] \in Journal!Event
  BY <1>1, <1>2
<1>4. s \in WorkflowState
  BY <1>3, Names DEF Journal!Event
<1>5. e \in Journal!Event
  BY <1>1, <1>4, Names DEF Journal!Event
<1>6. /\ g \in Seq(Journal!Event) /\ Len(g) = n + 1 /\ DOMAIN g = 1 .. n + 1
      /\ \A i \in 1 .. n : g[i] = history[i]
      /\ g[n + 1] = e
  BY <1>5
<1> HIDE DEF g, n
<1>7. g # <<>>
  <2>1. Len(g) # 0
    BY <1>1, <1>6
  <2> QED
    BY <1>6, <2>1
<1>8. g[1] = [seq |-> 0, from |-> "none", to |-> "CREATED"]
  BY <1>1, <1>2, <1>6 DEF Journal!ChainIsConsistent, n
<1>9. ASSUME NEW i \in 2 .. Len(g)
      PROVE  /\ g[i].seq = i - 1 /\ g[i].from = g[i - 1].to
             /\ Journal!ManifestAllows(g[i - 1].to, g[i].to)
  <2>1. CASE i \in 2 .. n
    <3>1. i \in 1 .. n /\ i - 1 \in 1 .. n
      BY <1>1, <2>1
    <3>2. /\ history[i].seq = i - 1 /\ history[i].from = history[i - 1].to
          /\ Journal!ManifestAllows(history[i - 1].to, history[i].to)
      BY <2>1 DEF Journal!ChainIsConsistent, n
    <3> QED
      BY <1>6, <3>1, <3>2
  <2>2. CASE i = n + 1
    <3>1. i - 1 = n /\ n \in 1 .. n
      BY <1>1, <1>2, <2>2
    <3>2. g[i] = e /\ g[i - 1] = history[n]
      BY <1>6, <2>2, <3>1
    <3>3. e.seq = n /\ e.from = s /\ e.to = to
      BY DEF n
    <3> QED
      BY <3>1, <3>2, <3>3, Names DEF n
  <2> QED
    BY <1>1, <1>6, <2>1, <2>2
<1>10. Journal!ChainIsConsistent(g)
  BY <1>7, <1>8, <1>9 DEF Journal!ChainIsConsistent
<1>11. ASSUME NEW i \in DOMAIN g
       PROVE  (i \in DOMAIN history /\ g[i] = history[i]) \/ (i = n + 1 /\ g[i] = e)
  BY <1>1, <1>6
<1> QED
  BY <1>6, <1>10, <1>11 DEF g, n

\* PersistManifest: what may become of the manifest.
LEMMA PersistEffect ==
    ASSUME NEW io, Journal!PersistManifest(io)
    PROVE  /\ exc' \in {"none", "evitriage", "validation", "oserror"}
           /\ \/ manifest' = manifest
              \/ (manifest' = Journal!Projection' /\ Journal!ValidManifest(Journal!Projection'))
           /\ exc' = "none" => manifest' = Journal!Projection'
           /\ Journal!ValidManifest(Journal!Projection') => exc' # "validation"
           /\ ~Journal!ValidManifest(Journal!Projection') =>
                exc' = "validation" /\ manifest' = manifest
           /\ Journal!ValidManifest(Journal!Projection') /\ io = "none" => exc' = "none"
           /\ io = "none" => exc' # "oserror"
  BY DEF Journal!PersistManifest, Journal!PersistFaults, Journal!AuditFaults, Journal!Error

\* The records may grow by one file that is on disk and has no record yet.
Grown(p) ==
    /\ p \notin Journal!Registered /\ files'[p] # "absent"
    /\ artifacts' = Append(artifacts, [path |-> p, digest |-> files'[p]])

\* AddToolVersions, WriteArtifact, IngestFile and RecordExisting, which leave the history alone.
Recording(p, io) ==
    \/ Journal!AddToolVersions(io) \/ Journal!WriteArtifact(p, io)
    \/ Journal!IngestFile(p, io) \/ Journal!RecordExisting(p, io)

\* What a registration changes.
LEMMA RegisterEffect ==
    ASSUME NEW p, NEW d, NEW io, Journal!Register(p, d, io), d # "absent", files'[p] = d
    PROVE  /\ UNCHANGED <<mode, state, status, events>>
           /\ artifacts' = artifacts \/ Grown(p)
           /\ exc' \in {"none", "evitriage", "validation", "oserror"}
           /\ \/ manifest' = manifest
              \/ (manifest' = Journal!Projection' /\ Journal!ValidManifest(Journal!Projection'))
           /\ exc' = "none" => manifest' = Journal!Projection' /\ Grown(p)
           /\ Journal!ValidManifest(Journal!Projection') => exc' # "validation"
           /\ ~Journal!ValidManifest(Journal!Projection') => manifest' = manifest
           /\ p \in Journal!Registered \/ Grown(p)
           /\ p \notin Journal!Registered /\ Journal!ValidManifest(Journal!Projection')
                /\ io = "none" => exc' = "none"
           /\ io = "none" => exc' # "oserror"
<1>1. CASE p \in Journal!Registered
  BY <1>1 DEF Journal!Register
<1>2. CASE p \notin Journal!Registered
  BY <1>2, PersistEffect DEF Journal!Register, Grown
<1> QED
  BY <1>1, <1>2

\* The call raised before it changed anything.
Stopped(io) == Journal!Refuse \/ Journal!Stop(io)

\* What a call that records a file changes.
LEMMA RecordingEffect ==
    ASSUME Journal!TypeOK, NEW p \in AllPaths, NEW io, Recording(p, io)
    PROVE  /\ UNCHANGED <<mode, state, status, events, log, torn, sealed, call, late>>
           /\ call = "idle" /\ exc' \in {"none", "evitriage", "validation", "oserror"}
           /\ artifacts' = artifacts \/ (Grown(p) /\ status = "running")
           /\ \/ manifest' = manifest
              \/ (manifest' = Journal!Projection' /\ Journal!ValidManifest(Journal!Projection'))
           /\ exc' = "none" => status = "running" /\ manifest' = Journal!Projection'
           /\ Journal!ValidManifest(Journal!Projection') => exc' # "validation"
           /\ ~Journal!ValidManifest(Journal!Projection') => manifest' = manifest
           /\ status # "running" =>
                exc' \in {"evitriage", "oserror"} /\ UNCHANGED <<artifacts, manifest, files>>
           /\ io = "none" => exc' # "oserror"
           /\ \A q \in AllPaths : files'[q] # files[q] => q = p /\ files[q] = "absent"
           /\ io = "none" => \A q \in AllPaths :
                files'[q] # files[q] => p \in Journal!Registered \/ Grown(p)
<1>1. files \in [AllPaths -> Journal!Contents]
  BY DEF Journal!TypeOK
<1>2. CASE Stopped(io) /\ call = "idle"
  BY <1>2 DEF Stopped, Journal!Refuse, Journal!Stop, Journal!Early
<1>3. CASE Journal!AddToolVersions(io) /\ ~Stopped(io)
  BY <1>3, PersistEffect DEF Journal!AddToolVersions, Stopped
<1>4. ASSUME Journal!WriteArtifact(p, io), ~Stopped(io)
      PROVE  /\ UNCHANGED <<mode, state, status, events, log, torn, sealed, call, late>>
             /\ call = "idle" /\ exc' \in {"none", "evitriage", "validation", "oserror"}
             /\ artifacts' = artifacts \/ (Grown(p) /\ status = "running")
             /\ \/ manifest' = manifest
                \/ (manifest' = Journal!Projection' /\ Journal!ValidManifest(Journal!Projection'))
             /\ exc' = "none" => status = "running" /\ manifest' = Journal!Projection'
             /\ Journal!ValidManifest(Journal!Projection') => exc' # "validation"
             /\ ~Journal!ValidManifest(Journal!Projection') => manifest' = manifest
             /\ status = "running" /\ (io = "none" => exc' # "oserror")
             /\ \A q \in AllPaths : files'[q] # files[q] => q = p /\ files[q] = "absent"
             /\ io = "none" => \A q \in AllPaths :
                  files'[q] # files[q] => p \in Journal!Registered \/ Grown(p)
  <2>1. /\ call = "idle" /\ status = "running" /\ files[p] = "absent"
        /\ UNCHANGED <<log, torn, sealed, call, late>>
        /\ files' = [files EXCEPT ![p] =
             IF io = "write_refused" THEN "absent"
             ELSE IF io = "write_partial" THEN "partial" ELSE "original"]
    BY <1>4 DEF Journal!WriteArtifact, Stopped
  <2>2. \A q \in AllPaths : files'[q] # files[q] => q = p /\ files[q] = "absent"
    BY <1>1, <2>1
  <2>3. CASE io \in Journal!WriteFaults
    <3>1. exc' = "evitriage" /\ UNCHANGED <<mode, state, status, events, artifacts, manifest>>
      BY <1>4, <2>1, <2>3 DEF Journal!WriteArtifact, Stopped
    <3>2. io # "none"
      BY <2>3 DEF Journal!WriteFaults
    <3> QED
      BY <2>1, <2>2, <3>1, <3>2
  <2>4. CASE io \notin Journal!WriteFaults
    <3>1. Journal!Register(p, "original", io)
      BY <1>4, <2>1, <2>4 DEF Journal!WriteArtifact, Stopped
    <3>2. io # "write_refused" /\ io # "write_partial"
      BY <2>4 DEF Journal!WriteFaults
    <3>3. files'[p] = "original" /\ "original" # "absent"
      BY <1>1, <2>1, <3>2
    <3> QED
      BY <2>1, <2>2, <3>1, <3>3, RegisterEffect
  <2> QED
    BY <2>3, <2>4
<1>5. ASSUME Journal!RecordExisting(p, io), ~Stopped(io)
      PROVE  /\ UNCHANGED <<mode, state, status, events, log, torn, sealed, call, late>>
             /\ call = "idle" /\ exc' \in {"none", "evitriage", "validation", "oserror"}
             /\ artifacts' = artifacts \/ (Grown(p) /\ status = "running")
             /\ \/ manifest' = manifest
                \/ (manifest' = Journal!Projection' /\ Journal!ValidManifest(Journal!Projection'))
             /\ exc' = "none" => status = "running" /\ manifest' = Journal!Projection'
             /\ Journal!ValidManifest(Journal!Projection') => exc' # "validation"
             /\ ~Journal!ValidManifest(Journal!Projection') => manifest' = manifest
             /\ status = "running" /\ files' = files /\ (io = "none" => exc' # "oserror")
  <2>1. /\ call = "idle" /\ status = "running" /\ files[p] # "absent"
        /\ UNCHANGED <<log, torn, files, sealed, call, late>>
        /\ Journal!Register(p, files[p], io)
    BY <1>5 DEF Journal!RecordExisting, Stopped
  <2>2. files'[p] = files[p]
    BY <2>1
  <2> QED
    BY <2>1, <2>2, RegisterEffect
<1>6. \/ Journal!AddToolVersions(io) \/ Journal!WriteArtifact(p, io)
      \/ (Stopped(io) /\ call = "idle") \/ Journal!RecordExisting(p, io)
  BY DEF Recording, Journal!IngestFile, Stopped
<1>7. \/ (Journal!AddToolVersions(io) /\ ~Stopped(io))
      \/ (Journal!WriteArtifact(p, io) /\ ~Stopped(io))
      \/ (Stopped(io) /\ call = "idle")
      \/ (Journal!RecordExisting(p, io) /\ ~Stopped(io))
  <2>1. Journal!AddToolVersions(io) \/ Journal!WriteArtifact(p, io) \/ Journal!RecordExisting(p, io)
          => call = "idle"
    BY DEF Journal!AddToolVersions, Journal!WriteArtifact, Journal!RecordExisting
  <2> QED
    BY <1>6, <2>1
<1> QED
  BY <1>2, <1>3, <1>4, <1>5, <1>7

-----------------------------------------------------------------------------
(* The invariant. *)

\* The records of the allocation, and the record of the parsed SARIF.
Initial == {Descriptor, ResolvedSpec}
Parsed == [path |-> ScanSarif, digest |-> "original"]
HasParsed(records) == \E i \in DOMAIN records : records[i] = Parsed
Reached(history, s) == \E i \in DOMAIN history : history[i].to = s
Handling == phase \in {"list", "record", "write_error", "fail", "failing"}

\* A running journal whose memory, log and state tell the same valid history.
Sound ==
    /\ status = "running" /\ state \in ProgressStates
    /\ Journal!ChainIsConsistent(events) /\ state = events[Len(events)].to
    /\ events = log /\ ~torn
    /\ Distinct(artifacts) /\ OnBranch(mode, events) /\ Below(state, events)

\* The manifest is up to date.
InTime == Sound /\ manifest = Journal!Projection

\* The journal before open().
Unopened ==
    /\ call = "new" /\ state = "CREATED" /\ status = "running" /\ events = <<>> /\ log = <<>>
    /\ ~torn /\ artifacts = <<>> /\ manifest = Journal!NoManifest

\* What holds when step i of c is next.
AtStep(c, i) ==
    /\ i \in 1 .. ProgramEnd(c) /\ failTo = "none" /\ state = StageAt(c, i)
    /\ i <= 2 => Unopened
    /\ i > 2 => InTime
    /\ i = 3 \/ i = 4 =>
         /\ call = "opening" /\ Len(artifacts) = i - 3
         /\ \A k \in DOMAIN artifacts : artifacts[k].path = Descriptor
    /\ i > 4 => call = "idle" /\ Journal!Registered = Initial \cup Written(c, i)
    /\ c.mode # "sarif" /\ i > InputEnd(c) - 2 => HasParsed(artifacts)

\* What holds when complete() has checked the files.
AtCompletion(c, i) ==
    /\ i = ProgramEnd(c) /\ failTo = "none" /\ state = c.goal /\ InTime /\ call = "completing"
    /\ Journal!Registered = Initial \cup WrittenBy(c)

\* How the journal may be when a handler runs after step i failed: the history is
\* as good as before, or misses the event of the failed transition, or complete()
\* has ended it.
Known(c, i) ==
    /\ Sound
    /\ state = StageAt(c, i) \/ (Program(c)[i].op = "transition" /\ state = Program(c)[i].arg)
    /\ manifest.status = "running" /\ manifest.state \in {StageAt(c, i), state}

\* The event of the failed transition is missing from memory.
Lost(c, i) ==
    /\ Program(c)[i].op = "transition" /\ state = Program(c)[i].arg /\ status = "running"
    /\ events # <<>> /\ \A k \in DOMAIN events : Rank[events[k].to] < Rank[state]
    /\ manifest.status = "running" /\ manifest.state = StageAt(c, i)

\* complete() has ended the run in memory and then failed.
Over(c, i) ==
    /\ Program(c)[i].op = "complete" /\ status = "completed" /\ phase \in {"write_error", "fail"}
    /\ manifest.state = StageAt(c, i) /\ manifest.status \in {"running", "completed"}

\* What holds while the failure handler works.
AtHandler(c, i) ==
    /\ i \in 1 .. ProgramEnd(c) /\ failTo \in Program(c)[i].handler
    /\ call = IF phase = "failing" THEN failTo ELSE "idle"
    /\ phase = "list" => c.mode # "sarif"
    /\ Known(c, i) \/ Lost(c, i) \/ Over(c, i)

\* The journal is what the place in the program says.
PlaceInv ==
    \A c \in Commands, i \in Int : cmd = c /\ pc = i =>
        /\ phase = "run" => AtStep(c, i)
        /\ phase = "completing" => AtCompletion(c, i)
        /\ Handling => AtHandler(c, i)

\* The SARIF that a history past SCANNED tells of is the parsed one, and no
\* record is of a file that was not there.
RecordsInv ==
    /\ \A i \in DOMAIN artifacts : artifacts[i].digest # "absent"
    /\ Reached(events, "SCANNED") => HasParsed(artifacts)
    /\ Reached(manifest.events, "SCANNED") => HasParsed(manifest.artifacts)

\* Without a refused system call or an outside change: every record is right,
\* every file is recorded or in the hands of the handler.
Matching == \A i \in DOMAIN artifacts : files[artifacts[i].path] = artifacts[i].digest
Accounted(rest) == \A p \in AllPaths : files[p] # "absent" => p \in Journal!Registered \cup rest
Left(c, i) == IF c.mode # "sarif" /\ i > PrepEnd(c) + 2 THEN ToolOutput ELSE {}

\* What holds without an incident.
Quiet(c, i) ==
    /\ Matching /\ ~journalError
    /\ phase \in {"run", "list", "record", "write_error"} => files[ErrorReport] = "absent"
    /\ phase = "run" => Accounted(Initial \cup Left(c, i))
    /\ phase = "list" => Accounted(ToolOutput)
    /\ phase = "record" =>
         /\ Accounted(pending \cup {RunMetadata})
         /\ \A p \in pending : files[p] # "absent" /\ p \notin Journal!Registered
    /\ phase \in {"write_error", "fail", "failing"} => Accounted({RunMetadata})
    /\ Handling => Known(c, i)

QuietInv ==
    \A c \in Commands, i \in Int : cmd = c /\ pc = i /\ incidents = 0 /\ phase # "done" => Quiet(c, i)

\* What the end of the command leaves, which nothing changes any more.
EndInv ==
    /\ phase \in {"fail", "failing"} /\ ~journalError => ErrorReport \in Journal!Registered
    /\ phase # "done" => manifest.status # "failed"
    /\ SuccessIsAudited /\ FailureIsTold /\ OnlyKnownErrorsEscape

IInv == TypeOK /\ PlaceInv /\ RecordsInv /\ QuietInv /\ EndInv

-----------------------------------------------------------------------------
(* What the calls do to a sound journal. *)

\* One record more.
LEMMA GrownRecords ==
    ASSUME Journal!TypeOK, NEW p, Grown(p)
    PROVE  /\ Journal!Registered' = Journal!Registered \cup {p}
           /\ Distinct(artifacts) => Distinct(artifacts')
           /\ HasParsed(artifacts) => HasParsed(artifacts')
           /\ DOMAIN artifacts' = 1 .. Len(artifacts) + 1 /\ Len(artifacts') = Len(artifacts) + 1
           /\ \A i \in DOMAIN artifacts : i \in DOMAIN artifacts' /\ artifacts'[i] = artifacts[i]
           /\ \A i \in DOMAIN artifacts' :
                \/ i \in DOMAIN artifacts
                \/ artifacts'[i].path = p /\ artifacts'[i].digest = files'[p]
<1> DEFINE r == [path |-> p, digest |-> files'[p]]
           n == Len(artifacts)
<1>1. n \in Nat /\ DOMAIN artifacts = 1 .. n /\ artifacts \in Seq(Journal!ArtifactRecord)
  BY JournalTypes
<1>2. artifacts' = Append(artifacts, r) /\ p \notin Journal!Registered
  BY DEF Grown
<1>3. r.path = p /\ r.digest = files'[p]
  OBVIOUS
<1> HIDE DEF r, n
<1>4. /\ Len(artifacts') = n + 1 /\ DOMAIN artifacts' = 1 .. n + 1
      /\ \A i \in 1 .. n : artifacts'[i] = artifacts[i]
      /\ artifacts'[n + 1] = r
  BY <1>1, <1>2 DEF n
<1>5. \A i : i \in 1 .. n + 1 <=> i \in 1 .. n \/ i = n + 1
  BY <1>1
<1>6. Journal!Registered = {artifacts[i].path : i \in 1 .. n}
  BY <1>1 DEF Journal!Registered, Journal!PathsIn
<1>7. Journal!Registered' = {artifacts'[i].path : i \in 1 .. n + 1}
  BY <1>4 DEF Journal!Registered, Journal!PathsIn
<1>8. Journal!Registered' = Journal!Registered \cup {p}
  <2>1. ASSUME NEW q \in Journal!Registered' PROVE q \in Journal!Registered \cup {p}
    <3>1. PICK i \in 1 .. n + 1 : q = artifacts'[i].path
      BY <1>7, <2>1
    <3> QED
      BY <1>3, <1>4, <1>5, <1>6, <3>1
  <2>2. ASSUME NEW q \in Journal!Registered PROVE q \in Journal!Registered'
    <3>1. PICK i \in 1 .. n : q = artifacts[i].path
      BY <1>6, <2>2
    <3> QED
      BY <1>4, <1>5, <1>7, <3>1
  <2>3. p \in Journal!Registered'
    BY <1>3, <1>4, <1>5, <1>7
  <2> QED
    BY <2>1, <2>2, <2>3
<1>9. ASSUME Distinct(artifacts) PROVE Distinct(artifacts')
  <2>1. ASSUME NEW i \in 1 .. n + 1, NEW j \in 1 .. n + 1, artifacts'[i].path = artifacts'[j].path
        PROVE  i = j
    <3>1. \A k \in 1 .. n : artifacts[k].path # p
      BY <1>2, <1>6
    <3>2. CASE i \in 1 .. n /\ j \in 1 .. n
      BY <1>1, <1>4, <1>9, <2>1, <3>2 DEF Distinct
    <3>3. CASE i = n + 1 /\ j \in 1 .. n
      BY <1>3, <1>4, <2>1, <3>1, <3>3
    <3>4. CASE i \in 1 .. n /\ j = n + 1
      BY <1>3, <1>4, <2>1, <3>1, <3>4
    <3> QED
      BY <1>5, <2>1, <3>2, <3>3, <3>4
  <2> QED
    BY <1>4, <2>1 DEF Distinct
<1>10. ASSUME HasParsed(artifacts) PROVE HasParsed(artifacts')
  BY <1>1, <1>4, <1>5, <1>10 DEF HasParsed
<1> QED
  BY <1>1, <1>3, <1>4, <1>5, <1>8, <1>9, <1>10 DEF n

\* A sound journal of a running command may be written as the manifest.
LEMMA SoundIsValid ==
    ASSUME Sound
    PROVE  Journal!ValidManifest(Journal!Projection)
  BY RunningIsValid DEF Sound, Journal!Projection

\* It stays sound when a call only records a file.
LEMMA SoundRecording ==
    ASSUME Journal!TypeOK, Sound, NEW p \in AllPaths, NEW io, Recording(p, io)
    PROVE  /\ Sound' /\ exc' # "validation"
           /\ manifest' = manifest \/ manifest' = Journal!Projection'
<1>1. /\ UNCHANGED <<mode, state, status, events, log, torn>>
      /\ artifacts' = artifacts \/ Grown(p)
      /\ manifest' = manifest \/ manifest' = Journal!Projection'
      /\ Journal!ValidManifest(Journal!Projection') => exc' # "validation"
  BY RecordingEffect
<1>2. Distinct(artifacts')
  BY <1>1, GrownRecords DEF Sound
<1>3. Journal!Projection' = [state |-> state, status |-> "running", events |-> events,
                             artifacts |-> artifacts']
  BY <1>1 DEF Journal!Projection, Sound
<1>4. Journal!ValidManifest(Journal!Projection')
  BY <1>2, <1>3, RunningIsValid DEF Sound
<1>5. Sound'
  BY <1>1, <1>2 DEF Sound
<1> QED
  BY <1>1, <1>4, <1>5

-----------------------------------------------------------------------------
(* Calls that record a file. *)

\* The calls that record p succeed only when they do.
RecordingCall(op, p, io) ==
    \/ op = "versions" /\ Journal!AddToolVersions(io)
    \/ op = "ingest" /\ Journal!IngestFile(p, io)
    \/ op = "write" /\ Journal!WriteArtifact(p, io)
    \/ op = "record" /\ Journal!RecordExisting(p, io)

\* A successful registration adds its record,
LEMMA RegisterGrows ==
    ASSUME NEW p, NEW d, NEW io, Journal!Register(p, d, io), exc' = "none", d = files'[p], d # "absent"
    PROVE  Grown(p)
  BY DEF Journal!Register, Grown

\* and so does a successful recording.
LEMMA RecordingGrows ==
    ASSUME Journal!TypeOK, NEW p \in AllPaths, NEW io, NEW op, RecordingCall(op, p, io), exc' = "none"
    PROVE  /\ op \in Writing => Grown(p)
           /\ op \notin Writing => artifacts' = artifacts
           /\ manifest' = Journal!Projection'
<1>1. files \in [AllPaths -> Journal!Contents] /\ ~Journal!Refuse /\ ~Journal!Stop(io)
  BY DEF Journal!TypeOK, Journal!Refuse, Journal!Stop, Journal!Early
<1>2. manifest' = Journal!Projection'
  BY RecordingEffect DEF RecordingCall, Recording
<1>3. ASSUME op = "versions" PROVE artifacts' = artifacts /\ op \notin Writing
  BY <1>1, <1>3 DEF RecordingCall, Journal!AddToolVersions, Writing
<1>4. ASSUME Journal!WriteArtifact(p, io) PROVE Grown(p)
  <2>1. /\ files' = [files EXCEPT ![p] =
             IF io = "write_refused" THEN "absent"
             ELSE IF io = "write_partial" THEN "partial" ELSE "original"]
        /\ io \notin Journal!WriteFaults /\ Journal!Register(p, "original", io)
    BY <1>1, <1>4 DEF Journal!WriteArtifact
  <2>2. io # "write_refused" /\ io # "write_partial"
    BY <2>1 DEF Journal!WriteFaults
  <2>3. "original" = files'[p] /\ "original" # "absent"
    BY <1>1, <2>1, <2>2
  <2> QED
    BY <2>1, <2>3, RegisterGrows
<1>5. ASSUME Journal!RecordExisting(p, io) PROVE Grown(p)
  <2>1. files[p] # "absent" /\ files' = files /\ Journal!Register(p, files[p], io)
    BY <1>1, <1>5 DEF Journal!RecordExisting
  <2> QED
    BY <2>1, RegisterGrows
<1>6. ASSUME Journal!IngestFile(p, io) PROVE Journal!WriteArtifact(p, io)
  BY <1>1, <1>6 DEF Journal!IngestFile
<1> QED
  BY <1>2, <1>3, <1>4, <1>5, <1>6 DEF RecordingCall, Writing

\* Without a fault a recording keeps every record right, and what it leaves on
\* disk is recorded or was there before.
LEMMA QuietRecording ==
    ASSUME Journal!TypeOK, Matching, NEW p \in AllPaths, Recording(p, "none"),
           \A i \in DOMAIN artifacts : artifacts[i].digest # "absent"
    PROVE  /\ Matching'
           /\ Journal!Registered \subseteq Journal!Registered'
           /\ \A q \in AllPaths :
                files'[q] # "absent" => files[q] # "absent" \/ q \in Journal!Registered'
           /\ \A q \in AllPaths : files'[q] # files[q] => q = p
<1>1. /\ artifacts' = artifacts \/ Grown(p)
      /\ \A q \in AllPaths : files'[q] # files[q] => q = p /\ files[q] = "absent"
      /\ \A q \in AllPaths : files'[q] # files[q] => p \in Journal!Registered \/ Grown(p)
  BY RecordingEffect
<1>2. \A i \in DOMAIN artifacts : artifacts[i].path \in AllPaths
  BY JournalTypes
<1>3. \A i \in DOMAIN artifacts : files'[artifacts[i].path] = artifacts[i].digest
  BY <1>1, <1>2 DEF Matching
<1>4. CASE artifacts' = artifacts /\ ~Grown(p)
  <2>1. Journal!Registered' = Journal!Registered
    BY <1>4 DEF Journal!Registered, Journal!PathsIn
  <2>2. Matching'
    BY <1>3, <1>4 DEF Matching
  <2> QED
    BY <1>1, <1>4, <2>1, <2>2
<1>5. CASE Grown(p)
  <2>1. /\ Journal!Registered' = Journal!Registered \cup {p}
        /\ \A i \in DOMAIN artifacts : artifacts'[i] = artifacts[i]
        /\ \A i \in DOMAIN artifacts' :
             \/ i \in DOMAIN artifacts
             \/ artifacts'[i].path = p /\ artifacts'[i].digest = files'[p]
    BY <1>5, GrownRecords
  <2>2. Matching'
    BY <1>3, <2>1 DEF Matching
  <2> QED
    BY <1>1, <2>1, <2>2
<1> QED
  BY <1>1, <1>4, <1>5

\* Without a fault it only fails when the file is missing or recorded already.
LEMMA QuietRecordingWorks ==
    ASSUME Journal!TypeOK, Sound, NEW p \in AllPaths, p \notin Journal!Registered,
           \/ Journal!RecordExisting(p, "none") /\ files[p] # "absent"
           \/ Journal!WriteArtifact(p, "none") /\ files[p] = "absent"
    PROVE  exc' = "none" /\ Grown(p)
<1>1. files \in [AllPaths -> Journal!Contents] /\ status = "running" /\ "none" \notin Journal!ReadFaults
      /\ "none" \notin Journal!WriteFaults
  BY DEF Journal!TypeOK, Sound, Journal!ReadFaults, Journal!WriteFaults
<1>2. Recording(p, "none")
  BY DEF Recording
<1>3. exc' # "validation" /\ exc' \in {"none", "evitriage", "validation", "oserror"}
  BY <1>2, SoundRecording, RecordingEffect
<1>4. ASSUME Journal!RecordExisting(p, "none") \/ Journal!WriteArtifact(p, "none"),
             NEW d, Journal!Register(p, d, "none"), d = files'[p], d # "absent"
      PROVE  exc' = "none" /\ Grown(p)
  <2>1. Journal!PersistManifest("none") /\ Grown(p)
    BY <1>4 DEF Journal!Register, Grown
  <2>2. exc' = "none"
    BY <1>3, <2>1, PersistEffect DEF Journal!PersistManifest, Journal!PersistFaults, Journal!AuditFaults
  <2> QED
    BY <2>1, <2>2
<1>5. CASE Journal!RecordExisting(p, "none") /\ files[p] # "absent"
  <2>1. files' = files /\ Journal!Register(p, files[p], "none")
    BY <1>1, <1>5 DEF Journal!RecordExisting
  <2> QED
    BY <1>4, <1>5, <2>1
<1>6. CASE Journal!WriteArtifact(p, "none") /\ files[p] = "absent"
  <2>1. files' = [files EXCEPT ![p] = "original"] /\ Journal!Register(p, "original", "none")
    BY <1>1, <1>6 DEF Journal!WriteArtifact
  <2>2. files'[p] = "original"
    BY <1>1, <2>1
  <2> QED
    BY <1>4, <1>6, <2>1, <2>2
<1> QED
  BY <1>5, <1>6

\* A history that misses an event is never valid again.
LostHistory ==
    events # <<>> /\ \A k \in DOMAIN events : Rank[events[k].to] < Rank[state]

\* The validator rejects a manifest of such a history.
LEMMA LostIsInvalid ==
    ASSUME Journal!TypeOK, LostHistory, NEW m, m.state = state, m.events = events
    PROVE  ~Journal!ValidManifest(m)
<1>1. Len(events) \in Nat /\ DOMAIN events = 1 .. Len(events) /\ events \in Seq(Journal!Event)
      /\ state \in WorkflowState
  BY JournalTypes
<1>2. Len(events) \in DOMAIN events
  <2>1. Len(events) # 0
    BY <1>1 DEF LostHistory
  <2> QED
    BY <1>1, <2>1
<1>3. Rank[events[Len(events)].to] < Rank[state] /\ Rank[state] \in Nat
  BY <1>1, <1>2, Ranks DEF LostHistory
<1>4. events[Len(events)].to # state
  BY <1>3
<1> QED
  BY <1>4 DEF Journal!ValidManifest

\* Then a recording leaves the manifest alone.
LEMMA LostRecording ==
    ASSUME Journal!TypeOK, LostHistory, NEW p \in AllPaths, NEW io, Recording(p, io)
    PROVE  LostHistory' /\ UNCHANGED <<state, status, events, manifest, call>>
<1>1. UNCHANGED <<mode, state, status, events, call>>
      /\ (~Journal!ValidManifest(Journal!Projection') => manifest' = manifest)
  BY RecordingEffect
<1>2. Journal!Projection'.state = state /\ Journal!Projection'.events = events
  BY <1>1 DEF Journal!Projection
<1>3. ~Journal!ValidManifest(Journal!Projection')
  BY <1>2, LostIsInvalid
<1> QED
  BY <1>1, <1>3 DEF LostHistory

-----------------------------------------------------------------------------
(* Calls that move the history. *)

\* Appending an event to a sound history.
LEMMA SoundAppend ==
    ASSUME Journal!TypeOK, Sound, NEW to \in WorkflowState, ManifestAllows(state, to), NEW io,
           Journal!AppendEvent(state, to, io), io \notin Journal!AppendFaults
    PROVE  /\ events' = log' /\ ~torn' /\ events' \in Seq(Journal!Event)
           /\ Journal!ChainIsConsistent(events') /\ to = events'[Len(events')].to
           /\ state = events'[Len(events')].from
           /\ \A i \in DOMAIN events' :
                (i \in DOMAIN events /\ events'[i] = events[i]) \/ events'[i].to = to
<1> DEFINE e == [seq |-> Len(events), from |-> state, to |-> to]
<1>1. e = [seq |-> Len(events), from |-> state, to |-> to] /\ e.to = to /\ e.from = state
  OBVIOUS
<1>2. events' = Append(events, e) /\ log' = Append(log, e) /\ torn' = FALSE
  BY DEF Journal!AppendEvent, Sound, Journal!AppendFaults
<1>3. events \in Seq(Journal!Event)
  BY JournalTypes
<1> HIDE DEF e
<1>4. /\ Append(events, e) \in Seq(Journal!Event)
      /\ Journal!ChainIsConsistent(Append(events, e))
      /\ Append(events, e)[Len(Append(events, e))] = e
      /\ \A i \in DOMAIN Append(events, e) :
           \/ (i \in DOMAIN events /\ Append(events, e)[i] = events[i])
           \/ (i = Len(events) + 1 /\ Append(events, e)[i] = e)
  <2>1. Journal!ChainIsConsistent(events) /\ state = events[Len(events)].to
    BY DEF Sound
  <2> QED
    BY <1>1, <1>3, <2>1, HistoryGrows
<1>5. events' = log'
  BY <1>2 DEF Sound
<1> QED
  BY <1>1, <1>2, <1>4, <1>5

\* transition() on a sound history along an edge of the branch.
LEMMA SoundTransition ==
    ASSUME Journal!TypeOK, Sound, NEW to, <<state, to>> \in JournalEdges, NEW io,
           to \notin (IF mode = "sarif" THEN ScanBranch ELSE IngestBranch), Journal!Transition(to, io)
    PROVE  /\ UNCHANGED <<mode, status, artifacts, files, sealed, call, late>> /\ state' = to
           /\ exc' \in {"none", "evitriage", "oserror"} /\ (io = "none" => exc' = "none")
           /\ manifest' = manifest \/ manifest' = Journal!Projection'
           /\ exc' = "none" => Sound' /\ manifest' = Journal!Projection'
           /\ \/ Sound'
              \/ LostHistory' /\ manifest' = manifest /\ events' = events
           /\ \A i \in DOMAIN events' :
                (i \in DOMAIN events /\ events'[i] = events[i]) \/ events'[i].to = to
<1>1. /\ state \in ProgressStates /\ to \in ProgressStates /\ ManifestAllows(state, to)
      /\ Rank[state] \in Nat /\ Rank[to] \in Nat /\ Rank[state] < Rank[to]
  BY Edges
<1>2. to \in WorkflowState /\ state \in WorkflowState
  BY <1>1 DEF WorkflowState
<1>3. /\ state' = to /\ UNCHANGED <<mode, status, artifacts, files, sealed, call, late>>
      /\ Journal!AppendEvent(state, to, io)
      /\ io \in Journal!AppendFaults => exc' = "evitriage" /\ manifest' = manifest
      /\ io \notin Journal!AppendFaults => Journal!PersistManifest(io)
  BY Names DEF Journal!Transition, Sound
<1>4. /\ DOMAIN events = 1 .. Len(events) /\ Len(events) \in Nat
      /\ \A i \in DOMAIN events : events[i].to \in WorkflowState
  BY JournalTypes
<1>5. \A i \in DOMAIN events : Rank[events[i].to] < Rank[to]
  <2>1. ASSUME NEW i \in DOMAIN events PROVE Rank[events[i].to] < Rank[to]
    <3>1. Rank[events[i].to] \in Nat
      BY <1>4, Ranks
    <3>2. Rank[events[i].to] <= Rank[state]
      BY DEF Sound, Below
    <3> QED
      BY <1>1, <3>1, <3>2
  <2> QED
    BY <2>1
<1>6. CASE io \in Journal!AppendFaults
  <2>1. events' = events
    BY <1>3, <1>6 DEF Journal!AppendEvent
  <2>2. events # <<>>
    BY DEF Sound, Journal!ChainIsConsistent
  <2>3. LostHistory'
    BY <1>3, <1>5, <2>1, <2>2 DEF LostHistory
  <2>4. io # "none"
    BY <1>6 DEF Journal!AppendFaults
  <2> QED
    BY <1>3, <1>6, <2>1, <2>3, <2>4
<1>7. CASE io \notin Journal!AppendFaults
  <2>1. /\ events' = log' /\ ~torn' /\ Journal!ChainIsConsistent(events')
        /\ to = events'[Len(events')].to
        /\ \A i \in DOMAIN events' :
             (i \in DOMAIN events /\ events'[i] = events[i]) \/ events'[i].to = to
    BY <1>1, <1>2, <1>3, <1>7, SoundAppend
  <2>2. OnBranch(mode, events')
    BY <2>1 DEF OnBranch, Sound
  <2>3. Below(to, events')
    <3>1. ASSUME NEW i \in DOMAIN events' PROVE Rank[events'[i].to] <= Rank[to]
      <4>1. CASE i \in DOMAIN events /\ events'[i] = events[i]
        <5>1. Rank[events[i].to] < Rank[to] /\ Rank[events[i].to] \in Nat
          BY <1>4, <1>5, <4>1, Ranks
        <5> QED
          BY <1>1, <4>1, <5>1
      <4>2. CASE events'[i].to = to
        BY <1>1, <4>2
      <4> QED
        BY <2>1, <4>1, <4>2
    <3> QED
      BY <3>1 DEF Below
  <2>4. Sound'
    BY <1>1, <1>3, <2>1, <2>2, <2>3 DEF Sound
  <2>5. Journal!Projection' = [state |-> to, status |-> "running", events |-> events',
                               artifacts |-> artifacts]
    BY <1>3 DEF Journal!Projection, Sound
  <2>6. Journal!ValidManifest(Journal!Projection')
    BY <1>1, <2>1, <2>2, <2>5, RunningIsValid DEF Sound
  <2>7. Journal!PersistManifest(io)
    BY <1>3, <1>7
  <2> QED
    BY <1>3, <2>1, <2>4, <2>6, <2>7, PersistEffect
<1> QED
  BY <1>6, <1>7

\* The constructor: the first event.
LEMMA OpenEffect ==
    ASSUME Journal!TypeOK, Unopened, NEW io, Journal!Open(io)
    PROVE  /\ UNCHANGED <<mode, state, status, artifacts, files, sealed, late>>
           /\ exc' \in {"none", "evitriage", "oserror"} /\ (io = "none" => exc' = "none")
           /\ exc' = "none" => InTime' /\ call' = "opening"
           /\ manifest' = manifest \/ manifest' = Journal!Projection'
           /\ \A i \in DOMAIN events' : events'[i].to = "CREATED"
<1> DEFINE e == [seq |-> 0, from |-> "none", to |-> "CREATED"]
<1>1. /\ UNCHANGED <<mode, state, status, artifacts, files, sealed, late>>
      /\ io = "uncaught" => exc' = "oserror" /\ manifest' = manifest /\ events' = events
      /\ io # "uncaught" => Journal!AppendEvent("none", "CREATED", io)
      /\ io \in Journal!AppendFaults => exc' = "evitriage" /\ manifest' = manifest
      /\ io # "uncaught" /\ io \notin Journal!AppendFaults => Journal!PersistManifest(io)
      /\ exc' = "none" => call' = "opening"
  <2>1. Len(<<Descriptor, ResolvedSpec>>) # 0
    OBVIOUS
  <2>2. <<Descriptor, ResolvedSpec>> # <<>>
    BY <2>1
  <2> QED
    BY <2>2 DEF Journal!Open, Journal!AppendFaults
<1>2. events = <<>> /\ log = <<>> /\ torn = FALSE /\ artifacts = <<>> /\ state = "CREATED"
      /\ status = "running"
  <2>1. torn \in BOOLEAN
    BY DEF Journal!TypeOK
  <2> QED
    BY <2>1 DEF Unopened
<1>3. Len(<<>>) = 0 /\ DOMAIN <<>> = {}
  OBVIOUS
<1>4. CASE io \in Journal!AppendFaults \/ io = "uncaught"
  <2>1. events' = <<>>
    BY <1>1, <1>2, <1>4 DEF Journal!AppendEvent
  <2>2. io # "none"
    BY <1>4 DEF Journal!AppendFaults
  <2> QED
    BY <1>1, <1>3, <1>4, <2>1, <2>2
<1>5. CASE ~(io \in Journal!AppendFaults \/ io = "uncaught")
  <2>1. events' = Append(<<>>, e) /\ log' = Append(<<>>, e) /\ torn' = FALSE
    <3>1. e = [seq |-> Len(events), from |-> "none", to |-> "CREATED"]
      BY <1>2, <1>3
    <3> HIDE DEF e
    <3> QED
      BY <1>1, <1>2, <1>5, <3>1 DEF Journal!AppendEvent, Journal!AppendFaults
  <2>2. e = [seq |-> 0, from |-> "none", to |-> "CREATED"] /\ e.to = "CREATED"
    OBVIOUS
  <2> HIDE DEF e
  <2>3. /\ Len(events') = 1 /\ DOMAIN events' = 1 .. 1 /\ events'[1] = e
    BY <2>1
  <2>4. events' # <<>>
    BY <1>3, <2>3
  <2>5. Journal!ChainIsConsistent(events')
    BY <2>2, <2>3, <2>4 DEF Journal!ChainIsConsistent
  <2>6. /\ "CREATED" \in ProgressStates /\ "CREATED" \notin ScanBranch
        /\ "CREATED" \notin IngestBranch /\ "CREATED" \in WorkflowState
    BY DEF ProgressStates, ScanBranch, IngestBranch, WorkflowState
  <2>7. \A i \in DOMAIN events' : events'[i].to = "CREATED"
    BY <2>2, <2>3
  <2>8. OnBranch(mode, events')
    BY <2>6, <2>7 DEF OnBranch
  <2>9. Below("CREATED", events')
    <3>1. Rank["CREATED"] \in Nat
      BY <2>6, Ranks
    <3>2. Rank["CREATED"] <= Rank["CREATED"]
      BY <3>1
    <3> QED
      BY <2>7, <3>2 DEF Below
  <2>10. Distinct(artifacts)
    BY <1>2, <1>3 DEF Distinct
  <2>11. "CREATED" = events'[Len(events')].to
    BY <2>2, <2>3
  <2>12. Sound'
    BY <1>1, <1>2, <2>1, <2>5, <2>6, <2>8, <2>9, <2>10, <2>11 DEF Sound
  <2>13. Journal!Projection' = [state |-> "CREATED", status |-> "running", events |-> events',
                                artifacts |-> artifacts]
    BY <1>1, <1>2 DEF Journal!Projection
  <2>14. Journal!ValidManifest(Journal!Projection')
    BY <2>5, <2>6, <2>8, <2>10, <2>11, <2>13, RunningIsValid
  <2>15. Journal!PersistManifest(io)
    BY <1>1, <1>5
  <2> QED
    BY <1>1, <2>7, <2>12, <2>14, <2>15, PersistEffect DEF InTime
<1> QED
  BY <1>4, <1>5

\* The constructor: the files of the allocation.
LEMMA RegisterInitialEffect ==
    ASSUME Journal!TypeOK, InTime, NEW io, Journal!RegisterInitial(io), NEW p,
           \/ Len(artifacts) = 0 /\ p = Descriptor
           \/ Len(artifacts) = 1 /\ p = ResolvedSpec
    PROVE  /\ UNCHANGED <<mode, state, status, events, log, torn, files, sealed, late>> /\ Sound'
           /\ exc' \in {"none", "evitriage", "oserror"}
           /\ io = "none" => exc' # "oserror"
           /\ artifacts' = artifacts \/ Grown(p)
           /\ manifest' = manifest \/ manifest' = Journal!Projection'
           /\ exc' = "none" =>
                /\ InTime' /\ Grown(p)
                /\ Len(artifacts) = 0 => call' = "opening"
                /\ Len(artifacts) = 1 => call' = "idle"
<1> DEFINE initial == <<Descriptor, ResolvedSpec>>
<1>1. /\ UNCHANGED <<log, torn, files, sealed, late>>
      /\ LET q == initial[Len(artifacts) + 1] IN
           IF io \in Journal!ReadFaults \/ files[q] = "absent"
           THEN /\ exc' = Journal!Early(io)
                /\ UNCHANGED <<mode, state, status, events, artifacts, manifest>>
           ELSE Journal!Register(q, files[q], io)
      /\ call' = IF exc' # "none" THEN "dead"
                 ELSE IF Len(artifacts') = Len(initial) THEN "idle"
                 ELSE "opening"
  BY DEF Journal!RegisterInitial
<1>2. initial[1] = Descriptor /\ initial[2] = ResolvedSpec /\ Len(initial) = 2
  OBVIOUS
<1> HIDE DEF initial
<1>3. initial[Len(artifacts) + 1] = p
  <2>1. CASE Len(artifacts) = 0 /\ p = Descriptor
    <3>1. Len(artifacts) + 1 = 1
      BY <2>1
    <3> QED
      BY <1>2, <2>1, <3>1
  <2>2. CASE Len(artifacts) = 1 /\ p = ResolvedSpec
    <3>1. Len(artifacts) + 1 = 2
      BY <2>2
    <3> QED
      BY <1>2, <2>2, <3>1
  <2> QED
    BY <2>1, <2>2
<1>4. Sound /\ manifest = Journal!Projection
  BY DEF InTime
<1>5. CASE io \in Journal!ReadFaults \/ files[p] = "absent"
  <2>1. /\ exc' \in {"evitriage", "oserror"} /\ (io = "none" => exc' # "oserror")
        /\ UNCHANGED <<mode, state, status, events, artifacts, manifest>>
    BY <1>1, <1>3, <1>5 DEF Journal!Early
  <2>2. Sound'
    BY <1>1, <1>4, <2>1 DEF Sound
  <2> QED
    BY <1>1, <2>1, <2>2
<1>6. CASE ~(io \in Journal!ReadFaults \/ files[p] = "absent")
  <2>1. Journal!Register(p, files[p], io) /\ files'[p] = files[p] /\ files[p] # "absent"
    BY <1>1, <1>3, <1>6
  <2>2. /\ UNCHANGED <<mode, state, status, events>>
        /\ artifacts' = artifacts \/ Grown(p)
        /\ exc' \in {"none", "evitriage", "validation", "oserror"}
        /\ io = "none" => exc' # "oserror"
        /\ manifest' = manifest \/ manifest' = Journal!Projection'
        /\ exc' = "none" => manifest' = Journal!Projection' /\ Grown(p)
        /\ Journal!ValidManifest(Journal!Projection') => exc' # "validation"
    BY <2>1, RegisterEffect
  <2>3. Distinct(artifacts')
    BY <1>4, <2>2, GrownRecords DEF Sound
  <2>4. Sound'
    BY <1>1, <1>4, <2>2, <2>3 DEF Sound
  <2>5. Journal!Projection' = [state |-> state, status |-> "running", events |-> events,
                               artifacts |-> artifacts']
    BY <1>4, <2>2 DEF Journal!Projection, Sound
  <2>6. Journal!ValidManifest(Journal!Projection')
    BY <1>4, <2>3, <2>5, RunningIsValid DEF Sound
  <2>7. ASSUME exc' = "none"
        PROVE  /\ Len(artifacts) = 0 => call' = "opening"
               /\ Len(artifacts) = 1 => call' = "idle"
    <3>1. Len(artifacts') = Len(artifacts) + 1
      BY <2>2, <2>7, GrownRecords
    <3>2. call' = IF Len(artifacts') = 2 THEN "idle" ELSE "opening"
      BY <1>1, <1>2, <2>7
    <3>3. ASSUME Len(artifacts) = 0 PROVE Len(artifacts') # 2
      BY <3>1, <3>3
    <3>4. ASSUME Len(artifacts) = 1 PROVE Len(artifacts') = 2
      BY <3>1, <3>4
    <3> QED
      BY <3>2, <3>3, <3>4
  <2> QED
    BY <1>1, <2>2, <2>4, <2>6, <2>7 DEF InTime
<1> QED
  BY <1>5, <1>6

-----------------------------------------------------------------------------
(* Calls that end the run. *)

\* complete(), when the files are checked.
LEMMA CompleteVerifyEffect ==
    ASSUME NEW io, Journal!CompleteVerify(io)
    PROVE  /\ UNCHANGED <<mode, state, status, events, artifacts, log, torn, manifest, files,
                          sealed, late>>
           /\ exc' = "none" => call' = "completing"
           /\ exc' # "none" => call' = call
           /\ exc' \in {"none", "evitriage", "oserror"}
           /\ io = "none" => exc' # "oserror"
           /\ Sound /\ Matching /\ state \in GoalStates /\ io = "none" => exc' = "none"
  BY Names DEF Journal!CompleteVerify, Journal!Refuse, Journal!Stop, Journal!Early,
     Journal!Verified, Sound, Matching, Journal!ReadFaults

\* complete(), when the run is sealed.
LEMMA CompleteCommitEffect ==
    ASSUME InTime, state \in GoalStates, NEW io, Journal!CompleteCommit(io)
    PROVE  /\ UNCHANGED <<mode, state, events, artifacts, log, torn, files, late>>
           /\ status' = "completed" /\ call' = "idle" /\ exc' \in {"none", "evitriage", "oserror"}
           /\ manifest' = manifest \/ manifest' = Journal!Projection'
           /\ Journal!Registered \subseteq sealed'
           /\ exc' = "none" =>
                /\ manifest' = Journal!Projection'
                /\ Journal!Registered \cup Journal!AuditFiles \subseteq sealed'
           /\ io = "none" => exc' = "none"
<1>1. /\ UNCHANGED <<mode, state, events, artifacts, log, torn, files, late>>
      /\ status' = "completed" /\ call' = "idle"
      /\ Journal!PersistManifest(io) /\ Journal!Seal(io)
  BY DEF Journal!CompleteCommit
<1>2. Journal!Projection' = [state |-> state, status |-> "completed", events |-> events,
                             artifacts |-> artifacts]
  BY <1>1 DEF Journal!Projection
<1>3. Journal!ValidManifest(Journal!Projection')
  BY <1>2, RunningIsValid DEF InTime, Sound
<1>4. /\ Journal!Registered \subseteq sealed'
      /\ exc' = "none" => Journal!Registered \cup Journal!AuditFiles \subseteq sealed'
  BY <1>1 DEF Journal!Seal
<1> QED
  BY <1>1, <1>3, <1>4, PersistEffect

\* A chmod that fails.
LEMMA SealRefusedEffect ==
    ASSUME NEW n, NEW io, Journal!SealRefused(n, io)
    PROVE  /\ UNCHANGED <<mode, state, status, events, artifacts, log, torn, manifest, files, late>>
           /\ call' = "idle" /\ exc' \in {"evitriage", "oserror"} /\ io # "none"
  BY DEF Journal!SealRefused, Journal!SealFaults, Journal!Error

\* fail(), when the files are checked.
LEMMA FailVerifyEffect ==
    ASSUME NEW to, NEW io, Journal!FailVerify(to, io)
    PROVE  /\ UNCHANGED <<mode, state, status, events, artifacts, log, torn, manifest, files,
                          sealed, late>>
           /\ exc' = "none" => call' = to /\ status = "running"
           /\ exc' \in {"none", "evitriage", "oserror"}
           /\ io = "none" => exc' # "oserror"
           /\ status # "running" => exc' = "evitriage"
           /\ Sound /\ Matching /\ io = "none" => exc' = "none"
  BY DEF Journal!FailVerify, Journal!Refuse, Journal!Stop, Journal!Early,
     Journal!Verified, Sound, Matching, Journal!ReadFaults

\* fail(), when the run is sealed, with a sound history.
LEMMA FailCommitEffect ==
    ASSUME Journal!TypeOK, Sound, NEW to \in FailureStates, to = call, NEW io, Journal!FailCommit(io),
           to = "CODEQL_FAILED" => mode # "sarif"
    PROVE  /\ UNCHANGED <<mode, artifacts, files, late>>
           /\ state' = to /\ status' = "failed" /\ exc' \in {"none", "evitriage", "oserror"}
           /\ \/ manifest' = manifest
              \/ /\ manifest' = Journal!Projection' /\ Last(events').from = state
                 /\ events' = log' /\ ~torn'
           /\ Journal!Registered \subseteq sealed'
           /\ exc' = "none" =>
                manifest' = Journal!Projection' /\ Journal!Registered \subseteq sealed'
                  /\ Last(log').to = to
           /\ io = "none" => exc' = "none"
           /\ \A i \in DOMAIN events' :
                (i \in DOMAIN events /\ events'[i] = events[i]) \/ events'[i].to = to
<1>1. /\ state' = to /\ status' = "failed" /\ UNCHANGED <<mode, artifacts, files, late>>
      /\ Journal!AppendEvent(state, to, io) /\ Journal!Seal(io)
      /\ io \in Journal!AppendFaults => exc' = "evitriage" /\ manifest' = manifest
      /\ io \notin Journal!AppendFaults => Journal!PersistManifest(io)
  BY DEF Journal!FailCommit
<1>2. Journal!Registered \subseteq sealed'
  BY <1>1 DEF Journal!Seal
<1>3. CASE io \in Journal!AppendFaults
  <2>1. events' = events
    BY <1>1, <1>3 DEF Journal!AppendEvent
  <2>2. io # "none"
    BY <1>3 DEF Journal!AppendFaults
  <2> QED
    BY <1>1, <1>2, <1>3, <2>1, <2>2
<1>4. CASE io \notin Journal!AppendFaults
  <2>1. state \in ProgressStates /\ to \in WorkflowState /\ ManifestAllows(state, to)
    BY DEF Sound, WorkflowState, ManifestAllows, ProgressStates, FailureStates
  <2>2. /\ events' = log' /\ ~torn' /\ Journal!ChainIsConsistent(events')
        /\ to = events'[Len(events')].to /\ state = events'[Len(events')].from
        /\ \A i \in DOMAIN events' :
             (i \in DOMAIN events /\ events'[i] = events[i]) \/ events'[i].to = to
    BY <1>1, <1>4, <2>1, SoundAppend
  <2>3. to \notin ScanBranch /\ to \notin IngestBranch
    BY DEF FailureStates, ScanBranch, IngestBranch
  <2>4. OnBranch(mode, events')
    BY <2>2, <2>3 DEF OnBranch, Sound
  <2>5. Journal!Projection' = [state |-> to, status |-> "failed", events |-> events',
                               artifacts |-> artifacts]
    BY <1>1 DEF Journal!Projection
  <2>6. Journal!ValidManifest(Journal!Projection')
    BY <2>2, <2>4, <2>5, FailedIsValid DEF Sound
  <2>7. Last(log').to = to /\ Last(events').from = state
    BY <2>2 DEF Last
  <2>8. Journal!PersistManifest(io)
    BY <1>1, <1>4
  <2> QED
    BY <1>1, <1>2, <2>2, <2>6, <2>7, <2>8, PersistEffect
<1> QED
  BY <1>3, <1>4

\* The same when an event is missing: the failure is not written either.
LEMMA LostFailCommit ==
    ASSUME Journal!TypeOK, LostHistory, NEW to \in FailureStates, to = call, NEW io,
           Journal!FailCommit(io)
    PROVE  /\ UNCHANGED <<mode, artifacts, files, late, manifest>>
           /\ exc' \in {"evitriage", "validation"}
           /\ \A i \in DOMAIN events' :
                (i \in DOMAIN events /\ events'[i] = events[i]) \/ events'[i].to = to
<1> DEFINE e == [seq |-> Len(events), from |-> state, to |-> to]
           n == Len(events)
<1>1. /\ state' = to /\ status' = "failed" /\ UNCHANGED <<mode, artifacts, files, late>>
      /\ Journal!AppendEvent(state, to, io)
      /\ io \in Journal!AppendFaults => exc' = "evitriage" /\ manifest' = manifest
      /\ io \notin Journal!AppendFaults => Journal!PersistManifest(io)
  BY DEF Journal!FailCommit
<1>2. e = [seq |-> Len(events), from |-> state, to |-> to] /\ e.from = state /\ e.to = to
  OBVIOUS
<1>3. events \in Seq(Journal!Event) /\ n \in Nat /\ DOMAIN events = 1 .. n /\ n > 0
      /\ state \in WorkflowState
  <2>1. events \in Seq(Journal!Event) /\ n \in Nat /\ DOMAIN events = 1 .. n
        /\ state \in WorkflowState
    BY JournalTypes
  <2>2. n # 0
    BY <2>1 DEF LostHistory
  <2> QED
    BY <2>1, <2>2
<1>4. events[n].to # state
  <2>1. n \in DOMAIN events
    BY <1>3
  <2>2. Rank[events[n].to] < Rank[state] /\ Rank[state] \in Nat
    BY <1>3, <2>1, Ranks DEF LostHistory
  <2> QED
    BY <2>2
<1>5. CASE io \in Journal!AppendFaults
  <2>1. events' = events
    BY <1>1, <1>5 DEF Journal!AppendEvent
  <2> QED
    BY <1>1, <1>5, <2>1
<1>6. CASE io \notin Journal!AppendFaults
  <2> HIDE DEF e
  <2>1. events' = Append(events, e)
    BY <1>1, <1>2, <1>6 DEF Journal!AppendEvent
  <2> HIDE DEF n
  <2>2. /\ Len(events') = n + 1 /\ DOMAIN events' = 1 .. n + 1
        /\ \A i \in 1 .. n : events'[i] = events[i]
        /\ events'[n + 1] = e
    <3>1. Len(events) = n
      BY DEF n
    <3>2. e \in Journal!Event
      BY <1>2, <1>3, <3>1, Names DEF Journal!Event, WorkflowState
    <3>3. /\ Len(Append(events, e)) = n + 1 /\ DOMAIN Append(events, e) = 1 .. n + 1
          /\ \A i \in 1 .. n : Append(events, e)[i] = events[i]
          /\ Append(events, e)[n + 1] = e
      BY <1>3, <3>1, <3>2
    <3> QED
      BY <2>1, <3>3
  <2>3. n \in 1 .. n /\ n + 1 \in 2 .. n + 1 /\ (n + 1) - 1 = n
    BY <1>3
  <2>4. events'[n + 1].from = state /\ events'[(n + 1) - 1] = events[n]
    BY <1>2, <2>2, <2>3
  <2>5. ~Journal!ChainIsConsistent(events')
    BY <1>4, <2>2, <2>3, <2>4 DEF Journal!ChainIsConsistent
  <2>6. Journal!Projection'.events = events'
    BY DEF Journal!Projection
  <2>7. ~Journal!ValidManifest(Journal!Projection')
    BY <2>5, <2>6 DEF Journal!ValidManifest
  <2>8. exc' = "validation" /\ manifest' = manifest
    BY <1>1, <1>6, <2>7, PersistEffect
  <2>9. \A i \in DOMAIN events' :
          (i \in DOMAIN events /\ events'[i] = events[i]) \/ events'[i].to = to
    <3>1. \A i : i \in 1 .. n + 1 <=> i \in 1 .. n \/ i = n + 1
      BY <1>3
    <3> QED
      BY <1>2, <1>3, <2>2, <3>1
  <2> QED
    BY <1>1, <2>8, <2>9
<1> QED
  BY <1>5, <1>6

-----------------------------------------------------------------------------
(* The control flow after a step. *)

\* Where a step may lead.
LEMMA Control ==
    ASSUME NEW c \in Commands, NEW i \in 1 .. ProgramEnd(c), cmd = c, pc = i, failTo = "none",
           outcome = "pending", NEW h, Continue(h)
    PROVE  /\ pending' = pending /\ journalError' = journalError
           /\ \/ /\ exc' = "none" /\ i < ProgramEnd(c) /\ pc' = i + 1 /\ failTo' = "none"
                 /\ phase' = "run" /\ outcome' = "pending"
              \/ /\ exc' = "none" /\ i = ProgramEnd(c) /\ pc' = i + 1 /\ failTo' = "none"
                 /\ phase' = "done" /\ outcome' = "success"
              \/ /\ exc' \in Unhandled /\ pc' = i /\ failTo' = "none"
                 /\ phase' = "done" /\ outcome' = "traceback"
              \/ /\ exc' = "evitriage" /\ h = {} /\ pc' = i /\ failTo' = "none"
                 /\ phase' = "done" /\ outcome' = "error"
              \/ /\ exc' = "evitriage" /\ failTo' \in h /\ pc' = i /\ outcome' = "pending"
                 /\ phase' = IF failTo' = "CODEQL_FAILED" THEN "list" ELSE "write_error"
<1>1. Len(Program(c)) = ProgramEnd(c) /\ ProgramEnd(c) \in Int
  BY Layout, Numbers
<1>2. i \in Int /\ i <= ProgramEnd(c)
  BY <1>1
<1>3. CASE exc' = "none" /\ pc' = pc + 1 /\ failTo' = failTo
           /\ IF pc = Len(Program(cmd)) THEN Exit("success")
              ELSE phase' = "run" /\ outcome' = outcome
  <2>1. CASE i = ProgramEnd(c)
    BY <1>1, <1>3, <2>1 DEF Continue, Exit
  <2>2. CASE i # ProgramEnd(c)
    <3>1. i < ProgramEnd(c)
      BY <1>1, <1>2, <2>2
    <3> QED
      BY <1>1, <1>3, <2>2, <3>1 DEF Continue
  <2> QED
    BY <2>1, <2>2
<1>4. CASE exc' \in Unhandled /\ Exit("traceback") /\ UNCHANGED <<pc, failTo>>
  BY <1>4 DEF Continue, Exit
<1>5. CASE exc' = "evitriage" /\ h = {} /\ Exit("error") /\ UNCHANGED <<pc, failTo>>
  BY <1>5 DEF Continue, Exit
<1>6. CASE exc' = "evitriage" /\ failTo' \in h /\ UNCHANGED <<pc, outcome>>
           /\ phase' = IF failTo' = "CODEQL_FAILED" THEN "list" ELSE "write_error"
  BY <1>6 DEF Continue
<1> QED
  BY <1>3, <1>4, <1>5, <1>6 DEF Continue

\* complete() has ended the run in memory, whoever asks.
Finished(c, i) ==
    /\ Program(c)[i].op = "complete" /\ status = "completed"
    /\ manifest.state = StageAt(c, i) /\ manifest.status \in {"running", "completed"}

\* The step succeeded: the journal is at the next place.
Stepped(c, i) ==
    /\ state = StageAt(c, i + 1) /\ InTime
    /\ i = 2 \/ i = 3 =>
         /\ call = "opening" /\ Len(artifacts) = i - 2
         /\ \A k \in DOMAIN artifacts : artifacts[k].path = Descriptor
    /\ i > 3 => call = "idle" /\ Journal!Registered = Initial \cup Written(c, i + 1)
    /\ c.mode # "sarif" /\ i > InputEnd(c) - 3 => HasParsed(artifacts)

\* The last step succeeded.
Audited(c) ==
    /\ manifest.status = "completed" /\ manifest.state = c.goal
    /\ manifest.events = log /\ ~torn
    /\ Journal!PathsIn(manifest.artifacts) = WrittenBy(c) \cup {Descriptor, ResolvedSpec}
    /\ WrittenBy(c) \cup {Descriptor, ResolvedSpec} \cup Journal!AuditFiles \subseteq sealed

\* The step ended in a ValidationError.
Escaped(c, i) ==
    /\ manifest.status = "running"
    /\ \/ Program(c)[i].arg = BuildRegistry
       \/ Program(c)[i].op = "transition" /\ \A k \in DOMAIN events : events[k].to # Program(c)[i].arg

\* The step ended in an OSError: nobody takes the run for ended, or complete()
\* had written all of the end.
Dropped(c, i) ==
    /\ incidents > 0
    /\ manifest.status \in {"completed", "failed"} =>
         /\ manifest.status = "completed" /\ Program(c)[i].op = "complete"
         /\ manifest.state = c.goal /\ manifest.events = log /\ ~torn
         /\ Journal!PathsIn(manifest.artifacts) \subseteq sealed

\* What the step owes for each of its outcomes,
Owed(c, i) ==
    /\ exc \in {"none", "evitriage", "validation", "oserror"}
    /\ exc = "none" /\ i < ProgramEnd(c) => (i = 1 /\ Unopened) \/ (i > 1 /\ Stepped(c, i))
    /\ exc = "none" /\ i = ProgramEnd(c) => Audited(c)
    /\ exc = "validation" => Escaped(c, i)
    /\ exc = "oserror" => Dropped(c, i)
    /\ exc = "evitriage" /\ Program(c)[i].handler # {} =>
         call = "idle" /\ (Known(c, i) \/ Lost(c, i) \/ Finished(c, i))

\* and, without an incident, of the files.
OwedQuiet(c, i) ==
    /\ Matching
    /\ (exc = "none" /\ i < ProgramEnd(c)) \/ (exc = "evitriage" /\ Program(c)[i].handler # {}) =>
         /\ files[ErrorReport] = "absent"
         /\ Accounted(Initial \cup Left(c, i + 1))
    /\ exc = "evitriage" /\ Program(c)[i].handler # {} =>
         Known(c, i) /\ Initial \cup Written(c, i) \subseteq Journal!Registered

-----------------------------------------------------------------------------
(* A step that pays what it owes keeps the invariant. *)

\* A step that pays what it owes keeps the invariant.
LEMMA AfterStep ==
    ASSUME NEW c \in Commands, NEW i \in 1 .. ProgramEnd(c), cmd = c, pc = i, cmd' = c,
           mode' = c.mode, failTo = "none", outcome = "pending", pending \subseteq AllPaths,
           journalError \in BOOLEAN, Continue(Program(c)[i].handler), Journal!TypeOK',
           incidents' \in 0 .. MaxIncidents, manifest'.status # "failed", RecordsInv',
           Owed(c, i)', incidents' = 0 => ~journalError /\ OwedQuiet(c, i)'
    PROVE  IInv'
<1> DEFINE h == Program(c)[i].handler
           e == ProgramEnd(c)
<1>1. /\ pending' = pending /\ journalError' = journalError
      /\ \/ /\ exc' = "none" /\ i < e /\ pc' = i + 1 /\ failTo' = "none"
            /\ phase' = "run" /\ outcome' = "pending"
         \/ /\ exc' = "none" /\ i = e /\ pc' = i + 1 /\ failTo' = "none"
            /\ phase' = "done" /\ outcome' = "success"
         \/ /\ exc' \in Unhandled /\ pc' = i /\ failTo' = "none"
            /\ phase' = "done" /\ outcome' = "traceback"
         \/ /\ exc' = "evitriage" /\ h = {} /\ pc' = i /\ failTo' = "none"
            /\ phase' = "done" /\ outcome' = "error"
         \/ /\ exc' = "evitriage" /\ failTo' \in h /\ pc' = i /\ outcome' = "pending"
            /\ phase' = IF failTo' = "CODEQL_FAILED" THEN "list" ELSE "write_error"
  BY Control
<1>2. Fits(c, i, Program(c)[i]) /\ Len(Program(c)) = e /\ e \in Int
  BY StepsFit, Layout, Numbers
<1>3. i \in Int /\ i >= 1 /\ i <= e /\ i + 1 \in 1 .. e + 1 /\ i \in 1 .. e + 1
  BY <1>2
<1>4. \A f \in h : f \in FailureStates
  BY <1>2 DEF Fits, Handles
<1> HIDE DEF h, e
<1>5. CASE exc' = "none" /\ i < e /\ pc' = i + 1 /\ failTo' = "none"
           /\ phase' = "run" /\ outcome' = "pending"
  <2>1. TypeOK'
    <3>1. pc' \in 1 .. Len(Program(cmd')) + 1
      BY <1>2, <1>3, <1>5
    <3>2. phase' \in {"run", "completing", "list", "record", "write_error", "fail", "failing", "done"}
          /\ failTo' \in FailureStates \cup {"none"} /\ pending' \subseteq AllPaths
          /\ journalError' \in BOOLEAN
          /\ outcome' \in {"pending", "success", "error", "traceback", "killed"}
          /\ (phase' = "done") = Ended'
      BY <1>1, <1>5 DEF Ended
    <3> QED
      BY <3>1, <3>2 DEF TypeOK
  <2>2. AtStep(c, i + 1)'
    <3>1. (i = 1 /\ Unopened') \/ (i > 1 /\ Stepped(c, i)')
      BY <1>5 DEF Owed, e
    <3>2. i + 1 \in 1 .. ProgramEnd(c)
      BY <1>2, <1>3, <1>5 DEF e
    <3>3. CASE i = 1 /\ Unopened'
      <4>1. /\ i + 1 <= 2 /\ ~(i + 1 > 2) /\ i + 1 # 3 /\ i + 1 # 4 /\ ~(i + 1 > 4)
            /\ i + 1 <= 5
        BY <3>3
      <4>2. StageAt(c, i + 1) = "CREATED"
        BY <4>1 DEF StageAt
      <4>3. c.mode # "sarif" => ~(i + 1 > InputEnd(c) - 2)
        <5>1. PrepEnd(c) \in Nat /\ 7 <= PrepEnd(c) /\ InputEnd(c) \in Int
              /\ PrepEnd(c) + 2 <= InputEnd(c)
              /\ (c.mode # "sarif" => InputEnd(c) = PrepEnd(c) + Len(ToolLogs) + 8)
              /\ Len(ToolLogs) \in Nat
          BY Ends, Numbers
        <5> QED
          BY <3>3, <5>1
      <4> QED
        BY <1>5, <3>2, <3>3, <4>1, <4>2, <4>3 DEF AtStep, Unopened
    <3>4. CASE i > 1 /\ Stepped(c, i)'
      <4>1. /\ ~(i + 1 <= 2) /\ (i + 1 = 3 \/ i + 1 = 4 <=> i = 2 \/ i = 3)
            /\ (i + 1 > 4 => i > 3) /\ (i + 1) - 3 = i - 2
        BY <1>3, <3>4
      <4>2. i + 1 > InputEnd(c) - 2 => i > InputEnd(c) - 3
        <5>1. InputEnd(c) \in Int
          BY Numbers
        <5> QED
          BY <1>3, <5>1
      <4>3. /\ state' = StageAt(c, i + 1) /\ InTime'
            /\ i = 2 \/ i = 3 =>
                 /\ call' = "opening" /\ Len(artifacts') = i - 2
                 /\ \A k \in DOMAIN artifacts' : artifacts'[k].path = Descriptor
            /\ i > 3 => call' = "idle" /\ Journal!Registered' = Initial \cup Written(c, i + 1)
            /\ c.mode # "sarif" /\ i > InputEnd(c) - 3 => HasParsed(artifacts')
        BY <3>4 DEF Stepped
      <4> QED
        BY <1>5, <3>2, <4>1, <4>2, <4>3 DEF AtStep
    <3> QED
      BY <3>1, <3>3, <3>4
  <2>3. PlaceInv'
    BY <1>5, <2>2 DEF PlaceInv, Handling
  <2>4. QuietInv'
    <3>1. ASSUME incidents' = 0 PROVE Quiet(c, i + 1)'
      <4>1. /\ ~journalError' /\ Matching' /\ files'[ErrorReport] = "absent"
            /\ Accounted(Initial \cup Left(c, i + 1))'
        BY <1>1, <1>5, <3>1 DEF OwedQuiet, e
      <4> QED
        BY <1>5, <4>1 DEF Quiet, Handling
    <3> QED
      BY <1>5, <3>1 DEF QuietInv
  <2>5. EndInv'
    BY <1>5 DEF EndInv, SuccessIsAudited, FailureIsTold, FailureNamesItsStage,
       FailureIsRecordedOrAdmitted, UndisturbedFailureIsFinal, OnlyKnownErrorsEscape,
       ValidationErrorsAreKnown, EscapesEndNothingElse
  <2> QED
    BY <2>1, <2>3, <2>4, <2>5 DEF IInv
<1>6. CASE exc' = "evitriage" /\ failTo' \in h /\ pc' = i /\ outcome' = "pending"
           /\ phase' = IF failTo' = "CODEQL_FAILED" THEN "list" ELSE "write_error"
  <2>1. TypeOK'
    <3>1. pc' \in 1 .. Len(Program(cmd')) + 1
      BY <1>2, <1>3, <1>6
    <3>2. phase' \in {"run", "completing", "list", "record", "write_error", "fail", "failing", "done"}
          /\ failTo' \in FailureStates \cup {"none"} /\ pending' \subseteq AllPaths
          /\ journalError' \in BOOLEAN
          /\ outcome' \in {"pending", "success", "error", "traceback", "killed"}
          /\ (phase' = "done") = Ended'
      BY <1>1, <1>4, <1>6 DEF Ended
    <3> QED
      BY <3>1, <3>2 DEF TypeOK
  <2>2. failTo' \in Program(c)[i].handler /\ Program(c)[i].handler # {}
    BY <1>6 DEF h
  <2>3. AtHandler(c, i)'
    <3>1. call' = "idle" /\ (Known(c, i)' \/ Lost(c, i)' \/ Finished(c, i)')
      BY <1>6, <2>2 DEF Owed
    <3>2. ASSUME Finished(c, i)' PROVE Over(c, i)'
      <4>1. Program(c)[i].op = "complete"
        BY <3>2 DEF Finished
      <4>2. i = e
        BY <1>2, <4>1 DEF Fits, Places, e
      <4>3. failTo' # "CODEQL_FAILED"
        <5>1. failTo' = "CODEQL_FAILED" => i <= InputEnd(c)
          BY <1>2, <2>2 DEF Fits, Handles
        <5>2. InputEnd(c) \in Int /\ InputEnd(c) < e
          <6> DEFINE n == InputEnd(c)
                     s == SupplementEnd(c)
                     x == ContextEnd(c)
                     m == Len(SlicePaths)
          <6>1. /\ n \in Int /\ s \in Int /\ x \in Int /\ m \in Nat
                /\ (s = n \/ s = n + 2) /\ x = s + 4 + m + 8 /\ (e = x + 12 \/ e = x + 1)
            BY Numbers DEF e
          <6> HIDE DEF n, s, x, m
          <6>2. n < s + 4 + m + 8
            BY <6>1
          <6>3. n < x
            BY <6>1, <6>2
          <6>4. n < e
            BY <6>1, <6>3
          <6> QED
            BY <6>1, <6>4 DEF n
        <5> QED
          BY <1>2, <4>2, <5>1, <5>2
      <4>4. phase' = "write_error"
        BY <1>6, <4>3
      <4> QED
        BY <3>2, <4>4 DEF Over, Finished
    <3>3. phase' # "failing"
      BY <1>6
    <3>4. phase' = "list" => c.mode # "sarif"
      BY <1>2, <1>6, <2>2 DEF Fits, Handles
    <3> QED
      BY <2>2, <3>1, <3>2, <3>3, <3>4 DEF AtHandler
  <2>4. PlaceInv'
    BY <1>6, <2>3 DEF PlaceInv, Handling
  <2>5. QuietInv'
    <3>1. ASSUME incidents' = 0 PROVE Quiet(c, i)'
      <4>1. /\ ~journalError' /\ Matching' /\ files'[ErrorReport] = "absent"
            /\ Accounted(Initial \cup Left(c, i + 1))' /\ Known(c, i)'
            /\ Initial \cup Written(c, i) \subseteq Journal!Registered'
        BY <1>1, <1>6, <2>2, <3>1 DEF OwedQuiet
      <4>2. CASE failTo' = "CODEQL_FAILED"
        <5>1. phase' = "list"
          BY <1>6, <4>2
        <5>2. Left(c, i + 1) \subseteq ToolOutput
          BY DEF Left
        <5>3. Accounted(ToolOutput)'
          BY <4>1, <5>2 DEF Accounted
        <5> QED
          BY <4>1, <5>1, <5>3 DEF Quiet
      <4>3. CASE failTo' # "CODEQL_FAILED"
        <5>1. phase' = "write_error"
          BY <1>6, <4>3
        <5>2. Left(c, i + 1) \subseteq Journal!Registered'
          <6>1. c.mode # "sarif" => i <= PrepEnd(c) \/ i > InputEnd(c)
            BY <1>2, <2>2, <4>3 DEF Fits, Handles
          <6>2. PrepEnd(c) \in Int
            BY Numbers
          <6>3. CASE c.mode = "sarif"
            BY <6>3 DEF Left
          <6>4. CASE c.mode # "sarif" /\ i <= PrepEnd(c)
            <7>1. ~(i + 1 > PrepEnd(c) + 2)
              BY <1>3, <6>2, <6>4
            <7> QED
              BY <7>1 DEF Left
          <6>5. CASE c.mode # "sarif" /\ i > InputEnd(c)
            <7>1. ToolOutput \subseteq Written(c, i)
              BY <1>3, <6>5, ScanIsWritten
            <7> QED
              BY <4>1, <7>1 DEF Left
          <6> QED
            BY <6>1, <6>3, <6>4, <6>5
        <5>3. Accounted({RunMetadata})'
          BY <4>1, <5>2 DEF Accounted
        <5> QED
          BY <4>1, <5>1, <5>3 DEF Quiet
      <4> QED
        BY <4>2, <4>3
    <3> QED
      BY <1>6, <3>1 DEF QuietInv
  <2>6. EndInv'
    <3>1. phase' \notin {"fail", "failing"}
      BY <1>6
    <3> QED
      BY <1>6, <3>1 DEF EndInv, SuccessIsAudited, FailureIsTold, FailureNamesItsStage,
       FailureIsRecordedOrAdmitted, UndisturbedFailureIsFinal, OnlyKnownErrorsEscape,
       ValidationErrorsAreKnown, EscapesEndNothingElse
  <2> QED
    BY <2>1, <2>4, <2>5, <2>6 DEF IInv
<1>7. ASSUME phase' = "done", failTo' = "none", pc' \in 1 .. e + 1,
             outcome' \in {"success", "error", "traceback"},
             outcome' = "success" => exc' = "none" /\ i = e,
             outcome' = "traceback" => exc' \in Unhandled /\ pc' = i
      PROVE  IInv'
  <2>1. TypeOK'
    <3>1. pc' \in 1 .. Len(Program(cmd')) + 1
      BY <1>2, <1>7
    <3>2. phase' \in {"run", "completing", "list", "record", "write_error", "fail", "failing", "done"}
          /\ failTo' \in FailureStates \cup {"none"} /\ pending' \subseteq AllPaths
          /\ journalError' \in BOOLEAN
          /\ outcome' \in {"pending", "success", "error", "traceback", "killed"}
          /\ (phase' = "done") = Ended'
      BY <1>1, <1>7 DEF Ended
    <3> QED
      BY <3>1, <3>2 DEF TypeOK
  <2>2. PlaceInv'
    BY <1>7 DEF PlaceInv, Handling
  <2>3. QuietInv'
    BY <1>7 DEF QuietInv
  <2>4. SuccessIsAudited'
    <3>1. outcome' = "success" => Audited(c)'
      BY <1>7 DEF Owed, e
    <3> QED
      BY <3>1 DEF SuccessIsAudited, Audited
  <2>5. OnlyKnownErrorsEscape'
    <3>1. outcome' = "traceback" =>
            /\ exc' = "validation" => Escaped(c, i)'
            /\ exc' = "oserror" => Dropped(c, i)'
            /\ Here' = Program(c)[i] /\ exc' \in {"validation", "oserror"}
      BY <1>7 DEF Owed, Here, Unhandled
    <3>2. ValidationErrorsAreKnown'
      BY <3>1 DEF ValidationErrorsAreKnown, Escaped
    <3>3. EscapesEndNothingElse'
      BY <1>7, <3>1 DEF EscapesEndNothingElse, Escaped, Dropped
    <3> QED
      BY <3>1, <3>2, <3>3 DEF OnlyKnownErrorsEscape, Dropped
  <2>6. EndInv'
    BY <1>7, <2>4, <2>5 DEF EndInv, FailureIsTold, FailureNamesItsStage,
       FailureIsRecordedOrAdmitted, UndisturbedFailureIsFinal
  <2> QED
    BY <2>1, <2>2, <2>3, <2>6 DEF IInv
<1> QED
  BY <1>1, <1>3, <1>5, <1>6, <1>7

-----------------------------------------------------------------------------
(* The steps, one lemma for each. *)

\* What a step may use.
LEMMA RunSetting ==
    ASSUME IInv, phase = "run", NEW c, c = cmd, NEW i, i = pc
    PROVE  /\ c \in Commands /\ mode = c.mode /\ i \in 1 .. ProgramEnd(c) /\ AtStep(c, i)
           /\ Here = Program(c)[i] /\ Fits(c, i, Program(c)[i]) /\ outcome = "pending"
           /\ failTo = "none" /\ pending \subseteq AllPaths /\ journalError \in BOOLEAN
           /\ Journal!TypeOK /\ RecordsInv /\ incidents \in 0 .. MaxIncidents
           /\ incidents = 0 => Quiet(c, i)
           /\ manifest.status # "failed"
<1>1. TypeOK /\ PlaceInv /\ RecordsInv /\ QuietInv /\ EndInv
  BY DEF IInv
<1>2. c \in Commands /\ mode = c.mode /\ Len(Program(c)) = ProgramEnd(c) /\ i \in Int
  <2>1. c \in Commands /\ mode = c.mode /\ i \in 1 .. Len(Program(c)) + 1
    BY <1>1 DEF TypeOK
  <2>2. Len(Program(c)) = ProgramEnd(c) /\ ProgramEnd(c) \in Int
    BY <2>1, Layout, Numbers
  <2> QED
    BY <2>1, <2>2
<1>3. AtStep(c, i)
  BY <1>1, <1>2 DEF PlaceInv
<1>4. i \in 1 .. ProgramEnd(c) /\ failTo = "none"
  BY <1>3 DEF AtStep
<1>5. Fits(c, i, Program(c)[i]) /\ Here = Program(c)[i]
  BY <1>2, <1>4, StepsFit DEF Here
<1>6. incidents = 0 => Quiet(c, i)
  BY <1>1, <1>2 DEF QuietInv
<1>7. manifest.status # "failed"
  BY <1>1 DEF EndInv
<1>8. /\ outcome = "pending" /\ pending \subseteq AllPaths /\ journalError \in BOOLEAN
      /\ Journal!TypeOK /\ incidents \in 0 .. MaxIncidents
  BY <1>1 DEF TypeOK, Ended
<1> QED
  BY <1>1, <1>2, <1>3, <1>4, <1>5, <1>6, <1>7, <1>8

\* A command that has met no incident meets none in this call.
LEMMA BudgetKeeps ==
    ASSUME incidents \in 0 .. MaxIncidents, NEW io, Budget(io)
    PROVE  /\ incidents' \in 0 .. MaxIncidents
           /\ incidents' = 0 => incidents = 0 /\ io = "none"
           /\ io # "none" => incidents' > 0
<1>1. MaxIncidents \in Nat
  BY PipelineAssumption
<1>2. CASE io = "none"
  BY <1>1, <1>2 DEF Budget
<1>3. CASE io # "none"
  BY <1>1, <1>3 DEF Budget
<1> QED
  BY <1>2, <1>3

\* The first steps.
LEMMA Early ==
    ASSUME NEW c \in Commands
    PROVE  /\ ProgramEnd(c) > 7 /\ InputEnd(c) \in Int /\ PrepEnd(c) \in Int /\ PrepEnd(c) >= 7
           /\ InputEnd(c) < ProgramEnd(c)
           /\ c.mode # "sarif" => InputEnd(c) - 3 > PrepEnd(c) + 2
           /\ \A i \in 1 .. 5 : StageAt(c, i) = "CREATED"
<1> DEFINE p == PrepEnd(c)
           n == InputEnd(c)
           s == SupplementEnd(c)
           x == ContextEnd(c)
           m == Len(SlicePaths)
           e == ProgramEnd(c)
           t == Len(ToolLogs)
<1>1. /\ p \in Int /\ n \in Int /\ s \in Int /\ x \in Int /\ m \in Nat /\ e \in Int /\ t \in Nat
      /\ (p = 7 \/ p = 8) /\ (s = n \/ s = n + 2) /\ x = s + 4 + m + 8
      /\ (e = x + 12 \/ e = x + 1)
  BY Numbers
<1>2. (c.mode = "sarif" => n = p + 2) /\ (c.mode # "sarif" => n = p + t + 8)
  BY Numbers
<1>3. \A i \in 1 .. 5 : StageAt(c, i) = "CREATED"
  BY DEF StageAt
<1> HIDE DEF p, n, s, x, m, e, t
<1>4. n < s + 4 + m + 8
  BY <1>1
<1>5. n < x
  BY <1>1, <1>4
<1>6. n < e /\ p >= 7
  BY <1>1, <1>5
<1>7. ASSUME c.mode # "sarif" PROVE n - 3 > p + 2
  BY <1>1, <1>2, <1>7
<1>8. n > 7
  <2>1. CASE c.mode = "sarif"
    BY <1>1, <1>2, <2>1
  <2>2. CASE c.mode # "sarif"
    BY <1>1, <1>2, <2>2
  <2> QED
    BY <2>1, <2>2
<1>9. e > 7
  BY <1>1, <1>6, <1>8
<1> QED
  BY <1>1, <1>3, <1>6, <1>7, <1>9 DEF p, n, e

\* The scan is not undone.
LEMMA LeftGrows ==
    ASSUME NEW c \in Commands, NEW i \in 1 .. ProgramEnd(c)
    PROVE  Left(c, i) \subseteq Left(c, i + 1)
<1>1. PrepEnd(c) \in Int /\ ProgramEnd(c) \in Int
  BY Numbers
<1>2. i > PrepEnd(c) + 2 => i + 1 > PrepEnd(c) + 2
  BY <1>1
<1> QED
  BY <1>2 DEF Left

\* How the manifest on disk may move: RunLifecycle, on its two fields.
MayBecome(c, m, n) ==
    \/ n.state = m.state /\ n.status = m.status
    \/ m.status = "none" /\ n.status = "running" /\ n.state = m.state
    \/ /\ m.status = "running" /\ m.state # c.goal /\ n.status = "running"
       /\ n.state \notin (IF c.mode = "sarif" THEN ScanBranch ELSE IngestBranch)
       /\ ManifestAllows(m.state, n.state) /\ n.state \in ProgressStates
    \/ m.status = "running" /\ m.state = c.goal /\ n.status = "completed" /\ n.state = m.state
    \/ /\ m.status = "running" /\ n.status = "failed"
       /\ n.state \in FailureStates \ (IF c.mode = "sarif" THEN {"CODEQL_FAILED"} ELSE {})

\* The records of a manifest follow those in memory.
LEMMA RecordsKept ==
    ASSUME RecordsInv, \A i \in DOMAIN artifacts' : artifacts'[i].digest # "absent",
           HasParsed(artifacts) => HasParsed(artifacts'),
           Reached(events', "SCANNED") => Reached(events, "SCANNED") \/ HasParsed(artifacts'),
           manifest' = manifest \/ manifest' = Journal!Projection'
    PROVE  RecordsInv'
<1>1. Reached(events', "SCANNED") => HasParsed(artifacts')
  BY DEF RecordsInv
<1>2. CASE manifest' = manifest
  BY <1>1, <1>2 DEF RecordsInv
<1>3. CASE manifest' = Journal!Projection'
  <2>1. manifest'.events = events' /\ manifest'.artifacts = artifacts'
    BY <1>3 DEF Journal!Projection
  <2> QED
    BY <1>1, <2>1 DEF RecordsInv
<1> QED
  BY <1>2, <1>3

\* The journal is opened.
LEMMA OpenStep ==
    ASSUME IInv, phase = "run", Here.op = "open", NEW io, Journal!Open(io), Budget(io),
           Continue(Here.handler), UNCHANGED cmd, NEW c, c = cmd, NEW i, i = pc
    PROVE  IInv' /\ MayBecome(c, manifest, manifest')
<1>1. c = cmd /\ i = pc
  OBVIOUS
<1>2. /\ c \in Commands /\ mode = c.mode /\ i \in 1 .. ProgramEnd(c) /\ AtStep(c, i)
      /\ Here = Program(c)[i] /\ Fits(c, i, Program(c)[i]) /\ outcome = "pending"
      /\ failTo = "none" /\ pending \subseteq AllPaths /\ journalError \in BOOLEAN
      /\ Journal!TypeOK /\ RecordsInv /\ incidents \in 0 .. MaxIncidents
      /\ incidents = 0 => Quiet(c, i)
      /\ manifest.status # "failed"
  BY <1>1, RunSetting
<1>3. i = 2 /\ Program(c)[i].handler = {}
  <2>1. i = 2
    BY <1>2 DEF Fits, Places
  <2>2. \A f \in Program(c)[i].handler : i > 7
    BY <1>2 DEF Fits, Handles
  <2> QED
    BY <2>1, <2>2
<1>4. Unopened
  BY <1>2, <1>3 DEF AtStep
<1>5. /\ UNCHANGED <<mode, state, status, artifacts, files, sealed, late>>
      /\ exc' \in {"none", "evitriage", "oserror"} /\ (io = "none" => exc' = "none")
      /\ exc' = "none" => InTime' /\ call' = "opening"
      /\ manifest' = manifest \/ manifest' = Journal!Projection'
      /\ \A k \in DOMAIN events' : events'[k].to = "CREATED"
  BY <1>2, <1>4, OpenEffect
<1>6. Journal!TypeOK'
  <2>1. Journal!OpeningOK
    BY <1>4 DEF Unopened, Journal!OpeningOK
  <2> QED
    BY <1>2, <2>1, OpeningTypes
<1>7. artifacts' = artifacts /\ artifacts = <<>> /\ DOMAIN artifacts = {} /\ Len(artifacts) = 0
  BY <1>4, <1>5 DEF Unopened
<1>8. RecordsInv'
  <2>1. ~Reached(events', "SCANNED")
    BY <1>5 DEF Reached
  <2>2. /\ HasParsed(artifacts) => HasParsed(artifacts')
        /\ \A k \in DOMAIN artifacts' : artifacts'[k].digest # "absent"
    BY <1>7
  <2> QED
    BY <1>2, <1>5, <2>1, <2>2, RecordsKept
<1>9. /\ manifest.status = "none" /\ manifest.state = "CREATED"
      /\ manifest' = Journal!Projection' => manifest'.status = "running" /\ manifest'.state = "CREATED"
  BY <1>4, <1>5 DEF Unopened, Journal!NoManifest, Journal!Projection
<1>10. manifest'.status # "failed" /\ MayBecome(c, manifest, manifest')
  BY <1>5, <1>9 DEF MayBecome
<1>11. incidents' \in 0 .. MaxIncidents /\ (incidents' = 0 => incidents = 0)
       /\ (io # "none" => incidents' > 0)
  BY <1>2, BudgetKeeps
<1>12. i # ProgramEnd(c) /\ i > 1 /\ ~(i > 3) /\ ~(i > InputEnd(c) - 3 /\ c.mode # "sarif") /\ i - 2 = 0
       /\ StageAt(c, i + 1) = "CREATED"
  <2>1. i + 1 \in 1 .. 5
    BY <1>3
  <2> QED
    BY <1>2, <1>3, <2>1, Early
<1>13. Owed(c, i)'
  <2>1. exc' = "none" => Stepped(c, i)'
    BY <1>4, <1>5, <1>7, <1>12 DEF Stepped, Unopened
  <2>2. exc' = "oserror" => Dropped(c, i)'
    BY <1>5, <1>9, <1>11 DEF Dropped
  <2> QED
    BY <1>3, <1>5, <1>12, <2>1, <2>2 DEF Owed
<1>14. ASSUME incidents' = 0 PROVE ~journalError /\ OwedQuiet(c, i)'
  <2>1. Quiet(c, i) /\ phase = "run"
    BY <1>2, <1>11, <1>14
  <2>2. ~journalError /\ files[ErrorReport] = "absent" /\ Accounted(Initial \cup Left(c, i))
    BY <2>1 DEF Quiet
  <2>3. Matching'
    BY <1>7 DEF Matching
  <2>4. Left(c, i) \subseteq Left(c, i + 1)
    BY <1>2, LeftGrows
  <2>5. Journal!Registered' = Journal!Registered
    BY <1>5 DEF Journal!Registered, Journal!PathsIn
  <2>6. Accounted(Initial \cup Left(c, i + 1))'
    BY <1>5, <2>2, <2>4, <2>5 DEF Accounted
  <2> QED
    BY <1>3, <1>5, <2>2, <2>3, <2>6 DEF OwedQuiet
<1>15. cmd' = c /\ mode' = c.mode /\ Continue(Program(c)[i].handler)
  BY <1>1, <1>2, <1>5
<1>16. IInv'
  BY <1>1, <1>2, <1>6, <1>8, <1>10, <1>11, <1>13, <1>14, <1>15, AfterStep
<1> QED
  BY <1>1, <1>10, <1>16

\* Records stay right while no file changes.
LEMMA FilesUnchanged ==
    ASSUME Journal!TypeOK, files' = files, NEW p, artifacts' = artifacts \/ Grown(p)
    PROVE  /\ Matching => Matching'
           /\ Journal!Registered \subseteq Journal!Registered'
           /\ (\A k \in DOMAIN artifacts : artifacts[k].digest # "absent") =>
                \A k \in DOMAIN artifacts' : artifacts'[k].digest # "absent"
           /\ HasParsed(artifacts) => HasParsed(artifacts')
<1>1. CASE artifacts' = artifacts
  BY <1>1 DEF Matching, Journal!Registered, Journal!PathsIn
<1>2. CASE Grown(p)
  <2>1. /\ Journal!Registered' = Journal!Registered \cup {p}
        /\ HasParsed(artifacts) => HasParsed(artifacts')
        /\ \A k \in DOMAIN artifacts : artifacts'[k] = artifacts[k]
        /\ \A k \in DOMAIN artifacts' :
             \/ k \in DOMAIN artifacts
             \/ artifacts'[k].path = p /\ artifacts'[k].digest = files'[p]
    BY <1>2, GrownRecords
  <2>2. files'[p] # "absent"
    BY <1>2 DEF Grown
  <2> QED
    BY <2>1, <2>2 DEF Matching
<1> QED
  BY <1>1, <1>2

\* The journal registers the files of the allocation.
LEMMA RegisterStep ==
    ASSUME IInv, phase = "run", Here.op = "register", NEW io, Journal!RegisterInitial(io), Budget(io),
           Continue(Here.handler), UNCHANGED cmd, NEW c, c = cmd, NEW i, i = pc
    PROVE  IInv' /\ MayBecome(c, manifest, manifest')
<1>2. /\ c \in Commands /\ mode = c.mode /\ i \in 1 .. ProgramEnd(c) /\ AtStep(c, i)
      /\ Here = Program(c)[i] /\ Fits(c, i, Program(c)[i]) /\ outcome = "pending"
      /\ failTo = "none" /\ pending \subseteq AllPaths /\ journalError \in BOOLEAN
      /\ Journal!TypeOK /\ RecordsInv /\ incidents \in 0 .. MaxIncidents
      /\ incidents = 0 => Quiet(c, i)
      /\ manifest.status # "failed"
  BY RunSetting
<1>3. (i = 3 \/ i = 4) /\ Program(c)[i].handler = {}
  <2>1. i = 3 \/ i = 4
    BY <1>2 DEF Fits, Places
  <2>2. \A f \in Program(c)[i].handler : i > 7
    BY <1>2 DEF Fits, Handles
  <2> QED
    BY <2>1, <2>2
<1>4. /\ InTime /\ call = "opening" /\ Len(artifacts) = i - 3 /\ state = StageAt(c, i)
      /\ \A k \in DOMAIN artifacts : artifacts[k].path = Descriptor
  BY <1>2, <1>3 DEF AtStep
<1> DEFINE p == IF i = 3 THEN Descriptor ELSE ResolvedSpec
<1>5. /\ UNCHANGED <<mode, state, status, events, log, torn, files, sealed, late>> /\ Sound'
      /\ exc' \in {"none", "evitriage", "oserror"} /\ (io = "none" => exc' # "oserror")
      /\ artifacts' = artifacts \/ Grown(p)
      /\ manifest' = manifest \/ manifest' = Journal!Projection'
      /\ exc' = "none" =>
           /\ InTime' /\ Grown(p)
           /\ Len(artifacts) = 0 => call' = "opening"
           /\ Len(artifacts) = 1 => call' = "idle"
  <2>1. (Len(artifacts) = 0 /\ p = Descriptor) \/ (Len(artifacts) = 1 /\ p = ResolvedSpec)
    BY <1>3, <1>4
  <2> HIDE DEF p
  <2> QED
    BY <1>2, <1>4, <2>1, RegisterInitialEffect
<1>6. Journal!TypeOK'
  <2>1. Len(artifacts) < Len(<<Descriptor, ResolvedSpec>>)
    BY <1>3, <1>4
  <2>2. Journal!OpeningOK
    BY <1>4, <2>1 DEF Journal!OpeningOK
  <2> QED
    BY <1>2, <2>2, OpeningTypes
<1> HIDE DEF p
<1>7. /\ Matching => Matching'
      /\ Journal!Registered \subseteq Journal!Registered'
      /\ (\A k \in DOMAIN artifacts : artifacts[k].digest # "absent") =>
           \A k \in DOMAIN artifacts' : artifacts'[k].digest # "absent"
      /\ HasParsed(artifacts) => HasParsed(artifacts')
  BY <1>2, <1>5, FilesUnchanged
<1>8. RecordsInv'
  <2>1. Reached(events', "SCANNED") => Reached(events, "SCANNED")
    BY <1>5
  <2>2. \A k \in DOMAIN artifacts' : artifacts'[k].digest # "absent"
    BY <1>2, <1>7 DEF RecordsInv
  <2> QED
    BY <1>2, <1>5, <1>7, <2>1, <2>2, RecordsKept
<1>9. /\ manifest.status = "running" /\ manifest.state = state
      /\ manifest' = Journal!Projection' => manifest'.status = "running" /\ manifest'.state = state
  BY <1>4, <1>5 DEF InTime, Sound, Journal!Projection
<1>10. manifest'.status # "failed" /\ MayBecome(c, manifest, manifest')
  BY <1>5, <1>9 DEF MayBecome
<1>11. incidents' \in 0 .. MaxIncidents /\ (incidents' = 0 => incidents = 0)
       /\ (io # "none" => incidents' > 0)
  BY <1>2, BudgetKeeps
<1>12. i # ProgramEnd(c) /\ i > 1 /\ ~(i > InputEnd(c) - 3 /\ c.mode # "sarif")
       /\ StageAt(c, i) = "CREATED" /\ StageAt(c, i + 1) = "CREATED"
  <2>1. i + 1 \in 1 .. 5 /\ i \in 1 .. 5
    BY <1>3
  <2> QED
    BY <1>2, <1>3, <2>1, Early
<1>13. Owed(c, i)'
  <2>1. ASSUME exc' = "none" PROVE Stepped(c, i)'
    <3>1. /\ InTime' /\ Grown(p) /\ state' = "CREATED"
          /\ i = 3 => call' = "opening"
          /\ i = 4 => call' = "idle"
      BY <1>4, <1>5, <1>12, <2>1
    <3>2. /\ Journal!Registered' = Journal!Registered \cup {p} /\ Len(artifacts') = Len(artifacts) + 1
          /\ \A k \in DOMAIN artifacts : artifacts'[k] = artifacts[k]
          /\ \A k \in DOMAIN artifacts' :
               \/ k \in DOMAIN artifacts
               \/ artifacts'[k].path = p /\ artifacts'[k].digest = files'[p]
      BY <1>2, <3>1, GrownRecords
    <3>3. CASE i = 3
      <4>1. p = Descriptor /\ Len(artifacts') = 1 /\ i - 2 = 1 /\ ~(i > 3)
        BY <1>4, <3>2, <3>3 DEF p
      <4>2. \A k \in DOMAIN artifacts' : artifacts'[k].path = Descriptor
        BY <1>4, <3>2, <4>1
      <4> QED
        BY <1>12, <3>1, <3>3, <4>1, <4>2 DEF Stepped
    <3>4. CASE i = 4
      <4>1. p = ResolvedSpec /\ ~(i = 2 \/ i = 3)
        BY <3>4 DEF p
      <4>2. Journal!Registered = {Descriptor}
        <5>1. Len(artifacts) = 1 /\ DOMAIN artifacts = 1 .. Len(artifacts)
          BY <1>2, <1>4, <3>4, JournalTypes
        <5>2. 1 \in DOMAIN artifacts
          BY <5>1
        <5> QED
          BY <1>4, <5>2 DEF Journal!Registered, Journal!PathsIn
      <4>3. Written(c, i + 1) = {}
        <5>1. i + 1 \in 1 .. ProgramEnd(c) /\ i + 1 <= 5
          <6>1. ProgramEnd(c) > 7 /\ ProgramEnd(c) \in Int
            BY <1>2, Early, Numbers
          <6> QED
            BY <3>4, <6>1
        <5> QED
          BY <1>2, <5>1, NothingWritten
      <4>4. Journal!Registered' = Initial \cup Written(c, i + 1)
        BY <3>2, <4>1, <4>2, <4>3 DEF Initial
      <4> QED
        BY <1>12, <3>1, <3>4, <4>1, <4>4 DEF Stepped
    <3> QED
      BY <1>3, <3>3, <3>4
  <2>2. exc' = "oserror" => Dropped(c, i)'
    BY <1>5, <1>9, <1>11 DEF Dropped
  <2> QED
    BY <1>3, <1>5, <1>12, <2>1, <2>2 DEF Owed
<1>14. ASSUME incidents' = 0 PROVE ~journalError /\ OwedQuiet(c, i)'
  <2>1. Quiet(c, i) /\ phase = "run"
    BY <1>2, <1>11, <1>14
  <2>2. ~journalError /\ files[ErrorReport] = "absent" /\ Accounted(Initial \cup Left(c, i)) /\ Matching
    BY <2>1 DEF Quiet
  <2>4. Left(c, i) \subseteq Left(c, i + 1)
    BY <1>2, LeftGrows
  <2>6. Accounted(Initial \cup Left(c, i + 1))'
    BY <1>5, <1>7, <2>2, <2>4 DEF Accounted
  <2> QED
    BY <1>3, <1>5, <1>7, <2>2, <2>6 DEF OwedQuiet
<1>15. cmd' = c /\ mode' = c.mode /\ Continue(Program(c)[i].handler) /\ cmd = c /\ pc = i
  BY <1>2, <1>5
<1>16. IInv'
  BY <1>2, <1>6, <1>8, <1>10, <1>11, <1>13, <1>14, <1>15, AfterStep
<1> QED
  BY <1>10, <1>16

\* A step that moves the history along.
LEMMA TransitionStep ==
    ASSUME IInv, phase = "run", Here.op = "transition", NEW io, Journal!Transition(Here.arg, io),
           Budget(io), Continue(Here.handler), UNCHANGED cmd, NEW c, c = cmd, NEW i, i = pc
    PROVE  IInv' /\ MayBecome(c, manifest, manifest')
<1>2. /\ c \in Commands /\ mode = c.mode /\ i \in 1 .. ProgramEnd(c) /\ AtStep(c, i)
      /\ Here = Program(c)[i] /\ Fits(c, i, Program(c)[i]) /\ outcome = "pending"
      /\ failTo = "none" /\ pending \subseteq AllPaths /\ journalError \in BOOLEAN
      /\ Journal!TypeOK /\ RecordsInv /\ incidents \in 0 .. MaxIncidents
      /\ incidents = 0 => Quiet(c, i)
      /\ manifest.status # "failed"
  BY RunSetting
<1> DEFINE to == Program(c)[i].arg
<1>3. /\ i > 4 /\ <<StageAt(c, i), to>> \in JournalEdges /\ to = StageAt(c, i + 1)
      /\ StageAt(c, i) # c.goal
      /\ to \notin (IF c.mode = "sarif" THEN ScanBranch ELSE IngestBranch)
      /\ to = "SCANNED" => c.mode # "sarif" /\ i = InputEnd(c)
      /\ i # ProgramEnd(c) /\ ~(c.mode # "sarif" /\ i = InputEnd(c) - 2)
  BY <1>2 DEF Fits, Moves, Places
<1>n. i \in Int /\ InputEnd(c) \in Int
  BY <1>2, Numbers
<1>4. /\ Sound /\ manifest = Journal!Projection /\ call = "idle" /\ state = StageAt(c, i)
      /\ Journal!Registered = Initial \cup Written(c, i)
      /\ c.mode # "sarif" /\ i > InputEnd(c) - 2 => HasParsed(artifacts)
  BY <1>2, <1>3, <1>n DEF AtStep, InTime
<1> HIDE DEF to
<1>t. Journal!Transition(to, io)
  BY <1>2 DEF to
<1>5. /\ UNCHANGED <<mode, status, artifacts, files, sealed, call, late>> /\ state' = to
      /\ exc' \in {"none", "evitriage", "oserror"} /\ (io = "none" => exc' = "none")
      /\ manifest' = manifest \/ manifest' = Journal!Projection'
      /\ exc' = "none" => Sound' /\ manifest' = Journal!Projection'
      /\ \/ Sound'
         \/ LostHistory' /\ manifest' = manifest /\ events' = events
      /\ \A k \in DOMAIN events' :
           (k \in DOMAIN events /\ events'[k] = events[k]) \/ events'[k].to = to
  BY <1>2, <1>3, <1>4, <1>t, SoundTransition
<1>6. Journal!TypeOK'
  <2>1. to \in WorkflowState
    BY <1>3, Edges DEF WorkflowState
  <2> QED
    BY <1>2, <1>t, <2>1, TransitionTypes
<1>7. Matching => Matching'
  BY <1>5 DEF Matching
<1>8. Journal!Registered' = Journal!Registered
  BY <1>5 DEF Journal!Registered, Journal!PathsIn
<1>9. RecordsInv'
  <2>1. ASSUME Reached(events', "SCANNED"), ~Reached(events, "SCANNED") PROVE HasParsed(artifacts')
    <3>1. to = "SCANNED"
      BY <1>5, <2>1 DEF Reached
    <3>2. c.mode # "sarif" /\ i > InputEnd(c) - 2
      BY <1>3, <1>n, <3>1
    <3> QED
      BY <1>4, <1>5, <3>2
  <2>2. \A k \in DOMAIN artifacts' : artifacts'[k].digest # "absent"
    BY <1>2, <1>5 DEF RecordsInv
  <2> QED
    BY <1>2, <1>5, <2>1, <2>2, RecordsKept
<1>10. /\ manifest.status = "running" /\ manifest.state = StageAt(c, i)
       /\ manifest' = Journal!Projection' => manifest'.status = "running" /\ manifest'.state = to
  BY <1>4, <1>5 DEF Sound, Journal!Projection
<1>11. manifest'.status = "running" /\ manifest'.state \in {StageAt(c, i), to}
  BY <1>5, <1>10
<1>12. MayBecome(c, manifest, manifest')
  <2>1. CASE manifest' = manifest
    BY <2>1 DEF MayBecome
  <2>2. CASE manifest' = Journal!Projection'
    <3>1. ManifestAllows(StageAt(c, i), to) /\ to \in ProgressStates
      BY <1>3, Edges
    <3> QED
      BY <1>3, <1>10, <2>2, <3>1 DEF MayBecome
  <2> QED
    BY <1>5, <2>1, <2>2
<1>13. incidents' \in 0 .. MaxIncidents /\ (incidents' = 0 => incidents = 0 /\ io = "none")
       /\ (io # "none" => incidents' > 0)
  BY <1>2, BudgetKeeps
<1>14. Owed(c, i)'
  <2>1. ASSUME exc' = "none" PROVE Stepped(c, i)'
    <3>1. Written(c, i + 1) = Written(c, i)
      <4>1. Program(c)[i].op \notin Writing
        BY <1>2 DEF Writing
      <4> QED
        BY <1>2, <4>1, WrittenStep
    <3>2. i > InputEnd(c) - 3 /\ c.mode # "sarif" => i > InputEnd(c) - 2
      BY <1>3, <1>n
    <3>3. ~(i = 2 \/ i = 3)
      BY <1>3
    <3> QED
      BY <1>3, <1>4, <1>5, <1>8, <2>1, <3>1, <3>2, <3>3 DEF Stepped, InTime
  <2>2. Known(c, i)' \/ Lost(c, i)'
    <3>1. Program(c)[i].op = "transition" /\ state' = Program(c)[i].arg
      BY <1>2, <1>5 DEF to
    <3>2. CASE Sound'
      BY <1>5, <1>11, <3>1, <3>2 DEF Known
    <3>3. CASE LostHistory' /\ manifest' = manifest
      <4>1. status' = "running"
        BY <1>4, <1>5 DEF Sound
      <4> QED
        BY <1>10, <3>1, <3>3, <4>1 DEF Lost, LostHistory
    <3> QED
      BY <1>5, <3>2, <3>3
  <2>3. i > 1 /\ call' = "idle"
    BY <1>3, <1>4, <1>5, <1>n
  <2>4. exc' = "oserror" => Dropped(c, i)'
    BY <1>5, <1>11, <1>13 DEF Dropped
  <2> QED
    BY <1>3, <1>5, <2>1, <2>2, <2>3, <2>4 DEF Owed
<1>15. ASSUME incidents' = 0 PROVE ~journalError /\ OwedQuiet(c, i)'
  <2>1. Quiet(c, i) /\ phase = "run"
    BY <1>2, <1>13, <1>15
  <2>2. ~journalError /\ files[ErrorReport] = "absent" /\ Accounted(Initial \cup Left(c, i)) /\ Matching
    BY <2>1 DEF Quiet
  <2>3. exc' = "none"
    BY <1>5, <1>13, <1>15
  <2>4. Left(c, i) \subseteq Left(c, i + 1)
    BY <1>2, LeftGrows
  <2>6. Accounted(Initial \cup Left(c, i + 1))'
    BY <1>5, <1>8, <2>2, <2>4 DEF Accounted
  <2> QED
    BY <1>5, <1>7, <2>2, <2>3, <2>6 DEF OwedQuiet
<1>16. cmd' = c /\ mode' = c.mode /\ Continue(Program(c)[i].handler) /\ cmd = c /\ pc = i
  BY <1>2, <1>5
<1>17. manifest'.status # "failed"
  BY <1>11
<1>18. IInv'
  BY <1>2, <1>6, <1>9, <1>13, <1>14, <1>15, <1>16, <1>17, AfterStep
<1> QED
  BY <1>12, <1>18

\* A step that records a file, or only rewrites the manifest.
LEMMA RecordingStep ==
    ASSUME IInv, phase = "run", NEW op, op = Here.op, op \in {"versions", "ingest", "write", "record"},
           NEW io, RecordingCall(op, Here.arg, io), Budget(io), Continue(Here.handler), UNCHANGED cmd,
           NEW c, c = cmd, NEW i, i = pc
    PROVE  IInv' /\ MayBecome(c, manifest, manifest')
<1>2. /\ c \in Commands /\ mode = c.mode /\ i \in 1 .. ProgramEnd(c) /\ AtStep(c, i)
      /\ Here = Program(c)[i] /\ Fits(c, i, Program(c)[i]) /\ outcome = "pending"
      /\ failTo = "none" /\ pending \subseteq AllPaths /\ journalError \in BOOLEAN
      /\ Journal!TypeOK /\ RecordsInv /\ incidents \in 0 .. MaxIncidents
      /\ incidents = 0 => Quiet(c, i)
      /\ manifest.status # "failed"
  BY RunSetting
<1>n. i \in Int /\ InputEnd(c) \in Int /\ ProgramEnd(c) \in Int
  BY <1>2, Numbers
<1>3. /\ i > 4 /\ StageAt(c, i + 1) = StageAt(c, i) /\ i # ProgramEnd(c)
      /\ ~(c.mode # "sarif" /\ i = InputEnd(c) - 2)
  <2>1. op # "transition" /\ op # "complete" /\ op # "check" /\ op \notin {"work", "open", "register"}
    OBVIOUS
  <2> QED
    BY <1>2, <1>n, <2>1 DEF Fits, Moves, Places
<1> DEFINE p == IF op \in Writing THEN Program(c)[i].arg ELSE Descriptor
<1>p. /\ p \in AllPaths /\ p # ErrorReport /\ RecordingCall(op, p, io)
      /\ op \in Writing => p = Program(c)[i].arg
  <2>1. CASE op \in Writing
    <3>1. p = Program(c)[i].arg /\ Program(c)[i].op \in Writing
      BY <1>2, <2>1
    <3>2. p \in AllPaths
      BY <1>2, <3>1, WrittenPaths
    <3>3. p # ErrorReport
      BY <1>2, <3>1 DEF Fits, Reserved
    <3> QED
      BY <1>2, <3>1, <3>2, <3>3
  <2>2. CASE op \notin Writing
    <3>1. op = "versions" /\ p = Descriptor
      BY <2>2 DEF Writing
    <3>2. Descriptor \in AllPaths /\ Descriptor # ErrorReport
      BY DEF AllPaths, Descriptor, ErrorReport
    <3> QED
      BY <2>2, <3>1, <3>2 DEF RecordingCall
  <2> QED
    BY <2>1, <2>2
<1> HIDE DEF p
<1>4. /\ Sound /\ manifest = Journal!Projection /\ call = "idle" /\ state = StageAt(c, i)
      /\ Journal!Registered = Initial \cup Written(c, i)
      /\ c.mode # "sarif" /\ i > InputEnd(c) - 2 => HasParsed(artifacts)
  BY <1>2, <1>3, <1>n DEF AtStep, InTime
<1>r. Recording(p, io)
  BY <1>p DEF RecordingCall, Recording
<1>5. /\ UNCHANGED <<mode, state, status, events, log, torn, sealed, call, late>>
      /\ exc' \in {"none", "evitriage", "validation", "oserror"}
      /\ artifacts' = artifacts \/ Grown(p)
      /\ Sound' /\ exc' # "validation" /\ (io = "none" => exc' # "oserror")
      /\ manifest' = manifest \/ manifest' = Journal!Projection'
  BY <1>2, <1>4, <1>p, <1>r, RecordingEffect, SoundRecording
<1>6. Journal!TypeOK'
  BY <1>2, <1>p, <1>r, RecordingTypes DEF Recording
<1>7. /\ (\A k \in DOMAIN artifacts : artifacts[k].digest # "absent") =>
           \A k \in DOMAIN artifacts' : artifacts'[k].digest # "absent"
      /\ HasParsed(artifacts) => HasParsed(artifacts')
      /\ Journal!Registered \subseteq Journal!Registered'
  <2>1. CASE artifacts' = artifacts
    BY <2>1 DEF Journal!Registered, Journal!PathsIn
  <2>2. CASE Grown(p)
    <3>1. files'[p] # "absent"
      BY <2>2 DEF Grown
    <3>2. /\ Journal!Registered' = Journal!Registered \cup {p}
          /\ HasParsed(artifacts) => HasParsed(artifacts')
          /\ \A k \in DOMAIN artifacts : artifacts'[k] = artifacts[k]
          /\ \A k \in DOMAIN artifacts' :
               \/ k \in DOMAIN artifacts
               \/ artifacts'[k].path = p /\ artifacts'[k].digest = files'[p]
      BY <1>2, <2>2, GrownRecords
    <3> QED
      BY <3>1, <3>2
  <2> QED
    BY <1>5, <2>1, <2>2
<1>8. RecordsInv'
  <2>1. Reached(events', "SCANNED") => Reached(events, "SCANNED")
    BY <1>5
  <2>2. \A k \in DOMAIN artifacts' : artifacts'[k].digest # "absent"
    BY <1>2, <1>7 DEF RecordsInv
  <2> QED
    BY <1>2, <1>5, <1>7, <2>1, <2>2, RecordsKept
<1>9. /\ manifest.status = "running" /\ manifest.state = StageAt(c, i)
      /\ manifest' = Journal!Projection' => manifest'.status = "running" /\ manifest'.state = StageAt(c, i)
  BY <1>4, <1>5 DEF Sound, Journal!Projection
<1>10. manifest'.status = "running" /\ manifest'.state = StageAt(c, i) /\ MayBecome(c, manifest, manifest')
  BY <1>5, <1>9 DEF MayBecome
<1>11. incidents' \in 0 .. MaxIncidents /\ (incidents' = 0 => incidents = 0 /\ io = "none")
       /\ (io # "none" => incidents' > 0)
  BY <1>2, BudgetKeeps
<1>12. i > 1 /\ ~(i = 2 \/ i = 3) /\ (i > InputEnd(c) - 3 /\ c.mode # "sarif" => i > InputEnd(c) - 2)
  BY <1>3, <1>n
<1>13. Owed(c, i)'
  <2>1. ASSUME exc' = "none" PROVE Stepped(c, i)'
    <3>1. /\ op \in Writing => Grown(p)
          /\ op \notin Writing => artifacts' = artifacts
          /\ manifest' = Journal!Projection'
      BY <1>2, <1>p, <2>1, RecordingGrows
    <3>2. CASE op \in Writing
      <4>1. Journal!Registered' = Journal!Registered \cup {p}
        BY <1>2, <3>1, <3>2, GrownRecords
      <4>2. Written(c, i + 1) = Written(c, i) \cup {p}
        BY <1>2, <1>p, <3>2, WrittenStep
      <4>3. Journal!Registered' = Initial \cup Written(c, i + 1)
        BY <1>4, <4>1, <4>2
      <4> QED
        BY <1>3, <1>4, <1>5, <1>7, <1>12, <3>1, <4>3 DEF Stepped, InTime
    <3>3. CASE op \notin Writing
      <4>1. Journal!Registered' = Journal!Registered
        BY <3>1, <3>3 DEF Journal!Registered, Journal!PathsIn
      <4>2. Written(c, i + 1) = Written(c, i)
        BY <1>2, <3>3, WrittenStep
      <4>3. Journal!Registered' = Initial \cup Written(c, i + 1)
        BY <1>4, <4>1, <4>2
      <4> QED
        BY <1>3, <1>4, <1>5, <1>7, <1>12, <3>1, <4>3 DEF Stepped, InTime
    <3> QED
      BY <3>2, <3>3
  <2>2. Known(c, i)' /\ call' = "idle"
    BY <1>4, <1>5, <1>10 DEF Known
  <2>3. exc' = "oserror" => Dropped(c, i)'
    BY <1>5, <1>10, <1>11 DEF Dropped
  <2> QED
    BY <1>3, <1>5, <1>12, <2>1, <2>2, <2>3 DEF Owed
<1>14. ASSUME incidents' = 0 PROVE ~journalError /\ OwedQuiet(c, i)'
  <2>1. Quiet(c, i) /\ phase = "run" /\ Recording(p, "none")
    BY <1>2, <1>11, <1>14, <1>r
  <2>2. ~journalError /\ files[ErrorReport] = "absent" /\ Accounted(Initial \cup Left(c, i)) /\ Matching
    BY <2>1 DEF Quiet
  <2>3. /\ Matching'
        /\ \A q \in AllPaths :
             files'[q] # "absent" => files[q] # "absent" \/ q \in Journal!Registered'
        /\ \A q \in AllPaths : files'[q] # files[q] => q = p
    <3>1. \A k \in DOMAIN artifacts : artifacts[k].digest # "absent"
      BY <1>2 DEF RecordsInv
    <3> QED
      BY <1>2, <1>p, <2>1, <2>2, <3>1, QuietRecording
  <2>4. Left(c, i) \subseteq Left(c, i + 1)
    BY <1>2, LeftGrows
  <2>5. files'[ErrorReport] = "absent"
    <3>1. ErrorReport \in AllPaths
      BY DEF AllPaths
    <3> QED
      BY <1>p, <2>2, <2>3, <3>1
  <2>6. Accounted(Initial \cup Left(c, i + 1))'
    BY <1>7, <2>2, <2>3, <2>4 DEF Accounted
  <2>7. Known(c, i)' /\ Initial \cup Written(c, i) \subseteq Journal!Registered'
    BY <1>4, <1>5, <1>7, <1>10 DEF Known
  <2> QED
    BY <2>2, <2>3, <2>5, <2>6, <2>7 DEF OwedQuiet
<1>15. cmd' = c /\ mode' = c.mode /\ Continue(Program(c)[i].handler) /\ cmd = c /\ pc = i
  BY <1>2, <1>5
<1>16. manifest'.status # "failed"
  BY <1>10
<1>17. IInv'
  BY <1>2, <1>6, <1>8, <1>11, <1>13, <1>14, <1>15, <1>16, AfterStep
<1> QED
  BY <1>10, <1>17

\* What the scan leaves behind is neither the allocation's nor the handler's.
LEMMA ToolOutputApart ==
    ASSUME NEW p \in ToolOutput
    PROVE  p # Descriptor /\ p # ResolvedSpec /\ p # ErrorReport
<1>1. CASE p \in ToSet(ToolLogs)
  BY <1>1, PipelineAssumption DEF Reserved
<1>2. CASE p \in {ScanSarif, RunMetadata}
  BY <1>2 DEF ScanSarif, RunMetadata, Descriptor, ResolvedSpec, ErrorReport
<1> QED
  BY <1>1, <1>2 DEF ToolOutput

\* A computation changes no variable of the journal, and files only when it is a scan.
LEMMA ComputationStep ==
    ASSUME IInv, phase = "run", NEW op, op = Here.op, op \in {"work", "check", "scan"},
           JournalUnchanged, UNCHANGED cmd, Continue(Here.handler),
           incidents' \in 0 .. MaxIncidents, incidents' = 0 => incidents = 0,
           exc' = "oserror" => incidents' > 0,
           files' \in [AllPaths -> Journal!Contents], exc' \in {"none", "evitriage", "validation", "oserror"},
           exc' = "validation" => Here.arg = BuildRegistry,
           op = "check" /\ exc' = "none" => HasParsed(artifacts),
           \A q \in AllPaths : files'[q] # files[q] => op = "scan" /\ q \in ToolOutput,
           NEW c, c = cmd, NEW i, i = pc
    PROVE  IInv' /\ MayBecome(c, manifest, manifest')
<1>1. UNCHANGED <<mode, state, status, events, artifacts, log, torn, manifest, sealed, call, late>>
  BY DEF JournalUnchanged
<1>2. /\ c \in Commands /\ mode = c.mode /\ i \in 1 .. ProgramEnd(c) /\ AtStep(c, i)
      /\ Here = Program(c)[i] /\ Fits(c, i, Program(c)[i]) /\ outcome = "pending"
      /\ failTo = "none" /\ pending \subseteq AllPaths /\ journalError \in BOOLEAN
      /\ Journal!TypeOK /\ RecordsInv /\ incidents \in 0 .. MaxIncidents
      /\ incidents = 0 => Quiet(c, i)
      /\ manifest.status # "failed"
  BY RunSetting
<1>n. i \in Int /\ InputEnd(c) \in Int /\ ProgramEnd(c) \in Int /\ PrepEnd(c) \in Int /\ i >= 1
  BY <1>2, Numbers
<1>3. /\ StageAt(c, i + 1) = StageAt(c, i) /\ i # ProgramEnd(c) /\ i # 2 /\ i # 3 /\ i # 4
      /\ (op = "check" <=> c.mode # "sarif" /\ i = InputEnd(c) - 2)
      /\ (op = "scan" <=> c.mode # "sarif" /\ i = PrepEnd(c) + 2)
      /\ op = "scan" => Program(c)[i].handler = {"CODEQL_FAILED"}
  <2>1. op # "transition" /\ op # "complete" /\ op # "open" /\ op # "register"
    OBVIOUS
  <2> QED
    BY <1>2, <2>1 DEF Fits, Moves, Places
<1>4. i = 1 \/ i > 4
  BY <1>n, <1>3
<1>5. i = 1 => Unopened /\ Program(c)[i].handler = {} /\ exc' # "validation"
  <2>1. ASSUME i = 1 PROVE Unopened
    BY <1>2, <2>1 DEF AtStep
  <2>2. ASSUME i = 1, NEW f \in Program(c)[i].handler PROVE FALSE
    <3>1. i > 7
      BY <1>2, <2>2 DEF Fits, Handles
    <3> QED
      BY <2>2, <3>1
  <2>3. ASSUME i = 1 PROVE exc' # "validation"
    <3>1. Program(c)[i].arg = BuildRegistry => i > 4
      BY <1>2 DEF Fits
    <3> QED
      BY <1>2, <2>3, <3>1
  <2> QED
    BY <2>1, <2>2, <2>3
<1>6. i > 4 =>
      /\ Sound /\ manifest = Journal!Projection /\ call = "idle" /\ state = StageAt(c, i)
      /\ Journal!Registered = Initial \cup Written(c, i)
      /\ c.mode # "sarif" /\ i > InputEnd(c) - 2 => HasParsed(artifacts)
  BY <1>2, <1>n DEF AtStep, InTime
<1>7. Journal!TypeOK'
  BY <1>1, <1>2 DEF Journal!TypeOK
<1>8. RecordsInv'
  BY <1>1, <1>2 DEF RecordsInv
<1>9. Journal!Registered' = Journal!Registered /\ Journal!Projection' = Journal!Projection
  BY <1>1 DEF Journal!Registered, Journal!PathsIn, Journal!Projection
<1>10. manifest'.status # "failed" /\ MayBecome(c, manifest, manifest')
  BY <1>1, <1>2 DEF MayBecome
<1>11. i > 4 => manifest.status = "running" /\ manifest.state = StageAt(c, i)
  BY <1>6 DEF Sound, Journal!Projection
<1>12. i > 4 => Sound'
  BY <1>1, <1>6 DEF Sound
<1>13. Written(c, i + 1) = Written(c, i)
  <2>1. Program(c)[i].op \notin Writing
    BY <1>2 DEF Writing
  <2> QED
    BY <1>2, <2>1, WrittenStep
<1>d. exc' = "oserror" => Dropped(c, i)'
  <2>1. i = 1 => manifest.status = "none"
    BY <1>5 DEF Unopened, Journal!NoManifest
  <2>2. manifest'.status \notin {"completed", "failed"}
    BY <1>1, <1>4, <1>11, <2>1
  <2> QED
    BY <2>2 DEF Dropped
<1>14. Owed(c, i)'
  <2>1. ASSUME exc' = "none", i = 1 PROVE Unopened'
    BY <1>1, <1>5, <2>1 DEF Unopened, Journal!NoManifest
  <2>2. ASSUME exc' = "none", i > 4 PROVE i > 1 /\ Stepped(c, i)'
    <3>1. i > 1 /\ ~(i = 2 \/ i = 3)
      BY <1>n, <1>3, <2>2
    <3>2. ASSUME c.mode # "sarif", i > InputEnd(c) - 3 PROVE HasParsed(artifacts')
      <4>1. i = InputEnd(c) - 2 \/ i > InputEnd(c) - 2
        BY <1>n, <3>2
      <4> QED
        BY <1>1, <1>3, <1>6, <2>2, <3>2, <4>1
    <3> QED
      BY <1>1, <1>3, <1>6, <1>9, <1>12, <1>13, <2>2, <3>1, <3>2 DEF Stepped, InTime
  <2>3. ASSUME exc' = "validation" PROVE Escaped(c, i)'
    <3>1. i > 4 /\ Program(c)[i].arg = BuildRegistry
      BY <1>2, <1>4, <1>5, <2>3
    <3> QED
      BY <1>1, <1>11, <3>1 DEF Escaped
  <2>4. ASSUME exc' = "evitriage", Program(c)[i].handler # {} PROVE call' = "idle" /\ Known(c, i)'
    <3>1. i > 4
      BY <1>4, <1>5, <2>4
    <3> QED
      BY <1>1, <1>6, <1>11, <1>12, <3>1 DEF Known
  <2> QED
    BY <1>d, <1>3, <1>4, <2>1, <2>2, <2>3, <2>4 DEF Owed
<1>15. ASSUME incidents' = 0 PROVE ~journalError /\ OwedQuiet(c, i)'
  <2>1. Quiet(c, i) /\ phase = "run"
    BY <1>2, <1>15
  <2>2. ~journalError /\ files[ErrorReport] = "absent" /\ Accounted(Initial \cup Left(c, i)) /\ Matching
    BY <2>1 DEF Quiet
  <2>3. Left(c, i) \subseteq Left(c, i + 1)
    BY <1>2, LeftGrows
  <2>4. CASE op # "scan"
    <3>1. \A q \in AllPaths : files'[q] = files[q]
      BY <2>4
    <3>2. ErrorReport \in AllPaths /\ \A k \in DOMAIN artifacts : artifacts[k].path \in AllPaths
      BY <1>2, JournalTypes DEF AllPaths
    <3>3. Matching'
      BY <1>1, <2>2, <3>1, <3>2 DEF Matching
    <3>4. files'[ErrorReport] = "absent"
      BY <2>2, <3>1, <3>2
    <3>5. Accounted(Initial \cup Left(c, i + 1))'
      BY <1>9, <2>2, <2>3, <3>1 DEF Accounted
    <3>6. ASSUME exc' = "evitriage", Program(c)[i].handler # {}
          PROVE  Known(c, i)' /\ Initial \cup Written(c, i) \subseteq Journal!Registered'
      <4>1. i > 4
        BY <1>4, <1>5, <3>6
      <4> QED
        BY <1>1, <1>6, <1>9, <1>11, <1>12, <4>1 DEF Known
    <3> QED
      BY <2>2, <3>3, <3>4, <3>5, <3>6 DEF OwedQuiet
  <2>5. CASE op = "scan"
    <3>1. c.mode # "sarif" /\ i = PrepEnd(c) + 2 /\ i > 4
      <4>1. PrepEnd(c) >= 7
        BY <1>2, Early
      <4> QED
        BY <1>3, <1>n, <2>5, <4>1
    <3>2. Written(c, i) = {}
      <4>1. i <= PrepEnd(c) + 2
        BY <1>n, <3>1
      <4> QED
        BY <1>2, <3>1, <4>1, NothingWritten
    <3>3. Journal!Registered = Initial
      BY <1>6, <3>1, <3>2
    <3>4. \A k \in DOMAIN artifacts : artifacts[k].path \in AllPaths /\ artifacts[k].path \in Initial
      BY <1>2, <3>3, JournalTypes DEF Journal!Registered, Journal!PathsIn
    <3>5. \A k \in DOMAIN artifacts : files'[artifacts[k].path] = files[artifacts[k].path]
      BY <3>4, ToolOutputApart DEF Initial
    <3>6. Matching'
      BY <1>1, <2>2, <3>5 DEF Matching
    <3>7. files'[ErrorReport] = "absent"
      <4>1. ErrorReport \in AllPaths
        BY DEF AllPaths
      <4> QED
        BY <2>2, <4>1, ToolOutputApart
    <3>8. Left(c, i + 1) = ToolOutput
      <4>1. i + 1 > PrepEnd(c) + 2
        BY <1>n, <3>1
      <4> QED
        BY <3>1, <4>1 DEF Left
    <3>9. Accounted(Initial \cup Left(c, i + 1))'
      BY <1>9, <2>2, <2>3, <3>8 DEF Accounted
    <3>10. Known(c, i)' /\ Initial \cup Written(c, i) \subseteq Journal!Registered'
      BY <1>1, <1>6, <1>9, <1>11, <1>12, <3>1 DEF Known
    <3> QED
      BY <2>2, <3>6, <3>7, <3>9, <3>10 DEF OwedQuiet
  <2> QED
    BY <2>4, <2>5
<1>16. cmd' = c /\ mode' = c.mode /\ Continue(Program(c)[i].handler) /\ cmd = c /\ pc = i
       /\ incidents' \in 0 .. MaxIncidents
  BY <1>1, <1>2
<1>17. IInv'
  BY <1>2, <1>7, <1>8, <1>10, <1>14, <1>15, <1>16, AfterStep
<1> QED
  BY <1>10, <1>17

\* A computation that only succeeds or fails.
LEMMA WorkStep ==
    ASSUME IInv, Work, NEW c, c = cmd, NEW i, i = pc
    PROVE  IInv' /\ MayBecome(c, manifest, manifest')
<1>1. /\ phase = "run" /\ Here.op = "work" /\ JournalUnchanged /\ UNCHANGED <<files, cmd>>
      /\ Continue(Here.handler) /\ exc' \in {"none", "evitriage", "validation", "oserror"}
      /\ exc' = "validation" => Here.arg = BuildRegistry
      /\ \E io : Budget(io) /\ (io = "none" => exc' # "oserror")
  BY DEF Work
<1>2. files \in [AllPaths -> Journal!Contents] /\ incidents \in 0 .. MaxIncidents
  BY DEF IInv, TypeOK, Journal!TypeOK
<1>3. /\ incidents' \in 0 .. MaxIncidents /\ (incidents' = 0 => incidents = 0)
      /\ exc' = "oserror" => incidents' > 0
  BY <1>1, <1>2, BudgetKeeps
<1> QED
  BY <1>1, <1>2, <1>3, ComputationStep

\* The check that the registered SARIF is the parsed one.
LEMMA CheckStep ==
    ASSUME IInv, CheckSarif, NEW c, c = cmd, NEW i, i = pc
    PROVE  IInv' /\ MayBecome(c, manifest, manifest')
<1>1. /\ phase = "run" /\ Here.op = "check" /\ JournalUnchanged /\ UNCHANGED <<files, cmd, incidents>>
      /\ Continue(Here.handler) /\ exc' \in {"none", "evitriage"}
      /\ exc' = "none" => HasParsed(artifacts)
  BY DEF CheckSarif, HasParsed, Parsed
<1>2. files \in [AllPaths -> Journal!Contents] /\ incidents \in 0 .. MaxIncidents
  BY DEF IInv, TypeOK, Journal!TypeOK
<1>3. exc' # "validation" /\ exc' # "oserror" /\ exc' \in {"none", "evitriage", "validation", "oserror"}
  BY <1>1
<1> QED
  BY <1>1, <1>2, <1>3, ComputationStep

\* The CodeQL runner.
LEMMA ScanStep ==
    ASSUME IInv, Scan, NEW c, c = cmd, NEW i, i = pc
    PROVE  IInv' /\ MayBecome(c, manifest, manifest')
<1>1. /\ phase = "run" /\ Here.op = "scan" /\ JournalUnchanged /\ UNCHANGED cmd
      /\ Continue(Here.handler)
  BY DEF Scan
<1>2. PICK left \in [ToolOutput -> {"original", "partial", "absent"}] :
        /\ files' = [p \in AllPaths |-> IF p \in ToolOutput THEN left[p] ELSE files[p]]
        /\ \/ exc' \in {"none", "evitriage"} /\ Budget("none")
           \/ exc' = "oserror" /\ Budget("uncaught")
  BY DEF Scan
<1>3. files \in [AllPaths -> Journal!Contents] /\ incidents \in 0 .. MaxIncidents
  BY DEF IInv, TypeOK, Journal!TypeOK
<1>4. files' \in [AllPaths -> Journal!Contents]
  BY <1>2, <1>3 DEF Journal!Contents
<1>5. exc' # "validation" /\ exc' \in {"none", "evitriage", "validation", "oserror"}
  BY <1>2
<1>7. /\ incidents' \in 0 .. MaxIncidents /\ (incidents' = 0 => incidents = 0)
      /\ exc' = "oserror" => incidents' > 0
  BY <1>2, <1>3, BudgetKeeps
<1>6. \A q \in AllPaths : files'[q] # files[q] => q \in ToolOutput
  BY <1>2
<1> QED
  BY <1>1, <1>4, <1>5, <1>6, <1>7, ComputationStep

\* The steps made of one call of the journal.
LEMMA JournalStepKeeps ==
    ASSUME IInv, NEW io, JournalStep(io), NEW c, c = cmd, NEW i, i = pc
    PROVE  IInv' /\ MayBecome(c, manifest, manifest')
<1>1. phase = "run" /\ Budget(io) /\ Continue(Here.handler) /\ UNCHANGED cmd
  BY DEF JournalStep
<1>2. CASE Here.op = "open" /\ Journal!Open(io)
  BY <1>1, <1>2, OpenStep
<1>3. CASE Here.op = "register" /\ Journal!RegisterInitial(io)
  BY <1>1, <1>3, RegisterStep
<1>4. CASE Here.op = "transition" /\ Journal!Transition(Here.arg, io)
  BY <1>1, <1>4, TransitionStep
<1>5. CASE RecordingCall(Here.op, Here.arg, io)
  <2> DEFINE op == Here.op
  <2>1. op = Here.op /\ op \in {"versions", "ingest", "write", "record"}
        /\ RecordingCall(op, Here.arg, io)
    BY <1>5 DEF RecordingCall
  <2> QED
    <3>1. PICK o : o = Here.op
      OBVIOUS
    <3>2. o \in {"versions", "ingest", "write", "record"} /\ RecordingCall(o, Here.arg, io)
      BY <2>1, <3>1
    <3> QED
      BY <1>1, <3>1, <3>2, RecordingStep
<1> QED
  BY <1>2, <1>3, <1>4, <1>5 DEF JournalStep, RecordingCall

\* complete() checks the files.
LEMMA CompleteCheckStep ==
    ASSUME IInv, NEW io, CompleteCheck(io), NEW c, c = cmd, NEW i, i = pc
    PROVE  IInv' /\ MayBecome(c, manifest, manifest')
<1>1. /\ phase = "run" /\ Here.op = "complete" /\ Journal!CompleteVerify(io) /\ Budget(io)
      /\ UNCHANGED cmd
      /\ exc' = "none" => phase' = "completing" /\ UNCHANGED <<pc, failTo, pending, journalError, outcome>>
      /\ exc' # "none" => Continue(Here.handler)
  BY DEF CompleteCheck
<1>2. /\ c \in Commands /\ mode = c.mode /\ i \in 1 .. ProgramEnd(c) /\ AtStep(c, i)
      /\ Here = Program(c)[i] /\ Fits(c, i, Program(c)[i]) /\ outcome = "pending"
      /\ failTo = "none" /\ pending \subseteq AllPaths /\ journalError \in BOOLEAN
      /\ Journal!TypeOK /\ RecordsInv /\ incidents \in 0 .. MaxIncidents
      /\ incidents = 0 => Quiet(c, i)
      /\ manifest.status # "failed"
  BY <1>1, RunSetting
<1>n. i \in Int /\ ProgramEnd(c) \in Int /\ ProgramEnd(c) > 7
  BY <1>2, Numbers, Early
<1>3. i = ProgramEnd(c) /\ StageAt(c, i) = c.goal /\ i > 4
  <2>1. i = ProgramEnd(c) /\ StageAt(c, i) = c.goal
    BY <1>1, <1>2 DEF Fits, Places
  <2> QED
    BY <1>n, <2>1
<1>4. /\ Sound /\ manifest = Journal!Projection /\ call = "idle" /\ state = c.goal
      /\ Journal!Registered = Initial \cup Written(c, i)
  BY <1>2, <1>3, <1>n DEF AtStep, InTime
<1>5. /\ UNCHANGED <<mode, state, status, events, artifacts, log, torn, manifest, files, sealed, late>>
      /\ exc' = "none" => call' = "completing"
      /\ exc' # "none" => call' = call
      /\ exc' \in {"none", "evitriage", "oserror"} /\ (io = "none" => exc' # "oserror")
      /\ Sound /\ Matching /\ state \in GoalStates /\ io = "none" => exc' = "none"
  BY <1>1, CompleteVerifyEffect
<1>6. Journal!TypeOK'
  BY <1>1, <1>2, EndingTypes
<1>7. RecordsInv' /\ MayBecome(c, manifest, manifest')
  BY <1>2, <1>5 DEF RecordsInv, MayBecome
<1>8. incidents' \in 0 .. MaxIncidents /\ (incidents' = 0 => incidents = 0 /\ io = "none")
       /\ (io # "none" => incidents' > 0)
  BY <1>1, <1>2, BudgetKeeps
<1>9. Sound' /\ Journal!Projection' = Journal!Projection /\ Journal!Registered' = Journal!Registered
      /\ (Matching => Matching')
  BY <1>4, <1>5 DEF Sound, Journal!Projection, Journal!Registered, Journal!PathsIn, Matching
<1>10. manifest.status = "running" /\ manifest.state = StageAt(c, i)
  BY <1>3, <1>4 DEF Sound, Journal!Projection
<1>11. CASE exc' = "none"
  <2>1. phase' = "completing" /\ UNCHANGED <<pc, failTo, pending, journalError, outcome>>
        /\ cmd' = c /\ pc' = i
    BY <1>1, <1>11
  <2>2. TypeOK'
    <3>1. Len(Program(c)) = ProgramEnd(c) /\ i \in 1 .. ProgramEnd(c) + 1
      BY <1>2, <1>n, Layout
    <3> QED
      BY <1>2, <1>5, <1>6, <1>8, <2>1, <3>1 DEF TypeOK, Ended
  <2>3. AtCompletion(c, i)'
    <3>1. Written(c, i) = WrittenBy(c)
      BY <1>2, <1>3, WrittenPaths
    <3> QED
      BY <1>2, <1>3, <1>4, <1>5, <1>9, <1>11, <2>1, <3>1 DEF AtCompletion, InTime
  <2>4. PlaceInv'
    BY <2>1, <2>3 DEF PlaceInv, Handling
  <2>5. QuietInv'
    <3>1. ASSUME incidents' = 0 PROVE Matching' /\ ~journalError'
      BY <1>1, <1>2, <1>8, <1>9, <2>1, <3>1 DEF Quiet
    <3> QED
      BY <2>1, <3>1 DEF QuietInv, Quiet, Handling
  <2>6. EndInv'
    BY <1>2, <1>5, <2>1 DEF EndInv, SuccessIsAudited, FailureIsTold, FailureNamesItsStage,
       FailureIsRecordedOrAdmitted, UndisturbedFailureIsFinal, OnlyKnownErrorsEscape,
       ValidationErrorsAreKnown, EscapesEndNothingElse
  <2>7. IInv'
    BY <1>7, <2>2, <2>4, <2>5, <2>6 DEF IInv
  <2> QED
    BY <1>7, <2>7
<1>12. CASE exc' # "none"
  <2>1. exc' \in {"evitriage", "oserror"} /\ call' = "idle"
    BY <1>4, <1>5, <1>12
  <2>2. Known(c, i)'
    BY <1>3, <1>4, <1>5, <1>9, <1>10 DEF Known
  <2>7. exc' = "oserror" => Dropped(c, i)'
    BY <1>5, <1>8, <1>10 DEF Dropped
  <2>3. Owed(c, i)'
    BY <2>1, <2>2, <2>7 DEF Owed
  <2>4. incidents' = 0 => ~journalError /\ OwedQuiet(c, i)'
    <3>1. ASSUME incidents' = 0 PROVE FALSE
      <4>1. Matching /\ io = "none"
        BY <1>1, <1>2, <1>8, <3>1 DEF Quiet
      <4>2. state \in GoalStates
        BY <1>2, <1>4, CommandKinds DEF GoalStates
      <4> QED
        BY <1>4, <1>5, <1>12, <4>1, <4>2
    <3> QED
      BY <3>1
  <2>5. cmd' = c /\ mode' = c.mode /\ Continue(Program(c)[i].handler) /\ cmd = c /\ pc = i
        /\ manifest'.status # "failed"
    BY <1>1, <1>2, <1>5, <1>12
  <2>6. IInv'
    BY <1>2, <1>6, <1>7, <1>8, <2>3, <2>4, <2>5, AfterStep
  <2> QED
    BY <1>7, <2>6
<1> QED
  BY <1>11, <1>12

\* complete() seals the run and writes its last manifest.
LEMMA CompleteFinishStep ==
    ASSUME IInv, NEW io, CompleteFinish(io), NEW c, c = cmd, NEW i, i = pc
    PROVE  IInv' /\ MayBecome(c, manifest, manifest')
<1>1. /\ phase = "completing" /\ Budget(io) /\ Continue(Here.handler) /\ UNCHANGED cmd
      /\ \/ Journal!CompleteCommit(io)
         \/ \E n \in 0 .. Len(artifacts) : Journal!SealRefused(n, io)
  BY DEF CompleteFinish
<1>2. /\ c \in Commands /\ mode = c.mode /\ AtCompletion(c, i) /\ outcome = "pending"
      /\ pending \subseteq AllPaths /\ journalError \in BOOLEAN
      /\ Journal!TypeOK /\ RecordsInv /\ incidents \in 0 .. MaxIncidents
      /\ incidents = 0 => Quiet(c, i)
      /\ manifest.status # "failed" /\ i \in Int
  <2>1. TypeOK /\ PlaceInv /\ RecordsInv /\ QuietInv /\ EndInv
    BY DEF IInv
  <2>2. c \in Commands /\ mode = c.mode /\ i \in 1 .. Len(Program(c)) + 1
    BY <2>1 DEF TypeOK
  <2>3. Len(Program(c)) = ProgramEnd(c) /\ ProgramEnd(c) \in Int
    BY <2>2, Layout, Numbers
  <2>4. i \in Int
    BY <2>2, <2>3
  <2>5. AtCompletion(c, i) /\ (incidents = 0 => Quiet(c, i)) /\ manifest.status # "failed"
    BY <1>1, <2>1, <2>2, <2>4 DEF PlaceInv, QuietInv, EndInv
  <2>6. /\ outcome = "pending" /\ pending \subseteq AllPaths /\ journalError \in BOOLEAN
        /\ Journal!TypeOK /\ incidents \in 0 .. MaxIncidents
    BY <1>1, <2>1 DEF TypeOK, Ended
  <2> QED
    BY <2>1, <2>2, <2>4, <2>5, <2>6
<1>3. /\ i = ProgramEnd(c) /\ failTo = "none" /\ state = c.goal /\ InTime /\ call = "completing"
      /\ Journal!Registered = Initial \cup WrittenBy(c)
  BY <1>2 DEF AtCompletion
<1>4. i \in 1 .. ProgramEnd(c)
  BY <1>2, <1>3, Early
<1>5. Fits(c, i, Program(c)[i]) /\ Here = Program(c)[i]
  BY <1>2, <1>4, StepsFit DEF Here
<1>6. Program(c)[i].op = "complete" /\ StageAt(c, i) = c.goal
  BY <1>3, <1>5 DEF Fits, Places
<1>7. Sound /\ manifest = Journal!Projection /\ manifest.status = "running" /\ manifest.state = c.goal
  BY <1>3 DEF InTime, Sound, Journal!Projection
<1>8. incidents' \in 0 .. MaxIncidents /\ (incidents' = 0 => incidents = 0 /\ io = "none")
       /\ (io # "none" => incidents' > 0)
  BY <1>1, <1>2, BudgetKeeps
<1>9. Journal!TypeOK'
  BY <1>1, <1>2, EndingTypes
<1>10. incidents' = 0 => Matching /\ ~journalError
  BY <1>1, <1>2, <1>8 DEF Quiet
<1>11. CASE Journal!CompleteCommit(io)
  <2>1. state \in GoalStates
    BY <1>2, <1>3, CommandKinds DEF GoalStates
  <2>2. /\ UNCHANGED <<mode, state, events, artifacts, log, torn, files, late>>
        /\ status' = "completed" /\ call' = "idle" /\ exc' \in {"none", "evitriage", "oserror"}
        /\ manifest' = manifest \/ manifest' = Journal!Projection'
        /\ Journal!Registered \subseteq sealed'
        /\ exc' = "none" =>
             /\ manifest' = Journal!Projection'
             /\ Journal!Registered \cup Journal!AuditFiles \subseteq sealed'
        /\ io = "none" => exc' = "none"
    BY <1>3, <1>11, <2>1, CompleteCommitEffect
  <2>3. manifest' = Journal!Projection' =>
          /\ manifest'.status = "completed" /\ manifest'.state = c.goal
          /\ manifest'.events = events' /\ manifest'.artifacts = artifacts'
    BY <1>3, <2>2 DEF Journal!Projection
  <2>4. MayBecome(c, manifest, manifest') /\ manifest'.status \in {"running", "completed"}
        /\ manifest'.state = c.goal
    BY <1>7, <2>2, <2>3 DEF MayBecome
  <2>5. RecordsInv'
    <3>1. /\ \A k \in DOMAIN artifacts' : artifacts'[k].digest # "absent"
          /\ HasParsed(artifacts) => HasParsed(artifacts')
          /\ Reached(events', "SCANNED") => Reached(events, "SCANNED") \/ HasParsed(artifacts')
      BY <1>2, <2>2 DEF RecordsInv
    <3> QED
      BY <1>2, <2>2, <3>1, RecordsKept
  <2>6. Owed(c, i)'
    <3>1. ASSUME exc' = "none" PROVE Audited(c)'
      <4>1. events' = log' /\ ~torn'
        BY <1>7, <2>2 DEF Sound
      <4>2. Journal!PathsIn(manifest'.artifacts) = Initial \cup WrittenBy(c)
        BY <1>3, <2>2, <2>3, <3>1 DEF Journal!Registered, Journal!PathsIn
      <4>3. Initial \cup WrittenBy(c) \cup Journal!AuditFiles \subseteq sealed'
        BY <1>3, <2>2, <3>1
      <4> QED
        BY <2>2, <2>3, <3>1, <4>1, <4>2, <4>3 DEF Audited, Initial
    <3>2. Finished(c, i)'
      BY <1>6, <2>2, <2>4 DEF Finished
    <3>3. ~(i < ProgramEnd(c))
      BY <1>2, <1>3
    <3>4. exc' = "oserror" => Dropped(c, i)'
      <4>1. events' = log' /\ ~torn'
        BY <1>7, <2>2 DEF Sound
      <4>2. manifest' = manifest => manifest'.status = "running"
        BY <1>7
      <4>3. manifest' = Journal!Projection' =>
              Journal!PathsIn(manifest'.artifacts) \subseteq sealed'
        BY <2>2, <2>3 DEF Journal!Registered, Journal!PathsIn
      <4>4. exc' = "oserror" => incidents' > 0
        BY <1>8, <2>2
      <4> QED
        BY <1>6, <2>2, <2>3, <4>1, <4>2, <4>3, <4>4 DEF Dropped
    <3> QED
      BY <2>2, <3>1, <3>2, <3>3, <3>4 DEF Owed
  <2>7. incidents' = 0 => ~journalError /\ OwedQuiet(c, i)'
    <3>1. ~(i < ProgramEnd(c))
      BY <1>2, <1>3
    <3>2. ASSUME incidents' = 0 PROVE exc' = "none" /\ Matching' /\ ~journalError
      BY <1>8, <1>10, <2>2, <3>2 DEF Matching
    <3> QED
      BY <3>1, <3>2 DEF OwedQuiet
  <2>8. cmd' = c /\ mode' = c.mode /\ Continue(Program(c)[i].handler) /\ cmd = c /\ pc = i
        /\ manifest'.status # "failed"
    BY <1>1, <1>2, <1>5, <2>2, <2>4
  <2>9. IInv'
    BY <1>2, <1>3, <1>4, <1>8, <1>9, <2>5, <2>6, <2>7, <2>8, AfterStep
  <2> QED
    BY <2>4, <2>9
<1>12. CASE \E n \in 0 .. Len(artifacts) : Journal!SealRefused(n, io)
  <2>1. /\ UNCHANGED <<mode, state, status, events, artifacts, log, torn, manifest, files, late>>
        /\ call' = "idle" /\ exc' \in {"evitriage", "oserror"} /\ io # "none"
    BY <1>12, SealRefusedEffect
  <2>2. Sound'
    BY <1>7, <2>1 DEF Sound
  <2>3. Known(c, i)'
    BY <1>3, <1>6, <1>7, <2>1, <2>2 DEF Known
  <2>9. exc' = "oserror" => Dropped(c, i)'
    BY <1>7, <1>8, <2>1 DEF Dropped
  <2>4. Owed(c, i)'
    BY <2>1, <2>3, <2>9 DEF Owed
  <2>5. RecordsInv' /\ MayBecome(c, manifest, manifest')
    BY <1>2, <2>1 DEF RecordsInv, MayBecome
  <2>6. incidents' = 0 => ~journalError /\ OwedQuiet(c, i)'
    BY <1>8, <2>1
  <2>7. cmd' = c /\ mode' = c.mode /\ Continue(Program(c)[i].handler) /\ cmd = c /\ pc = i
        /\ manifest'.status # "failed"
    BY <1>1, <1>2, <1>5, <2>1
  <2>8. IInv'
    BY <1>2, <1>3, <1>4, <1>8, <1>9, <2>4, <2>5, <2>6, <2>7, AfterStep
  <2> QED
    BY <2>5, <2>8
<1> QED
  BY <1>1, <1>11, <1>12

-----------------------------------------------------------------------------
(* The failure handler. *)

\* What a step of the handler may use.
LEMMA HandlerSetting ==
    ASSUME IInv, Handling, NEW c, c = cmd, NEW i, i = pc
    PROVE  /\ c \in Commands /\ mode = c.mode /\ i \in 1 .. ProgramEnd(c) /\ AtHandler(c, i)
           /\ Here = Program(c)[i] /\ Fits(c, i, Program(c)[i]) /\ outcome = "pending"
           /\ failTo \in Program(c)[i].handler /\ failTo \in FailureStates /\ failTo # "none"
           /\ pending \subseteq AllPaths /\ journalError \in BOOLEAN
           /\ Journal!TypeOK /\ RecordsInv /\ incidents \in 0 .. MaxIncidents
           /\ incidents = 0 => Quiet(c, i)
           /\ manifest.status # "failed"
           /\ phase \in {"fail", "failing"} /\ ~journalError => ErrorReport \in Journal!Registered
           /\ Len(Program(c)) = ProgramEnd(c) /\ i \in 1 .. Len(Program(c)) + 1
<1>1. TypeOK /\ PlaceInv /\ RecordsInv /\ QuietInv /\ EndInv
  BY DEF IInv
<1>2. c \in Commands /\ mode = c.mode /\ Len(Program(c)) = ProgramEnd(c) /\ i \in Int
      /\ i \in 1 .. Len(Program(c)) + 1
  <2>1. c \in Commands /\ mode = c.mode /\ i \in 1 .. Len(Program(c)) + 1
    BY <1>1 DEF TypeOK
  <2>2. Len(Program(c)) = ProgramEnd(c) /\ ProgramEnd(c) \in Int
    BY <2>1, Layout, Numbers
  <2> QED
    BY <2>1, <2>2
<1>3. AtHandler(c, i)
  BY <1>1, <1>2 DEF PlaceInv
<1>4. i \in 1 .. ProgramEnd(c) /\ failTo \in Program(c)[i].handler
  BY <1>3 DEF AtHandler
<1>5. Fits(c, i, Program(c)[i]) /\ Here = Program(c)[i]
  BY <1>2, <1>4, StepsFit DEF Here
<1>6. failTo \in FailureStates /\ failTo # "none"
  BY <1>4, <1>5 DEF Fits, Handles, FailureStates
<1>7. incidents = 0 => Quiet(c, i)
  BY <1>1, <1>2 DEF QuietInv, Handling
<1>8. /\ manifest.status # "failed"
      /\ phase \in {"fail", "failing"} /\ ~journalError => ErrorReport \in Journal!Registered
  BY <1>1 DEF EndInv, Handling
<1>9. /\ outcome = "pending" /\ pending \subseteq AllPaths /\ journalError \in BOOLEAN
      /\ Journal!TypeOK /\ incidents \in 0 .. MaxIncidents
  BY <1>1 DEF TypeOK, Ended, Handling
<1> QED
  BY <1>1, <1>2, <1>3, <1>4, <1>5, <1>6, <1>7, <1>8, <1>9

\* The handler goes on.
LEMMA HandlerGoesOn ==
    ASSUME NEW c \in Commands, NEW i \in Int, cmd' = c, pc' = i, mode' = c.mode, outcome' = "pending",
           i \in 1 .. Len(Program(c)) + 1, failTo' \in FailureStates,
           phase' \in {"list", "record", "write_error", "fail", "failing"}, pending' \subseteq AllPaths,
           journalError' \in BOOLEAN, Journal!TypeOK', incidents' \in 0 .. MaxIncidents,
           AtHandler(c, i)', RecordsInv', manifest'.status # "failed",
           phase' \in {"fail", "failing"} /\ ~journalError' => ErrorReport \in Journal!Registered',
           incidents' = 0 => Quiet(c, i)'
    PROVE  IInv'
<1>1. TypeOK'
  BY DEF TypeOK, Ended
<1>2. PlaceInv'
  BY DEF PlaceInv
<1>3. QuietInv'
  BY DEF QuietInv
<1>4. EndInv'
  BY DEF EndInv, SuccessIsAudited, FailureIsTold, FailureNamesItsStage,
     FailureIsRecordedOrAdmitted, UndisturbedFailureIsFinal, OnlyKnownErrorsEscape,
       ValidationErrorsAreKnown, EscapesEndNothingElse
<1> QED
  BY <1>1, <1>2, <1>3, <1>4 DEF IInv

\* The handler ended in an OSError: nobody takes the run for ended, or fail()
\* had written all of the end.
Abandoned ==
    /\ incidents > 0
    /\ manifest.status \in {"completed", "failed"} =>
         /\ manifest.status = "failed" /\ manifest.state = failTo
         /\ manifest.events = log /\ ~torn
         /\ Journal!PathsIn(manifest.artifacts) \subseteq sealed

\* What the handler owes when it ends in a traceback.
Excused(c, i) ==
    outcome = "traceback" =>
        /\ exc \in Unhandled
        /\ exc = "validation" => Escaped(c, i)
        /\ exc = "oserror" => Abandoned

\* The handler ends the command.
LEMMA HandlerEnds ==
    ASSUME NEW c \in Commands, NEW i \in Int, cmd' = c, pc' = i, mode' = c.mode,
           outcome' \in {"error", "traceback"}, i \in 1 .. Len(Program(c)) + 1,
           failTo' \in FailureStates, phase' = "done", pending' \subseteq AllPaths,
           journalError' \in BOOLEAN, Journal!TypeOK', incidents' \in 0 .. MaxIncidents,
           RecordsInv', FailureIsTold', Excused(c, i)'
    PROVE  IInv'
<1>1. TypeOK'
  BY DEF TypeOK, Ended
<1>2. PlaceInv'
  BY DEF PlaceInv, Handling
<1>3. QuietInv'
  BY DEF QuietInv
<1>4. Here' = Program(c)[i]
  BY DEF Here
<1>5. OnlyKnownErrorsEscape'
  <2>1. outcome' = "traceback" =>
          /\ exc' = "validation" => Escaped(c, i)'
          /\ exc' = "oserror" => Abandoned'
          /\ exc' \in {"validation", "oserror"}
    BY DEF Excused, Unhandled
  <2>2. ValidationErrorsAreKnown'
    BY <1>4, <2>1 DEF ValidationErrorsAreKnown, Escaped
  <2>3. EscapesEndNothingElse'
    BY <2>1 DEF EscapesEndNothingElse, Escaped, Abandoned
  <2> QED
    BY <2>1, <2>2, <2>3 DEF OnlyKnownErrorsEscape, Abandoned
<1>6. EndInv'
  BY <1>5 DEF EndInv, SuccessIsAudited
<1> QED
  BY <1>1, <1>2, <1>3, <1>6 DEF IInv

\* A traceback out of the handler leaves a running manifest and a history that
\* misses the failed transition.
LEMMA LostEscapes ==
    ASSUME Journal!TypeOK, NEW c \in Commands, NEW i \in 1 .. ProgramEnd(c), Lost(c, i), manifest' = manifest,
           NEW f \in FailureStates,
           \A k \in DOMAIN events' : (k \in DOMAIN events /\ events'[k] = events[k]) \/ events'[k].to = f
    PROVE  Escaped(c, i)'
<1> DEFINE a == Program(c)[i].arg
<1>1. /\ Program(c)[i].op = "transition" /\ state = a
      /\ \A k \in DOMAIN events : Rank[events[k].to] < Rank[state]
      /\ manifest.status = "running"
  BY DEF Lost
<1>2. state \in WorkflowState /\ Rank[state] \in Nat
  BY JournalTypes, Ranks
<1>3. a \in ProgressStates
  <2>1. <<StageAt(c, i), a>> \in JournalEdges
    BY <1>1, StepsFit DEF Fits, Moves
  <2> QED
    BY <2>1, Edges
<1>4. a # f
  BY <1>3 DEF ProgressStates, FailureStates
<1>5. \A k \in DOMAIN events : events[k].to # a
  BY <1>1, <1>2
<1>6. \A k \in DOMAIN events' : events'[k].to # a
  BY <1>4, <1>5
<1> QED
  BY <1>1, <1>6 DEF Escaped

\* What the handler writes while the history is good brings the manifest at most
\* to the state of the failed transition.
LEMMA KnownMoves ==
    ASSUME NEW c \in Commands, NEW i \in 1 .. ProgramEnd(c), Known(c, i), Sound',
           UNCHANGED <<state, status>>, manifest' = manifest \/ manifest' = Journal!Projection'
    PROVE  Known(c, i)' /\ MayBecome(c, manifest, manifest') /\ manifest'.status # "failed"
<1>1. /\ state = StageAt(c, i) \/ (Program(c)[i].op = "transition" /\ state = Program(c)[i].arg)
      /\ manifest.status = "running" /\ manifest.state \in {StageAt(c, i), state} /\ status = "running"
  BY DEF Known, Sound
<1>2. manifest' = Journal!Projection' => manifest'.state = state /\ manifest'.status = "running"
  BY <1>1 DEF Journal!Projection
<1>3. Known(c, i)' /\ manifest'.status # "failed"
  BY <1>1, <1>2 DEF Known
<1>4. manifest'.status = manifest.status
  BY <1>1, <1>2
<1>5. ASSUME manifest'.state # manifest.state PROVE MayBecome(c, manifest, manifest')
  <2>1. /\ manifest'.state = state /\ manifest'.status = "running" /\ manifest.state = StageAt(c, i)
        /\ Program(c)[i].op = "transition" /\ state = Program(c)[i].arg
    BY <1>1, <1>2, <1>5
  <2>2. /\ <<StageAt(c, i), state>> \in JournalEdges /\ StageAt(c, i) # c.goal
        /\ state \notin (IF c.mode = "sarif" THEN ScanBranch ELSE IngestBranch)
    BY <2>1, StepsFit DEF Fits, Moves
  <2>3. ManifestAllows(StageAt(c, i), state) /\ state \in ProgressStates
    BY <2>2, Edges
  <2> QED
    BY <1>1, <2>1, <2>2, <2>3 DEF MayBecome
<1>6. ASSUME manifest'.state = manifest.state PROVE MayBecome(c, manifest, manifest')
  BY <1>4, <1>6 DEF MayBecome
<1> QED
  BY <1>3, <1>5, <1>6

\* The handler records or writes a file.
Rescue(p, io) == Journal!WriteArtifact(p, io) \/ Journal!RecordExisting(p, io)

\* A file that the handler records or writes: the history stays as good as it
\* was, and an exception no one catches shows that an event is missing.
LEMMA HandlerRecords ==
    ASSUME IInv, Handling, phase \in {"record", "write_error"}, NEW c, c = cmd, NEW i, i = pc,
           NEW p \in AllPaths, NEW io, Rescue(p, io)
    PROVE  /\ Journal!TypeOK' /\ RecordsInv' /\ manifest'.status # "failed"
           /\ MayBecome(c, manifest, manifest') /\ call' = "idle" /\ mode' = c.mode
           /\ Known(c, i) => Known(c, i)' /\ exc' # "validation"
           /\ Lost(c, i) => Lost(c, i)' /\ exc' # "none"
           /\ Over(c, i) => Finished(c, i)' /\ exc' = "evitriage"
           /\ exc' = "validation" => Escaped(c, i)'
           /\ exc' = "oserror" => io # "none" /\ manifest'.status = "running"
           /\ exc' \in {"none", "evitriage", "validation", "oserror"}
<1>1. c = cmd /\ i = pc
  OBVIOUS
<1>2. /\ c \in Commands /\ mode = c.mode /\ i \in 1 .. ProgramEnd(c) /\ AtHandler(c, i)
      /\ failTo \in FailureStates /\ Journal!TypeOK /\ RecordsInv /\ manifest.status # "failed"
  BY <1>1, HandlerSetting
<1>3. /\ UNCHANGED <<mode, state, status, events, log, torn, sealed, call, late>>
      /\ call = "idle" /\ exc' \in {"none", "evitriage", "validation", "oserror"}
      /\ artifacts' = artifacts \/ (Grown(p) /\ status = "running")
      /\ manifest' = manifest \/ manifest' = Journal!Projection'
      /\ exc' = "none" => status = "running" /\ manifest' = Journal!Projection'
      /\ status # "running" => exc' = "evitriage" /\ UNCHANGED <<artifacts, manifest, files>>
      /\ exc' = "oserror" => io # "none"
  <2>1. Recording(p, io)
    BY DEF Rescue, Recording
  <2>2. status # "running" => exc' = "evitriage"
    BY DEF Rescue, Journal!WriteArtifact, Journal!RecordExisting, Journal!Refuse, Journal!Stop,
       Journal!Early
  <2> QED
    BY <1>2, <2>1, <2>2, RecordingEffect
<1>4. Journal!TypeOK'
  BY <1>2, RecordingTypes DEF Rescue
<1>5. RecordsInv'
  <2>1. /\ \A k \in DOMAIN artifacts' : artifacts'[k].digest # "absent"
        /\ HasParsed(artifacts) => HasParsed(artifacts')
    <3>1. CASE artifacts' = artifacts
      BY <1>2, <3>1 DEF RecordsInv
    <3>2. CASE Grown(p)
      <4>1. files'[p] # "absent"
        BY <3>2 DEF Grown
      <4>2. /\ HasParsed(artifacts) => HasParsed(artifacts')
            /\ \A k \in DOMAIN artifacts : artifacts'[k] = artifacts[k]
            /\ \A k \in DOMAIN artifacts' :
                 \/ k \in DOMAIN artifacts
                 \/ artifacts'[k].path = p /\ artifacts'[k].digest = files'[p]
        BY <1>2, <3>2, GrownRecords
      <4> QED
        BY <1>2, <4>1, <4>2 DEF RecordsInv
    <3> QED
      BY <1>3, <3>1, <3>2
  <2>2. Reached(events', "SCANNED") => Reached(events, "SCANNED")
    BY <1>3
  <2> QED
    BY <1>2, <1>3, <2>1, <2>2, RecordsKept
<1>6. ASSUME Known(c, i)
      PROVE  /\ Known(c, i)' /\ exc' # "validation" /\ manifest'.status = "running"
             /\ MayBecome(c, manifest, manifest')
  <2>1. Sound
    BY <1>6 DEF Known
  <2>2. Sound' /\ exc' # "validation"
    <3>1. Recording(p, io)
      BY DEF Rescue, Recording
    <3> QED
      BY <1>2, <2>1, <3>1, SoundRecording
  <2>3. Known(c, i)' /\ MayBecome(c, manifest, manifest')
    BY <1>2, <1>3, <1>6, <2>2, KnownMoves
  <2> QED
    BY <2>2, <2>3 DEF Known
<1>7. ASSUME Lost(c, i)
      PROVE  /\ Lost(c, i)' /\ exc' # "none" /\ manifest'.status = "running"
             /\ MayBecome(c, manifest, manifest')
             /\ exc' = "validation" => Escaped(c, i)'
  <2>1. LostHistory
    BY <1>7 DEF Lost, LostHistory
  <2>2. manifest' = manifest /\ manifest.status = "running"
    <3>1. Recording(p, io)
      BY DEF Rescue, Recording
    <3> QED
      BY <1>2, <1>7, <2>1, <3>1, LostRecording DEF Lost
  <2>3. Lost(c, i)'
    BY <1>3, <1>7, <2>2 DEF Lost
  <2>4. exc' # "none"
    <3>1. SUFFICES ASSUME exc' = "none" PROVE FALSE
      OBVIOUS
    <3>2. manifest.state = StageAt(c, i) /\ state = Program(c)[i].arg /\ Program(c)[i].op = "transition"
      BY <1>7 DEF Lost
    <3>3. manifest'.state = state'
      BY <1>3, <3>1 DEF Journal!Projection
    <3>4. <<StageAt(c, i), Program(c)[i].arg>> \in JournalEdges
      BY <1>2, <3>2, StepsFit DEF Fits, Moves
    <3>5. Rank[StageAt(c, i)] < Rank[Program(c)[i].arg] /\ Rank[StageAt(c, i)] \in Nat
      BY <3>4, Edges
    <3>6. StageAt(c, i) = Program(c)[i].arg
      BY <1>3, <2>2, <3>2, <3>3
    <3> QED
      BY <3>5, <3>6
  <2>5. Escaped(c, i)'
    <3>1. \A k \in DOMAIN events' : (k \in DOMAIN events /\ events'[k] = events[k]) \/ events'[k].to = failTo
      BY <1>3
    <3> QED
      BY <1>2, <1>7, <2>2, <3>1, LostEscapes
  <2> QED
    BY <1>2, <2>2, <2>3, <2>4, <2>5 DEF MayBecome
<1>8. ASSUME Over(c, i)
      PROVE  /\ Finished(c, i)' /\ exc' = "evitriage" /\ manifest'.status # "failed"
             /\ MayBecome(c, manifest, manifest')
  <2>1. exc' = "evitriage" /\ UNCHANGED manifest
    BY <1>3, <1>8 DEF Over
  <2> QED
    BY <1>2, <1>3, <1>8, <2>1 DEF Over, Finished, MayBecome
<1>9. Known(c, i) \/ Lost(c, i) \/ Over(c, i)
  BY <1>2 DEF AtHandler
<1> QED
  BY <1>2, <1>3, <1>4, <1>5, <1>6, <1>7, <1>8, <1>9

\* The handler records a file that CodeQL left.
LEMMA RecordPartialStep ==
    ASSUME IInv, NEW io, RecordPartial(io), NEW c, c = cmd, NEW i, i = pc
    PROVE  IInv' /\ MayBecome(c, manifest, manifest')
<1>1. c = cmd /\ i = pc /\ phase = "record" /\ Handling /\ Budget(io)
  BY DEF RecordPartial, Handling
<1>2. PICK p \in pending : Journal!RecordExisting(p, io) /\ pending' = pending \ {p}
  BY DEF RecordPartial
<1>3. /\ c \in Commands /\ mode = c.mode /\ i \in 1 .. ProgramEnd(c) /\ AtHandler(c, i)
      /\ outcome = "pending" /\ failTo \in Program(c)[i].handler /\ failTo \in FailureStates
      /\ pending \subseteq AllPaths /\ journalError \in BOOLEAN
      /\ Journal!TypeOK /\ RecordsInv /\ incidents \in 0 .. MaxIncidents
      /\ incidents = 0 => Quiet(c, i)
      /\ i \in 1 .. Len(Program(c)) + 1 /\ i \in Int
  BY <1>1, HandlerSetting
<1>4. p \in AllPaths /\ Recording(p, io) /\ Rescue(p, io)
  BY <1>2, <1>3 DEF Recording, Rescue
<1>5. /\ Journal!TypeOK' /\ RecordsInv' /\ manifest'.status # "failed"
      /\ MayBecome(c, manifest, manifest') /\ call' = "idle" /\ mode' = c.mode
      /\ Known(c, i) => Known(c, i)' /\ exc' # "validation"
      /\ Lost(c, i) => Lost(c, i)' /\ exc' # "none"
      /\ exc' = "validation" => Escaped(c, i)'
      /\ exc' = "oserror" => io # "none" /\ manifest'.status = "running"
  BY <1>1, <1>4, HandlerRecords
<1>6. /\ UNCHANGED <<cmd, pc, failTo, journalError>> /\ pending' \subseteq AllPaths
      /\ cmd' = c /\ pc' = i /\ journalError' \in BOOLEAN
  BY <1>1, <1>2, <1>3 DEF RecordPartial
<1>7. incidents' \in 0 .. MaxIncidents /\ (incidents' = 0 => incidents = 0 /\ io = "none")
      /\ (io # "none" => incidents' > 0)
  BY <1>1, <1>3, BudgetKeeps
<1>8. CASE exc' \in Unhandled
  <2>1. phase' = "done" /\ outcome' = "traceback"
    BY <1>8 DEF RecordPartial, Exit
  <2>2. FailureIsTold'
    BY <1>5, <2>1 DEF FailureIsTold, FailureNamesItsStage, FailureIsRecordedOrAdmitted,
       UndisturbedFailureIsFinal
  <2>3. Excused(c, i)'
    BY <1>5, <1>7, <1>8 DEF Excused, Abandoned, Unhandled
  <2>4. IInv'
    BY <1>3, <1>5, <1>6, <1>7, <2>1, <2>2, <2>3, HandlerEnds
  <2> QED
    BY <1>5, <2>4
<1>9. CASE exc' \notin Unhandled
  <2>1. /\ phase' = IF pending' = {} THEN "write_error" ELSE "record"
        /\ outcome' = "pending" /\ phase' \in {"list", "record", "write_error", "fail", "failing"}
    BY <1>3, <1>9 DEF RecordPartial
  <2>2. AtHandler(c, i)'
    <3>1. Known(c, i) \/ Lost(c, i)
      BY <1>1, <1>3 DEF AtHandler, Over
    <3>2. Known(c, i)' \/ Lost(c, i)'
      BY <1>5, <3>1
    <3>3. phase' # "list" /\ phase' # "failing"
      BY <2>1
    <3> QED
      BY <1>3, <1>5, <1>6, <3>2, <3>3 DEF AtHandler
  <2>3. ASSUME incidents' = 0 PROVE Quiet(c, i)'
    <3>1. incidents = 0 /\ io = "none" /\ Quiet(c, i)
      BY <1>3, <1>7, <2>3
    <3>2. /\ Matching /\ ~journalError /\ files[ErrorReport] = "absent" /\ Known(c, i)
          /\ Accounted(pending \cup {RunMetadata})
          /\ \A q \in pending : files[q] # "absent" /\ q \notin Journal!Registered
      BY <1>1, <3>1 DEF Quiet
    <3>3. exc' = "none" /\ Grown(p)
      <4>1. Sound
        BY <3>2 DEF Known
      <4>2. Journal!RecordExisting(p, "none")
        BY <1>2, <3>1
      <4> QED
        BY <1>2, <1>3, <1>4, <3>2, <4>1, <4>2, QuietRecordingWorks
    <3>4. Journal!Registered' = Journal!Registered \cup {p}
      BY <1>3, <3>3, GrownRecords
    <3>5. /\ Matching'
          /\ \A q \in AllPaths :
               files'[q] # "absent" => files[q] # "absent" \/ q \in Journal!Registered'
      <4>1. Recording(p, "none")
        BY <1>4, <3>1
      <4>2. \A k \in DOMAIN artifacts : artifacts[k].digest # "absent"
        BY <1>3 DEF RecordsInv
      <4> QED
        BY <1>3, <1>4, <3>2, <4>1, <4>2, QuietRecording
    <3>6. \A q \in AllPaths : files'[q] = files[q]
      <4>1. \A q \in AllPaths : files'[q] # files[q] => q = p /\ files[q] = "absent"
        BY <1>3, <1>4, RecordingEffect
      <4> QED
        BY <1>2, <3>2, <4>1
    <3>7. files'[ErrorReport] = "absent"
      BY <3>2, <3>6 DEF AllPaths
    <3>8. Accounted(pending \cup {RunMetadata})'
      <4>1. ASSUME NEW q \in AllPaths, files'[q] # "absent"
            PROVE  q \in Journal!Registered' \cup (pending' \cup {RunMetadata})
        <5>1. q \in Journal!Registered \cup (pending \cup {RunMetadata})
          BY <3>2, <3>6, <4>1 DEF Accounted
        <5> QED
          BY <1>2, <3>4, <5>1
      <4> QED
        BY <4>1 DEF Accounted
    <3>9. \A q \in pending' : files'[q] # "absent" /\ q \notin Journal!Registered'
      BY <1>2, <1>3, <3>2, <3>4, <3>6
    <3>10. Known(c, i)' /\ ~journalError'
      BY <1>5, <1>6, <3>2
    <3>11. CASE pending' = {}
      <4>1. Accounted({RunMetadata})'
        <5>1. pending' \cup {RunMetadata} = {RunMetadata}
          BY <3>11
        <5> QED
          BY <3>8, <5>1
      <4>2. phase' = "write_error"
        BY <2>1, <3>11
      <4> QED
        BY <3>5, <3>7, <3>10, <4>1, <4>2 DEF Quiet
    <3>12. CASE pending' # {}
      <4>1. phase' = "record"
        BY <2>1, <3>12
      <4> QED
        BY <3>5, <3>7, <3>8, <3>9, <3>10, <4>1 DEF Quiet
    <3> QED
      BY <3>11, <3>12
  <2>4. IInv'
    <3>1. failTo' \in FailureStates /\ phase' \notin {"fail", "failing"}
      BY <1>3, <1>6, <2>1
    <3> QED
      BY <1>3, <1>5, <1>6, <1>7, <2>1, <2>2, <2>3, <3>1, HandlerGoesOn
  <2> QED
    BY <1>5, <2>4
<1> QED
  BY <1>8, <1>9

\* The handler lists what CodeQL left.
LEMMA ListPartialStep ==
    ASSUME IInv, NEW io, ListPartial(io), NEW c, c = cmd, NEW i, i = pc
    PROVE  IInv' /\ MayBecome(c, manifest, manifest')
<1> DEFINE found == {p \in ToSet(ToolLogs) \cup {ScanSarif} : files[p] # "absent" /\ p \notin Journal!Registered}
<1>1. c = cmd /\ i = pc /\ phase = "list" /\ Handling /\ Budget(io)
  BY DEF ListPartial, Handling
<1>2. \/ io = "uncaught" /\ exc' = "oserror" /\ phase' = "done" /\ outcome' = "traceback"
           /\ pending' = pending
      \/ ~Journal!ValidManifest(Journal!Projection) /\ exc' = "validation"
           /\ phase' = "done" /\ outcome' = "traceback" /\ pending' = pending
      \/ phase' = "write_error" /\ pending' = pending /\ outcome' = outcome /\ exc' = exc
           /\ (io = "list_refused" \/ found = {})
      \/ phase' = "record" /\ pending' = found /\ outcome' = outcome /\ exc' = exc
  BY DEF ListPartial, Exit
<1>3. /\ UNCHANGED <<mode, state, status, events, artifacts, log, torn, manifest, sealed, call, late>>
      /\ UNCHANGED <<files, cmd, pc, failTo, journalError>>
  BY DEF ListPartial, JournalUnchanged
<1> HIDE DEF found
<1>4. /\ c \in Commands /\ mode = c.mode /\ i \in 1 .. ProgramEnd(c) /\ AtHandler(c, i)
      /\ outcome = "pending" /\ failTo \in Program(c)[i].handler /\ failTo \in FailureStates
      /\ pending \subseteq AllPaths /\ journalError \in BOOLEAN
      /\ Journal!TypeOK /\ RecordsInv /\ incidents \in 0 .. MaxIncidents
      /\ incidents = 0 => Quiet(c, i)
      /\ manifest.status # "failed"
      /\ i \in 1 .. Len(Program(c)) + 1 /\ i \in Int
  BY <1>1, HandlerSetting
<1>5. /\ c.mode # "sarif" /\ call = "idle" /\ (Known(c, i) \/ Lost(c, i))
  BY <1>1, <1>4 DEF AtHandler, Over
<1>6. incidents' \in 0 .. MaxIncidents /\ (incidents' = 0 => incidents = 0 /\ io = "none")
      /\ (io # "none" => incidents' > 0)
  BY <1>1, <1>4, BudgetKeeps
<1>7. Journal!TypeOK'
  BY <1>2, <1>3, <1>4 DEF Journal!TypeOK, Journal!Registered, Journal!PathsIn
<1>8. RecordsInv'
  BY <1>3, <1>4 DEF RecordsInv, Reached, HasParsed
<1>9. /\ Known(c, i) => Known(c, i)'
      /\ Lost(c, i) => Lost(c, i)'
  BY <1>3 DEF Known, Lost, Sound
<1>10. /\ mode' = c.mode /\ cmd' = c /\ pc' = i /\ failTo' \in FailureStates
       /\ journalError' \in BOOLEAN /\ manifest'.status # "failed"
       /\ MayBecome(c, manifest, manifest')
  BY <1>1, <1>3, <1>4 DEF MayBecome
<1>11. /\ found \subseteq AllPaths
       /\ \A p \in found : files[p] # "absent" /\ p \notin Journal!Registered
  <2>1. InputEnd(c) < ProgramEnd(c) /\ ProgramEnd(c) \in Int /\ InputEnd(c) \in Int
    BY <1>4, Early, Numbers
  <2>2. ToolOutput \subseteq Written(c, ProgramEnd(c))
    BY <1>4, <1>5, <2>1, ScanIsWritten
  <2>3. ToolOutput \subseteq AllPaths
    BY <1>4, <2>2, WrittenPaths
  <2> QED
    BY <2>3 DEF ToolOutput, found
<1>12. CASE phase' = "done"
  <2>1. /\ outcome' = "traceback" /\ pending' = pending
        /\ \/ io = "uncaught" /\ exc' = "oserror"
           \/ ~Journal!ValidManifest(Journal!Projection) /\ exc' = "validation"
    BY <1>2, <1>12
  <2>2. ASSUME exc' = "validation" PROVE Escaped(c, i)'
    <3>1. Lost(c, i)
      BY <1>5, <2>1, <2>2, SoundIsValid DEF Known
    <3>2. \A k \in DOMAIN events' : (k \in DOMAIN events /\ events'[k] = events[k]) \/ events'[k].to = failTo
      BY <1>3
    <3> QED
      BY <1>3, <1>4, <3>1, <3>2, LostEscapes
  <2>3. Excused(c, i)'
    <3>1. manifest'.status = "running"
      BY <1>3, <1>5 DEF Known, Lost, Sound
    <3> QED
      BY <1>6, <2>1, <2>2, <3>1 DEF Excused, Abandoned, Unhandled
  <2>4. FailureIsTold'
    BY <1>10, <2>1 DEF FailureIsTold, FailureNamesItsStage, FailureIsRecordedOrAdmitted,
       UndisturbedFailureIsFinal
  <2>5. IInv'
    BY <1>4, <1>6, <1>7, <1>8, <1>10, <1>12, <2>1, <2>3, <2>4, HandlerEnds
  <2> QED
    BY <1>10, <2>5
<1>13. CASE phase' # "done"
  <2>1. /\ phase' \in {"write_error", "record"} /\ outcome' = "pending"
        /\ pending' \in {pending, found}
        /\ phase' = "record" => pending' = found
        /\ phase' = "write_error" => io = "list_refused" \/ found = {}
    BY <1>2, <1>4, <1>13
  <2>2. AtHandler(c, i)'
    BY <1>3, <1>4, <1>5, <1>9, <2>1 DEF AtHandler
  <2>3. ASSUME incidents' = 0 PROVE Quiet(c, i)'
    <3>1. incidents = 0 /\ io = "none" /\ Quiet(c, i)
      BY <1>4, <1>6, <2>3
    <3>2. /\ Matching /\ ~journalError /\ files[ErrorReport] = "absent" /\ Known(c, i)
          /\ Accounted(ToolOutput)
      BY <1>1, <3>1 DEF Quiet, Handling
    <3>3. Journal!Registered' = Journal!Registered
      BY <1>3 DEF Journal!Registered, Journal!PathsIn
    <3>4. Matching' /\ ~journalError' /\ files'[ErrorReport] = "absent" /\ Known(c, i)'
      BY <1>3, <1>9, <3>2 DEF Matching
    <3>5. \A q \in AllPaths : files'[q] # "absent" => q \in Journal!Registered' \cup found \cup {RunMetadata}
      BY <1>3, <3>2, <3>3 DEF Accounted, ToolOutput, found
    <3>6. CASE phase' = "write_error"
      <4>1. found = {}
        BY <2>1, <3>1, <3>6
      <4>2. Accounted({RunMetadata})'
        BY <3>5, <4>1 DEF Accounted
      <4> QED
        BY <3>4, <3>6, <4>2 DEF Quiet
    <3>7. CASE phase' = "record"
      <4>1. pending' = found
        BY <2>1, <3>7
      <4>2. Accounted(pending \cup {RunMetadata})'
        BY <3>5, <4>1 DEF Accounted
      <4>3. \A p \in pending' : files'[p] # "absent" /\ p \notin Journal!Registered'
        BY <1>3, <1>11, <3>3, <4>1
      <4> QED
        BY <3>4, <3>7, <4>2, <4>3 DEF Quiet
    <3> QED
      BY <2>1, <3>6, <3>7
  <2>4. pending' \subseteq AllPaths
    BY <1>4, <1>11, <2>1
  <2>5. IInv'
    BY <1>4, <1>6, <1>7, <1>8, <1>10, <2>1, <2>2, <2>3, <2>4, HandlerGoesOn
  <2> QED
    BY <1>10, <2>5
<1> QED
  BY <1>12, <1>13

\* The handler writes the error report.
LEMMA WriteErrorStep ==
    ASSUME IInv, NEW io, WriteError(io), NEW c, c = cmd, NEW i, i = pc
    PROVE  IInv' /\ MayBecome(c, manifest, manifest')
<1>1. c = cmd /\ i = pc /\ phase = "write_error" /\ Handling /\ Budget(io)
      /\ Journal!WriteArtifact(ErrorReport, io)
  BY DEF WriteError, Handling
<1>2. /\ c \in Commands /\ mode = c.mode /\ i \in 1 .. ProgramEnd(c) /\ AtHandler(c, i)
      /\ outcome = "pending" /\ failTo \in Program(c)[i].handler /\ failTo \in FailureStates
      /\ pending \subseteq AllPaths /\ journalError \in BOOLEAN
      /\ Journal!TypeOK /\ RecordsInv /\ incidents \in 0 .. MaxIncidents
      /\ incidents = 0 => Quiet(c, i)
      /\ i \in 1 .. Len(Program(c)) + 1 /\ i \in Int
  BY <1>1, HandlerSetting
<1>3. ErrorReport \in AllPaths /\ Recording(ErrorReport, io) /\ Rescue(ErrorReport, io)
  BY <1>1 DEF Recording, Rescue, AllPaths
<1>4. /\ Journal!TypeOK' /\ RecordsInv' /\ manifest'.status # "failed"
      /\ MayBecome(c, manifest, manifest') /\ call' = "idle" /\ mode' = c.mode
      /\ Known(c, i) => Known(c, i)' /\ exc' # "validation"
      /\ Lost(c, i) => Lost(c, i)' /\ exc' # "none"
      /\ Over(c, i) => Finished(c, i)' /\ exc' = "evitriage"
      /\ exc' = "validation" => Escaped(c, i)'
      /\ exc' = "oserror" => io # "none" /\ manifest'.status = "running"
      /\ exc' \in {"none", "evitriage", "validation", "oserror"}
  BY <1>1, <1>3, HandlerRecords
<1>5. /\ UNCHANGED <<cmd, pc, failTo, pending>> /\ pending' \subseteq AllPaths
      /\ journalError' = (journalError \/ exc' = "evitriage")
      /\ cmd' = c /\ pc' = i /\ failTo' \in FailureStates
  BY <1>1, <1>2 DEF WriteError
<1>6. journalError' \in BOOLEAN
  BY <1>5
<1>7. incidents' \in 0 .. MaxIncidents /\ (incidents' = 0 => incidents = 0 /\ io = "none")
      /\ (io # "none" => incidents' > 0)
  BY <1>1, <1>2, BudgetKeeps
<1>8. CASE exc' \in Unhandled
  <2>1. phase' = "done" /\ outcome' = "traceback"
    BY <1>8 DEF WriteError, Exit
  <2>2. FailureIsTold'
    BY <1>4, <2>1 DEF FailureIsTold, FailureNamesItsStage, FailureIsRecordedOrAdmitted,
       UndisturbedFailureIsFinal
  <2>3. Excused(c, i)'
    BY <1>4, <1>7, <1>8 DEF Excused, Abandoned, Unhandled
  <2>4. IInv'
    BY <1>2, <1>4, <1>5, <1>6, <1>7, <2>1, <2>2, <2>3, HandlerEnds
  <2> QED
    BY <1>4, <2>4
<1>9. CASE exc' \notin Unhandled
  <2>1. phase' = "fail" /\ outcome' = "pending"
    BY <1>2, <1>9 DEF WriteError
  <2>2. AtHandler(c, i)'
    <3>1. Known(c, i)' \/ Lost(c, i)' \/ Finished(c, i)'
      BY <1>2, <1>4 DEF AtHandler
    <3>2. Known(c, i)' \/ Lost(c, i)' \/ Over(c, i)'
      BY <2>1, <3>1 DEF Over, Finished
    <3> QED
      BY <1>2, <1>4, <1>5, <2>1, <3>2 DEF AtHandler
  <2>3. ASSUME exc' = "none" PROVE ErrorReport \in Journal!Registered'
    <3>1. RecordingCall("write", ErrorReport, io)
      BY <1>1 DEF RecordingCall
    <3>2. "write" \in Writing
      BY DEF Writing
    <3>3. Grown(ErrorReport)
      BY <1>2, <1>3, <2>3, <3>1, <3>2, RecordingGrows
    <3> QED
      BY <1>2, <3>3, GrownRecords
  <2>4. phase' \in {"fail", "failing"} /\ ~journalError' => ErrorReport \in Journal!Registered'
    BY <1>4, <1>5, <1>9, <2>3 DEF Unhandled
  <2>5. ASSUME incidents' = 0 PROVE Quiet(c, i)'
    <3>1. incidents = 0 /\ io = "none" /\ Quiet(c, i)
      BY <1>2, <1>7, <2>5
    <3>2. /\ Matching /\ ~journalError /\ files[ErrorReport] = "absent" /\ Known(c, i)
          /\ Accounted({RunMetadata})
      BY <1>1, <3>1 DEF Quiet, Handling
    <3>3. ErrorReport \notin Journal!Registered
      <4>1. \A k \in DOMAIN artifacts : artifacts[k].path # ErrorReport
        BY <1>2, <3>2 DEF Matching, RecordsInv
      <4> QED
        BY <4>1 DEF Journal!Registered, Journal!PathsIn
    <3>4. exc' = "none"
      <4>1. Sound /\ Journal!WriteArtifact(ErrorReport, "none")
        BY <1>1, <3>1, <3>2 DEF Known
      <4> QED
        BY <1>2, <1>3, <3>2, <3>3, <4>1, QuietRecordingWorks
    <3>5. /\ Matching' /\ Journal!Registered \subseteq Journal!Registered'
          /\ \A q \in AllPaths :
               files'[q] # "absent" => files[q] # "absent" \/ q \in Journal!Registered'
      <4>1. Recording(ErrorReport, "none")
        BY <1>3, <3>1
      <4>2. \A k \in DOMAIN artifacts : artifacts[k].digest # "absent"
        BY <1>2 DEF RecordsInv
      <4> QED
        BY <1>2, <1>3, <3>2, <4>1, <4>2, QuietRecording
    <3>6. Accounted({RunMetadata})'
      BY <3>2, <3>5 DEF Accounted
    <3>7. ~journalError' /\ Known(c, i)'
      BY <1>4, <1>5, <3>2, <3>4
    <3> QED
      BY <2>1, <3>5, <3>6, <3>7 DEF Quiet
  <2>6. IInv'
    BY <1>2, <1>4, <1>5, <1>6, <1>7, <2>1, <2>2, <2>4, <2>5, HandlerGoesOn
  <2> QED
    BY <1>4, <2>6
<1> QED
  BY <1>8, <1>9

\* The handler asks the journal to fail the run.
LEMMA FailCheckStep ==
    ASSUME IInv, NEW io, FailCheck(io), NEW c, c = cmd, NEW i, i = pc
    PROVE  IInv' /\ MayBecome(c, manifest, manifest')
<1>1. c = cmd /\ i = pc /\ phase = "fail" /\ Handling /\ Budget(io) /\ Journal!FailVerify(failTo, io)
  BY DEF FailCheck, Handling
<1>2. /\ c \in Commands /\ mode = c.mode /\ i \in 1 .. ProgramEnd(c) /\ AtHandler(c, i)
      /\ outcome = "pending" /\ failTo \in Program(c)[i].handler /\ failTo \in FailureStates
      /\ pending \subseteq AllPaths /\ journalError \in BOOLEAN
      /\ Journal!TypeOK /\ RecordsInv /\ incidents \in 0 .. MaxIncidents
      /\ incidents = 0 => Quiet(c, i)
      /\ manifest.status # "failed"
      /\ ~journalError => ErrorReport \in Journal!Registered
      /\ i \in 1 .. Len(Program(c)) + 1 /\ i \in Int
  BY <1>1, HandlerSetting
<1>3. /\ UNCHANGED <<mode, state, status, events, artifacts, log, torn, manifest, files, sealed, late>>
      /\ exc' = "none" => call' = failTo /\ status = "running"
      /\ exc' \in {"none", "evitriage", "oserror"} /\ (io = "none" => exc' # "oserror")
      /\ status # "running" => exc' = "evitriage"
      /\ Sound /\ Matching /\ io = "none" => exc' = "none"
  BY <1>1, FailVerifyEffect
<1>4. Journal!TypeOK'
  BY <1>1, <1>2, EndingTypes
<1>5. RecordsInv'
  BY <1>2, <1>3 DEF RecordsInv, Reached, HasParsed
<1>6. /\ UNCHANGED <<cmd, pc, failTo, pending>> /\ pending' \subseteq AllPaths
      /\ journalError' = (journalError \/ exc' = "evitriage")
      /\ cmd' = c /\ pc' = i /\ failTo' \in FailureStates /\ mode' = c.mode
      /\ manifest'.status # "failed" /\ MayBecome(c, manifest, manifest')
  BY <1>1, <1>2, <1>3 DEF FailCheck, MayBecome
<1>7. journalError' \in BOOLEAN
  BY <1>6
<1>8. incidents' \in 0 .. MaxIncidents /\ (incidents' = 0 => incidents = 0 /\ io = "none")
      /\ (io # "none" => incidents' > 0)
  BY <1>1, <1>2, BudgetKeeps
<1>9. ASSUME incidents' = 0
      PROVE  /\ Matching /\ ~journalError /\ Known(c, i) /\ Accounted({RunMetadata})
             /\ exc' = "none"
  <2>1. incidents = 0 /\ io = "none" /\ Quiet(c, i)
    BY <1>2, <1>8, <1>9
  <2>2. Matching /\ ~journalError /\ Known(c, i) /\ Accounted({RunMetadata})
    BY <1>1, <2>1 DEF Quiet
  <2>3. Sound
    BY <2>2 DEF Known
  <2> QED
    BY <1>3, <2>1, <2>2, <2>3
<1>10. CASE exc' # "none"
  <2>1. /\ phase' = "done" /\ outcome' = IF exc' \in Unhandled THEN "traceback" ELSE "error"
        /\ outcome' \in {"error", "traceback"} /\ (outcome' = "error" => journalError')
    BY <1>3, <1>6, <1>10 DEF FailCheck, Exit, Unhandled
  <2>2. incidents' # 0
    BY <1>9, <1>10
  <2>3. FailureIsTold'
    BY <1>6, <2>1, <2>2 DEF FailureIsTold, FailureNamesItsStage, FailureIsRecordedOrAdmitted,
       UndisturbedFailureIsFinal
  <2>4. Excused(c, i)'
    <3>1. ASSUME exc' = "oserror" PROVE manifest'.status = "running" /\ incidents' > 0
      BY <1>2, <1>3, <1>8, <3>1 DEF AtHandler, Known, Lost, Over, Sound
    <3> QED
      BY <1>3, <2>1, <3>1 DEF Excused, Abandoned, Unhandled
  <2>5. IInv'
    BY <1>2, <1>4, <1>5, <1>6, <1>7, <1>8, <2>1, <2>3, <2>4, HandlerEnds
  <2> QED
    BY <1>6, <2>5
<1>11. CASE exc' = "none"
  <2>1. phase' = "failing" /\ outcome' = "pending" /\ call' = failTo /\ journalError' = journalError
    <3>1. phase' = "failing" /\ outcome' = "pending" /\ call' = failTo
      BY <1>2, <1>3, <1>11 DEF FailCheck
    <3>2. journalError' = journalError
      BY <1>2, <1>6, <1>11
    <3> QED
      BY <3>1, <3>2
  <2>2. Known(c, i)' \/ Lost(c, i)'
    <3>1. Known(c, i) \/ Lost(c, i)
      BY <1>2, <1>3, <1>11 DEF AtHandler, Over
    <3> QED
      BY <1>3, <3>1 DEF Known, Lost, Sound
  <2>3. AtHandler(c, i)'
    BY <1>2, <1>6, <2>1, <2>2 DEF AtHandler
  <2>4. Journal!Registered' = Journal!Registered
    BY <1>3 DEF Journal!Registered, Journal!PathsIn
  <2>5. ASSUME incidents' = 0 PROVE Quiet(c, i)'
    <3>1. Matching /\ ~journalError /\ Known(c, i) /\ Accounted({RunMetadata})
      BY <1>9, <2>5
    <3>2. Matching' /\ Known(c, i)'
      BY <1>3, <3>1 DEF Matching, Known, Sound
    <3>3. Accounted({RunMetadata})'
      BY <1>3, <2>4, <3>1 DEF Accounted
    <3> QED
      BY <2>1, <3>1, <3>2, <3>3 DEF Quiet
  <2>6. phase' \in {"fail", "failing"} /\ ~journalError' => ErrorReport \in Journal!Registered'
    BY <1>2, <2>1, <2>4
  <2>7. IInv'
    BY <1>2, <1>4, <1>5, <1>6, <1>7, <1>8, <2>1, <2>3, <2>5, <2>6, HandlerGoesOn
  <2> QED
    BY <1>6, <2>7
<1> QED
  BY <1>3, <1>10, <1>11

\* The failed transition of a sound history names the stage it came from.
LEMMA FailureStage ==
    ASSUME NEW c \in Commands, NEW i \in 1 .. ProgramEnd(c), Known(c, i), mode = c.mode,
           NEW f \in Program(c)[i].handler
    PROVE  state \in StagesOf(f) /\ (f = "CODEQL_FAILED" => mode # "sarif") /\ f \in FailureStates
<1>1. Handles(c, i, Program(c)[i])
  BY StepsFit DEF Fits
<1>2. state = StageAt(c, i) \/ (Program(c)[i].op = "transition" /\ state = Program(c)[i].arg)
  BY DEF Known
<1> QED
  BY <1>1, <1>2 DEF Handles

\* What a failed run leaves when its history was sound.
LEMMA FailedIsTold ==
    ASSUME IInv, phase = "failing", NEW io, Journal!FailCommit(io), Budget(io), NEW c, c = cmd, NEW i, i = pc,
           Known(c, i), UNCHANGED <<cmd, pc, failTo, pending>>,
           outcome' = IF exc' \in Unhandled THEN "traceback" ELSE "error",
           journalError' = (journalError \/ exc' = "evitriage")
    PROVE  /\ FailureIsTold' /\ RecordsInv' /\ MayBecome(c, manifest, manifest') /\ mode' = c.mode
           /\ exc' # "validation" /\ (exc' = "oserror" => Abandoned')
<1>1. c = cmd /\ i = pc /\ phase = "failing" /\ Handling
  BY DEF Handling
<1>2. /\ c \in Commands /\ mode = c.mode /\ i \in 1 .. ProgramEnd(c) /\ AtHandler(c, i)
      /\ failTo \in Program(c)[i].handler /\ failTo \in FailureStates /\ failTo # "none"
      /\ Journal!TypeOK /\ RecordsInv /\ incidents \in 0 .. MaxIncidents
      /\ incidents = 0 => Quiet(c, i)
      /\ ~journalError => ErrorReport \in Journal!Registered
      /\ manifest.status # "failed" /\ journalError \in BOOLEAN
  BY <1>1, HandlerSetting
<1>3. call = failTo /\ Sound
  BY <1>1, <1>2 DEF AtHandler, Known
<1>4. state \in StagesOf(failTo) /\ (failTo = "CODEQL_FAILED" => mode # "sarif")
  BY <1>2, FailureStage
<1>5. /\ UNCHANGED <<mode, artifacts, files, late>>
      /\ state' = failTo /\ status' = "failed" /\ exc' \in {"none", "evitriage", "oserror"}
      /\ \/ manifest' = manifest
         \/ manifest' = Journal!Projection' /\ Last(events').from = state /\ events' = log' /\ ~torn'
      /\ Journal!Registered \subseteq sealed'
      /\ exc' = "none" =>
           manifest' = Journal!Projection' /\ Journal!Registered \subseteq sealed'
             /\ Last(log').to = failTo
      /\ io = "none" => exc' = "none"
      /\ \A k \in DOMAIN events' : (k \in DOMAIN events /\ events'[k] = events[k]) \/ events'[k].to = failTo
  BY <1>2, <1>3, <1>4, FailCommitEffect
<1>6. manifest' = Journal!Projection' =>
        /\ manifest'.state = failTo /\ manifest'.status = "failed"
        /\ manifest'.events = events' /\ manifest'.artifacts = artifacts
        /\ Journal!PathsIn(manifest'.artifacts) = Journal!Registered
  BY <1>5 DEF Journal!Projection, Journal!Registered
<1>7. (incidents' = 0 => incidents = 0 /\ io = "none") /\ (io # "none" => incidents' > 0)
  BY <1>1, <1>2, BudgetKeeps
<1>8. FailureNamesItsStage'
  BY <1>2, <1>4, <1>5, <1>6 DEF FailureNamesItsStage
<1>9. FailureIsRecordedOrAdmitted'
  <2>1. ASSUME ~journalError', outcome' = "error" PROVE exc' = "none" /\ ErrorReport \in Journal!Registered
    BY <1>2, <1>5, <2>1 DEF Unhandled
  <2> QED
    BY <1>2, <1>5, <1>6, <2>1 DEF FailureIsRecordedOrAdmitted
<1>10. UndisturbedFailureIsFinal'
  <2>1. SUFFICES ASSUME incidents' = 0
                 PROVE  /\ manifest'.status = "failed" /\ manifest'.state = failTo
                        /\ Last(log').to = failTo /\ ~journalError'
                        /\ {p \in AllPaths : files'[p] # "absent"} \ {RunMetadata}
                             \subseteq Journal!PathsIn(manifest'.artifacts)
    BY DEF UndisturbedFailureIsFinal
  <2>2. io = "none" /\ Quiet(c, i) /\ exc' = "none"
    BY <1>2, <1>5, <1>7, <2>1
  <2>3. ~journalError /\ Accounted({RunMetadata})
    BY <1>1, <2>2 DEF Quiet
  <2>4. ~journalError'
    BY <2>2, <2>3
  <2>5. \A p \in AllPaths : files'[p] # "absent" => p \in Journal!Registered \/ p = RunMetadata
    BY <1>5, <2>3 DEF Accounted
  <2> QED
    BY <1>5, <1>6, <2>2, <2>4, <2>5
<1>11. RecordsInv'
  <2>1. Reached(events', "SCANNED") => Reached(events, "SCANNED")
    <3>1. failTo # "SCANNED"
      BY <1>2 DEF FailureStates
    <3> QED
      BY <1>5, <3>1 DEF Reached
  <2>2. /\ \A k \in DOMAIN artifacts' : artifacts'[k].digest # "absent"
        /\ HasParsed(artifacts) => HasParsed(artifacts')
    BY <1>2, <1>5 DEF RecordsInv
  <2> QED
    BY <1>2, <1>5, <2>1, <2>2, RecordsKept
<1>12. MayBecome(c, manifest, manifest')
  <2>1. manifest.status = "running"
    BY DEF Known
  <2> QED
    BY <1>2, <1>4, <1>5, <1>6, <2>1 DEF MayBecome
<1>13. ASSUME exc' = "oserror" PROVE Abandoned'
  <2>1. manifest.status = "running" /\ incidents' > 0
    BY <1>5, <1>7, <1>13 DEF Known
  <2> QED
    BY <1>2, <1>5, <1>6, <2>1 DEF Abandoned
<1> QED
  BY <1>2, <1>5, <1>8, <1>9, <1>10, <1>11, <1>12, <1>13 DEF FailureIsTold

\* The handler seals the failed run.
LEMMA FailFinishStep ==
    ASSUME IInv, NEW io, FailFinish(io), NEW c, c = cmd, NEW i, i = pc
    PROVE  IInv' /\ MayBecome(c, manifest, manifest')
<1>1. /\ c = cmd /\ i = pc /\ phase = "failing" /\ Handling /\ Budget(io)
      /\ \/ Journal!FailCommit(io)
         \/ \E n \in 0 .. Len(artifacts) : Journal!SealRefused(n, io)
      /\ phase' = "done" /\ outcome' = IF exc' \in Unhandled THEN "traceback" ELSE "error"
      /\ journalError' = (journalError \/ exc' = "evitriage")
      /\ UNCHANGED <<cmd, pc, failTo, pending>>
  BY DEF FailFinish, Handling, Exit
<1>2. /\ c \in Commands /\ mode = c.mode /\ i \in 1 .. ProgramEnd(c) /\ AtHandler(c, i)
      /\ outcome = "pending" /\ failTo \in Program(c)[i].handler /\ failTo \in FailureStates
      /\ pending \subseteq AllPaths /\ journalError \in BOOLEAN
      /\ Journal!TypeOK /\ RecordsInv /\ incidents \in 0 .. MaxIncidents
      /\ incidents = 0 => Quiet(c, i)
      /\ manifest.status # "failed"
      /\ i \in 1 .. Len(Program(c)) + 1 /\ i \in Int
  BY <1>1, HandlerSetting
<1>3. Journal!TypeOK'
  BY <1>1, <1>2, EndingTypes
<1>4. /\ cmd' = c /\ pc' = i /\ failTo' \in FailureStates /\ pending' \subseteq AllPaths
      /\ journalError' \in BOOLEAN
  BY <1>1, <1>2
<1>5. incidents' \in 0 .. MaxIncidents /\ (incidents' = 0 => incidents = 0 /\ io = "none")
      /\ (io # "none" => incidents' > 0)
  BY <1>1, <1>2, BudgetKeeps
<1>6. outcome' \in {"error", "traceback"}
  BY <1>1
<1>7. call = failTo /\ (Known(c, i) \/ Lost(c, i))
  BY <1>1, <1>2 DEF AtHandler, Over
<1>8. CASE \E n \in 0 .. Len(artifacts) : Journal!SealRefused(n, io)
  <2>1. PICK n \in 0 .. Len(artifacts) : Journal!SealRefused(n, io)
    BY <1>8
  <2>2. /\ UNCHANGED <<mode, state, status, events, artifacts, log, torn, manifest, files, late>>
        /\ exc' \in {"evitriage", "oserror"} /\ io # "none"
    BY <2>1, SealRefusedEffect
  <2>3. (outcome' = "error" => journalError') /\ incidents' # 0 /\ incidents' > 0
    BY <1>1, <1>5, <2>2 DEF Unhandled
  <2>4. FailureIsTold'
    BY <1>2, <2>2, <2>3 DEF FailureIsTold, FailureNamesItsStage, FailureIsRecordedOrAdmitted,
       UndisturbedFailureIsFinal
  <2>5. RecordsInv' /\ mode' = c.mode /\ MayBecome(c, manifest, manifest')
    BY <1>2, <2>2 DEF RecordsInv, Reached, HasParsed, MayBecome
  <2>6. Excused(c, i)'
    <3>1. manifest'.status = "running"
      BY <1>7, <2>2 DEF Known, Lost, Sound
    <3> QED
      BY <1>1, <2>2, <2>3, <3>1 DEF Excused, Abandoned, Unhandled
  <2>7. IInv'
    BY <1>1, <1>2, <1>3, <1>4, <1>5, <1>6, <2>4, <2>5, <2>6, HandlerEnds
  <2> QED
    BY <2>5, <2>7
<1>9. ASSUME Journal!FailCommit(io), Known(c, i) PROVE IInv' /\ MayBecome(c, manifest, manifest')
  <2>1. /\ FailureIsTold' /\ RecordsInv' /\ MayBecome(c, manifest, manifest') /\ mode' = c.mode
        /\ exc' # "validation" /\ (exc' = "oserror" => Abandoned')
    BY <1>1, <1>9, FailedIsTold
  <2>2. Excused(c, i)'
    BY <1>1, <2>1 DEF Excused
  <2>3. IInv'
    BY <1>1, <1>2, <1>3, <1>4, <1>5, <1>6, <2>1, <2>2, HandlerEnds
  <2> QED
    BY <2>1, <2>3
<1>10. ASSUME Journal!FailCommit(io), ~Known(c, i) PROVE IInv' /\ MayBecome(c, manifest, manifest')
  <2>1. Lost(c, i) /\ LostHistory
    BY <1>7, <1>10 DEF Lost, LostHistory
  <2>2. /\ UNCHANGED <<mode, artifacts, files, late, manifest>>
        /\ exc' \in {"evitriage", "validation"}
        /\ \A k \in DOMAIN events' : (k \in DOMAIN events /\ events'[k] = events[k]) \/ events'[k].to = failTo
    BY <1>2, <1>7, <1>10, <2>1, LostFailCommit
  <2>3. incidents' # 0
    BY <1>1, <1>2, <1>5, <1>10 DEF Quiet
  <2>4. (outcome' = "error" => journalError') /\ (outcome' = "traceback" => exc' = "validation")
    BY <1>1, <2>2 DEF Unhandled
  <2>5. FailureIsTold'
    BY <1>2, <2>2, <2>3, <2>4 DEF FailureIsTold, FailureNamesItsStage,
       FailureIsRecordedOrAdmitted, UndisturbedFailureIsFinal
  <2>6. RecordsInv' /\ mode' = c.mode /\ MayBecome(c, manifest, manifest')
    <3>1. failTo # "SCANNED"
      BY <1>2 DEF FailureStates
    <3>2. Reached(events', "SCANNED") => Reached(events, "SCANNED")
      BY <2>2, <3>1 DEF Reached
    <3>3. RecordsInv'
      BY <1>2, <2>2, <3>2 DEF RecordsInv, HasParsed
    <3> QED
      BY <1>2, <2>2, <3>3 DEF MayBecome
  <2>7. Escaped(c, i)'
    BY <1>2, <2>1, <2>2, LostEscapes
  <2>8. Excused(c, i)'
    BY <2>4, <2>7 DEF Excused, Unhandled
  <2>9. IInv'
    BY <1>1, <1>2, <1>3, <1>4, <1>5, <1>6, <2>5, <2>6, <2>8, HandlerEnds
  <2> QED
    BY <2>6, <2>9
<1> QED
  BY <1>1, <1>8, <1>9, <1>10

-----------------------------------------------------------------------------
(* The environment, and the whole command. *)

\* The process is killed.
LEMMA KillStep ==
    ASSUME IInv, Kill, NEW c, c = cmd, NEW i, i = pc
    PROVE  IInv' /\ MayBecome(c, manifest, manifest')
<1>1. TypeOK /\ RecordsInv /\ EndInv
  BY DEF IInv
<1>2. /\ UNCHANGED <<mode, state, status, events, artifacts, log, torn, manifest, sealed, call, late>>
      /\ UNCHANGED <<files, exc, cmd, pc, failTo, pending, journalError, incidents>>
      /\ phase' = "done" /\ outcome' = "killed"
  BY DEF Kill, JournalUnchanged, Exit
<1>3. Journal!TypeOK'
  BY <1>1, <1>2 DEF TypeOK, Journal!TypeOK
<1>4. TypeOK'
  BY <1>1, <1>2, <1>3 DEF TypeOK, Ended
<1>5. PlaceInv' /\ QuietInv'
  BY <1>2 DEF PlaceInv, QuietInv, Handling
<1>6. RecordsInv'
  BY <1>1, <1>2 DEF RecordsInv, Reached, HasParsed
<1>7. FailureNamesItsStage'
  BY <1>1, <1>2 DEF EndInv, FailureIsTold, FailureNamesItsStage
<1>8. EndInv'
  BY <1>2, <1>7 DEF EndInv, SuccessIsAudited, FailureIsTold, FailureIsRecordedOrAdmitted,
     UndisturbedFailureIsFinal, OnlyKnownErrorsEscape, ValidationErrorsAreKnown, EscapesEndNothingElse
<1> QED
  BY <1>2, <1>4, <1>5, <1>6, <1>8 DEF IInv, MayBecome

\* A file is changed from outside.
LEMMA DisturbStep ==
    ASSUME IInv, Disturb, NEW c, c = cmd, NEW i, i = pc
    PROVE  IInv' /\ MayBecome(c, manifest, manifest')
<1>1. TypeOK /\ PlaceInv /\ RecordsInv /\ EndInv
  BY DEF IInv
<1>2. PICK p \in AllPaths : Journal!Alter(p)
  BY DEF Disturb
<1>3. /\ UNCHANGED <<mode, state, status, events, artifacts, log, torn, manifest, sealed, call, exc>>
      /\ UNCHANGED <<cmd, pc, phase, failTo, pending, journalError, outcome>>
      /\ outcome = "pending" /\ incidents' = incidents + 1 /\ incidents < MaxIncidents
  BY <1>2 DEF Disturb, commandVars, Journal!Alter
<1>4. Journal!TypeOK'
  BY <1>1, <1>2, EndingTypes DEF TypeOK
<1>5. incidents' \in 0 .. MaxIncidents /\ incidents' # 0
  <2>1. incidents \in 0 .. MaxIncidents /\ MaxIncidents \in Nat
    BY <1>1, PipelineAssumption DEF TypeOK
  <2> QED
    BY <1>3, <2>1
<1>6. TypeOK'
  BY <1>1, <1>3, <1>4, <1>5 DEF TypeOK, Ended
<1>7. /\ InTime' <=> InTime
      /\ Unopened' <=> Unopened
      /\ Journal!Registered' = Journal!Registered
      /\ HasParsed(artifacts') <=> HasParsed(artifacts)
      /\ \A d \in Commands, k \in Int : Known(d, k) => Known(d, k)'
      /\ \A d \in Commands, k \in Int : Lost(d, k) => Lost(d, k)'
      /\ \A d \in Commands, k \in Int : Over(d, k) => Over(d, k)'
  BY <1>3 DEF InTime, Unopened, Sound, Journal!Projection, Journal!NoManifest, Journal!Registered,
     Journal!PathsIn, HasParsed, Known, Lost, Over
<1>8. PlaceInv'
  <2>1. SUFFICES ASSUME NEW d \in Commands, NEW k \in Int, cmd' = d, pc' = k
                 PROVE  /\ phase' = "run" => AtStep(d, k)'
                        /\ phase' = "completing" => AtCompletion(d, k)'
                        /\ Handling' => AtHandler(d, k)'
    BY DEF PlaceInv
  <2>2. /\ phase = "run" => AtStep(d, k)
        /\ phase = "completing" => AtCompletion(d, k)
        /\ Handling => AtHandler(d, k)
    BY <1>1, <1>3, <2>1 DEF PlaceInv
  <2>3. AtStep(d, k) => AtStep(d, k)'
    BY <1>3, <1>7 DEF AtStep
  <2>4. AtCompletion(d, k) => AtCompletion(d, k)'
    BY <1>3, <1>7 DEF AtCompletion
  <2>5. AtHandler(d, k) => AtHandler(d, k)'
    BY <1>3, <1>7 DEF AtHandler
  <2>6. Handling' <=> Handling
    BY <1>3 DEF Handling
  <2> QED
    BY <1>3, <2>2, <2>3, <2>4, <2>5, <2>6
<1>9. RecordsInv'
  BY <1>1, <1>3 DEF RecordsInv, Reached, HasParsed
<1>10. QuietInv'
  BY <1>5 DEF QuietInv
<1>11. FailureNamesItsStage'
  BY <1>1, <1>3 DEF EndInv, FailureIsTold, FailureNamesItsStage
<1>12. EndInv'
  BY <1>1, <1>3, <1>7, <1>11 DEF EndInv, SuccessIsAudited, FailureIsTold, FailureIsRecordedOrAdmitted,
     UndisturbedFailureIsFinal, OnlyKnownErrorsEscape, ValidationErrorsAreKnown, EscapesEndNothingElse
<1> QED
  BY <1>3, <1>6, <1>8, <1>9, <1>10, <1>12 DEF IInv, MayBecome

\* Before the first step.
LEMMA InitialInvariant == Init => IInv
<1> SUFFICES ASSUME Init PROVE IInv
  OBVIOUS
<1>1. PICK c \in Commands : cmd = c /\ mode = c.mode
  BY DEF Init
<1>2. /\ c.mode \in {"sarif", "scan"} /\ ProgramEnd(c) > 7 /\ Len(Program(c)) = ProgramEnd(c)
      /\ PrepEnd(c) \in Int /\ PrepEnd(c) >= 7 /\ InputEnd(c) \in Int /\ ProgramEnd(c) \in Int
      /\ c.mode # "sarif" => InputEnd(c) - 3 > PrepEnd(c) + 2
      /\ StageAt(c, 1) = "CREATED"
  BY Layout, Early, Numbers, CommandKinds
<1>3. /\ state = "CREATED" /\ status = "running" /\ events = <<>> /\ artifacts = <<>> /\ log = <<>>
      /\ torn = FALSE /\ manifest = Journal!NoManifest /\ sealed = {} /\ call = "new" /\ exc = "none"
      /\ late = {} /\ pc = 1 /\ phase = "run" /\ failTo = "none" /\ pending = {}
      /\ journalError = FALSE /\ outcome = "pending" /\ incidents = 0
      /\ files = [p \in AllPaths |-> IF p \in {Descriptor, ResolvedSpec} THEN "original" ELSE "absent"]
  BY DEF Init
<1>4. /\ DOMAIN artifacts = {} /\ DOMAIN events = {} /\ artifacts = <<>>
      /\ manifest.status = "none" /\ DOMAIN manifest.events = {} /\ DOMAIN manifest.artifacts = {}
  BY <1>3 DEF Journal!NoManifest
<1>5. Journal!TypeOK
  <2>1. mode \in Journal!Modes
    BY <1>1, <1>2 DEF Journal!Modes
  <2>2. state \in Journal!WorkflowState
    BY <1>3 DEF Journal!WorkflowState, Journal!ProgressStates
  <2>3. /\ events \in Seq(Journal!Event) /\ log \in Seq(Journal!Event)
        /\ artifacts \in Seq(Journal!ArtifactRecord)
    BY <1>3
  <2>4. manifest \in [state : Journal!WorkflowState, status : {"none", "running", "completed", "failed"},
                      events : Seq(Journal!Event), artifacts : Seq(Journal!ArtifactRecord)]
    BY <1>3, <2>2, <2>3 DEF Journal!NoManifest
  <2>5. files \in [AllPaths -> Journal!Contents]
    BY <1>3 DEF Journal!Contents
  <2> QED
    BY <1>3, <2>1, <2>2, <2>3, <2>4, <2>5 DEF Journal!TypeOK
<1>6. TypeOK
  <2>1. pc \in 1 .. Len(Program(c)) + 1
    BY <1>2, <1>3
  <2>2. incidents \in 0 .. MaxIncidents
    BY <1>3, PipelineAssumption
  <2>3. /\ phase = "run" /\ failTo = "none" /\ pending = {} /\ journalError = FALSE
        /\ outcome = "pending"
    BY <1>3
  <2>4. cmd \in Commands /\ mode = cmd.mode /\ pc \in 1 .. Len(Program(cmd)) + 1
    BY <1>1, <2>1
  <2>5. (phase = "done") = Ended
    BY <2>3 DEF Ended
  <2> QED
    BY <1>5, <2>2, <2>3, <2>4, <2>5 DEF TypeOK
<1>7. AtStep(c, 1)
  <2>1. Unopened
    BY <1>3 DEF Unopened
  <2>2. 1 \in 1 .. ProgramEnd(c) /\ ~(c.mode # "sarif" /\ 1 > InputEnd(c) - 2)
    BY <1>2
  <2> QED
    BY <1>2, <1>3, <2>1, <2>2 DEF AtStep
<1>8. PlaceInv
  BY <1>1, <1>3, <1>7 DEF PlaceInv, Handling
<1>9. RecordsInv
  BY <1>4 DEF RecordsInv, Reached
<1>10. Quiet(c, 1)
  <2>1. Matching /\ ~journalError
    BY <1>3, <1>4 DEF Matching
  <2>2. files[ErrorReport] = "absent"
    BY <1>3 DEF AllPaths, ErrorReport, Descriptor, ResolvedSpec
  <2>3. Accounted(Initial \cup Left(c, 1))
    BY <1>3 DEF Accounted, Initial
  <2> QED
    BY <1>3, <2>1, <2>2, <2>3 DEF Quiet, Handling
<1>11. QuietInv
  BY <1>1, <1>3, <1>10 DEF QuietInv
<1>12. EndInv
  BY <1>3, <1>4 DEF EndInv, SuccessIsAudited, FailureIsTold, FailureNamesItsStage,
     FailureIsRecordedOrAdmitted, UndisturbedFailureIsFinal, OnlyKnownErrorsEscape,
       ValidationErrorsAreKnown, EscapesEndNothingElse
<1> QED
  BY <1>6, <1>8, <1>9, <1>11, <1>12 DEF IInv

\* Nothing happens.
LEMMA Stutter ==
    ASSUME IInv, UNCHANGED vars
    PROVE  IInv'
<1>1. TypeOK'
  BY DEF IInv, TypeOK, Journal!TypeOK, Ended, vars
<1>2. /\ InTime' <=> InTime
      /\ Unopened' <=> Unopened
      /\ Journal!Registered' = Journal!Registered
      /\ HasParsed(artifacts') <=> HasParsed(artifacts)
      /\ Matching' <=> Matching
      /\ Handling' <=> Handling
      /\ \A d \in Commands, k \in Int : Known(d, k) <=> Known(d, k)'
      /\ \A d \in Commands, k \in Int : Lost(d, k) => Lost(d, k)'
      /\ \A d \in Commands, k \in Int : Over(d, k) => Over(d, k)'
  BY DEF InTime, Unopened, Sound, Journal!Projection, Journal!NoManifest, Journal!Registered,
     Journal!PathsIn, HasParsed, Known, Lost, Over, Matching, Handling, vars
<1>3. PlaceInv'
  <2>1. SUFFICES ASSUME NEW d \in Commands, NEW k \in Int, cmd' = d, pc' = k
                 PROVE  /\ phase' = "run" => AtStep(d, k)'
                        /\ phase' = "completing" => AtCompletion(d, k)'
                        /\ Handling' => AtHandler(d, k)'
    BY DEF PlaceInv
  <2>2. /\ phase = "run" => AtStep(d, k)
        /\ phase = "completing" => AtCompletion(d, k)
        /\ Handling => AtHandler(d, k)
    BY <2>1 DEF IInv, PlaceInv, vars
  <2>3. AtStep(d, k) => AtStep(d, k)'
    BY <1>2 DEF AtStep, vars
  <2>4. AtCompletion(d, k) => AtCompletion(d, k)'
    BY <1>2 DEF AtCompletion, vars
  <2>5. AtHandler(d, k) => AtHandler(d, k)'
    BY <1>2 DEF AtHandler, vars
  <2>6. phase' = phase
    BY DEF vars
  <2> QED
    BY <1>2, <2>2, <2>3, <2>4, <2>5, <2>6
<1>4. RecordsInv'
  BY DEF IInv, RecordsInv, Reached, HasParsed, vars
<1>5. QuietInv'
  <2>1. SUFFICES ASSUME NEW d \in Commands, NEW k \in Int, cmd' = d, pc' = k, incidents' = 0, phase' # "done"
                 PROVE  Quiet(d, k)'
    BY DEF QuietInv
  <2>2. Quiet(d, k)
    BY <2>1 DEF IInv, QuietInv, vars
  <2>3. \A rest : Accounted(rest) => \A q \in AllPaths : files'[q] # "absent" => q \in Journal!Registered' \cup rest
    BY <1>2 DEF Accounted, vars
  <2>4. UNCHANGED <<files, phase, journalError, pending>>
    BY DEF vars
  <2> QED
    BY <1>2, <2>2, <2>3, <2>4 DEF Quiet, Accounted
<1>6. FailureNamesItsStage'
  BY DEF IInv, EndInv, FailureIsTold, FailureNamesItsStage, vars
<1>7. SuccessIsAudited' /\ FailureIsRecordedOrAdmitted' /\ UndisturbedFailureIsFinal' /\ OnlyKnownErrorsEscape'
  BY DEF IInv, EndInv, SuccessIsAudited, FailureIsTold, FailureIsRecordedOrAdmitted,
     UndisturbedFailureIsFinal, OnlyKnownErrorsEscape, ValidationErrorsAreKnown, EscapesEndNothingElse,
     Journal!PathsIn, Here, vars
<1>8. EndInv'
  BY <1>2, <1>6, <1>7 DEF IInv, EndInv, FailureIsTold, vars
<1> QED
  BY <1>1, <1>3, <1>4, <1>5, <1>8 DEF IInv

\* The command line does not change.
LEMMA SameCommand == [Next]_vars => UNCHANGED cmd
<1> SUFFICES ASSUME [Next]_vars PROVE UNCHANGED cmd
  OBVIOUS
<1>1. CASE Work
  BY <1>1 DEF Work
<1>2. CASE Scan
  BY <1>2 DEF Scan
<1>3. CASE CheckSarif
  BY <1>3 DEF CheckSarif
<1>4. ASSUME NEW io, Command(io) PROVE UNCHANGED cmd
  BY <1>4 DEF Command, JournalStep, CompleteCheck, CompleteFinish, ListPartial, RecordPartial,
     WriteError, FailCheck, FailFinish
<1>5. CASE Kill
  BY <1>5 DEF Kill
<1>6. CASE Disturb
  BY <1>6 DEF Disturb, commandVars
<1>7. CASE UNCHANGED vars
  BY <1>7 DEF vars
<1> QED
  BY <1>1, <1>2, <1>3, <1>4, <1>5, <1>6, <1>7 DEF Next, Proceed

\* Every step keeps the invariant and moves the manifest as a run may.
LEMMA EveryStep ==
    ASSUME IInv, [Next]_vars, NEW c, c = cmd, NEW i, i = pc
    PROVE  IInv' /\ MayBecome(c, manifest, manifest')
<1>1. CASE Work
  BY <1>1, WorkStep
<1>2. CASE Scan
  BY <1>2, ScanStep
<1>3. CASE CheckSarif
  BY <1>3, CheckStep
<1>4. ASSUME NEW io, Command(io) PROVE IInv' /\ MayBecome(c, manifest, manifest')
  <2>1. CASE JournalStep(io)
    BY <2>1, JournalStepKeeps
  <2>2. CASE CompleteCheck(io)
    BY <2>2, CompleteCheckStep
  <2>3. CASE CompleteFinish(io)
    BY <2>3, CompleteFinishStep
  <2>4. CASE ListPartial(io)
    BY <2>4, ListPartialStep
  <2>5. CASE RecordPartial(io)
    BY <2>5, RecordPartialStep
  <2>6. CASE WriteError(io)
    BY <2>6, WriteErrorStep
  <2>7. CASE FailCheck(io)
    BY <2>7, FailCheckStep
  <2>8. CASE FailFinish(io)
    BY <2>8, FailFinishStep
  <2> QED
    BY <1>4, <2>1, <2>2, <2>3, <2>4, <2>5, <2>6, <2>7, <2>8 DEF Command
<1>5. CASE Kill
  BY <1>5, KillStep
<1>6. CASE Disturb
  BY <1>6, DisturbStep
<1>7. CASE UNCHANGED vars
  <2>1. IInv'
    BY <1>7, Stutter
  <2> QED
    BY <1>7, <2>1 DEF MayBecome, vars
<1> QED
  BY <1>1, <1>2, <1>3, <1>4, <1>5, <1>6, <1>7 DEF Next, Proceed

\* The invariant is inductive, and with it the manifest moves as RunLifecycle
\* allows.
LEMMA InvariantStep ==
    IInv /\ [Next]_vars => IInv' /\ [Lifecycle!Next]_<<mode, cmd.goal, manifest.state, manifest.status>>
<1> SUFFICES ASSUME IInv, [Next]_vars
             PROVE  IInv' /\ [Lifecycle!Next]_<<mode, cmd.goal, manifest.state, manifest.status>>
  OBVIOUS
<1>1. PICK c : c = cmd
  OBVIOUS
<1>2. PICK i : i = pc
  OBVIOUS
<1>3. IInv' /\ MayBecome(c, manifest, manifest')
  BY <1>1, <1>2, EveryStep
<1>4. cmd' = c /\ cmd = c
  BY <1>1, SameCommand
<1>5. mode = c.mode /\ mode' = c.mode
  BY <1>3, <1>4 DEF IInv, TypeOK
<1>6. /\ Lifecycle!ScanBranch = ScanBranch /\ Lifecycle!IngestBranch = IngestBranch
      /\ Lifecycle!ProgressStates = ProgressStates /\ Lifecycle!FailureStates = FailureStates
      /\ \A a, b : Lifecycle!ManifestAllows(a, b) <=> ManifestAllows(a, b)
  BY DEF Lifecycle!ScanBranch, ScanBranch, Lifecycle!IngestBranch, IngestBranch,
     Lifecycle!ProgressStates, ProgressStates, Lifecycle!FailureStates, FailureStates,
     Lifecycle!ManifestAllows, ManifestAllows, Lifecycle!ManifestEdges, ManifestEdges,
     Lifecycle!JournalEdges, JournalEdges
<1> DEFINE m == manifest
           n == manifest'
           Moved == \/ n.state = m.state /\ n.status = m.status
                    \/ Lifecycle!Begin
                    \/ Lifecycle!Advance
                    \/ Lifecycle!Complete
                    \/ Lifecycle!Fail
<1>7. Moved
  <2>1. CASE n.state = m.state /\ n.status = m.status
    BY <2>1
  <2>2. CASE m.status = "none" /\ n.status = "running" /\ n.state = m.state
    BY <2>2 DEF Lifecycle!Begin
  <2>3. CASE /\ m.status = "running" /\ m.state # c.goal /\ n.status = "running"
             /\ n.state \notin (IF c.mode = "sarif" THEN ScanBranch ELSE IngestBranch)
             /\ ManifestAllows(m.state, n.state) /\ n.state \in ProgressStates
    BY <1>4, <1>5, <1>6, <2>3 DEF Lifecycle!Advance
  <2>4. CASE m.status = "running" /\ m.state = c.goal /\ n.status = "completed" /\ n.state = m.state
    BY <1>4, <2>4 DEF Lifecycle!Complete
  <2>5. CASE /\ m.status = "running" /\ n.status = "failed"
             /\ n.state \in FailureStates \ (IF c.mode = "sarif" THEN {"CODEQL_FAILED"} ELSE {})
    BY <1>5, <1>6, <2>5 DEF Lifecycle!Fail
  <2> QED
    BY <1>3, <2>1, <2>2, <2>3, <2>4, <2>5 DEF MayBecome
<1>8. UNCHANGED <<mode, cmd.goal>>
  BY <1>4, <1>5
<1> QED
  BY <1>3, <1>7, <1>8 DEF Lifecycle!Next

\* What the invariant says of the records gives what the success of a scan is
\* worth, and the rest of it is the other properties.
LEMMA InvariantImplies ==
    IInv => SuccessIsEarned /\ FailureIsTold /\ OnlyKnownErrorsEscape
  BY DEF IInv, EndInv, RecordsInv, SuccessIsEarned, ScannedSarifIsTheParsedOne, Reached, HasParsed, Parsed

\* The invariant holds throughout.
THEOREM InvariantHolds == Spec => []IInv
<1>1. Init => IInv
  BY InitialInvariant
<1>2. IInv /\ [Next]_vars => IInv'
  BY InvariantStep
<1> QED
  BY <1>1, <1>2, PTL DEF Spec

\* A command that reports success has left a completed, sealed manifest at the
\* state it was asked for, with everything its steps produce in it, and a
\* manifest past SCANNED names the SARIF bytes that the CodeQL runner parsed:
\* for any commands, any number of slices and of tool logs, and any number of
\* refused system calls and outside changes (pipeline.py:95-165, 366-372).
THEOREM SuccessEarned == Spec => []SuccessIsEarned
<1>1. IInv => SuccessIsEarned
  BY InvariantImplies
<1> QED
  BY <1>1, InvariantHolds, PTL

\* A failed manifest names the stage that failed, a reported failure of a
\* handled stage is on disk or admitted, and without a fault it is always on
\* disk, with every file of the run recorded (pipeline.py:886-971).
THEOREM FailureTold == Spec => []FailureIsTold
<1>1. IInv => FailureIsTold
  BY InvariantImplies
<1> QED
  BY <1>1, InvariantHolds, PTL

\* A traceback is a ValidationError of a command that was building the evidence
\* registry or was at a transition whose event is missing from the history, or
\* an OSError after a refused system call.  Whichever it is, the run is left
\* running, or with the end that the command was making, complete, its log
\* intact and its files read-only (cli.py's main catches EviTriageError alone).
THEOREM ErrorsEscapeAsKnown == Spec => []OnlyKnownErrorsEscape
<1>1. IInv => OnlyKnownErrorsEscape
  BY InvariantImplies
<1> QED
  BY <1>1, InvariantHolds, PTL

\* The manifest on disk goes through the life of a run, whatever fails and
\* wherever the process is killed: initial states map to initial states and
\* every step to a step of RunLifecycle or to none.
THEOREM RefinesLifecycle == Spec => ImplementsRunLifecycle
<1>1. Init => Lifecycle!Init
  <2> SUFFICES ASSUME Init PROVE Lifecycle!Init
    OBVIOUS
  <2>1. cmd \in Commands /\ mode = cmd.mode /\ manifest = Journal!NoManifest
    BY DEF Init
  <2>2. cmd.mode \in Modes /\ cmd.goal \in GoalStates
    BY <2>1, PipelineAssumption
  <2>3. manifest.state = "CREATED" /\ manifest.status = "none"
    BY <2>1 DEF Journal!NoManifest
  <2>4. Lifecycle!Modes = Modes /\ Lifecycle!GoalStates = GoalStates
    BY DEF Lifecycle!Modes, Modes, Lifecycle!GoalStates, GoalStates
  <2> QED
    BY <2>1, <2>2, <2>3, <2>4 DEF Lifecycle!Init
<1>2. IInv /\ [Next]_vars => [Lifecycle!Next]_<<mode, cmd.goal, manifest.state, manifest.status>>
  BY InvariantStep
<1> QED
  BY <1>1, <1>2, InvariantHolds, PTL DEF Spec, ImplementsRunLifecycle, Lifecycle!Spec, Lifecycle!lifecycleVars

=============================================================================
