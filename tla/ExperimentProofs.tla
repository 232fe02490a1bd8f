-------------------------- MODULE ExperimentProofs --------------------------
(***************************************************************************)
(* For any processes, manifest, baselines and rendered reports, and any    *)
(* number of stops: read-only decisions mean a finished aggregate, what is *)
(* published stays, what the artifact root says is true, and it is a       *)
(* publication.                                                            *)
(*                                                                         *)
(* The exclusive creation of the first file decides which run owns the     *)
(* root.  The owner writes every file before it freezes one, so no run     *)
(* that still writes can meet frozen decisions, and no evaluation a root   *)
(* that is still being written.                                            *)
(***************************************************************************)
EXTENDS Experiment, SequenceTheorems, FiniteSetTheorems, TLAPS

\* A run that created the first file, until its command ends.
Owns(p) == (at[p] = "finalize" /\ next[p] > 1) \/ at[p] = "freeze"

\* An evaluation that accepted the decisions.
Evaluating ==
    {"compare", "write evaluation", "seal evaluation", "open index",
     "remove index", "rewrite index", "seal index"}

\* An evaluation that has written its result.
Compared == Evaluating \ {"compare", "write evaluation"}

RootShape ==
    files \in [Names -> {"missing", "torn", "whole"}] /\ readOnly \subseteq Names

LocalShape ==
    /\ at \in [Procs -> Stations] /\ next \in [Procs -> Nat \ {0}]
    /\ todo \in [Procs -> SUBSET Names]

Finished ==
    /\ \A f \in Aggregate \ {Index} : files[f] = "whole"
    /\ files[Index] = "whole" \/ files[Evaluated] = "whole"

OneOwner == \A p, q \in Procs : Owns(p) /\ Owns(q) => p = q

WrittenInOrder ==
    \A p \in Procs : at[p] = "finalize" =>
        \A i \in DOMAIN Files : i < next[p] => files[Files[i]] = "whole"

FreezesTheFinished == \A p \in Procs : at[p] = "freeze" => Finished

FrozenIsFinished ==
    Decided \in readOnly =>
        Finished /\ \A p \in Procs : ~ (at[p] = "finalize" /\ next[p] > 1)

EvaluatesTheFrozen ==
    \A p \in Procs :
        /\ at[p] \in Evaluating => Decided \in readOnly
        /\ at[p] \in Compared => files[Evaluated] = "whole"

PublicationInv ==
    /\ RootShape /\ LocalShape /\ OneOwner /\ WrittenInOrder
    /\ FreezesTheFinished /\ FrozenIsFinished /\ EvaluatesTheFrozen

-----------------------------------------------------------------------------
(* Facts about the names *)

LEMMA Concatenation ==
  ASSUME NEW S, NEW s \in Seq(S), NEW t \in Seq(S)
  PROVE  /\ s \o t \in Seq(S) /\ Len(s \o t) = Len(s) + Len(t)
         /\ Len(s) \in Nat /\ Len(t) \in Nat
         /\ \A i \in 1 .. Len(s) : (s \o t)[i] = s[i]
         /\ Len(t) = 1 => (s \o t)[Len(s) + 1] = t[1]
  <1> DEFINE both == s \o t
  <1>1. /\ both \in Seq(S) /\ Len(both) = Len(s) + Len(t)
        /\ \A i \in 1 .. Len(s) + Len(t) :
              both[i] = IF i <= Len(s) THEN s[i] ELSE t[i - Len(s)]
    BY ConcatProperties, Zenon
  <1>2. Len(s) \in Nat /\ Len(t) \in Nat
    OBVIOUS
  <1> HIDE DEF both
  <1>3. ASSUME NEW i \in 1 .. Len(s) PROVE both[i] = s[i]
    BY <1>1, <1>2
  <1>4. ASSUME Len(t) = 1 PROVE both[Len(s) + 1] = t[1]
    <2>1. Len(s) + 1 \in 1 .. Len(s) + Len(t) /\ ~ Len(s) + 1 <= Len(s)
      BY <1>2, <1>4
    <2>2. Len(s) + 1 - Len(s) = 1
      BY <1>2
    <2> QED
      BY <1>1, <2>1, <2>2
  <1> QED
    BY <1>1, <1>2, <1>3, <1>4 DEF both

LEMMA SequenceOfFiles ==
  ASSUME NEW S, NEW a \in S, NEW b \in S, NEW c \in S, NEW d \in S, NEW e \in S,
         NEW r \in Seq(S)
  PROVE  LET s == <<a, b, c, d>> \o r \o <<e>>
         IN  /\ DOMAIN s = 1 .. Len(s) /\ Len(s) \in Nat /\ Len(s) >= 5
             /\ s[2] = b /\ s[3] = c /\ s[Len(s)] = e
  <1> DEFINE four == <<a, b, c, d>>
             one == <<e>>
             head == four \o r
             all == head \o one
  <1>1. four \in Seq(S) /\ Len(four) = 4 /\ four[2] = b /\ four[3] = c
    OBVIOUS
  <1>2. one \in Seq(S) /\ Len(one) = 1 /\ one[1] = e
    OBVIOUS
  <1>3. /\ head \in Seq(S) /\ Len(head) = Len(four) + Len(r) /\ Len(r) \in Nat
        /\ \A i \in 1 .. Len(four) : head[i] = four[i]
    <2>1. four \in Seq(S)
      BY <1>1
    <2> HIDE DEF four
    <2> QED
      BY <2>1, Concatenation
  <1> HIDE DEF four
  <1>4. Len(head) = 4 + Len(r) /\ head[2] = b /\ head[3] = c
    BY <1>1, <1>3
  <1>5. /\ all \in Seq(S) /\ Len(all) = Len(head) + Len(one)
        /\ \A i \in 1 .. Len(head) : all[i] = head[i]
        /\ Len(one) = 1 => all[Len(head) + 1] = one[1]
    <2>1. head \in Seq(S) /\ one \in Seq(S)
      BY <1>2, <1>3
    <2> HIDE DEF head, one
    <2> QED
      BY <2>1, Concatenation
  <1> HIDE DEF head, one
  <1>6. DOMAIN all = 1 .. Len(all)
    BY <1>5
  <1> HIDE DEF all
  <1>7. Len(all) = 5 + Len(r) /\ all[2] = b /\ all[3] = c /\ all[Len(all)] = e
    BY <1>2, <1>3, <1>4, <1>5
  <1> QED
    BY <1>3, <1>6, <1>7 DEF all, head, four, one

LEMMA FilesFacts ==
    /\ DOMAIN Files = 1 .. Len(Files) /\ Len(Files) \in Nat /\ Len(Files) >= 5
    /\ Decided \in Aggregate /\ Index \in Aggregate /\ Summary \in Aggregate
    /\ Evaluated \notin Aggregate /\ Aggregate \subseteq Names /\ Evaluated \in Names
    /\ Index # Decided /\ Evaluated # Decided /\ Evaluated # Index /\ Summary # Index
    /\ Files[1] \in Aggregate \ {Index}
  <1> DEFINE S == STRING \cup {"preflight.json", Summary, Decided, Historical, Index}
  <1>1. Rendered \in Seq(S) /\ Evaluated \notin Aggregate
    BY ExperimentAssumption DEF Aggregate
  <1>2. /\ DOMAIN Files = 1 .. Len(Files) /\ Len(Files) \in Nat /\ Len(Files) >= 5
        /\ Files[2] = Summary /\ Files[3] = Decided /\ Files[Len(Files)] = Index
    <2>1. /\ "preflight.json" \in S /\ Summary \in S /\ Decided \in S
          /\ Historical \in S /\ Index \in S
      OBVIOUS
    <2> HIDE DEF S
    <2> QED
      BY <1>1, <2>1, SequenceOfFiles DEF Files
  <1>3. Decided \in Aggregate /\ Index \in Aggregate /\ Summary \in Aggregate
    BY <1>2 DEF Aggregate
  <1>4. Files[1] \in Aggregate \ {Index}
    <2>1. 1 \in DOMAIN Files /\ Len(Files) \in DOMAIN Files /\ Len(Files) # 1
      BY <1>2
    <2> QED
      BY <1>2, <2>1, ExperimentAssumption DEF Aggregate
  <1> QED
    BY <1>1, <1>2, <1>3, <1>4 DEF Aggregate, Names, Index, Decided, Evaluated, Summary

LEMMA InitInv == Init => PublicationInv
  <1> SUFFICES ASSUME Init PROVE PublicationInv
    OBVIOUS
  <1>1. RootShape /\ LocalShape
    BY DEF Init, RootShape, LocalShape, Stations
  <1>2. \A p \in Procs : at[p] = "idle"
    BY DEF Init
  <1> QED
    BY <1>1, <1>2 DEF Init, PublicationInv, OneOwner, WrittenInOrder, Owns,
        FreezesTheFinished, FrozenIsFinished, EvaluatesTheFrozen, Evaluating, Compared

-----------------------------------------------------------------------------
(* What one process does to itself *)

Others(p) == \A q \in Procs \ {p} : at'[q] = at[q] /\ next'[q] = next[q]

LEMMA Ends ==
  ASSUME LocalShape, NEW p \in Procs, NEW how, End(p, how)
  PROVE  LocalShape' /\ Others(p) /\ at'[p] = "idle" /\ next'[p] = 1
  <1>1. at' \in [Procs -> Stations] /\ at'[p] = "idle"
    BY DEF LocalShape, End, Stations
  <1>2. next' \in [Procs -> Nat \ {0}] /\ next'[p] = 1
    BY DEF LocalShape, End
  <1>3. todo' \in [Procs -> SUBSET Names]
    BY DEF LocalShape, End
  <1>4. Others(p)
    BY DEF LocalShape, End, Others
  <1> QED
    BY <1>1, <1>2, <1>3, <1>4 DEF LocalShape

LEMMA Goes ==
  ASSUME LocalShape, NEW p \in Procs, NEW where \in Stations, Goto(p, where)
  PROVE  LocalShape' /\ Others(p) /\ at'[p] = where /\ next'[p] = 1
  BY DEF LocalShape, Goto, Others

LEMMA Repeats ==
  ASSUME LocalShape, NEW p \in Procs, Repeat(p)
  PROVE  LocalShape' /\ Others(p) /\ at'[p] = at[p] /\ next'[p] = next[p] + 1
  BY DEF LocalShape, Repeat, Others

\* A process that does not own the root afterwards, does not unwrite a file
\* and evaluates what it may evaluate, disturbs nothing.
LEMMA Undisturbed ==
  ASSUME PublicationInv, NEW p \in Procs, RootShape', LocalShape', Others(p),
         \A f \in Names : files[f] = "whole" => files'[f] = "whole",
         Decided \in readOnly' <=> Decided \in readOnly,
         ~ Owns(p)',
         at'[p] \in Evaluating => Decided \in readOnly,
         at'[p] \in Compared => files'[Evaluated] = "whole"
  PROVE  PublicationInv'
  <1>1. \A q \in Procs : Owns(q)' => q # p /\ Owns(q)
    BY DEF Others, Owns
  <1>2. OneOwner'
    BY <1>1 DEF PublicationInv, OneOwner
  <1>3. WrittenInOrder'
    <2> SUFFICES ASSUME NEW q \in Procs, at'[q] = "finalize",
                        NEW i \in DOMAIN Files, i < next'[q]
                 PROVE  files'[Files[i]] = "whole"
      BY DEF WrittenInOrder
    <2>1. i \in Nat \ {0} /\ Files[i] \in Names
      BY FilesFacts DEF Names
    <2>2. Owns(q)'
      BY <2>1 DEF Owns, LocalShape
    <2> QED
      BY <1>1, <2>1, <2>2 DEF PublicationInv, WrittenInOrder, Others
  <1>4. Finished => Finished'
    BY FilesFacts DEF Finished
  <1>5. FreezesTheFinished'
    BY <1>1, <1>4 DEF PublicationInv, FreezesTheFinished, Owns, Others
  <1>6. FrozenIsFinished'
    BY <1>1, <1>4 DEF PublicationInv, FrozenIsFinished, Owns, Others
  <1>7. EvaluatesTheFrozen'
    BY FilesFacts DEF PublicationInv, EvaluatesTheFrozen, Others
  <1> QED
    BY <1>2, <1>3, <1>5, <1>6, <1>7 DEF PublicationInv

LEMMA Quiet ==
  ASSUME PublicationInv, NEW p \in Procs, LocalShape', Others(p),
         UNCHANGED <<files, readOnly>>, ~ Owns(p)', at'[p] \notin Evaluating
  PROVE  PublicationInv'
  <1>1. RootShape'
    BY DEF PublicationInv, RootShape
  <1> QED
    BY <1>1, Undisturbed DEF Compared

LEMMA EndsQuietly ==
  ASSUME PublicationInv, NEW p \in Procs, NEW how, End(p, how),
         UNCHANGED <<files, readOnly>>
  PROVE  PublicationInv'
  <1>1. LocalShape' /\ Others(p) /\ at'[p] = "idle"
    BY Ends DEF PublicationInv
  <1> QED
    BY <1>1, Quiet DEF Owns, Evaluating

LEMMA GoesQuietly ==
  ASSUME PublicationInv, NEW p \in Procs, NEW where \in Stations, Goto(p, where),
         where # "freeze", where \notin Evaluating, UNCHANGED <<files, readOnly>>
  PROVE  PublicationInv'
  <1>1. LocalShape' /\ Others(p) /\ at'[p] = where /\ next'[p] = 1
    BY Goes DEF PublicationInv
  <1> QED
    BY <1>1, Quiet DEF Owns

-----------------------------------------------------------------------------
(* The steps of a run *)

\* The process creates the next file: it owns the root from now on, because
\* the first file is created only while nobody owns the root.
LEMMA Creates ==
  ASSUME PublicationInv, NEW p \in Procs, NEW f \in Names, Writes(p, f),
         files[f] = "missing", Create(p, f)
  PROVE  PublicationInv'
  <1>1. /\ files' = [files EXCEPT ![f] = "whole"] /\ UNCHANGED readOnly
        /\ LocalShape' /\ Others(p) /\ at'[p] = at[p] /\ next'[p] = next[p] + 1
    BY Repeats DEF Create, PublicationInv
  <1>2. at[p] = "finalize" /\ next[p] \in DOMAIN Files /\ f = Files[next[p]]
    BY DEF Writes
  <1>3. /\ \A g \in Names : files'[g] = IF g = f THEN "whole" ELSE files[g]
        /\ RootShape'
    BY <1>1 DEF PublicationInv, RootShape
  <1>4. next[p] \in Nat \ {0}
    BY DEF PublicationInv, LocalShape
  <1>5. \A q \in Procs : Owns(q) => q = p
    <2> SUFFICES ASSUME NEW q \in Procs, Owns(q), q # p PROVE FALSE
      OBVIOUS
    <2>1. next[p] = 1
      BY <1>2, <1>4 DEF PublicationInv, OneOwner, Owns
    <2>2. 1 \in DOMAIN Files /\ Files[1] \in Aggregate \ {Index}
      BY <1>2, <2>1, FilesFacts
    <2>3. CASE at[q] = "finalize"
      BY <1>2, <2>1, <2>2, <2>3 DEF PublicationInv, WrittenInOrder, Owns
    <2>4. CASE at[q] = "freeze"
      BY <1>2, <2>1, <2>2, <2>4 DEF PublicationInv, FreezesTheFinished, Finished
    <2> QED
      BY <2>3, <2>4 DEF Owns
  <1>6. Decided \notin readOnly
    <2> SUFFICES ASSUME Decided \in readOnly PROVE FALSE
      OBVIOUS
    <2>1. Finished /\ next[p] = 1
      BY <1>2, <1>4 DEF PublicationInv, FrozenIsFinished
    <2> QED
      BY <1>2, <2>1, FilesFacts DEF Finished
  <1>7. OneOwner'
    BY <1>1, <1>5 DEF OneOwner, Owns, Others
  <1>8. WrittenInOrder'
    <2> SUFFICES ASSUME NEW q \in Procs, at'[q] = "finalize",
                        NEW i \in DOMAIN Files, i < next'[q]
                 PROVE  files'[Files[i]] = "whole"
      BY DEF WrittenInOrder
    <2>1. i \in Nat /\ Files[i] \in Names
      BY FilesFacts DEF Names
    <2>2. at[q] = "finalize" /\ (i < next[q] \/ (q = p /\ i = next[p]))
      <3>1. CASE q = p
        BY <1>1, <1>4, <2>1, <3>1
      <3>2. CASE q # p
        BY <1>1, <3>2 DEF Others
      <3> QED
        BY <3>1, <3>2
    <2> QED
      BY <1>2, <1>3, <2>1, <2>2 DEF PublicationInv, WrittenInOrder
  <1>9. FreezesTheFinished'
    <2>1. \A q \in Procs : at'[q] # "freeze"
      BY <1>1, <1>2, <1>5 DEF Others, Owns
    <2> QED
      BY <2>1 DEF FreezesTheFinished
  <1>10. FrozenIsFinished'
    BY <1>1, <1>6 DEF FrozenIsFinished
  <1>11. EvaluatesTheFrozen'
    <2>1. \A q \in Procs : at'[q] = at[q]
      BY <1>1 DEF Others
    <2>2. files[Evaluated] = "whole" => files'[Evaluated] = "whole"
      BY <1>3, FilesFacts
    <2> QED
      BY <1>1, <2>1, <2>2 DEF PublicationInv, EvaluatesTheFrozen
  <1> QED
    BY <1>1, <1>3, <1>7, <1>8, <1>9, <1>10, <1>11 DEF PublicationInv

\* With the files of the earlier run in the way the command ends.
LEMMA MayCreate ==
  ASSUME PublicationInv, NEW p \in Procs, NEW f \in Names, Writes(p, f), Create(p, f)
  PROVE  PublicationInv'
  <1>1. CASE files[f] = "missing"
    BY <1>1, Creates
  <1>2. CASE files[f] # "missing"
    BY <1>2, EndsQuietly DEF Create
  <1> QED
    BY <1>1, <1>2

LEMMA RunSteps ==
  ASSUME PublicationInv, NEW p \in Procs, Call(p) \/ Run(p) \/ CheckRoot(p) \/ FreezeMisses(p) \/ Finish(p)
  PROVE  PublicationInv'
  <1>1. CASE Call(p)
    <2>1. LocalShape' /\ Others(p) /\ at'[p] \in {"preflight", "require"}
      BY <1>1 DEF Call, PublicationInv, LocalShape, Stations, Others
    <2> QED
      BY <1>1, <2>1, Quiet DEF Call, root, Owns, Evaluating
  <1>2. CASE Preflight(p)
    <2>1. UNCHANGED <<files, readOnly>>
      BY <1>2 DEF Preflight, root
    <2>2. ASSUME NEW how, End(p, how) PROVE PublicationInv'
      BY <2>1, <2>2, EndsQuietly
    <2>3. ASSUME NEW where \in {"recheck", "adapter", "cases"}, Goto(p, where)
          PROVE  PublicationInv'
      <3>1. where \in Stations /\ where # "freeze" /\ where \notin Evaluating
        BY DEF Stations, Evaluating
      <3> QED
        BY <2>1, <2>3, <3>1, GoesQuietly
    <2>4. CASE Repeat(p)
      <3>1. LocalShape' /\ Others(p) /\ at'[p] \in {"preflight", "recheck"}
        BY <1>2, <2>4, Repeats DEF Preflight, PublicationInv
      <3> QED
        BY <2>1, <3>1, Quiet DEF Owns, Evaluating
    <2> QED
      BY <1>2, <2>2, <2>3, <2>4 DEF Preflight, AfterPreflight
  <1>3. CASE MakeAdapter(p)
    BY <1>3, GoesQuietly DEF MakeAdapter, root, Stations, Evaluating
  <1>4. CASE RunCase(p)
    <2>1. UNCHANGED <<files, readOnly>> /\ at[p] = "cases"
      BY <1>4 DEF RunCase, root
    <2>2. CASE Goto(p, "root")
      BY <2>1, <2>2, GoesQuietly DEF Stations, Evaluating
    <2>3. CASE next' = [next EXCEPT ![p] = @ + 1] /\ UNCHANGED <<at, todo>>
      <3>1. LocalShape' /\ Others(p) /\ at'[p] = "cases"
        BY <2>1, <2>3 DEF PublicationInv, LocalShape, Others
      <3> QED
        BY <2>1, <3>1, Quiet DEF Owns, Evaluating
    <2> QED
      BY <1>4, <2>2, <2>3 DEF RunCase
  <1>5. CASE CheckRoot(p)
    <2>1. UNCHANGED <<files, readOnly>>
      BY <1>5 DEF CheckRoot, root
    <2>2. CASE End(p, "failed")
      BY <2>1, <2>2, EndsQuietly
    <2>3. CASE Goto(p, "finalize")
      BY <2>1, <2>3, GoesQuietly DEF Stations, Evaluating
    <2> QED
      BY <1>5, <2>2, <2>3 DEF CheckRoot
  <1>6. CASE FreezeMisses(p)
    BY <1>6, EndsQuietly DEF FreezeMisses, root
  <1>7. CASE Finish(p)
    BY <1>7, EndsQuietly DEF Finish, root
  <1> QED
    BY <1>1, <1>2, <1>3, <1>4, <1>5, <1>6, <1>7 DEF Run

LEMMA FinalizeSteps ==
  ASSUME PublicationInv, NEW p \in Procs, Finalize(p)
  PROVE  PublicationInv'
  <1>1. \A f \in Aggregate : f \in Names
    BY FilesFacts
  <1>2. CASE CheckRoot(p) \/ FreezeMisses(p) \/ Finish(p)
    BY <1>2, RunSteps
  <1>3. CASE WriteSummary(p)
    BY <1>1, <1>3, FilesFacts, MayCreate DEF WriteSummary
  <1>4. CASE WriteDecisions(p)
    <2>1. CASE Duplicated(p)
      BY <1>4, <2>1, EndsQuietly DEF WriteDecisions
    <2>2. CASE ~ Duplicated(p)
      BY <1>1, <1>4, <2>2, FilesFacts, MayCreate DEF WriteDecisions
    <2> QED
      BY <2>1, <2>2
  <1>5. CASE WriteHistorical(p)
    <2>1. CASE End(p, "failed") /\ UNCHANGED <<files, readOnly>>
      BY <2>1, EndsQuietly
    <2>2. CASE Writes(p, Historical) /\ Create(p, Historical)
      <3>1. Historical \in Names
        BY <2>2 DEF Writes, Names
      <3> QED
        BY <2>2, <3>1, MayCreate
    <2> QED
      BY <1>5, <2>1, <2>2 DEF WriteHistorical
  <1>6. CASE WriteOther(p)
    BY <1>6, MayCreate DEF WriteOther
  <1>7. CASE WriteIndex(p)
    BY <1>1, <1>7, FilesFacts, MayCreate DEF WriteIndex
  <1>8. CASE ListFiles(p)
    <2>1. /\ UNCHANGED <<files, readOnly>> /\ RootShape' /\ LocalShape' /\ Others(p)
          /\ at'[p] = "freeze" /\ at[p] = "finalize" /\ next[p] > Len(Files)
      <3>1. /\ UNCHANGED <<files, readOnly>> /\ RootShape' /\ at[p] = "finalize"
            /\ next[p] > Len(Files)
        BY <1>8 DEF ListFiles, root, PublicationInv, RootShape
      <3>2. at' \in [Procs -> Stations] /\ at'[p] = "freeze"
        BY <1>8 DEF ListFiles, PublicationInv, LocalShape, Stations
      <3>3. next' \in [Procs -> Nat \ {0}]
        BY <1>8 DEF ListFiles, PublicationInv, LocalShape
      <3>4. todo' \in [Procs -> SUBSET Names]
        BY <1>8 DEF ListFiles, PublicationInv, LocalShape
      <3>5. Others(p)
        BY <1>8 DEF ListFiles, PublicationInv, LocalShape, Others
      <3> QED
        BY <3>1, <3>2, <3>3, <3>4, <3>5 DEF LocalShape
    <2>2. Finished /\ Owns(p)
      <3>1. next[p] \in Nat
        BY DEF PublicationInv, LocalShape
      <3>2. \A i \in DOMAIN Files : files[Files[i]] = "whole"
        BY <2>1, <3>1, FilesFacts DEF PublicationInv, WrittenInOrder
      <3>3. \A f \in Aggregate : files[f] = "whole"
        BY <3>2 DEF Aggregate
      <3> QED
        BY <2>1, <3>1, <3>3, FilesFacts DEF Finished, Owns
    <2>3. OneOwner' /\ FreezesTheFinished'
      BY <2>1, <2>2 DEF PublicationInv, OneOwner, FreezesTheFinished, Finished, Owns, Others
    <2>4. WrittenInOrder'
      BY <2>1 DEF PublicationInv, WrittenInOrder, Others
    <2>5. FrozenIsFinished'
      BY <2>1, <2>2 DEF PublicationInv, FrozenIsFinished, Finished, Others
    <2>6. EvaluatesTheFrozen'
      BY <2>1 DEF PublicationInv, EvaluatesTheFrozen, Others, Evaluating, Compared
    <2> QED
      BY <2>1, <2>3, <2>4, <2>5, <2>6 DEF PublicationInv
  <1>9. CASE Freeze(p)
    <2>1. /\ UNCHANGED <<files, at, next>> /\ at[p] = "freeze" /\ RootShape' /\ LocalShape'
          /\ readOnly \subseteq readOnly'
      BY <1>9 DEF Freeze, PublicationInv, RootShape, LocalShape
    <2>2. Finished /\ Owns(p)
      BY <2>1 DEF PublicationInv, FreezesTheFinished, Owns
    <2>3. \A q \in Procs : ~ (at[q] = "finalize" /\ next[q] > 1)
      BY <2>1, <2>2 DEF PublicationInv, OneOwner, Owns
    <2> QED
      BY <2>1, <2>2, <2>3 DEF PublicationInv, OneOwner, WrittenInOrder, Owns,
         FreezesTheFinished, FrozenIsFinished, EvaluatesTheFrozen, Finished
  <1> QED
    BY <1>2, <1>3, <1>4, <1>5, <1>6, <1>7, <1>8, <1>9 DEF Finalize

-----------------------------------------------------------------------------
(* The steps of an evaluation, and what stops a process *)

LEMMA EvaluationSteps ==
  ASSUME PublicationInv, NEW p \in Procs, EvaluateStep(p)
  PROVE  PublicationInv'
  <1> DEFINE Grows == \A f \in Names : files[f] = "whole" => files'[f] = "whole"
  <1>1. \A where \in Evaluating : where \in Stations /\ where # "freeze" /\ where # "finalize"
    BY DEF Evaluating, Stations
  <1>2. ASSUME NEW where \in Evaluating, Goto(p, where), RootShape', Grows,
               Decided \in readOnly' <=> Decided \in readOnly, Decided \in readOnly,
               where \in Compared => files'[Evaluated] = "whole"
        PROVE  PublicationInv'
    <2>1. LocalShape' /\ Others(p) /\ at'[p] = where
      BY <1>1, <1>2, Goes DEF PublicationInv
    <2>2. ~ Owns(p)'
      BY <1>1, <2>1 DEF Owns
    <2> QED
      BY <1>2, <2>1, <2>2, Undisturbed
  <1>3. /\ at[p] \in Evaluating => Decided \in readOnly
        /\ at[p] \in Compared => files[Evaluated] = "whole"
    BY DEF PublicationInv, EvaluatesTheFrozen
  <1>4. RootShape
    BY DEF PublicationInv
  <1>5. CASE Require(p)
    <2>1. UNCHANGED <<files, readOnly>> /\ RootShape' /\ Grows
      BY <1>4, <1>5 DEF Require, root, RootShape
    <2>2. CASE End(p, "failed")
      BY <2>1, <2>2, EndsQuietly
    <2>3. CASE Decided \in readOnly /\ Goto(p, "compare")
      BY <1>2, <2>1, <2>3 DEF Evaluating, Compared
    <2> QED
      BY <1>5, <2>2, <2>3 DEF Require
  <1>6. CASE CompareLabels(p)
    <2>1. UNCHANGED <<files, readOnly>> /\ RootShape' /\ Grows /\ at[p] = "compare"
      BY <1>4, <1>6 DEF CompareLabels, root, RootShape
    <2>2. CASE End(p, "failed")
      BY <2>1, <2>2, EndsQuietly
    <2>3. CASE at' = [at EXCEPT ![p] = "write evaluation"] /\ UNCHANGED <<next, todo>>
      <3>1. LocalShape' /\ Others(p) /\ at'[p] = "write evaluation"
        BY <2>3 DEF PublicationInv, LocalShape, Stations, Others
      <3>2. Decided \in readOnly
        BY <1>3, <2>1 DEF Evaluating
      <3>3. ~ Owns(p)' /\ at'[p] \notin Compared
        BY <3>1 DEF Owns, Compared
      <3> QED
        BY <2>1, <3>1, <3>2, <3>3, Undisturbed
    <2> QED
      BY <1>6, <2>2, <2>3 DEF CompareLabels
  <1>7. CASE WriteEvaluation(p)
    <2>1. at[p] = "write evaluation" /\ UNCHANGED readOnly
      BY <1>7 DEF WriteEvaluation
    <2>2. Decided \in readOnly
      BY <1>3, <2>1 DEF Evaluating
    <2>3. CASE End(p, "failed") /\ UNCHANGED files
      BY <2>1, <2>3, EndsQuietly
    <2>4. CASE /\ Goto(p, "seal evaluation")
               /\ files' = [files EXCEPT ![Evaluated] = "whole"]
      <3>1. RootShape' /\ Grows /\ files'[Evaluated] = "whole"
        BY <1>4, <2>1, <2>4, FilesFacts DEF RootShape
      <3> QED
        BY <1>2, <2>1, <2>2, <2>4, <3>1 DEF Evaluating
    <2> QED
      BY <1>7, <2>3, <2>4 DEF WriteEvaluation
  <1>8. CASE SealEvaluation(p)
    <2>1. at[p] = "seal evaluation" /\ Goto(p, "open index") /\ UNCHANGED files
          /\ readOnly' = readOnly \cup {Evaluated}
      BY <1>8 DEF SealEvaluation
    <2>2. Decided \in readOnly /\ files'[Evaluated] = "whole"
      BY <1>3, <2>1 DEF Evaluating, Compared
    <2>3. RootShape' /\ Grows
      BY <1>4, <2>1, FilesFacts DEF RootShape
    <2> QED
      BY <1>2, <2>1, <2>2, <2>3 DEF Evaluating
  <1>9. CASE OpenIndex(p)
    <2>1. at[p] = "open index" /\ UNCHANGED files
      BY <1>9 DEF OpenIndex
    <2>2. Decided \in readOnly /\ files'[Evaluated] = "whole"
      BY <1>3, <2>1 DEF Evaluating, Compared
    <2>3. CASE End(p, "failed") /\ UNCHANGED readOnly
      BY <2>1, <2>3, EndsQuietly
    <2>4. CASE Goto(p, "remove index") /\ readOnly' = readOnly \ {Index}
      <3>1. RootShape' /\ Grows /\ Decided \in readOnly'
        BY <1>4, <2>1, <2>2, <2>4, FilesFacts DEF RootShape
      <3> QED
        BY <1>2, <2>2, <2>4, <3>1 DEF Evaluating
    <2> QED
      BY <1>9, <2>3, <2>4 DEF OpenIndex
  <1>10. CASE RemoveIndex(p)
    <2>1. /\ at[p] = "remove index" /\ Goto(p, "rewrite index")
          /\ files' = [files EXCEPT ![Index] = "missing"] /\ readOnly' = readOnly \ {Index}
      BY <1>10 DEF RemoveIndex
    <2>2. Decided \in readOnly /\ files[Evaluated] = "whole"
      BY <1>3, <2>1 DEF Evaluating, Compared
    <2>3. LocalShape' /\ Others(p) /\ at'[p] = "rewrite index"
      BY <1>1, <2>1, Goes DEF PublicationInv, Evaluating
    <2>4. /\ RootShape' /\ \A f \in Names \ {Index} : files'[f] = files[f]
      BY <1>4, <2>1 DEF RootShape
    <2>5. Finished'
      BY <2>2, <2>4, FilesFacts DEF PublicationInv, FrozenIsFinished, Finished
    <2>6. \A q \in Procs : ~ (at'[q] = "finalize" /\ next'[q] > 1)
      BY <2>2, <2>3 DEF PublicationInv, FrozenIsFinished, Others
    <2>7. WrittenInOrder'
      <3>1. \A i \in DOMAIN Files : i \in Nat /\ i >= 1
        BY FilesFacts
      <3>2. \A q \in Procs : next'[q] \in Nat
        BY <2>3 DEF LocalShape
      <3> QED
        BY <2>6, <3>1, <3>2 DEF WrittenInOrder
    <2>8. OneOwner'
      BY <2>3 DEF PublicationInv, OneOwner, Owns, Others
    <2>9. FreezesTheFinished' /\ FrozenIsFinished'
      BY <2>5, <2>6 DEF FreezesTheFinished, FrozenIsFinished
    <2>10. EvaluatesTheFrozen'
      BY <2>1, <2>2, <2>3, <2>4, FilesFacts DEF EvaluatesTheFrozen
    <2> QED
      BY <2>3, <2>4, <2>7, <2>8, <2>9, <2>10 DEF PublicationInv
  <1>11. CASE RewriteIndex(p)
    <2>1. at[p] = "rewrite index" /\ UNCHANGED readOnly
      BY <1>11 DEF RewriteIndex
    <2>2. Decided \in readOnly /\ files[Evaluated] = "whole"
      BY <1>3, <2>1 DEF Evaluating, Compared
    <2>3. CASE End(p, "failed") /\ UNCHANGED files
      BY <2>1, <2>3, EndsQuietly
    <2>4. CASE Goto(p, "seal index") /\ files' = [files EXCEPT ![Index] = "whole"]
      <3>1. RootShape' /\ Grows /\ files'[Evaluated] = "whole"
        BY <1>4, <2>1, <2>2, <2>4, FilesFacts DEF RootShape
      <3> QED
        BY <1>2, <2>1, <2>2, <2>4, <3>1 DEF Evaluating
    <2> QED
      BY <1>11, <2>3, <2>4 DEF RewriteIndex
  <1>12. CASE SealIndex(p)
    <2>1. End(p, "evaluated") /\ UNCHANGED files /\ readOnly' = readOnly \cup {Index}
      BY <1>12 DEF SealIndex
    <2>2. LocalShape' /\ Others(p) /\ at'[p] = "idle"
      BY <2>1, Ends DEF PublicationInv
    <2>3. RootShape' /\ Grows /\ (Decided \in readOnly' <=> Decided \in readOnly)
      BY <1>4, <2>1, FilesFacts DEF RootShape
    <2>4. ~ Owns(p)' /\ at'[p] \notin Evaluating /\ at'[p] \notin Compared
      BY <2>2 DEF Owns, Evaluating, Compared
    <2> QED
      BY <2>2, <2>3, <2>4, Undisturbed
  <1> QED
    BY <1>5, <1>6, <1>7, <1>8, <1>9, <1>10, <1>11, <1>12 DEF EvaluateStep

LEMMA StopStep ==
  ASSUME PublicationInv, NEW p \in Procs, Stop(p)
  PROVE  PublicationInv'
  <1>1. LocalShape' /\ Others(p) /\ at'[p] = "idle"
    BY Ends DEF Stop, PublicationInv
  <1>2. /\ \A f \in Names : files'[f] = files[f]
               \/ (files[f] = "missing" /\ files'[f] = "torn")
        /\ UNCHANGED readOnly /\ files' \in [Names -> {"missing", "torn", "whole"}]
    BY DEF Stop, PublicationInv, RootShape
  <1>3. ~ Owns(p)' /\ at'[p] \notin Evaluating /\ at'[p] \notin Compared
    BY <1>1 DEF Owns, Evaluating, Compared
  <1>4. RootShape'
    BY <1>2 DEF PublicationInv, RootShape
  <1> QED
    BY <1>1, <1>2, <1>3, <1>4, Undisturbed

LEMMA NextInv == PublicationInv /\ [Next]_vars => PublicationInv'
  <1> SUFFICES ASSUME PublicationInv, [Next]_vars PROVE PublicationInv'
    OBVIOUS
  <1>1. ASSUME NEW p \in Procs, Call(p) \/ Run(p) PROVE PublicationInv'
    BY <1>1, RunSteps
  <1>2. ASSUME NEW p \in Procs, Finalize(p) PROVE PublicationInv'
    BY <1>2, FinalizeSteps
  <1>3. ASSUME NEW p \in Procs, EvaluateStep(p) PROVE PublicationInv'
    BY <1>3, EvaluationSteps
  <1>4. ASSUME NEW p \in Procs, Stop(p) PROVE PublicationInv'
    BY <1>4, StopStep
  <1>5. CASE Exchange \/ Review \/ UNCHANGED vars
    <2>1. UNCHANGED <<files, readOnly, at, next, todo>>
      BY <1>5 DEF Exchange, Review, vars, root, locals
    <2> QED
      BY <2>1 DEF PublicationInv, RootShape, LocalShape, OneOwner, Owns, WrittenInOrder,
         FreezesTheFinished, FrozenIsFinished, EvaluatesTheFrozen, Finished
  <1> QED
    BY <1>1, <1>2, <1>3, <1>4, <1>5 DEF Next

-----------------------------------------------------------------------------
(* What is published stays *)

Stays ==
    /\ Decided \in readOnly =>
          /\ Decided \in readOnly' /\ UNCHANGED <<summary, decisions>>
          /\ \A f \in Aggregate \ {Index} : files'[f] = files[f]
    /\ files[Evaluated] # "missing" =>
          files'[Evaluated] = files[Evaluated] /\ UNCHANGED evaluation

\* A step that only adds files, and read-only files, and tells nothing new of
\* files that are there.
LEMMA Adds ==
  ASSUME PublicationInv, readOnly \subseteq readOnly',
         \A f \in Names : files[f] # "missing" => files'[f] = files[f],
         files[Summary] # "missing" => UNCHANGED summary,
         files[Decided] # "missing" => UNCHANGED decisions,
         files[Evaluated] # "missing" => UNCHANGED evaluation
  PROVE  Stays
  <1>1. Decided \in readOnly => \A f \in Aggregate \ {Index} : files[f] = "whole"
    BY DEF PublicationInv, FrozenIsFinished, Finished
  <1>2. Decided \in readOnly => files[Summary] = "whole" /\ files[Decided] = "whole"
    BY <1>1, FilesFacts
  <1> QED
    BY <1>1, <1>2, FilesFacts DEF Stays

LEMMA CreateAdds ==
  ASSUME RootShape, NEW p \in Procs, NEW f \in Names, Create(p, f)
  PROVE  /\ readOnly' = readOnly
         /\ \A g \in Names : files[g] # "missing" => files'[g] = files[g]
  BY DEF Create, RootShape

LEMMA StepStays == PublicationInv /\ [Next]_vars => Stays
  <1> SUFFICES ASSUME PublicationInv, [Next]_vars PROVE Stays
    OBVIOUS
  <1>1. CASE UNCHANGED root
    BY <1>1, Adds DEF root
  <1>2. ASSUME NEW p \in Procs, Call(p) \/ Run(p) PROVE UNCHANGED root
    BY <1>2 DEF Call, Run, Preflight, MakeAdapter, RunCase
  <1>3. ASSUME NEW p \in Procs, Finalize(p) PROVE Stays
    <2>1. CASE CheckRoot(p) \/ ListFiles(p) \/ FreezeMisses(p) \/ Finish(p)
      BY <1>1, <2>1 DEF CheckRoot, ListFiles, FreezeMisses, Finish
    <2>2. CASE WriteSummary(p)
      BY <2>2, CreateAdds, Adds, FilesFacts DEF WriteSummary, Keep, PublicationInv
    <2>3. CASE WriteDecisions(p)
      <3>1. CASE UNCHANGED root
        BY <1>1, <3>1
      <3>2. CASE Create(p, Decided) /\ decisions' = Keep(Decided, decisions, Occurrences(p))
        <4>1. UNCHANGED <<summary, evaluation>>
          BY <2>3 DEF WriteDecisions
        <4> QED
          BY <3>2, <4>1, CreateAdds, Adds, FilesFacts DEF Keep, PublicationInv
      <3> QED
        BY <2>3, <3>1, <3>2 DEF WriteDecisions, root
    <2>4. CASE WriteHistorical(p)
      <3>1. CASE UNCHANGED root
        BY <1>1, <3>1
      <3>2. CASE Writes(p, Historical) /\ Create(p, Historical)
        <4>1. Historical \in Names
          BY <3>2 DEF Writes, Names
        <4>2. UNCHANGED <<summary, decisions, evaluation>>
          BY <2>4 DEF WriteHistorical
        <4> QED
          BY <3>2, <4>1, <4>2, CreateAdds, Adds DEF PublicationInv
      <3> QED
        BY <2>4, <3>1, <3>2 DEF WriteHistorical, root
    <2>5. CASE WriteOther(p)
      BY <2>5, CreateAdds, Adds DEF WriteOther, PublicationInv
    <2>6. CASE WriteIndex(p)
      BY <2>6, CreateAdds, Adds, FilesFacts DEF WriteIndex, PublicationInv
    <2>7. CASE Freeze(p)
      <3>1. readOnly \subseteq readOnly'
        BY <2>7 DEF Freeze
      <3> QED
        BY <2>7, <3>1, Adds DEF Freeze
    <2> QED
      BY <1>3, <2>1, <2>2, <2>3, <2>4, <2>5, <2>6, <2>7 DEF Finalize
  <1>4. ASSUME NEW p \in Procs, EvaluateStep(p) PROVE Stays
    <2>1. CASE Require(p) \/ CompareLabels(p)
      BY <1>1, <2>1 DEF Require, CompareLabels
    <2>2. CASE WriteEvaluation(p)
      BY <2>2, Adds DEF WriteEvaluation, PublicationInv, RootShape
    <2>3. CASE SealEvaluation(p) \/ SealIndex(p)
      BY <2>3, Adds DEF SealEvaluation, SealIndex
    <2>4. CASE OpenIndex(p)
      BY <2>4, FilesFacts DEF OpenIndex, Stays
    <2>5. CASE RemoveIndex(p) \/ RewriteIndex(p)
      <3>1. /\ readOnly' \in {readOnly, readOnly \ {Index}}
            /\ UNCHANGED <<summary, decisions, evaluation>>
        BY <2>5 DEF RemoveIndex, RewriteIndex
      <3>2. \A f \in Names \ {Index} : files'[f] = files[f]
        BY <2>5 DEF RemoveIndex, RewriteIndex, PublicationInv, RootShape
      <3> QED
        BY <3>1, <3>2, FilesFacts DEF Stays
    <2> QED
      BY <1>4, <2>1, <2>2, <2>3, <2>4, <2>5 DEF EvaluateStep
  <1>5. ASSUME NEW p \in Procs, Stop(p) PROVE Stays
    <2>1. \A f \in Names : files[f] # "missing" => files'[f] = files[f]
      BY <1>5 DEF Stop, PublicationInv, RootShape
    <2> QED
      BY <1>5, <2>1, Adds DEF Stop
  <1>6. Exchange \/ Review \/ UNCHANGED vars => UNCHANGED root
    BY DEF Exchange, Review, vars
  <1> QED
    BY <1>1, <1>2, <1>3, <1>4, <1>5, <1>6 DEF Next

-----------------------------------------------------------------------------
(* The theorems *)

\* The invariant of the artifact root, for every experiment.
THEOREM RootIsOwned == Spec => []PublicationInv
  BY InitInv, NextInv, PTL DEF Spec

\* Whatever stops the runs and whoever runs beside them, read-only decisions
\* mean that every file of the aggregate was written.
THEOREM FrozenAreFinished == Spec => []FrozenMeansFinished
  <1>1. PublicationInv => FrozenMeansFinished
    BY DEF PublicationInv, FrozenIsFinished, Finished, FrozenMeansFinished
  <1> QED
    BY <1>1, RootIsOwned, PTL

\* No later run, evaluation or stop changes what is published.
THEOREM PublishedIsFinal == Spec => PublishedStaysPublished
  <1>1. PublicationInv /\ [Next]_vars => [Stays]_vars
    BY StepStays
  <1>2. Spec => [][Stays]_vars
    BY <1>1, RootIsOwned, PTL DEF Spec
  <1> QED
    BY <1>2 DEF PublishedStaysPublished, Stays

-----------------------------------------------------------------------------
(***************************************************************************)
(* What the artifact root says.  The proof is made of layers, and each     *)
(* builds on the one before.  The root has one owner (above).  IndexInv:   *)
(* what is read-only is there, the index lists whole files, and only the   *)
(* evaluation that wrote its result replaces it.  InputsInv: a run that    *)
(* goes on to the model has checked every case.  DataInv: outcomes are     *)
(* about the first cases of the manifest, the summary and the decisions    *)
(* are those of the owner's outcomes, an evaluation covers its baseline    *)
(* and the decisions.                                                      *)
(*                                                                         *)
(* No step is looked at once for each part.  RootStep, OwnStep, InputStep  *)
(* and DataStep say what any step of a process may do; every action is     *)
(* shown to be such a step, and the parts to survive such steps.           *)
(***************************************************************************)

-----------------------------------------------------------------------------
(* Counting *)

\* The image of a finite set is finite.
LEMMA Onto ==
  ASSUME NEW S, IsFiniteSet(S), NEW T, NEW f \in [S -> T],
         \A t \in T : \E s \in S : f[s] = t
  PROVE  IsFiniteSet(T)
  <1>1. f \in Surjection(S, T)
    BY DEF Surjection
  <1> QED
    BY <1>1, FS_Surjection

\* A set that is one to one with a finite set has its size.
LEMMA SameSize ==
  ASSUME NEW S, IsFiniteSet(S), NEW T, NEW f \in [S -> T],
         \A t \in T : \E s \in S : f[s] = t,
         \A s, r \in S : f[s] = f[r] => s = r
  PROVE  IsFiniteSet(T) /\ Cardinality(T) = Cardinality(S)
  <1>1. f \in Surjection(S, T) /\ f \in Injection(S, T)
    BY DEF Surjection, Injection, IsInjective
  <1> QED
    BY <1>1, FS_Surjection

\* Every report has one of the three labels.
LEMMA CountedByLabel ==
  ASSUME NEW S, IsFiniteSet(S), \A r \in S : r.label \in Labels
  PROVE  Cardinality({r \in S : r.label = "TP"}) + Cardinality({r \in S : r.label = "FP"})
           + Cardinality({r \in S : r.label = "NMC"}) = Cardinality(S)
  <1> DEFINE tp == {r \in S : r.label = "TP"}
             fp == {r \in S : r.label = "FP"}
             nmc == {r \in S : r.label = "NMC"}
  <1>1. IsFiniteSet(tp) /\ IsFiniteSet(fp) /\ IsFiniteSet(nmc)
    BY FS_Subset
  <1>2. tp \cap fp = {} /\ (tp \cup fp) \cap nmc = {} /\ (tp \cup fp) \cup nmc = S
    BY DEF Labels
  <1> HIDE DEF tp, fp, nmc
  <1>3. Cardinality({}) = 0
    BY FS_EmptySet
  <1>4. /\ IsFiniteSet(tp \cup fp)
        /\ Cardinality(tp \cup fp) = Cardinality(tp) + Cardinality(fp) - Cardinality(tp \cap fp)
    BY <1>1, FS_Union
  <1>5. Cardinality((tp \cup fp) \cup nmc)
          = Cardinality(tp \cup fp) + Cardinality(nmc) - Cardinality((tp \cup fp) \cap nmc)
    BY <1>1, <1>4, FS_Union
  <1>6. Cardinality(tp) \in Nat /\ Cardinality(fp) \in Nat /\ Cardinality(nmc) \in Nat
    BY <1>1, FS_CardinalityType
  <1>7. Cardinality(S) = Cardinality(tp) + Cardinality(fp) + Cardinality(nmc)
    <2>1. Cardinality(tp \cap fp) = 0 /\ Cardinality((tp \cup fp) \cap nmc) = 0
      BY <1>2, <1>3
    <2>2. Cardinality((tp \cup fp) \cup nmc) = Cardinality(S)
      BY <1>2
    <2> QED
      BY <2>1, <2>2, <1>4, <1>5, <1>6
  <1> QED
    BY <1>7 DEF tp, fp, nmc

-----------------------------------------------------------------------------
(* The comparison with the baseline *)

\* What the comparison promises: no row is dropped, and the counts agree.
Counts(e, rows, reports) ==
    LET Sum(f) == f["TP"] + f["FP"] + f["NMC"]
    IN  /\ e.missing_automatic = 0
        /\ e.aligned = Len(rows)
        /\ \A l \in Labels :
              e.baseline_counts[l] = Cardinality({i \in DOMAIN rows : rows[i].label = l})
        /\ e.aligned + e.missing_baseline = Cardinality(reports)
        /\ \A l \in Labels : Sum(e.matrix[l]) = e.baseline_counts[l]
        /\ Sum(e.automatic_counts) = e.aligned

\* An accepted baseline joined with consistent decisions: every row has its
\* decision, so no row is dropped and rows and columns add up.
LEMMA EvaluateCounts ==
  ASSUME NEW S, NEW rows \in Seq(S), NEW sarifs, NEW reports,
         IsFiniteSet(reports), Consistent(reports),
         \A r \in reports : r.label \in Labels,
         \A i \in DOMAIN rows : rows[i].label \in Labels,
         \A i \in DOMAIN rows : Bindable(rows[i], reports, sarifs),
         NoDuplicates(rows, sarifs)
  PROVE  Counts(Evaluate(reports, rows, sarifs), rows, reports)
  <1> DEFINE D == DOMAIN rows
             Key(i) == RowIdentity(rows[i], sarifs)
             g == [i \in D |-> CHOOSE r \in reports : Identity(r) = Key(i)]
             Of(l) == {i \in D : rows[i].label = l}
             Partners(l) == {r \in reports : \E row \in Rows(rows) :
                                /\ row.label = l /\ RowIdentity(row, sarifs) = Identity(r)}
             aligned == {r \in reports : \E i \in D : g[i] = r}
             e == Evaluate(reports, rows, sarifs)
  <1>1. D = 1 .. Len(rows) /\ Len(rows) \in Nat /\ IsFiniteSet(D) /\ Cardinality(D) = Len(rows)
    <2>1. D = 1 .. Len(rows) /\ Len(rows) \in Nat
      OBVIOUS
    <2> QED
      BY <2>1, FS_Interval
  <1>2. \A i \in D : g[i] \in reports /\ Identity(g[i]) = Key(i)
    <2> SUFFICES ASSUME NEW i \in D
                 PROVE  g[i] \in reports /\ Identity(g[i]) = Key(i)
      OBVIOUS
    <2>1. \E r \in reports : Identity(r) = Key(i)
      BY DEF Bindable
    <2> QED
      BY <2>1
  <1> HIDE DEF g
  <1>3. \A i, j \in D : g[i] = g[j] => i = j
    BY <1>2 DEF NoDuplicates
  <1>4. \A i \in D, r \in reports : Identity(r) = Key(i) => g[i] = r
    BY <1>2 DEF Consistent
  <1>g. \A i \in D : i \in DOMAIN g
    BY DEF g
  <1>5. IsFiniteSet(aligned) /\ Cardinality(aligned) = Len(rows)
    <2>1. g \in [D -> aligned]
      BY <1>2 DEF g
    <2> QED
      BY <1>1, <1>3, <2>1, SameSize
  <1>6. ASSUME NEW l \in Labels
        PROVE  /\ IsFiniteSet(Partners(l))
               /\ Cardinality(Partners(l)) = Cardinality(Of(l))
               /\ Cardinality({row \in Rows(rows) : row.label = l}) = Cardinality(Of(l))
    <2>1. IsFiniteSet(Of(l))
      BY <1>1, FS_Subset
    <2>2. IsFiniteSet(Partners(l)) /\ Cardinality(Partners(l)) = Cardinality(Of(l))
      <3> DEFINE h == [i \in Of(l) |-> g[i]]
      <3>1. h \in [Of(l) -> Partners(l)]
        <4> SUFFICES ASSUME NEW i \in Of(l) PROVE g[i] \in Partners(l)
          OBVIOUS
        <4>1. rows[i] \in Rows(rows) /\ rows[i].label = l
          BY DEF Rows
        <4> QED
          BY <1>2, <4>1
      <3>2. \A r \in Partners(l) : \E i \in Of(l) : h[i] = r
        <4> SUFFICES ASSUME NEW r \in Partners(l) PROVE \E i \in Of(l) : g[i] = r
          OBVIOUS
        <4>1. PICK row \in Rows(rows) : row.label = l /\ RowIdentity(row, sarifs) = Identity(r)
          OBVIOUS
        <4>2. PICK i \in D : row = rows[i]
          BY DEF Rows
        <4> QED
          BY <4>1, <4>2, <1>4
      <3>3. \A i, j \in Of(l) : h[i] = h[j] => i = j
        BY <1>3
      <3> HIDE DEF h
      <3> QED
        BY <2>1, <3>1, <3>2, <3>3, SameSize
    <2>3. Cardinality({row \in Rows(rows) : row.label = l}) = Cardinality(Of(l))
      <3> DEFINE T == {row \in Rows(rows) : row.label = l}
                 h == [i \in Of(l) |-> rows[i]]
      <3>1. h \in [Of(l) -> T] /\ \A t \in T : \E i \in Of(l) : h[i] = t
        BY DEF Rows
      <3>2. \A i, j \in Of(l) : h[i] = h[j] => i = j
        BY DEF NoDuplicates
      <3> HIDE DEF h, T, Of
      <3>3. Cardinality(T) = Cardinality(Of(l))
        BY <2>1, <3>1, <3>2, SameSize
      <3> QED
        BY <3>3 DEF T
    <2> QED
      BY <2>2, <2>3
  <1> DEFINE Pairs(b, a) == {r \in reports : /\ r.label = a
                                             /\ \E row \in Rows(rows) :
                                                    /\ row.label = b
                                                    /\ RowIdentity(row, sarifs) = Identity(r)}
             All == UNION {Pairs(b, a) : b \in Labels, a \in Labels}
             human == {RowIdentity(row, sarifs) : row \in Rows(rows)}
             automatic == {Identity(r) : r \in reports}
  <1>7. All = aligned
    <2>1. ASSUME NEW b \in Labels, NEW a \in Labels, NEW r \in Pairs(b, a) PROVE r \in aligned
      <3>1. PICK i \in D : RowIdentity(rows[i], sarifs) = Identity(r)
        BY DEF Rows
      <3> QED
        BY <3>1, <1>4
    <2>2. ASSUME NEW r \in aligned
          PROVE  \E b \in Labels, a \in Labels : r \in Pairs(b, a)
      <3>1. PICK i \in D : g[i] = r
        OBVIOUS
      <3>2. rows[i] \in Rows(rows) /\ RowIdentity(rows[i], sarifs) = Identity(r)
        BY <3>1, <1>2 DEF Rows
      <3>3. r \in Pairs(rows[i].label, r.label)
        BY <3>2
      <3> QED
        BY <3>3
    <2> HIDE DEF Pairs, aligned
    <2> QED
      BY <2>1, <2>2
  <1>8. \A b \in Labels, a \in Labels : Pairs(b, a) = {r \in Partners(b) : r.label = a}
    OBVIOUS
  <1>9. human \ automatic = {}
    BY DEF Rows, Bindable
  <1>10. Cardinality(automatic \ human) = Cardinality(reports) - Len(rows)
    <2> DEFINE Rest == reports \ aligned
               h == [r \in Rest |-> Identity(r)]
    <2>1. \A r \in reports : Identity(r) \in human <=> r \in aligned
      <3> SUFFICES ASSUME NEW r \in reports
                   PROVE  Identity(r) \in human <=> r \in aligned
        OBVIOUS
      <3>1. ASSUME Identity(r) \in human PROVE r \in aligned
        <4>1. PICK i \in D : RowIdentity(rows[i], sarifs) = Identity(r)
          BY <3>1 DEF Rows
        <4> QED
          BY <4>1, <1>4
      <3>2. ASSUME r \in aligned PROVE Identity(r) \in human
        <4>1. PICK i \in D : g[i] = r
          BY <3>2
        <4> QED
          BY <4>1, <1>2 DEF Rows
      <3> QED
        BY <3>1, <3>2
    <2>2. IsFiniteSet(Rest) /\ Cardinality(Rest) = Cardinality(reports) - Len(rows)
      <3>1. reports \cap aligned = aligned
        OBVIOUS
      <3> HIDE DEF aligned
      <3>2. Cardinality(reports \cap aligned) = Len(rows)
        BY <3>1, <1>5
      <3> QED
        BY <3>2, FS_Difference
    <2>3. h \in [Rest -> automatic \ human] /\ \A t \in automatic \ human : \E r \in Rest : h[r] = t
      BY <2>1
    <2>4. \A r, s \in Rest : h[r] = h[s] => r = s
      BY DEF Consistent
    <2> HIDE DEF h, Rest, human, automatic
    <2> QED
      BY <2>2, <2>3, <2>4, SameSize
  <1>11. /\ e.aligned = Cardinality(All)
         /\ \A l \in Labels : e.baseline_counts[l] = Cardinality({row \in Rows(rows) : row.label = l})
         /\ \A l, a \in Labels : e.matrix[l][a] = Cardinality(Pairs(l, a))
         /\ e.missing_automatic = Cardinality(human \ automatic)
         /\ e.missing_baseline = Cardinality(automatic \ human)
    BY DEF Evaluate
  <1>12. \A a \in Labels : e.automatic_counts[a] = Cardinality({r \in All : r.label = a})
    BY DEF Evaluate
  <1> HIDE DEF e
  <1>13. e.missing_automatic = 0 /\ e.aligned = Len(rows)
    <2>1. e.missing_automatic = Cardinality({})
      <3> HIDE DEF human, automatic
      <3> QED
        BY <1>9, <1>11
    <2>2. e.aligned = Cardinality(aligned)
      <3> HIDE DEF All, aligned
      <3> QED
        BY <1>7, <1>11
    <2> QED
      BY <2>1, <2>2, <1>5, FS_EmptySet
  <1>14. \A l \in Labels : e.baseline_counts[l] = Cardinality(Of(l))
    BY <1>6, <1>11
  <1>15. ASSUME NEW l \in Labels
         PROVE  e.matrix[l]["TP"] + e.matrix[l]["FP"] + e.matrix[l]["NMC"] = e.baseline_counts[l]
    <2>1. "TP" \in Labels /\ "FP" \in Labels /\ "NMC" \in Labels
      BY DEF Labels
    <2>2. \A a \in Labels : e.matrix[l][a] = Cardinality({r \in Partners(l) : r.label = a})
      BY <1>8, <1>11
    <2>3. Cardinality(Partners(l)) = e.baseline_counts[l] /\ IsFiniteSet(Partners(l))
      BY <1>6, <1>14
    <2>4. \A r \in Partners(l) : r.label \in Labels
      OBVIOUS
    <2> HIDE DEF Partners
    <2> QED
      BY <2>1, <2>2, <2>3, <2>4, CountedByLabel
  <1>16. e.automatic_counts["TP"] + e.automatic_counts["FP"] + e.automatic_counts["NMC"] = e.aligned
    <2>1. "TP" \in Labels /\ "FP" \in Labels /\ "NMC" \in Labels
      BY DEF Labels
    <2>2. \A a \in Labels : e.automatic_counts[a] = Cardinality({r \in aligned : r.label = a})
      <3> HIDE DEF All, aligned
      <3> QED
        BY <1>7, <1>12
    <2>3. \A r \in aligned : r.label \in Labels
      OBVIOUS
    <2> HIDE DEF aligned
    <2> QED
      BY <2>1, <2>2, <2>3, <1>5, <1>13, CountedByLabel
  <1>17. e.aligned + e.missing_baseline = Cardinality(reports)
    <2>1. Cardinality(reports) \in Nat /\ Len(rows) \in Nat
      BY <1>1, FS_CardinalityType
    <2> QED
      BY <2>1, <1>10, <1>11, <1>13
  <1> QED
    BY <1>13, <1>14, <1>15, <1>16, <1>17 DEF Counts, e

\* An evaluation of finitely many decisions is made of numbers.
LEMMA EvaluateType ==
  ASSUME NEW S, NEW rows \in Seq(S), NEW sarifs, NEW reports, IsFiniteSet(reports)
  PROVE  Evaluate(reports, rows, sarifs) \in Evaluations
  <1> DEFINE Pairs(b, a) == {r \in reports : /\ r.label = a
                                             /\ \E row \in Rows(rows) :
                                                    /\ row.label = b
                                                    /\ RowIdentity(row, sarifs) = Identity(r)}
             aligned == UNION {Pairs(b, a) : b \in Labels, a \in Labels}
             human == {RowIdentity(row, sarifs) : row \in Rows(rows)}
             automatic == {Identity(r) : r \in reports}
  <1>1. IsFiniteSet(DOMAIN rows)
    <2>1. DOMAIN rows = 1 .. Len(rows) /\ Len(rows) \in Nat
      OBVIOUS
    <2> QED
      BY <2>1, FS_Interval
  <1>2. IsFiniteSet(Rows(rows))
    <2> DEFINE h == [i \in DOMAIN rows |-> rows[i]]
    <2>1. h \in [DOMAIN rows -> Rows(rows)] /\ \A t \in Rows(rows) : \E i \in DOMAIN rows : h[i] = t
      BY DEF Rows
    <2> HIDE DEF h
    <2> QED
      BY <1>1, <2>1, Onto
  <1>3. IsFiniteSet(human)
    <2> DEFINE h == [row \in Rows(rows) |-> RowIdentity(row, sarifs)]
    <2>1. h \in [Rows(rows) -> human] /\ \A t \in human : \E row \in Rows(rows) : h[row] = t
      OBVIOUS
    <2> HIDE DEF h, human
    <2> QED
      BY <1>2, <2>1, Onto
  <1>4. IsFiniteSet(automatic)
    <2> DEFINE h == [r \in reports |-> Identity(r)]
    <2>1. h \in [reports -> automatic] /\ \A t \in automatic : \E r \in reports : h[r] = t
      OBVIOUS
    <2> HIDE DEF h, automatic
    <2> QED
      BY <2>1, Onto
  <1>5. IsFiniteSet(aligned)
    <2>1. aligned \subseteq reports
      OBVIOUS
    <2> HIDE DEF aligned
    <2> QED
      BY <2>1, FS_Subset
  <1> HIDE DEF human, automatic, aligned
  <1>6. /\ Cardinality(aligned) \in Nat
        /\ Cardinality(human \ automatic) \in Nat /\ Cardinality(automatic \ human) \in Nat
    BY <1>3, <1>4, <1>5, FS_Difference, FS_CardinalityType
  <1>7. \A b \in Labels, a \in Labels : Cardinality(Pairs(b, a)) \in Nat
    BY FS_Subset, FS_CardinalityType
  <1>8. \A a \in Labels : Cardinality({r \in aligned : r.label = a}) \in Nat
    BY <1>5, FS_Subset, FS_CardinalityType
  <1>9. \A b \in Labels : Cardinality({row \in Rows(rows) : row.label = b}) \in Nat
    BY <1>2, FS_Subset, FS_CardinalityType
  <1>10. Evaluate(reports, rows, sarifs) =
           [aligned |-> Cardinality(aligned),
            matrix |-> [b \in Labels |-> [a \in Labels |-> Cardinality(Pairs(b, a))]],
            automatic_counts |->
               [a \in Labels |-> Cardinality({r \in aligned : r.label = a})],
            baseline_counts |->
               [b \in Labels |-> Cardinality({row \in Rows(rows) : row.label = b})],
            missing_automatic |-> Cardinality(human \ automatic),
            missing_baseline |-> Cardinality(automatic \ human)]
    BY DEF Evaluate, aligned, human, automatic
  <1> HIDE DEF Pairs
  <1> QED
    BY <1>6, <1>7, <1>8, <1>9, <1>10 DEF Evaluations

-----------------------------------------------------------------------------
(* What a step of one process does to the others and to the root *)

Replies == {"none", "ok", "failed", "completed", "incomplete", "evaluated"}

\* Where an evaluation is while it replaces the index.
Indexing == {"open index", "remove index", "rewrite index", "seal index"}

Known ==
    /\ LocalShape /\ reply \in [Procs -> Replies]
    /\ DOMAIN outcomes = Procs /\ DOMAIN result = Procs

Keeps(p) ==
    \A q \in Procs \ {p} :
        /\ at'[q] = at[q] /\ next'[q] = next[q] /\ outcomes'[q] = outcomes[q]
        /\ todo'[q] = todo[q] /\ result'[q] = result[q] /\ reply'[q] = reply[q]

Ended(p, how) ==
    /\ at'[p] = "idle" /\ next'[p] = 1 /\ outcomes'[p] = <<>> /\ todo'[p] = {}
    /\ result'[p] = NoEvaluation /\ reply'[p] = how

\* The process keeps what it collected.
Holds(p) ==
    /\ outcomes'[p] = outcomes[p] /\ todo'[p] = todo[p] /\ result'[p] = result[p]
    /\ reply'[p] = reply[p]

\* What the end of a command leaves to its process and to the others.
LEMMA EndKeeps ==
  ASSUME Known, NEW p \in Procs, NEW how \in Replies, End(p, how)
  PROVE  Known' /\ Keeps(p) /\ Ended(p, how)
  <1>1. LocalShape'
    BY Ends DEF Known
  <1>2. reply' \in [Procs -> Replies] /\ DOMAIN outcomes' = Procs /\ DOMAIN result' = Procs
    BY DEF Known, End
  <1>3. Keeps(p)
    BY DEF Known, LocalShape, End, Keeps
  <1>4. Ended(p, how)
    BY DEF Known, LocalShape, End, Ended
  <1> QED
    BY <1>1, <1>2, <1>3, <1>4 DEF Known

\* A process that goes on keeps what it collected.
LEMMA GotoKeeps ==
  ASSUME Known, NEW p \in Procs, NEW where \in Stations, Goto(p, where)
  PROVE  Known' /\ Keeps(p) /\ Holds(p) /\ at'[p] = where /\ next'[p] = 1
  <1>1. LocalShape' /\ Others(p) /\ at'[p] = where /\ next'[p] = 1
    BY Goes DEF Known
  <1> QED
    BY <1>1 DEF Goto, Known, Others, Keeps, Holds

\* So does one that repeats its step for the next case or file.
LEMMA RepeatKeeps ==
  ASSUME Known, NEW p \in Procs, Repeat(p)
  PROVE  Known' /\ Keeps(p) /\ Holds(p) /\ at'[p] = at[p] /\ next'[p] = next[p] + 1
  <1>1. LocalShape' /\ Others(p) /\ at'[p] = at[p] /\ next'[p] = next[p] + 1
    BY Repeats DEF Known
  <1> QED
    BY <1>1 DEF Repeat, Known, Others, Keeps, Holds

\* What every step of a process does: no file but the index goes or changes,
\* only the evaluation that has written its result touches a whole index, and
\* an index is written when everything it lists is whole.
RootStep(p) ==
    /\ \A f \in Names \ {Index} :
          /\ f \in readOnly => f \in readOnly'
          /\ files[f] # "missing" => files'[f] = files[f]
    /\ \A f \in readOnly' : (f \in readOnly /\ f # Index) \/ files'[f] # "missing"
    /\ Index \in readOnly /\ Index \notin readOnly' => files[Evaluated] # "missing"
    /\ files'[Evaluated] # "missing" => files[Evaluated] # "missing" \/ Decided \in readOnly
    /\ at[p] \notin Compared =>
          /\ Index \in readOnly => Index \in readOnly'
          /\ files[Index] # "missing" => files'[Index] = files[Index] /\ index' = index
    /\ at'[p] \in Compared => at[p] \in Compared \/ files[Evaluated] = "missing"
    /\ index' \subseteq Names \ {Index}
    /\ files'[Index] = "whole" =>
          \/ files[Index] = "whole" /\ index' = index
          \/ /\ \A f \in Names \ {Index} : files'[f] = files[f]
             /\ index' = Present /\ \A f \in Present : files[f] = "whole"
             /\ \A f \in Aggregate \ {Index} : files[f] = "whole"

\* What a process may say of itself after its step.
OwnStep(p) ==
    /\ at'[p] = "freeze" => ListFiles(p) \/ Freeze(p)
    /\ reply'[p] = reply[p] \/ reply'[p] \in {"none", "ok", "failed"}
          \/ Finish(p) \/ SealIndex(p)
    /\ at'[p] \in Indexing => at[p] \in Indexing \/ SealEvaluation(p)
    /\ at'[p] = "seal index" => RewriteIndex(p)

ReadOnlyExists == \A f \in readOnly : files[f] # "missing"

EvaluationFollows ==
    /\ files[Evaluated] # "missing" => Decided \in readOnly
    /\ \A p, q \in Procs : at[p] \in Compared /\ at[q] \in Compared => p = q

IndexIsLast ==
    /\ index \subseteq Names \ {Index}
    /\ files[Index] = "whole" =>
          /\ \A f \in Aggregate : files[f] = "whole"
          /\ \A f \in index : files[f] = "whole"
          /\ Present \ index \subseteq {Evaluated}

EvaluatedIsIndexed ==
    (\E p \in Procs : reply[p] = "evaluated") =>
        /\ Evaluated \in index /\ {Evaluated, Index} \subseteq readOnly
        /\ \A p \in Procs : at[p] \notin Compared

\* The files of an aggregate are read-only, or still listed to become it.
FreezeIsComplete(p) ==
    at[p] = "freeze" =>
        /\ Aggregate \ {Index} \subseteq todo[p] \cup readOnly
        /\ Index \in todo[p] \cup readOnly \/ files[Evaluated] # "missing"

SuccessIsReadOnly(p) ==
    reply[p] \in {"completed", "incomplete"} =>
        /\ Aggregate \ {Index} \subseteq readOnly
        /\ Index \in readOnly \/ files[Evaluated] # "missing"

IndexIsRewritten(p) ==
    /\ at[p] \in Indexing => Evaluated \in readOnly
    /\ at[p] = "seal index" => Evaluated \in index /\ files[Index] = "whole"

IndexInv ==
    /\ Known /\ ReadOnlyExists /\ EvaluationFollows /\ IndexIsLast /\ EvaluatedIsIndexed
    /\ \A p \in Procs :
          FreezeIsComplete(p) /\ SuccessIsReadOnly(p) /\ IndexIsRewritten(p)

\* A run writes the index after everything else.
LEMMA IndexIsLastFile == Len(Files) \in DOMAIN Files /\ Files[Len(Files)] = Index
  <1> DEFINE S == STRING \cup {"preflight.json", Summary, Decided, Historical, Index}
  <1>1. /\ Rendered \in Seq(S) /\ "preflight.json" \in S /\ Summary \in S /\ Decided \in S
        /\ Historical \in S /\ Index \in S
    BY ExperimentAssumption
  <1> HIDE DEF S
  <1>2. DOMAIN Files = 1 .. Len(Files) /\ Len(Files) \in Nat /\ Len(Files) >= 5
        /\ Files[Len(Files)] = Index
    BY <1>1, SequenceOfFiles DEF Files
  <1> QED
    BY <1>2

\* Nothing is there yet.
LEMMA FirstIndex == Init => IndexInv
  <1> SUFFICES ASSUME Init PROVE IndexInv
    OBVIOUS
  <1>1. LocalShape
    BY InitInv DEF PublicationInv
  <1>2. Known
    BY <1>1 DEF Init, Known, Replies
  <1>3. \A p \in Procs : at[p] = "idle" /\ reply[p] = "none"
    BY DEF Init
  <1>4. files[Evaluated] = "missing" /\ files[Index] = "missing" /\ readOnly = {} /\ index = {}
    BY FilesFacts DEF Init
  <1> QED
    BY <1>2, <1>3, <1>4 DEF IndexInv, ReadOnlyExists, EvaluationFollows, IndexIsLast,
       EvaluatedIsIndexed, FreezeIsComplete, SuccessIsReadOnly, IndexIsRewritten, Compared,
       Evaluating, Indexing

-----------------------------------------------------------------------------
(* Every step is such a step *)

\* A step that leaves the root alone.
LEMMA LeavesTheRoot ==
  ASSUME IndexInv, PublicationInv, NEW p \in Procs, UNCHANGED root, at'[p] \notin Compared
  PROVE  RootStep(p)
  BY DEF RootStep, root, IndexInv, IndexIsLast, ReadOnlyExists

\* A step that creates a file of the aggregate other than the index.
LEMMA CreateSteps ==
  ASSUME IndexInv, PublicationInv, NEW p \in Procs, NEW f \in Names \ {Index, Evaluated},
         Writes(p, f), Create(p, f), UNCHANGED index
  PROVE  RootStep(p) /\ OwnStep(p) /\ Known' /\ Keeps(p)
  <1>1. at[p] = "finalize" /\ at[p] \notin Compared /\ at[p] # "freeze"
    BY DEF Writes, Compared, Evaluating
  <1>2. CASE files[f] # "missing"
    <2>1. Known' /\ Keeps(p) /\ Ended(p, "failed") /\ UNCHANGED <<files, readOnly>>
      BY <1>2, EndKeeps DEF Create, IndexInv, Replies
    <2> QED
      BY <1>1, <2>1 DEF RootStep, OwnStep, Ended, Compared, Evaluating, Indexing,
         IndexInv, IndexIsLast, ReadOnlyExists
  <1>3. CASE files[f] = "missing"
    <2>1. /\ Known' /\ Keeps(p) /\ Holds(p) /\ at'[p] = at[p]
          /\ files' = [files EXCEPT ![f] = "whole"] /\ UNCHANGED readOnly
      BY <1>3, RepeatKeeps DEF Create, IndexInv
    <2>2. \A g \in Names : files'[g] = IF g = f THEN "whole" ELSE files[g]
      BY <2>1 DEF PublicationInv, RootShape
    <2> QED
      BY <1>1, <1>3, <2>1, <2>2, FilesFacts DEF RootStep, OwnStep, Holds, Compared, Evaluating,
         Indexing, IndexInv, IndexIsLast, ReadOnlyExists, PublicationInv, RootShape
  <1> QED
    BY <1>2, <1>3

\* A step that ends the command or moves on without touching the root.
LEMMA EndSteps ==
  ASSUME IndexInv, PublicationInv, NEW p \in Procs, NEW how \in {"ok", "failed"},
         End(p, how), UNCHANGED root
  PROVE  RootStep(p) /\ OwnStep(p) /\ Known' /\ Keeps(p)
  <1>1. Known' /\ Keeps(p) /\ Ended(p, how)
    BY EndKeeps DEF IndexInv, Replies
  <1>2. RootStep(p)
    BY <1>1, LeavesTheRoot DEF Ended, Compared, Evaluating
  <1> QED
    BY <1>1, <1>2 DEF OwnStep, Ended, Indexing

\* The same for a command that goes on.
LEMMA GotoSteps ==
  ASSUME IndexInv, PublicationInv, NEW p \in Procs, NEW where \in Stations,
         Goto(p, where), UNCHANGED root, where # "freeze", where \notin Compared
  PROVE  RootStep(p) /\ OwnStep(p) /\ Known' /\ Keeps(p)
  <1>1. Known' /\ Keeps(p) /\ Holds(p) /\ at'[p] = where
    BY GotoKeeps DEF IndexInv
  <1>2. RootStep(p)
    BY <1>1, LeavesTheRoot
  <1> QED
    BY <1>1, <1>2 DEF OwnStep, Holds, Indexing, Compared, Evaluating

\* The preflight, the cases and the check of the root do not write.
LEMMA RunMoves ==
  ASSUME IndexInv, PublicationInv, NEW p \in Procs, Call(p) \/ Run(p) \/ CheckRoot(p)
  PROVE  RootStep(p) /\ OwnStep(p) /\ Known' /\ Keeps(p)
  <1> DEFINE Goal == RootStep(p) /\ OwnStep(p) /\ Known' /\ Keeps(p)
  <1> SUFFICES Goal
    OBVIOUS
  <1>1. ASSUME NEW how \in {"ok", "failed"}, End(p, how), UNCHANGED root PROVE Goal
    BY <1>1, EndSteps
  <1>2. ASSUME NEW where \in {"recheck", "adapter", "cases", "root", "finalize"},
               Goto(p, where), UNCHANGED root
        PROVE  Goal
    <2>1. where \in Stations /\ where # "freeze" /\ where \notin Compared
      BY DEF Stations, Compared, Evaluating
    <2> QED
      BY <1>2, <2>1, GotoSteps
  <1> HIDE DEF Goal
  <1>3. CASE Call(p)
    <2>1. /\ LocalShape' /\ at'[p] \in {"preflight", "require"} /\ UNCHANGED root
          /\ reply' = [reply EXCEPT ![p] = "none"]
          /\ UNCHANGED <<next, outcomes, todo, result>>
      BY <1>3 DEF Call, IndexInv, Known, LocalShape, Stations
    <2>2. Known' /\ reply'[p] = "none"
      BY <2>1 DEF IndexInv, Known, Replies
    <2>3. Keeps(p)
      BY <1>3 DEF Call, IndexInv, Known, LocalShape, Keeps
    <2>4. RootStep(p)
      BY <2>1, LeavesTheRoot DEF Compared, Evaluating
    <2> QED
      BY <2>1, <2>2, <2>3, <2>4 DEF Goal, OwnStep, Indexing
  <1>4. CASE Preflight(p)
    <2>1. UNCHANGED root
      BY <1>4 DEF Preflight
    <2>2. CASE Repeat(p)
      <3>1. Known' /\ Keeps(p) /\ Holds(p) /\ at'[p] \in {"preflight", "recheck"}
        BY <1>4, <2>2, RepeatKeeps DEF Preflight, IndexInv
      <3>2. RootStep(p)
        BY <2>1, <3>1, LeavesTheRoot DEF Compared, Evaluating
      <3> QED
        BY <3>1, <3>2 DEF Goal, OwnStep, Holds, Indexing
    <2> QED
      BY <1>1, <1>2, <1>4, <2>1, <2>2 DEF Preflight, AfterPreflight
  <1>5. CASE MakeAdapter(p)
    BY <1>2, <1>5 DEF MakeAdapter
  <1>6. CASE RunCase(p)
    <2>1. UNCHANGED root
      BY <1>6 DEF RunCase
    <2>2. CASE at[p] = "cases" /\ ~ Goto(p, "root")
      <3>1. /\ UNCHANGED <<at, todo, result, reply>> /\ next' = [next EXCEPT ![p] = @ + 1]
            /\ \E o \in CaseOutcomes(next[p]) :
                  outcomes' = [outcomes EXCEPT ![p] = Append(@, o)]
        BY <1>6, <2>2 DEF RunCase
      <3>2. DOMAIN outcomes' = Procs /\ next' \in [Procs -> Nat \ {0}]
        BY <3>1 DEF IndexInv, Known, LocalShape
      <3>3. Known' /\ at'[p] = "cases"
        BY <2>2, <3>1, <3>2 DEF IndexInv, Known, LocalShape
      <3>4. Keeps(p)
        BY <3>1 DEF IndexInv, Known, LocalShape, Keeps
      <3>5. RootStep(p)
        BY <2>1, <3>3, LeavesTheRoot DEF Compared, Evaluating
      <3> QED
        BY <3>1, <3>3, <3>4, <3>5 DEF Goal, OwnStep, Indexing
    <2> QED
      BY <1>2, <1>6, <2>1, <2>2 DEF RunCase
  <1>7. CASE CheckRoot(p)
    BY <1>1, <1>2, <1>7 DEF CheckRoot
  <1> QED
    BY <1>3, <1>4, <1>5, <1>6, <1>7 DEF Run

\* The index is the last file of a run: everything it lists has been written.
LEMMA IndexSteps ==
  ASSUME IndexInv, PublicationInv, NEW p \in Procs, WriteIndex(p)
  PROVE  RootStep(p) /\ OwnStep(p) /\ Known' /\ Keeps(p)
  <1>1. /\ at[p] = "finalize" /\ at[p] \notin Compared /\ next[p] \in DOMAIN Files
        /\ Index = Files[next[p]]
    BY DEF WriteIndex, Writes, Compared, Evaluating
  <1>2. CASE files[Index] # "missing"
    <2>1. /\ Known' /\ Keeps(p) /\ Ended(p, "failed")
          /\ UNCHANGED <<files, readOnly, index>>
      BY <1>2, EndKeeps DEF WriteIndex, Create, Keep, IndexInv, Replies
    <2> QED
      BY <1>1, <2>1 DEF RootStep, OwnStep, Ended, Compared, Evaluating, Indexing,
         IndexInv, IndexIsLast, ReadOnlyExists
  <1>3. CASE files[Index] = "missing"
    <2>1. /\ Known' /\ Keeps(p) /\ Holds(p) /\ at'[p] = at[p]
          /\ files' = [files EXCEPT ![Index] = "whole"] /\ UNCHANGED readOnly
          /\ index' = Present
      BY <1>3, RepeatKeeps DEF WriteIndex, Create, Keep, IndexInv
    <2>2. \A g \in Names : files'[g] = IF g = Index THEN "whole" ELSE files[g]
      BY <2>1 DEF PublicationInv, RootShape
    <2>3. Len(Files) \in DOMAIN Files /\ Files[Len(Files)] = Index
      BY IndexIsLastFile
    <2>4. next[p] = Len(Files)
      BY <1>1, <2>3, ExperimentAssumption
    <2>5. \A f \in Aggregate \ {Index} : files[f] = "whole"
      <3> SUFFICES ASSUME NEW i \in DOMAIN Files, Files[i] # Index
                   PROVE  files[Files[i]] = "whole"
        BY DEF Aggregate
      <3>1. i < next[p]
        BY <2>3, <2>4, FilesFacts
      <3> QED
        BY <1>1, <3>1 DEF PublicationInv, WrittenInOrder
    <2>6. files[Evaluated] = "missing"
      <3>1. next[p] > 1
        BY <2>4, FilesFacts
      <3> QED
        BY <1>1, <3>1 DEF PublicationInv, FrozenIsFinished, IndexInv, EvaluationFollows
    <2>7. \A f \in Present : files[f] = "whole"
      BY <2>5, <2>6 DEF Present, Names, Aggregate
    <2> QED
      BY <1>1, <1>3, <2>1, <2>2, <2>5, <2>7, FilesFacts DEF RootStep, OwnStep, Holds, Present,
         Indexing, IndexInv, ReadOnlyExists
  <1> QED
    BY <1>2, <1>3

\* The steps of finalization, file by file up to the freeze.
LEMMA FinalizeMoves ==
  ASSUME IndexInv, PublicationInv, NEW p \in Procs, Finalize(p)
  PROVE  RootStep(p) /\ OwnStep(p) /\ Known' /\ Keeps(p)
  <1> DEFINE Goal == RootStep(p) /\ OwnStep(p) /\ Known' /\ Keeps(p)
  <1> SUFFICES Goal
    OBVIOUS
  <1>1. ASSUME NEW f \in Names \ {Index, Evaluated}, Writes(p, f), Create(p, f),
               UNCHANGED index
        PROVE  Goal
    BY <1>1, CreateSteps
  <1>2. ASSUME End(p, "failed"), UNCHANGED root PROVE Goal
    BY <1>2, EndSteps
  <1>3. \A f \in Names : Writes(p, f) => f # Evaluated
    BY FilesFacts DEF Writes, Aggregate
  <1> HIDE DEF Goal
  <1>4. CASE CheckRoot(p)
    BY <1>4, RunMoves DEF Goal
  <1>5. CASE WriteSummary(p)
    BY <1>1, <1>5, FilesFacts DEF WriteSummary
  <1>6. CASE WriteDecisions(p)
    BY <1>1, <1>2, <1>6, FilesFacts DEF WriteDecisions, root
  <1>7. CASE WriteHistorical(p)
    <2>1. Historical \in Names /\ Historical # Index /\ Historical # Evaluated
      BY <1>3, <1>7 DEF WriteHistorical, Writes, Names, Historical, Index
    <2> QED
      BY <1>1, <1>2, <1>7, <2>1 DEF WriteHistorical, root
  <1>8. CASE WriteOther(p)
    BY <1>1, <1>3, <1>8 DEF WriteOther
  <1>9. CASE WriteIndex(p)
    BY <1>9, IndexSteps DEF Goal
  <1>10. CASE ListFiles(p)
    <2>1. UNCHANGED root /\ LocalShape' /\ at'[p] = "freeze"
      <3>1. at' \in [Procs -> Stations] /\ at'[p] = "freeze"
        BY <1>10 DEF ListFiles, IndexInv, Known, LocalShape, Stations
      <3>3. next' \in [Procs -> Nat \ {0}]
        BY <1>10 DEF ListFiles, IndexInv, Known, LocalShape
      <3>2. todo' \in [Procs -> SUBSET Names]
        BY <1>10 DEF ListFiles, IndexInv, Known, LocalShape
      <3> QED
        BY <1>10, <3>1, <3>2, <3>3 DEF ListFiles, LocalShape
    <2>2. Known' /\ reply'[p] = reply[p]
      BY <1>10, <2>1 DEF ListFiles, IndexInv, Known
    <2>3. Keeps(p)
      BY <1>10 DEF ListFiles, IndexInv, Known, LocalShape, Keeps
    <2>4. RootStep(p)
      BY <2>1, LeavesTheRoot DEF Compared, Evaluating
    <2> QED
      BY <1>10, <2>1, <2>2, <2>3, <2>4 DEF Goal, OwnStep, Indexing
  <1>11. CASE Freeze(p)
    <2>1. /\ at[p] = "freeze"
          /\ UNCHANGED <<files, index, at, next, outcomes, result, reply>>
      BY <1>11 DEF Freeze
    <2>2. PICK f \in todo[p] :
              /\ readOnly' = IF files[f] = "missing" THEN readOnly ELSE readOnly \cup {f}
              /\ todo' = [todo EXCEPT ![p] = @ \ {f}]
      BY <1>11 DEF Freeze
    <2>3. Known' /\ Keeps(p)
      <3>1. todo' \in [Procs -> SUBSET Names]
        BY <2>2 DEF IndexInv, Known, LocalShape
      <3>2. Known'
        BY <2>1, <3>1 DEF IndexInv, Known, LocalShape
      <3>3. \A q \in Procs \ {p} : todo'[q] = todo[q]
        BY <2>2 DEF IndexInv, Known, LocalShape
      <3>4. Keeps(p)
        BY <2>1, <3>3 DEF Keeps
      <3> QED
        BY <3>2, <3>4
    <2>4. RootStep(p)
      BY <2>1, <2>2 DEF RootStep, IndexInv, IndexIsLast, ReadOnlyExists, Compared, Evaluating
    <2> QED
      BY <1>11, <2>1, <2>3, <2>4 DEF Goal, OwnStep, Indexing
  <1>12. CASE Finish(p)
    <2>1. End(p, Status(p)) /\ UNCHANGED root /\ Status(p) \in Replies
      BY <1>12 DEF Finish, Status, Replies
    <2>2. Known' /\ Keeps(p) /\ Ended(p, Status(p))
      BY <2>1, EndKeeps DEF IndexInv
    <2>3. RootStep(p)
      BY <2>1, <2>2, LeavesTheRoot DEF Ended, Compared, Evaluating
    <2> QED
      BY <1>12, <2>2, <2>3 DEF Goal, OwnStep, Ended, Indexing
  <1>13. CASE FreezeMisses(p)
    <2>1. End(p, "failed") /\ UNCHANGED root /\ "failed" \in Replies
      BY <1>13 DEF FreezeMisses, Replies
    <2>2. Known' /\ Keeps(p) /\ Ended(p, "failed")
      BY <2>1, EndKeeps DEF IndexInv
    <2>3. RootStep(p)
      BY <2>1, <2>2, LeavesTheRoot DEF Ended, Compared, Evaluating
    <2> QED
      BY <1>13, <2>2, <2>3 DEF Goal, OwnStep, Ended, Indexing
  <1> QED
    BY <1>4, <1>5, <1>6, <1>7, <1>8, <1>9, <1>10, <1>11, <1>12, <1>13 DEF Finalize

\* The steps of an evaluation, the replacement of the index among them.
LEMMA EvaluateMoves ==
  ASSUME IndexInv, PublicationInv, NEW p \in Procs, EvaluateStep(p)
  PROVE  RootStep(p) /\ OwnStep(p) /\ Known' /\ Keeps(p)
  <1> DEFINE Goal == RootStep(p) /\ OwnStep(p) /\ Known' /\ Keeps(p)
  <1> SUFFICES Goal
    OBVIOUS
  <1>1. ASSUME End(p, "failed"), UNCHANGED root PROVE Goal
    BY <1>1, EndSteps
  <1>2. /\ at[p] \in Compared => Decided \in readOnly /\ files[Evaluated] = "whole"
        /\ Decided \in readOnly => \A f \in Aggregate \ {Index} : files[f] = "whole"
    BY DEF PublicationInv, EvaluatesTheFrozen, Compared, FrozenIsFinished, Finished
  <1>3. ASSUME NEW where \in Evaluating, Goto(p, where)
        PROVE  Known' /\ Keeps(p) /\ Holds(p) /\ at'[p] = where
    <2>1. where \in Stations
      BY DEF Evaluating, Stations
    <2> QED
      BY <1>3, <2>1, GotoKeeps DEF IndexInv
  <1> HIDE DEF Goal
  <1>4. CASE Require(p)
    <2>1. UNCHANGED root
      BY <1>4 DEF Require
    <2>2. CASE Goto(p, "compare")
      <3>1. Known' /\ Keeps(p) /\ Holds(p) /\ at'[p] = "compare"
        BY <1>3, <2>2 DEF Evaluating
      <3>2. RootStep(p)
        BY <2>1, <3>1, LeavesTheRoot DEF Compared, Evaluating
      <3> QED
        BY <3>1, <3>2 DEF Goal, OwnStep, Holds, Indexing
    <2> QED
      BY <1>1, <1>4, <2>1, <2>2 DEF Require
  <1>5. CASE CompareLabels(p)
    <2>1. UNCHANGED root
      BY <1>5 DEF CompareLabels
    <2>2. CASE /\ at' = [at EXCEPT ![p] = "write evaluation"]
               /\ \E e : result' = [result EXCEPT ![p] = e]
               /\ UNCHANGED <<next, outcomes, todo, reply>>
      <3>1. LocalShape' /\ DOMAIN result' = Procs /\ at'[p] = "write evaluation"
        BY <2>2 DEF IndexInv, Known, LocalShape, Stations
      <3>2. Known'
        BY <2>2, <3>1 DEF IndexInv, Known
      <3>3. Keeps(p)
        BY <2>2 DEF IndexInv, Known, LocalShape, Keeps
      <3>4. RootStep(p)
        BY <2>1, <3>1, LeavesTheRoot DEF Compared, Evaluating
      <3> QED
        BY <2>2, <3>1, <3>2, <3>3, <3>4 DEF Goal, OwnStep, Indexing
    <2> QED
      BY <1>1, <1>5, <2>1, <2>2 DEF CompareLabels
  <1>6. CASE WriteEvaluation(p)
    <2>1. at[p] = "write evaluation" /\ UNCHANGED <<readOnly, summary, decisions, index>>
      BY <1>6 DEF WriteEvaluation
    <2>2. Decided \in readOnly
      BY <2>1 DEF PublicationInv, EvaluatesTheFrozen, Evaluating
    <2>3. CASE End(p, "failed") /\ UNCHANGED <<files, evaluation>>
      BY <1>1, <2>1, <2>3 DEF root
    <2>4. CASE /\ files[Evaluated] = "missing" /\ Goto(p, "seal evaluation")
               /\ files' = [files EXCEPT ![Evaluated] = "whole"]
      <3>1. Known' /\ Keeps(p) /\ Holds(p) /\ at'[p] = "seal evaluation"
        BY <1>3, <2>4 DEF Evaluating
      <3>2. \A g \in Names : files'[g] = IF g = Evaluated THEN "whole" ELSE files[g]
        BY <2>4 DEF PublicationInv, RootShape
      <3>3. RootStep(p)
        BY <2>1, <2>2, <2>4, <3>1, <3>2, FilesFacts DEF RootStep, IndexInv, IndexIsLast,
           ReadOnlyExists, Compared, Evaluating, PublicationInv, RootShape
      <3> QED
        BY <3>1, <3>3 DEF Goal, OwnStep, Holds, Indexing
    <2> QED
      BY <1>6, <2>3, <2>4 DEF WriteEvaluation
  <1>7. CASE SealEvaluation(p)
    <2>1. /\ at[p] = "seal evaluation" /\ readOnly' = readOnly \cup {Evaluated}
          /\ UNCHANGED <<files, index>> /\ Goto(p, "open index")
      BY <1>7 DEF SealEvaluation
    <2>2. at[p] \in Compared
      BY <2>1 DEF Compared, Evaluating
    <2>3. Known' /\ Keeps(p) /\ Holds(p) /\ at'[p] = "open index"
      BY <1>3, <2>1 DEF Evaluating
    <2>4. RootStep(p)
      BY <1>2, <2>1, <2>2, <2>3, FilesFacts DEF RootStep, IndexInv, IndexIsLast, ReadOnlyExists
    <2> QED
      BY <1>7, <2>3, <2>4 DEF Goal, OwnStep, Holds, Indexing
  <1>8. CASE OpenIndex(p)
    <2>1. at[p] = "open index" /\ at[p] \in Indexing /\ at[p] \in Compared
          /\ UNCHANGED <<files, summary, decisions, index, evaluation>>
      BY <1>8 DEF OpenIndex, Indexing, Compared, Evaluating
    <2>2. CASE End(p, "failed") /\ UNCHANGED readOnly
      BY <1>1, <2>1, <2>2 DEF root
    <2>3. CASE /\ files[Index] # "missing" /\ Goto(p, "remove index")
               /\ readOnly' = readOnly \ {Index}
      <3>1. Known' /\ Keeps(p) /\ Holds(p) /\ at'[p] = "remove index"
        BY <1>3, <2>3 DEF Evaluating
      <3>2. RootStep(p)
        BY <1>2, <2>1, <2>3, <3>1, FilesFacts DEF RootStep, IndexInv, IndexIsLast, ReadOnlyExists
      <3> QED
        BY <2>1, <3>1, <3>2 DEF Goal, OwnStep, Holds, Indexing
    <2> QED
      BY <1>8, <2>2, <2>3 DEF OpenIndex
  <1>9. CASE RemoveIndex(p)
    <2>1. /\ at[p] \in Indexing /\ at[p] \in Compared
          /\ files' = [files EXCEPT ![Index] = "missing"] /\ readOnly' = readOnly \ {Index}
          /\ index' = {} /\ Goto(p, "rewrite index")
      BY <1>9 DEF RemoveIndex, Indexing, Compared, Evaluating
    <2>2. Known' /\ Keeps(p) /\ Holds(p) /\ at'[p] = "rewrite index"
      BY <1>3, <2>1 DEF Evaluating
    <2>3. \A g \in Names : files'[g] = IF g = Index THEN "missing" ELSE files[g]
      BY <2>1 DEF PublicationInv, RootShape
    <2>4. \A g \in readOnly : g \in Names
      BY DEF PublicationInv, RootShape
    <2>5. RootStep(p)
      BY <1>2, <2>1, <2>2, <2>3, <2>4, FilesFacts DEF RootStep, IndexInv, ReadOnlyExists
    <2> QED
      BY <2>1, <2>2, <2>5 DEF Goal, OwnStep, Holds, Indexing
  <1>10. CASE RewriteIndex(p)
    <2>1. /\ at[p] \in Indexing /\ at[p] \in Compared
          /\ UNCHANGED <<readOnly, summary, decisions, evaluation>>
      BY <1>10 DEF RewriteIndex, Indexing, Compared, Evaluating
    <2>2. CASE End(p, "failed") /\ UNCHANGED <<files, index>>
      BY <1>1, <2>1, <2>2 DEF root
    <2>3. CASE /\ files[Index] = "missing" /\ Goto(p, "seal index")
               /\ files' = [files EXCEPT ![Index] = "whole"] /\ index' = Present
      <3>1. Known' /\ Keeps(p) /\ Holds(p) /\ at'[p] = "seal index"
        BY <1>3, <2>3 DEF Evaluating
      <3>2. \A g \in Names : files'[g] = IF g = Index THEN "whole" ELSE files[g]
        BY <2>3 DEF PublicationInv, RootShape
      <3>3. \A g \in Names \ {Index} : files[g] = "whole"
        BY <1>2, <2>1 DEF Names, Aggregate
      <3>4. RootStep(p)
        BY <1>2, <2>1, <2>3, <3>1, <3>2, <3>3, FilesFacts DEF RootStep, Present, IndexInv,
           ReadOnlyExists
      <3> QED
        BY <1>10, <2>1, <3>1, <3>4 DEF Goal, OwnStep, Holds
    <2> QED
      BY <1>10, <2>2, <2>3 DEF RewriteIndex
  <1>11. CASE SealIndex(p)
    <2>1. /\ at[p] = "seal index" /\ End(p, "evaluated") /\ readOnly' = readOnly \cup {Index}
          /\ UNCHANGED <<files, index>>
      BY <1>11 DEF SealIndex
    <2>2. at[p] \in Compared /\ files[Index] = "whole"
      BY <2>1 DEF Compared, Evaluating, IndexInv, IndexIsRewritten
    <2>3. Known' /\ Keeps(p) /\ Ended(p, "evaluated")
      BY <2>1, EndKeeps DEF IndexInv, Replies
    <2>4. RootStep(p)
      BY <1>2, <2>1, <2>2, <2>3, FilesFacts DEF RootStep, Ended, IndexInv, IndexIsLast,
         ReadOnlyExists, Compared, Evaluating
    <2> QED
      BY <1>11, <2>3, <2>4 DEF Goal, OwnStep, Ended, Indexing
  <1> QED
    BY <1>4, <1>5, <1>6, <1>7, <1>8, <1>9, <1>10, <1>11 DEF EvaluateStep

\* A process that stops tears at most the file it was about to create.
LEMMA StopMoves ==
  ASSUME IndexInv, PublicationInv, NEW p \in Procs, Stop(p)
  PROVE  RootStep(p) /\ OwnStep(p) /\ Known' /\ Keeps(p)
  <1>1. Known' /\ Keeps(p) /\ Ended(p, "failed")
    BY EndKeeps DEF Stop, IndexInv, Replies
  <1>2. UNCHANGED <<readOnly, index>>
    BY DEF Stop
  <1>3. \A f \in Names : \/ files'[f] = files[f]
                         \/ files[f] = "missing" /\ f \in Writing(p) /\ files'[f] = "torn"
    BY DEF Stop
  <1>4. Evaluated \in Writing(p) => Decided \in readOnly
    <2>1. Evaluated \in Writing(p) => at[p] = "write evaluation"
      BY FilesFacts DEF Writing, Writes, Aggregate
    <2> QED
      BY <2>1 DEF PublicationInv, EvaluatesTheFrozen, Evaluating
  <1>5. RootStep(p)
    BY <1>1, <1>2, <1>3, <1>4, FilesFacts DEF RootStep, Ended, Compared, Evaluating, IndexInv,
       IndexIsLast, ReadOnlyExists, PublicationInv, RootShape
  <1> QED
    BY <1>1, <1>5 DEF OwnStep, Ended, Indexing

-----------------------------------------------------------------------------
(* Such steps keep the index and the modes as they should be *)

\* Steps of these two kinds keep the index invariant.
LEMMA KeepsTheIndex ==
  ASSUME IndexInv, PublicationInv, PublicationInv', NEW p \in Procs,
         RootStep(p), OwnStep(p), Known', Keeps(p)
  PROVE  IndexInv'
  <1>1. \A f \in Names \ {Index} : files[f] # "missing" => files'[f] # "missing"
    BY DEF RootStep
  <1>2. readOnly \subseteq Names
    BY DEF PublicationInv, RootShape
  <1>3. ReadOnlyExists'
    <2> SUFFICES ASSUME NEW f \in readOnly' PROVE files'[f] # "missing"
      BY DEF ReadOnlyExists
    <2> QED
      BY <1>1, <1>2 DEF RootStep, IndexInv, ReadOnlyExists
  <1>4. EvaluationFollows'
    <2>1. files'[Evaluated] # "missing" => Decided \in readOnly'
      BY FilesFacts DEF RootStep, IndexInv, EvaluationFollows
    <2>2. ASSUME NEW q \in Procs, NEW r \in Procs, at'[q] \in Compared, at'[r] \in Compared
          PROVE  q = r
      <3>1. \A s \in Procs \ {p} : at'[s] = at[s]
        BY DEF Keeps
      <3>2. \A s \in Procs : at[s] \in Compared => files[Evaluated] = "whole"
        BY DEF PublicationInv, EvaluatesTheFrozen
      <3> QED
        BY <2>2, <3>1, <3>2 DEF RootStep, IndexInv, EvaluationFollows
    <2> QED
      BY <2>1, <2>2 DEF EvaluationFollows
  <1>5. IndexIsLast'
    <2>1. ASSUME files'[Index] = "whole", files[Index] = "whole", index' = index
          PROVE  /\ \A f \in Aggregate : files'[f] = "whole"
                 /\ \A f \in index' : files'[f] = "whole"
                 /\ (Present \ index)' \subseteq {Evaluated}
      <3>1. /\ \A f \in Aggregate : files[f] = "whole"
            /\ \A f \in index : files[f] = "whole" /\ f \in Names \ {Index}
            /\ Present \ index \subseteq {Evaluated}
        BY <2>1 DEF IndexInv, IndexIsLast
      <3>2. \A f \in Aggregate : files'[f] = "whole"
        BY <2>1, <3>1, FilesFacts DEF RootStep
      <3>3. \A f \in index' : files'[f] = "whole"
        BY <2>1, <3>1 DEF RootStep
      <3>4. Present' \subseteq Present \cup {Evaluated}
        BY <3>1 DEF Present, Names, Aggregate
      <3> QED
        BY <2>1, <3>1, <3>2, <3>3, <3>4
    <2>2. ASSUME files'[Index] = "whole",
                 \A f \in Names \ {Index} : files'[f] = files[f],
                 index' = Present, \A f \in Present : files[f] = "whole",
                 \A f \in Aggregate \ {Index} : files[f] = "whole"
          PROVE  /\ \A f \in Aggregate : files'[f] = "whole"
                 /\ \A f \in index' : files'[f] = "whole"
                 /\ (Present \ index)' \subseteq {Evaluated}
      <3>1. Present' = Present
        BY <2>2 DEF Present
      <3>2. Present \subseteq Names \ {Index}
        BY DEF Present
      <3> QED
        BY <2>2, <3>1, <3>2, FilesFacts
    <2>3. index' \subseteq Names \ {Index}
      BY DEF RootStep
    <2> QED
      BY <2>1, <2>2, <2>3 DEF RootStep, IndexIsLast
  <1>6. ASSUME NEW q \in Procs, reply[q] = "evaluated"
        PROVE  /\ Evaluated \in index' /\ {Evaluated, Index} \subseteq readOnly'
               /\ \A r \in Procs : at'[r] \notin Compared
    <2>1. /\ Evaluated \in index /\ {Evaluated, Index} \subseteq readOnly
          /\ \A r \in Procs : at[r] \notin Compared
      BY <1>6 DEF IndexInv, EvaluatedIsIndexed
    <2>2. files[Evaluated] # "missing" /\ files[Index] # "missing"
      BY <2>1 DEF IndexInv, ReadOnlyExists
    <2>3. index' = index /\ {Evaluated, Index} \subseteq readOnly' /\ at'[p] \notin Compared
      BY <2>1, <2>2, FilesFacts DEF RootStep
    <2> QED
      BY <2>1, <2>3 DEF Keeps
  <1>7. ASSUME SealIndex(p)
        PROVE  /\ Evaluated \in index' /\ {Evaluated, Index} \subseteq readOnly'
               /\ \A r \in Procs : at'[r] \notin Compared
    <2>1. at[p] = "seal index" /\ at[p] \in Compared /\ at[p] \in Indexing
      BY <1>7 DEF SealIndex, Compared, Evaluating, Indexing
    <2>2. Evaluated \in index /\ Evaluated \in readOnly
      BY <2>1 DEF IndexInv, IndexIsRewritten
    <2>3. index' = index /\ readOnly' = readOnly \cup {Index}
      BY <1>7 DEF SealIndex
    <2>4. at'[p] = "idle"
      BY <1>7 DEF SealIndex, End, IndexInv, Known, LocalShape
    <2>5. \A r \in Procs \ {p} : at'[r] \notin Compared
      BY <2>1 DEF Keeps, IndexInv, EvaluationFollows
    <2> QED
      BY <2>2, <2>3, <2>4, <2>5 DEF Compared, Evaluating
  <1>8. EvaluatedIsIndexed'
    <2>1. ASSUME NEW q \in Procs, reply'[q] = "evaluated"
          PROVE  (\E r \in Procs : reply[r] = "evaluated") \/ SealIndex(p)
      <3>1. CASE q = p
        <4>1. Finish(p) => reply'[p] # "evaluated"
          <5>1. Finish(p) => End(p, Status(p)) /\ Status(p) \in {"completed", "incomplete"}
            BY DEF Finish, Status
          <5> QED
            BY <5>1 DEF End, IndexInv, Known
        <4> QED
          BY <2>1, <3>1, <4>1 DEF OwnStep
      <3>2. CASE q # p
        BY <2>1, <3>2 DEF Keeps
      <3> QED
        BY <3>1, <3>2
    <2> QED
      BY <1>6, <1>7, <2>1 DEF EvaluatedIsIndexed
  <1>9. \A f \in Aggregate \ {Index} : f \in readOnly => f \in readOnly'
    BY FilesFacts DEF RootStep
  <1>10. /\ Index \in readOnly \/ files[Evaluated] # "missing" =>
              Index \in readOnly' \/ files'[Evaluated] # "missing"
         /\ files[Evaluated] # "missing" => files'[Evaluated] # "missing"
    BY <1>1, FilesFacts DEF RootStep
  <1>11. ASSUME NEW q \in Procs
         PROVE  (FreezeIsComplete(q) /\ SuccessIsReadOnly(q) /\ IndexIsRewritten(q))'
    <2>1. FreezeIsComplete(q) /\ SuccessIsReadOnly(q) /\ IndexIsRewritten(q)
      BY DEF IndexInv
    <2>2. CASE q # p
      <3>1. /\ at'[q] = at[q] /\ todo'[q] = todo[q] /\ reply'[q] = reply[q]
        BY <2>2 DEF Keeps
      <3>2. FreezeIsComplete(q)' /\ SuccessIsReadOnly(q)'
        BY <1>9, <1>10, <2>1, <3>1 DEF FreezeIsComplete, SuccessIsReadOnly
      <3>3. at[q] \in Indexing => Evaluated \in readOnly'
        BY <2>1, FilesFacts DEF RootStep, IndexIsRewritten
      <3>4. at[q] = "seal index" => Evaluated \in index' /\ files'[Index] = "whole"
        <4>1. at[q] = "seal index" => at[q] \in Compared
          BY DEF Compared, Evaluating
        <4>2. at[q] = "seal index" => at[p] \notin Compared
          BY <2>2, <4>1 DEF IndexInv, EvaluationFollows
        <4> QED
          BY <2>1, <4>2 DEF RootStep, IndexIsRewritten
      <3> QED
        BY <3>1, <3>2, <3>3, <3>4 DEF IndexIsRewritten
    <2>3. CASE q = p
      <3>1. FreezeIsComplete(p)'
        <4>1. CASE ListFiles(p)
          <5>1. todo'[p] = {f \in Names : files[f] # "missing"} /\ files' = files
                /\ at'[p] = "freeze"
            BY <4>1 DEF ListFiles, root, IndexInv, Known, LocalShape
          <5>2. Finished'
            BY <5>1 DEF PublicationInv, FreezesTheFinished
          <5> QED
            BY <5>1, <5>2, FilesFacts DEF FreezeIsComplete, Finished
        <4>2. CASE Freeze(p)
          <5>1. PICK f \in todo[p] :
                    /\ readOnly' = IF files[f] = "missing" THEN readOnly ELSE readOnly \cup {f}
                    /\ todo' = [todo EXCEPT ![p] = @ \ {f}]
            BY <4>2 DEF Freeze
          <5>2. files' = files /\ at[p] = "freeze" /\ todo'[p] = todo[p] \ {f}
            BY <4>2, <5>1 DEF Freeze, IndexInv, Known, LocalShape
          <5>3. Finished
            BY <5>2 DEF PublicationInv, FreezesTheFinished
          <5> QED
            BY <2>1, <2>3, <5>1, <5>2, <5>3, FilesFacts DEF FreezeIsComplete, Finished
        <4> QED
          BY <4>1, <4>2 DEF OwnStep, FreezeIsComplete
      <3>2. SuccessIsReadOnly(p)'
        <4>1. CASE Finish(p)
          <5>1. at[p] = "freeze" /\ todo[p] = {} /\ UNCHANGED root
            BY <4>1 DEF Finish
          <5> QED
            BY <2>1, <2>3, <5>1 DEF root, FreezeIsComplete, SuccessIsReadOnly
        <4>2. CASE SealIndex(p)
          <5>1. reply'[p] = "evaluated"
            BY <4>2 DEF SealIndex, End, IndexInv, Known
          <5> QED
            BY <5>1 DEF SuccessIsReadOnly
        <4>3. CASE reply'[p] = reply[p]
          BY <1>9, <1>10, <2>1, <2>3, <4>3 DEF SuccessIsReadOnly
        <4> QED
          BY <4>1, <4>2, <4>3 DEF OwnStep, SuccessIsReadOnly
      <3>3. at'[p] \in Indexing => Evaluated \in readOnly'
        <4>1. SealEvaluation(p) => Evaluated \in readOnly'
          BY DEF SealEvaluation
        <4>2. at[p] \in Indexing => Evaluated \in readOnly'
          BY <2>1, <2>3, FilesFacts DEF RootStep, IndexIsRewritten
        <4> QED
          BY <4>1, <4>2 DEF OwnStep
      <3>4. at'[p] = "seal index" => Evaluated \in index' /\ files'[Index] = "whole"
        <4> SUFFICES ASSUME at'[p] = "seal index"
                     PROVE  Evaluated \in index' /\ files'[Index] = "whole"
          OBVIOUS
        <4>1. RewriteIndex(p)
          BY DEF OwnStep
        <4>2. at'[p] # "idle"
          OBVIOUS
        <4>3. files[Index] = "missing"
          <5>1. End(p, "failed") => at'[p] = "idle"
            BY DEF End, IndexInv, Known, LocalShape
          <5> QED
            BY <4>1, <4>2, <5>1 DEF RewriteIndex
        <4>4. /\ at[p] \in Compared /\ files' = [files EXCEPT ![Index] = "whole"]
              /\ index' = Present
          BY <4>1, <4>3 DEF RewriteIndex, Compared, Evaluating
        <4>5. files[Evaluated] = "whole"
          BY <4>4 DEF PublicationInv, EvaluatesTheFrozen
        <4> QED
          BY <4>4, <4>5, FilesFacts DEF Present, PublicationInv, RootShape
      <3> QED
        BY <2>3, <3>1, <3>2, <3>3, <3>4 DEF IndexIsRewritten
    <2> QED
      BY <2>2, <2>3
  <1> QED
    BY <1>3, <1>4, <1>5, <1>8, <1>11 DEF IndexInv

\* What leaves the root and the processes alone keeps it, too.
LEMMA StillIndexed ==
  ASSUME IndexInv, UNCHANGED <<root, locals>>
  PROVE  IndexInv'
  <1>1. UNCHANGED <<files, readOnly, index, at, next, outcomes, todo, result, reply>>
    BY DEF root, locals
  <1>2. Known' /\ ReadOnlyExists' /\ EvaluationFollows' /\ IndexIsLast' /\ EvaluatedIsIndexed'
    BY <1>1 DEF IndexInv, Known, LocalShape, ReadOnlyExists, EvaluationFollows, IndexIsLast,
       Present, EvaluatedIsIndexed
  <1>3. \A p \in Procs :
            (FreezeIsComplete(p) /\ SuccessIsReadOnly(p) /\ IndexIsRewritten(p))'
    BY <1>1 DEF IndexInv, FreezeIsComplete, SuccessIsReadOnly, IndexIsRewritten
  <1> QED
    BY <1>2, <1>3 DEF IndexInv

-----------------------------------------------------------------------------
(* Preflight is global *)

\* Another program has not changed the input of a case since it was checked.
Right(c) == inputs[c] = Manifest[c].sarif

Checking == {"preflight", "recheck"}

\* Where a run is when it has checked its inputs.
Checked == {"adapter", "cases", "root", "finalize", "freeze"}

\* No process holds anything while it is idle, and a run has checked the cases
\* it has passed.
CheckedSoFar(p) ==
    /\ at[p] \in Checking => \A c \in Cases : c < next[p] => Right(c)
    /\ at[p] \in Checked => \A c \in Cases : Right(c)

IdleHoldsNothing(p) ==
    at[p] = "idle" => next[p] = 1 /\ outcomes[p] = <<>> /\ todo[p] = {}

InputsInv ==
    /\ inputs \in [Cases -> Contents] /\ baseline \in Baselines
    /\ incidents \in 0 .. MaxIncidents /\ exchanged \subseteq Cases /\ touched \in BOOLEAN
    /\ \A p \in Procs : IdleHoldsNothing(p)
    /\ exchanged = {} =>
          /\ touched => \A c \in Cases : Right(c)
          /\ \A p \in Procs : CheckedSoFar(p)

\* What a step of a process does with the inputs: it looks at the next one.
InputStep(p) ==
    /\ UNCHANGED <<inputs, baseline, exchanged>>
    /\ incidents' = incidents \/ Incident("stop")
    /\ touched' = touched \/ (touched' = TRUE /\ at[p] = "adapter")
    /\ at'[p] \in Checking =>
          \/ next'[p] = 1
          \/ at[p] \in Checking /\ next'[p] = next[p] + 1 /\ Right(next[p])
    /\ at'[p] \in Checked =>
          at[p] \in Checked \/ (at[p] \in Checking /\ next[p] > Len(Manifest))
    /\ IdleHoldsNothing(p)'

\* What the validators of the manifest promise of every case.
LEMMA ManifestFacts ==
    /\ Len(Manifest) \in Nat /\ Cases = 1 .. Len(Manifest)
    /\ \A c \in Cases : /\ Manifest[c].mode \in {"triage", "audit_only"}
                        /\ Manifest[c].sarif \in Contents
                        /\ Results[Manifest[c].sarif] \in Nat
  <1> DEFINE S == [mode : {"triage", "audit_only"}, sarif : Contents, prefix : STRING]
  <1>1. Manifest \in Seq(S)
    BY ExperimentAssumption DEF ValidManifest
  <1>2. Len(Manifest) \in Nat /\ Cases = 1 .. Len(Manifest) /\ \A c \in Cases : Manifest[c] \in S
    <2> HIDE DEF S
    <2> QED
      BY <1>1 DEF Cases
  <1> QED
    BY <1>2, ExperimentAssumption

\* A command that ends has nothing left to check.
LEMMA EndLooks ==
  ASSUME IndexInv, NEW p \in Procs, NEW how \in Replies, End(p, how),
         UNCHANGED <<inputs, baseline, exchanged, touched>>,
         incidents' = incidents \/ Incident("stop")
  PROVE  InputStep(p)
  <1>1. Ended(p, how)
    BY EndKeeps DEF IndexInv
  <1> QED
    BY <1>1 DEF InputStep, Ended, Checking, Checked, IdleHoldsNothing

\* A run goes on to the model only after the last case was checked.
LEMMA GotoLooks ==
  ASSUME IndexInv, NEW p \in Procs, NEW where \in Stations, Goto(p, where), where # "idle",
         UNCHANGED <<inputs, baseline, exchanged, incidents>>,
         touched' = touched \/ (touched' = TRUE /\ at[p] = "adapter"),
         where \in Checked =>
            at[p] \in Checked \/ (at[p] \in Checking /\ next[p] > Len(Manifest))
  PROVE  InputStep(p)
  <1>1. at'[p] = where /\ next'[p] = 1
    BY GotoKeeps DEF IndexInv
  <1> QED
    BY <1>1 DEF InputStep, IdleHoldsNothing

\* The steps of a run up to its outcomes.
LEMMA RunLooks ==
  ASSUME IndexInv, InputsInv, NEW p \in Procs, Call(p) \/ Run(p)
  PROVE  InputStep(p)
  <1>1. /\ LocalShape /\ next[p] \in Nat /\ at \in [Procs -> Stations]
        /\ IdleHoldsNothing(p)
    BY DEF IndexInv, Known, LocalShape, InputsInv
  <1>2. CASE Call(p)
    <2>1. /\ at[p] = "idle" /\ at'[p] \in {"preflight", "require"} /\ next'[p] = next[p]
          /\ UNCHANGED <<inputs, baseline, exchanged, incidents, touched>>
      BY <1>1, <1>2 DEF Call, outside
    <2> QED
      BY <1>1, <2>1 DEF InputStep, IdleHoldsNothing, Checking, Checked
  <1>3. CASE Preflight(p)
    <2>1. /\ at[p] \in Checking
          /\ UNCHANGED <<inputs, baseline, exchanged, incidents, touched>>
      BY <1>3 DEF Preflight, outside, Checking
    <2>2. ASSUME NEW how \in {"ok", "failed"}, End(p, how) PROVE InputStep(p)
      BY <2>1, <2>2, EndLooks DEF Replies
    <2>3. ASSUME NEW where \in {"recheck", "adapter", "cases"}, Goto(p, where),
                 next[p] > Len(Manifest)
          PROVE  InputStep(p)
      <3>1. where \in Stations /\ where # "idle"
        BY DEF Stations
      <3> QED
        BY <2>1, <2>3, <3>1, GotoLooks
    <2>4. CASE Repeat(p) /\ ~ next[p] > Len(Manifest) /\ inputs[next[p]] = Manifest[next[p]].sarif
      <3>1. at'[p] = at[p] /\ next'[p] = next[p] + 1
        BY <2>4, RepeatKeeps DEF IndexInv
      <3> QED
        BY <2>1, <2>4, <3>1 DEF InputStep, IdleHoldsNothing, Right, Checking, Checked
    <2> QED
      BY <1>3, <2>2, <2>3, <2>4 DEF Preflight, AfterPreflight
  <1>4. CASE MakeAdapter(p)
    <2>1. "recheck" \in Stations /\ "recheck" \notin Checked
      BY DEF Stations, Checked
    <2> QED
      BY <1>4, <2>1, GotoLooks DEF MakeAdapter, outside
  <1>5. CASE RunCase(p)
    <2>1. /\ at[p] \in Checked /\ at[p] = "cases"
          /\ UNCHANGED <<inputs, baseline, exchanged, incidents, touched>>
      BY <1>5 DEF RunCase, outside, Checked
    <2>2. CASE Goto(p, "root")
      <3>1. "root" \in Stations
        BY DEF Stations
      <3> QED
        BY <2>1, <2>2, <3>1, GotoLooks
    <2>3. CASE UNCHANGED at
      BY <2>1, <2>3 DEF InputStep, IdleHoldsNothing, Checking
    <2> QED
      BY <1>5, <2>2, <2>3 DEF RunCase
  <1> QED
    BY <1>2, <1>3, <1>4, <1>5 DEF Run

\* Finalization does not look at the inputs again.
LEMMA FinalizeLooks ==
  ASSUME IndexInv, NEW p \in Procs, Finalize(p)
  PROVE  InputStep(p)
  <1>1. ASSUME NEW f \in Names, Writes(p, f), Create(p, f),
               UNCHANGED <<inputs, baseline, exchanged, incidents, touched>>
        PROVE  InputStep(p)
    <2>1. at[p] = "finalize"
      BY <1>1 DEF Writes
    <2>2. CASE End(p, "failed")
      BY <1>1, <2>2, EndLooks DEF Replies
    <2>3. CASE Repeat(p)
      <3>1. at'[p] = at[p]
        BY <2>3, RepeatKeeps DEF IndexInv
      <3> QED
        BY <1>1, <2>1, <3>1 DEF InputStep, IdleHoldsNothing, Checking, Checked
    <2> QED
      BY <1>1, <2>2, <2>3 DEF Create
  <1>2. ASSUME NEW how \in Replies, End(p, how), UNCHANGED <<outside, touched>>
        PROVE  InputStep(p)
    BY <1>2, EndLooks DEF outside
  <1>3. CASE CheckRoot(p)
    <2>1. "finalize" \in Stations /\ "failed" \in Replies
      BY DEF Stations, Replies
    <2>2. at[p] \in Checked /\ UNCHANGED <<inputs, baseline, exchanged, incidents, touched>>
      BY <1>3 DEF CheckRoot, Checked, outside
    <2>3. CASE Goto(p, "finalize")
      BY <2>1, <2>2, <2>3, GotoLooks
    <2> QED
      BY <1>2, <1>3, <2>1, <2>3 DEF CheckRoot
  <1>4. CASE WriteSummary(p) \/ WriteIndex(p)
    BY <1>1, <1>4, FilesFacts DEF WriteSummary, WriteIndex, outside
  <1>5. CASE WriteDecisions(p)
    BY <1>1, <1>2, <1>5, FilesFacts DEF WriteDecisions, outside, Replies
  <1>6. CASE WriteHistorical(p)
    <2>1. Historical \in Names
      BY <1>6 DEF WriteHistorical, Writes, Names
    <2> QED
      BY <1>1, <1>2, <1>6, <2>1 DEF WriteHistorical, outside, Replies
  <1>7. CASE WriteOther(p)
    BY <1>1, <1>7 DEF WriteOther, outside
  <1>8. CASE ListFiles(p)
    <2>1. at[p] = "finalize" /\ at'[p] = "freeze"
      BY <1>8 DEF ListFiles, IndexInv, Known, LocalShape
    <2>2. UNCHANGED <<inputs, baseline, exchanged, incidents, touched>>
      BY <1>8 DEF ListFiles, outside
    <2> QED
      BY <2>1, <2>2 DEF InputStep, IdleHoldsNothing, Checking, Checked
  <1>9. CASE Freeze(p)
    <2>1. at[p] = "freeze" /\ at' = at
          /\ UNCHANGED <<inputs, baseline, exchanged, incidents, touched>>
      BY <1>9 DEF Freeze, outside
    <2> QED
      BY <2>1 DEF InputStep, IdleHoldsNothing, Checking, Checked
  <1>10. CASE Finish(p)
    BY <1>2, <1>10 DEF Finish, Status, Replies
  <1>11. CASE FreezeMisses(p)
    BY <1>2, <1>11 DEF FreezeMisses, Replies
  <1> QED
    BY <1>3, <1>4, <1>5, <1>6, <1>7, <1>8, <1>9, <1>10, <1>11 DEF Finalize

\* An evaluation does not look at the inputs of the cases.
LEMMA EvaluateLooks ==
  ASSUME IndexInv, NEW p \in Procs, EvaluateStep(p)
  PROVE  InputStep(p)
  <1>1. UNCHANGED <<inputs, baseline, exchanged, incidents, touched>>
    BY DEF EvaluateStep, Require, CompareLabels, WriteEvaluation, SealEvaluation, OpenIndex,
       RemoveIndex, RewriteIndex, SealIndex, outside
  <1>2. ASSUME NEW how \in Replies, End(p, how) PROVE InputStep(p)
    BY <1>1, <1>2, EndLooks
  <1>3. ASSUME NEW where \in Evaluating, Goto(p, where) PROVE InputStep(p)
    <2>1. where \in Stations /\ where # "idle" /\ where \notin Checked
      BY DEF Evaluating, Stations, Checked
    <2> QED
      BY <1>1, <1>3, <2>1, GotoLooks
  <1>4. CASE CompareLabels(p) /\ ~ End(p, "failed")
    <2>1. at'[p] = "write evaluation"
      BY <1>4 DEF CompareLabels, IndexInv, Known, LocalShape
    <2> QED
      BY <1>1, <2>1 DEF InputStep, IdleHoldsNothing, Checking, Checked
  <1>5. "failed" \in Replies /\ "evaluated" \in Replies
    BY DEF Replies
  <1> QED
    BY <1>2, <1>3, <1>4, <1>5 DEF EvaluateStep, Require, CompareLabels, WriteEvaluation,
       SealEvaluation, OpenIndex, RemoveIndex, RewriteIndex, SealIndex, Evaluating

\* A process that stops has nothing left to check.
LEMMA StopLooks ==
  ASSUME IndexInv, NEW p \in Procs, Stop(p)
  PROVE  InputStep(p)
  BY EndLooks DEF Stop, Replies

\* Steps of this kind keep the input invariant.
LEMMA KeepsTheInputs ==
  ASSUME IndexInv, InputsInv, NEW p \in Procs, InputStep(p), Keeps(p), Known'
  PROVE  InputsInv'
  <1>1. /\ UNCHANGED <<inputs, baseline, exchanged>> /\ touched' \in BOOLEAN
        /\ \A c \in Cases : Right(c)' <=> Right(c)
    BY DEF InputStep, InputsInv, Right
  <1>2. incidents' \in 0 .. MaxIncidents
    BY ExperimentAssumption DEF InputStep, Incident, InputsInv
  <1>3. ASSUME NEW q \in Procs PROVE IdleHoldsNothing(q)'
    <2>1. CASE q = p
      BY <2>1 DEF InputStep
    <2>2. CASE q # p
      BY <2>2 DEF Keeps, InputsInv, IdleHoldsNothing
    <2> QED
      BY <2>1, <2>2
  <1>4. ASSUME exchanged = {}, NEW q \in Procs PROVE CheckedSoFar(q)'
    <2>1. CheckedSoFar(q) /\ CheckedSoFar(p)
      BY <1>4 DEF InputsInv
    <2>2. next[p] \in Nat
      BY DEF IndexInv, Known, LocalShape
    <2>3. CASE q # p
      BY <1>1, <2>1, <2>3 DEF Keeps, CheckedSoFar
    <2>4. CASE q = p
      <3>1. at'[p] \in Checking => \A c \in Cases : c < next'[p] => Right(c)
        BY <2>1, <2>2, ManifestFacts DEF InputStep, CheckedSoFar
      <3>2. at'[p] \in Checked => \A c \in Cases : Right(c)
        BY <2>1, <2>2, ManifestFacts DEF InputStep, CheckedSoFar
      <3> QED
        BY <1>1, <2>4, <3>1, <3>2 DEF CheckedSoFar
    <2> QED
      BY <2>3, <2>4
  <1>5. ASSUME exchanged = {}, touched' PROVE \A c \in Cases : Right(c)
    <2>1. CASE at[p] = "adapter"
      BY <1>5, <2>1 DEF InputsInv, CheckedSoFar, Checked
    <2> QED
      BY <1>5, <2>1 DEF InputStep, InputsInv
  <1>6. exchanged' \subseteq Cases /\ baseline' \in Baselines /\ inputs' \in [Cases -> Contents]
    BY <1>1 DEF InputsInv
  <1> QED
    BY <1>1, <1>2, <1>3, <1>4, <1>5, <1>6 DEF InputsInv

\* Incidents keep it: an exchange is remembered, a review has a baseline.
LEMMA IncidentKeepsTheInputs ==
  ASSUME IndexInv, InputsInv, Exchange \/ Review \/ UNCHANGED vars
  PROVE  InputsInv'
  <1>1. UNCHANGED locals /\ touched' \in BOOLEAN /\ touched' = touched
    BY DEF Exchange, Review, vars, InputsInv
  <1>2. \A p \in Procs : IdleHoldsNothing(p)'
    BY <1>1 DEF locals, InputsInv, IdleHoldsNothing
  <1>3. incidents' \in 0 .. MaxIncidents
    BY ExperimentAssumption DEF Exchange, Review, vars, outside, InputsInv, Incident
  <1>4. inputs' \in [Cases -> Contents] /\ baseline' \in Baselines /\ exchanged' \subseteq Cases
    BY DEF Exchange, Review, vars, outside, InputsInv
  <1>5. CASE Exchange
    <2>1. exchanged' # {}
      BY <1>5 DEF Exchange
    <2> QED
      BY <1>1, <1>2, <1>3, <1>4, <2>1 DEF InputsInv
  <1>6. CASE Review \/ UNCHANGED vars
    <2>1. UNCHANGED <<inputs, exchanged, at, next>>
      BY <1>6 DEF Review, vars, outside, locals
    <2>2. \A c \in Cases : Right(c)' <=> Right(c)
      BY <2>1 DEF Right
    <2>3. \A p \in Procs : CheckedSoFar(p) => CheckedSoFar(p)'
      BY <2>1, <2>2 DEF CheckedSoFar
    <2> QED
      BY <1>1, <1>2, <1>3, <1>4, <2>1, <2>2, <2>3 DEF InputsInv
  <1> QED
    BY <1>5, <1>6

\* The first inputs are any, and nobody has relied on them.
LEMMA FirstInputs == Init => InputsInv
  <1> SUFFICES ASSUME Init PROVE InputsInv
    OBVIOUS
  <1>1. incidents \in 0 .. MaxIncidents
    BY ExperimentAssumption DEF Init
  <1> QED
    BY <1>1 DEF Init, InputsInv, IdleHoldsNothing, CheckedSoFar, Checking, Checked

-----------------------------------------------------------------------------
(* What the triages report *)

AllReports == [sarif : Contents, index : Nat, label : Labels]
AllOutcomes ==
    [status : {"audit_only", "failed", "completed"},
     reports : {r \in SUBSET AllReports : IsFiniteSet(r)}, alerts : Nat]

\* A triage decides every result of the SARIF it read, and nothing else.
LEMMA TriagesFacts ==
  ASSUME NEW s \in Contents, NEW r \in Triages(s)
  PROVE  /\ r \in SUBSET AllReports /\ IsFiniteSet(r)
         /\ {Identity(x) : x \in r} = {<<s, i>> : i \in 0 .. Results[s] - 1}
  <1>1. Results[s] \in Nat /\ RunLabels \subseteq Labels
    BY ExperimentAssumption
  <1> DEFINE D == 0 .. Results[s] - 1
  <1>2. PICK label \in [D -> RunLabels] :
            r = {[sarif |-> s, index |-> i, label |-> label[i]] : i \in DOMAIN label}
    BY DEF Triages
  <1>3. DOMAIN label = D /\ \A i \in D : i \in Nat /\ label[i] \in Labels
    BY <1>1, <1>2
  <1>4. IsFiniteSet(D)
    BY <1>1, FS_Interval
  <1> DEFINE f == [i \in D |-> [sarif |-> s, index |-> i, label |-> label[i]]]
  <1>5. r = {f[i] : i \in D}
    BY <1>2, <1>3
  <1>6. \A i \in D : f[i] \in AllReports /\ Identity(f[i]) = <<s, i>>
    BY <1>3 DEF AllReports, Identity
  <1>7. f \in [D -> r]
    BY <1>5
  <1> HIDE DEF f, D
  <1>8. IsFiniteSet(r)
    BY <1>4, <1>5, <1>7, Onto
  <1>9. {Identity(x) : x \in r} = {<<s, i>> : i \in D}
    BY <1>5, <1>6
  <1> QED
    BY <1>5, <1>6, <1>8, <1>9 DEF D

\* A case that completed reports the triage of the SARIF that is there.
LEMMA OutcomeFacts ==
  ASSUME NEW c \in Cases, inputs[c] \in Contents, NEW o \in CaseOutcomes(c)
  PROVE  /\ o \in AllOutcomes
         /\ o.status = "audit_only" <=> Manifest[c].mode = "audit_only"
         /\ o.status = "completed" => o.reports \in Triages(inputs[c])
  <1> DEFINE expected == Results[Manifest[c].sarif]
  <1>1. expected \in Nat
    BY ManifestFacts
  <1>2. ASSUME NEW status \in {"audit_only", "failed"}, o = Outcome(status, {}, expected)
        PROVE  o \in AllOutcomes /\ o.status = status
    BY <1>1, <1>2, FS_EmptySet DEF Outcome, AllOutcomes
  <1>3. ASSUME NEW r \in Triages(inputs[c]), o = Outcome("completed", r, Cardinality(r))
        PROVE  o \in AllOutcomes /\ o.status = "completed" /\ o.reports = r
    <2>1. r \in SUBSET AllReports /\ IsFiniteSet(r) /\ Cardinality(r) \in Nat
      BY TriagesFacts, FS_CardinalityType
    <2> QED
      BY <1>3, <2>1 DEF Outcome, AllOutcomes
  <1>4. CASE Manifest[c].mode = "audit_only"
    BY <1>2, <1>4 DEF CaseOutcomes
  <1>5. CASE Manifest[c].mode # "audit_only"
    BY <1>2, <1>3, <1>5 DEF CaseOutcomes
  <1> QED
    BY <1>4, <1>5

\* The reports of finitely many cases, each with its case, are finite.
LEMMA TaggedUnion ==
  ASSUME NEW D, IsFiniteSet(D), NEW f, \A i \in D : IsFiniteSet(f[i])
  PROVE  IsFiniteSet(UNION {{<<i, r>> : r \in f[i]} : i \in D})
  <1> DEFINE Tagged(i) == {<<i, r>> : r \in f[i]}
             Family == {Tagged(i) : i \in D}
  <1>1. ASSUME NEW i \in D PROVE IsFiniteSet(Tagged(i))
    <2> DEFINE g == [r \in f[i] |-> <<i, r>>]
    <2>1. g \in [f[i] -> Tagged(i)] /\ \A t \in Tagged(i) : \E r \in f[i] : g[r] = t
      OBVIOUS
    <2> HIDE DEF g, Tagged
    <2> QED
      BY <2>1, Onto
  <1>2. IsFiniteSet(Family)
    <2> DEFINE g == [i \in D |-> Tagged(i)]
    <2>1. g \in [D -> Family] /\ \A t \in Family : \E i \in D : g[i] = t
      OBVIOUS
    <2> HIDE DEF g, Family
    <2> QED
      BY <2>1, Onto
  <1>3. \A t \in Family : IsFiniteSet(t)
    BY <1>1
  <1> HIDE DEF Family
  <1>4. IsFiniteSet(UNION Family)
    BY <1>2, <1>3, FS_UNION
  <1> QED
    BY <1>4 DEF Family

\* Without a duplicate every report of a run is one decision.
LEMMA ReportsFacts ==
  ASSUME NEW p \in Procs, outcomes[p] \in Seq(AllOutcomes)
  PROVE  /\ IsFiniteSet(Reports(p)) /\ IsFiniteSet(Occurrences(p))
         /\ \A x \in Reports(p) : x = <<x[1], x[2]>> /\ x[1] \in Completed(p)
                                     /\ x[2] \in outcomes[p][x[1]].reports
         /\ \A r \in Occurrences(p) : r \in AllReports
         /\ ~ Duplicated(p) =>
               /\ Cardinality(Occurrences(p)) = Cardinality(Reports(p))
               /\ Consistent(Occurrences(p))
  <1> DEFINE D == Completed(p)
             f == [i \in D |-> outcomes[p][i].reports]
  <1>1. D \subseteq 1 .. Len(outcomes[p]) /\ Len(outcomes[p]) \in Nat
    BY DEF Completed
  <1>2. IsFiniteSet(D)
    <2>1. IsFiniteSet(1 .. Len(outcomes[p]))
      BY <1>1, FS_Interval
    <2> QED
      BY <1>1, <2>1, FS_Subset
  <1>3. \A i \in D : /\ outcomes[p][i].reports \in SUBSET AllReports
                     /\ IsFiniteSet(outcomes[p][i].reports)
    <2>1. \A i \in D : outcomes[p][i] \in AllOutcomes
      BY <1>1
    <2> QED
      BY <2>1 DEF AllOutcomes
  <1>4. Reports(p) = UNION {{<<i, r>> : r \in f[i]} : i \in D}
    BY DEF Reports
  <1>5. IsFiniteSet(Reports(p))
    <2>1. \A i \in D : IsFiniteSet(f[i])
      BY <1>3
    <2> HIDE DEF f, D
    <2> QED
      BY <1>2, <1>4, <2>1, TaggedUnion
  <1>6. \A x \in Reports(p) : x = <<x[1], x[2]>> /\ x[1] \in D
                                 /\ x[2] \in outcomes[p][x[1]].reports
    BY DEF Reports
  <1> DEFINE g == [x \in Reports(p) |-> x[2]]
  <1>7. /\ g \in [Reports(p) -> Occurrences(p)]
        /\ \A t \in Occurrences(p) : \E x \in Reports(p) : g[x] = t
    BY DEF Occurrences
  <1>8. IsFiniteSet(Occurrences(p))
    <2> HIDE DEF g
    <2> QED
      BY <1>5, <1>7, Onto
  <1>9. \A r \in Occurrences(p) : r \in AllReports
    BY <1>3, <1>6 DEF Occurrences
  <1>10. ASSUME ~ Duplicated(p)
         PROVE  /\ Cardinality(Occurrences(p)) = Cardinality(Reports(p))
                /\ Consistent(Occurrences(p))
    <2>1. \A x, y \in Reports(p) : Identity(x[2]) = Identity(y[2]) => x = y
      BY <1>10 DEF Duplicated
    <2>2. \A x, y \in Reports(p) : g[x] = g[y] => x = y
      BY <2>1
    <2>3. Consistent(Occurrences(p))
      BY <2>1 DEF Consistent, Occurrences
    <2>4. Cardinality(Occurrences(p)) = Cardinality(Reports(p))
      <3> HIDE DEF g
      <3> QED
        BY <1>5, <1>7, <2>2, SameSize
    <2> QED
      BY <2>3, <2>4
  <1> QED
    BY <1>5, <1>6, <1>8, <1>9, <1>10

-----------------------------------------------------------------------------
(* What the aggregate tells is what its owner found *)

\* Where a run is when it has outcomes.
Working == {"cases", "root", "finalize", "freeze"}

\* A run that wrote its summary.
Summed(p) == (at[p] = "finalize" /\ next[p] > 2) \/ at[p] = "freeze"

\* An outcome is about its case: audited only if the manifest says so, and
\* completed with a decision for every alert of the SARIF that was checked.
Tells(o, c) ==
    /\ o.status = "audit_only" <=> Manifest[c].mode = "audit_only"
    /\ o.status = "completed" =>
          \E s \in Contents :
             o.reports \in Triages(s) /\ (exchanged = {} => s = Manifest[c].sarif)

OutcomesTell(p) ==
    /\ outcomes[p] \in Seq(AllOutcomes) /\ Len(outcomes[p]) <= Len(Manifest)
    /\ at[p] \notin Working => outcomes[p] = <<>>
    /\ at[p] = "cases" => Len(outcomes[p]) = next[p] - 1
    /\ at[p] \in Working \ {"cases"} => Len(outcomes[p]) = Len(Manifest)
    /\ \A c \in DOMAIN outcomes[p] : Tells(outcomes[p][c], c)

SummaryIsTheOwners(p) == Summed(p) => summary = SummaryOf(p)

SuccessTellsTheStatus(p) ==
    reply[p] \in {"completed", "incomplete"} => summary.status = reply[p]

DecidedIsCounted ==
    /\ SummaryCountsTheDecisions
    /\ files[Decided] = "whole" =>
          /\ files[Summary] = "whole"
          /\ IsFiniteSet(decisions) /\ Consistent(decisions) /\ decisions \subseteq AllReports

EvaluationCovers(e) ==
    e \in Evaluations /\ \E b \in Baselines : Counts(e, b, decisions)

ResultCovers(p) == at[p] = "write evaluation" => EvaluationCovers(result[p])

DataInv ==
    /\ DecidedIsCounted
    /\ files[Evaluated] = "whole" => EvaluationCovers(evaluation)
    /\ \A p \in Procs :
          /\ OutcomesTell(p) /\ SummaryIsTheOwners(p) /\ SuccessTellsTheStatus(p)
          /\ ResultCovers(p)

-----------------------------------------------------------------------------
(* What a step of one process tells *)

\* The outcomes are given up, kept, or one longer.
Collects(p) ==
    \/ outcomes'[p] = <<>> /\ at'[p] \notin Working
    \/ /\ outcomes'[p] = outcomes[p]
       /\ \/ at[p] \notin Working /\ at'[p] \notin Working
          \/ at[p] = "recheck" /\ at'[p] = "cases" /\ next'[p] = 1
          \/ at[p] = "cases" /\ next[p] > Len(Manifest) /\ at'[p] = "root"
          \/ at[p] \in Working \ {"cases"} /\ at'[p] \in Working \ {"cases"}
    \/ /\ at[p] = "cases" /\ at'[p] = "cases" /\ next[p] <= Len(Manifest)
       /\ next'[p] = next[p] + 1
       /\ \E o \in CaseOutcomes(next[p]) : outcomes'[p] = Append(outcomes[p], o)

\* Files that are there keep what they tell; new ones tell what the process
\* holds.
Publishes(p) ==
    /\ files[Summary] # "missing" => summary' = summary
    /\ files[Decided] # "missing" => decisions' = decisions
    /\ files[Evaluated] # "missing" => evaluation' = evaluation
    /\ files'[Decided] = "whole" =>
          files[Decided] = "whole" \/ (WriteDecisions(p) /\ files[Decided] = "missing")
    /\ files'[Evaluated] = "whole" =>
          \/ files[Evaluated] = "whole"
          \/ at[p] = "write evaluation" /\ evaluation' = result[p] /\ decisions' = decisions
    /\ evaluation' = evaluation \/ files'[Evaluated] = "whole"

Promises(p) ==
    /\ Summed(p)' =>
          outcomes'[p] = outcomes[p] /\ (Summed(p) \/ summary' = SummaryOf(p))
    /\ reply'[p] = reply[p] \/ reply'[p] \notin {"completed", "incomplete"} \/ Finish(p)
    /\ at'[p] = "write evaluation" => CompareLabels(p)

DataStep(p) == Collects(p) /\ Publishes(p) /\ Promises(p)

\* A command that ends, or goes on, without writing anything.
LEMMA EndTells ==
  ASSUME IndexInv, NEW p \in Procs, NEW how \in Replies, End(p, how), UNCHANGED root,
         how \notin {"completed", "incomplete"} \/ Finish(p)
  PROVE  DataStep(p)
  <1>1. Ended(p, how)
    BY EndKeeps DEF IndexInv
  <1>2. Collects(p)
    BY <1>1 DEF Collects, Ended, Working
  <1>3. Publishes(p)
    BY DEF Publishes, root
  <1>4. Promises(p)
    BY <1>1 DEF Promises, Ended, Summed
  <1> QED
    BY <1>2, <1>3, <1>4 DEF DataStep

\* The first file is not the summary.
LEMMA FirstIsNotSummed ==
  ASSUME NEW p, next'[p] = 1, at'[p] # "freeze"
  PROVE  ~ Summed(p)'
  BY DEF Summed

\* A command that goes on tells nothing new.
LEMMA GotoTells ==
  ASSUME IndexInv, NEW p \in Procs, NEW where \in Stations, Goto(p, where), UNCHANGED root,
         where # "freeze", where # "write evaluation",
         \/ at[p] \notin Working /\ where \notin Working
         \/ at[p] = "recheck" /\ where = "cases"
         \/ at[p] = "cases" /\ next[p] > Len(Manifest) /\ where = "root"
         \/ at[p] \in Working \ {"cases"} /\ where \in Working \ {"cases"}
  PROVE  DataStep(p)
  <1>1. at'[p] = where /\ next'[p] = 1 /\ Holds(p)
    BY GotoKeeps DEF IndexInv
  <1>2. Collects(p)
    BY <1>1 DEF Collects, Holds
  <1>3. Publishes(p)
    BY DEF Publishes, root
  <1>4. Promises(p)
    <2>1. ~ Summed(p)'
      BY <1>1, FirstIsNotSummed
    <2>2. reply'[p] = reply[p] /\ at'[p] # "write evaluation"
      BY <1>1 DEF Holds
    <2> QED
      BY <2>1, <2>2 DEF Promises
  <1> QED
    BY <1>2, <1>3, <1>4 DEF DataStep

\* The steps of a run up to its outcomes: one more outcome for each case.
LEMMA RunTells ==
  ASSUME IndexInv, NEW p \in Procs, Call(p) \/ Run(p)
  PROVE  DataStep(p)
  <1>1. CASE Call(p)
    <2>1. /\ at[p] = "idle" /\ at'[p] \in {"preflight", "require"} /\ reply'[p] = "none"
          /\ outcomes'[p] = outcomes[p] /\ UNCHANGED root
      BY <1>1 DEF Call, IndexInv, Known, LocalShape
    <2> QED
      BY <2>1 DEF DataStep, Collects, Publishes, Promises, Working, Summed, root
  <1>2. CASE Preflight(p)
    <2>1. at[p] \in Checking /\ UNCHANGED root /\ at[p] \notin Working
      BY <1>2 DEF Preflight, Checking, Working
    <2>2. ASSUME NEW how \in {"ok", "failed"}, End(p, how) PROVE DataStep(p)
      BY <2>1, <2>2, EndTells DEF Replies
    <2>3. ASSUME NEW where \in {"recheck", "adapter"}, Goto(p, where) PROVE DataStep(p)
      <3>1. where \in Stations /\ where \notin Working
        BY DEF Stations, Working
      <3> QED
        BY <2>1, <2>3, <3>1, GotoTells
    <2>4. CASE at[p] = "recheck" /\ Goto(p, "cases")
      BY <2>1, <2>4, GotoTells DEF Stations
    <2>5. CASE Repeat(p)
      <3>1. at'[p] = at[p] /\ Holds(p)
        BY <2>5, RepeatKeeps DEF IndexInv
      <3> QED
        BY <2>1, <3>1 DEF DataStep, Collects, Publishes, Promises, Holds, Summed, root,
           Checking
    <2> QED
      BY <1>2, <2>2, <2>3, <2>4, <2>5 DEF Preflight, AfterPreflight
  <1>3. CASE MakeAdapter(p)
    BY <1>3, GotoTells DEF MakeAdapter, Stations, Working
  <1>4. CASE RunCase(p)
    <2>1. at[p] = "cases" /\ UNCHANGED root
      BY <1>4 DEF RunCase
    <2>2. CASE next[p] > Len(Manifest)
      BY <1>4, <2>1, <2>2, GotoTells DEF RunCase, Stations
    <2>3. CASE ~ next[p] > Len(Manifest)
      <3>1. PICK o \in CaseOutcomes(next[p]) :
                outcomes' = [outcomes EXCEPT ![p] = Append(@, o)]
        BY <1>4, <2>3 DEF RunCase
      <3>2. /\ next' = [next EXCEPT ![p] = @ + 1] /\ UNCHANGED <<at, todo, result, reply>>
        BY <1>4, <2>3 DEF RunCase
      <3>3. /\ outcomes'[p] = Append(outcomes[p], o) /\ next'[p] = next[p] + 1
        BY <3>1, <3>2 DEF IndexInv, Known, LocalShape
      <3>4. next[p] <= Len(Manifest)
        BY <2>3, ManifestFacts DEF IndexInv, Known, LocalShape
      <3>5. Collects(p)
        BY <2>1, <3>2, <3>3, <3>4 DEF Collects
      <3>6. Publishes(p) /\ Promises(p)
        BY <2>1, <3>2 DEF Publishes, Promises, Summed, root
      <3> QED
        BY <3>5, <3>6 DEF DataStep
    <2> QED
      BY <2>2, <2>3
  <1> QED
    BY <1>1, <1>2, <1>3, <1>4 DEF Run

\* The summary is the second file and the decisions are the third.
LEMMA SecondAndThird ==
    /\ 2 \in DOMAIN Files /\ Files[2] = Summary /\ 3 \in DOMAIN Files /\ Files[3] = Decided
    /\ \A i, j \in DOMAIN Files : Files[i] = Files[j] => i = j
  <1> DEFINE S == STRING \cup {"preflight.json", Summary, Decided, Historical, Index}
  <1>1. /\ Rendered \in Seq(S) /\ "preflight.json" \in S /\ Summary \in S /\ Decided \in S
        /\ Historical \in S /\ Index \in S
    BY ExperimentAssumption
  <1> HIDE DEF S
  <1>2. /\ DOMAIN Files = 1 .. Len(Files) /\ Len(Files) \in Nat /\ Len(Files) >= 5
        /\ Files[2] = Summary /\ Files[3] = Decided
    BY <1>1, SequenceOfFiles DEF Files
  <1> QED
    BY <1>2, ExperimentAssumption

\* A step that creates a file of the aggregate.
LEMMA CreateTells ==
  ASSUME IndexInv, PublicationInv, NEW p \in Procs, NEW f \in Names, Writes(p, f), Create(p, f),
         f # Summary => UNCHANGED summary,
         f = Summary => summary' = Keep(Summary, summary, SummaryOf(p)),
         f # Decided => UNCHANGED decisions,
         f = Decided => WriteDecisions(p) /\ decisions' = Keep(Decided, decisions, Occurrences(p)),
         UNCHANGED evaluation
  PROVE  DataStep(p)
  <1>1. at[p] = "finalize" /\ next[p] \in DOMAIN Files /\ f = Files[next[p]] /\ f # Evaluated
    BY FilesFacts DEF Writes, Aggregate
  <1>2. next[p] \in Nat \ {0}
    BY DEF IndexInv, Known, LocalShape
  <1>3. CASE files[f] # "missing"
    <2>1. Ended(p, "failed") /\ UNCHANGED <<files, readOnly>>
      BY <1>3, EndKeeps DEF Create, IndexInv, Replies
    <2>2. Publishes(p)
      BY <1>3, <2>1 DEF Publishes, Keep
    <2> QED
      BY <2>1, <2>2 DEF DataStep, Collects, Promises, Ended, Working, Summed
  <1>4. CASE files[f] = "missing"
    <2>1. /\ Holds(p) /\ at'[p] = at[p] /\ next'[p] = next[p] + 1
          /\ files' = [files EXCEPT ![f] = "whole"]
      BY <1>4, RepeatKeeps DEF Create, IndexInv
    <2>2. \A g \in Names : files'[g] = IF g = f THEN "whole" ELSE files[g]
      BY <2>1 DEF PublicationInv, RootShape
    <2>3. Publishes(p)
      BY <1>1, <1>4, <2>2, FilesFacts DEF Publishes, Keep
    <2>4. Collects(p)
      BY <1>1, <2>1 DEF Collects, Holds, Working
    <2>5. Promises(p)
      <3>1. next'[p] > 2 => next[p] > 2 \/ next[p] = 2
        BY <1>2, <2>1
      <3>2. next[p] = 2 => summary' = SummaryOf(p)
        BY <1>1, <1>4, SecondAndThird DEF Keep
      <3> QED
        BY <1>1, <2>1, <3>1, <3>2 DEF Promises, Holds, Summed
    <2> QED
      BY <2>3, <2>4, <2>5 DEF DataStep
  <1> QED
    BY <1>3, <1>4

\* Finalization writes the summary and the decisions of its outcomes.
LEMMA FinalizeTells ==
  ASSUME IndexInv, PublicationInv, NEW p \in Procs, Finalize(p)
  PROVE  DataStep(p)
  <1>1. ASSUME End(p, "failed"), UNCHANGED root PROVE DataStep(p)
    BY <1>1, EndTells DEF Replies
  <1>2. ASSUME NEW f \in Names \ {Summary, Decided}, Writes(p, f), Create(p, f),
               UNCHANGED <<summary, decisions, evaluation>>
        PROVE  DataStep(p)
    BY <1>2, CreateTells
  <1>3. Summary # Decided
    BY DEF Summary, Decided
  <1>4. CASE CheckRoot(p)
    BY <1>1, <1>4, GotoTells DEF CheckRoot, Stations, Working
  <1>5. CASE WriteSummary(p)
    BY <1>3, <1>5, CreateTells, FilesFacts DEF WriteSummary
  <1>6. CASE WriteDecisions(p)
    <2>1. CASE Duplicated(p)
      BY <1>1, <1>6, <2>1 DEF WriteDecisions, root
    <2>2. CASE ~ Duplicated(p)
      <3>1. /\ Writes(p, Decided) /\ Create(p, Decided)
            /\ decisions' = Keep(Decided, decisions, Occurrences(p))
            /\ UNCHANGED <<summary, evaluation>>
        BY <1>6, <2>2 DEF WriteDecisions
      <3> QED
        BY <1>3, <1>6, <3>1, CreateTells, FilesFacts
    <2> QED
      BY <2>1, <2>2
  <1>7. CASE WriteHistorical(p)
    <2>1. Historical \in Names \ {Summary, Decided}
      BY <1>7 DEF WriteHistorical, Writes, Names, Historical, Summary, Decided
    <2> QED
      BY <1>1, <1>2, <1>7, <2>1 DEF WriteHistorical, root
  <1>8. CASE WriteOther(p)
    BY <1>2, <1>8 DEF WriteOther
  <1>9. CASE WriteIndex(p)
    BY <1>2, <1>9, FilesFacts DEF WriteIndex
  <1>10. CASE ListFiles(p)
    <2>1. /\ at[p] = "finalize" /\ next[p] > Len(Files) /\ at'[p] = "freeze"
          /\ UNCHANGED <<outcomes, reply, root>>
      BY <1>10 DEF ListFiles, IndexInv, Known, LocalShape
    <2>2. Summed(p)
      <3>1. next[p] \in Nat
        BY DEF IndexInv, Known, LocalShape
      <3> QED
        BY <2>1, <3>1, FilesFacts DEF Summed
    <2> QED
      BY <2>1, <2>2 DEF DataStep, Collects, Publishes, Promises, Working, root
  <1>11. CASE Freeze(p)
    <2>1. /\ at[p] = "freeze"
          /\ UNCHANGED <<files, summary, decisions, index, evaluation, at, next, outcomes, reply>>
      BY <1>11 DEF Freeze
    <2> QED
      BY <2>1 DEF DataStep, Collects, Publishes, Promises, Working, Summed
  <1>12. CASE Finish(p)
    BY <1>12, EndTells DEF Finish, Status, Replies
  <1>13. CASE FreezeMisses(p)
    BY <1>13, EndTells DEF FreezeMisses, Replies
  <1> QED
    BY <1>4, <1>5, <1>6, <1>7, <1>8, <1>9, <1>10, <1>11, <1>12, <1>13 DEF Finalize

\* An evaluation writes what it computed, and touches no decision.
LEMMA EvaluateTells ==
  ASSUME IndexInv, PublicationInv, NEW p \in Procs, EvaluateStep(p)
  PROVE  DataStep(p)
  <1> DEFINE Same == UNCHANGED <<summary, decisions, evaluation>>
  <1>1. ASSUME End(p, "failed"), UNCHANGED root PROVE DataStep(p)
    BY <1>1, EndTells DEF Replies
  <1>2. ASSUME at[p] \notin Working, NEW where \in Evaluating \ {"write evaluation"},
               Goto(p, where), Same, UNCHANGED <<files[Decided], files[Evaluated]>>
        PROVE  DataStep(p)
    <2>1. where \in Stations /\ where \notin Working
      BY DEF Evaluating, Stations, Working
    <2>2. at'[p] = where /\ Holds(p)
      BY <1>2, <2>1, GotoKeeps DEF IndexInv
    <2> QED
      BY <1>2, <2>1, <2>2 DEF DataStep, Collects, Publishes, Promises, Holds, Summed, Working
  <1>3. CASE Require(p)
    <2>1. UNCHANGED root /\ at[p] \notin Working
      BY <1>3 DEF Require, Working
    <2>2. CASE Goto(p, "compare")
      BY <1>2, <2>1, <2>2 DEF root, Evaluating
    <2> QED
      BY <1>1, <1>3, <2>1, <2>2 DEF Require
  <1>4. CASE CompareLabels(p)
    <2>1. UNCHANGED root /\ at[p] = "compare"
      BY <1>4 DEF CompareLabels
    <2>2. CASE at' = [at EXCEPT ![p] = "write evaluation"] /\ UNCHANGED <<outcomes, reply>>
      <3>1. at'[p] = "write evaluation"
        BY <2>2 DEF IndexInv, Known, LocalShape
      <3> QED
        BY <1>4, <2>1, <2>2, <3>1 DEF DataStep, Collects, Publishes, Promises, Working, Summed,
           root
    <2> QED
      BY <1>1, <1>4, <2>1, <2>2 DEF CompareLabels
  <1>5. CASE WriteEvaluation(p)
    <2>1. at[p] = "write evaluation" /\ UNCHANGED <<readOnly, summary, decisions, index>>
      BY <1>5 DEF WriteEvaluation
    <2>2. CASE End(p, "failed") /\ UNCHANGED <<files, evaluation>>
      BY <1>1, <2>1, <2>2 DEF root
    <2>3. CASE /\ files[Evaluated] = "missing" /\ Goto(p, "seal evaluation")
               /\ files' = [files EXCEPT ![Evaluated] = "whole"] /\ evaluation' = result[p]
      <3>1. at'[p] = "seal evaluation" /\ Holds(p)
        BY <2>3, GotoKeeps DEF IndexInv, Stations
      <3>2. files'[Decided] = files[Decided] /\ files'[Evaluated] = "whole"
        BY <2>3, FilesFacts DEF PublicationInv, RootShape
      <3> QED
        BY <2>1, <2>3, <3>1, <3>2 DEF DataStep, Collects, Publishes, Promises, Holds, Summed,
           Working
    <2> QED
      BY <1>5, <2>2, <2>3 DEF WriteEvaluation
  <1>6. CASE SealEvaluation(p)
    BY <1>2, <1>6 DEF SealEvaluation, Working, Evaluating
  <1>7. CASE OpenIndex(p)
    <2>1. UNCHANGED <<files, summary, decisions, index, evaluation>> /\ at[p] \notin Working
      BY <1>7 DEF OpenIndex, Working
    <2>2. CASE Goto(p, "remove index")
      BY <1>2, <2>1, <2>2 DEF Evaluating
    <2> QED
      BY <1>1, <1>7, <2>1, <2>2 DEF OpenIndex, root
  <1>8. CASE RemoveIndex(p)
    <2>1. /\ Goto(p, "rewrite index") /\ files' = [files EXCEPT ![Index] = "missing"] /\ Same
          /\ at[p] \notin Working
      BY <1>8 DEF RemoveIndex, Working
    <2>2. UNCHANGED <<files[Decided], files[Evaluated]>>
      BY <2>1, FilesFacts DEF PublicationInv, RootShape
    <2> QED
      BY <1>2, <2>1, <2>2 DEF Evaluating
  <1>9. CASE RewriteIndex(p)
    <2>1. Same /\ at[p] \notin Working /\ UNCHANGED readOnly
      BY <1>9 DEF RewriteIndex, Working
    <2>2. CASE Goto(p, "seal index") /\ files' = [files EXCEPT ![Index] = "whole"]
      <3>1. UNCHANGED <<files[Decided], files[Evaluated]>>
        BY <2>2, FilesFacts DEF PublicationInv, RootShape
      <3> QED
        BY <1>2, <2>1, <2>2, <3>1 DEF Evaluating
    <2> QED
      BY <1>1, <1>9, <2>1, <2>2 DEF RewriteIndex, root
  <1>10. CASE SealIndex(p)
    <2>1. End(p, "evaluated") /\ UNCHANGED <<files, summary, decisions, evaluation>>
      BY <1>10 DEF SealIndex
    <2>2. Ended(p, "evaluated")
      BY <2>1, EndKeeps DEF IndexInv, Replies
    <2> QED
      BY <2>1, <2>2 DEF DataStep, Collects, Publishes, Promises, Ended, Working, Summed
  <1> QED
    BY <1>3, <1>4, <1>5, <1>6, <1>7, <1>8, <1>9, <1>10 DEF EvaluateStep

\* A process that stops publishes nothing.
LEMMA StopTells ==
  ASSUME IndexInv, PublicationInv, NEW p \in Procs, Stop(p)
  PROVE  DataStep(p)
  <1>1. Ended(p, "failed") /\ UNCHANGED <<summary, decisions, evaluation>>
    BY EndKeeps DEF Stop, IndexInv, Replies
  <1>2. \A f \in Names : files'[f] = files[f] \/ files'[f] = "torn"
    BY DEF Stop
  <1> QED
    BY <1>1, <1>2, FilesFacts DEF DataStep, Collects, Publishes, Promises, Ended, Working, Summed

-----------------------------------------------------------------------------
(* Such steps keep what the aggregate tells *)

SummaryFrom(os) ==
    LET completed == {i \in DOMAIN os : os[i].status = "completed"}
    IN  [status |-> IF \E i \in DOMAIN os : os[i].status = "failed"
                    THEN "incomplete" ELSE "completed",
         cases |-> [i \in DOMAIN os |-> os[i].status],
         decided |-> Cardinality(UNION {{<<i, r>> : r \in os[i].reports} : i \in completed})]

\* An experiment without a failed case decided every alert of its manifest.
LEMMA CompletedCovers ==
  ASSUME NEW p \in Procs, OutcomesTell(p), Len(outcomes[p]) = Len(Manifest),
         Status(p) = "completed", exchanged = {}
  PROVE  {Identity(r) : r \in Occurrences(p)} =
            UNION {{<<Manifest[c].sarif, i>> : i \in 0 .. Results[Manifest[c].sarif] - 1} :
                       c \in {d \in Cases : Manifest[d].mode = "triage"}}
  <1> DEFINE Alerts(c) == {<<Manifest[c].sarif, i>> : i \in 0 .. Results[Manifest[c].sarif] - 1}
             Triaged == {d \in Cases : Manifest[d].mode = "triage"}
  <1>1. DOMAIN outcomes[p] = Cases
    BY ManifestFacts DEF OutcomesTell
  <1>2. \A c \in Cases : outcomes[p][c] \in AllOutcomes /\ outcomes[p][c].status # "failed"
    BY <1>1 DEF OutcomesTell, Status
  <1>3. \A c \in Cases : c \in Completed(p) <=> c \in Triaged
    <2> SUFFICES ASSUME NEW c \in Cases PROVE c \in Completed(p) <=> c \in Triaged
      OBVIOUS
    <2>1. outcomes[p][c].status \in {"audit_only", "completed"}
      BY <1>2 DEF AllOutcomes
    <2>2. outcomes[p][c].status = "audit_only" <=> Manifest[c].mode = "audit_only"
      BY <1>1 DEF OutcomesTell, Tells
    <2>3. Manifest[c].mode \in {"triage", "audit_only"}
      BY ManifestFacts
    <2> QED
      BY <1>1, <2>1, <2>2, <2>3 DEF Completed
  <1>4. \A c \in Triaged : {Identity(r) : r \in outcomes[p][c].reports} = Alerts(c)
    <2> SUFFICES ASSUME NEW c \in Triaged
                 PROVE  {Identity(r) : r \in outcomes[p][c].reports} = Alerts(c)
      OBVIOUS
    <2>1. outcomes[p][c].status = "completed"
      BY <1>3 DEF Completed
    <2>2. outcomes[p][c].reports \in Triages(Manifest[c].sarif)
      BY <1>1, <2>1 DEF OutcomesTell, Tells
    <2>3. Manifest[c].sarif \in Contents
      BY ManifestFacts
    <2> QED
      BY <2>2, <2>3, TriagesFacts
  <1>5. \A c \in Triaged : \A r \in outcomes[p][c].reports : Identity(r) \in Alerts(c)
    BY <1>4
  <1>6. \A c \in Triaged : \A a \in Alerts(c) : \E r \in outcomes[p][c].reports : a = Identity(r)
    BY <1>4
  <1>7. \A r : r \in Occurrences(p) <=> \E c \in Triaged : r \in outcomes[p][c].reports
    <2>1. Completed(p) = Triaged
      BY <1>1, <1>3 DEF Completed
    <2>2. \A x \in Reports(p) : x[1] \in Completed(p) /\ x[2] \in outcomes[p][x[1]].reports
      BY ReportsFacts DEF OutcomesTell
    <2>3. \A i \in Completed(p) : \A r \in outcomes[p][i].reports :
             <<i, r>> \in Reports(p) /\ <<i, r>>[2] = r
      BY DEF Reports
    <2> HIDE DEF Triaged
    <2> QED
      BY <2>1, <2>2, <2>3 DEF Occurrences
  <1> HIDE DEF Alerts, Triaged
  <1>8. {Identity(r) : r \in Occurrences(p)} = UNION {Alerts(c) : c \in Triaged}
    BY <1>5, <1>6, <1>7
  <1> QED
    BY <1>8 DEF Alerts, Triaged

\* Outcomes told by their parts.
LEMMA StillTells ==
  ASSUME UNCHANGED exchanged, NEW q \in Procs,
         outcomes'[q] \in Seq(AllOutcomes), Len(outcomes'[q]) <= Len(Manifest),
         at'[q] \notin Working => outcomes'[q] = <<>>,
         at'[q] = "cases" => Len(outcomes'[q]) = next'[q] - 1,
         at'[q] \in Working \ {"cases"} => Len(outcomes'[q]) = Len(Manifest),
         \A c \in DOMAIN outcomes'[q] : Tells(outcomes'[q][c], c)
  PROVE  OutcomesTell(q)'
  BY DEF OutcomesTell, Tells

\* The outcomes of every run stay about the first cases of the manifest.
LEMMA KeepsTheOutcomes ==
  ASSUME IndexInv, InputsInv, DataInv, NEW p \in Procs, InputStep(p), Collects(p), Keeps(p),
         Known', NEW q \in Procs
  PROVE  OutcomesTell(q)'
  <1>1. OutcomesTell(q)
    BY DEF DataInv
  <1>2. UNCHANGED exchanged
    BY DEF InputStep
  <1>4. CASE q # p
    <2>1. at'[q] = at[q] /\ next'[q] = next[q] /\ outcomes'[q] = outcomes[q]
      BY <1>4 DEF Keeps
    <2> QED
      BY <1>1, <1>2, <2>1, StillTells DEF OutcomesTell
  <1>5. CASE q = p /\ outcomes'[p] = <<>> /\ at'[p] \notin Working
    <2>1. "cases" \in Working
      BY DEF Working
    <2>2. Len(Manifest) \in Nat
      BY ManifestFacts
    <2>3. /\ outcomes'[q] \in Seq(AllOutcomes) /\ Len(outcomes'[q]) = 0
          /\ \A c \in DOMAIN outcomes'[q] : Tells(outcomes'[q][c], c)
      BY <1>5
    <2>4. Len(outcomes'[q]) <= Len(Manifest)
      BY <2>2, <2>3
    <2> QED
      BY <1>2, <1>5, <2>1, <2>3, <2>4, StillTells
  <1>6. CASE /\ q = p /\ outcomes'[p] = outcomes[p]
             /\ \/ at[p] \notin Working /\ at'[p] \notin Working
                \/ at[p] = "recheck" /\ at'[p] = "cases" /\ next'[p] = 1
                \/ at[p] = "cases" /\ next[p] > Len(Manifest) /\ at'[p] = "root"
                \/ at[p] \in Working \ {"cases"} /\ at'[p] \in Working \ {"cases"}
    <2>1. next[p] \in Nat /\ Len(outcomes[p]) \in Nat /\ Len(Manifest) \in Nat
      BY <1>1, <1>6, ManifestFacts DEF IndexInv, Known, LocalShape, OutcomesTell
    <2>2. /\ outcomes'[p] \in Seq(AllOutcomes) /\ Len(outcomes'[p]) <= Len(Manifest)
          /\ \A c \in DOMAIN outcomes'[p] : Tells(outcomes'[p][c], c)
      BY <1>1, <1>6 DEF OutcomesTell
    <2>3. /\ at'[p] \notin Working => outcomes'[p] = <<>>
          /\ at'[p] = "cases" => Len(outcomes'[p]) = next'[p] - 1
          /\ at'[p] \in Working \ {"cases"} => Len(outcomes'[p]) = Len(Manifest)
      BY <1>1, <1>6, <2>1 DEF OutcomesTell, Working
    <2> QED
      BY <1>2, <1>6, <2>2, <2>3, StillTells
  <1>7. CASE /\ q = p /\ at[p] = "cases" /\ at'[p] = "cases" /\ next[p] <= Len(Manifest)
             /\ next'[p] = next[p] + 1
             /\ \E o \in CaseOutcomes(next[p]) : outcomes'[p] = Append(outcomes[p], o)
    <2>1. PICK o \in CaseOutcomes(next[p]) : outcomes'[p] = Append(outcomes[p], o)
      BY <1>7
    <2>2. next[p] \in Nat \ {0} /\ Len(Manifest) \in Nat /\ next[p] \in Cases
      BY <1>7, ManifestFacts DEF IndexInv, Known, LocalShape
    <2>3. inputs[next[p]] \in Contents
      BY <2>2 DEF InputsInv
    <2>4. o \in AllOutcomes /\ Tells(o, next[p])
      <3>1. exchanged = {} => inputs[next[p]] = Manifest[next[p]].sarif
        BY <1>7, <2>2 DEF InputsInv, CheckedSoFar, Checked, Right
      <3> QED
        BY <2>2, <2>3, <3>1, OutcomeFacts DEF Tells
    <2>5. outcomes[p] \in Seq(AllOutcomes) /\ Len(outcomes[p]) = next[p] - 1
      BY <1>1, <1>7 DEF OutcomesTell
    <2>6. /\ outcomes'[p] \in Seq(AllOutcomes) /\ Len(outcomes'[p]) = next[p]
          /\ \A c \in DOMAIN outcomes'[p] :
                c = next[p] \/ (c \in DOMAIN outcomes[p] /\ outcomes'[p][c] = outcomes[p][c])
          /\ outcomes'[p][next[p]] = o
      BY <2>1, <2>2, <2>4, <2>5
    <2>7. \A c \in DOMAIN outcomes'[p] : Tells(outcomes'[p][c], c)
      BY <1>1, <1>7, <2>4, <2>6 DEF OutcomesTell
    <2>8. at'[p] \in Working /\ at'[p] \notin Working \ {"cases"}
      BY <1>7 DEF Working
    <2> QED
      <3>1. Len(outcomes'[q]) <= Len(Manifest) /\ Len(outcomes'[q]) = next'[q] - 1
        BY <1>7, <2>2, <2>6
      <3>2. /\ outcomes'[q] \in Seq(AllOutcomes)
            /\ \A c \in DOMAIN outcomes'[q] : Tells(outcomes'[q][c], c)
        BY <1>7, <2>6, <2>7
      <3> QED
        BY <1>2, <1>7, <2>8, <3>1, <3>2, StillTells
  <1> QED
    BY <1>4, <1>5, <1>6, <1>7 DEF Collects

\* The summary is the one of the run that writes on, and of the run that
\* succeeded.
LEMMA KeepsTheSummary ==
  ASSUME IndexInv, PublicationInv, DataInv, NEW p \in Procs, Publishes(p), Promises(p), Keeps(p),
         NEW q \in Procs
  PROVE  SummaryIsTheOwners(q)' /\ SuccessTellsTheStatus(q)'
  <1>1. SummaryIsTheOwners(q) /\ SuccessTellsTheStatus(q) /\ SummaryIsTheOwners(p)
    BY DEF DataInv
  <1>2. \A r \in Procs : Summed(r) => files[Summary] = "whole"
    <2> SUFFICES ASSUME NEW r \in Procs, Summed(r) PROVE files[Summary] = "whole"
      OBVIOUS
    <2>1. CASE at[r] = "finalize" /\ next[r] > 2
      BY <2>1, SecondAndThird DEF PublicationInv, WrittenInOrder
    <2>2. CASE at[r] = "freeze"
      BY <2>2, FilesFacts DEF PublicationInv, FreezesTheFinished, Finished
    <2> QED
      BY <2>1, <2>2 DEF Summed
  <1>3. \A r \in Procs : outcomes'[r] = outcomes[r] => SummaryOf(r)' = SummaryOf(r)
    <2> SUFFICES ASSUME NEW r \in Procs, outcomes'[r] = outcomes[r]
                 PROVE  SummaryOf(r)' = SummaryOf(r)
      OBVIOUS
    <2>1. SummaryOf(r) = SummaryFrom(outcomes[r])
      BY DEF SummaryOf, SummaryFrom, Status, Reports, Completed
    <2>2. SummaryOf(r)' = SummaryFrom(outcomes'[r])
      BY DEF SummaryOf, SummaryFrom, Status, Reports, Completed
    <2> QED
      BY <2>1, <2>2
  <1>4. SummaryIsTheOwners(q)'
    <2> SUFFICES ASSUME Summed(q)' PROVE summary' = SummaryOf(q)'
      BY DEF SummaryIsTheOwners
    <2>1. CASE q # p
      <3>1. Summed(q) /\ outcomes'[q] = outcomes[q]
        BY <2>1 DEF Keeps, Summed
      <3> QED
        BY <1>1, <1>2, <1>3, <3>1 DEF Publishes, SummaryIsTheOwners
    <2>2. CASE q = p
      <3>1. outcomes'[p] = outcomes[p] /\ (Summed(p) \/ summary' = SummaryOf(p))
        BY <2>2 DEF Promises
      <3> QED
        BY <1>1, <1>2, <1>3, <2>2, <3>1 DEF Publishes, SummaryIsTheOwners
    <2> QED
      BY <2>1, <2>2
  <1>5. SuccessTellsTheStatus(q)'
    <2>1. CASE reply'[q] = reply[q]
      <3>1. reply[q] \in {"completed", "incomplete"} => files[Summary] # "missing"
        BY FilesFacts DEF IndexInv, SuccessIsReadOnly, ReadOnlyExists
      <3> QED
        BY <1>1, <2>1, <3>1 DEF Publishes, SuccessTellsTheStatus
    <2>2. CASE q = p /\ Finish(p)
      <3>1. Summed(p) /\ End(p, Status(p)) /\ UNCHANGED root
        BY <2>2 DEF Finish, Summed
      <3>2. summary' = SummaryOf(p) /\ reply'[p] = Status(p)
        BY <1>1, <3>1 DEF SummaryIsTheOwners, End, IndexInv, Known, root
      <3> QED
        BY <2>2, <3>2 DEF SuccessTellsTheStatus, SummaryOf
    <2>3. CASE q = p /\ reply'[p] \notin {"completed", "incomplete"}
      BY <2>3 DEF SuccessTellsTheStatus
    <2> QED
      BY <2>1, <2>2, <2>3 DEF Promises, Keeps
  <1> QED
    BY <1>4, <1>5

\* Decisions appear beside the summary that counts them.
LEMMA KeepsTheDecisions ==
  ASSUME IndexInv, PublicationInv, InputsInv, DataInv, NEW p \in Procs,
         RootStep(p), InputStep(p), Publishes(p)
  PROVE  DecidedIsCounted'
  <1>1. UNCHANGED exchanged
    BY DEF InputStep
  <1> SUFFICES ASSUME files'[Decided] = "whole" PROVE DecidedIsCounted'
    BY DEF DecidedIsCounted, SummaryCountsTheDecisions
  <1>2. CASE files[Decided] = "whole"
    <2>1. /\ files[Summary] = "whole" /\ SummaryCountsTheDecisions
          /\ IsFiniteSet(decisions) /\ Consistent(decisions) /\ decisions \subseteq AllReports
      BY <1>2 DEF DataInv, DecidedIsCounted
    <2>2. summary' = summary /\ decisions' = decisions /\ files'[Summary] = "whole"
      BY <1>2, <2>1, FilesFacts DEF Publishes, RootStep
    <2> QED
      BY <1>1, <1>2, <2>1, <2>2 DEF DecidedIsCounted, SummaryCountsTheDecisions
  <1>3. CASE WriteDecisions(p) /\ files[Decided] = "missing"
    <2>1. ~ Duplicated(p)
      BY <1>3 DEF WriteDecisions
    <2>2. /\ at[p] = "finalize" /\ next[p] \in DOMAIN Files /\ Files[next[p]] = Decided
          /\ decisions' = Occurrences(p) /\ summary' = summary
      BY <1>3, <2>1 DEF WriteDecisions, Writes, Keep
    <2>3. next[p] = 3
      BY <2>2, SecondAndThird
    <2>4. files[Summary] = "whole" /\ summary = SummaryOf(p)
      <3>1. Summed(p)
        BY <2>2, <2>3 DEF Summed
      <3>2. files[Summary] = "whole"
        BY <2>2, <2>3, SecondAndThird DEF PublicationInv, WrittenInOrder
      <3> QED
        BY <3>1, <3>2 DEF DataInv, SummaryIsTheOwners
    <2>5. OutcomesTell(p) /\ Len(outcomes[p]) = Len(Manifest)
      BY <2>2 DEF DataInv, OutcomesTell, Working
    <2>6. /\ IsFiniteSet(Occurrences(p)) /\ Consistent(Occurrences(p))
          /\ \A r \in Occurrences(p) : r \in AllReports
          /\ Cardinality(Occurrences(p)) = Cardinality(Reports(p))
      <3>1. outcomes[p] \in Seq(AllOutcomes)
        BY <2>5 DEF OutcomesTell
      <3> QED
        BY <2>1, <3>1, ReportsFacts
    <2>7. SummaryOf(p).decided = Cardinality(Reports(p)) /\ SummaryOf(p).status = Status(p)
      BY DEF SummaryOf
    <2>8. summary'.decided = Cardinality(decisions')
      BY <2>2, <2>4, <2>6, <2>7
    <2>9. summary'.status = "completed" /\ exchanged' = {} =>
            {Identity(r) : r \in decisions'} =
               UNION {{<<Manifest[c].sarif, i>> : i \in 0 .. Results[Manifest[c].sarif] - 1} :
                          c \in {d \in Cases : Manifest[d].mode = "triage"}}
      BY <1>1, <2>2, <2>4, <2>5, <2>7, CompletedCovers
    <2>10. files'[Summary] = "whole"
      BY <2>4, FilesFacts DEF RootStep
    <2>11. IsFiniteSet(decisions') /\ Consistent(decisions') /\ decisions' \subseteq AllReports
      BY <2>2, <2>6
    <2> QED
      BY <2>8, <2>9, <2>10, <2>11 DEF DecidedIsCounted, SummaryCountsTheDecisions
  <1> QED
    BY <1>2, <1>3 DEF Publishes

\* The elements of a sequence, for sequences of records.
LEMMA ElementsOfSeq ==
  ASSUME NEW S, NEW s \in Seq(S)
  PROVE  \A i \in DOMAIN s : s[i] \in S
  OBVIOUS

\* What an evaluation computes covers the baseline and the decisions.
LEMMA ComparisonCovers ==
  ASSUME IndexInv, PublicationInv, InputsInv, DataInv, NEW p \in Procs, CompareLabels(p),
         at'[p] = "write evaluation"
  PROVE  EvaluationCovers(result'[p])
  <1>1. ~ End(p, "failed") /\ at[p] = "compare"
    BY DEF CompareLabels, End, IndexInv, Known, LocalShape
  <1>2. /\ \A i \in DOMAIN baseline : Bindable(baseline[i], decisions, Bindings)
        /\ NoDuplicates(baseline, Bindings)
        /\ result' = [result EXCEPT ![p] = Evaluate(decisions, baseline, Bindings)]
    BY <1>1 DEF CompareLabels, Bind
  <1>3. result'[p] = Evaluate(decisions, baseline, Bindings)
    BY <1>2 DEF IndexInv, Known
  <1>4. files[Decided] = "whole"
    <2>1. Decided \in readOnly
      BY <1>1 DEF PublicationInv, EvaluatesTheFrozen, Evaluating
    <2> QED
      BY <2>1, FilesFacts DEF PublicationInv, FrozenIsFinished, Finished
  <1>5. IsFiniteSet(decisions) /\ Consistent(decisions) /\ \A r \in decisions : r.label \in Labels
    BY <1>4 DEF DataInv, DecidedIsCounted, AllReports
  <1> DEFINE Row == [prefix : STRING, index : Nat, label : Labels, agrees : BOOLEAN]
  <1>6. baseline \in Seq(Row) /\ baseline \in Baselines
    BY ExperimentAssumption DEF InputsInv
  <1>7. \A i \in DOMAIN baseline : baseline[i].label \in Labels
    <2>1. \A i \in DOMAIN baseline : baseline[i] \in Row
      BY <1>6, ElementsOfSeq
    <2> QED
      BY <2>1
  <1> HIDE DEF Row
  <1>8. Counts(Evaluate(decisions, baseline, Bindings), baseline, decisions)
    BY <1>2, <1>5, <1>6, <1>7, EvaluateCounts
  <1>9. Evaluate(decisions, baseline, Bindings) \in Evaluations
    BY <1>5, <1>6, EvaluateType
  <1> QED
    BY <1>3, <1>6, <1>8, <1>9 DEF EvaluationCovers

\* An evaluation keeps covering them: the decisions are read-only by then.
LEMMA KeepsTheEvaluation ==
  ASSUME IndexInv, PublicationInv, InputsInv, DataInv, NEW p \in Procs,
         Publishes(p), Promises(p), Keeps(p)
  PROVE  /\ files'[Evaluated] = "whole" => EvaluationCovers(evaluation)'
         /\ \A q \in Procs : ResultCovers(q)'
  <1>1. Decided \in readOnly => decisions' = decisions
    BY DEF Publishes, IndexInv, ReadOnlyExists
  <1>2. ASSUME files'[Evaluated] = "whole" PROVE EvaluationCovers(evaluation)'
    <2>1. CASE files[Evaluated] = "whole"
      <3>1. decisions' = decisions /\ evaluation' = evaluation
        BY <1>1, <2>1 DEF Publishes, IndexInv, EvaluationFollows
      <3> QED
        BY <2>1, <3>1 DEF DataInv, EvaluationCovers
    <2>2. CASE at[p] = "write evaluation" /\ evaluation' = result[p] /\ decisions' = decisions
      BY <2>2 DEF DataInv, ResultCovers, EvaluationCovers
    <2> QED
      BY <1>2, <2>1, <2>2 DEF Publishes
  <1>3. ASSUME NEW q \in Procs, at'[q] = "write evaluation"
        PROVE  EvaluationCovers(result[q])'
    <2>1. CASE q # p
      <3>1. at[q] = "write evaluation" /\ result'[q] = result[q]
        BY <1>3, <2>1 DEF Keeps
      <3>2. Decided \in readOnly
        BY <3>1 DEF PublicationInv, EvaluatesTheFrozen, Evaluating
      <3> QED
        BY <1>1, <3>1, <3>2 DEF DataInv, ResultCovers, EvaluationCovers
    <2>2. CASE q = p
      <3>1. CompareLabels(p)
        BY <1>3, <2>2 DEF Promises
      <3>2. decisions' = decisions
        BY <3>1 DEF CompareLabels, root
      <3>3. EvaluationCovers(result'[p])
        BY <1>3, <2>2, <3>1, ComparisonCovers
      <3> QED
        BY <2>2, <3>2, <3>3 DEF EvaluationCovers
    <2> QED
      BY <2>1, <2>2
  <1> QED
    BY <1>2, <1>3 DEF ResultCovers

\* What every step of a process does, and what happens beside them.
ProcessStep(p) ==
    RootStep(p) /\ OwnStep(p) /\ InputStep(p) /\ DataStep(p) /\ Keeps(p) /\ Known'

Beside == Exchange \/ Review \/ UNCHANGED vars

\* Steps of a process keep the data invariant.
LEMMA KeepsTheData ==
  ASSUME IndexInv, PublicationInv, InputsInv, DataInv, NEW p \in Procs, ProcessStep(p)
  PROVE  DataInv'
  <1>1. Collects(p) /\ Publishes(p) /\ Promises(p)
    BY DEF ProcessStep, DataStep
  <1>6. RootStep(p) /\ InputStep(p) /\ Keeps(p) /\ Known'
    BY DEF ProcessStep
  <1>2. DecidedIsCounted'
    BY <1>1, <1>6, KeepsTheDecisions
  <1>3. /\ files'[Evaluated] = "whole" => EvaluationCovers(evaluation)'
        /\ \A q \in Procs : ResultCovers(q)'
    BY <1>1, <1>6, KeepsTheEvaluation
  <1>4. \A q \in Procs : OutcomesTell(q)'
    BY <1>1, <1>6, KeepsTheOutcomes
  <1>5. \A q \in Procs : SummaryIsTheOwners(q)' /\ SuccessTellsTheStatus(q)'
    BY <1>1, <1>6, KeepsTheSummary
  <1> QED
    BY <1>2, <1>3, <1>4, <1>5 DEF DataInv

\* Incidents keep it: they write nothing in the root.
LEMMA IncidentKeepsTheData ==
  ASSUME DataInv, Beside
  PROVE  DataInv'
  <1>1. /\ UNCHANGED <<files, summary, decisions, evaluation, at, next, outcomes, result, reply>>
        /\ exchanged' = exchanged \/ exchanged' # {}
    BY DEF Beside, Exchange, Review, vars, outside, root, locals
  <1>2. DecidedIsCounted'
    BY <1>1 DEF DataInv, DecidedIsCounted, SummaryCountsTheDecisions
  <1>3. /\ files'[Evaluated] = "whole" => EvaluationCovers(evaluation)'
        /\ \A q \in Procs : ResultCovers(q)'
    BY <1>1 DEF DataInv, EvaluationCovers, ResultCovers
  <1>4. \A q \in Procs : OutcomesTell(q)'
    BY <1>1 DEF DataInv, OutcomesTell, Tells
  <1>5. \A q \in Procs : SummaryIsTheOwners(q)' /\ SuccessTellsTheStatus(q)'
    <2> SUFFICES ASSUME NEW q \in Procs
                 PROVE  SummaryIsTheOwners(q)' /\ SuccessTellsTheStatus(q)'
      OBVIOUS
    <2>1. SummaryOf(q)' = SummaryOf(q)
      BY <1>1 DEF SummaryOf, Status, Reports, Completed
    <2> QED
      BY <1>1, <2>1 DEF DataInv, SummaryIsTheOwners, SuccessTellsTheStatus, Summed
  <1> QED
    BY <1>2, <1>3, <1>4, <1>5 DEF DataInv

\* Nothing is told yet.
LEMMA FirstData == Init => DataInv
  <1> SUFFICES ASSUME Init PROVE DataInv
    OBVIOUS
  <1>1. /\ files[Decided] = "missing" /\ files[Evaluated] = "missing"
        /\ \A p \in Procs : at[p] = "idle" /\ reply[p] = "none" /\ outcomes[p] = <<>>
    BY FilesFacts DEF Init
  <1>2. /\ Len(Manifest) \in Nat /\ Len(<<>>) = 0 /\ <<>> \in Seq(AllOutcomes)
        /\ DOMAIN <<>> = {}
    BY ManifestFacts
  <1>3. ASSUME NEW p \in Procs PROVE OutcomesTell(p)
    <2>1. /\ outcomes[p] \in Seq(AllOutcomes) /\ Len(outcomes[p]) = 0
          /\ DOMAIN outcomes[p] = {}
      BY <1>1, <1>2
    <2>2. Len(outcomes[p]) <= Len(Manifest)
      BY <1>2, <2>1
    <2>3. at[p] \notin Working /\ at[p] # "cases"
      BY <1>1 DEF Working
    <2> QED
      BY <1>1, <2>1, <2>2, <2>3 DEF OutcomesTell
  <1> QED
    BY <1>1, <1>3 DEF DataInv, DecidedIsCounted, SummaryCountsTheDecisions, SummaryIsTheOwners,
       Summed, SuccessTellsTheStatus, ResultCovers

-----------------------------------------------------------------------------
(* The invariant of the aggregate *)

AggregateInv == PublicationInv /\ IndexInv /\ InputsInv /\ DataInv

\* The first state has all four parts.
LEMMA FirstAggregate == Init => AggregateInv
  BY InitInv, FirstIndex, FirstInputs, FirstData DEF AggregateInv

\* Every step is one of a process, or beside the root and the processes.
LEMMA EveryStep ==
  ASSUME AggregateInv, [Next]_vars
  PROVE  (\E p \in Procs : ProcessStep(p)) \/ Beside
  <1> USE DEF AggregateInv, ProcessStep
  <1>1. ASSUME NEW p \in Procs, Call(p) \/ Run(p) PROVE ProcessStep(p)
    BY <1>1, RunMoves, RunLooks, RunTells
  <1>2. ASSUME NEW p \in Procs, Finalize(p) PROVE ProcessStep(p)
    BY <1>2, FinalizeMoves, FinalizeLooks, FinalizeTells
  <1>3. ASSUME NEW p \in Procs, EvaluateStep(p) PROVE ProcessStep(p)
    BY <1>3, EvaluateMoves, EvaluateLooks, EvaluateTells
  <1>4. ASSUME NEW p \in Procs, Stop(p) PROVE ProcessStep(p)
    BY <1>4, StopMoves, StopLooks, StopTells
  <1> HIDE DEF AggregateInv, ProcessStep
  <1> QED
    BY <1>1, <1>2, <1>3, <1>4 DEF Next, Beside

\* The four parts together are inductive.
LEMMA NextAggregate == AggregateInv /\ [Next]_vars => AggregateInv'
  <1> SUFFICES ASSUME AggregateInv, [Next]_vars PROVE AggregateInv'
    OBVIOUS
  <1>1. PublicationInv /\ IndexInv /\ InputsInv /\ DataInv /\ PublicationInv'
    BY NextInv DEF AggregateInv
  <1>2. ASSUME NEW p \in Procs, ProcessStep(p) PROVE IndexInv' /\ InputsInv' /\ DataInv'
    <2>1. RootStep(p) /\ OwnStep(p) /\ InputStep(p) /\ DataStep(p) /\ Keeps(p) /\ Known'
      BY <1>2 DEF ProcessStep
    <2>2. IndexInv'
      BY <1>1, <2>1, KeepsTheIndex
    <2>3. InputsInv'
      BY <1>1, <2>1, KeepsTheInputs
    <2>4. DataInv'
      BY <1>1, <1>2, KeepsTheData
    <2> QED
      BY <2>2, <2>3, <2>4
  <1>3. ASSUME Beside PROVE IndexInv' /\ InputsInv' /\ DataInv'
    <2>1. UNCHANGED <<root, locals>>
      BY <1>3 DEF Beside, Exchange, Review, vars
    <2>2. IndexInv'
      BY <1>1, <2>1, StillIndexed
    <2>3. InputsInv'
      BY <1>1, <1>3, IncidentKeepsTheInputs DEF Beside
    <2>4. DataInv'
      BY <1>1, <1>3, IncidentKeepsTheData
    <2> QED
      BY <2>2, <2>3, <2>4
  <1>4. IndexInv' /\ InputsInv' /\ DataInv'
    BY <1>2, <1>3, EveryStep
  <1> QED
    BY <1>1, <1>4 DEF AggregateInv

-----------------------------------------------------------------------------
(* The theorems *)

\* The invariant of the aggregate, for every experiment.
THEOREM AggregateIsTrue == Spec => []AggregateInv
  BY FirstAggregate, NextAggregate, PTL DEF Spec

\* The types, for any processes, manifest and baselines.
THEOREM TypesAreKept == Spec => []TypeOK
  <1>1. AggregateInv => TypeOK
    <2> SUFFICES ASSUME AggregateInv PROVE TypeOK
      OBVIOUS
    <2>1. /\ inputs \in [Cases -> Contents] /\ baseline \in Baselines /\ touched \in BOOLEAN
          /\ incidents \in 0 .. MaxIncidents /\ exchanged \subseteq Cases
      BY DEF AggregateInv, InputsInv
    <2>2. /\ files \in [Names -> {"missing", "torn", "whole"}]
          /\ readOnly \subseteq {f \in Names : files[f] # "missing"} /\ index \subseteq Names
      BY DEF AggregateInv, PublicationInv, RootShape, IndexInv, ReadOnlyExists, IndexIsLast
    <2>3. at \in [Procs -> Stations] /\ next \in [Procs -> Nat \ {0}]
          /\ todo \in [Procs -> SUBSET Names]
      BY DEF AggregateInv, PublicationInv, LocalShape
    <2>4. \A p \in Procs : /\ at[p] = "idle" => outcomes[p] = <<>> /\ todo[p] = {}
                           /\ Len(outcomes[p]) <= Len(Manifest)
      BY DEF AggregateInv, InputsInv, IdleHoldsNothing, DataInv, OutcomesTell
    <2> QED
      BY <2>1, <2>2, <2>3, <2>4 DEF TypeOK
  <1> QED
    BY <1>1, AggregateIsTrue, PTL

\* No LLM profile, credential or model is touched for a manifest with a wrong
\* input, and the summary counts the decisions beside it: whatever happens to
\* the runs, the aggregate is about the manifest or it is not there.
THEOREM AggregateTellsTheTruth == Spec => []SummaryTellsTheTruth
  <1>1. AggregateInv => SummaryTellsTheTruth
    BY DEF AggregateInv, InputsInv, Right, DataInv, DecidedIsCounted, SummaryTellsTheTruth,
       WrongInputsCostNothing
  <1> QED
    BY <1>1, AggregateIsTrue, PTL

\* The index lists what is there and whole, and a command that succeeded left
\* what it said, whoever ran, evaluated or stopped beside it.
THEOREM IndexIsTrue == Spec => []IndexTellsTheTruth
  <1>1. AggregateInv => IndexListsWholeFiles
    BY DEF AggregateInv, IndexInv, IndexIsLast, EvaluatedIsIndexed, IndexListsWholeFiles
  <1>2. AggregateInv => SuccessIsFrozen
    BY DEF AggregateInv, IndexInv, SuccessIsReadOnly, DataInv, SuccessTellsTheStatus,
       SuccessIsFrozen
  <1> QED
    BY <1>1, <1>2, AggregateIsTrue, PTL DEF IndexTellsTheTruth

\* An evaluation is about every row of one baseline and every decision, and
\* its counts agree with each other.
THEOREM NothingIsLeftOut == Spec => []EvaluationCoversTheBaseline
  <1>1. AggregateInv => EvaluationCoversTheBaseline
    BY DEF AggregateInv, DataInv, EvaluationCovers, Counts, EvaluationCoversTheBaseline
  <1> QED
    BY <1>1, AggregateIsTrue, PTL

-----------------------------------------------------------------------------
(* What a reader of the root sees *)

\* The phase a reader sees, and the decisions once nobody may write them.
Phase ==
    IF files[Evaluated] = "whole" THEN "evaluated"
    ELSE IF Decided \in readOnly THEN "published" ELSE "open"
Published == IF Decided \in readOnly THEN decisions ELSE {}

\* A step of the abstract specification, seen in the root.
PublicationStep ==
    PublicationOfRoot!Publish \/ PublicationOfRoot!Compare
       \/ UNCHANGED <<Phase, Published, evaluation>>

\* Publishing is the first freeze of a finished aggregate, comparing the one
\* creation of an evaluation; nothing else shows.
LEMMA StepPublishes ==
  ASSUME AggregateInv, AggregateInv', NEW p \in Procs, ProcessStep(p)
  PROVE  PublicationStep
  <1>1. RootStep(p) /\ Publishes(p)
    BY DEF ProcessStep, DataStep
  <1>2. Decided \in readOnly => Decided \in readOnly' /\ decisions' = decisions
    BY <1>1, FilesFacts DEF RootStep, Publishes, AggregateInv, IndexInv, ReadOnlyExists
  <1>3. files[Evaluated] # "missing" => Decided \in readOnly
    BY DEF AggregateInv, IndexInv, EvaluationFollows
  <1>4. CASE files[Evaluated] = "whole"
    <2>1. files'[Evaluated] = "whole" /\ evaluation' = evaluation
      BY <1>1, <1>4, FilesFacts DEF RootStep, Publishes
    <2> QED
      BY <1>2, <1>3, <1>4, <2>1 DEF PublicationStep, Phase, Published
  <1>5. CASE files[Evaluated] # "whole" /\ files'[Evaluated] = "whole"
    <2>1. Decided \in readOnly
      BY <1>1, <1>3, <1>5 DEF RootStep
    <2>2. evaluation' = result[p] /\ EvaluationCovers(result[p])
      BY <1>1, <1>5 DEF Publishes, AggregateInv, DataInv, ResultCovers
    <2>3. /\ evaluation' # NoEvaluation
          /\ evaluation'.aligned + evaluation'.missing_baseline = Cardinality(decisions)
      BY <2>2, ExperimentAssumption DEF EvaluationCovers, Counts
    <2>4. PublicationOfRoot!Cardinality(decisions) = Cardinality(decisions)
      BY DEF PublicationOfRoot!Cardinality, Cardinality
    <2>5. PublicationOfRoot!Compare
      BY <1>2, <1>5, <2>1, <2>3, <2>4 DEF PublicationOfRoot!Compare
    <2> QED
      BY <2>5 DEF PublicationStep
  <1>6. CASE files[Evaluated] # "whole" /\ files'[Evaluated] # "whole"
    <2>1. evaluation' = evaluation
      BY <1>1, <1>6 DEF Publishes
    <2>2. CASE Decided \in readOnly \/ Decided \notin readOnly'
      BY <1>2, <1>6, <2>1, <2>2 DEF PublicationStep, Phase, Published
    <2>3. CASE Decided \notin readOnly /\ Decided \in readOnly'
      <3>1. files'[Decided] = "whole"
        BY <2>3, FilesFacts DEF AggregateInv, PublicationInv, FrozenIsFinished, Finished
      <3>2. Consistent(decisions)'
        BY <3>1 DEF AggregateInv, DataInv, DecidedIsCounted
      <3> QED
        BY <1>6, <2>1, <2>3, <3>2
           DEF PublicationStep, PublicationOfRoot!Publish, PublicationOfRoot!Consistent,
               Consistent, PublicationOfRoot!Identity, Identity
    <2> QED
      BY <2>2, <2>3
  <1> QED
    BY <1>4, <1>5, <1>6

\* The artifact root is a publication: whatever runs, stops and evaluates
\* beside each other, a reader sees the decisions appear once, at most one per
\* occurrence, and compared at most once, afterwards.
THEOREM ImplementsThePublication == Spec => ImplementsPublication
  <1>1. Init => PublicationOfRoot!Init
    BY FilesFacts DEF Init, PublicationOfRoot!Init
  <1>2. AggregateInv /\ AggregateInv' /\ [Next]_vars => PublicationStep
    <2> SUFFICES ASSUME AggregateInv, AggregateInv', [Next]_vars PROVE PublicationStep
      OBVIOUS
    <2>1. ASSUME Beside PROVE PublicationStep
      BY <2>1 DEF Beside, Exchange, Review, vars, root, PublicationStep, Phase, Published
    <2> QED
      BY <2>1, StepPublishes, EveryStep
  <1> QED
    BY <1>1, <1>2, AggregateIsTrue, PTL
       DEF Spec, ImplementsPublication, PublicationOfRoot!Spec, PublicationOfRoot!Next,
           PublicationOfRoot!publication, PublicationStep, Phase, Published

=============================================================================
