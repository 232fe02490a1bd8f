----------------------------- MODULE ScanProofs -----------------------------
(***************************************************************************)
(* For any number of processes, any build plans and tools, and any number  *)
(* of kills and refused writes: the files of one workspace are those of    *)
(* one scan, and no other scan gets past its first command; a result is    *)
(* that of five commands that succeeded, an error that of the one that     *)
(* did not; and the files are left as Pipeline counts with.                *)
(*                                                                         *)
(* Nothing but the exclusive creation of the first log keeps two scans     *)
(* apart.  Its author owns the workspace: whoever has gone further in its  *)
(* program than that log, or has left a descendant of a later command, is  *)
(* that author.  So the logs grow in one order, and where the owner is in  *)
(* its program tells which are there; what a process says of itself is     *)
(* kept by every step of the others, which only add files, but for the     *)
(* SARIF file, which may change when it is complete but stays complete.    *)
(***************************************************************************)
EXTENDS CodeQLScan, FiniteSetTheorems, TLAPS

First == <<"codeql-version", "stdout.log">>
Owner == author[First]

\* A process that has written the first log.
Underway(p) == step[p] # 1 \/ part[p] # 1 \/ exits[p] # <<>>

\* What a process does only after all logs of a command.
Later == {"check", "read", "parse", "publish"}

States == {"absent", "partial", "original", "altered"}
Places == Later \cup {"call", "start", "wait", "write", "ended"}
Endings == {None, "ok", "failed", "timeout", "not started"}

Shape ==
    /\ files \in [Paths -> States] /\ author \in [Paths -> Procs \cup {Nobody}]
    /\ at \in [Procs -> Places] /\ ended \in [Procs -> Endings]
    /\ step \in [Procs -> Nat \ {0}] /\ part \in [Procs -> Nat \ {0}]
    /\ exits \in [Procs -> Seq(Endings)]
    /\ orphans \subseteq Procs \X (Nat \ {0})

FilesAreOfTheOwner ==
    \A f \in Paths :
        /\ author[f] \in {Nobody, Owner}
        /\ author[f] = Nobody <=> files[f] = "absent"

ProcessesAreTheOwner ==
    /\ \A p \in Procs : Underway(p) => Owner = p
    /\ \A p \in Procs : at[p] \in Later => exits[p] # <<>>

OrphansAreOfTheOwner == \A o \in orphans : o[2] # 1 => Owner = o[1]

OwnerInv ==
    /\ Shape /\ FilesAreOfTheOwner
    /\ ProcessesAreTheOwner /\ OrphansAreOfTheOwner

-----------------------------------------------------------------------------
(* Facts *)

\* The first log and the SARIF file are files of the workspace.
LEMMA Names == First \in Paths /\ Sarif \in Paths
<1>1. 1 \in DOMAIN Logs /\ Logs[1] = First
  BY DEF Logs, Commands, Parts, First
<1>2. Logs[1] \in ToSet(Logs)
  BY <1>1 DEF ToSet
<1> QED
  BY <1>1, <1>2 DEF Paths

\* The first thing a process writes is the first log.
LEMMA FirstLog ==
    ASSUME NEW p \in Procs, ~Underway(p)
    PROVE  Log(p) = First
  BY DEF Underway, Log, Commands, Parts, First

\* Who writes a file is the owner from then on.
LEMMA WriteMakesOwner ==
    ASSUME OwnerInv, NEW p \in Procs, NEW path, NEW content \in States \ {"absent"},
           Write(p, path, content),
           Underway(p) \/ (path = First /\ files[First] = "absent")
    PROVE  /\ files' \in [Paths -> States]
           /\ author' \in [Paths -> Procs \cup {Nobody}]
           /\ FilesAreOfTheOwner' /\ Owner' = p
           /\ \A q \in Procs : Underway(q) => q = p
           /\ \A o \in orphans : o[2] # 1 => o[1] = p
<1>1. Nobody \notin Procs
  BY ScanAssumption
<1>2. /\ files' = [files EXCEPT ![path] = content]
      /\ author' = [author EXCEPT ![path] = p]
  BY DEF Write
<1>3. /\ files \in [Paths -> States] /\ author \in [Paths -> Procs \cup {Nobody}]
      /\ FilesAreOfTheOwner
  BY DEF OwnerInv, Shape
<1>4. /\ files' \in [Paths -> States]
      /\ author' \in [Paths -> Procs \cup {Nobody}]
  BY <1>2, <1>3
<1>5. Owner \in {Nobody, p}
  <2>1. CASE Underway(p)
    BY <2>1 DEF OwnerInv, ProcessesAreTheOwner
  <2>2. CASE files[First] = "absent"
    BY <2>2, <1>3, Names DEF FilesAreOfTheOwner, Owner
  <2> QED
    BY <2>1, <2>2
<1>6. Owner' = p
  <2>1. CASE Underway(p)
    BY <2>1, <1>2, <1>3, Names DEF OwnerInv, ProcessesAreTheOwner, Owner
  <2>2. CASE path = First
    BY <2>2, <1>2, <1>3, Names DEF Owner
  <2> QED
    BY <2>1, <2>2
<1>7. FilesAreOfTheOwner'
  BY <1>1, <1>2, <1>3, <1>5, <1>6 DEF FilesAreOfTheOwner, States
<1>8. \A q \in Procs : Underway(q) => q = p
  BY <1>1, <1>5 DEF OwnerInv, ProcessesAreTheOwner
<1>9. \A o \in orphans : o[2] # 1 => o[1] = p
  BY <1>1, <1>5 DEF OwnerInv, OrphansAreOfTheOwner, Shape
<1> QED
  BY <1>4, <1>6, <1>7, <1>8, <1>9

-----------------------------------------------------------------------------
(* The steps *)

\* An empty workspace has no owner, and nobody is past its first write.
LEMMA InitOwner == Init => OwnerInv
<1> SUFFICES ASSUME Init PROVE OwnerInv
  OBVIOUS
<1>1. Shape
  <2>1. files \in [Paths -> States] /\ author \in [Paths -> Procs \cup {Nobody}]
    BY DEF Init, States
  <2>2. at \in [Procs -> Places] /\ ended \in [Procs -> Endings]
    BY DEF Init, Places, Endings
  <2>3. /\ step \in [Procs -> Nat \ {0}] /\ part \in [Procs -> Nat \ {0}]
        /\ exits \in [Procs -> Seq(Endings)]
    BY DEF Init
  <2> QED
    BY <2>1, <2>2, <2>3 DEF Init, Shape
<1>2. FilesAreOfTheOwner
  BY Names DEF Init, FilesAreOfTheOwner, Owner
<1>3. ProcessesAreTheOwner
  BY DEF Init, ProcessesAreTheOwner, Underway, Later
<1> QED
  BY <1>1, <1>2, <1>3 DEF Init, OwnerInv, OrphansAreOfTheOwner

\* A process moves on, to `where`, and writes no file.
Moves(p, where) ==
    /\ where \in Places /\ at' = [at EXCEPT ![p] = where]
    /\ where \in Later => exits[p] # <<>>
    /\ ended' \in [Procs -> Endings]
    /\ \/ step' = step
       \/ step' = [step EXCEPT ![p] = step[p] + 1] /\ exits[p] # <<>>
    /\ UNCHANGED <<files, author, part, exits, orphans>>

\* Moving on without a file keeps the owner.
LEMMA MoveKeepsOwner ==
    ASSUME OwnerInv, NEW p \in Procs, NEW where, Moves(p, where)
    PROVE  OwnerInv'
<1>1. Shape'
  <2>1. step' \in [Procs -> Nat \ {0}]
    BY DEF OwnerInv, Shape, Moves
  <2>2. at' \in [Procs -> Places]
    BY DEF OwnerInv, Shape, Moves
  <2> QED
    BY <2>1, <2>2 DEF OwnerInv, Shape, Moves
<1>2. FilesAreOfTheOwner' /\ Owner' = Owner
  BY DEF OwnerInv, FilesAreOfTheOwner, Owner, Moves
<1>3. \A q \in Procs : Underway(q)' => Underway(q)
  BY DEF OwnerInv, Shape, Underway, Moves
<1>4. \A q \in Procs : at'[q] \in Later => exits'[q] # <<>>
  BY DEF OwnerInv, Shape, ProcessesAreTheOwner, Moves
<1>5. OrphansAreOfTheOwner'
  BY <1>2 DEF OwnerInv, OrphansAreOfTheOwner, Moves
<1> QED
  BY <1>1, <1>2, <1>3, <1>4, <1>5 DEF OwnerInv, ProcessesAreTheOwner

\* Only the descendants, or what is no part of the invariant, change.
LEMMA OrphansKeepOwner ==
    ASSUME OwnerInv, ended' \in [Procs -> Endings],
           orphans' \subseteq Procs \X (Nat \ {0}),
           \A o \in orphans' \ orphans : o[2] # 1 => Underway(o[1]),
           UNCHANGED <<files, author, at, step, part, exits>>
    PROVE  OwnerInv'
<1>1. Shape' /\ FilesAreOfTheOwner' /\ Owner' = Owner
  BY DEF OwnerInv, Shape, FilesAreOfTheOwner, Owner
<1>2. ProcessesAreTheOwner'
  BY <1>1 DEF OwnerInv, ProcessesAreTheOwner, Underway
<1>3. OrphansAreOfTheOwner'
  BY <1>1 DEF OwnerInv, OrphansAreOfTheOwner, ProcessesAreTheOwner
<1> QED
  BY <1>1, <1>2, <1>3 DEF OwnerInv

\* The owner, or a descendant of a command of its own, writes the SARIF file.
LEMMA OwnerWorks ==
    ASSUME OwnerInv, NEW p \in Procs, Underway(p) \/ Owner = p,
           NEW content \in States \ {"absent"}, Write(p, Sarif, content),
           UNCHANGED <<at, step, part, exits, ended, orphans>>
    PROVE  OwnerInv'
<1>1. Owner = p /\ Nobody \notin Procs
  BY ScanAssumption DEF OwnerInv, ProcessesAreTheOwner
<1>2. /\ files' = [files EXCEPT ![Sarif] = content]
      /\ author' = [author EXCEPT ![Sarif] = p]
  BY DEF Write
<1>3. Owner' = Owner
  BY <1>1, <1>2, Names DEF OwnerInv, Shape, Owner
<1>4. FilesAreOfTheOwner'
  BY <1>1, <1>2, <1>3 DEF OwnerInv, Shape, FilesAreOfTheOwner
<1>5. Shape'
  BY <1>2 DEF OwnerInv, Shape
<1>6. ProcessesAreTheOwner' /\ OrphansAreOfTheOwner'
  BY <1>3 DEF OwnerInv, ProcessesAreTheOwner, OrphansAreOfTheOwner, Underway
<1> QED
  BY <1>4, <1>5, <1>6 DEF OwnerInv

\* Only a command after the first leaves a descendant that counts.
LEMMA LivesOnOwner ==
    ASSUME OwnerInv, NEW p \in Procs, LivesOn(p)
    PROVE  /\ orphans' \subseteq Procs \X (Nat \ {0})
           /\ \A o \in orphans' \ orphans : o[2] # 1 => Underway(o[1])
<1>1. orphans' = orphans \/ (step[p] >= Create /\ orphans' = orphans \cup {<<p, step[p]>>})
  BY DEF LivesOn
<1> QED
  BY <1>1 DEF OwnerInv, Shape, Underway, Create

-----------------------------------------------------------------------------
(* The steps of a scan *)

\* The steps that write nothing and leave no descendant.
LEMMA QuietSteps ==
    ASSUME OwnerInv, NEW p \in Procs,
           \/ Begin(p) \/ StartCommand(p) \/ CannotStart(p) \/ CommandReturns(p)
           \/ Check(p) \/ ReadSarif(p) \/ ParseSarif(p)
    PROVE  OwnerInv'
<1>0. at[p] \in Later => exits[p] # <<>>
  BY DEF OwnerInv, ProcessesAreTheOwner
<1>1. ended \in [Procs -> Endings]
  BY DEF OwnerInv, Shape
<1>2. \E where : Moves(p, where)
  <2>1. CASE Begin(p)
    <3>1. Moves(p, "ended") \/ Moves(p, "start")
      BY <1>1, <2>1 DEF Moves, Places, Later, Begin, Raise, End, Proceed, Goto
    <3> QED
      BY <3>1
  <2>2. CASE StartCommand(p)
    <3>1. Moves(p, "wait")
      BY <1>1, <2>2 DEF Moves, Places, Later, StartCommand, Proceed, Goto
    <3> QED
      BY <3>1
  <2>3. CASE CannotStart(p)
    <3>1. Moves(p, "write")
      BY <1>1, <2>3 DEF Moves, Places, Endings, Later, CannotStart, Proceed, Goto
    <3> QED
      BY <3>1
  <2>4. CASE CommandReturns(p)
    <3>1. Moves(p, "write")
      BY <1>1, <2>4 DEF Moves, Places, Later, CommandReturns, Proceed, Goto
    <3> QED
      BY <3>1
  <2>5. CASE Check(p)
    <3>1. exits[p] # <<>>
      BY <1>0, <2>5 DEF Check, Later
    <3>2. \/ Raise(p, Verdict(ended[p])) \/ Raise(p, "no version")
          \/ Raise(p, "version") \/ Raise(p, "no output") \/ Proceed(p, "read")
          \/ NextCommand(p)
      BY <2>5 DEF Check
    <3>3. UNCHANGED <<files, author, orphans>> /\ ended' \in [Procs -> Endings]
      BY <1>1, <2>5 DEF Check, Endings
    <3>4. Moves(p, "ended") \/ Moves(p, "read") \/ Moves(p, "start")
      BY <3>1, <3>2, <3>3 DEF Moves, Places, Later, Raise, End, Proceed, NextCommand, Goto
    <3> QED
      BY <3>4
  <2>6. CASE ReadSarif(p)
    <3>1. Moves(p, "parse")
      BY <1>0, <1>1, <2>6 DEF Moves, Places, Later, ReadSarif, Goto
    <3> QED
      BY <3>1
  <2>7. CASE ParseSarif(p)
    <3>1. Moves(p, "ended") \/ Moves(p, "publish")
      BY <1>0, <1>1, <2>7 DEF Moves, Places, Later, ParseSarif, Raise, End, Proceed, Goto
    <3> QED
      BY <3>1
  <2> QED
    BY <2>1, <2>2, <2>3, <2>4, <2>5, <2>6, <2>7
<1> QED
  BY <1>2, MoveKeepsOwner

\* A scan writes its first log, or is the owner already.
LEMMA MayWrite ==
    ASSUME OwnerInv, NEW p \in Procs, at[p] \in {"write", "publish"},
           files[Target(p)] = "absent"
    PROVE  Underway(p) \/ (Target(p) = First /\ files[First] = "absent")
<1>1. CASE at[p] = "publish"
  BY <1>1 DEF OwnerInv, ProcessesAreTheOwner, Later, Underway
<1>2. CASE at[p] = "write"
  BY <1>2, FirstLog DEF Target
<1> QED
  BY <1>1, <1>2

\* A scan writes its next file, whole or in part, and moves on or dies.
Writes(p, content) ==
    /\ at[p] \in {"write", "publish"} /\ files[Target(p)] = "absent"
    /\ content \in States \ {"absent"} /\ Write(p, Target(p), content)
    /\ at' \in [Procs -> Places]
    /\ part' \in [Procs -> Nat \ {0}] /\ exits' \in [Procs -> Seq(Endings)]
    /\ \A q \in Procs \ {p} : at'[q] = at[q] /\ part'[q] = part[q] /\ exits'[q] = exits[q]
    /\ at'[p] \in Later => exits'[p] # <<>>
    /\ orphans' \subseteq Procs \X (Nat \ {0}) /\ \A o \in orphans' \ orphans : o[1] = p
    /\ UNCHANGED <<step, ended>>

\* Writing the next file keeps the owner, or makes one.
LEMMA WriteKeepsOwner ==
    ASSUME OwnerInv, NEW p \in Procs, NEW content, Writes(p, content)
    PROVE  OwnerInv'
<1>1. Underway(p) \/ (Target(p) = First /\ files[First] = "absent")
  BY MayWrite DEF Writes
<1>2. /\ files' \in [Paths -> States]
      /\ author' \in [Paths -> Procs \cup {Nobody}]
      /\ FilesAreOfTheOwner' /\ Owner' = p
      /\ \A q \in Procs : Underway(q) => q = p
      /\ \A o \in orphans : o[2] # 1 => o[1] = p
  <2>1. content \in States \ {"absent"} /\ Write(p, Target(p), content)
    BY DEF Writes
  <2> QED
    BY <1>1, <2>1, WriteMakesOwner
<1>3. Shape'
  BY <1>2 DEF OwnerInv, Shape, Writes
<1>4. \A q \in Procs : Underway(q)' => q = p
  BY <1>2 DEF Underway, Writes
<1>5. \A q \in Procs : at'[q] \in Later => exits'[q] # <<>>
  BY DEF OwnerInv, ProcessesAreTheOwner, Writes
<1>6. OrphansAreOfTheOwner'
  BY <1>2 DEF OrphansAreOfTheOwner, Writes
<1> QED
  BY <1>2, <1>3, <1>4, <1>5, <1>6 DEF OwnerInv, ProcessesAreTheOwner

\* The last file a scan writes.
LEMMA WriteEnds ==
    ASSUME OwnerInv, NEW p \in Procs, NEW content \in States \ {"absent"},
           at[p] \in {"write", "publish"}, files[Target(p)] = "absent",
           Write(p, Target(p), content), at' = [at EXCEPT ![p] = "ended"],
           UNCHANGED <<step, part, exits, orphans, ended>>
    PROVE  OwnerInv'
<1>1. /\ part \in [Procs -> Nat \ {0}] /\ exits \in [Procs -> Seq(Endings)]
      /\ orphans \subseteq Procs \X (Nat \ {0}) /\ at \in [Procs -> Places]
  BY DEF OwnerInv, Shape
<1>2. /\ at' \in [Procs -> Places] /\ at'[p] = "ended"
      /\ \A q \in Procs \ {p} : at'[q] = at[q]
  BY <1>1 DEF Places
<1>3. Writes(p, content)
  BY <1>1, <1>2 DEF Writes, Later
<1> QED
  BY <1>3, WriteKeepsOwner

\* The steps that write the logs and the metadata.
LEMMA WritingSteps ==
    ASSUME OwnerInv, NEW p \in Procs, WriteLog(p) \/ Publish(p) \/ WriteFails(p)
    PROVE  OwnerInv'
<1>t. /\ part \in [Procs -> Nat \ {0}] /\ exits \in [Procs -> Seq(Endings)]
      /\ ended \in [Procs -> Endings] /\ orphans \subseteq Procs \X (Nat \ {0})
      /\ at \in [Procs -> Places]
  BY DEF OwnerInv, Shape
<1>1. ASSUME UNCHANGED <<files, author, orphans, ended>>, NEW kind, Raise(p, kind)
      PROVE  OwnerInv'
  <2>1. Moves(p, "ended")
    BY <1>1, <1>t DEF Moves, Places, Raise, End, Goto, Later
  <2> QED
    BY <2>1, MoveKeepsOwner
<1>3. CASE WriteLog(p)
  <2>1. CASE files[Log(p)] = "absent"
    <3>1. /\ at[p] = "write" /\ Write(p, Target(p), "original") /\ NextPart(p)
          /\ files[Target(p)] = "absent" /\ UNCHANGED <<orphans, ended>>
      BY <1>3, <2>1 DEF WriteLog, Target
    <3>2. CASE part[p] < Len(Parts)
      <4>1. part' = [part EXCEPT ![p] = @ + 1] /\ UNCHANGED <<at, step, exits>>
        BY <3>1, <3>2 DEF NextPart
      <4>2. part' \in [Procs -> Nat \ {0}] /\ \A q \in Procs \ {p} : part'[q] = part[q]
        BY <4>1, <1>t
      <4>3. Writes(p, "original")
        BY <3>1, <4>1, <4>2, <1>t DEF Writes, Later, States
      <4> QED
        BY <4>3, WriteKeepsOwner
    <3>3. CASE ~(part[p] < Len(Parts))
      <4>1. /\ part' = [part EXCEPT ![p] = 1] /\ at' = [at EXCEPT ![p] = "check"]
            /\ exits' = [exits EXCEPT ![p] = Append(exits[p], ended[p])]
            /\ UNCHANGED step
        BY <3>1, <3>3 DEF NextPart, Goto
      <4>2. Append(exits[p], ended[p]) \in Seq(Endings) \ {<<>>}
        <5>1. exits[p] \in Seq(Endings) /\ ended[p] \in Endings
          BY <1>t
        <5> QED
          BY <5>1
      <4>3. /\ at' \in [Procs -> Places]
            /\ part' \in [Procs -> Nat \ {0}] /\ exits' \in [Procs -> Seq(Endings)]
            /\ \A q \in Procs \ {p} :
                 at'[q] = at[q] /\ part'[q] = part[q] /\ exits'[q] = exits[q]
            /\ exits'[p] # <<>>
        BY <4>1, <4>2, <1>t DEF Places, Later
      <4>4. Writes(p, "original")
        BY <3>1, <4>1, <4>3, <1>t DEF Writes, States
      <4> QED
        BY <4>4, WriteKeepsOwner
    <3> QED
      BY <3>2, <3>3
  <2>2. CASE files[Log(p)] # "absent"
    BY <1>3, <2>2, <1>1 DEF WriteLog
  <2> QED
    BY <2>1, <2>2
<1>4. CASE Publish(p)
  <2>1. at[p] = "publish" /\ Target(p) = Metadata /\ UNCHANGED <<orphans, ended>>
    BY <1>4 DEF Publish, Target
  <2>2. CASE files[Metadata] = "absent"
    BY <1>4, <2>1, <2>2, WriteEnds DEF Publish, End, Goto, States
  <2>3. CASE files[Metadata] # "absent"
    BY <1>4, <2>1, <2>3, <1>1 DEF Publish
  <2> QED
    BY <2>2, <2>3
<1>5. CASE WriteFails(p)
  <2>1. CASE UNCHANGED <<files, author>>
    BY <1>5, <2>1, <1>1 DEF WriteFails
  <2>2. CASE Write(p, Target(p), "partial")
    <3>1. /\ at[p] \in {"write", "publish"} /\ files[Target(p)] = "absent"
          /\ at' = [at EXCEPT ![p] = "ended"]
          /\ UNCHANGED <<step, part, exits, orphans, ended>>
      BY <1>5 DEF WriteFails, Raise, End, Goto
    <3> QED
      BY <3>1, <2>2, WriteEnds DEF States
  <2> QED
    BY <1>5, <2>1, <2>2 DEF WriteFails
<1> QED
  BY <1>3, <1>4, <1>5

-----------------------------------------------------------------------------
(* What happens around the scan *)

\* The child works, exits or is killed.
LEMMA ToolSteps ==
    ASSUME OwnerInv, NEW p \in Procs,
           ToolWorks(p) \/ ToolExits(p) \/ HeirLetsGo(p) \/ Timeout(p)
    PROVE  OwnerInv'
<1>t. ended \in [Procs -> Endings] /\ orphans \subseteq Procs \X (Nat \ {0})
  BY DEF OwnerInv, Shape
<1>1. CASE ToolWorks(p)
  <2>1. UNCHANGED <<at, step, part, exits, ended, orphans>>
    BY <1>1 DEF ToolWorks, control
  <2>2. CASE UNCHANGED <<files, author>>
    BY <2>1, <2>2, <1>t, OrphansKeepOwner
  <2>3. CASE ~UNCHANGED <<files, author>>
    <3>1. step[p] = Analyze /\ \E content \in {"partial", "original"} : Write(p, Sarif, content)
      BY <1>1, <2>3 DEF ToolWorks
    <3>2. Underway(p)
      BY <3>1 DEF Underway, Analyze
    <3> QED
      BY <2>1, <3>1, <3>2, OwnerWorks DEF States
  <2> QED
    BY <2>2, <2>3
<1>2. CASE ToolExits(p)
  <2>1. ended' \in [Procs -> Endings] /\ UNCHANGED <<files, author, at, step, part, exits>>
    BY <1>2, <1>t DEF ToolExits, control, Endings
  <2> QED
    BY <1>2, <2>1, LivesOnOwner, OrphansKeepOwner DEF ToolExits
<1>3. CASE HeirLetsGo(p)
  BY <1>3, <1>t, OrphansKeepOwner DEF HeirLetsGo, control
<1>4. CASE Timeout(p)
  <2>1. ended' \in [Procs -> Endings] /\ UNCHANGED <<files, author, at, step, part, exits>>
    BY <1>4, <1>t DEF Timeout, control, Endings
  <2> QED
    BY <1>4, <2>1, LivesOnOwner, OrphansKeepOwner DEF Timeout
<1> QED
  BY <1>1, <1>2, <1>3, <1>4

\* A descendant works or ends: it is one of the owner's.
LEMMA OrphanSteps ==
    ASSUME OwnerInv, (\E p \in Procs : OrphanWorks(p)) \/ OrphanEnds
    PROVE  OwnerInv'
<1>t. ended \in [Procs -> Endings] /\ orphans \subseteq Procs \X (Nat \ {0})
  BY DEF OwnerInv, Shape
<1>1. ASSUME NEW p \in Procs, OrphanWorks(p)
      PROVE  OwnerInv'
  <2>1. UNCHANGED <<at, step, part, exits, ended, orphans>>
    BY <1>1 DEF OrphanWorks, control
  <2>2. CASE UNCHANGED <<files, author>>
    BY <2>1, <2>2, <1>t, OrphansKeepOwner
  <2>3. CASE ~UNCHANGED <<files, author>>
    <3>1. /\ <<p, Analyze>> \in orphans /\ files[Sarif] # "altered"
          /\ Write(p, Sarif, CASE files[Sarif] = "absent" -> "partial"
                               [] files[Sarif] = "partial" -> "original"
                               [] files[Sarif] = "original" -> "altered")
      BY <1>1, <2>3 DEF OrphanWorks
    <3>2. files[Sarif] \in States
      BY Names DEF OwnerInv, Shape
    <3>3. \E content \in States \ {"absent"} : Write(p, Sarif, content)
      <4>1. CASE files[Sarif] = "absent"
        BY <3>1, <4>1 DEF States
      <4>2. CASE files[Sarif] = "partial"
        BY <3>1, <4>2 DEF States
      <4>3. CASE files[Sarif] = "original"
        BY <3>1, <4>3 DEF States
      <4> QED
        BY <3>1, <3>2, <4>1, <4>2, <4>3 DEF States
    <3>4. Owner = p
      BY <3>1 DEF OwnerInv, OrphansAreOfTheOwner, Analyze
    <3> QED
      BY <2>1, <3>3, <3>4, OwnerWorks
  <2> QED
    BY <2>2, <2>3
<1>2. CASE OrphanEnds
  <2>1. orphans' \subseteq orphans /\ UNCHANGED <<files, author, at, step, part, exits, ended>>
    BY <1>2 DEF OrphanEnds, control
  <2> QED
    BY <2>1, <1>t, OrphansKeepOwner
<1> QED
  BY <1>1, <1>2

\* A killed process leaves the owner, and its child to it.
LEMMA KillKeepsOwner ==
    ASSUME OwnerInv, NEW p \in Procs, Kill(p)
    PROVE  OwnerInv'
<1>t. /\ part \in [Procs -> Nat \ {0}] /\ exits \in [Procs -> Seq(Endings)]
      /\ step \in [Procs -> Nat \ {0}] /\ at \in [Procs -> Places]
      /\ ended \in [Procs -> Endings] /\ orphans \subseteq Procs \X (Nat \ {0})
  BY DEF OwnerInv, Shape
<1>1. /\ at' \in [Procs -> Places] /\ at'[p] = "ended"
      /\ \A q \in Procs \ {p} : at'[q] = at[q]
      /\ UNCHANGED <<step, part, exits, ended>>
  BY <1>t DEF Kill, End, Goto, Places
<1>2. /\ orphans' \subseteq Procs \X (Nat \ {0})
      /\ \A o \in orphans' \ orphans : o = <<p, step[p]>>
  BY <1>t DEF Kill
<1>3. CASE UNCHANGED <<files, author>>
  <2>1. Shape' /\ FilesAreOfTheOwner' /\ Owner' = Owner
    BY <1>1, <1>2, <1>3 DEF OwnerInv, Shape, FilesAreOfTheOwner, Owner
  <2>2. ProcessesAreTheOwner'
    BY <1>1, <2>1 DEF OwnerInv, ProcessesAreTheOwner, Underway, Later
  <2>3. OrphansAreOfTheOwner'
    BY <1>2, <2>1 DEF OwnerInv, OrphansAreOfTheOwner, ProcessesAreTheOwner, Underway
  <2> QED
    BY <2>1, <2>2, <2>3 DEF OwnerInv
<1>4. CASE ~UNCHANGED <<files, author>>
  <2>1. /\ at[p] \in {"write", "publish"} /\ files[Target(p)] = "absent"
        /\ Write(p, Target(p), "partial")
    BY <1>4 DEF Kill
  <2>2. Writes(p, "partial")
    BY <1>1, <1>2, <1>t, <2>1 DEF Writes, Later, States
  <2> QED
    BY <2>2, WriteKeepsOwner
<1> QED
  BY <1>3, <1>4

-----------------------------------------------------------------------------
(* The theorems *)

\* The ownership invariant is inductive.
LEMMA NextOwner == OwnerInv /\ [Next]_vars => OwnerInv'
<1> SUFFICES ASSUME OwnerInv, [Next]_vars
             PROVE  OwnerInv'
  OBVIOUS
<1>1. ASSUME NEW p \in Procs, Commanded(p)
      PROVE  OwnerInv'
  BY <1>1, QuietSteps, WritingSteps DEF Commanded
<1>2. ASSUME NEW p \in Procs,
             \/ CannotStart(p) \/ WriteFails(p) \/ Kill(p)
             \/ OrphanWorks(p) \/ ToolWorks(p) \/ ToolExits(p) \/ HeirLetsGo(p) \/ Timeout(p)
      PROVE  OwnerInv'
  BY <1>2, QuietSteps, WritingSteps, KillKeepsOwner, OrphanSteps, ToolSteps
<1>3. CASE UNCHANGED vars
  BY <1>3 DEF vars, control, OwnerInv, Shape, FilesAreOfTheOwner, ProcessesAreTheOwner,
              OrphansAreOfTheOwner, Owner, Underway
<1> QED
  BY <1>1, <1>2, <1>3, OrphanSteps DEF Next

\* Of any number of scans of one workspace, one wrote what is there: every file
\* has the author of the first log, and only that process, or a descendant of
\* its later commands, is past its first write.
THEOREM WorkspaceHasOneOwner == Spec => []OwnerInv
  BY InitOwner, NextOwner, PTL DEF Spec

\* "refusing to overwrite CodeQL artifact": the audit of a workspace belongs to
\* one scan, whatever processes meet there, die, or leave descendants behind.
THEOREM OneScanOnly == Spec => []AuditBelongsToOneScan
<1>1. OwnerInv => AuditBelongsToOneScan
  <2> SUFFICES ASSUME OwnerInv PROVE AuditBelongsToOneScan
    OBVIOUS
  <2> DEFINE Authors == {author[f] : f \in Paths} \ {Nobody}
  <2>1. Authors \subseteq {Owner}
    BY DEF OwnerInv, FilesAreOfTheOwner
  <2>2. Cardinality(Authors) <= 1
    <3>1. Authors = {} \/ Authors = {Owner}
      BY <2>1
    <3>2. Cardinality({}) = 0 /\ Cardinality({Owner}) = 1
      BY FS_EmptySet, FS_Singleton
    <3> QED
      BY <3>1, <3>2
  <2>3. ASSUME NEW p \in Procs, NEW q \in Procs, Len(exits[p]) > 0, Len(exits[q]) > 0
        PROVE  p = q
    <3>1. exits[p] \in Seq(Endings) /\ exits[q] \in Seq(Endings)
      BY DEF OwnerInv, Shape
    <3>2. exits[p] # <<>> /\ exits[q] # <<>>
      BY <2>3, <3>1
    <3> QED
      BY <3>2 DEF OwnerInv, ProcessesAreTheOwner, Underway
  <2> QED
    BY <2>2, <2>3 DEF AuditBelongsToOneScan
<1> QED
  BY <1>1, WorkspaceHasOneOwner, PTL

-----------------------------------------------------------------------------
(* What a scan tells *)

\* A SARIF file that parses.
Complete == {"original", "altered"}

\* The logs a process has written, as long as its scan goes on.
Done(p) ==
    IF at[p] \in Later THEN step[p] * Len(Parts)
    ELSE (step[p] - 1) * Len(Parts) + part[p] - 1

\* The first k logs are complete and there is no other.
Exactly(k) ==
    \A i \in DOMAIN Logs :
        files[Logs[i]] = IF i <= k THEN "original" ELSE "absent"

\* The first k logs are complete, the next one may be there in part.
AtLeast(k) ==
    \A i \in DOMAIN Logs :
        IF i <= k THEN files[Logs[i]] = "original"
        ELSE files[Logs[i]] \in IF i = k + 1 THEN {"partial", "absent"} ELSE {"absent"}

\* Where a process is, by the commands that have ended.
InStep(p) ==
    /\ step[p] \in DOMAIN Commands /\ part[p] \in DOMAIN Parts
    /\ child[p] \in {None, "running", "heir"} /\ (child[p] # None => at[p] = "wait")
    /\ at[p] = "call" => step[p] = 1
    /\ at[p] \in {"call", "start", "wait"} \cup Later => part[p] = 1
    /\ at[p] \in {"call", "start", "wait", "write"} => Len(exits[p]) = step[p] - 1
    /\ at[p] \in Later => Len(exits[p]) = step[p]
    /\ at[p] = "ended" => Len(exits[p]) \in {step[p] - 1, step[p]}
    /\ at[p] \in Later \ {"check"} => step[p] = Analyze
    /\ \A s \in 1 .. Create - 1 : s < step[p] => Pinned(s)

\* The commands before the last one succeeded, and so did the last one when
\* the scan went on.
ExitsAreGood(p) ==
    /\ at[p] = "write" => ended[p] # None
    /\ at[p] = "check" => exits[p][step[p]] = ended[p] /\ ended[p] # None
    /\ \A i \in DOMAIN exits[p] :
          exits[p][i] # "ok" => i = Len(exits[p]) /\ at[p] \in {"check", "ended"}

SarifIsRead(p) ==
    /\ at[p] = "read" => files[Sarif] # "absent"
    /\ at[p] \in {"parse", "publish"} =>
          bytes[p] # "absent" /\ (bytes[p] # "partial" => files[Sarif] \in Complete)
    /\ at[p] = "publish" => bytes[p] # "partial"

Recorded(s) == files[<<Commands[s], "command.json">>] = "original"

OutcomeTells(p) ==
    /\ (outcome[p] = Pending) = (at[p] # "ended")
    /\ outcome[p].kind = "succeeded" =>
          /\ Len(exits[p]) = Len(Commands) /\ \A i \in DOMAIN exits[p] : exits[p][i] = "ok"
          /\ outcome[p].sarif # "partial" /\ files[Metadata] = "original"
    /\ outcome[p].kind \in {"timeout", "not started", "failed"} =>
          /\ Len(exits[p]) = outcome[p].step /\ outcome[p].step = step[p]
          /\ exits[p][outcome[p].step] = outcome[p].kind /\ Recorded(outcome[p].step)
    /\ at[p] = "ended" => \A i \in DOMAIN exits[p] :
          exits[p][i] # "ok" => outcome[p].kind \in {exits[p][i], "killed"}

LogsAreInOrder(p) ==
    /\ Underway(p) /\ at[p] # "ended" => Exactly(Done(p))
    /\ Owner = p /\ at[p] # "ended" => Underway(p)
    /\ Owner = p /\ at[p] = "ended" =>
          \E k \in 0 .. Len(Logs) :
             /\ AtLeast(k) /\ (step[p] - 1) * Len(Parts) <= k
             /\ Len(exits[p]) * Len(Parts) <= k
             /\ files[Metadata] # "absent" => k = Len(Logs)

SarifIsLate ==
    /\ files[Sarif] # "absent" => Owner \in Procs /\ step[Owner] = Analyze
    /\ files[Metadata] # "absent" =>
          files[Sarif] \in Complete /\ Owner \in Procs /\ at[Owner] = "ended"
    /\ database => \A s \in 1 .. Create - 1 : Pinned(s)
    /\ \A o \in orphans : o[2] <= step[o[1]]

World ==
    /\ setup \in Setups /\ database \in BOOLEAN /\ incidents \in 0 .. MaxIncidents
    /\ DOMAIN child = Procs /\ DOMAIN bytes = Procs /\ DOMAIN outcome = Procs

Mine(p) == InStep(p) /\ ExitsAreGood(p) /\ SarifIsRead(p) /\ OutcomeTells(p)

ScanInv ==
    /\ OwnerInv /\ World /\ SarifIsLate
    /\ \A p \in Procs : Mine(p) /\ LogsAreInOrder(p)

-----------------------------------------------------------------------------
(* The logs in their order *)

\* The five commands and the three logs of each, by their names.
LEMMA CommandsAndParts ==
    /\ Len(Commands) = 5 /\ DOMAIN Commands = 1 .. 5 /\ Len(Parts) = 3 /\ DOMAIN Parts = 1 .. 3
    /\ \A s, t \in 1 .. 5 : Commands[s] = Commands[t] => s = t
    /\ \A s, t \in 1 .. 3 : Parts[s] = Parts[t] => s = t
    /\ \A s \in 1 .. 5 : Commands[s] \notin {"results", "run"}
    /\ Parts[3] = "command.json"
  BY DEF Commands, Parts

\* The fifteen logs are one per command and part, and none is another file.
LEMMA LogsFacts ==
    /\ DOMAIN Logs = 1 .. 15 /\ Len(Logs) = 15
    /\ \A s \in 1 .. 5, t \in 1 .. 3 : Logs[(s - 1) * 3 + t] = <<Commands[s], Parts[t]>>
    /\ \A i, j \in 1 .. 15 : Logs[i] = Logs[j] => i = j
    /\ \A i \in 1 .. 15 : Logs[i] \in Paths /\ Logs[i] # Sarif /\ Logs[i] # Metadata
    /\ Sarif \in Paths /\ Metadata \in Paths /\ Sarif # Metadata
<1> DEFINE S(i) == (i - 1) \div 3 + 1
           T(i) == ((i - 1) % 3) + 1
<1>1. \A i \in 1 .. 15 : /\ S(i) \in 1 .. 5 /\ T(i) \in 1 .. 3
                         /\ i = (S(i) - 1) * 3 + T(i)
  OBVIOUS
<1>2. \A s \in 1 .. 5, t \in 1 .. 3 :
         (s - 1) * 3 + t \in 1 .. 15 /\ S((s - 1) * 3 + t) = s /\ T((s - 1) * 3 + t) = t
  OBVIOUS
<1>3. Logs = [i \in 1 .. 15 |-> <<Commands[S(i)], Parts[T(i)]>>]
  BY CommandsAndParts DEF Logs
<1> HIDE DEF S, T
<1>4. DOMAIN Logs = 1 .. 15 /\ Len(Logs) = 15
  <2>1. Logs \in [1 .. 15 -> {<<Commands[S(i)], Parts[T(i)]>> : i \in 1 .. 15}]
    BY <1>3
  <2> QED
    BY <2>1
<1>5. \A i \in 1 .. 15 : Logs[i] = <<Commands[S(i)], Parts[T(i)]>>
  BY <1>3
<1>6. \A s \in 1 .. 5, t \in 1 .. 3 : Logs[(s - 1) * 3 + t] = <<Commands[s], Parts[t]>>
  BY <1>2, <1>5
<1>7. ASSUME NEW i \in 1 .. 15, NEW j \in 1 .. 15, Logs[i] = Logs[j] PROVE i = j
  <2>1. Commands[S(i)] = Commands[S(j)] /\ Parts[T(i)] = Parts[T(j)]
    BY <1>5, <1>7
  <2>2. S(i) = S(j) /\ T(i) = T(j)
    BY <1>1, <2>1, CommandsAndParts
  <2> QED
    BY <1>1, <2>2
<1>8. ASSUME NEW i \in 1 .. 15
      PROVE  Logs[i] \in Paths /\ Logs[i] # Sarif /\ Logs[i] # Metadata
  <2>1. Logs[i] \in ToSet(Logs)
    BY <1>4 DEF ToSet
  <2>2. Commands[S(i)] \notin {"results", "run"}
    BY <1>1, CommandsAndParts
  <2> QED
    BY <1>5, <2>1, <2>2 DEF Paths, Sarif, Metadata
<1> QED
  BY <1>4, <1>6, <1>7, <1>8 DEF Paths, Sarif, Metadata

\* A process that writes is at the log after those it has written.
LEMMA NextLog ==
    ASSUME NEW p \in Procs, InStep(p), at[p] = "write"
    PROVE  /\ Done(p) \in 0 .. 14 /\ Done(p) = (step[p] - 1) * 3 + part[p] - 1
           /\ Log(p) = Logs[Done(p) + 1]
<1>1. step[p] \in 1 .. 5 /\ part[p] \in 1 .. 3
  BY CommandsAndParts DEF InStep
<1>2. Done(p) = (step[p] - 1) * 3 + part[p] - 1
  BY <1>1, CommandsAndParts DEF Done, Later
<1>3. Done(p) + 1 = (step[p] - 1) * 3 + part[p] /\ Done(p) \in 0 .. 14
  BY <1>1, <1>2
<1> QED
  BY <1>1, <1>2, <1>3, LogsFacts DEF Log

\* The record of a command is the last of its logs.
LEMMA RecordIsLast ==
    ASSUME NEW s \in 1 .. 5
    PROVE  <<Commands[s], "command.json">> = Logs[s * 3] /\ s * 3 \in 1 .. 15
<1>1. 3 \in 1 .. 3 /\ Parts[3] = "command.json"
  BY CommandsAndParts
<1>2. Logs[(s - 1) * 3 + 3] = <<Commands[s], Parts[3]>>
  BY <1>1, LogsFacts
<1>3. (s - 1) * 3 + 3 = s * 3 /\ s * 3 \in 1 .. 15
  OBVIOUS
<1> QED
  BY <1>1, <1>2, <1>3
-----------------------------------------------------------------------------
(* What a step leaves as it is *)

\* A file that is there stays as it is, but for the SARIF file, which stays
\* there, and stays complete.
Grows ==
    /\ setup' = setup
    /\ \A f \in Paths \ {Sarif} : files[f] # "absent" => files'[f] = files[f]
    /\ files[Sarif] # "absent" => files'[Sarif] # "absent"
    /\ files[Sarif] \in Complete => files'[Sarif] \in Complete

Same(q) ==
    /\ at'[q] = at[q] /\ step'[q] = step[q] /\ part'[q] = part[q] /\ exits'[q] = exits[q]
    /\ child'[q] = child[q] /\ ended'[q] = ended[q] /\ bytes'[q] = bytes[q]
    /\ outcome'[q] = outcome[q]

\* The record of a command stays as it was written.
LEMMA RecordsStay ==
    ASSUME Grows, NEW s \in DOMAIN Commands, Recorded(s)
    PROVE  Recorded(s)'
<1>1. s \in 1 .. 5 /\ 3 \in 1 .. 3 /\ (s - 1) * 3 + 3 \in 1 .. 15
  BY CommandsAndParts
<1>2. <<Commands[s], "command.json">> = Logs[(s - 1) * 3 + 3]
  BY <1>1, LogsFacts, CommandsAndParts
<1>3. <<Commands[s], "command.json">> \in Paths \ {Sarif}
  BY <1>1, <1>2, LogsFacts
<1> QED
  BY <1>3 DEF Recorded, Grows

\* What a process says of itself stays true when others grow the files.
LEMMA OthersStay ==
    ASSUME NEW q \in Procs, Mine(q), Grows, Same(q)
    PROVE  Mine(q)'
<1>1. InStep(q)' /\ ExitsAreGood(q)'
  BY DEF Mine, InStep, ExitsAreGood, Same, Grows, Pinned
<1>2. SarifIsRead(q)'
  BY DEF Mine, SarifIsRead, Same, Grows, Complete
<1>3. OutcomeTells(q)'
  <2>1. OutcomeTells(q) /\ step[q] \in DOMAIN Commands
    BY DEF Mine, InStep
  <2>2. files[Metadata] = "original" => files'[Metadata] = "original"
    BY LogsFacts DEF Grows
  <2>3. ASSUME outcome[q].kind \in {"timeout", "not started", "failed"}
        PROVE  Recorded(outcome[q].step)'
    <3>1. outcome[q].step \in DOMAIN Commands /\ Recorded(outcome[q].step)
      BY <2>1, <2>3 DEF OutcomeTells
    <3> QED
      BY <3>1, RecordsStay DEF Same
  <2> QED
    BY <2>1, <2>2, <2>3 DEF OutcomeTells, Same
<1> QED
  BY <1>1, <1>2, <1>3 DEF Mine

\* A process moves on, or ends, and writes nothing.
Calm(p) ==
    /\ UNCHANGED <<setup, files, author, database>>
    /\ orphans' \subseteq orphans \cup {<<p, step[p]>>}
    /\ \A q \in Procs \ {p} : Same(q)
    /\ at[p] # "ended" /\ step'[p] \in DOMAIN Commands /\ step[p] <= step'[p]
    /\ at'[p] = "ended" =>
          step'[p] = step[p] /\ part'[p] = part[p] /\ exits'[p] = exits[p]
    /\ at'[p] # "ended" => Done(p)' = Done(p) /\ (Underway(p)' <=> Underway(p))

\* What all scans of the workspace have told so far.
Together == SarifIsLate /\ \A p \in Procs : InStep(p) /\ LogsAreInOrder(p)

\* Between two writes there is no log in part.
LEMMA ExactlyIsEnough ==
    ASSUME NEW k, Exactly(k)
    PROVE  AtLeast(k)
<1> SUFFICES ASSUME NEW i \in DOMAIN Logs, ~ i <= k
             PROVE  files[Logs[i]] \in IF i = k + 1 THEN {"partial", "absent"} ELSE {"absent"}
  BY DEF Exactly, AtLeast
<1>1. files[Logs[i]] = "absent"
  BY DEF Exactly
<1> QED
  BY <1>1

\* A step without a file leaves the logs in order.
LEMMA CalmStays ==
    ASSUME OwnerInv, Together, NEW p \in Procs, Calm(p)
    PROVE  SarifIsLate' /\ \A q \in Procs : LogsAreInOrder(q)'
<1>1. /\ Owner' = Owner /\ UNCHANGED <<setup, files, database>>
      /\ \A k : (Exactly(k) => Exactly(k)') /\ (AtLeast(k) => AtLeast(k)')
  BY DEF Calm, Owner, Exactly, AtLeast
<1>2. InStep(p) /\ LogsAreInOrder(p) /\ at[p] # "ended"
  BY DEF Calm, Together
<1>3. ASSUME NEW q \in Procs \ {p} PROVE LogsAreInOrder(q)'
  <2>1. LogsAreInOrder(q) /\ Same(q)
    BY DEF Together, Calm
  <2>2. Done(q)' = Done(q) /\ (Underway(q)' <=> Underway(q))
    BY <2>1 DEF Same, Done, Underway
  <2>3. /\ Underway(q) /\ at[q] # "ended" => Exactly(Done(q))'
    BY <1>1, <2>1, <2>2 DEF LogsAreInOrder
  <2> QED
    BY <1>1, <2>1, <2>2, <2>3 DEF LogsAreInOrder, Same
<1>4. LogsAreInOrder(p)'
  <2>1. CASE at'[p] # "ended"
    <3>1. Done(p)' = Done(p) /\ (Underway(p)' <=> Underway(p))
      BY <2>1 DEF Calm
    <3>2. Underway(p) => Exactly(Done(p))'
      BY <1>1, <1>2, <3>1 DEF LogsAreInOrder
    <3> QED
      BY <1>1, <1>2, <2>1, <3>1, <3>2 DEF LogsAreInOrder
  <2>2. CASE at'[p] = "ended"
    <3>1. step'[p] = step[p] /\ part'[p] = part[p] /\ exits'[p] = exits[p]
      BY <2>2 DEF Calm
    <3>2. ASSUME Owner = p
          PROVE  /\ Done(p) \in 0 .. 15 /\ AtLeast(Done(p)) /\ files[Metadata] = "absent"
                 /\ (step[p] - 1) * Len(Parts) <= Done(p)
                 /\ Len(exits[p]) * Len(Parts) <= Done(p)
      <4>1. Exactly(Done(p))
        BY <1>2, <3>2 DEF LogsAreInOrder
      <4>2. files[Metadata] = "absent"
        BY <1>2, <3>2 DEF Together, SarifIsLate
      <4>3. /\ step[p] \in 1 .. 5 /\ part[p] \in 1 .. 3
            /\ Len(exits[p]) = IF at[p] \in Later THEN step[p] ELSE step[p] - 1
        BY <1>2, CommandsAndParts DEF InStep, Later, OwnerInv, Shape, Places
      <4>4. /\ Done(p) \in 0 .. 15 /\ (step[p] - 1) * Len(Parts) <= Done(p)
            /\ Len(exits[p]) * Len(Parts) <= Done(p)
        <5>1. Len(Parts) = 3
          BY CommandsAndParts
        <5>2. Done(p) = IF at[p] \in Later THEN step[p] * 3 ELSE (step[p] - 1) * 3 + part[p] - 1
          BY <5>1 DEF Done
        <5>3. CASE at[p] \in Later
          <6>1. Done(p) = step[p] * 3 /\ Len(exits[p]) = step[p]
            BY <4>3, <5>2, <5>3
          <6> QED
            BY <4>3, <5>1, <6>1
        <5>4. CASE at[p] \notin Later
          <6>1. Done(p) = (step[p] - 1) * 3 + part[p] - 1 /\ Len(exits[p]) = step[p] - 1
            BY <4>3, <5>2, <5>4
          <6>2. (step[p] - 1) * 3 \in 0 .. 12 /\ part[p] - 1 \in 0 .. 2
            BY <4>3
          <6>3. Done(p) \in 0 .. 15 /\ (step[p] - 1) * 3 <= Done(p)
            BY <4>3, <6>1, <6>2
          <6> QED
            BY <5>1, <6>1, <6>3
        <5> QED
          BY <5>3, <5>4
      <4> QED
        BY <4>1, <4>2, <4>4, ExactlyIsEnough
    <3>3. ASSUME Owner = p
          PROVE  \E k \in 0 .. 15 :
                   /\ AtLeast(k)' /\ (step[p] - 1) * Len(Parts) <= k
                   /\ Len(exits[p]) * Len(Parts) <= k /\ files'[Metadata] = "absent"
      <4>1. PICK k \in 0 .. 15 :
                   /\ AtLeast(k) /\ (step[p] - 1) * Len(Parts) <= k
                   /\ Len(exits[p]) * Len(Parts) <= k /\ files[Metadata] = "absent"
        BY <3>2, <3>3
      <4>2. AtLeast(k)'
        BY <1>1, <4>1
      <4> QED
        BY <1>1, <4>1, <4>2
    <3> QED
      BY <1>1, <2>2, <3>1, <3>3, LogsFacts DEF LogsAreInOrder
  <2> QED
    BY <2>1, <2>2
<1>5. SarifIsLate'
  <2>1. \A q \in Procs : step[q] \in 1 .. 5 /\ step'[q] \in 1 .. 5 /\ step[q] <= step'[q]
    BY CommandsAndParts DEF Together, InStep, Calm, Same
  <2>2. \A q \in Procs : at[q] = "ended" => at'[q] = "ended"
    BY DEF Calm, Same
  <2>3. \A o \in orphans' : o[2] <= step'[o[1]]
    <3>1. orphans \subseteq Procs \X (Nat \ {0})
      BY DEF OwnerInv, Shape
    <3>2. ASSUME NEW o \in orphans PROVE o[2] <= step'[o[1]]
      <4>1. o[1] \in Procs /\ o[2] \in Nat /\ o[2] <= step[o[1]]
        BY <3>1 DEF Together, SarifIsLate
      <4> QED
        BY <2>1, <4>1
    <3> QED
      BY <2>1, <3>2 DEF Calm
  <2>4. \A s : Pinned(s)' <=> Pinned(s)
    BY <1>1 DEF Pinned
  <2> QED
    BY <1>1, <2>1, <2>2, <2>3, <2>4 DEF Together, SarifIsLate, Analyze
<1> QED
  BY <1>3, <1>4, <1>5

\* A process writes its next log or the metadata, and goes on only if it
\* wrote a log completely.
Wrote(p, content) ==
    /\ at[p] \in {"write", "publish"} /\ files[Target(p)] = "absent"
    /\ content \in {"partial", "original"}
    /\ files' = [files EXCEPT ![Target(p)] = content] /\ author'[Target(p)] = p
    /\ UNCHANGED <<setup, database, orphans>> /\ step'[p] = step[p]
    /\ \A q \in Procs \ {p} : Same(q)
    /\ \/ /\ at'[p] = "ended" /\ part'[p] = part[p] /\ exits'[p] = exits[p]
          /\ at[p] = "publish" \/ content = "partial"
       \/ /\ at[p] = "write" /\ content = "original" /\ at'[p] # "ended"
          /\ Done(p)' = Done(p) + 1 /\ Underway(p)'

\* Whoever writes has the root, and the logs are there up to the one it writes.
LEMMA WriterHasTheLogs ==
    ASSUME OwnerInv, Together, NEW p \in Procs, at[p] \in {"write", "publish"},
           files[Target(p)] = "absent"
    PROVE  /\ Exactly(Done(p)) /\ Owner \in {Nobody, p} /\ Done(p) \in 0 .. 15
           /\ at[p] = "publish" => Done(p) = 15 /\ step[p] = 5 /\ Owner = p
           /\ files[Metadata] = "absent" /\ (files[Sarif] # "absent" => Owner = p)
<1>1. InStep(p) /\ LogsAreInOrder(p) /\ SarifIsLate
  BY DEF Together
<1>2. at[p] = "publish" => Done(p) = 15 /\ step[p] = 5
  BY <1>1, CommandsAndParts DEF InStep, Done, Later, Analyze
<1>3. Done(p) \in 0 .. 15
  BY <1>1, <1>2, NextLog
<1>4. Nobody \notin Procs
  BY ScanAssumption
<1>5. CASE Underway(p)
  <2>1. Owner = p
    BY <1>5 DEF OwnerInv, ProcessesAreTheOwner
  <2>2. Exactly(Done(p))
    BY <1>1, <1>5 DEF LogsAreInOrder
  <2>3. files[Metadata] = "absent"
    BY <1>1, <2>1 DEF SarifIsLate
  <2> QED
    BY <1>2, <1>3, <2>1, <2>2, <2>3
<1>6. CASE ~ Underway(p)
  <2>1. at[p] = "write"
    BY <1>6 DEF OwnerInv, ProcessesAreTheOwner, Later, Underway
  <2>2. files[First] = "absent"
    BY <1>6, <2>1, FirstLog DEF Target
  <2>3. Owner = Nobody
    BY <2>2, Names DEF OwnerInv, FilesAreOfTheOwner, Owner
  <2>4. \A f \in Paths : files[f] = "absent"
    BY <2>3 DEF OwnerInv, FilesAreOfTheOwner
  <2>5. Done(p) = 0
    BY <1>1, <1>6, <2>1, NextLog DEF Underway
  <2>6. Exactly(0)
    BY <2>4, LogsFacts DEF Exactly
  <2> QED
    BY <2>1, <2>3, <2>4, <2>5, <2>6, LogsFacts
<1> QED
  BY <1>5, <1>6

\* Writing the next log or the metadata leaves the logs in order.
LEMMA WriteStays ==
    ASSUME OwnerInv, OwnerInv', Together, NEW p \in Procs, \A q \in Procs : SarifIsRead(q),
           NEW content, Wrote(p, content)
    PROVE  SarifIsLate' /\ \A q \in Procs : LogsAreInOrder(q)'
<1> DEFINE d == Done(p)
           path == Target(p)
<1>1. /\ Exactly(d) /\ Owner \in {Nobody, p} /\ d \in 0 .. 15
      /\ at[p] = "publish" => d = 15 /\ step[p] = 5 /\ Owner = p
      /\ files[Metadata] = "absent" /\ (files[Sarif] # "absent" => Owner = p)
  BY WriterHasTheLogs DEF Wrote
<1>2. /\ at[p] = "write" => d + 1 \in 1 .. 15 /\ path = Logs[d + 1]
      /\ at[p] = "publish" => path = Metadata
  BY NextLog DEF Together, Wrote, Target
<1>3. path \in Paths /\ path # Sarif
  BY <1>2, LogsFacts DEF Wrote
<1>4. \A f \in Paths : files'[f] = IF f = path THEN content ELSE files[f]
  BY DEF Wrote, OwnerInv, Shape
<1> HIDE DEF path
<1>5. Owner' = p /\ \A q \in Procs : Underway(q)' => q = p
  <2>1. Nobody \notin Procs
    BY ScanAssumption
  <2>2. author'[path] = p
    BY DEF Wrote, path
  <2>3. Owner' = p
    BY <1>3, <2>1, <2>2 DEF OwnerInv, FilesAreOfTheOwner
  <2> QED
    BY <2>3 DEF OwnerInv, ProcessesAreTheOwner
<1>6. ASSUME NEW q \in Procs \ {p} PROVE LogsAreInOrder(q)'
  BY <1>5 DEF LogsAreInOrder
<1>7. LogsAreInOrder(p)'
  <2>1. ASSUME at'[p] = "ended" PROVE \E k \in 0 .. 15 :
                   /\ AtLeast(k)' /\ (step'[p] - 1) * Len(Parts) <= k
                   /\ Len(exits'[p]) * Len(Parts) <= k /\ (files'[Metadata] # "absent" => k = 15)
    <3>1. PICK k \in 0 .. 15 : k = d
      BY <1>1
    <3>2. \A i \in DOMAIN Logs : files'[Logs[i]] =
              IF i <= k THEN "original" ELSE IF i = k + 1 /\ at[p] = "write" THEN "partial" ELSE "absent"
      <4>1. \A i \in 1 .. 15 : files[Logs[i]] = IF i <= k THEN "original" ELSE "absent"
        BY <1>1, <3>1, LogsFacts DEF Exactly
      <4>2. CASE at[p] = "write"
        <5>1. content = "partial"
          BY <2>1, <4>2 DEF Wrote
        <5>2. \A i \in 1 .. 15 : Logs[i] = path <=> i = k + 1
          BY <1>2, <3>1, <4>2, LogsFacts
        <5> QED
          BY <1>4, <4>1, <4>2, <5>1, <5>2, LogsFacts
      <4>3. CASE at[p] = "publish"
        BY <1>2, <1>4, <4>1, <4>3, LogsFacts
      <4> QED
        BY <4>2, <4>3 DEF Wrote
    <3>3. AtLeast(k)'
      <4>1. \A i \in DOMAIN Logs : i = k + 1 => ~ i <= k
        BY LogsFacts
      <4> QED
        BY <3>2, <4>1 DEF AtLeast
    <3>4. files'[Metadata] # "absent" => k = 15
      BY <1>1, <1>2, <1>4, <3>1, LogsFacts DEF Wrote
    <3>5. /\ step[p] \in 1 .. 5 /\ part[p] \in 1 .. 3 /\ Len(Parts) = 3
          /\ at[p] = "write" => Len(exits[p]) = step[p] - 1
          /\ at[p] = "publish" => Len(exits[p]) = step[p]
      BY CommandsAndParts DEF Together, InStep, Later
    <3>6. (step[p] - 1) * 3 <= k /\ Len(exits[p]) * 3 <= k
      <4>1. CASE at[p] = "write"
        <5>1. k = (step[p] - 1) * 3 + part[p] - 1
          BY <3>1, <4>1, NextLog DEF Together
        <5>2. (step[p] - 1) * 3 \in 0 .. 12 /\ part[p] - 1 \in 0 .. 2
          BY <3>5
        <5>3. (step[p] - 1) * 3 <= k
          BY <3>5, <5>1, <5>2
        <5> QED
          BY <3>5, <4>1, <5>3
      <4>2. CASE at[p] = "publish"
        <5>1. k = 15 /\ step[p] = 5 /\ Len(exits[p]) = 5
          BY <1>1, <3>1, <3>5, <4>2
        <5> QED
          BY <5>1
      <4> QED
        BY <4>1, <4>2 DEF Wrote
    <3>7. step'[p] = step[p] /\ exits'[p] = exits[p]
      BY <2>1 DEF Wrote
    <3> QED
      BY <3>3, <3>4, <3>5, <3>6, <3>7
  <2>2. ASSUME at'[p] # "ended" PROVE Exactly(Done(p))' /\ Underway(p)'
    <3>1. at[p] = "write" /\ content = "original" /\ Done(p)' = d + 1 /\ Underway(p)'
      BY <2>2 DEF Wrote
    <3>2. \A i \in 1 .. 15 : files[Logs[i]] = IF i <= d THEN "original" ELSE "absent"
      BY <1>1, LogsFacts DEF Exactly
    <3>3. \A i \in 1 .. 15 : Logs[i] = path <=> i = d + 1
      BY <1>2, <3>1, LogsFacts
    <3>4. \A i \in 1 .. 15 : files'[Logs[i]] = IF i = d + 1 THEN "original" ELSE files[Logs[i]]
      BY <1>4, <3>1, <3>3, LogsFacts
    <3>5. \A i \in 1 .. 15 : i <= d + 1 <=> (i <= d \/ i = d + 1)
      BY <1>1
    <3>6. \A i \in DOMAIN Logs : files'[Logs[i]] = IF i <= d + 1 THEN "original" ELSE "absent"
      BY <3>2, <3>4, <3>5, LogsFacts
    <3>7. Exactly(Done(p))'
      BY <3>1, <3>6 DEF Exactly
    <3> QED
      BY <3>1, <3>7
  <2> QED
    BY <2>1, <2>2, LogsFacts DEF LogsAreInOrder
<1>8. SarifIsLate'
  <2>1. files'[Sarif] = files[Sarif]
    BY <1>3, <1>4, LogsFacts
  <2>2. files'[Sarif] # "absent" => Owner' \in Procs /\ step'[p] = Analyze
    BY <1>1, <1>5, <2>1 DEF Wrote, Together, SarifIsLate
  <2>3. ASSUME files'[Metadata] # "absent"
        PROVE  files'[Sarif] \in Complete /\ at'[p] = "ended"
    <3>1. at[p] = "publish"
      BY <1>1, <1>2, <1>4, <2>3, LogsFacts DEF Wrote
    <3> QED
      BY <2>1, <3>1 DEF Wrote, SarifIsRead
  <2>4. \A o \in orphans' : o[2] <= step'[o[1]]
    <3>1. \A q \in Procs : step'[q] = step[q]
      BY DEF Wrote, Same
    <3>2. \A o \in orphans : o[1] \in Procs
      BY DEF OwnerInv, Shape
    <3> QED
      BY <3>1, <3>2 DEF Wrote, Together, SarifIsLate
  <2>5. (database => \A s \in 1 .. Create - 1 : Pinned(s))'
    BY DEF Wrote, Together, SarifIsLate, Pinned
  <2> QED
    BY <1>5, <2>2, <2>3, <2>4, <2>5 DEF SarifIsLate
<1> QED
  BY <1>6, <1>7, <1>8

\* A tool, or a descendant of it, works on the database or the SARIF file.
Worked(p) ==
    /\ UNCHANGED setup /\ orphans' \subseteq orphans /\ \A q \in Procs : Same(q)
    /\ \/ UNCHANGED <<files, author>> /\ (database' # database => step[p] >= Create)
       \/ /\ \E content \in States \ {"absent"} :
                /\ files' = [files EXCEPT ![Sarif] = content]
                /\ files[Sarif] \in Complete => content \in Complete
          /\ author' = [author EXCEPT ![Sarif] = p]
          /\ database' = database /\ step[p] = Analyze /\ Owner = p

\* So does the work of a tool or of a descendant.
LEMMA WorkStays ==
    ASSUME OwnerInv, OwnerInv', Together, NEW p \in Procs, Worked(p)
    PROVE  SarifIsLate' /\ \A q \in Procs : LogsAreInOrder(q)'
<1>1. /\ Owner' = Owner
      /\ \A i \in DOMAIN Logs : files'[Logs[i]] = files[Logs[i]]
      /\ files'[Metadata] = files[Metadata]
  <2>1. First # Sarif
    BY DEF First, Sarif
  <2> QED
    BY <2>1, Names, LogsFacts DEF Worked, OwnerInv, Shape, Owner
<1>2. \A k : (Exactly(k) => Exactly(k)') /\ (AtLeast(k) => AtLeast(k)')
  BY <1>1 DEF Exactly, AtLeast
<1>3. ASSUME NEW q \in Procs PROVE LogsAreInOrder(q)'
  <2>1. LogsAreInOrder(q) /\ Same(q)
    BY DEF Together, Worked
  <2>2. Done(q)' = Done(q) /\ (Underway(q)' <=> Underway(q))
    BY <2>1 DEF Same, Done, Underway
  <2>3. Underway(q) /\ at[q] # "ended" => Exactly(Done(q))'
    BY <1>2, <2>1, <2>2 DEF LogsAreInOrder
  <2> QED
    BY <1>1, <1>2, <2>1, <2>2, <2>3 DEF LogsAreInOrder, Same
<1>4. SarifIsLate'
  <2>1. /\ files'[Sarif] # "absent" => Owner \in Procs /\ step[Owner] = Analyze
        /\ files[Sarif] \in Complete => files'[Sarif] \in Complete
    BY LogsFacts DEF Worked, Together, SarifIsLate, OwnerInv, Shape
  <2>2. \A q \in Procs : at'[q] = at[q] /\ step'[q] = step[q]
    BY DEF Worked, Same
  <2>3. \A o \in orphans' : o[2] <= step'[o[1]]
    <3>1. \A o \in orphans : o[1] \in Procs
      BY DEF OwnerInv, Shape
    <3> QED
      BY <2>2, <3>1 DEF Worked, Together, SarifIsLate
  <2>4. \A s : Pinned(s)' <=> Pinned(s)
    BY DEF Worked, Pinned
  <2>5. database' => \A s \in 1 .. Create - 1 : Pinned(s)
    <3>1. CASE database' = database
      BY <3>1 DEF Together, SarifIsLate
    <3>2. CASE database' # database
      <4>1. step[p] >= Create /\ step[p] \in 1 .. 5 /\ InStep(p)
        BY <3>2, CommandsAndParts DEF Worked, Together, InStep
      <4> QED
        BY <4>1 DEF InStep, Create
    <3> QED
      BY <3>1, <3>2
  <2> QED
    BY <1>1, <2>1, <2>2, <2>3, <2>4, <2>5 DEF Together, SarifIsLate
<1> QED
  BY <1>3, <1>4

-----------------------------------------------------------------------------
(* What a process may say of itself after its step *)

\* How a scan may end: a result after five commands, an error of the command
\* that was checked, or another error.
MayEnd(p, how) ==
    /\ how.kind # "pending"
    /\ how.kind = "succeeded" =>
          at[p] = "publish" /\ files'[Metadata] = "original" /\ how.sarif = bytes[p]
    /\ how.kind \in {"timeout", "not started", "failed"} =>
          at[p] = "check" /\ how.step = step[p] /\ how.kind = exits[p][step[p]]
    /\ at[p] = "check" =>
          exits[p][step[p]] = "ok" \/ how.kind \in {exits[p][step[p]], "killed"}

\* An outcome of these kinds tells how the commands ended.
LEMMA EndStays ==
    ASSUME OwnerInv, World, Together, NEW p \in Procs, Mine(p), NEW how, End(p, how),
           MayEnd(p, how), Grows, at[p] # "ended", child'[p] = None
    PROVE  Mine(p)'
<1>1. /\ at'[p] = "ended" /\ outcome'[p] = how
      /\ step'[p] = step[p] /\ part'[p] = part[p] /\ exits'[p] = exits[p]
  BY DEF End, Goto, OwnerInv, Shape, World
<1>2. InStep(p) /\ ExitsAreGood(p) /\ SarifIsRead(p)
  BY DEF Mine
<1>3. at[p] \in Places /\ (at[p] \in Later \/ at[p] \in {"call", "start", "wait", "write"})
  BY DEF OwnerInv, Shape, Places
<1>4. InStep(p)'
  BY <1>1, <1>2, <1>3 DEF InStep, Later, Grows, Pinned
<1>5. ExitsAreGood(p)' /\ SarifIsRead(p)'
  BY <1>1, <1>2 DEF ExitsAreGood, SarifIsRead
<1>6. OutcomeTells(p)'
  <2>1. how # Pending
    <3>1. Pending.kind = "pending" /\ how.kind # "pending"
      BY DEF MayEnd, Pending
    <3> QED
      BY <3>1
  <2>2. ASSUME how.kind = "succeeded"
        PROVE  /\ Len(exits[p]) = Len(Commands) /\ \A i \in DOMAIN exits[p] : exits[p][i] = "ok"
               /\ how.sarif # "partial" /\ files'[Metadata] = "original"
    <3>1. at[p] = "publish" /\ files'[Metadata] = "original" /\ how.sarif = bytes[p]
      BY <2>2 DEF MayEnd
    <3>2. Len(exits[p]) = 5
      BY <1>2, <3>1 DEF InStep, Later, Analyze
    <3> QED
      BY <1>2, <3>1, <3>2, CommandsAndParts DEF ExitsAreGood, SarifIsRead
  <2>3. ASSUME how.kind \in {"timeout", "not started", "failed"}
        PROVE  /\ Len(exits[p]) = how.step /\ how.step = step[p]
               /\ exits[p][how.step] = how.kind /\ Recorded(how.step)'
    <3>1. at[p] = "check" /\ how.step = step[p] /\ how.kind = exits[p][step[p]]
      BY <2>3 DEF MayEnd
    <3>2. Len(exits[p]) = step[p] /\ step[p] \in 1 .. 5
      BY <1>2, <3>1, CommandsAndParts DEF InStep, Later
    <3>3. Exactly(Done(p)) /\ Done(p) = step[p] * 3
      <4>1. Underway(p)
        BY <3>1 DEF OwnerInv, ProcessesAreTheOwner, Later, Underway
      <4>2. Exactly(Done(p))
        BY <3>1, <4>1 DEF Together, LogsAreInOrder
      <4>3. Done(p) = step[p] * 3
        BY <3>1, CommandsAndParts DEF Done, Later
      <4> QED
        BY <4>2, <4>3
    <3>4. Logs[step[p] * 3] = <<Commands[step[p]], "command.json">> /\ step[p] * 3 \in 1 .. 15
      BY <3>2, RecordIsLast
    <3>5. \A i \in 1 .. 15 : i <= Done(p) => files[Logs[i]] = "original"
      BY <3>3, LogsFacts DEF Exactly
    <3>6. Recorded(step[p])
      BY <3>3, <3>4, <3>5 DEF Recorded
    <3>7. Recorded(step[p])'
      <4>1. PICK s \in DOMAIN Commands : s = step[p]
        BY <1>2 DEF InStep
      <4>2. Recorded(s)'
        BY <3>6, <4>1, RecordsStay
      <4> QED
        BY <1>1, <4>1, <4>2 DEF Recorded
    <3> QED
      BY <1>1, <3>1, <3>2, <3>7 DEF Recorded
  <2>4. \A i \in DOMAIN exits[p] : exits[p][i] # "ok" => how.kind \in {exits[p][i], "killed"}
    <3> SUFFICES ASSUME NEW i \in DOMAIN exits[p], exits[p][i] # "ok"
                 PROVE  how.kind \in {exits[p][i], "killed"}
      OBVIOUS
    <3>1. i = Len(exits[p]) /\ at[p] = "check"
      BY <1>2 DEF ExitsAreGood
    <3>2. Len(exits[p]) = step[p]
      BY <1>2, <3>1 DEF InStep, Later
    <3> QED
      BY <3>1, <3>2 DEF MayEnd
  <2> QED
    BY <1>1, <2>1, <2>2, <2>3, <2>4 DEF OutcomeTells
<1> QED
  BY <1>4, <1>5, <1>6 DEF Mine

\* A process goes on: what it must have done to be where it is.
GoesOn(p) ==
    /\ at[p] # "ended" /\ at'[p] # "ended" /\ outcome'[p] = outcome[p]
    /\ InStep(p)' /\ ExitsAreGood(p)' /\ SarifIsRead(p)'

\* A scan that goes on has no outcome yet.
LEMMA GoingStays ==
    ASSUME World, NEW p \in Procs, Mine(p), GoesOn(p)
    PROVE  Mine(p)'
<1>1. outcome[p] = Pending
  BY DEF Mine, OutcomeTells, GoesOn
<1>2. outcome'[p].kind = "pending" /\ outcome'[p] = Pending
  BY <1>1 DEF GoesOn, Pending
<1>3. OutcomeTells(p)'
  BY <1>2 DEF OutcomeTells, GoesOn
<1> QED
  BY <1>3 DEF Mine, GoesOn

\* Files that stay as they are do grow.
LEMMA UnchangedGrows ==
    ASSUME UNCHANGED <<setup, files>>
    PROVE  Grows
  BY DEF Grows

\* So do they when one more is created.
LEMMA CreatesGrow ==
    ASSUME OwnerInv, NEW path \in Paths, path # Sarif, files[path] = "absent", NEW content,
           files' = [files EXCEPT ![path] = content], UNCHANGED setup
    PROVE  Grows
<1>1. \A f \in Paths : files'[f] = IF f = path THEN content ELSE files[f]
  BY DEF OwnerInv, Shape
<1> QED
  BY <1>1, LogsFacts DEF Grows

\* What every step of a process does.
ScanStep(p) ==
    /\ Grows /\ Mine(p)' /\ \A q \in Procs \ {p} : Same(q)
    /\ SarifIsLate' /\ \A q \in Procs : LogsAreInOrder(q)'

\* A step without a file is a step of a scan.
LEMMA CalmStep ==
    ASSUME OwnerInv, Together, NEW p \in Procs, Calm(p), Mine(p)'
    PROVE  ScanStep(p)
<1>1. Grows
  BY UnchangedGrows DEF Calm
<1> QED
  BY <1>1, CalmStays DEF ScanStep, Calm

\* A command that ends without a file.
LEMMA QuietEnd ==
    ASSUME OwnerInv, World, Together, NEW p \in Procs, Mine(p), NEW how, End(p, how),
           MayEnd(p, how), at[p] # "ended", child'[p] = None,
           UNCHANGED <<setup, files, author, database>>,
           orphans' \subseteq orphans \cup {<<p, step[p]>>},
           \A q \in Procs \ {p} : child'[q] = child[q] /\ ended'[q] = ended[q]
    PROVE  ScanStep(p)
<1>1. Mine(p)'
  BY EndStays, UnchangedGrows
<1>2. \A q \in Procs \ {p} : Same(q)
  BY DEF End, Goto, OwnerInv, Shape, World, Same
<1>3. /\ at'[p] = "ended" /\ step'[p] = step[p] /\ part'[p] = part[p] /\ exits'[p] = exits[p]
      /\ step[p] \in DOMAIN Commands
  BY DEF End, Goto, OwnerInv, Shape, Mine, InStep
<1>4. Calm(p)
  BY <1>2, <1>3, CommandsAndParts DEF Calm
<1> QED
  BY <1>1, <1>4, CalmStep

\* A process goes on without a file.
LEMMA QuietMove ==
    ASSUME OwnerInv, World, Together, NEW p \in Procs, Mine(p), GoesOn(p),
           UNCHANGED <<setup, files, author, database>>,
           orphans' \subseteq orphans \cup {<<p, step[p]>>},
           \A q \in Procs \ {p} : Same(q), step[p] <= step'[p],
           Done(p)' = Done(p), Underway(p)' <=> Underway(p)
    PROVE  ScanStep(p)
<1>1. Mine(p)'
  BY GoingStays
<1>2. step'[p] \in DOMAIN Commands
  BY DEF GoesOn, InStep
<1>3. Calm(p)
  BY <1>2 DEF Calm, GoesOn
<1> QED
  BY <1>1, <1>3, CalmStep

-----------------------------------------------------------------------------
(* The steps of a scan are such steps *)

\* The checks before the first command.
LEMMA BeginSteps ==
    ASSUME ScanInv, Together, NEW p \in Procs, Begin(p)
    PROVE  ScanStep(p)
<1>1. /\ at[p] = "call" /\ UNCHANGED <<setup, files, author, database, child, ended, orphans>>
      /\ OwnerInv /\ World /\ Mine(p)
  BY DEF Begin, ScanInv
<1>2. child[p] = None /\ step[p] = 1
  BY <1>1 DEF Mine, InStep
<1>3. ASSUME NEW kind \in {"unsafe path", "build plan", "no tool"}, Raise(p, kind)
      PROVE  ScanStep(p)
  <2> DEFINE how == [kind |-> kind, step |-> step[p]]
  <2>1. End(p, how) /\ how.kind = kind
    BY <1>3 DEF Raise
  <2> HIDE DEF how
  <2>2. MayEnd(p, how)
    BY <1>1, <2>1 DEF MayEnd
  <2> QED
    BY <1>1, <1>2, <2>1, <2>2, QuietEnd
<1>4. CASE Proceed(p, "start")
  <2>1. at'[p] = "start" /\ UNCHANGED <<step, part, exits, bytes, outcome>>
    BY <1>1, <1>4 DEF Proceed, Goto, OwnerInv, Shape
  <2>2. InStep(p)' /\ ExitsAreGood(p)' /\ SarifIsRead(p)'
    BY <1>1, <1>2, <2>1 DEF Mine, InStep, ExitsAreGood, SarifIsRead, Pinned, Later
  <2>3. GoesOn(p)
    BY <1>1, <2>1, <2>2 DEF GoesOn
  <2>4. \A q \in Procs \ {p} : Same(q)
    BY <1>1, <1>4, <2>1 DEF Proceed, Goto, OwnerInv, Shape, Same
  <2>5. Done(p)' = Done(p) /\ (Underway(p)' <=> Underway(p)) /\ step[p] <= step'[p]
    BY <1>1, <1>2, <2>1 DEF Done, Underway, Later
  <2> QED
    BY <1>1, <2>3, <2>4, <2>5, QuietMove
<1> QED
  BY <1>3, <1>4 DEF Begin

\* A command is started, or cannot be, or returns.
LEMMA CommandSteps ==
    ASSUME ScanInv, Together, NEW p \in Procs,
           StartCommand(p) \/ CannotStart(p) \/ CommandReturns(p)
    PROVE  ScanStep(p)
<1>1. /\ UNCHANGED <<setup, files, author, database, orphans, step, part, exits, bytes, outcome>>
      /\ OwnerInv /\ World /\ Mine(p)
  BY DEF StartCommand, CannotStart, CommandReturns, Proceed, ScanInv
<1>2. /\ \/ at[p] = "start" /\ at'[p] = "wait" /\ child'[p] = "running"
         \/ at[p] = "start" /\ at'[p] = "write" /\ ended'[p] # None /\ child'[p] = child[p]
         \/ at[p] = "wait" /\ at'[p] = "write" /\ ended'[p] # None /\ child'[p] = None
      /\ \A q \in Procs \ {p} : at'[q] = at[q] /\ child'[q] = child[q] /\ ended'[q] = ended[q]
  BY <1>1 DEF StartCommand, CannotStart, CommandReturns, Proceed, Goto, OwnerInv, Shape, World, None
<1>3. InStep(p)' /\ ExitsAreGood(p)' /\ SarifIsRead(p)'
  BY <1>1, <1>2 DEF Mine, InStep, ExitsAreGood, SarifIsRead, Pinned, Later
<1>4. GoesOn(p)
  BY <1>1, <1>2, <1>3 DEF GoesOn
<1>5. \A q \in Procs \ {p} : Same(q)
  BY <1>1, <1>2 DEF Same
<1>6. Done(p)' = Done(p) /\ (Underway(p)' <=> Underway(p)) /\ step[p] <= step'[p]
  <2>1. step[p] \in 1 .. 5 /\ at[p] \notin Later /\ at'[p] \notin Later
    BY <1>1, <1>2, CommandsAndParts DEF Mine, InStep, Later
  <2> QED
    BY <1>1, <2>1 DEF Done, Underway
<1> QED
  BY <1>1, <1>4, <1>5, <1>6, QuietMove

\* The child exits, lets go of the pipes, or is killed at its timeout.
LEMMA ToolStepsTell ==
    ASSUME ScanInv, Together, NEW p \in Procs, ToolExits(p) \/ HeirLetsGo(p) \/ Timeout(p)
    PROVE  ScanStep(p)
<1>1. /\ UNCHANGED <<setup, files, author, database, at, step, part, exits, bytes, outcome>>
      /\ OwnerInv /\ World /\ Mine(p)
  BY DEF ToolExits, HeirLetsGo, Timeout, control, ScanInv
<1>2. /\ at[p] = "wait" /\ child'[p] \in {None, "heir"}
      /\ \A q \in Procs \ {p} : child'[q] = child[q] /\ ended'[q] = ended[q]
  BY <1>1 DEF ToolExits, HeirLetsGo, Timeout, OwnerInv, Shape, World, None, Mine, InStep
<1>3. InStep(p)' /\ ExitsAreGood(p)' /\ SarifIsRead(p)'
  BY <1>1, <1>2 DEF Mine, InStep, ExitsAreGood, SarifIsRead, Pinned, Later
<1>4. GoesOn(p)
  BY <1>1, <1>2, <1>3 DEF GoesOn
<1>5. \A q \in Procs \ {p} : Same(q)
  BY <1>1, <1>2 DEF Same
<1>6. Done(p)' = Done(p) /\ (Underway(p)' <=> Underway(p)) /\ step[p] <= step'[p]
  <2>1. step[p] \in 1 .. 5
    BY <1>1, CommandsAndParts DEF Mine, InStep
  <2> QED
    BY <1>1, <2>1 DEF Done, Underway
<1>7. orphans' \subseteq orphans \cup {<<p, step[p]>>}
  BY DEF ToolExits, HeirLetsGo, Timeout, LivesOn
<1> QED
  BY <1>1, <1>4, <1>5, <1>6, <1>7, QuietMove

\* The verdict on a command, its version or its output, and what comes next.
LEMMA CheckSteps ==
    ASSUME ScanInv, Together, NEW p \in Procs, Check(p)
    PROVE  ScanStep(p)
<1>1. /\ at[p] = "check" /\ UNCHANGED <<setup, files, author, database, child, orphans>>
      /\ OwnerInv /\ World /\ Mine(p) /\ ended' = [ended EXCEPT ![p] = None]
  BY DEF Check, ScanInv
<1>2. /\ InStep(p) /\ ExitsAreGood(p) /\ child[p] = None /\ step[p] \in 1 .. 5
      /\ Len(exits[p]) = step[p] /\ part[p] = 1 /\ exits[p][step[p]] = ended[p]
      /\ ended[p] \in {"ok", "failed", "timeout", "not started"}
      /\ exits[p] \in Seq(Endings)
  BY <1>1, CommandsAndParts DEF Mine, InStep, ExitsAreGood, Later, OwnerInv, Shape, Endings, None
<1>n. step[p] \in 1 .. 5
  BY <1>2
<1>l. Len(exits[p]) = step[p]
  BY <1>2
<1>i. InStep(p)
  BY <1>2
<1>3. \A q \in Procs \ {p} : ended'[q] = ended[q] /\ child'[q] = child[q]
  BY <1>1 DEF OwnerInv, Shape
<1>4. ASSUME NEW kind, Raise(p, kind),
             \/ ended[p] = "ok" /\ kind \in {"no version", "version", "no output"}
             \/ ended[p] # "ok" /\ kind = ended[p]
      PROVE  ScanStep(p)
  <2> DEFINE how == [kind |-> kind, step |-> step[p]]
  <2>1. End(p, how) /\ how.kind = kind /\ how.step = step[p]
    BY <1>4 DEF Raise
  <2> HIDE DEF how
  <2>2. MayEnd(p, how)
    BY <1>1, <1>2, <1>4, <2>1 DEF MayEnd
  <2> QED
    BY <1>1, <1>2, <1>3, <2>1, <2>2, QuietEnd
<1>5. ASSUME ended[p] = "ok", NEW where \in {"read", "start"}, at' = [at EXCEPT ![p] = where],
             UNCHANGED <<part, exits, bytes, outcome>>,
             \/ where = "read" /\ step' = step /\ step[p] = Analyze /\ files[Sarif] # "absent"
             \/ /\ where = "start" /\ step' = [step EXCEPT ![p] = @ + 1]
                /\ step[p] # Analyze /\ (step[p] < Create => Pinned(step[p]))
      PROVE  ScanStep(p)
  <2>1. at'[p] = where /\ \A q \in Procs \ {p} : at'[q] = at[q] /\ step'[q] = step[q]
    BY <1>5 DEF OwnerInv, Shape, ScanInv
  <2>2. step'[p] = IF where = "read" THEN step[p] ELSE step[p] + 1
    BY <1>5 DEF OwnerInv, Shape, ScanInv
  <2>3. \A q \in Procs \ {p} : Same(q)
    BY <1>3, <1>5, <2>1 DEF Same
  <2>4. InStep(p)'
    <3>1. step'[p] \in DOMAIN Commands
      BY <1>2, <1>5, <2>2, CommandsAndParts DEF Analyze
    <3>2. \A s \in 1 .. Create - 1 : s < step'[p] => Pinned(s)'
      <4>1. \A s : Pinned(s)' <=> Pinned(s)
        BY <1>1 DEF Pinned
      <4>2. \A s \in 1 .. 3 : s < step[p] => Pinned(s)
        BY <1>i DEF InStep, Create
      <4>3. \A s \in 1 .. 3 : s < step'[p] => Pinned(s)
        <5> SUFFICES ASSUME NEW s \in 1 .. 3, s < step'[p] PROVE Pinned(s)
          OBVIOUS
        <5>1. CASE s < step[p]
          BY <4>2, <5>1
        <5>2. CASE ~ s < step[p]
          <6>1. where = "start" /\ s = step[p]
            BY <1>n, <2>2, <5>2
          <6>2. step[p] < Create
            BY <6>1 DEF Create
          <6> QED
            BY <1>5, <6>1, <6>2
        <5> QED
          BY <5>1, <5>2
      <4> QED
        BY <4>1, <4>3 DEF Create
    <3>3. Len(exits[p]) = IF where = "read" THEN step'[p] ELSE step'[p] - 1
      BY <1>n, <1>l, <2>2
    <3> QED
      BY <1>1, <1>2, <1>5, <2>1, <2>2, <3>1, <3>2, <3>3 DEF InStep, Later
  <2>5. ExitsAreGood(p)'
    <3>1. \A i \in DOMAIN exits[p] : exits[p][i] = "ok"
      BY <1>2, <1>5 DEF ExitsAreGood
    <3> QED
      BY <1>5, <2>1, <3>1 DEF ExitsAreGood
  <2>6. SarifIsRead(p)'
    BY <1>1, <1>5, <2>1 DEF SarifIsRead
  <2>7. GoesOn(p)
    BY <1>1, <1>5, <2>1, <2>4, <2>5, <2>6 DEF GoesOn
  <2>8. Done(p)' = Done(p) /\ (Underway(p)' <=> Underway(p)) /\ step[p] <= step'[p]
    <3>1. Len(Parts) = 3
      BY CommandsAndParts
    <3>2. exits[p] # <<>>
      <4>1. Len(<<>>) = 0
        OBVIOUS
      <4>2. Len(exits[p]) # 0
        BY <1>n, <1>l
      <4> QED
        BY <4>1, <4>2
    <3>3. Done(p) = step[p] * 3
      BY <1>1, <3>1 DEF Done, Later
    <3>4. Done(p)' = IF where = "read" THEN step'[p] * 3 ELSE (step'[p] - 1) * 3 + part[p] - 1
      BY <1>5, <2>1, <3>1 DEF Done, Later
    <3> QED
      BY <1>2, <1>5, <2>2, <3>2, <3>3, <3>4 DEF Underway
  <2> QED
    BY <1>1, <2>3, <2>7, <2>8, QuietMove
<1> QED
  <2>1. CASE ended[p] # "ok"
    <3>1. Verdict(ended[p]) = ended[p] /\ Verdict(ended[p]) # "ok"
      BY <1>2, <2>1 DEF Verdict
    <3>2. Raise(p, Verdict(ended[p]))
      BY <3>1 DEF Check
    <3> QED
      BY <1>4, <2>1, <3>1, <3>2
  <2>2. CASE ended[p] = "ok"
    <3>1. Verdict(ended[p]) = "ok"
      BY <2>2 DEF Verdict
    <3>2. CASE step[p] < Create
      <4>1. CASE ~Readable(step[p])
        <5>1. Raise(p, "no version")
          BY <3>1, <3>2, <4>1 DEF Check
        <5> QED
          BY <1>4, <2>2, <5>1
      <4>2. CASE Readable(step[p]) /\ ~Pinned(step[p])
        <5>1. Raise(p, "version")
          BY <3>1, <3>2, <4>2 DEF Check
        <5> QED
          BY <1>4, <2>2, <5>1
      <4>3. CASE Readable(step[p]) /\ Pinned(step[p])
        <5>1. step[p] # Analyze /\ ~ step[p] >= Create
          BY <1>n, <3>2 DEF Analyze, Create
        <5>2. NextCommand(p)
          BY <3>1, <4>3, <5>1 DEF Check
        <5> QED
          BY <1>5, <2>2, <4>3, <5>1, <5>2 DEF NextCommand, Goto
      <4> QED
        BY <4>1, <4>2, <4>3
    <3>3. CASE ~ step[p] < Create
      <4>0. step[p] >= Create
        BY <1>n, <3>3 DEF Create
      <4>1. CASE ~HasOutput(step[p])
        <5>1. Raise(p, "no output")
          BY <3>1, <3>3, <4>0, <4>1 DEF Check
        <5> QED
          BY <1>4, <2>2, <5>1
      <4>2. CASE HasOutput(step[p]) /\ step[p] = Analyze
        <5>1. Proceed(p, "read")
          BY <3>1, <3>3, <4>2 DEF Check
        <5>2. files[Sarif] # "absent"
          BY <4>2 DEF HasOutput, Analyze, Create
        <5> QED
          BY <1>5, <2>2, <4>2, <5>1, <5>2 DEF Proceed, Goto
      <4>3. CASE HasOutput(step[p]) /\ step[p] # Analyze
        <5>1. NextCommand(p)
          BY <3>1, <3>3, <4>3 DEF Check
        <5> QED
          BY <1>5, <2>2, <3>3, <4>3, <5>1 DEF NextCommand, Goto
      <4> QED
        BY <4>1, <4>2, <4>3
    <3> QED
      BY <3>2, <3>3
  <2> QED
    BY <2>1, <2>2

\* The SARIF file is read and parsed.
LEMMA SarifSteps ==
    ASSUME ScanInv, Together, NEW p \in Procs, ReadSarif(p) \/ ParseSarif(p)
    PROVE  ScanStep(p)
<1>1. /\ UNCHANGED <<setup, files, author, database, child, ended, orphans>>
      /\ OwnerInv /\ World /\ Mine(p)
  BY DEF ReadSarif, ParseSarif, ScanInv
<1>2. /\ at[p] \in {"read", "parse"} /\ child[p] = None /\ step[p] \in 1 .. 5
      /\ files[Sarif] \in States
  BY <1>1, CommandsAndParts, LogsFacts DEF ReadSarif, ParseSarif, Mine, InStep, OwnerInv, Shape
<1>3. CASE ParseSarif(p) /\ bytes[p] = "partial"
  <2> DEFINE how == [kind |-> "no SARIF", step |-> step[p]]
  <2>1. End(p, how) /\ how.kind = "no SARIF" /\ at[p] = "parse"
    BY <1>3 DEF ParseSarif, Raise
  <2> HIDE DEF how
  <2>2. MayEnd(p, how)
    BY <1>1, <2>1 DEF MayEnd
  <2> QED
    BY <1>1, <1>2, <2>1, <2>2, QuietEnd
<1>4. CASE ReadSarif(p) \/ (ParseSarif(p) /\ bytes[p] # "partial")
  <2>1. /\ \/ at[p] = "read" /\ at'[p] = "parse" /\ bytes'[p] = files[Sarif]
           \/ at[p] = "parse" /\ at'[p] = "publish" /\ bytes'[p] = bytes[p] /\ bytes[p] # "partial"
        /\ UNCHANGED <<step, part, exits, outcome>>
        /\ \A q \in Procs \ {p} : at'[q] = at[q] /\ bytes'[q] = bytes[q]
    BY <1>1, <1>4 DEF ReadSarif, ParseSarif, Proceed, Goto, OwnerInv, Shape, World
  <2>2. InStep(p)'
    BY <1>1, <2>1 DEF Mine, InStep, Pinned, Later
  <2>3. ExitsAreGood(p)'
    BY <1>1, <2>1 DEF Mine, ExitsAreGood
  <2>4. SarifIsRead(p)'
    BY <1>1, <1>2, <2>1 DEF Mine, SarifIsRead, Complete, States
  <2>5. GoesOn(p)
    BY <1>1, <2>1, <2>2, <2>3, <2>4 DEF GoesOn
  <2>6. \A q \in Procs \ {p} : Same(q)
    BY <1>1, <2>1 DEF Same
  <2>7. Done(p)' = Done(p) /\ (Underway(p)' <=> Underway(p)) /\ step[p] <= step'[p]
    BY <1>2, <2>1 DEF Done, Underway, Later
  <2> QED
    BY <1>1, <2>5, <2>6, <2>7, QuietMove
<1> QED
  BY <1>3, <1>4

\* A process that writes a file in whole or in part.
LEMMA WriteStep ==
    ASSUME ScanInv, OwnerInv', Together, NEW p \in Procs, NEW content, Wrote(p, content),
           Mine(p)'
    PROVE  ScanStep(p)
<1>1. Target(p) \in Paths /\ Target(p) # Sarif
  <2>1. at[p] = "publish" => Target(p) = Metadata
    BY DEF Target
  <2>2. at[p] = "write" => Target(p) = Logs[Done(p) + 1] /\ Done(p) + 1 \in 1 .. 15
    BY NextLog DEF Target, Together
  <2> QED
    BY <2>1, <2>2, LogsFacts DEF Wrote
<1>2. Grows
  BY <1>1, CreatesGrow DEF Wrote, ScanInv
<1>3. SarifIsLate' /\ \A q \in Procs : LogsAreInOrder(q)'
  BY WriteStays DEF ScanInv, Mine
<1> QED
  BY <1>2, <1>3 DEF ScanStep, Wrote

\* A scan that writes its last file and ends.
LEMMA WriteAndEnd ==
    ASSUME ScanInv, OwnerInv', Together, NEW p \in Procs, NEW content, NEW how,
           End(p, how), MayEnd(p, how), content \in {"partial", "original"},
           at[p] \in {"write", "publish"}, files[Target(p)] = "absent",
           at[p] = "publish" \/ content = "partial",
           Write(p, Target(p), content), UNCHANGED <<setup, database, ended, orphans>>,
           \A q \in Procs : child'[q] = child[q]
    PROVE  ScanStep(p)
<1>1. OwnerInv /\ World /\ Mine(p)
  BY DEF ScanInv
<1>2. Target(p) \in Paths /\ Target(p) # Sarif
  <2>1. at[p] = "publish" => Target(p) = Metadata
    BY DEF Target
  <2>2. at[p] = "write" => Target(p) = Logs[Done(p) + 1] /\ Done(p) + 1 \in 1 .. 15
    BY NextLog DEF Target, Together
  <2> QED
    BY <2>1, <2>2, LogsFacts
<1>3. Grows
  BY <1>1, <1>2, CreatesGrow DEF Write
<1>4. child'[p] = None
  BY <1>1 DEF Mine, InStep
<1>5. Mine(p)'
  BY <1>1, <1>3, <1>4, EndStays
<1>6. /\ at'[p] = "ended" /\ UNCHANGED <<step, part, exits>>
      /\ \A q \in Procs \ {p} : Same(q)
  BY <1>1 DEF End, Goto, OwnerInv, Shape, World, Same
<1>7. author'[Target(p)] = p
  BY <1>1, <1>2 DEF Write, OwnerInv, Shape
<1>8. Wrote(p, content)
  BY <1>6, <1>7 DEF Wrote, Write
<1> QED
  BY <1>5, <1>8, WriteStep

\* A log is written, the last of a command with its exit.
LEMMA WriteLogSteps ==
    ASSUME ScanInv, OwnerInv', Together, NEW p \in Procs, WriteLog(p)
    PROVE  ScanStep(p)
<1>1. /\ at[p] = "write" /\ UNCHANGED <<setup, database, child, ended, orphans>>
      /\ OwnerInv /\ World /\ Mine(p) /\ Target(p) = Log(p)
  BY DEF WriteLog, ScanInv, Target
<1>2. InStep(p) /\ ExitsAreGood(p) /\ ended[p] # None
  BY <1>1 DEF Mine, ExitsAreGood
<1>n. step[p] \in 1 .. 5 /\ part[p] \in 1 .. 3
  BY <1>2, CommandsAndParts DEF InStep
<1>c. child[p] = None
  BY <1>1, <1>2 DEF InStep
<1>3. CASE files[Log(p)] # "absent"
  <2> DEFINE how == [kind |-> "unsafe path", step |-> step[p]]
  <2>1. End(p, how) /\ how.kind = "unsafe path" /\ UNCHANGED <<files, author>>
    BY <1>3 DEF WriteLog, Raise
  <2> HIDE DEF how
  <2>2. MayEnd(p, how)
    BY <1>1, <2>1 DEF MayEnd
  <2> QED
    BY <1>1, <1>c, <2>1, <2>2, QuietEnd
<1>4. CASE files[Log(p)] = "absent"
  <2>1. /\ files' = [files EXCEPT ![Target(p)] = "original"]
        /\ author' = [author EXCEPT ![Target(p)] = p]
        /\ NextPart(p) /\ UNCHANGED <<step, bytes, outcome>>
    BY <1>1, <1>4 DEF WriteLog, Write, NextPart
  <2>2. Log(p) \in Paths /\ Log(p) # Sarif
    BY <1>1, <1>2, NextLog, LogsFacts
  <2>3. author'[Target(p)] = p
    BY <1>1, <2>1, <2>2 DEF OwnerInv, Shape
  <2>4. Done(p) = (step[p] - 1) * 3 + part[p] - 1
    BY <1>1, <1>2, NextLog
  <2>g. Grows
    BY <1>1, <1>4, <2>1, <2>2, CreatesGrow
  <2>5. CASE part[p] < 3
    <3>1. /\ part' = [part EXCEPT ![p] = part[p] + 1] /\ UNCHANGED <<at, exits>>
      BY <2>1, <2>5, CommandsAndParts DEF NextPart
    <3>2. part'[p] = part[p] + 1 /\ \A q \in Procs \ {p} : part'[q] = part[q]
      BY <3>1 DEF OwnerInv, Shape, ScanInv
    <3>3. \A q \in Procs \ {p} : Same(q)
      BY <1>1, <2>1, <3>1, <3>2 DEF Same
    <3>4. part'[p] \in DOMAIN Parts /\ part'[p] # 1
      BY <1>n, <2>5, <3>2, CommandsAndParts
    <3>5. InStep(p)'
      BY <1>1, <1>2, <2>1, <3>1, <3>4 DEF InStep, Pinned, Later
    <3>6. ExitsAreGood(p)' /\ SarifIsRead(p)'
      BY <1>1, <1>2, <2>1, <3>1 DEF ExitsAreGood, SarifIsRead
    <3>7. GoesOn(p)
      BY <1>1, <2>1, <3>1, <3>5, <3>6 DEF GoesOn
    <3>9. Done(p)' = Done(p) + 1
      <4>1. Done(p)' = (step'[p] - 1) * 3 + part'[p] - 1
        BY <1>1, <3>1, CommandsAndParts DEF Done, Later
      <4>2. step'[p] = step[p]
        BY <2>1
      <4>3. part'[p] = part[p] + 1
        BY <3>2
      <4>4. (step[p] - 1) * 3 \in Nat
        BY <1>n
      <4> QED
        BY <1>n, <2>4, <4>1, <4>2, <4>3, <4>4
    <3>10. Wrote(p, "original")
      BY <1>1, <1>4, <2>1, <2>3, <3>1, <3>3, <3>4, <3>9 DEF Wrote, Underway
    <3> QED
      BY <1>1, <3>7, <3>10, GoingStays, WriteStep
  <2>6. CASE ~ part[p] < 3
    <3>1. /\ part' = [part EXCEPT ![p] = 1] /\ at' = [at EXCEPT ![p] = "check"]
          /\ exits' = [exits EXCEPT ![p] = Append(exits[p], ended[p])]
      BY <2>1, <2>6, CommandsAndParts DEF NextPart, Goto
    <3>2. /\ part'[p] = 1 /\ at'[p] = "check" /\ exits'[p] = Append(exits[p], ended[p])
          /\ \A q \in Procs \ {p} : part'[q] = part[q] /\ at'[q] = at[q] /\ exits'[q] = exits[q]
      BY <3>1 DEF OwnerInv, Shape, ScanInv
    <3>3. \A q \in Procs \ {p} : Same(q)
      BY <1>1, <2>1, <3>2 DEF Same
    <3>4. /\ exits[p] \in Seq(Endings) /\ ended[p] \in Endings /\ Len(exits[p]) = step[p] - 1
      BY <1>1, <1>2 DEF OwnerInv, Shape, InStep
    <3>5. /\ Len(exits'[p]) = step[p] /\ exits'[p][step[p]] = ended[p]
          /\ \A i \in DOMAIN exits'[p] : i # step[p] => i \in DOMAIN exits[p] /\ exits'[p][i] = exits[p][i]
      BY <1>n, <3>2, <3>4
    <3>6. InStep(p)'
      BY <1>1, <1>2, <1>c, <2>1, <3>2, <3>5, CommandsAndParts DEF InStep, Pinned, Later
    <3>7. ExitsAreGood(p)'
      <4>1. \A i \in DOMAIN exits[p] : exits[p][i] = "ok"
        BY <1>1, <1>2 DEF ExitsAreGood
      <4>2. \A i \in DOMAIN exits'[p] : exits'[p][i] # "ok" => i = Len(exits'[p])
        BY <3>5, <4>1
      <4> QED
        BY <1>1, <1>2, <2>1, <3>2, <3>5, <4>2 DEF ExitsAreGood
    <3>8. SarifIsRead(p)'
      BY <3>2 DEF SarifIsRead
    <3>9. GoesOn(p)
      BY <1>1, <2>1, <3>2, <3>6, <3>7, <3>8 DEF GoesOn
    <3>10. Done(p)' = step[p] * 3
      BY <2>1, <3>2, CommandsAndParts DEF Done, Later
    <3>11. Done(p)' = Done(p) + 1
      <4>1. part[p] = 3
        BY <1>n, <2>6
      <4> QED
        BY <1>n, <2>4, <3>10, <4>1
    <3>12. Underway(p)'
      <4>1. Len(<<>>) = 0 /\ Len(exits'[p]) # 0
        BY <1>n, <3>5
      <4> QED
        BY <4>1 DEF Underway
    <3>13. Wrote(p, "original")
      BY <1>1, <1>4, <2>1, <2>3, <3>2, <3>3, <3>11, <3>12 DEF Wrote
    <3> QED
      BY <1>1, <3>9, <3>13, GoingStays, WriteStep
  <2> QED
    BY <2>5, <2>6
<1> QED
  BY <1>3, <1>4

\* The metadata are written, and the scan has its result.
LEMMA PublishSteps ==
    ASSUME ScanInv, OwnerInv', Together, NEW p \in Procs, Publish(p)
    PROVE  ScanStep(p)
<1>1. /\ at[p] = "publish" /\ UNCHANGED <<setup, database, child, ended, orphans>>
      /\ OwnerInv /\ World /\ Mine(p) /\ Target(p) = Metadata
  BY DEF Publish, ScanInv, Target
<1>c. child[p] = None
  BY <1>1 DEF Mine, InStep
<1>3. CASE files[Metadata] # "absent"
  <2> DEFINE how == [kind |-> "unsafe path", step |-> step[p]]
  <2>1. End(p, how) /\ how.kind = "unsafe path" /\ UNCHANGED <<files, author>>
    BY <1>3 DEF Publish, Raise
  <2> HIDE DEF how
  <2>2. MayEnd(p, how)
    BY <1>1, <2>1 DEF MayEnd
  <2> QED
    BY <1>1, <1>c, <2>1, <2>2, QuietEnd
<1>4. CASE files[Metadata] = "absent"
  <2> DEFINE how == [kind |-> "succeeded", sarif |-> bytes[p]]
  <2>1. /\ End(p, how) /\ how.kind = "succeeded" /\ how.sarif = bytes[p]
        /\ Write(p, Metadata, "original")
    BY <1>4 DEF Publish
  <2> HIDE DEF how
  <2>2. files'[Metadata] = "original"
    BY <1>1, <2>1, LogsFacts DEF Write, OwnerInv, Shape
  <2>3. MayEnd(p, how)
    BY <1>1, <2>1, <2>2 DEF MayEnd
  <2> QED
    BY <1>1, <1>4, <2>1, <2>3, WriteAndEnd
<1> QED
  BY <1>3, <1>4

\* A file cannot be created or written.
LEMMA WriteFailsSteps ==
    ASSUME ScanInv, OwnerInv', Together, NEW p \in Procs, WriteFails(p)
    PROVE  ScanStep(p)
<1> DEFINE how == [kind |-> "no artifact", step |-> step[p]]
<1>1. /\ at[p] \in {"write", "publish"} /\ UNCHANGED <<setup, database, child, ended, orphans>>
      /\ OwnerInv /\ World /\ Mine(p) /\ files[Target(p)] = "absent"
      /\ UNCHANGED <<files, author>> \/ Write(p, Target(p), "partial")
      /\ End(p, how) /\ how.kind = "no artifact"
  BY DEF WriteFails, ScanInv, Raise
<1> HIDE DEF how
<1>c. child[p] = None
  BY <1>1 DEF Mine, InStep
<1>2. MayEnd(p, how)
  BY <1>1 DEF MayEnd
<1>3. CASE UNCHANGED <<files, author>>
  BY <1>1, <1>c, <1>2, <1>3, QuietEnd
<1>4. CASE Write(p, Target(p), "partial")
  BY <1>1, <1>2, <1>4, WriteAndEnd
<1> QED
  BY <1>1, <1>3, <1>4

\* The process is killed, perhaps while it writes.
LEMMA KillSteps ==
    ASSUME ScanInv, OwnerInv', Together, NEW p \in Procs, Kill(p)
    PROVE  ScanStep(p)
<1> DEFINE how == [kind |-> "killed"]
<1>1. /\ at[p] # "ended" /\ UNCHANGED <<setup, database, ended>>
      /\ OwnerInv /\ World /\ Mine(p)
      /\ End(p, how) /\ how.kind = "killed"
      /\ child' = [child EXCEPT ![p] = None]
      /\ orphans' = IF child[p] = None THEN orphans ELSE orphans \cup {<<p, step[p]>>}
  BY DEF Kill, ScanInv
<1>2. \/ UNCHANGED <<files, author>>
      \/ /\ at[p] \in {"write", "publish"} /\ files[Target(p)] = "absent"
         /\ Write(p, Target(p), "partial")
  BY DEF Kill
<1> HIDE DEF how
<1>3. MayEnd(p, how)
  BY <1>1 DEF MayEnd
<1>c. /\ child'[p] = None /\ \A q \in Procs \ {p} : child'[q] = child[q] /\ ended'[q] = ended[q]
      /\ orphans' \subseteq orphans \cup {<<p, step[p]>>}
  BY <1>1 DEF World
<1>4. CASE UNCHANGED <<files, author>>
  BY <1>1, <1>c, <1>3, <1>4, QuietEnd
<1>5. CASE /\ at[p] \in {"write", "publish"} /\ files[Target(p)] = "absent"
           /\ Write(p, Target(p), "partial")
  <2>1. child[p] = None
    BY <1>1, <1>5 DEF Mine, InStep
  <2>2. orphans' = orphans /\ \A q \in Procs : child'[q] = child[q]
    BY <1>1, <1>c, <2>1
  <2> QED
    BY <1>1, <1>3, <1>5, <2>2, WriteAndEnd
<1> QED
  BY <1>2, <1>4, <1>5

-----------------------------------------------------------------------------
(* The steps of the tools and of what they leave behind *)

\* Work on the database or on the SARIF file keeps what processes say.
LEMMA WorkingSteps ==
    ASSUME ScanInv, OwnerInv', Together, NEW p \in Procs, Worked(p)
    PROVE  Grows /\ SarifIsLate' /\ \A q \in Procs : Mine(q)' /\ LogsAreInOrder(q)'
<1>1. OwnerInv /\ \A q \in Procs : Mine(q) /\ Same(q)
  BY DEF ScanInv, Worked
<1>2. Grows
  <2>1. CASE UNCHANGED files
    BY <2>1 DEF Worked, Grows
  <2>2. CASE \E content \in States \ {"absent"} :
                /\ files' = [files EXCEPT ![Sarif] = content]
                /\ files[Sarif] \in Complete => content \in Complete
    <3>1. PICK content \in States \ {"absent"} :
                /\ files' = [files EXCEPT ![Sarif] = content]
                /\ files[Sarif] \in Complete => content \in Complete
      BY <2>2
    <3>2. \A f \in Paths : files'[f] = IF f = Sarif THEN content ELSE files[f]
      BY <1>1, <3>1 DEF OwnerInv, Shape
    <3> QED
      BY <3>1, <3>2, LogsFacts DEF Grows, Worked
  <2> QED
    BY <2>1, <2>2 DEF Worked
<1>3. \A q \in Procs : Mine(q)'
  BY <1>1, <1>2, OthersStay
<1> QED
  BY <1>1, <1>2, <1>3, WorkStays

\* Processes that do nothing stay the same.
LEMMA SameAll ==
    ASSUME UNCHANGED <<control, child, ended, outcome>>
    PROVE  \A q \in Procs : Same(q)
  BY DEF control, Same

\* What a tool does is such work.
LEMMA ToolWork ==
    ASSUME ScanInv, Together, NEW p \in Procs, ToolWorks(p)
    PROVE  Worked(p)
<1>1. /\ UNCHANGED <<setup, orphans, control, child, ended, outcome>> /\ child[p] = "running"
      /\ OwnerInv /\ Mine(p)
  BY DEF ToolWorks, ScanInv
<1>2. CASE /\ step[p] = Create /\ ~database /\ database' = TRUE
           /\ UNCHANGED <<files, author>>
  BY <1>1, <1>2, SameAll DEF Worked, Create
<1>3. CASE /\ step[p] = Analyze /\ files[Sarif] # "original"
           /\ Write(p, Sarif, IF files[Sarif] = "absent" THEN "partial" ELSE "original")
           /\ UNCHANGED database
  <2>1. Owner = p
    BY <1>1, <1>3 DEF OwnerInv, ProcessesAreTheOwner, Underway, Analyze
  <2>2. \E content \in States \ {"absent"} :
          /\ files' = [files EXCEPT ![Sarif] = content]
          /\ files[Sarif] \in Complete => content \in Complete
    <3>1. CASE files[Sarif] = "absent"
      BY <1>3, <3>1 DEF Write, States, Complete
    <3>2. CASE files[Sarif] # "absent"
      BY <1>3, <3>2 DEF Write, States, Complete
    <3> QED
      BY <3>1, <3>2
  <2> QED
    BY <1>1, <1>3, <2>1, <2>2, SameAll DEF Worked, Write
<1> QED
  BY <1>2, <1>3 DEF ToolWorks

\* What a descendant does is such work: its process got as far as its command.
LEMMA OrphanWork ==
    ASSUME ScanInv, Together, NEW p \in Procs, OrphanWorks(p)
    PROVE  Worked(p)
<1>1. /\ UNCHANGED <<setup, orphans, control, child, ended, outcome>>
      /\ OwnerInv /\ Mine(p) /\ files[Sarif] \in States
  BY LogsFacts DEF OrphanWorks, ScanInv, OwnerInv, Shape
<1>n. step[p] \in 1 .. 5 /\ \A o \in orphans : o[2] <= step[o[1]]
  BY <1>1, CommandsAndParts DEF Mine, InStep, Together, SarifIsLate
<1>2. CASE /\ <<p, Create>> \in orphans /\ ~database /\ database' = TRUE
           /\ UNCHANGED <<files, author>>
  <2>1. step[p] >= Create
    BY <1>n, <1>2 DEF Create
  <2> QED
    BY <1>1, <1>2, <2>1, SameAll DEF Worked
<1>3. CASE /\ <<p, Analyze>> \in orphans /\ files[Sarif] # "altered"
           /\ Write(p, Sarif, CASE files[Sarif] = "absent" -> "partial"
                                [] files[Sarif] = "partial" -> "original"
                                [] files[Sarif] = "original" -> "altered")
           /\ UNCHANGED database
  <2>1. Owner = p
    BY <1>1, <1>3 DEF OwnerInv, OrphansAreOfTheOwner, Analyze
  <2>2. step[p] = Analyze
    <3>1. Analyze <= step[p]
      BY <1>n, <1>3
    <3> QED
      BY <1>n, <3>1 DEF Analyze
  <2>3. \E content \in States \ {"absent"} :
          /\ files' = [files EXCEPT ![Sarif] = content]
          /\ files[Sarif] \in Complete => content \in Complete
    <3>1. CASE files[Sarif] = "absent"
      BY <1>3, <3>1 DEF Write, States, Complete
    <3>2. CASE files[Sarif] = "partial"
      BY <1>3, <3>2 DEF Write, States, Complete
    <3>3. CASE files[Sarif] = "original"
      BY <1>3, <3>3 DEF Write, States, Complete
    <3> QED
      BY <1>1, <1>3, <3>1, <3>2, <3>3 DEF States
  <2> QED
    BY <1>1, <1>3, <2>1, <2>2, <2>3, SameAll DEF Worked, Write
<1> QED
  BY <1>2, <1>3 DEF OrphanWorks

\* A descendant that ends changes nothing else.
LEMMA OrphanEnd ==
    ASSUME OrphanEnds, NEW p \in Procs
    PROVE  Worked(p)
<1>1. /\ orphans' \subseteq orphans
      /\ UNCHANGED <<setup, files, author, database, control, child, ended, outcome>>
  BY DEF OrphanEnds
<1> QED
  BY <1>1, SameAll DEF Worked

-----------------------------------------------------------------------------
(* The invariant, step by step *)

\* The invariant has what the steps need of all scans.
LEMMA ScanInvIsTogether == ScanInv => Together
  BY DEF ScanInv, Together, Mine

\* Before the first step nothing is told.
LEMMA InitScan == Init => ScanInv
<1> SUFFICES ASSUME Init PROVE ScanInv
  OBVIOUS
<1>1. OwnerInv
  BY InitOwner
<1>2. World
  <2>1. 0 \in 0 .. MaxIncidents
    BY ScanAssumption
  <2>2. DOMAIN child = Procs /\ DOMAIN bytes = Procs /\ DOMAIN outcome = Procs
    BY DEF Init
  <2>3. setup \in Setups /\ database \in BOOLEAN /\ incidents = 0
    BY DEF Init
  <2> QED
    BY <2>1, <2>2, <2>3 DEF World
<1>3. Owner = Nobody /\ Nobody \notin Procs
  BY Names, ScanAssumption DEF Init, Owner
<1>4. SarifIsLate
  BY LogsFacts DEF Init, SarifIsLate
<1>5. ASSUME NEW p \in Procs
      PROVE  Mine(p) /\ LogsAreInOrder(p)
  <2>1. /\ at[p] = "call" /\ step[p] = 1 /\ part[p] = 1 /\ child[p] = None
        /\ ended[p] = None /\ exits[p] = <<>> /\ bytes[p] = None /\ outcome[p] = Pending
    BY DEF Init
  <2>2. Len(exits[p]) = 0 /\ DOMAIN exits[p] = {}
    BY <2>1
  <2>3. InStep(p)
    BY <2>1, <2>2, CommandsAndParts DEF InStep, Later, Create
  <2>4. ExitsAreGood(p) /\ SarifIsRead(p)
    BY <2>1, <2>2 DEF ExitsAreGood, SarifIsRead
  <2>5. OutcomeTells(p)
    <3>1. outcome[p].kind = "pending"
      BY <2>1 DEF Pending
    <3> QED
      BY <2>1, <3>1 DEF OutcomeTells
  <2>6. LogsAreInOrder(p)
    BY <1>3, <2>1 DEF LogsAreInOrder, Underway
  <2> QED
    BY <2>3, <2>4, <2>5, <2>6 DEF Mine
<1> QED
  BY <1>1, <1>2, <1>4, <1>5 DEF ScanInv

\* The variables keep their domains.
LEMMA WorldStays ==
    ASSUME World, [Next]_vars
    PROVE  World'
<1> USE ScanAssumption DEF World
<1>1. CASE UNCHANGED vars
  BY <1>1 DEF vars, control
<1>2. ASSUME NEW p \in Procs, NEW how, End(p, how)
      PROVE  DOMAIN bytes' = Procs /\ DOMAIN outcome' = Procs
  BY <1>2 DEF End
<1>3. ASSUME NEW p \in Procs, NEW where, Proceed(p, where)
      PROVE  DOMAIN bytes' = Procs /\ DOMAIN outcome' = Procs
  BY <1>3 DEF Proceed
<1>i. incidents' = incidents \/ Incident => incidents' \in 0 .. MaxIncidents
  BY DEF Incident
<1>4. ASSUME NEW p \in Procs, Begin(p) PROVE World'
  BY <1>2, <1>3, <1>4 DEF Begin, Raise
<1>5. ASSUME NEW p \in Procs, StartCommand(p) \/ CommandReturns(p) \/ CannotStart(p) PROVE World'
  BY <1>i, <1>3, <1>5 DEF StartCommand, CommandReturns, CannotStart
<1>6. ASSUME NEW p \in Procs, WriteLog(p) PROVE World'
  <2>1. UNCHANGED <<setup, database, child, incidents>>
    BY <1>6 DEF WriteLog
  <2>2. UNCHANGED <<bytes, outcome>> \/ Raise(p, "unsafe path")
    BY <1>6 DEF WriteLog, NextPart
  <2> QED
    BY <1>2, <2>1, <2>2 DEF Raise
<1>7. ASSUME NEW p \in Procs, Check(p) PROVE World'
  <2>1. UNCHANGED <<setup, database, child, incidents>>
    BY <1>7 DEF Check
  <2>2. \/ \E kind : Raise(p, kind)
        \/ Proceed(p, "read") \/ NextCommand(p)
    BY <1>7 DEF Check
  <2> QED
    BY <1>2, <1>3, <2>1, <2>2 DEF Raise, NextCommand
<1>8. ASSUME NEW p \in Procs, ReadSarif(p) \/ ParseSarif(p) \/ Publish(p) PROVE World'
  <2>1. UNCHANGED <<setup, database, child, incidents>>
    BY <1>8 DEF ReadSarif, ParseSarif, Publish
  <2>2. \/ bytes' = [bytes EXCEPT ![p] = files[Sarif]] /\ UNCHANGED outcome
        \/ Proceed(p, "publish") \/ \E how : End(p, how)
    BY <1>8 DEF ReadSarif, ParseSarif, Publish, Raise
  <2> QED
    BY <1>2, <1>3, <2>1, <2>2
<1>9. ASSUME NEW p \in Procs, WriteFails(p) \/ Kill(p) PROVE World'
  <2>1. UNCHANGED <<setup, database>> /\ Incident /\ DOMAIN child' = Procs
    BY <1>9 DEF WriteFails, Kill
  <2>2. \E how : End(p, how)
    BY <1>9 DEF WriteFails, Kill, Raise
  <2> QED
    BY <1>i, <1>2, <2>1, <2>2
<1>10. ASSUME NEW p \in Procs, OrphanWorks(p) \/ ToolWorks(p) \/ ToolExits(p) \/ HeirLetsGo(p) \/ Timeout(p)
       PROVE  World'
  <2>1. UNCHANGED <<setup, bytes, outcome, incidents>> /\ (database' = TRUE \/ UNCHANGED database)
    BY <1>10 DEF OrphanWorks, ToolWorks, ToolExits, HeirLetsGo, Timeout, control
  <2>2. DOMAIN child' = Procs
    BY <1>10 DEF OrphanWorks, ToolWorks, ToolExits, HeirLetsGo, Timeout
  <2> QED
    BY <2>1, <2>2
<1>11. CASE OrphanEnds
  BY <1>11 DEF OrphanEnds, control
<1> QED
  BY <1>1, <1>4, <1>5, <1>6, <1>7, <1>8, <1>9, <1>10, <1>11 DEF Next, Commanded

\* What a step does to its process and to the logs keeps the invariant.
LEMMA ScanStepIsEnough ==
    ASSUME ScanInv, OwnerInv', World', NEW p \in Procs, ScanStep(p)
    PROVE  ScanInv'
<1>1. \A q \in Procs \ {p} : Mine(q)'
  BY OthersStay DEF ScanInv, ScanStep
<1> QED
  BY <1>1 DEF ScanInv, ScanStep

\* The invariant is inductive.
LEMMA NextScan == ScanInv /\ [Next]_vars => ScanInv'
<1> SUFFICES ASSUME ScanInv, [Next]_vars
             PROVE  ScanInv'
  OBVIOUS
<1>1. OwnerInv' /\ World' /\ Together
  BY NextOwner, WorldStays, ScanInvIsTogether DEF ScanInv
<1>2. ASSUME NEW p \in Procs, Commanded(p)
      PROVE  ScanStep(p)
  BY <1>1, <1>2, BeginSteps, CommandSteps, WriteLogSteps, CheckSteps, SarifSteps, PublishSteps
     DEF Commanded
<1>3. ASSUME NEW p \in Procs,
             \/ CannotStart(p) \/ WriteFails(p) \/ Kill(p)
             \/ ToolExits(p) \/ HeirLetsGo(p) \/ Timeout(p)
      PROVE  ScanStep(p)
  BY <1>1, <1>3, CommandSteps, WriteFailsSteps, KillSteps, ToolStepsTell
<1>4. ASSUME NEW p \in Procs, Worked(p)
      PROVE  ScanInv'
  BY <1>1, <1>4, WorkingSteps DEF ScanInv
<1>5. ASSUME NEW p \in Procs, OrphanWorks(p) \/ ToolWorks(p)
      PROVE  ScanInv'
  BY <1>1, <1>4, <1>5, OrphanWork, ToolWork
<1>6. CASE OrphanEnds
  <2>1. PICK o \in orphans : orphans' = orphans \ {o}
    BY <1>6 DEF OrphanEnds
  <2>2. o[1] \in Procs
    BY DEF ScanInv, OwnerInv, Shape
  <2> QED
    BY <1>4, <1>6, <2>2, OrphanEnd
<1>7. CASE UNCHANGED vars
  <2>1. Grows
    BY <1>7, UnchangedGrows DEF vars
  <2>2. \A q \in Procs : Same(q)
    BY <1>7, SameAll DEF vars
  <2>3. \A q \in Procs : Mine(q)'
    BY <2>1, <2>2, OthersStay DEF ScanInv
  <2>4. SarifIsLate'
    BY <1>7 DEF vars, control, ScanInv, SarifIsLate, Owner, Pinned
  <2>5. \A q \in Procs : LogsAreInOrder(q)'
    BY <1>7 DEF vars, control, ScanInv, LogsAreInOrder, Owner, Underway, Exactly, AtLeast, Done
  <2> QED
    BY <1>1, <2>3, <2>4, <2>5 DEF ScanInv
<1>8. ASSUME NEW p \in Procs, ScanStep(p)
      PROVE  ScanInv'
  BY <1>1, <1>8, ScanStepIsEnough
<1> QED
  BY <1>2, <1>3, <1>5, <1>6, <1>7, <1>8 DEF Next

-----------------------------------------------------------------------------
(* What follows for the results and for the files *)

\* Results are those of the commands.
LEMMA OutcomesTell == ScanInv => OutcomeTellsTheCommands
<1> SUFFICES ASSUME ScanInv PROVE OutcomeTellsTheCommands
  OBVIOUS
<1>1. OwnerInv /\ World /\ SarifIsLate /\ \A p \in Procs : Mine(p)
  BY DEF ScanInv
<1>2. Nobody \notin Procs /\ MaxIncidents \in Nat
  BY ScanAssumption
<1>3. TypeOK
  <2>1. files \in [Paths -> {"absent", "partial", "original", "altered"}]
    BY <1>1 DEF OwnerInv, Shape, States
  <2>2. \A f \in Paths : (author[f] = Nobody) = (files[f] = "absent")
    BY <1>1 DEF OwnerInv, FilesAreOfTheOwner
  <2>3. orphans \subseteq Procs \X DOMAIN Commands
    <3> SUFFICES ASSUME NEW o \in orphans PROVE o \in Procs \X DOMAIN Commands
      OBVIOUS
    <3>1. o \in Procs \X (Nat \ {0}) /\ o[2] <= step[o[1]]
      BY <1>1 DEF OwnerInv, Shape, SarifIsLate
    <3>2. o[1] \in Procs /\ o[2] \in Nat \ {0} /\ o = <<o[1], o[2]>>
      BY <3>1
    <3>3. step[o[1]] \in 1 .. 5
      BY <1>1, <3>2, CommandsAndParts DEF Mine, InStep
    <3>4. o[2] \in 1 .. 5
      BY <3>1, <3>2, <3>3
    <3> QED
      BY <3>2, <3>4, CommandsAndParts
  <2>4. incidents <= MaxIncidents /\ setup \in Setups /\ database \in BOOLEAN
    BY <1>1, <1>2 DEF World
  <2>5. ASSUME NEW p \in Procs
        PROVE  /\ at[p] \in {"call", "start", "wait", "write", "check", "read", "parse",
                             "publish", "ended"}
               /\ step[p] \in DOMAIN Commands /\ part[p] \in DOMAIN Parts
               /\ child[p] \in {None, "running", "heir"}
               /\ child[p] # None => at[p] = "wait"
               /\ ended[p] \in {None, "ok", "failed", "timeout", "not started"}
               /\ (outcome[p] = Pending) = (at[p] # "ended")
               /\ Len(exits[p]) \in {step[p] - 1, step[p]}
    <3>1. InStep(p) /\ OutcomeTells(p)
      BY <1>1 DEF Mine
    <3>2. at[p] \in Places /\ ended[p] \in Endings
      BY <1>1 DEF OwnerInv, Shape
    <3>3. Len(exits[p]) \in {step[p] - 1, step[p]}
      BY <3>1, <3>2 DEF InStep, Places, Later
    <3> QED
      BY <3>1, <3>2, <3>3 DEF InStep, OutcomeTells, Places, Later, Endings
  <2> QED
    BY <2>1, <2>2, <2>3, <2>4, <2>5 DEF TypeOK
<1>4. ASSUME NEW p \in Procs
      PROVE  /\ outcome[p].kind = "succeeded" =>
                  /\ exits[p] = [i \in DOMAIN Commands |-> "ok"]
                  /\ outcome[p].sarif # "partial" /\ files[Metadata] = "original"
             /\ outcome[p].kind \in {"timeout", "not started", "failed"} =>
                  /\ Len(exits[p]) = outcome[p].step /\ Last(exits[p]) = outcome[p].kind
                  /\ files[<<Commands[outcome[p].step], "command.json">>] = "original"
             /\ \A i \in DOMAIN exits[p] :
                  exits[p][i] # "ok" =>
                    /\ i = Len(exits[p])
                    /\ at[p] # "check" => outcome[p].kind \in {exits[p][i], "killed"}
  <2>1. OutcomeTells(p) /\ ExitsAreGood(p)
    BY <1>1 DEF Mine
  <2>2. exits[p] \in Seq(Endings)
    BY <1>1 DEF OwnerInv, Shape
  <2>3. ASSUME outcome[p].kind = "succeeded"
        PROVE  exits[p] = [i \in DOMAIN Commands |-> "ok"]
    <3>1. Len(exits[p]) = 5 /\ \A i \in DOMAIN exits[p] : exits[p][i] = "ok"
      BY <2>1, <2>3, CommandsAndParts DEF OutcomeTells
    <3>2. DOMAIN exits[p] = 1 .. 5 /\ exits[p] = [i \in DOMAIN exits[p] |-> exits[p][i]]
      BY <2>2, <3>1
    <3> QED
      BY <3>1, <3>2, CommandsAndParts
  <2>4. ASSUME outcome[p].kind \in {"timeout", "not started", "failed"}
        PROVE  /\ Len(exits[p]) = outcome[p].step /\ Last(exits[p]) = outcome[p].kind
               /\ files[<<Commands[outcome[p].step], "command.json">>] = "original"
    BY <2>1, <2>4 DEF OutcomeTells, Recorded, Last
  <2>5. ASSUME NEW i \in DOMAIN exits[p], exits[p][i] # "ok"
        PROVE  /\ i = Len(exits[p])
               /\ at[p] # "check" => outcome[p].kind \in {exits[p][i], "killed"}
    BY <2>1, <2>5 DEF OutcomeTells, ExitsAreGood
  <2> QED
    BY <2>1, <2>3, <2>4, <2>5 DEF OutcomeTells
<1>5. database => \A s \in 1 .. Create - 1 : Pinned(s)
  BY <1>1 DEF SarifIsLate
<1> QED
  BY <1>3, <1>4, <1>5 DEF OutcomeTellsTheCommands

\* The logs there are, whoever the owner is and whether its scan goes on.
LEMMA SomeLogsAreThere ==
    ASSUME ScanInv
    PROVE  \E k \in 0 .. 15 :
             /\ AtLeast(k) /\ (files[Sarif] # "absent" => 12 <= k)
             /\ files[Metadata] # "absent" => k = 15 /\ files[Sarif] \in Complete
<1>1. OwnerInv /\ World /\ SarifIsLate /\ \A p \in Procs : Mine(p) /\ LogsAreInOrder(p)
  BY DEF ScanInv
<1>2. CASE Owner = Nobody
  <2>1. \A f \in Paths : files[f] = "absent"
    BY <1>1, <1>2 DEF OwnerInv, FilesAreOfTheOwner
  <2>2. AtLeast(0)
    BY <2>1, LogsFacts DEF AtLeast
  <2> QED
    BY <2>1, <2>2, LogsFacts
<1>3. CASE Owner \in Procs
  <2>1. PICK p \in Procs : Owner = p
    BY <1>3
  <2>2. step[p] \in 1 .. 5 /\ part[p] \in 1 .. 3 /\ InStep(p) /\ LogsAreInOrder(p) /\ Len(Parts) = 3
    BY <1>1, CommandsAndParts DEF Mine, InStep
  <2>3. files[Sarif] # "absent" => step[p] = 5
    BY <1>1, <2>1 DEF SarifIsLate, Analyze
  <2>4. CASE at[p] = "ended"
    <3>1. PICK k \in 0 .. 15 :
             /\ AtLeast(k) /\ (step[p] - 1) * 3 <= k
             /\ files[Metadata] # "absent" => k = 15
      BY <2>1, <2>2, <2>4, LogsFacts DEF LogsAreInOrder
    <3>2. files[Sarif] # "absent" => 12 <= k
      <4>1. step[p] = 5 => (step[p] - 1) * 3 = 12
        OBVIOUS
      <4> QED
        BY <2>3, <3>1, <4>1
    <3> QED
      BY <1>1, <3>1, <3>2 DEF SarifIsLate
  <2>5. CASE at[p] # "ended"
    <3>1. Exactly(Done(p)) /\ files[Metadata] = "absent"
      BY <1>1, <2>1, <2>2, <2>5 DEF LogsAreInOrder, SarifIsLate
    <3>2. Done(p) \in 0 .. 15 /\ (step[p] = 5 => 12 <= Done(p))
      <4>1. CASE at[p] \in Later
        <5>1. Done(p) = step[p] * 3
          BY <2>2, <4>1 DEF Done
        <5> QED
          BY <2>2, <5>1
      <4>2. CASE at[p] \notin Later
        <5>1. Done(p) = (step[p] - 1) * 3 + part[p] - 1
          BY <2>2, <4>2 DEF Done
        <5>2. (step[p] - 1) * 3 \in 0 .. 12 /\ part[p] - 1 \in 0 .. 2
          BY <2>2
        <5>3. step[p] = 5 => (step[p] - 1) * 3 = 12
          OBVIOUS
        <5>4. part[p] \in 1 .. 3
          BY <2>2
        <5> QED
          BY <5>1, <5>2, <5>3, <5>4
      <4> QED
        BY <4>1, <4>2
    <3>3. PICK k \in 0 .. 15 : k = Done(p)
      BY <3>2
    <3>4. AtLeast(k)
      BY <3>1, <3>3, ExactlyIsEnough
    <3> QED
      BY <2>3, <3>1, <3>2, <3>3, <3>4
  <2> QED
    BY <2>4, <2>5
<1>4. Owner \in Procs \cup {Nobody}
  BY <1>1, Names DEF OwnerInv, Shape, Owner
<1> QED
  BY <1>2, <1>3, <1>4

\* And the files are those a scan leaves behind.
LEMMA FilesAreLeftBehind == ScanInv => ScanKeepsTheContract
<1> SUFFICES ASSUME ScanInv PROVE ScanKeepsTheContract
  OBVIOUS
<1> DEFINE content == [f \in Paths |-> IF files[f] = "altered" THEN "original" ELSE files[f]]
<1>1. PICK k \in 0 .. 15 :
             /\ AtLeast(k) /\ (files[Sarif] # "absent" => 12 <= k)
             /\ files[Metadata] # "absent" => k = 15 /\ files[Sarif] \in Complete
  BY SomeLogsAreThere
<1>2. \A f \in Paths : content[f] = IF files[f] = "altered" THEN "original" ELSE files[f]
  OBVIOUS
<1> HIDE DEF content
<1>3. ASSUME NEW i \in DOMAIN Logs
      PROVE  IF i <= k THEN content[Logs[i]] = "original"
             ELSE content[Logs[i]] \in IF i = k + 1 THEN {"partial", "absent"} ELSE {"absent"}
  <2>1. Logs[i] \in Paths
    BY LogsFacts
  <2>2. IF i <= k THEN files[Logs[i]] = "original"
        ELSE files[Logs[i]] \in IF i = k + 1 THEN {"partial", "absent"} ELSE {"absent"}
    BY <1>1 DEF AtLeast
  <2>3. content[Logs[i]] = files[Logs[i]]
    BY <1>2, <2>1, <2>2
  <2> QED
    BY <2>2, <2>3
<1>4. content[Sarif] # "absent" => k >= (Analyze - 1) * Len(Parts)
  <2>1. (Analyze - 1) * Len(Parts) = 12
    BY CommandsAndParts DEF Analyze
  <2>2. content[Sarif] # "absent" => files[Sarif] # "absent"
    BY <1>2, LogsFacts
  <2> QED
    BY <1>1, <2>1, <2>2
<1>5. content[Metadata] # "absent" => k = Len(Logs) /\ content[Sarif] = "original"
  BY <1>1, <1>2, LogsFacts DEF Complete
<1>6. LeftBehind(content, Logs, (Analyze - 1) * Len(Parts), Sarif, Metadata)
  BY <1>1, <1>3, <1>4, <1>5, LogsFacts DEF LeftBehind
<1> QED
  BY <1>6 DEF ScanKeepsTheContract, content

\* "A result is returned only after both CodeQL stages exit zero and the SARIF
\* file is a regular managed artifact" (scan): whatever processes meet in a
\* workspace, are killed, or leave descendants behind, a result has five
\* successful commands and a SARIF file that parsed, an error is that of the
\* command that failed, with its record, and nothing is built but with the
\* pinned versions.
THEOREM ResultsAreEarned == Spec => []OutcomeTellsTheCommands
<1>1. Spec => []ScanInv
  BY InitScan, NextScan, PTL DEF Spec
<1> QED
  BY <1>1, OutcomesTell, PTL

\* Whenever a scan stops, it leaves the files Pipeline counts with: complete
\* logs up to one place, the SARIF file only after those of the build, and the
\* metadata only when all else is there.
THEOREM FilesAreInOrder == Spec => []ScanKeepsTheContract
<1>1. Spec => []ScanInv
  BY InitScan, NextScan, PTL DEF Spec
<1> QED
  BY <1>1, FilesAreLeftBehind, PTL

=============================================================================
