---------------------------- MODULE AccessProofs ----------------------------
(***************************************************************************)
(* For any number of commands, any keys and sources, any bounds of the     *)
(* capture and any number of incidents: what is said of the capture, of a  *)
(* stored credential and of the answers of the model.                      *)
(*                                                                         *)
(* Place says where a process may be and what it has there: whose tool the *)
(* capture serves, that a ciphertext it holds is a file and that the file  *)
(* it installed is on the disk and no newer than the one at the path.  The *)
(* files are as few as the processes that may have stored one, and those   *)
(* that were reported stay as the disk grows, as long as the directory     *)
(* they are in, which can only be lost while it is not anchored.  The      *)
(* replies of a role, up to the present request, are bad ones and short    *)
(* runs of silence, the last of which are as many as its tries.            *)
(*                                                                         *)
(* Seen says what a process knows of the sources as long as nothing has    *)
(* disturbed it: which providers are missing, which one it is about, that  *)
(* the file it holds is the one at the path, and what the tool has told.   *)
(* Keeping says of a step that it passes over no provider that is there,   *)
(* whatever has disturbed the command.                                     *)
(***************************************************************************)
EXTENDS ModelAccess, FiniteSetTheorems, TLAPS

-----------------------------------------------------------------------------
(* The parts of the invariant *)

Spots ==
    {"idle", "look", "open", "read", "tool", "wait", "request", "read cache",
     "check", "install", "sync", "ended"}
Tools == {"systemd-creds", "pass"}
Orders ==
    [op : {"resolve", "triage"}, selection : ProviderIds \cup {"auto"}]
    \cup [op : {"status", "replay"}]
    \cup [op : {"store"}, provider : Tools, replace : BOOLEAN]
Secrets == Contents \cup {None, Spoiled}
Sounds == {"good", "bad", "transient", "lost", "permanent"}

\* The directory of the credential, and the files that were ever in it.
Folder ==
    /\ directory \in 0 .. Len(files) + 1 /\ private \in BOOLEAN /\ anchored \in BOOLEAN
    /\ path # 0 => directory # 0 /\ directory <= path
    /\ durable # 0 => directory <= durable
    /\ anchored => directory # 0

Disk ==
    /\ Folder
    /\ environment \in Keys \cup {None, Garbled} /\ entry \in Contents \cup {None}
    /\ files \in Seq(Contents) /\ flushed \subseteq DOMAIN files
    /\ path \in 0 .. Len(files) /\ durable \in 0 .. path

Locals ==
    /\ at \in [Procs -> Spots] /\ command \in [Procs -> Orders \cup {NoCommand}]
    /\ next \in [Procs -> DOMAIN Providers] /\ round \in [Procs -> 1 .. 3]
    /\ held \in [Procs -> Nat] /\ secret \in [Procs -> Secrets]
    /\ selected \in [Procs -> ProviderIds \cup {None}]
    /\ answer = [p \in Procs |-> answer[p]]

Calls ==
    /\ replies \in [Procs -> Seq(Sounds)]
    /\ tries \in [Procs -> 0 .. MaximumAttempts - 1] /\ repair \in [Procs -> 0 .. MaximumRepairs]

\* The capture serves one tool at a time, and lasts as long as the tool.
Pipe ==
    /\ CaptureType /\ ReaderOutlivesTheTool
    /\ owner \in Procs \cup {Nobody} /\ exit \in {None, "ok", "failed", "timeout"}
    /\ (owner = Nobody) = (reader = "off")
    /\ reader = "off" => Closed /\ exit = None
    /\ "tool" \in writers => exit = None
    /\ reader # "off" /\ exit = None => "tool" \in writers
    /\ finished => writers \cap {"runner", "tool"} = {}

\* Where a process is, and what it has by then.
Place(p) ==
    /\ (at[p] = "ended") = (command[p] = NoCommand)
    /\ (at[p] = "wait") = (owner = p)
    /\ at[p] \in {"look", "open", "read"} => command[p].op \in {"resolve", "triage", "status"}
    /\ at[p] \in {"tool", "wait"} => command[p].op \in {"resolve", "triage", "store"} /\ Provider(p) \in Tools
    /\ at[p] \in {"check", "install", "sync"} => command[p].op = "store"
    /\ at[p] \in {"install", "sync", "open", "read"} => Provider(p) = "systemd-creds"
    /\ at[p] = "request" => command[p].op = "triage"
    /\ at[p] = "read cache" => command[p].op = "replay"
    /\ at[p] = "look" => round[p] <= 2
    /\ at[p] = "idle" \/ command[p].op = "status" => round[p] = 1
    /\ command[p].op = "store" /\ at[p] \in {"check", "tool", "wait"} => secret[p] \in Keys
    /\ at[p] = "install" => secret[p] \in Contents
    /\ at[p] = "read" => held[p] \in DOMAIN files
    /\ at[p] \in {"tool", "wait"} /\ command[p].op # "store"
          /\ Provider(p) = "systemd-creds" =>
          held[p] \in DOMAIN files
    /\ at[p] = "sync" => held[p] \in flushed /\ held[p] <= path
    /\ at[p] \in {"tool", "wait", "install", "sync"} /\ command[p].op = "store"
          /\ Provider(p) = "systemd-creds" =>
          directory # 0
    /\ held[p] <= Len(files)

\* The processes that may have stored a file.
Stored == {p \in Procs : at[p] \in {"sync", "ended"}}

FilesAreFew == Len(files) <= 1 + Cardinality(Stored)

\* A file is on the disk, and at the path is that one or a later one, as long as
\* there is the directory it is in.
Kept(file, wasAnchored) ==
    /\ file \in flushed /\ (wasAnchored => anchored)
    /\ wasAnchored \/ (directory # 0 /\ directory <= file) => file <= durable

\* A file that was reported to be stored is safe.
Safe(p) ==
    answer[p] # NoCommand /\ answer[p].status = "stored"
    /\ answer[p].command.provider = "systemd-creds" =>
        Kept(answer[p].what[1], answer[p].what[2])

Bad(heard) == {i \in DOMAIN heard : heard[i] = "bad"}

\* What may have been heard before the present request.
Unfinished(heard) ==
    /\ \A i \in DOMAIN heard : heard[i] \in Silence \cup {"bad"}
    /\ \A i \in DOMAIN heard :
          ~ \A j \in i .. i + MaximumAttempts - 1 : j \in DOMAIN heard /\ heard[j] \in Silence

\* What may have been heard in the end.
Finite(heard) ==
    /\ \A i \in DOMAIN heard : heard[i] \in {"good", "permanent"} => i = Len(heard)
    /\ Cardinality(Bad(heard)) <= 1 + MaximumRepairs
    /\ Len(heard) <= MaximumAttempts * (1 + MaximumRepairs)
    /\ \A i \in DOMAIN heard :
          (\A j \in i .. i + MaximumAttempts - 1 : j \in DOMAIN heard /\ heard[j] \in Silence)
          => i + MaximumAttempts - 1 = Len(heard)

\* The last of it are the silences that were tried again.
Trying(heard, n) ==
    /\ n <= Len(heard)
    /\ n < Len(heard) => heard[Len(heard) - n] = "bad"

Paid(p) ==
    /\ at[p] # "request" => replies[p] = <<>> /\ tries[p] = 0
    /\ Unfinished(replies[p]) /\ Cardinality(Bad(replies[p])) <= repair[p]
    /\ Trying(replies[p], tries[p])
    /\ Len(replies[p]) <= MaximumAttempts * repair[p] + tries[p]

Verdicts == {"accepted", "invalid response", "model error"}

\* The answer of a triage, when the model was asked.
Settled(p) ==
    /\ answer[p] # NoCommand => at[p] = "ended"
    /\ answer[p] # NoCommand /\ answer[p].command.op = "triage" =>
         IF answer[p].status \in Verdicts
         THEN /\ Finite(answer[p].what)
              /\ (answer[p].status = "accepted")
                    = (answer[p].what # <<>> /\ Last(answer[p].what) = "good")
         ELSE answer[p].status # "accepted"

PlaceInv == Disk /\ Locals /\ Pipe /\ \A p \in Procs : Place(p)
StoreInv == FilesAreFew /\ \A p \in Procs : Safe(p)
PaidInv == Calls /\ \A p \in Procs : Paid(p) /\ Settled(p)
AccessInv == PlaceInv /\ StoreInv /\ PaidInv

-----------------------------------------------------------------------------
(* The capture of a tool's output *)

\* The smaller of two numbers.
LEMMA MinOfTwo ==
    ASSUME NEW a \in Nat, NEW b \in Nat
    PROVE  Min({a, b}) = IF a <= b THEN a ELSE b
<1>1. \E x \in {a, b} : \A y \in {a, b} : x <= y
  <2>1. CASE a <= b
    BY <2>1
  <2>2. CASE ~ a <= b
    BY <2>2
  <2> QED
    BY <2>1, <2>2
<1>2. Min({a, b}) \in {a, b} /\ \A y \in {a, b} : Min({a, b}) <= y
  BY <1>1 DEF Min
<1> QED
  BY <1>2

\* The bounds of the capture are positive, and a correct answer fits.
LEMMA Bounds ==
    /\ Output \in Nat \ {0} /\ PipeSize \in Nat \ {0} /\ Limit \in Nat \ {0}
    /\ Whole \in 1 .. Output
<1>1. Output \in Nat \ {0} /\ PipeSize \in Nat \ {0} /\ Limit \in Nat \ {0}
  BY CaptureAssumption
<1>2. Whole \in 1 .. Limit - 1 /\ Whole < Output
  BY CredentialsAssumption
<1> QED
  BY <1>1, <1>2

\* The capture by itself, without the process it serves.
Draining ==
    /\ CaptureType /\ ReaderOutlivesTheTool
    /\ reader = "off" => Closed
    /\ finished => writers \cap {"runner", "tool"} = {}

\* The reader, the tool and the runner at work.
LEMMA StepsDrain ==
    ASSUME Draining, CaptureSteps
    PROVE  /\ Draining' /\ (reader' = "off" <=> reader = "off")
           /\ "tool" \in writers' <=> "tool" \in writers
<1>1. /\ written \in 0 .. Output /\ taken \in 0 .. Output /\ size \in 0 .. Output
      /\ due \in 0 .. Output /\ taken <= written /\ written - taken <= PipeSize
      /\ kept = Min({taken, Limit}) /\ writers \subseteq {"runner", "tool", "heir"}
      /\ reader \in {"off", "reading", "took", "found nothing", "done"} /\ finished \in BOOLEAN
  BY DEF Draining, CaptureType
<1>n. /\ written \in Nat /\ taken \in Nat /\ size \in Nat /\ Output \in Nat /\ PipeSize \in Nat
      /\ written <= Output /\ size <= Output /\ taken <= written /\ written - taken <= PipeSize
  <2>1. written \in 0 .. Output /\ size \in 0 .. Output /\ taken \in 0 .. Output
    BY <1>1
  <2>2. taken <= written /\ written - taken <= PipeSize
    BY <1>1
  <2> QED
    BY <2>1, <2>2, Bounds
<1>2. CASE Read
  <2>1. reader = "reading" /\ UNCHANGED <<writers, written, size, due, finished>>
    BY <1>2 DEF Read
  <2>2. \/ taken' = written /\ kept' = Min({written, Limit}) /\ reader' = "took"
        \/ /\ taken' = taken /\ kept' = kept
           /\ reader' = IF writers = {} THEN "done" ELSE "found nothing"
    BY <1>2 DEF Read
  <2>3. reader' \in {"took", "done", "found nothing"} /\ (reader' = "done" => writers = {})
    BY <2>2
  <2>4. taken' \in 0 .. Output /\ taken' <= written /\ written - taken' <= PipeSize
    <3>1. taken' = written \/ taken' = taken
      BY <2>2
    <3> QED
      BY <1>n, <3>1
  <2>5. kept' = Min({taken', Limit})
    BY <1>1, <2>2
  <2>6. CaptureType'
    BY <1>1, <2>1, <2>3, <2>4, <2>5 DEF CaptureType
  <2> QED
    BY <2>1, <2>3, <2>6 DEF Draining, ReaderOutlivesTheTool
<1>3. CASE AfterChunk \/ AfterNothing
  <2>1. /\ reader \in {"took", "found nothing"} /\ reader' \in {"reading", "done"}
        /\ reader' = "done" => finished
        /\ UNCHANGED <<writers, written, taken, kept, size, due, finished>>
    BY <1>3 DEF AfterChunk, AfterNothing
  <2>2. CaptureType'
    BY <1>1, <2>1 DEF CaptureType
  <2> QED
    BY <2>1, <2>2 DEF Draining, ReaderOutlivesTheTool
<1>4. CASE ToolWrites
  <2>1. /\ writers # {} /\ written - taken < PipeSize /\ written' = written + 1
        /\ written < size \/ written < Output
        /\ UNCHANGED <<writers, taken, kept, size, due, reader, finished>>
    BY <1>4 DEF ToolWrites
  <2>2. written' \in 0 .. Output /\ taken <= written' /\ written' - taken <= PipeSize
    <3>1. written' = written + 1 /\ written - taken < PipeSize /\ (written < size \/ written < Output)
      BY <2>1
    <3> QED
      BY <1>n, <3>1
  <2>3. CaptureType'
    BY <1>1, <2>1, <2>2 DEF CaptureType
  <2>4. reader # "off"
    BY <2>1 DEF Draining, Closed
  <2> QED
    BY <2>1, <2>3, <2>4 DEF Draining, ReaderOutlivesTheTool
<1>5. CASE CloseOwnEnd
  <2>1. /\ "runner" \in writers /\ "tool" \notin writers /\ writers' = writers \ {"runner"}
        /\ UNCHANGED <<written, taken, kept, size, due, reader, finished>>
    BY <1>5 DEF CloseOwnEnd
  <2>2. CaptureType'
    BY <1>1, <2>1 DEF CaptureType
  <2>3. reader # "off"
    BY <2>1 DEF Draining, Closed
  <2> QED
    BY <2>1, <2>2, <2>3 DEF Draining, ReaderOutlivesTheTool
<1>6. CASE SetFinished
  <2>1. /\ reader # "off" /\ writers \cap {"runner", "tool"} = {} /\ finished' = TRUE
        /\ UNCHANGED <<writers, written, taken, kept, size, due, reader>>
    BY <1>6 DEF SetFinished
  <2>2. CaptureType'
    BY <1>1, <2>1 DEF CaptureType
  <2> QED
    BY <2>1, <2>2 DEF Draining, ReaderOutlivesTheTool
<1> QED
  BY <1>2, <1>3, <1>4, <1>5, <1>6 DEF CaptureSteps, ReaderSteps

\* The tool is started.
LEMMA SpawnDrains ==
    ASSUME Draining, NEW chunks \in {Whole, Output}, Spawn(chunks)
    PROVE  Draining' /\ reader' # "off" /\ "tool" \in writers'
<1>1. Closed
  BY DEF Draining, Spawn
<1>2. /\ reader' = "reading" /\ writers' = {"runner", "tool"} /\ size' = chunks
      /\ UNCHANGED <<written, taken, kept, due, finished>>
  BY DEF Spawn
<1>3. chunks \in 0 .. Output
  BY Bounds
<1>4. CaptureType'
  BY <1>2, <1>3 DEF Draining, CaptureType
<1> QED
  BY <1>1, <1>2, <1>4 DEF Draining, Closed, ReaderOutlivesTheTool

\* The tool ends.
LEMMA EndDrains ==
    ASSUME Draining, ToolEnds
    PROVE  Draining' /\ reader' = reader /\ reader # "off" /\ "tool" \notin writers'
<1>1. /\ "tool" \in writers /\ due' = written
      /\ writers' = writers \ {"tool"} \/ writers' = (writers \ {"tool"}) \cup {"heir"}
      /\ UNCHANGED <<written, taken, kept, size, reader, finished>>
  BY DEF ToolEnds
<1>2. reader # "off"
  BY <1>1 DEF Draining, Closed
<1>3. CaptureType'
  BY <1>1 DEF Draining, CaptureType
<1> QED
  BY <1>1, <1>2, <1>3 DEF Draining, ReaderOutlivesTheTool

\* The capture is over.
LEMMA CloseDrains ==
    ASSUME Close
    PROVE  Draining' /\ reader' = "off" /\ Closed'
<1>1. Closed'
  BY DEF Close, Closed
<1>2. Min({0, Limit}) = 0
  BY MinOfTwo, Bounds
<1>3. 0 \in 0 .. Output /\ 0 - 0 <= PipeSize /\ 0 <= 0
  BY Bounds
<1>4. CaptureType'
  BY <1>2, <1>3 DEF Close, CaptureType
<1> QED
  BY <1>1, <1>4 DEF Draining, Close, Closed, ReaderOutlivesTheTool

-----------------------------------------------------------------------------
(* What a step of a process does to the others *)

Same(q) ==
    /\ at'[q] = at[q] /\ command'[q] = command[q] /\ next'[q] = next[q]
    /\ round'[q] = round[q] /\ held'[q] = held[q] /\ secret'[q] = secret[q]
    /\ selected'[q] = selected[q] /\ answer'[q] = answer[q]

\* The directory stays what it is once it is there; a new one is too late for
\* the files there have been.
FolderStays ==
    /\ directory # 0 => UNCHANGED <<directory, anchored>>
    /\ directory = 0 => directory' \in {0, Len(files) + 1} /\ (anchored => anchored')

\* No file goes away, and what is on the disk stays there.
DiskGrows ==
    /\ DOMAIN files \subseteq DOMAIN files' /\ Len(files) <= Len(files')
    /\ flushed \subseteq flushed' /\ path <= path' /\ durable <= durable'
    /\ FolderStays

\* What a step of a process may do to what is shared.
Around(p) ==
    /\ Disk' /\ DiskGrows /\ Pipe'
    /\ \A q \in Procs \ {p} : (owner' = q) = (owner = q)

Steps(p) == Around(p) /\ Locals' /\ \A q \in Procs \ {p} : Same(q)

\* What a process is at stays when others take steps.
LEMMA PlaceStays ==
    ASSUME Disk, Disk', DiskGrows, NEW q \in Procs, Place(q), Same(q),
           (owner' = q) = (owner = q), held[q] \in Nat
    PROVE  Place(q)'
<1>1. Len(files) \in Nat /\ Len(files') \in Nat /\ path \in Nat /\ path' \in Nat
  BY DEF Disk
<1>2. Provider(q)' = Provider(q)
  BY DEF Same, Provider
<1>3. held'[q] <= Len(files')
  <2>1. held'[q] = held[q] /\ held[q] <= Len(files) /\ Len(files) <= Len(files')
    BY DEF Place, Same, DiskGrows
  <2> QED
    BY <1>1, <2>1
<1>4. at'[q] = "sync" => held'[q] \in flushed' /\ held'[q] <= path'
  BY <1>1 DEF Place, Same, DiskGrows
<1>5. directory # 0 => directory' # 0
  BY DEF DiskGrows, FolderStays
<1> QED
  BY <1>2, <1>3, <1>4, <1>5 DEF Place, Same, DiskGrows

\* A step of one process leaves every process in its place.
LEMMA StepsArePlaced ==
    ASSUME PlaceInv, NEW p \in Procs, Steps(p), Place(p)'
    PROVE  PlaceInv'
<1>1. \A q \in Procs \ {p} : Place(q)'
  BY PlaceStays DEF PlaceInv, Steps, Around, Locals
<1> QED
  BY <1>1 DEF PlaceInv, Steps, Around

\* The operations a process can be at.
LEMMA OrderFacts ==
    /\ \A c \in Orders : /\ c # NoCommand /\ c.op # NoCommand.op
                         /\ c.op \in {"resolve", "triage", "status", "replay", "store"}
                         /\ c.op \in {"resolve", "triage"} => c.selection \in ProviderIds \cup {"auto"}
                         /\ c.op = "store" => c.provider \in Tools
    /\ NoCommand.op = "none"
<1>1. NoCommand.op = "none"
  BY DEF NoCommand
<1>2. ASSUME NEW c \in Orders
      PROVE  /\ c.op \in {"resolve", "triage", "status", "replay", "store"}
             /\ c.op \in {"resolve", "triage"} => c.selection \in ProviderIds \cup {"auto"}
             /\ c.op = "store" => c.provider \in Tools
  BY DEF Orders
<1>3. \A c \in Orders : c.op # "none"
  BY <1>2
<1> QED
  BY <1>1, <1>2, <1>3

\* The three providers, in their order.
LEMMA ProviderFacts ==
    /\ DOMAIN Providers = 1 .. 3 /\ Len(Providers) = 3
    /\ Providers[1] = "environment" /\ Providers[2] = "systemd-creds" /\ Providers[3] = "pass"
    /\ ProviderIds = {"environment", "systemd-creds", "pass"}
<1>1. /\ DOMAIN Providers = 1 .. 3 /\ Len(Providers) = 3
      /\ Providers[1] = "environment" /\ Providers[2] = "systemd-creds" /\ Providers[3] = "pass"
  BY DEF Providers
<1>2. ProviderIds = {Providers[i] : i \in 1 .. 3}
  BY <1>1 DEF ProviderIds, ToSet
<1> QED
  BY <1>1, <1>2

\* A process that has not ended has an order.
LEMMA InOrder ==
    ASSUME Locals, NEW p \in Procs, Place(p), at[p] # "ended"
    PROVE  command[p] \in Orders
<1>1. command[p] # NoCommand
  BY DEF Place
<1>2. command[p] \in Orders \cup {NoCommand}
  BY DEF Locals
<1> QED
  BY <1>1, <1>2

\* A process that passes over a provider has the environment, or it is at a
\* tool's.
LEMMA ProviderOf ==
    ASSUME Locals, NEW p \in Procs, command[p] \in Orders
    PROVE  /\ Provider(p) \in ProviderIds
           /\ Provider(p) # "environment" => Provider(p) \in Tools
<1>1. next[p] \in 1 .. 3
  BY ProviderFacts DEF Locals
<1> QED
  BY <1>1, ProviderFacts, OrderFacts DEF Provider, Tools

\* A command that returns or raises.
LEMMA EndSteps ==
    ASSUME Locals, NEW p \in Procs, NEW status, NEW what, End(p, status, what)
    PROVE  /\ Locals' /\ \A q \in Procs \ {p} : Same(q)
           /\ at'[p] = "ended" /\ command'[p] = NoCommand /\ held'[p] = 0
           /\ answer'[p] = [command |-> command[p], status |-> status, what |-> what]
<1>1. /\ at' = [at EXCEPT ![p] = "ended"] /\ command' = [command EXCEPT ![p] = NoCommand]
      /\ answer' = [answer EXCEPT ![p] = [command |-> command[p], status |-> status, what |-> what]]
      /\ next' = [next EXCEPT ![p] = 1] /\ round' = [round EXCEPT ![p] = 1]
      /\ held' = [held EXCEPT ![p] = 0] /\ secret' = [secret EXCEPT ![p] = None]
      /\ selected' = [selected EXCEPT ![p] = None]
  BY DEF End, Goto
<1>2. 1 \in DOMAIN Providers /\ 1 \in 1 .. 3 /\ 0 \in Nat
  BY ProviderFacts
<1>3. None \in Secrets /\ "ended" \in Spots
  BY DEF Secrets, Spots
<1>4. Locals'
  <2>1. /\ at' \in [Procs -> Spots] /\ command' \in [Procs -> Orders \cup {NoCommand}]
        /\ next' \in [Procs -> DOMAIN Providers] /\ round' \in [Procs -> 1 .. 3]
        /\ held' \in [Procs -> Nat] /\ secret' \in [Procs -> Secrets]
        /\ selected' \in [Procs -> ProviderIds \cup {None}]
    BY <1>1, <1>2, <1>3 DEF Locals
  <2>2. answer' = [q \in Procs |-> answer'[q]]
    BY <1>1 DEF Locals
  <2> QED
    BY <2>1, <2>2 DEF Locals
<1>5. \A q \in Procs \ {p} : Same(q)
  BY <1>1 DEF Locals, Same
<1> QED
  BY <1>1, <1>4, <1>5 DEF Locals

\* It is placed where nothing is asked of it any more.
LEMMA EndPlaced ==
    ASSUME Disk', NEW p \in Procs, at'[p] = "ended", command'[p] = NoCommand, held'[p] = 0,
           owner' # p
    PROVE  Place(p)'
<1>1. NoCommand.op = "none" /\ 0 <= Len(files')
  BY OrderFacts DEF Disk
<1> QED
  BY <1>1 DEF Place

-----------------------------------------------------------------------------
(* The steps, placed *)

\* Nothing that is shared changes.
LEMMA QuietAround ==
    ASSUME PlaceInv, NEW p \in Procs, UNCHANGED <<disk, tool>>
    PROVE  Around(p) /\ UNCHANGED <<files, path, flushed, owner, directory>>
<1>1. Disk' /\ DiskGrows
  BY DEF disk, folder, PlaceInv, Disk, Folder, DiskGrows, FolderStays
<1>2. Pipe' /\ \A q \in Procs : (owner' = q) = (owner = q)
  BY DEF tool, capture, PlaceInv, Pipe, CaptureType, ReaderOutlivesTheTool, Closed
<1> QED
  BY <1>1, <1>2 DEF Around, disk, folder, tool

\* A command that ends.
LEMMA QuitIsPlaced ==
    ASSUME PlaceInv, NEW p \in Procs, NEW status, NEW what, End(p, status, what),
           Around(p), owner' # p
    PROVE  Steps(p) /\ Place(p)'
<1>1. /\ Locals' /\ \A q \in Procs \ {p} : Same(q)
      /\ at'[p] = "ended" /\ command'[p] = NoCommand /\ held'[p] = 0
  BY EndSteps DEF PlaceInv
<1> QED
  BY <1>1, EndPlaced DEF Steps, Around

\* A command that goes on inside.
Goes(p, where) ==
    /\ UNCHANGED <<command, answer>> /\ at' = [at EXCEPT ![p] = where]
    /\ next' \in [Procs -> DOMAIN Providers] /\ round' \in [Procs -> 1 .. 3]
    /\ held' \in [Procs -> Nat] /\ secret' \in [Procs -> Secrets]
    /\ selected' \in [Procs -> ProviderIds \cup {None}] /\ where \in Spots
    /\ \A q \in Procs \ {p} : /\ next'[q] = next[q] /\ round'[q] = round[q]
                              /\ held'[q] = held[q] /\ secret'[q] = secret[q]
                              /\ selected'[q] = selected[q]

\* A command that goes on disturbs nobody.
LEMMA GoesSteps ==
    ASSUME PlaceInv, NEW p \in Procs, NEW where, Goes(p, where), Around(p)
    PROVE  Steps(p) /\ at'[p] = where /\ command'[p] = command[p]
<1>1. Locals'
  BY DEF PlaceInv, Locals, Goes
<1>2. \A q \in Procs \ {p} : Same(q)
  BY DEF PlaceInv, Locals, Goes, Same
<1> QED
  BY <1>1, <1>2 DEF Steps, Goes, PlaceInv, Locals

\* A command that goes on, with what its new place asks of it.
LEMMA GoesOnPlaced ==
    ASSUME PlaceInv, NEW p \in Procs, NEW where, Goes(p, where), Around(p), at[p] # "ended",
           where \in Spots \ {"idle", "ended"},
           (where = "wait") = (owner' = p),
           where \in {"look", "open", "read"} => command[p].op \in {"resolve", "triage", "status"},
           where \in {"tool", "wait"} =>
               command[p].op \in {"resolve", "triage", "store"} /\ Provider(p)' \in Tools,
           where \in {"check", "install", "sync"} => command[p].op = "store",
           where \in {"install", "sync", "open", "read"} => Provider(p)' = "systemd-creds",
           where = "request" => command[p].op = "triage",
           where = "read cache" => command[p].op = "replay",
           where = "look" => round'[p] <= 2,
           command[p].op = "status" => round'[p] = 1,
           command[p].op = "store" /\ where \in {"check", "tool", "wait"} => secret'[p] \in Keys,
           where = "install" => secret'[p] \in Contents,
           where = "read" => held'[p] \in DOMAIN files',
           where \in {"tool", "wait"} /\ command[p].op # "store" /\ Provider(p)' = "systemd-creds" =>
               held'[p] \in DOMAIN files',
           where = "sync" => held'[p] \in flushed' /\ held'[p] <= path',
           where \in {"tool", "wait", "install", "sync"} /\ command[p].op = "store"
               /\ Provider(p)' = "systemd-creds" => directory' # 0,
           held'[p] <= Len(files')
    PROVE  Steps(p) /\ Place(p)'
<1>1. Steps(p) /\ at'[p] = where /\ command'[p] = command[p]
  BY GoesSteps
<1>2. command[p] # NoCommand
  BY InOrder, OrderFacts DEF PlaceInv
<1>3. (at'[p] = "ended") = (command'[p] = NoCommand)
  BY <1>1, <1>2
<1>4. (at'[p] = "wait") = (owner' = p)
  BY <1>1
<1>5. at'[p] \in {"look", "open", "read"} => command'[p].op \in {"resolve", "triage", "status"}
  BY <1>1
<1>6. at'[p] \in {"tool", "wait"} => command'[p].op \in {"resolve", "triage", "store"} /\ Provider(p)' \in Tools
  BY <1>1
<1>7. /\ at'[p] \in {"check", "install", "sync"} => command'[p].op = "store"
      /\ at'[p] \in {"install", "sync", "open", "read"} => Provider(p)' = "systemd-creds"
      /\ at'[p] = "request" => command'[p].op = "triage"
      /\ at'[p] = "read cache" => command'[p].op = "replay"
  BY <1>1
<1>8. /\ at'[p] = "look" => round'[p] <= 2
      /\ at'[p] = "idle" \/ command'[p].op = "status" => round'[p] = 1
  BY <1>1
<1>9. /\ command'[p].op = "store" /\ at'[p] \in {"check", "tool", "wait"} => secret'[p] \in Keys
      /\ at'[p] = "install" => secret'[p] \in Contents
  BY <1>1
<1>10. /\ at'[p] = "read" => held'[p] \in DOMAIN files'
       /\ at'[p] \in {"tool", "wait"} /\ command'[p].op # "store"
          /\ Provider(p)' = "systemd-creds" =>
          held'[p] \in DOMAIN files'
  BY <1>1
<1>11. /\ held'[p] <= Len(files')
       /\ at'[p] = "sync" => held'[p] \in flushed' /\ held'[p] <= path'
       /\ at'[p] \in {"tool", "wait", "install", "sync"} /\ command'[p].op = "store"
          /\ Provider(p)' = "systemd-creds" =>
          directory' # 0
  BY <1>1
<1> QED
  BY <1>1, <1>3, <1>4, <1>5, <1>6, <1>7, <1>8, <1>9, <1>10, <1>11 DEF Place

\* A command that goes on with its place and its provider as they are.
LEMMA SameProvider ==
    ASSUME NEW p, command'[p] = command[p], next'[p] = next[p]
    PROVE  Provider(p)' = Provider(p)
  BY DEF Provider

\* A command is called.
LEMMA CallPlaced ==
    ASSUME PlaceInv, NEW p \in Procs, CallCommand(p)
    PROVE  Steps(p) /\ Place(p)'
<1> DEFINE where == IF command[p].op = "store" THEN "check"
                    ELSE IF command[p].op = "replay" THEN "read cache" ELSE "look"
<1>1. /\ at[p] = "idle" /\ at' = [at EXCEPT ![p] = where]
      /\ UNCHANGED <<disk, tool, command, round, held, selected, answer>>
  BY DEF CallCommand, Goto
<1>2. command[p] \in Orders
  BY <1>1, InOrder DEF PlaceInv
<1>3. /\ next' \in [Procs -> DOMAIN Providers] /\ \A q \in Procs \ {p} : next'[q] = next[q]
  <2>1. UNCHANGED next \/ \E i \in DOMAIN Providers : next' = [next EXCEPT ![p] = i]
    BY DEF CallCommand
  <2> QED
    BY <2>1 DEF PlaceInv, Locals
<1>4. /\ secret' \in [Procs -> Secrets] /\ \A q \in Procs \ {p} : secret'[q] = secret[q]
      /\ command[p].op = "store" => secret'[p] \in Keys
  <2>1. Keys \subseteq Secrets
    BY DEF Secrets, Contents
  <2>2. IF command[p].op = "store" THEN \E k \in Keys : secret' = [secret EXCEPT ![p] = k]
        ELSE UNCHANGED secret
    BY DEF CallCommand
  <2> QED
    BY <2>1, <2>2 DEF PlaceInv, Locals
<1>5. Goes(p, where)
  BY <1>1, <1>3, <1>4 DEF Goes, PlaceInv, Locals, Spots
<1> HIDE DEF where
<1>6. Around(p) /\ UNCHANGED <<files, path, flushed, owner>> /\ owner # p
  BY <1>1, QuietAround DEF PlaceInv, Place
<1>7. where \in {"check", "read cache", "look"}
  BY DEF where
<1>8. /\ where = "check" <=> command[p].op = "store"
      /\ where = "read cache" <=> command[p].op = "replay"
  BY DEF where
<1>9. command[p].op \in {"resolve", "triage", "status", "replay", "store"}
  BY <1>2, OrderFacts
<1>10. round'[p] = 1 /\ held'[p] <= Len(files')
  BY <1>1, <1>6 DEF PlaceInv, Place
<1>11. round'[p] <= 2
  BY <1>10
<1>12. where \in Spots \ {"idle", "ended"}
  BY <1>7 DEF Spots
<1> QED
  BY <1>1, <1>4, <1>5, <1>6, <1>7, <1>8, <1>9, <1>10, <1>11, <1>12, GoesOnPlaced

\* What a process does after its look at a provider.
LEMMA SawPlaced ==
    ASSUME PlaceInv, NEW p \in Procs, NEW standing, Saw(p, standing),
           at[p] \in {"look", "read"}, UNCHANGED <<disk, tool>>
    PROVE  Steps(p) /\ Place(p)'
<1>1. /\ Disk /\ Locals /\ Place(p) /\ at[p] # "ended" /\ owner # p
      /\ command[p].op \in {"resolve", "triage", "status"}
      /\ at[p] = "look" => round[p] <= 2
      /\ at[p] = "read" => Provider(p) = "systemd-creds" /\ held[p] \in DOMAIN files
  BY DEF PlaceInv, Place
<1>h. held[p] <= Len(files')
  BY QuietAround DEF PlaceInv, Place
<1>a. Around(p) /\ owner' # p /\ DOMAIN files' = DOMAIN files
  BY <1>1, QuietAround
<1>o. command[p] \in Orders /\ Provider(p) \in ProviderIds /\ next[p] \in 1 .. 3 /\ round[p] \in 1 .. 3
  BY <1>1, InOrder, ProviderOf, ProviderFacts DEF Locals
<1>s. command[p].op = "status" => round[p] = 1
  BY <1>1 DEF Place
<1>2. ASSUME NEW status, NEW what, End(p, status, what)
      PROVE  Steps(p) /\ Place(p)'
  BY <1>2, <1>a, QuitIsPlaced
<1>3. ASSUME NextProvider(p), next[p] # 3, round[p] = 1,
             UNCHANGED selected \/ \E c \in ProviderIds \cup {None} : selected' = [selected EXCEPT ![p] = c]
      PROVE  Steps(p) /\ Place(p)'
  <2>1. /\ next' = [next EXCEPT ![p] = next[p] + 1] /\ at' = [at EXCEPT ![p] = "look"]
        /\ UNCHANGED <<command, round, held, secret, answer>>
    BY <1>3 DEF NextProvider, Goto
  <2>2. next[p] + 1 \in DOMAIN Providers
    BY <1>3, <1>o, ProviderFacts
  <2>3. Goes(p, "look")
    BY <1>1, <1>3, <2>1, <2>2 DEF Goes, Locals, Spots
  <2>4. round'[p] = 1 /\ held'[p] = held[p] /\ 1 <= 2
    BY <1>3, <2>1
  <2>5. round'[p] <= 2
    BY <2>4
  <2>6. "look" \in Spots \ {"idle", "ended"}
    BY DEF Spots
  <2> QED
    BY <1>1, <1>a, <1>h, <2>3, <2>4, <2>5, <2>6, GoesOnPlaced
<1>4. CASE Show(p, standing) /\ command[p].op = "status"
  <2> DEFINE choice == IF selected[p] = None /\ standing # "missing" THEN Provider(p) ELSE selected[p]
  <2>1. CASE next[p] = Len(Providers)
    <3>1. End(p, "shown", <<choice>>)
      BY <1>4, <2>1 DEF Show
    <3> QED
      BY <1>2, <3>1
  <2>2. CASE next[p] # Len(Providers)
    <3>1. NextProvider(p) /\ selected' = [selected EXCEPT ![p] = choice]
      BY <1>4, <2>2 DEF Show
    <3>2. choice \in ProviderIds \cup {None} /\ next[p] # 3 /\ round[p] = 1
      BY <1>1, <1>4, <1>o, <1>s, <2>2, ProviderFacts DEF Locals
    <3> QED
      BY <1>3, <3>1, <3>2
  <2> QED
    BY <2>1, <2>2
<1>5. CASE Choose(p, standing) /\ command[p].op \in {"resolve", "triage"}
  <2>1. ASSUME NEW key \in Secrets, Resolved(p, key)
        PROVE  Steps(p) /\ Place(p)'
    <3>1. CASE command[p].op = "triage"
      <4>1. /\ at' = [at EXCEPT ![p] = "request"] /\ secret' = [secret EXCEPT ![p] = key]
            /\ UNCHANGED <<command, next, round, held, selected, answer>>
        BY <2>1, <3>1 DEF Resolved, Goto
      <4>2. Goes(p, "request")
        BY <1>1, <4>1 DEF Goes, Locals, Spots
      <4>3. held'[p] = held[p] /\ "request" \in Spots \ {"idle", "ended"}
        BY <4>1 DEF Spots
      <4> QED
        BY <1>1, <1>a, <1>h, <3>1, <4>2, <4>3, GoesOnPlaced
    <3>2. CASE command[p].op # "triage"
      BY <1>2, <2>1, <3>2 DEF Resolved
    <3> QED
      BY <3>1, <3>2
  <2>2. ASSUME Proceed(p, "tool"), round[p] = 3
        PROVE  Steps(p) /\ Place(p)'
    <3>1. at' = [at EXCEPT ![p] = "tool"] /\ UNCHANGED <<command, next, round, held, secret, selected, answer>>
      BY <2>2 DEF Proceed, Goto, local
    <3>2. Goes(p, "tool")
      BY <1>1, <3>1 DEF Goes, Locals, Spots
    <3>3. /\ held'[p] = held[p] /\ Provider(p)' = Provider(p) /\ secret'[p] = secret[p] /\ round'[p] = round[p]
          /\ "tool" \in Spots \ {"idle", "ended"}
      BY <3>1, SameProvider DEF Spots
    <3>4. at[p] # "look"
      BY <1>1, <2>2
    <3>5. at[p] = "read"
      BY <3>4
    <3>6. Provider(p)' \in Tools /\ held'[p] \in DOMAIN files'
      BY <1>1, <1>a, <3>3, <3>5 DEF Tools
    <3>7. command[p].op # "status" /\ command[p].op # "store"
      BY <1>5
    <3> QED
      BY <1>1, <1>5, <1>a, <1>h, <3>2, <3>3, <3>6, <3>7, GoesOnPlaced
  <2>3. ASSUME LookAgain(p), round[p] # 3, ~ (Provider(p) = "environment" /\ round[p] = 2)
        PROVE  Steps(p) /\ Place(p)'
    <3> DEFINE where == IF round[p] = 1 THEN "look"
                        ELSE IF Provider(p) = "systemd-creds" THEN "open" ELSE "tool"
    <3>1. /\ round' = [round EXCEPT ![p] = round[p] + 1] /\ at' = [at EXCEPT ![p] = where]
          /\ UNCHANGED <<command, next, held, secret, selected, answer>>
      BY <2>3 DEF LookAgain, Goto
    <3>2. round[p] + 1 \in 1 .. 3 /\ where \in {"look", "open", "tool"}
      BY <1>o, <2>3
    <3>3. /\ where = "look" => round[p] = 1
          /\ where = "open" => Provider(p) = "systemd-creds"
          /\ where = "tool" => Provider(p) # "systemd-creds" /\ round[p] # 1
      OBVIOUS
    <3> HIDE DEF where
    <3>4. Goes(p, where)
      BY <1>1, <3>1, <3>2 DEF Goes, Locals, Spots
    <3>5. /\ held'[p] = held[p] /\ Provider(p)' = Provider(p) /\ secret'[p] = secret[p]
          /\ where \in Spots \ {"idle", "ended"}
      BY <3>1, <3>2, SameProvider DEF Spots
    <3>6. where = "look" => round'[p] <= 2
      <4>1. round'[p] = round[p] + 1
        BY <1>1, <3>1 DEF Locals
      <4> QED
        BY <3>3, <4>1
    <3>7. where = "tool" => Provider(p) \in Tools
      <4>1. where = "tool" => round[p] = 2
        BY <1>o, <2>3, <3>3
      <4> QED
        BY <1>o, <2>3, <4>1, ProviderFacts DEF Tools
    <3>8. command[p].op # "status" /\ command[p].op # "store"
      BY <1>5
    <3> QED
      BY <1>1, <1>5, <1>a, <1>h, <3>2, <3>3, <3>4, <3>5, <3>6, <3>7, <3>8, GoesOnPlaced
  <2>4. CASE standing = "missing" /\ command[p].selection = "auto" /\ round[p] = 1
    <3>1. CASE next[p] = Len(Providers)
      BY <1>2, <1>5, <2>4, <3>1 DEF Choose
    <3>2. CASE next[p] # Len(Providers)
      BY <1>3, <1>5, <2>4, <3>2, ProviderFacts DEF Choose
    <3> QED
      BY <3>1, <3>2
  <2>5. CASE ~ (standing = "missing" /\ command[p].selection = "auto" /\ round[p] = 1)
    <3>1. CASE standing # "available"
      <4>1. Refused(p)
        BY <1>5, <2>5, <3>1 DEF Choose
      <4> QED
        BY <1>2, <4>1 DEF Refused
    <3>2. CASE standing = "available" /\ Provider(p) = "environment" /\ round[p] = 2
      <4>1. Resolved(p, environment)
        BY <1>5, <2>5, <3>2 DEF Choose
      <4>2. environment \in Secrets
        BY <1>1 DEF Disk, Secrets, Contents
      <4> QED
        BY <2>1, <4>1, <4>2
    <3>3. CASE standing = "available" /\ ~ (Provider(p) = "environment" /\ round[p] = 2)
      <4>1. CASE round[p] = 3
        BY <1>5, <2>2, <2>5, <3>3, <4>1 DEF Choose
      <4>2. CASE round[p] # 3
        BY <1>5, <2>3, <2>5, <3>3, <4>2 DEF Choose
      <4> QED
        BY <4>1, <4>2
    <3> QED
      BY <3>1, <3>2, <3>3
  <2> QED
    BY <2>4, <2>5
<1> QED
  BY <1>1, <1>4, <1>5 DEF Saw

-----------------------------------------------------------------------------
(* The other steps of a command, placed *)

\* A disk that is left alone.
LEMMA QuietDisk ==
    ASSUME Disk, UNCHANGED disk
    PROVE  Disk' /\ DiskGrows /\ UNCHANGED <<files, flushed, path, entry, directory>>
  BY DEF disk, folder, Disk, Folder, DiskGrows, FolderStays

\* What the capture is while it serves somebody, it is by itself.
LEMMA PipeDrains ==
    ASSUME Pipe
    PROVE  Draining
  BY DEF Pipe, Draining

\* A process that goes to another place and keeps all it has.
LEMMA ProceedGoes ==
    ASSUME PlaceInv, NEW p \in Procs, NEW where \in Spots, Proceed(p, where)
    PROVE  /\ Goes(p, where) /\ held'[p] = held[p] /\ secret'[p] = secret[p]
           /\ round'[p] = round[p] /\ Provider(p)' = Provider(p)
<1>1. /\ at' = [at EXCEPT ![p] = where]
      /\ UNCHANGED <<command, next, round, held, secret, selected, answer>>
  BY DEF Proceed, Goto, local
<1> QED
  BY <1>1, SameProvider DEF Goes, PlaceInv, Locals

\* A look at the present provider.
LEMMA LookPlaced ==
    ASSUME PlaceInv, NEW p \in Procs, Look(p)
    PROVE  Steps(p) /\ Place(p)'
<1>1. at[p] = "look" /\ UNCHANGED <<disk, tool>>
  BY DEF Look
<1>2. CASE Saw(p, Standing(Provider(p)))
  BY <1>1, <1>2, SawPlaced
<1>3. CASE Provider(p) = "systemd-creds" /\ Proceed(p, "open")
  <2>1. /\ Goes(p, "open") /\ held'[p] = held[p] /\ round'[p] = round[p]
        /\ Provider(p)' = Provider(p) /\ "open" \in Spots \ {"idle", "ended"}
    BY <1>3, ProceedGoes DEF Spots
  <2>2. Around(p) /\ UNCHANGED <<files, path, flushed, owner>>
    BY <1>1, QuietAround
  <2>3. /\ at[p] # "ended" /\ owner # p /\ held[p] <= Len(files)
        /\ command[p].op \in {"resolve", "triage", "status"}
        /\ command[p].op = "status" => round[p] = 1
    BY <1>1 DEF PlaceInv, Place
  <2>4. held'[p] <= Len(files')
    BY <2>1, <2>2, <2>3
  <2> QED
    BY <1>3, <2>1, <2>2, <2>3, <2>4, GoesOnPlaced
<1> QED
  BY <1>2, <1>3 DEF Look

\* The ciphertext is opened.
LEMMA OpenPlaced ==
    ASSUME PlaceInv, NEW p \in Procs, Open(p)
    PROVE  Steps(p) /\ Place(p)'
<1>1. /\ at[p] = "open" /\ path # 0 /\ held' = [held EXCEPT ![p] = path]
      /\ at' = [at EXCEPT ![p] = "read"]
      /\ UNCHANGED <<disk, tool>> /\ UNCHANGED <<command, next, round, secret, selected, answer>>
  BY DEF Open, Goto
<1>2. Around(p) /\ UNCHANGED <<files, path, flushed, owner>>
  BY <1>1, QuietAround
<1>3. path \in DOMAIN files /\ path \in Nat /\ path <= Len(files)
  BY <1>1 DEF PlaceInv, Disk
<1>4. Goes(p, "read")
  BY <1>1, <1>3 DEF Goes, PlaceInv, Locals, Spots
<1>5. held'[p] = path /\ Provider(p)' = Provider(p) /\ round'[p] = round[p]
  BY <1>1, SameProvider DEF PlaceInv, Locals
<1>6. /\ owner # p /\ Provider(p) = "systemd-creds"
      /\ command[p].op \in {"resolve", "triage", "status"}
      /\ command[p].op = "status" => round[p] = 1
  BY <1>1 DEF PlaceInv, Place
<1>7. "read" \in Spots \ {"idle", "ended"} /\ held'[p] \in DOMAIN files' /\ held'[p] <= Len(files')
  BY <1>2, <1>3, <1>5 DEF Spots
<1> QED
  BY <1>1, <1>2, <1>4, <1>5, <1>6, <1>7, GoesOnPlaced

\* The open ciphertext is looked at again.
LEMMA ReadPlaced ==
    ASSUME PlaceInv, NEW p \in Procs, ReadCiphertext(p)
    PROVE  Steps(p) /\ Place(p)'
<1>1. at[p] = "read" /\ UNCHANGED <<disk, tool>>
  BY DEF ReadCiphertext
<1> DEFINE standing == IF held[p] = path /\ files[path] # Unsafe THEN "available" ELSE "broken"
<1>2. Saw(p, standing)
  BY DEF ReadCiphertext
<1> HIDE DEF standing
<1> QED
  BY <1>1, <1>2, SawPlaced

\* A directory is made, or not.
LEMMA MakesAround ==
    ASSUME PlaceInv, NEW p \in Procs, MakeDirectory \/ UNCHANGED folder,
           UNCHANGED <<environment, executable, files, flushed, path, durable, entry>>, UNCHANGED tool
    PROVE  Around(p) /\ UNCHANGED <<files, path, flushed, owner>>
<1>1. Disk /\ Folder /\ Len(files) \in Nat /\ path \in Nat /\ durable \in Nat /\ durable <= path
  <2>1. Disk /\ Len(files) \in Nat
    BY DEF PlaceInv, Disk
  <2> QED
    BY <2>1 DEF Disk
<1>2. Folder' /\ FolderStays
  <2>1. CASE UNCHANGED folder
    BY <1>1, <2>1 DEF folder, Folder, FolderStays
  <2>2. CASE directory = 0 /\ directory' = Len(files) + 1 /\ private' = TRUE /\ anchored' = FALSE
    <3>1. path = 0 /\ durable = 0 /\ ~ anchored
      BY <1>1, <2>2 DEF Folder
    <3>2. directory' \in 0 .. Len(files') + 1 /\ directory' # 0 /\ directory' = Len(files) + 1
      BY <1>1, <2>2
    <3>3. private' \in BOOLEAN /\ anchored' \in BOOLEAN
      BY <2>2
    <3>4. Folder'
      BY <3>1, <3>2, <3>3 DEF Folder
    <3>5. FolderStays
      <4>1. directory = 0
        BY <2>2
      <4> QED
        BY <3>1, <3>2, <4>1 DEF FolderStays
    <3> QED
      BY <3>4, <3>5
  <2> QED
    BY <2>1, <2>2 DEF MakeDirectory
<1>3. Disk' /\ DiskGrows
  BY <1>1, <1>2 DEF Disk, DiskGrows
<1>4. Pipe' /\ \A q \in Procs : (owner' = q) = (owner = q)
  BY DEF tool, capture, PlaceInv, Pipe, CaptureType, ReaderOutlivesTheTool, Closed
<1> QED
  BY <1>3, <1>4 DEF Around, tool

\* What set-deepseek looks at before it runs a tool.
LEMMA ChecksPlaced ==
    ASSUME PlaceInv, NEW p \in Procs, CheckCiphertext(p) \/ CheckEntry(p)
    PROVE  Steps(p) /\ Place(p)'
<1>1. /\ at[p] = "check" /\ Provider(p) \in Tools /\ UNCHANGED tool
      /\ Refused(p) \/ Proceed(p, "tool")
      /\ UNCHANGED <<environment, executable, files, flushed, path, durable, entry>>
      /\ MakeDirectory \/ UNCHANGED folder
      /\ Provider(p) = "systemd-creds" /\ Proceed(p, "tool") => MakeDirectory
  <2>1. CASE CheckCiphertext(p)
    <3>1. /\ at[p] = "check" /\ Provider(p) = "systemd-creds"
          /\ UNCHANGED <<environment, executable, files, flushed, path, durable, entry>>
          /\ UNCHANGED tool
      BY <2>1 DEF CheckCiphertext
    <3>2. \/ Refused(p) /\ UNCHANGED folder
          \/ MakeDirectory /\ (Refused(p) \/ Proceed(p, "tool"))
      BY <2>1 DEF CheckCiphertext
    <3>3. ~ (Refused(p) /\ Proceed(p, "tool"))
      <4>1. Proceed(p, "tool") => at'[p] = "tool"
        BY DEF Proceed, Goto, PlaceInv, Locals
      <4>2. Refused(p) => at'[p] = "ended"
        BY EndSteps DEF Refused, PlaceInv
      <4> QED
        BY <4>1, <4>2
    <3> QED
      BY <3>1, <3>2, <3>3 DEF Tools
  <2>2. CASE CheckEntry(p)
    BY <2>2 DEF CheckEntry, Tools, disk, folder
  <2> QED
    BY <2>1, <2>2
<1>2. Around(p) /\ UNCHANGED <<files, path, flushed, owner>>
  BY <1>1, MakesAround
<1>3. /\ owner # p /\ command[p].op = "store" /\ secret[p] \in Keys /\ held[p] <= Len(files)
  BY <1>1 DEF PlaceInv, Place
<1>4. CASE Refused(p)
  BY <1>2, <1>3, <1>4, QuitIsPlaced DEF Refused
<1>5. CASE Proceed(p, "tool")
  <2>1. /\ Goes(p, "tool") /\ held'[p] = held[p] /\ secret'[p] = secret[p]
        /\ Provider(p)' = Provider(p) /\ "tool" \in Spots \ {"idle", "ended"}
    BY <1>5, ProceedGoes DEF Spots
  <2>2. held'[p] <= Len(files') /\ command[p].op # "status"
    BY <1>2, <1>3, <2>1
  <2>3. Provider(p)' = "systemd-creds" => directory' # 0
    <3>1. Len(files) \in Nat /\ Len(files) + 1 # 0
      <4>1. Len(files) \in Nat
        BY DEF PlaceInv, Disk
      <4> QED
        BY <4>1
    <3> QED
      BY <1>1, <1>5, <2>1, <3>1 DEF MakeDirectory, folder
  <2> QED
    BY <1>1, <1>2, <1>3, <2>1, <2>2, <2>3, GoesOnPlaced
<1> QED
  BY <1>1, <1>4, <1>5

\* mkdir, or a look at the path, is refused.
LEMMA CheckFailsPlaced ==
    ASSUME PlaceInv, NEW p \in Procs, CheckFails(p)
    PROVE  Steps(p) /\ Place(p)'
<1>1. /\ at[p] = "check" /\ End(p, "traceback", <<>>) /\ UNCHANGED tool
      /\ UNCHANGED <<environment, executable, files, flushed, path, durable, entry>>
      /\ MakeDirectory \/ UNCHANGED folder
  BY DEF CheckFails
<1>2. Around(p) /\ UNCHANGED owner /\ owner # p
  BY <1>1, MakesAround DEF PlaceInv, Place
<1> QED
  BY <1>1, <1>2, QuitIsPlaced

\* A tool is started.
LEMMA RunPlaced ==
    ASSUME PlaceInv, NEW p \in Procs, RunTool(p)
    PROVE  Steps(p) /\ Place(p)'
<1>1. /\ at[p] = "tool" /\ owner = Nobody /\ owner' = p /\ Proceed(p, "wait")
      /\ UNCHANGED disk /\ UNCHANGED exit /\ \E chunks \in {Whole, Output} : Spawn(chunks)
  BY DEF RunTool
<1>2. Draining' /\ reader' # "off" /\ "tool" \in writers'
  BY <1>1, PipeDrains, SpawnDrains DEF PlaceInv
<1>3. Nobody \notin Procs
  BY CredentialsAssumption
<1>4. reader = "off" /\ exit' = None
  BY <1>1 DEF PlaceInv, Pipe
<1>5. Pipe'
  BY <1>1, <1>2, <1>3, <1>4 DEF Draining, Pipe
<1>6. Around(p) /\ UNCHANGED <<files, directory>>
  BY <1>1, <1>3, <1>5, QuietDisk DEF Around, PlaceInv
<1>7. /\ command[p].op \in {"resolve", "triage", "store"} /\ Provider(p) \in Tools
      /\ command[p].op = "store" => secret[p] \in Keys
      /\ command[p].op # "store" /\ Provider(p) = "systemd-creds" => held[p] \in DOMAIN files
      /\ held[p] <= Len(files)
      /\ command[p].op = "store" /\ Provider(p) = "systemd-creds" => directory # 0
  BY <1>1 DEF PlaceInv, Place
<1>8. /\ Goes(p, "wait") /\ held'[p] = held[p] /\ secret'[p] = secret[p]
      /\ Provider(p)' = Provider(p) /\ "wait" \in Spots \ {"idle", "ended"}
  BY <1>1, ProceedGoes DEF Spots
<1>9. held'[p] <= Len(files') /\ command[p].op # "status"
  BY <1>6, <1>7, <1>8
<1> QED
  BY <1>1, <1>6, <1>7, <1>8, <1>9, GoesOnPlaced

\* A new ciphertext takes the path, and its process holds it.
LEMMA InstallPlaced ==
    ASSUME PlaceInv, NEW p \in Procs, Install(p)
    PROVE  Steps(p) /\ Place(p)'
<1>1. /\ at[p] = "install" /\ files' = Append(files, secret[p])
      /\ flushed' = flushed \cup {Len(files')} /\ path' = Len(files')
      /\ held' = [held EXCEPT ![p] = path'] /\ at' = [at EXCEPT ![p] = "sync"]
      /\ UNCHANGED <<environment, executable, durable, entry>> /\ UNCHANGED tool
      /\ UNCHANGED <<directory, private, anchored>>
      /\ UNCHANGED <<command, next, round, secret, selected, answer>>
  BY DEF Install, Goto, folder
<1>2. /\ Disk /\ Locals /\ secret[p] \in Contents /\ command[p].op = "store"
      /\ Provider(p) = "systemd-creds" /\ owner # p /\ directory # 0 /\ Folder
  BY <1>1 DEF PlaceInv, Place, Disk
<1>3. files' \in Seq(Contents) /\ Len(files') = Len(files) + 1 /\ Len(files) \in Nat
  BY <1>1, <1>2 DEF Disk
<1>4. DOMAIN files = 1 .. Len(files) /\ DOMAIN files' = 1 .. Len(files')
  BY <1>2, <1>3 DEF Disk
<1>5. path \in Nat /\ durable \in Nat /\ path <= Len(files) /\ durable <= path
  BY <1>2, <1>3 DEF Disk
<1>6. DOMAIN files \subseteq DOMAIN files' /\ Len(files') \in DOMAIN files'
  BY <1>3, <1>4
<1>7. flushed' \subseteq DOMAIN files'
  BY <1>1, <1>2, <1>6 DEF Disk
<1>8. path' \in 0 .. Len(files') /\ durable' \in 0 .. path' /\ path <= path' /\ durable <= durable'
  <2>1. path' = Len(files) + 1 /\ durable' = durable
    BY <1>1, <1>3
  <2> QED
    BY <1>3, <1>5, <2>1
<1>9. Disk' /\ DiskGrows
  <2>1. Folder' /\ FolderStays
    <3>1. path' = Len(files) + 1 /\ durable' = durable
      BY <1>1, <1>3
    <3> QED
      BY <1>1, <1>2, <1>3, <1>5, <3>1 DEF Folder, FolderStays
  <2> QED
    BY <1>1, <1>2, <1>3, <1>6, <1>7, <1>8, <2>1 DEF Disk, DiskGrows
<1>10. Pipe' /\ \A q \in Procs : (owner' = q) = (owner = q)
  BY <1>1 DEF tool, capture, PlaceInv, Pipe, CaptureType, ReaderOutlivesTheTool, Closed
<1>11. Around(p)
  BY <1>9, <1>10 DEF Around
<1>12. path' \in Nat
  BY <1>1, <1>3
<1>13. Goes(p, "sync")
  BY <1>1, <1>2, <1>12 DEF Goes, Locals, Spots
<1>14. held'[p] = path' /\ Provider(p)' = Provider(p)
  BY <1>1, <1>2, SameProvider DEF Locals
<1>15. held'[p] \in flushed' /\ held'[p] <= path' /\ held'[p] <= Len(files')
  BY <1>1, <1>3, <1>12, <1>14
<1>16. "sync" \in Spots \ {"idle", "ended"} /\ owner' # p /\ command[p].op # "status"
  BY <1>2, <1>10 DEF Spots
<1> QED
  BY <1>1, <1>2, <1>11, <1>13, <1>14, <1>15, <1>16, GoesOnPlaced

\* The directory is flushed.
LEMMA SyncPlaced ==
    ASSUME PlaceInv, NEW p \in Procs, SyncDirectory(p)
    PROVE  Steps(p) /\ Place(p)'
<1>1. /\ at[p] = "sync" /\ durable' = path /\ End(p, "stored", <<held[p], anchored>>)
      /\ UNCHANGED <<environment, executable, files, flushed, path, entry>> /\ UNCHANGED tool
      /\ UNCHANGED <<directory, private, anchored>>
  BY DEF SyncDirectory, folder
<1>2. Disk' /\ DiskGrows
  BY <1>1 DEF PlaceInv, Disk, Folder, DiskGrows, FolderStays
<1>3. Pipe' /\ (\A q \in Procs : (owner' = q) = (owner = q)) /\ owner' # p
  BY <1>1 DEF tool, capture, PlaceInv, Pipe, CaptureType, ReaderOutlivesTheTool, Closed, Place
<1>4. Around(p)
  BY <1>2, <1>3 DEF Around
<1> QED
  BY <1>1, <1>3, <1>4, QuitIsPlaced

\* A system call of the store is refused.
LEMMA StoreFailsPlaced ==
    ASSUME PlaceInv, NEW p \in Procs, StoreFails(p)
    PROVE  Steps(p) /\ Place(p)'
<1>1. at[p] \in {"install", "sync"} /\ Refused(p) /\ UNCHANGED <<disk, tool>>
  BY DEF StoreFails
<1>2. Around(p) /\ owner' # p
  BY <1>1, QuietAround DEF PlaceInv, Place
<1> QED
  BY <1>1, <1>2, QuitIsPlaced DEF Refused

\* The capture is closed.
LEMMA ClosedAround ==
    ASSUME PlaceInv, NEW p \in Procs, owner = p, Close, owner' = Nobody, exit' = None,
           Disk', DiskGrows
    PROVE  Around(p) /\ owner' # p
<1>1. Draining' /\ reader' = "off" /\ Closed'
  BY CloseDrains
<1>2. Nobody \notin Procs
  BY CredentialsAssumption
<1>3. Pipe'
  BY <1>1 DEF Draining, Pipe, Closed
<1> QED
  BY <1>2, <1>3 DEF Around

\* The tool is gone and its output is there.
LEMMA ReturnsPlaced ==
    ASSUME PlaceInv, NEW p \in Procs, ToolReturns(p)
    PROVE  Steps(p) /\ Place(p)'
<1>1. /\ at[p] = "wait" /\ owner = p /\ Close /\ owner' = Nobody /\ exit' = None
      /\ UNCHANGED disk
  BY DEF ToolReturns
<1>2. Around(p) /\ owner' # p /\ UNCHANGED <<files, directory>>
  BY <1>1, ClosedAround, QuietDisk DEF PlaceInv
<1>3. Received(p) \in Secrets /\ (command[p].op = "store" => Received(p) \in Keys \cup {Torn})
  <2>1. secret[p] \in Secrets /\ (command[p].op = "store" => secret[p] \in Keys)
    BY <1>1 DEF PlaceInv, Place, Locals
  <2> QED
    BY <2>1 DEF Received, Secrets, Contents
<1>4. CASE \E status, what : End(p, status, what)
  BY <1>2, <1>4, QuitIsPlaced
<1>5. CASE command[p].op = "triage" /\ Resolved(p, Received(p))
  <2>1. /\ at' = [at EXCEPT ![p] = "request"] /\ secret' = [secret EXCEPT ![p] = Received(p)]
        /\ UNCHANGED <<command, next, round, held, selected, answer>>
    BY <1>5 DEF Resolved, Goto
  <2>2. Goes(p, "request")
    BY <1>3, <2>1 DEF Goes, PlaceInv, Locals, Spots
  <2>3. held'[p] <= Len(files') /\ "request" \in Spots \ {"idle", "ended"}
    BY <1>2, <2>1 DEF PlaceInv, Place, Spots
  <2> QED
    BY <1>1, <1>2, <1>5, <2>2, <2>3, GoesOnPlaced
<1>6. CASE /\ command[p].op = "store" /\ ~ Inserts(p)
           /\ at' = [at EXCEPT ![p] = "install"] /\ secret' = [secret EXCEPT ![p] = Received(p)]
           /\ UNCHANGED <<command, next, round, held, selected, answer>>
  <2>1. Goes(p, "install")
    BY <1>3, <1>6 DEF Goes, PlaceInv, Locals, Spots
  <2>2. held'[p] <= Len(files') /\ "install" \in Spots \ {"idle", "ended"}
    BY <1>2, <1>6 DEF PlaceInv, Place, Spots
  <2>3. secret'[p] = Received(p)
    BY <1>6 DEF PlaceInv, Locals
  <2>4. secret'[p] \in Contents
    BY <1>3, <1>6, <2>3 DEF Contents
  <2>6. Provider(p) = "systemd-creds"
    BY <1>1, <1>6 DEF PlaceInv, Place, Inserts, Tools
  <2>5. Provider(p)' = "systemd-creds"
    BY <1>6, <2>6, SameProvider
  <2> QED
    <3>1. directory' # 0
      BY <1>1, <1>2, <1>6, <2>6 DEF PlaceInv, Place
    <3> QED
      BY <1>1, <1>2, <1>6, <2>1, <2>2, <2>4, <2>5, <3>1, GoesOnPlaced
<1> QED
  BY <1>4, <1>5, <1>6 DEF ToolReturns, Refused, Resolved, Goto

\* Nobody but a tool moves, and the tool may have its effect.
LEMMA NobodyMoves ==
    ASSUME PlaceInv, Disk', DiskGrows, Pipe', Locals', \A q \in Procs : Same(q),
           \A q \in Procs : (owner' = q) = (owner = q)
    PROVE  PlaceInv'
<1>1. \A q \in Procs : Place(q)'
  BY PlaceStays DEF PlaceInv, Locals
<1> QED
  BY <1>1 DEF PlaceInv

\* What the tool may put into the entry of pass is a key.
LEMMA EntryIsKept ==
    ASSUME Disk, NEW p \in Procs, Place(p), at[p] \in {"tool", "wait"},
           UNCHANGED <<environment, executable, files, flushed, path, durable, folder>>,
           UNCHANGED entry \/ (Inserts(p) /\ entry' = secret[p])
    PROVE  Disk' /\ DiskGrows
<1>1. entry' \in Contents \cup {None}
  BY DEF Disk, Place, Inserts, Contents
<1> QED
  BY <1>1 DEF Disk, DiskGrows, Folder, FolderStays, folder

\* A tool fails, with or without its effect.
LEMMA FailsPlaced ==
    ASSUME PlaceInv, NEW p \in Procs, ToolFails(p)
    PROVE  PlaceInv'
<1>1. /\ owner = p /\ ToolEnds /\ exit' \in {"failed", "timeout"}
      /\ UNCHANGED entry \/ (Inserts(p) /\ entry' = secret[p])
      /\ UNCHANGED <<environment, executable, files, flushed, path, durable, folder>> /\ UNCHANGED owner
      /\ UNCHANGED at /\ UNCHANGED local /\ UNCHANGED answer
  BY DEF ToolFails
<1>2. at[p] = "wait"
  BY <1>1 DEF PlaceInv, Place
<1>3. Disk' /\ DiskGrows
  BY <1>1, <1>2, EntryIsKept DEF PlaceInv
<1>4. Draining' /\ reader' = reader /\ reader # "off" /\ "tool" \notin writers'
  BY <1>1, PipeDrains, EndDrains DEF PlaceInv
<1>5. Pipe'
  BY <1>1, <1>4 DEF Draining, Pipe, PlaceInv, None
<1>6. Locals' /\ \A q \in Procs : Same(q)
  BY <1>1 DEF PlaceInv, Locals, Same, local
<1> QED
  BY <1>1, <1>3, <1>5, <1>6, NobodyMoves

\* A tool has said what it has to say.
LEMMA SucceedsPlaced ==
    ASSUME PlaceInv, NEW p \in Procs, ToolSucceeds(p)
    PROVE  PlaceInv'
<1>1. /\ owner = p /\ ToolEnds /\ exit' \in {"failed", "ok"}
      /\ UNCHANGED <<environment, executable, files, flushed, path, durable, folder>> /\ UNCHANGED owner
      /\ UNCHANGED <<at, command, next, round, held, selected, answer>>
  BY DEF ToolSucceeds
<1>2. \/ UNCHANGED <<secret, entry>>
      \/ /\ secret' = [secret EXCEPT ![p] = Told(p)] /\ Told(p) \notin {None, Torn, Unsafe}
         /\ UNCHANGED entry \/ (Inserts(p) /\ entry' = secret[p])
  BY DEF ToolSucceeds
<1>3. /\ at[p] = "wait" /\ Place(p) /\ Disk /\ Locals /\ command[p].op \in {"resolve", "triage", "store"}
      /\ Provider(p) \in Tools
  BY <1>1 DEF PlaceInv, Place
<1>4. Disk' /\ DiskGrows
  BY <1>1, <1>2, <1>3, EntryIsKept
<1>5. Draining' /\ reader' = reader /\ reader # "off" /\ "tool" \notin writers'
  BY <1>1, PipeDrains, EndDrains DEF PlaceInv
<1>6. Pipe'
  BY <1>1, <1>5 DEF Draining, Pipe, PlaceInv, None
<1>7. Told(p) \in Contents \cup {None} /\ (command[p].op = "store" => Told(p) \in Keys)
  <2>1. CASE command[p].op = "store"
    BY <1>3, <2>1 DEF Told, Place, Contents
  <2>2. CASE command[p].op # "store" /\ Provider(p) = "pass"
    BY <1>3, <2>2 DEF Told, Disk
  <2>3. CASE command[p].op # "store" /\ Provider(p) = "systemd-creds"
    <3>1. held[p] \in DOMAIN files /\ files \in Seq(Contents)
      BY <1>3, <2>3 DEF Place, Disk
    <3>2. files[held[p]] \in Contents
      BY <3>1
    <3> QED
      BY <2>3, <3>2 DEF Told
  <2> QED
    BY <1>3, <2>1, <2>2, <2>3 DEF Tools
<1>8. Locals'
  BY <1>1, <1>2, <1>3, <1>7 DEF Locals, Secrets
<1>9. \A q \in Procs \ {p} : Same(q)
  BY <1>1, <1>2, <1>3 DEF Locals, Same
<1>10. Provider(p)' = Provider(p)
  BY <1>1, SameProvider
<1>11. command[p].op = "store" => secret'[p] \in Keys
  <2>1. secret'[p] = secret[p] \/ secret'[p] = Told(p)
    BY <1>2, <1>3 DEF Locals
  <2> QED
    BY <1>3, <1>7, <2>1 DEF Place
<1>12. /\ at'[p] = "wait" /\ command'[p] = command[p] /\ held'[p] = held[p] /\ round'[p] = round[p]
       /\ UNCHANGED <<files, directory>>
  BY <1>1, <1>3 DEF folder
<1>13. /\ (at[p] = "ended") = (command[p] = NoCommand)
       /\ held[p] <= Len(files)
       /\ command[p].op # "store" /\ Provider(p) = "systemd-creds" => held[p] \in DOMAIN files
       /\ command[p].op = "status" => round[p] = 1
       /\ command[p].op = "store" /\ Provider(p) = "systemd-creds" => directory # 0
  BY <1>3 DEF Place
<1>14. Place(p)'
  BY <1>1, <1>3, <1>10, <1>11, <1>12, <1>13 DEF Place
<1>15. \A q \in Procs \ {p} : Place(q)'
  <2>1. \A q \in Procs : (owner' = q) = (owner = q)
    BY <1>1
  <2> QED
    BY <1>4, <1>9, <2>1, PlaceStays DEF PlaceInv, Locals
<1> QED
  BY <1>4, <1>6, <1>8, <1>14, <1>15 DEF PlaceInv

\* The threads and the pipe go on.
LEMMA DeliverPlaced ==
    ASSUME PlaceInv, Deliver
    PROVE  PlaceInv'
<1>1. CaptureSteps /\ UNCHANGED disk /\ UNCHANGED <<owner, exit, at, local, answer>>
  BY DEF Deliver
<1>2. Draining' /\ (reader' = "off" <=> reader = "off") /\ ("tool" \in writers' <=> "tool" \in writers)
  BY <1>1, PipeDrains, StepsDrain DEF PlaceInv
<1>3. Pipe'
  BY <1>1, <1>2 DEF Draining, Pipe, PlaceInv
<1>4. Disk' /\ DiskGrows
  BY <1>1, QuietDisk DEF PlaceInv
<1>5. Locals' /\ \A q \in Procs : Same(q)
  BY <1>1 DEF PlaceInv, Locals, Same, local
<1> QED
  BY <1>1, <1>3, <1>4, <1>5, NobodyMoves

\* A process is killed; its tool may have its effect yet.
LEMMA KillPlaced ==
    ASSUME PlaceInv, NEW p \in Procs, Kill(p)
    PROVE  Steps(p) /\ Place(p)'
<1>1. /\ End(p, "killed", <<>>)
      /\ IF owner = p THEN Close /\ owner' = Nobody /\ exit' = None ELSE UNCHANGED tool
      /\ UNCHANGED entry \/ (owner = p /\ Inserts(p) /\ entry' = secret[p])
      /\ UNCHANGED <<environment, executable, files, flushed, path, durable, folder>>
  BY DEF Kill
<1>2. CASE owner = p
  <2>1. at[p] = "wait"
    BY <1>2 DEF PlaceInv, Place
  <2>2. Disk' /\ DiskGrows
    BY <1>1, <2>1, EntryIsKept DEF PlaceInv
  <2>3. Around(p) /\ owner' # p
    BY <1>1, <1>2, <2>2, ClosedAround
  <2> QED
    BY <1>1, <2>3, QuitIsPlaced
<1>3. CASE owner # p
  <2>1. UNCHANGED <<disk, tool>>
    BY <1>1, <1>3 DEF disk
  <2>2. Around(p) /\ owner' # p
    BY <1>3, <2>1, QuietAround
  <2> QED
    BY <1>1, <2>2, QuitIsPlaced
<1> QED
  BY <1>2, <1>3

\* A command that stays where it is.
LEMMA StaysPlaced ==
    ASSUME PlaceInv, UNCHANGED <<disk, tool>>, UNCHANGED <<at, local, answer>>
    PROVE  PlaceInv'
<1>1. Disk' /\ DiskGrows
  BY QuietDisk DEF PlaceInv
<1>2. Pipe' /\ UNCHANGED owner
  BY DEF tool, capture, PlaceInv, Pipe, CaptureType, ReaderOutlivesTheTool, Closed
<1>3. Locals' /\ \A q \in Procs : Same(q)
  BY DEF PlaceInv, Locals, Same, local
<1> QED
  BY <1>1, <1>2, <1>3, NobodyMoves

\* complete() returns to the role, or raises.
LEMMA ReturnPlaced ==
    ASSUME PlaceInv, NEW p \in Procs, NEW kind, NEW heard, Return(p, kind, heard),
           UNCHANGED <<disk, tool>>, at[p] \in {"request", "read cache"}
    PROVE  PlaceInv'
<1>1. CASE UNCHANGED <<at, local, answer>>
  BY <1>1, StaysPlaced
<1>2. CASE \E status : End(p, status, heard)
  <2>1. Around(p) /\ owner' # p
    BY QuietAround DEF PlaceInv, Place
  <2>2. Steps(p) /\ Place(p)'
    BY <1>2, <2>1, QuitIsPlaced
  <2> QED
    BY <2>2, StepsArePlaced
<1> QED
  BY <1>1, <1>2 DEF Return

\* A request to the model, or a look into the cache.
LEMMA AskingPlaced ==
    ASSUME PlaceInv, NEW p \in Procs, Post(p) \/ ReadCache(p)
    PROVE  PlaceInv'
<1>1. UNCHANGED <<disk, tool>> /\ at[p] \in {"request", "read cache"}
  BY DEF Post, ReadCache
<1>2. UNCHANGED <<at, local, answer>> \/ \E kind, heard : Return(p, kind, heard)
  BY DEF Post, ReadCache
<1> QED
  BY <1>1, <1>2, StaysPlaced, ReturnPlaced

\* The machine loses its power.
LEMMA LossPlaced ==
    ASSUME PlaceInv, PowerLoss
    PROVE  PlaceInv'
<1>1. /\ \/ directory # 0 /\ path' \in {path, durable} /\ anchored' = TRUE /\ UNCHANGED <<directory, private>>
         \/ path' = 0 /\ directory' = 0 /\ ~ anchored /\ UNCHANGED <<private, anchored>>
      /\ durable' = path'
      /\ files' = [i \in DOMAIN files |-> IF i \in flushed THEN files[i] ELSE Torn]
      /\ flushed' = DOMAIN files /\ UNCHANGED <<environment, executable, entry, answer>>
      /\ Close /\ owner' = Nobody /\ exit' = None
      /\ at' = [p \in Procs |-> IF at[p] = "idle" THEN "idle" ELSE "ended"]
      /\ command' = [p \in Procs |-> IF at[p] = "idle" THEN command[p] ELSE NoCommand]
      /\ next' = [p \in Procs |-> 1] /\ round' = [p \in Procs |-> 1]
      /\ held' = [p \in Procs |-> 0] /\ secret' = [p \in Procs |-> None]
      /\ selected' = [p \in Procs |-> None]
  BY DEF PowerLoss
<1>2. files \in Seq(Contents) /\ Len(files) \in Nat /\ DOMAIN files = 1 .. Len(files)
  BY DEF PlaceInv, Disk
<1>3. files' \in Seq(Contents) /\ Len(files') = Len(files) /\ DOMAIN files' = DOMAIN files
  <2>1. Torn \in Contents
    BY DEF Contents
  <2>2. files' \in [1 .. Len(files) -> Contents]
    BY <1>1, <1>2, <2>1
  <2> QED
    BY <1>2, <2>2
<1>4. Disk'
  <2>1. path' \in 0 .. Len(files') /\ durable' \in 0 .. path'
    BY <1>1, <1>2, <1>3 DEF PlaceInv, Disk
  <2>2. Folder' 
    <3>1. /\ Folder /\ durable \in Nat /\ path \in Nat /\ durable <= path
      BY <1>2 DEF PlaceInv, Disk
    <3>2. CASE directory # 0 /\ path' \in {path, durable} /\ anchored' = TRUE /\ UNCHANGED <<directory, private>>
      <4>1. /\ directory' \in 0 .. Len(files') + 1 /\ directory' # 0
            /\ path' # 0 => directory' <= path'
            /\ durable' # 0 => directory' <= durable'
        BY <1>1, <1>3, <3>1, <3>2 DEF Folder
      <4>2. private' \in BOOLEAN /\ anchored' \in BOOLEAN
        BY <3>1, <3>2 DEF Folder
      <4> QED
        BY <4>1, <4>2 DEF Folder
    <3>3. CASE path' = 0 /\ directory' = 0 /\ ~ anchored /\ UNCHANGED <<private, anchored>>
      <4>1. directory' \in 0 .. Len(files') + 1 /\ path' = 0 /\ durable' = 0
        BY <1>1, <1>2, <1>3, <3>3
      <4>2. private' \in BOOLEAN /\ anchored' \in BOOLEAN /\ ~ anchored'
        BY <3>1, <3>3 DEF Folder
      <4> QED
        BY <4>1, <4>2 DEF Folder
    <3> QED
      BY <1>1, <3>2, <3>3
  <2> QED
    BY <1>1, <1>3, <2>1, <2>2 DEF PlaceInv, Disk
<1>5. Pipe'
  <2>1. Draining' /\ reader' = "off" /\ Closed'
    BY <1>1, CloseDrains
  <2> QED
    BY <1>1, <2>1 DEF Draining, Pipe, Closed
<1>6. Locals'
  <2>1. 1 \in DOMAIN Providers /\ 1 \in 1 .. 3 /\ 0 \in Nat
    BY ProviderFacts
  <2>2. None \in Secrets /\ "ended" \in Spots /\ "idle" \in Spots
    BY DEF Secrets, Spots
  <2> QED
    BY <1>1, <2>1, <2>2 DEF PlaceInv, Locals
<1>7. ASSUME NEW p \in Procs
      PROVE  Place(p)'
  <2>1. /\ at'[p] = IF at[p] = "idle" THEN "idle" ELSE "ended"
        /\ command'[p] = IF at[p] = "idle" THEN command[p] ELSE NoCommand
        /\ round'[p] = 1 /\ held'[p] = 0 /\ owner' # p
    BY <1>1, CredentialsAssumption
  <2>2. NoCommand.op = "none" /\ 0 <= Len(files')
    BY <1>2, <1>3, OrderFacts
  <2>3. CASE at[p] = "idle"
    <3>1. command[p] # NoCommand
      BY <2>3 DEF PlaceInv, Place
    <3> QED
      BY <2>1, <2>2, <2>3, <3>1 DEF Place
  <2>4. CASE at[p] # "idle"
    BY <2>1, <2>2, <2>4 DEF Place
  <2> QED
    BY <2>3, <2>4
<1> QED
  BY <1>4, <1>5, <1>6, <1>7 DEF PlaceInv

\* Every process starts in its place.
LEMMA StartPlaced ==
    ASSUME Start
    PROVE  PlaceInv
<1> PICK s \in Sources :
      /\ environment = s.environment /\ executable = s.executable
      /\ entry = s.entry /\ files = IF s.file = None THEN <<>> ELSE <<s.file>>
      /\ directory = IF s.directory = "absent" THEN 0 ELSE 1
      /\ private = (s.directory # Unsafe) /\ anchored = (s.directory # "absent")
  BY DEF Start, Init
<1>1. /\ path = Len(files) /\ durable = Len(files) /\ flushed = DOMAIN files
      /\ Closed /\ owner = Nobody /\ exit = None
      /\ at = [p \in Procs |-> "idle"] /\ command \in Workloads
      /\ next = [p \in Procs |-> 1] /\ round = [p \in Procs |-> 1]
      /\ held = [p \in Procs |-> 0] /\ secret = [p \in Procs |-> None]
      /\ selected = [p \in Procs |-> None] /\ answer = [p \in Procs |-> NoCommand]
  BY DEF Start, Init
<1>2. /\ s.environment \in Keys \cup {None, Garbled} /\ s.file \in Contents \cup {None}
      /\ s.entry \in Contents \cup {None} /\ command \in [Procs -> Orders]
      /\ s.directory = "absent" => s.file = None
  BY <1>1, CredentialsAssumption DEF Orders, Tools
<1>3. files \in Seq(Contents) /\ Len(files) \in Nat
  BY <1>2
<1>4. Disk
  <2>1. private \in BOOLEAN /\ anchored \in BOOLEAN
    OBVIOUS
  <2>2. directory \in {0, 1} /\ (anchored => directory # 0)
    <3>1. CASE s.directory = "absent"
      <4>1. directory = 0 /\ ~ anchored
        BY <3>1
      <4> QED
        BY <4>1
    <3>2. CASE s.directory # "absent"
      <4>1. directory = 1
        BY <3>2
      <4> QED
        BY <4>1
    <3> QED
      BY <3>1, <3>2
  <2>3. path # 0 => directory # 0
    BY <1>1, <1>2
  <2>4. Len(files) + 1 \in Nat /\ 1 <= Len(files) + 1 /\ path = Len(files) /\ durable = Len(files)
    BY <1>1, <1>3
  <2>5. directory \in 0 .. Len(files) + 1
    BY <1>3, <2>2, <2>4
  <2>6. (path # 0 => directory <= path) /\ (durable # 0 => directory <= durable)
    BY <1>3, <2>2, <2>4
  <2>7. Folder
    BY <2>1, <2>2, <2>3, <2>5, <2>6 DEF Folder
  <2> QED
    BY <1>1, <1>2, <1>3, <2>7 DEF Disk
<1>5. Locals
  <2>1. 1 \in DOMAIN Providers /\ 1 \in 1 .. 3 /\ 0 \in Nat
    BY ProviderFacts
  <2>2. None \in Secrets /\ "idle" \in Spots
    BY DEF Secrets, Spots
  <2> QED
    BY <1>1, <1>2, <2>1, <2>2 DEF Locals
<1>6. Pipe
  <2>1. Min({0, Limit}) = 0
    BY MinOfTwo, Bounds
  <2>2. 0 \in 0 .. Output /\ 0 - 0 <= PipeSize /\ 0 <= 0
    BY Bounds
  <2>3. CaptureType
    BY <1>1, <2>1, <2>2 DEF Closed, CaptureType
  <2> QED
    BY <1>1, <2>3 DEF Pipe, Closed, ReaderOutlivesTheTool
<1>7. ASSUME NEW p \in Procs
      PROVE  Place(p)
  <2>1. /\ at[p] = "idle" /\ round[p] = 1 /\ held[p] = 0 /\ owner # p
        /\ command[p] \in Orders
    BY <1>1, <1>2, CredentialsAssumption
  <2>2. command[p] # NoCommand /\ 0 <= Len(files)
    BY <1>3, <2>1, OrderFacts
  <2> QED
    BY <2>1, <2>2 DEF Place
<1> QED
  BY <1>4, <1>5, <1>6, <1>7 DEF PlaceInv

\* Every step keeps the places.
LEMMA EveryStepPlaced ==
    ASSUME PlaceInv, [Next]_vars
    PROVE  PlaceInv'
<1>1. CASE UNCHANGED vars
  BY <1>1, StaysPlaced DEF vars
<1>2. ASSUME NEW p \in Procs, Call(p) \/ ProcessStep(p) \/ ToolStep(p) \/ Trouble(p)
      PROVE  PlaceInv'
  <2>1. CASE Call(p)
    BY <2>1, CallPlaced, StepsArePlaced DEF Call
  <2>2. CASE ProcessStep(p)
    <3>1. CASE Look(p)
      BY <3>1, LookPlaced, StepsArePlaced
    <3>2. CASE Open(p)
      BY <3>2, OpenPlaced, StepsArePlaced
    <3>3. CASE ReadCiphertext(p)
      BY <3>3, ReadPlaced, StepsArePlaced
    <3>4. CASE RunTool(p)
      BY <3>4, RunPlaced, StepsArePlaced
    <3>5. CASE ToolReturns(p)
      BY <3>5, ReturnsPlaced, StepsArePlaced
    <3>6. CASE CheckCiphertext(p) \/ CheckEntry(p)
      BY <3>6, ChecksPlaced, StepsArePlaced
    <3>7. CASE Install(p)
      BY <3>7, InstallPlaced, StepsArePlaced
    <3>8. CASE SyncDirectory(p)
      BY <3>8, SyncPlaced, StepsArePlaced
    <3>9. CASE Post(p) \/ ReadCache(p)
      BY <3>9, AskingPlaced
    <3> QED
      BY <2>2, <3>1, <3>2, <3>3, <3>4, <3>5, <3>6, <3>7, <3>8, <3>9 DEF ProcessStep
  <2>3. CASE ToolStep(p)
    BY <2>3, SucceedsPlaced DEF ToolStep
  <2>4. CASE Trouble(p)
    <3>1. CASE ToolFails(p)
      BY <3>1, FailsPlaced
    <3>2. CASE StoreFails(p)
      BY <3>2, StoreFailsPlaced, StepsArePlaced
    <3>3. CASE Kill(p)
      BY <3>3, KillPlaced, StepsArePlaced
    <3>4. CASE CheckFails(p)
      BY <3>4, CheckFailsPlaced, StepsArePlaced
    <3> QED
      BY <2>4, <3>1, <3>2, <3>3, <3>4 DEF Trouble
  <2> QED
    BY <1>2, <2>1, <2>2, <2>3, <2>4
<1>3. CASE Captures
  BY <1>3, DeliverPlaced DEF Captures
<1>4. CASE Crash
  BY <1>4, LossPlaced DEF Crash
<1> QED
  BY <1>1, <1>2, <1>3, <1>4 DEF Next

-----------------------------------------------------------------------------
(* What a step of a command may answer *)

\* A command goes on, or it ends and says so.
Turn(p) ==
    /\ at[p] \notin {"request", "read cache", "ended"}
    /\ \/ at'[p] # "ended" /\ answer'[p] = answer[p]
       \/ \E status \in {"key", "error", "shown", "traceback"} : \E what : End(p, status, what)
       \/ Inserts(p) /\ End(p, "stored", <<0>>)
       \/ SyncDirectory(p)

\* A process that goes elsewhere has not answered.
LEMMA GoesTurn ==
    ASSUME PlaceInv, NEW p \in Procs, NEW where, at' = [at EXCEPT ![p] = where],
           where # "ended", UNCHANGED answer
    PROVE  at'[p] # "ended" /\ answer'[p] = answer[p]
  BY DEF PlaceInv, Locals

\* Nothing that follows a look stores anything.
LEMMA SawTurn ==
    ASSUME PlaceInv, NEW p \in Procs, NEW standing, Saw(p, standing)
    PROVE  \/ at'[p] # "ended" /\ answer'[p] = answer[p]
           \/ \E status \in {"key", "error", "shown", "traceback"} : \E what : End(p, status, what)
<1>1. ASSUME NEW where, Goto(p, where), where # "ended", UNCHANGED answer
      PROVE  at'[p] # "ended" /\ answer'[p] = answer[p]
  BY <1>1, GoesTurn DEF Goto
<1>2. CASE Show(p, standing)
  <2>1. \/ \E what : End(p, "shown", what)
        \/ NextProvider(p)
    BY <1>2 DEF Show
  <2> QED
    BY <1>1, <2>1 DEF NextProvider
<1>3. CASE Choose(p, standing)
  <2>1. \/ End(p, "error", <<>>) \/ NextProvider(p) \/ Refused(p) \/ Resolved(p, environment)
        \/ Proceed(p, "tool") \/ LookAgain(p)
    BY <1>3 DEF Choose
  <2>2. CASE NextProvider(p)
    BY <1>1, <2>2 DEF NextProvider
  <2>3. CASE Resolved(p, environment)
    BY <1>1, <2>3 DEF Resolved
  <2>4. CASE Proceed(p, "tool")
    BY <1>1, <2>4 DEF Proceed
  <2>5. CASE LookAgain(p)
    <3> DEFINE where == IF round[p] = 1 THEN "look"
                        ELSE IF Provider(p) = "systemd-creds" THEN "open" ELSE "tool"
    <3>1. Goto(p, where) /\ UNCHANGED answer
      BY <2>5 DEF LookAgain
    <3>2. where # "ended"
      OBVIOUS
    <3> QED
      BY <1>1, <3>1, <3>2
  <2> QED
    BY <2>1, <2>2, <2>3, <2>4, <2>5 DEF Refused
<1> QED
  BY <1>2, <1>3 DEF Saw

\* Every step of a command, but for its requests.
LEMMA OwnTurn ==
    ASSUME PlaceInv, NEW p \in Procs,
           \/ CallCommand(p) \/ Look(p) \/ Open(p) \/ ReadCiphertext(p) \/ RunTool(p) \/ ToolReturns(p)
           \/ CheckCiphertext(p) \/ CheckEntry(p) \/ Install(p) \/ SyncDirectory(p) \/ StoreFails(p)
           \/ CheckFails(p)
    PROVE  Turn(p)
<1>1. ASSUME NEW where, Goto(p, where), where # "ended", UNCHANGED answer
      PROVE  at'[p] # "ended" /\ answer'[p] = answer[p]
  BY <1>1, GoesTurn DEF Goto
<1>2. CASE CallCommand(p)
  <2> DEFINE where == IF command[p].op = "store" THEN "check"
                      ELSE IF command[p].op = "replay" THEN "read cache" ELSE "look"
  <2>1. Goto(p, where) /\ UNCHANGED answer /\ at[p] = "idle"
    BY <1>2 DEF CallCommand
  <2>2. where # "ended"
    OBVIOUS
  <2> QED
    BY <1>1, <2>1, <2>2 DEF Turn
<1>3. CASE Look(p)
  <2>1. at[p] = "look" /\ (Proceed(p, "open") \/ \E standing : Saw(p, standing))
    BY <1>3 DEF Look
  <2>2. Proceed(p, "open") => at'[p] # "ended" /\ answer'[p] = answer[p]
    BY <1>1 DEF Proceed
  <2> QED
    BY <2>1, <2>2, SawTurn DEF Turn
<1>4. CASE Open(p)
  <2>1. at[p] = "open" /\ Goto(p, "read") /\ UNCHANGED answer
    BY <1>4 DEF Open
  <2> QED
    BY <1>1, <2>1 DEF Turn
<1>5. CASE ReadCiphertext(p)
  <2>1. at[p] = "read" /\ \E standing : Saw(p, standing)
    BY <1>5 DEF ReadCiphertext
  <2> QED
    BY <2>1, SawTurn DEF Turn
<1>6. CASE RunTool(p)
  <2>1. at[p] = "tool" /\ Goto(p, "wait") /\ UNCHANGED answer
    BY <1>6 DEF RunTool, Proceed
  <2> QED
    BY <1>1, <2>1 DEF Turn
<1>7. CASE ToolReturns(p)
  <2>1. /\ at[p] = "wait"
        /\ \/ Refused(p) \/ Resolved(p, Received(p)) \/ (Inserts(p) /\ End(p, "stored", <<0>>))
           \/ Goto(p, "install") /\ UNCHANGED answer
    BY <1>7 DEF ToolReturns
  <2>2. CASE Resolved(p, Received(p))
    BY <1>1, <2>1, <2>2 DEF Resolved, Turn
  <2>3. CASE Goto(p, "install") /\ UNCHANGED answer
    BY <1>1, <2>1, <2>3 DEF Turn
  <2> QED
    BY <2>1, <2>2, <2>3 DEF Refused, Turn
<1>8. CASE CheckCiphertext(p) \/ CheckEntry(p)
  <2>1. at[p] = "check" /\ (Refused(p) \/ Proceed(p, "tool"))
    BY <1>8 DEF CheckCiphertext, CheckEntry
  <2>2. Proceed(p, "tool") => at'[p] # "ended" /\ answer'[p] = answer[p]
    BY <1>1 DEF Proceed
  <2> QED
    BY <2>1, <2>2 DEF Refused, Turn
<1>9. CASE Install(p)
  <2>1. at[p] = "install" /\ Goto(p, "sync") /\ UNCHANGED answer
    BY <1>9 DEF Install
  <2> QED
    BY <1>1, <2>1 DEF Turn
<1>10. CASE SyncDirectory(p)
  <2>1. at[p] = "sync"
    BY <1>10 DEF SyncDirectory
  <2> QED
    BY <1>10, <2>1 DEF Turn
<1>11. CASE StoreFails(p)
  BY <1>11 DEF StoreFails, Refused, Turn
<1>12. CASE CheckFails(p)
  BY <1>12 DEF CheckFails, Turn
<1> QED
  BY <1>2, <1>3, <1>4, <1>5, <1>6, <1>7, <1>8, <1>9, <1>10, <1>11, <1>12

-----------------------------------------------------------------------------
(* What was stored stays *)

\* The directory and what is on the disk in it stay, or it was not on the disk for
\* good, and a new one is too late for the files there have been.
FolderMoves ==
    \/ directory' = directory /\ (anchored => anchored') /\ durable <= durable'
    \/ ~ anchored /\ directory' \in {0, Len(files) + 1}

\* The directory moves like that as the disk grows.
LEMMA GrowingMoves ==
    ASSUME Disk, DiskGrows
    PROVE  FolderMoves
<1>1. anchored => directory # 0
  BY DEF Disk, Folder
<1> QED
  BY <1>1 DEF DiskGrows, FolderStays, FolderMoves

\* A report stays true as the disk grows.
LEMMA SafeStays ==
    ASSUME Disk, Disk', flushed \subseteq flushed', FolderMoves,
           NEW q \in Procs, answer'[q] = answer[q], Safe(q)
    PROVE  Safe(q)'
<1>1. /\ files \in Seq(Contents) /\ Len(files) \in Nat
      /\ \A i \in flushed : i \in Nat
  BY DEF Disk
<1>2. durable \in Nat /\ durable' \in Nat
  <2>1. Len(files) \in Nat /\ Len(files') \in Nat
    BY DEF Disk
  <2> QED
    BY <2>1 DEF Disk
<1>3. ASSUME NEW file, NEW wasAnchored, Kept(file, wasAnchored)
      PROVE  Kept(file, wasAnchored)'
  <2>1. file \in 1 .. Len(files) /\ file \in flushed'
    BY <1>3 DEF Kept, Disk
  <2>2. CASE directory' = directory /\ (anchored => anchored') /\ durable <= durable'
    BY <1>2, <1>3, <2>1, <2>2 DEF Kept
  <2>3. CASE ~ anchored /\ directory' \in {0, Len(files) + 1}
    <3>1. ~ wasAnchored /\ ~ (directory' # 0 /\ directory' <= file)
      BY <1>1, <1>3, <2>1, <2>3 DEF Kept
    <3> QED
      BY <2>1, <3>1 DEF Kept
  <2> QED
    BY <2>2, <2>3 DEF FolderMoves
<1> QED
  BY <1>3 DEF Safe

\* No file comes, and nobody takes back that it may have stored one.
LEMMA FewStays ==
    ASSUME FilesAreFew, Len(files) \in Nat, Len(files') = Len(files),
           \A q \in Procs : at[q] \in {"sync", "ended"} => at'[q] \in {"sync", "ended"}
    PROVE  FilesAreFew'
<1>1. IsFiniteSet(Procs)
  BY CredentialsAssumption
<1>2. Stored \subseteq Stored' /\ Stored' \subseteq Procs
  BY DEF Stored
<1>3. IsFiniteSet(Stored') /\ IsFiniteSet(Stored)
  BY <1>1, <1>2, FS_Subset
<1>4. Cardinality(Stored) <= Cardinality(Stored')
  BY <1>2, <1>3, FS_Subset
<1>5. Cardinality(Stored) \in Nat /\ Cardinality(Stored') \in Nat
  BY <1>3, FS_CardinalityType
<1> QED
  BY <1>4, <1>5 DEF FilesAreFew

\* The file that comes is counted by the process that stored it.
LEMMA InstallFew ==
    ASSUME PlaceInv, FilesAreFew, NEW p \in Procs, Install(p)
    PROVE  FilesAreFew'
<1>1. at[p] = "install" /\ at' = [at EXCEPT ![p] = "sync"] /\ files' = Append(files, secret[p])
  BY DEF Install, Goto
<1>2. Stored' = Stored \cup {p} /\ p \notin Stored /\ Stored \subseteq Procs
  BY <1>1 DEF Stored, PlaceInv, Locals
<1>3. IsFiniteSet(Stored)
  BY <1>2, CredentialsAssumption, FS_Subset
<1>4. Cardinality(Stored \cup {p}) = Cardinality(Stored) + 1 /\ Cardinality(Stored) \in Nat
  BY <1>2, <1>3, FS_AddElement, FS_CardinalityType
<1>5. Cardinality(Stored') = Cardinality(Stored) + 1
  BY <1>2, <1>4
<1>6. secret[p] \in Contents /\ files \in Seq(Contents)
  BY <1>1 DEF PlaceInv, Disk, Place
<1>7. Len(files') = Len(files) + 1 /\ Len(files) \in Nat
  BY <1>1, <1>6
<1> QED
  BY <1>4, <1>5, <1>7 DEF FilesAreFew

\* What a command answers is safe when it says that it has stored a file.
LEMMA TurnSafe ==
    ASSUME PlaceInv, PlaceInv', NEW p \in Procs, Turn(p), Safe(p), DiskGrows
    PROVE  Safe(p)'
<1>0. Disk /\ Disk' /\ Locals /\ Place(p)
  BY DEF PlaceInv
<1>1. CASE answer'[p] = answer[p]
  BY <1>0, <1>1, SafeStays, GrowingMoves DEF DiskGrows
<1>2. ASSUME NEW status \in {"key", "error", "shown", "traceback"}, NEW what, End(p, status, what)
      PROVE  Safe(p)'
  <2>1. answer'[p] = [command |-> command[p], status |-> status, what |-> what]
    BY <1>0, <1>2, EndSteps
  <2>2. answer'[p].status # "stored"
    BY <2>1
  <2> QED
    BY <2>2 DEF Safe
<1>3. CASE Inserts(p) /\ End(p, "stored", <<0>>)
  <2>a. answer'[p] = [command |-> command[p], status |-> "stored", what |-> <<0>>]
    BY <1>0, <1>3, EndSteps
  <2>1. answer'[p].command = command[p]
    BY <2>a
  <2>2. command[p].provider = "pass"
    BY <1>3 DEF Inserts, Provider
  <2> QED
    BY <2>1, <2>2 DEF Safe
<1>4. CASE SyncDirectory(p)
  <2>1. /\ at[p] = "sync" /\ durable' = path /\ flushed' = flushed /\ End(p, "stored", <<held[p], anchored>>)
        /\ UNCHANGED anchored
    BY <1>4 DEF SyncDirectory, folder
  <2>a. answer'[p] = [command |-> command[p], status |-> "stored", what |-> <<held[p], anchored>>]
    BY <1>0, <2>1, EndSteps
  <2>2. answer'[p].what[1] = held[p] /\ answer'[p].what[2] = anchored
    BY <2>a
  <2>3. held[p] \in flushed /\ held[p] <= path
    BY <1>0, <2>1 DEF Place
  <2> QED
    BY <2>1, <2>2, <2>3 DEF Safe, Kept
<1> QED
  BY <1>1, <1>2, <1>3, <1>4 DEF Turn

\* The steps a command takes by itself, but for its requests.
Own(p) ==
    \/ CallCommand(p) \/ Look(p) \/ Open(p) \/ ReadCiphertext(p) \/ RunTool(p) \/ ToolReturns(p)
    \/ CheckCiphertext(p) \/ CheckEntry(p) \/ Install(p) \/ SyncDirectory(p) \/ StoreFails(p)
    \/ CheckFails(p)

\* Such a step is placed, and its answer is one of a few.
LEMMA OwnSteps ==
    ASSUME PlaceInv, NEW p \in Procs, Own(p)
    PROVE  Steps(p) /\ Turn(p)
<1>1. Turn(p)
  BY OwnTurn DEF Own
<1>2. CASE CallCommand(p)
  BY <1>1, <1>2, CallPlaced
<1>3. CASE Look(p)
  BY <1>1, <1>3, LookPlaced
<1>4. CASE Open(p)
  BY <1>1, <1>4, OpenPlaced
<1>5. CASE ReadCiphertext(p)
  BY <1>1, <1>5, ReadPlaced
<1>6. CASE RunTool(p)
  BY <1>1, <1>6, RunPlaced
<1>7. CASE ToolReturns(p)
  BY <1>1, <1>7, ReturnsPlaced
<1>8. CASE CheckCiphertext(p) \/ CheckEntry(p)
  BY <1>1, <1>8, ChecksPlaced
<1>9. CASE Install(p)
  BY <1>1, <1>9, InstallPlaced
<1>10. CASE SyncDirectory(p)
  BY <1>1, <1>10, SyncPlaced
<1>11. CASE StoreFails(p)
  BY <1>1, <1>11, StoreFailsPlaced
<1>12. CASE CheckFails(p)
  BY <1>1, <1>12, CheckFailsPlaced
<1> QED
  BY <1>1, <1>2, <1>3, <1>4, <1>5, <1>6, <1>7, <1>8, <1>9, <1>10, <1>11, <1>12 DEF Own

\* Nothing is stored but by Install.
LEMMA OwnFew ==
    ASSUME PlaceInv, FilesAreFew, NEW p \in Procs, Own(p)
    PROVE  FilesAreFew'
<1>1. CASE Install(p)
  BY <1>1, InstallFew
<1>2. CASE ~ Install(p)
  <2>1. UNCHANGED files
    BY <1>2 DEF Own, CallCommand, Look, Open, ReadCiphertext, RunTool, ToolReturns, CheckCiphertext,
                CheckEntry, SyncDirectory, StoreFails, CheckFails, disk
  <2>2. Steps(p) /\ Turn(p)
    BY OwnSteps
  <2>3. at[p] = "sync" => SyncDirectory(p) \/ StoreFails(p)
    BY <1>2 DEF Own, CallCommand, Look, Open, ReadCiphertext, RunTool, ToolReturns, CheckCiphertext,
                CheckEntry, CheckFails
  <2>4. at[p] = "sync" => \E status, what : End(p, status, what)
    BY <2>3 DEF SyncDirectory, StoreFails, Refused
  <2>5. at[p] = "sync" => at'[p] = "ended"
    BY <2>4, EndSteps DEF PlaceInv
  <2>6. at[p] # "ended"
    BY <2>2 DEF Turn
  <2>7. \A q \in Procs \ {p} : at'[q] = at[q]
    BY <2>2 DEF Steps, Same
  <2>8. \A q \in Procs : at[q] \in {"sync", "ended"} => at'[q] \in {"sync", "ended"}
    BY <2>5, <2>6, <2>7
  <2>9. Len(files') = Len(files) /\ Len(files) \in Nat
    BY <2>1 DEF PlaceInv, Disk
  <2> QED
    BY <2>8, <2>9, FewStays
<1> QED
  BY <1>1, <1>2

\* Such a step keeps what was stored.
LEMMA OwnStored ==
    ASSUME PlaceInv, StoreInv, NEW p \in Procs, Own(p), PlaceInv'
    PROVE  StoreInv'
<1>1. Steps(p) /\ Turn(p)
  BY OwnSteps
<1>2. DiskGrows /\ Disk /\ Disk'
  BY <1>1 DEF Steps, Around, PlaceInv
<1>3. Safe(p)'
  BY <1>1, <1>2, TurnSafe DEF StoreInv
<1>4. \A q \in Procs \ {p} : answer'[q] = answer[q]
  BY <1>1 DEF Steps, Same
<1>5. \A q \in Procs \ {p} : Safe(q)'
  BY <1>2, <1>4, SafeStays, GrowingMoves DEF DiskGrows, StoreInv
<1>6. FilesAreFew'
  BY OwnFew DEF StoreInv
<1> QED
  BY <1>3, <1>5, <1>6 DEF StoreInv

\* A step that stores nothing and answers nothing about storing.
LEMMA CalmStored ==
    ASSUME PlaceInv, StoreInv, Disk', Len(files') = Len(files), flushed \subseteq flushed',
           FolderMoves,
           \A q \in Procs : at[q] \in {"sync", "ended"} => at'[q] \in {"sync", "ended"},
           \A q \in Procs : answer'[q] = answer[q] \/ answer'[q].status # "stored"
    PROVE  StoreInv'
<1>1. FilesAreFew'
  <2>1. Len(files) \in Nat
    BY DEF PlaceInv, Disk
  <2> QED
    BY <2>1, FewStays DEF StoreInv
<1>2. ASSUME NEW q \in Procs
      PROVE  Safe(q)'
  <2>1. CASE answer'[q] = answer[q]
    BY <2>1, SafeStays DEF PlaceInv, StoreInv
  <2>2. CASE answer'[q].status # "stored"
    BY <2>2 DEF Safe
  <2> QED
    BY <2>1, <2>2
<1> QED
  BY <1>1, <1>2 DEF StoreInv

\* An end that is not about storing.
LEMMA EndCalm ==
    ASSUME PlaceInv, NEW p \in Procs, NEW status, NEW what, End(p, status, what), status # "stored"
    PROVE  /\ \A q \in Procs : at[q] \in {"sync", "ended"} => at'[q] \in {"sync", "ended"}
           /\ \A q \in Procs : answer'[q] = answer[q] \/ answer'[q].status # "stored"
<1>1. /\ \A q \in Procs \ {p} : Same(q)
      /\ at'[p] = "ended"
      /\ answer'[p] = [command |-> command[p], status |-> status, what |-> what]
  BY EndSteps DEF PlaceInv
<1>2. answer'[p].status # "stored"
  BY <1>1
<1> QED
  BY <1>1, <1>2 DEF Same

\* Every step keeps what was stored.
LEMMA EveryStepStored ==
    ASSUME PlaceInv, StoreInv, [Next]_vars, PlaceInv'
    PROVE  StoreInv'
<1>0. Disk /\ Disk' /\ Locals
  BY DEF PlaceInv
<1>n. durable \in Nat /\ Len(files) \in Nat /\ path \in Nat /\ durable <= path
  <2>1. Len(files) \in Nat
    BY <1>0 DEF Disk
  <2> QED
    BY <1>0, <2>1 DEF Disk
<1>1. ASSUME UNCHANGED <<files, flushed, durable, at, answer, folder>>
      PROVE  StoreInv'
  BY <1>0, <1>1, <1>n, CalmStored DEF folder, FolderMoves
<1>2. ASSUME NEW p \in Procs, NEW status, NEW what, End(p, status, what), status # "stored",
             UNCHANGED <<files, flushed, durable, folder>>
      PROVE  StoreInv'
  <2>1. flushed \subseteq flushed' /\ Len(files') = Len(files) /\ FolderMoves
    BY <1>2, <1>n DEF folder, FolderMoves
  <2> QED
    BY <1>0, <1>2, <2>1, EndCalm, CalmStored
<1>3. CASE UNCHANGED vars
  BY <1>1, <1>3 DEF vars, disk
<1>4. ASSUME NEW p \in Procs, Call(p) \/ ProcessStep(p) \/ ToolStep(p) \/ Trouble(p)
      PROVE  StoreInv'
  <2>1. CASE Own(p)
    BY <2>1, OwnStored
  <2>2. CASE Post(p) \/ ReadCache(p)
    <3>1. UNCHANGED <<disk, tool>>
      BY <2>2 DEF Post, ReadCache
    <3>2. UNCHANGED <<at, local, answer>> \/ \E kind, heard : Return(p, kind, heard)
      BY <2>2 DEF Post, ReadCache
    <3>3. UNCHANGED <<at, local, answer>>
          \/ \E heard : \E status \in {"accepted", "invalid response", "model error"} :
                                    End(p, status, heard)
      BY <3>2 DEF Return
    <3> QED
      BY <1>1, <1>2, <3>1, <3>3 DEF disk
  <2>3. CASE ToolSucceeds(p) \/ ToolFails(p)
    BY <1>1, <2>3 DEF ToolSucceeds, ToolFails
  <2>4. CASE Kill(p)
    <3>1. End(p, "killed", <<>>) /\ UNCHANGED <<files, flushed, durable, folder>>
      BY <2>4 DEF Kill
    <3> QED
      BY <1>2, <3>1
  <2> QED
    BY <1>4, <2>1, <2>2, <2>3, <2>4 DEF Call, ProcessStep, ToolStep, Trouble, Own
<1>5. CASE Captures
  BY <1>1, <1>5 DEF Captures, Deliver, disk
<1>6. CASE Crash
  <2>1. /\ \/ path' \in {path, durable} /\ anchored' = TRUE /\ UNCHANGED directory
           \/ path' = 0 /\ directory' = 0 /\ ~ anchored
        /\ durable' = path' /\ flushed' = DOMAIN files
        /\ files' = [i \in DOMAIN files |-> IF i \in flushed THEN files[i] ELSE Torn]
        /\ at' = [p \in Procs |-> IF at[p] = "idle" THEN "idle" ELSE "ended"]
        /\ UNCHANGED answer
    BY <1>6 DEF Crash, PowerLoss
  <2>2. FolderMoves
    BY <1>n, <2>1 DEF FolderMoves
  <2>3. flushed \subseteq flushed'
    BY <1>0, <2>1 DEF Disk
  <2>4. Len(files') = Len(files)
    <3>1. DOMAIN files' = 1 .. Len(files)
      BY <1>0, <2>1 DEF Disk
    <3>2. DOMAIN files' = 1 .. Len(files') /\ Len(files') \in Nat
      BY <1>0 DEF Disk
    <3> QED
      BY <1>n, <3>1, <3>2
  <2> QED
    BY <1>0, <2>1, <2>2, <2>3, <2>4, CalmStored
<1> QED
  BY <1>3, <1>4, <1>5, <1>6 DEF Next

-----------------------------------------------------------------------------
(* What is heard of the model *)

\* What complete() makes of a reply, and what the reply is.
LEMMA Hearing ==
    ASSUME NEW reply \in Replies
    PROVE  /\ Heard(reply) \in Sounds
           /\ Kind(reply) \in {"retryable", "final", "valid", "invalid"}
           /\ Kind(reply) = "retryable" => Heard(reply) \in Silence
           /\ Kind(reply) = "invalid" => Heard(reply) = "bad"
           /\ Kind(reply) = "final" => Heard(reply) = "permanent"
           /\ (Kind(reply) = "valid") = (Heard(reply) = "good")
<1>1. /\ reply.status \in {"200", "429", "5xx", "other", "none"}
      /\ reply.large \in BOOLEAN /\ reply.finished \in BOOLEAN /\ reply.valid \in BOOLEAN
      /\ reply.arrives \in BOOLEAN
      /\ reply.status = "none" => ~ reply.arrives
  BY DEF Replies
<1>2. CASE ~ reply.arrives
  <2>1. Heard(reply) \in Silence /\ Retryable(reply)
    BY <1>2 DEF Heard, Retryable, Silence
  <2>2. Kind(reply) = "retryable"
    BY <2>1 DEF Kind
  <2> QED
    BY <2>1, <2>2 DEF Silence, Sounds
<1>3. CASE reply.arrives /\ (reply.large \/ reply.status = "other")
  <2>1. Heard(reply) = "permanent" /\ ~ Retryable(reply) /\ ~ Answered(reply)
    BY <1>3 DEF Heard, Retryable, Answered
  <2> QED
    BY <2>1 DEF Kind, Sounds
<1>4. CASE reply.arrives /\ ~ reply.large /\ reply.status \in {"429", "5xx"}
  <2>1. Heard(reply) = "transient" /\ Retryable(reply)
    BY <1>4 DEF Heard, Retryable
  <2> QED
    BY <2>1 DEF Kind, Sounds, Silence
<1>5. CASE reply.arrives /\ ~ reply.large /\ reply.status = "200"
  <2>1. ~ Retryable(reply) /\ Answered(reply)
    BY <1>5 DEF Retryable, Answered
  <2>2. CASE reply.finished /\ reply.valid
    <3>1. Heard(reply) = "good" /\ Validated(reply)
      BY <1>5, <2>1, <2>2 DEF Heard, Validated, Finished
    <3> QED
      BY <2>1, <3>1 DEF Kind, Sounds
  <2>3. CASE ~ (reply.finished /\ reply.valid)
    <3>1. Heard(reply) = "bad" /\ ~ Validated(reply)
      BY <1>5, <2>1, <2>3 DEF Heard, Validated, Finished
    <3> QED
      BY <2>1, <3>1 DEF Kind, Sounds
  <2> QED
    BY <2>2, <2>3
<1> QED
  BY <1>1, <1>2, <1>3, <1>4, <1>5

\* Nothing heard yet.
LEMMA NothingHeard ==
    /\ Unfinished(<<>>) /\ Bad(<<>>) = {} /\ Cardinality(Bad(<<>>)) = 0
    /\ Len(<<>>) = 0 /\ DOMAIN <<>> = {}
<1>1. DOMAIN <<>> = {} /\ Len(<<>>) = 0
  OBVIOUS
<1>2. Unfinished(<<>>) /\ Bad(<<>>) = {}
  BY <1>1 DEF Unfinished, Bad
<1> QED
  BY <1>1, <1>2, FS_EmptySet

\* One more reply.
LEMMA OneMore ==
    ASSUME NEW heard \in Seq(Sounds), NEW sound \in Sounds, NEW more, more = Append(heard, sound)
    PROVE  /\ more \in Seq(Sounds) /\ Len(more) = Len(heard) + 1 /\ Len(heard) \in Nat
           /\ DOMAIN heard = 1 .. Len(heard) /\ DOMAIN more = 1 .. Len(heard) + 1
           /\ \A i \in DOMAIN heard : more[i] = heard[i]
           /\ more[Len(heard) + 1] = sound
           /\ more # <<>> /\ Last(more) = sound
<1>1. /\ more \in Seq(Sounds) /\ Len(more) = Len(heard) + 1 /\ Len(heard) \in Nat
      /\ DOMAIN heard = 1 .. Len(heard) /\ DOMAIN more = 1 .. Len(heard) + 1
      /\ \A i \in DOMAIN heard : more[i] = heard[i]
      /\ more[Len(heard) + 1] = sound
  OBVIOUS
<1>2. more # <<>>
  BY <1>1
<1>3. Last(more) = sound
  BY <1>1 DEF Last
<1> QED
  BY <1>1, <1>2, <1>3

\* Bad replies are counted.
LEMMA BadMore ==
    ASSUME NEW heard \in Seq(Sounds), NEW sound \in Sounds, NEW more, more = Append(heard, sound)
    PROVE  /\ Cardinality(Bad(heard)) \in Nat
           /\ Cardinality(Bad(more)) = IF sound = "bad" THEN Cardinality(Bad(heard)) + 1
                                       ELSE Cardinality(Bad(heard))
<1>1. /\ Len(heard) \in Nat
      /\ DOMAIN heard = 1 .. Len(heard) /\ DOMAIN more = 1 .. Len(heard) + 1
      /\ \A i \in DOMAIN heard : more[i] = heard[i]
      /\ more[Len(heard) + 1] = sound
  BY OneMore
<1>2. IsFiniteSet(Bad(heard)) /\ Len(heard) + 1 \notin Bad(heard)
  <2>1. Bad(heard) \subseteq 1 .. Len(heard)
    BY <1>1 DEF Bad
  <2>2. IsFiniteSet(1 .. Len(heard))
    BY <1>1, FS_Interval
  <2>3. Len(heard) + 1 \notin 1 .. Len(heard)
    BY <1>1
  <2> QED
    BY <2>1, <2>2, <2>3, FS_Subset
<1>3. Bad(more) = IF sound = "bad" THEN Bad(heard) \cup {Len(heard) + 1} ELSE Bad(heard)
  <2>1. \A i : i \in DOMAIN more <=> i \in DOMAIN heard \/ i = Len(heard) + 1
    BY <1>1
  <2> QED
    BY <1>1, <2>1 DEF Bad
<1>4. Cardinality(Bad(heard) \cup {Len(heard) + 1}) = Cardinality(Bad(heard)) + 1
  BY <1>2, FS_AddElement
<1> QED
  BY <1>2, <1>3, <1>4, FS_CardinalityType

\* One more reply ends a run of three silences at most.
LEMMA WindowsEnd ==
    ASSUME NEW heard \in Seq(Sounds), NEW sound \in Sounds, NEW more, more = Append(heard, sound),
           Unfinished(heard), NEW i \in DOMAIN more,
           \A j \in i .. i + MaximumAttempts - 1 : j \in DOMAIN more /\ more[j] \in Silence
    PROVE  i + MaximumAttempts - 1 = Len(more)
<1>1. /\ Len(heard) \in Nat /\ Len(more) = Len(heard) + 1
      /\ DOMAIN heard = 1 .. Len(heard) /\ DOMAIN more = 1 .. Len(heard) + 1
      /\ \A j \in DOMAIN heard : more[j] = heard[j]
  BY OneMore
<1>2. i \in 1 .. Len(heard) + 1 /\ MaximumAttempts = 3
  BY <1>1 DEF MaximumAttempts
<1>3. i + 2 \in i .. i + MaximumAttempts - 1
  BY <1>2
<1>4. i + 2 \in 1 .. Len(heard) + 1
  BY <1>1, <1>3
<1>5. ASSUME i + 2 <= Len(heard)
      PROVE  FALSE
  <2>1. i \in DOMAIN heard
    BY <1>1, <1>2, <1>5
  <2>2. \A j \in i .. i + MaximumAttempts - 1 : j \in DOMAIN heard
    BY <1>1, <1>2, <1>5
  <2>3. \A j \in i .. i + MaximumAttempts - 1 : heard[j] \in Silence
    BY <1>1, <2>2
  <2> QED
    BY <2>1, <2>2, <2>3 DEF Unfinished
<1> QED
  BY <1>1, <1>2, <1>4, <1>5

\* A silence that is followed by another request.
LEMMA TryAgain ==
    ASSUME NEW heard \in Seq(Sounds), NEW sound \in Silence, NEW more, more = Append(heard, sound),
           NEW n \in Nat,
           Unfinished(heard), Trying(heard, n), n + 1 < MaximumAttempts
    PROVE  Unfinished(more) /\ Trying(more, n + 1)
<1>0. sound \in Sounds /\ "bad" \notin Silence
  BY DEF Sounds, Silence
<1>1. /\ Len(heard) \in Nat /\ Len(more) = Len(heard) + 1
      /\ DOMAIN heard = 1 .. Len(heard) /\ DOMAIN more = 1 .. Len(heard) + 1
      /\ \A i \in DOMAIN heard : more[i] = heard[i]
      /\ more[Len(heard) + 1] = sound
  BY <1>0, OneMore
<1>2. \A i \in DOMAIN more : more[i] \in Silence \cup {"bad"}
  <2>1. \A i \in DOMAIN heard : heard[i] \in Silence \cup {"bad"}
    BY DEF Unfinished
  <2>2. \A i \in DOMAIN more : i \in DOMAIN heard \/ i = Len(heard) + 1
    BY <1>1
  <2> QED
    BY <1>1, <2>1, <2>2
<1>m. MaximumAttempts = 3 /\ n \in {0, 1}
  BY DEF MaximumAttempts
<1>3. ASSUME NEW i \in DOMAIN more,
             \A j \in i .. i + MaximumAttempts - 1 : j \in DOMAIN more /\ more[j] \in Silence
      PROVE  FALSE
  <2>1. i + MaximumAttempts - 1 = Len(more)
    BY <1>0, <1>3, WindowsEnd
  <2>2. i = Len(heard) - 1 /\ i \in Nat \ {0}
    BY <1>1, <1>m, <2>1
  <2>3. n < Len(heard) /\ Len(heard) - n \in i .. i + MaximumAttempts - 1 /\ Len(heard) - n \in 1 .. Len(heard)
    BY <1>1, <1>m, <2>2
  <2>4. heard[Len(heard) - n] = "bad"
    BY <2>3 DEF Trying
  <2>5. more[Len(heard) - n] = "bad"
    BY <1>1, <2>3, <2>4
  <2> QED
    BY <1>0, <1>3, <2>3, <2>5
<1>4. Unfinished(more)
  BY <1>2, <1>3 DEF Unfinished
<1>5. Trying(more, n + 1)
  <2>1. n <= Len(heard) /\ (n < Len(heard) => heard[Len(heard) - n] = "bad")
    BY DEF Trying
  <2>2. n + 1 <= Len(more) /\ Len(more) - (n + 1) = Len(heard) - n
    BY <1>1, <2>1
  <2>3. n + 1 < Len(more) => n < Len(heard) /\ Len(heard) - n \in DOMAIN heard
    BY <1>1, <2>1
  <2> QED
    BY <1>1, <2>1, <2>2, <2>3 DEF Trying
<1> QED
  BY <1>4, <1>5

\* A bad answer.
LEMMA Repairing ==
    ASSUME NEW heard \in Seq(Sounds), NEW more, more = Append(heard, "bad"), Unfinished(heard)
    PROVE  Unfinished(more) /\ Trying(more, 0)
<1>0. "bad" \in Sounds /\ "bad" \notin Silence
  BY DEF Sounds, Silence
<1>1. /\ Len(heard) \in Nat /\ Len(more) = Len(heard) + 1
      /\ DOMAIN heard = 1 .. Len(heard) /\ DOMAIN more = 1 .. Len(heard) + 1
      /\ \A i \in DOMAIN heard : more[i] = heard[i]
      /\ more[Len(heard) + 1] = "bad"
  BY <1>0, OneMore
<1>2. \A i \in DOMAIN more : more[i] \in Silence \cup {"bad"}
  <2>1. \A i \in DOMAIN heard : heard[i] \in Silence \cup {"bad"}
    BY DEF Unfinished
  <2>2. \A i \in DOMAIN more : i \in DOMAIN heard \/ i = Len(heard) + 1
    BY <1>1
  <2> QED
    BY <1>1, <2>1, <2>2
<1>3. ASSUME NEW i \in DOMAIN more,
             \A j \in i .. i + MaximumAttempts - 1 : j \in DOMAIN more /\ more[j] \in Silence
      PROVE  FALSE
  <2>1. i + MaximumAttempts - 1 = Len(more) /\ MaximumAttempts = 3 /\ i \in Nat
    BY <1>0, <1>1, <1>3, WindowsEnd DEF MaximumAttempts
  <2>2. Len(more) \in i .. i + MaximumAttempts - 1
    BY <2>1
  <2> QED
    BY <1>0, <1>1, <1>3, <2>2
<1>4. Len(more) - 0 = Len(heard) + 1 /\ 0 <= Len(more)
  BY <1>1
<1> QED
  BY <1>1, <1>2, <1>3, <1>4 DEF Unfinished, Trying

\* The last reply.
LEMMA Finishing ==
    ASSUME NEW heard \in Seq(Sounds), NEW sound \in Sounds, NEW more, more = Append(heard, sound),
           Unfinished(heard), Cardinality(Bad(heard)) <= MaximumRepairs,
           Len(heard) < MaximumAttempts * (1 + MaximumRepairs)
    PROVE  Finite(more)
<1>1. /\ Len(heard) \in Nat /\ Len(more) = Len(heard) + 1
      /\ DOMAIN heard = 1 .. Len(heard) /\ DOMAIN more = 1 .. Len(heard) + 1
      /\ \A i \in DOMAIN heard : more[i] = heard[i]
  BY OneMore
<1>2. \A i \in DOMAIN more : more[i] \in {"good", "permanent"} => i = Len(more)
  <2>1. \A i \in DOMAIN heard : heard[i] \in Silence \cup {"bad"}
    BY DEF Unfinished
  <2>2. \A i \in DOMAIN more : i \in DOMAIN heard \/ i = Len(more)
    BY <1>1
  <2> QED
    BY <1>1, <2>1, <2>2 DEF Silence
<1>3. Cardinality(Bad(more)) <= 1 + MaximumRepairs
  <2>1. Cardinality(Bad(heard)) \in Nat /\ MaximumRepairs = 1
        /\ (Cardinality(Bad(more)) = Cardinality(Bad(heard)) + 1
            \/ Cardinality(Bad(more)) = Cardinality(Bad(heard)))
    BY BadMore DEF MaximumRepairs
  <2> QED
    BY <2>1
<1>4. Len(more) <= MaximumAttempts * (1 + MaximumRepairs)
  BY <1>1 DEF MaximumAttempts, MaximumRepairs
<1> QED
  BY <1>2, <1>3, <1>4, WindowsEnd DEF Finite

-----------------------------------------------------------------------------
(* What is paid for *)

\* Nothing is heard and nothing tried.
LEMMA QuietPaid ==
    ASSUME NEW q \in Procs, replies'[q] = <<>>, tries'[q] = 0, repair'[q] \in 0 .. MaximumRepairs
    PROVE  Paid(q)'
<1> PICK heard : heard = replies'[q]
  OBVIOUS
<1>1. Unfinished(heard) /\ Cardinality(Bad(heard)) <= repair'[q] /\ Trying(heard, 0)
  <2>1. repair'[q] \in Nat
    BY DEF MaximumRepairs
  <2>2. Cardinality(Bad(<<>>)) <= repair'[q]
    BY <2>1, NothingHeard
  <2>3. Trying(<<>>, 0)
    BY NothingHeard DEF Trying
  <2> QED
    BY <2>2, <2>3, NothingHeard
<1>2. Len(replies'[q]) <= MaximumAttempts * repair'[q] + tries'[q]
  BY DEF MaximumAttempts, MaximumRepairs
<1> QED
  BY <1>1, <1>2 DEF Paid

\* A process about which nothing of this changes.
LEMMA PaidStays ==
    ASSUME NEW q \in Procs, Paid(q), replies'[q] = replies[q], tries'[q] = tries[q],
           repair'[q] = repair[q], at[q] = "request" => at'[q] = "request"
    PROVE  Paid(q)'
  BY DEF Paid

\* An answer that stands.
LEMMA SettledStays ==
    ASSUME NEW q \in Procs, Settled(q), answer'[q] = answer[q], at[q] = "ended" => at'[q] = "ended"
    PROVE  Settled(q)'
  BY DEF Settled

\* A process that has ended with no verdict of the model.
LEMMA EndSettled ==
    ASSUME PlaceInv, PaidInv, NEW p \in Procs, NEW status, NEW what, End(p, status, what),
           command[p].op = "triage" => status \notin Verdicts
    PROVE  Settled(p)'
<1>1. at'[p] = "ended" /\ answer'[p] = [command |-> command[p], status |-> status, what |-> what]
  BY EndSteps DEF PlaceInv
<1>2. answer'[p].command = command[p] /\ answer'[p].status = status
  BY <1>1
<1> QED
  BY <1>1, <1>2 DEF Settled, Verdicts

\* The other processes are not disturbed.
LEMMA OthersPaid ==
    ASSUME PaidInv, NEW p \in Procs, \A q \in Procs \ {p} : Same(q),
           \A q \in Procs \ {p} : replies'[q] = replies[q] /\ tries'[q] = tries[q] /\ repair'[q] = repair[q]
    PROVE  \A q \in Procs \ {p} : Paid(q)' /\ Settled(q)'
<1>1. ASSUME NEW q \in Procs \ {p}
      PROVE  Paid(q)' /\ Settled(q)'
  <2>1. Paid(q) /\ Settled(q) /\ at'[q] = at[q] /\ answer'[q] = answer[q]
    BY DEF PaidInv, Same
  <2> QED
    BY <2>1, PaidStays, SettledStays
<1> QED
  BY <1>1

\* A step without a request costs nothing.
LEMMA OwnPaid ==
    ASSUME PlaceInv, PaidInv, NEW p \in Procs, Own(p), UNCHANGED call
    PROVE  PaidInv'
<1>1. Steps(p) /\ Turn(p)
  BY OwnSteps
<1>2. Calls' /\ UNCHANGED <<replies, tries, repair>>
  BY DEF call, Calls, PaidInv
<1>3. \A q \in Procs \ {p} : Paid(q)' /\ Settled(q)'
  BY <1>1, <1>2, OthersPaid DEF Steps
<1>4. at[p] \notin {"request", "ended"} /\ answer[p] = NoCommand /\ Place(p)
  BY <1>1 DEF Turn, PaidInv, Settled, PlaceInv
<1>5. Paid(p)'
  BY <1>2, <1>4, PaidStays DEF PaidInv
<1>6. Settled(p)'
  <2>1. CASE at'[p] # "ended" /\ answer'[p] = answer[p]
    BY <1>4, <2>1 DEF Settled
  <2>2. ASSUME NEW status \in {"key", "error", "shown", "traceback"}, NEW what, End(p, status, what)
        PROVE  Settled(p)'
    BY <2>2, EndSettled DEF Verdicts
  <2>3. CASE Inserts(p) /\ End(p, "stored", <<0>>)
    BY <2>3, EndSettled DEF Verdicts
  <2>4. CASE SyncDirectory(p)
    <3>1. End(p, "stored", <<held[p], anchored>>)
      BY <2>4 DEF SyncDirectory
    <3> QED
      BY <3>1, EndSettled DEF Verdicts
  <2> QED
    BY <1>1, <2>1, <2>2, <2>3, <2>4 DEF Turn
<1> QED
  BY <1>2, <1>3, <1>5, <1>6 DEF PaidInv

\* Nothing is heard and nobody ends.
LEMMA CalmPaid ==
    ASSUME PaidInv, UNCHANGED call, UNCHANGED <<at, answer>>
    PROVE  PaidInv'
<1>1. Calls' /\ UNCHANGED <<replies, tries, repair>>
  BY DEF call, Calls, PaidInv
<1>2. ASSUME NEW q \in Procs
      PROVE  Paid(q)' /\ Settled(q)'
  BY <1>1, PaidStays, SettledStays DEF PaidInv
<1> QED
  BY <1>1, <1>2 DEF PaidInv

\* A command ends, and what it has heard is forgotten.
LEMMA ForgetPaid ==
    ASSUME PlaceInv, PaidInv, NEW p \in Procs, NEW status, NEW what, End(p, status, what),
           replies' = [replies EXCEPT ![p] = <<>>], tries' = [tries EXCEPT ![p] = 0],
           repair' = [repair EXCEPT ![p] = 0], Settled(p)'
    PROVE  PaidInv'
<1>1. \A q \in Procs \ {p} : Same(q)
  BY EndSteps DEF PlaceInv
<1>2. 0 \in 0 .. MaximumAttempts - 1 /\ 0 \in 0 .. MaximumRepairs /\ <<>> \in Seq(Sounds)
  BY DEF MaximumAttempts, MaximumRepairs
<1>3. Calls'
  BY <1>2 DEF PaidInv, Calls
<1>4. /\ replies'[p] = <<>> /\ tries'[p] = 0 /\ repair'[p] = 0
      /\ \A q \in Procs \ {p} : replies'[q] = replies[q] /\ tries'[q] = tries[q] /\ repair'[q] = repair[q]
  BY DEF PaidInv, Calls
<1>5. Paid(p)'
  BY <1>2, <1>4, QuietPaid
<1>6. \A q \in Procs \ {p} : Paid(q)' /\ Settled(q)'
  BY <1>1, <1>4, OthersPaid
<1> QED
  BY <1>3, <1>5, <1>6 DEF PaidInv

\* The model is asked again.
LEMMA AskPaid ==
    ASSUME PlaceInv, PaidInv, NEW p \in Procs, at[p] = "request", UNCHANGED <<at, local, answer>>,
           NEW heard \in Seq(Sounds), NEW n \in 0 .. MaximumAttempts - 1, NEW r \in 0 .. MaximumRepairs,
           replies' = [replies EXCEPT ![p] = heard], tries' = [tries EXCEPT ![p] = n],
           repair' = [repair EXCEPT ![p] = r],
           Unfinished(heard), Trying(heard, n), Cardinality(Bad(heard)) <= r,
           Len(heard) <= MaximumAttempts * r + n
    PROVE  PaidInv'
<1>1. \A q \in Procs : Same(q)
  BY DEF Same, local
<1>3. Calls'
  BY DEF PaidInv, Calls
<1>4. /\ replies'[p] = heard /\ tries'[p] = n /\ repair'[p] = r
      /\ \A q \in Procs \ {p} : replies'[q] = replies[q] /\ tries'[q] = tries[q] /\ repair'[q] = repair[q]
  BY DEF PaidInv, Calls
<1>5. Paid(p)'
  <2>1. at'[p] = "request"
    BY DEF Same
  <2> QED
    BY <1>4, <2>1 DEF Paid
<1>6. Settled(p)'
  BY SettledStays DEF PaidInv
<1>7. \A q \in Procs \ {p} : Paid(q)' /\ Settled(q)'
  BY <1>1, <1>4, OthersPaid
<1> QED
  BY <1>3, <1>5, <1>6, <1>7 DEF PaidInv

\* A request: one more reply, after which it is repeated, repaired or over.
LEMMA PostPaid ==
    ASSUME PlaceInv, PaidInv, NEW p \in Procs, Post(p)
    PROVE  PaidInv'
<1> PICK reply \in Replies :
      IF Kind(reply) = "retryable" /\ tries[p] + 1 < MaximumAttempts
      THEN /\ replies' = [replies EXCEPT ![p] = Append(@, Heard(reply))]
           /\ tries' = [tries EXCEPT ![p] = @ + 1]
           /\ UNCHANGED <<repair, at, local, answer>>
      ELSE Return(p, Kind(reply), Append(replies[p], Heard(reply)))
  BY DEF Post
<1>1. at[p] = "request" /\ command[p].op = "triage"
  BY DEF Post, PlaceInv, Place
<1> PICK heard : heard = replies[p]
  OBVIOUS
<1> PICK sound : sound = Heard(reply)
  OBVIOUS
<1> PICK more : more = Append(heard, sound)
  OBVIOUS
<1>2. /\ heard \in Seq(Sounds) /\ tries[p] \in 0 .. MaximumAttempts - 1 /\ repair[p] \in 0 .. MaximumRepairs
      /\ Unfinished(heard) /\ Cardinality(Bad(heard)) <= repair[p] /\ Trying(heard, tries[p])
      /\ Len(heard) <= MaximumAttempts * repair[p] + tries[p] /\ Len(heard) \in Nat
  BY DEF PaidInv, Calls, Paid
<1>3. /\ sound \in Sounds /\ Kind(reply) \in {"retryable", "final", "valid", "invalid"}
      /\ Kind(reply) = "retryable" => sound \in Silence
      /\ Kind(reply) = "invalid" => sound = "bad"
      /\ Kind(reply) = "final" => sound = "permanent"
      /\ (Kind(reply) = "valid") = (sound = "good")
  BY Hearing
<1>4. more \in Seq(Sounds) /\ more # <<>> /\ Last(more) = sound /\ Len(more) = Len(heard) + 1
  BY <1>2, <1>3, OneMore
<1>5. /\ Cardinality(Bad(heard)) \in Nat
      /\ Cardinality(Bad(more)) = IF sound = "bad" THEN Cardinality(Bad(heard)) + 1
                                  ELSE Cardinality(Bad(heard))
  BY <1>2, <1>3, BadMore
<1>6. CASE Kind(reply) = "retryable" /\ tries[p] + 1 < MaximumAttempts
  <2>1. sound \in Silence /\ sound # "bad"
    BY <1>3, <1>6 DEF Silence
  <2>2. Unfinished(more) /\ Trying(more, tries[p] + 1)
    <3>1. tries[p] \in Nat
      BY <1>2 DEF MaximumAttempts
    <3> QED
      BY <1>2, <1>6, <2>1, <3>1, TryAgain
  <2>3. Cardinality(Bad(more)) <= repair[p]
    BY <1>2, <1>5, <2>1
  <2>4. tries[p] + 1 \in 0 .. MaximumAttempts - 1
    BY <1>2, <1>6 DEF MaximumAttempts
  <2>5. /\ replies' = [replies EXCEPT ![p] = more] /\ tries' = [tries EXCEPT ![p] = tries[p] + 1]
        /\ repair' = [repair EXCEPT ![p] = repair[p]] /\ UNCHANGED <<at, local, answer>>
    BY <1>6 DEF PaidInv, Calls
  <2>6. Len(more) <= MaximumAttempts * repair[p] + (tries[p] + 1)
    BY <1>2, <1>4 DEF MaximumAttempts, MaximumRepairs
  <2> QED
    BY <1>1, <1>2, <1>4, <2>2, <2>3, <2>4, <2>5, <2>6, AskPaid
<1>7. CASE /\ ~ (Kind(reply) = "retryable" /\ tries[p] + 1 < MaximumAttempts)
           /\ Kind(reply) = "invalid" /\ repair[p] < MaximumRepairs
  <2>1. /\ replies' = [replies EXCEPT ![p] = more] /\ tries' = [tries EXCEPT ![p] = 0]
        /\ repair' = [repair EXCEPT ![p] = repair[p] + 1] /\ UNCHANGED <<at, local, answer>>
    BY <1>7 DEF Return
  <2>2. sound = "bad"
    BY <1>3, <1>7
  <2>3. Unfinished(more) /\ Trying(more, 0)
    BY <1>2, <2>2, Repairing
  <2>4. Cardinality(Bad(more)) = Cardinality(Bad(heard)) + 1
    BY <1>5, <2>2
  <2>5. repair[p] \in Nat /\ repair[p] + 1 \in 0 .. MaximumRepairs /\ 0 \in 0 .. MaximumAttempts - 1
    BY <1>2, <1>7 DEF MaximumRepairs, MaximumAttempts
  <2>6. Cardinality(Bad(more)) <= repair[p] + 1
    BY <1>2, <1>5, <2>4, <2>5
  <2>7. Len(more) <= MaximumAttempts * (repair[p] + 1) + 0
    BY <1>2, <1>4 DEF MaximumAttempts, MaximumRepairs
  <2> QED
    BY <1>1, <1>4, <2>1, <2>3, <2>5, <2>6, <2>7, AskPaid
<1>8. CASE /\ ~ (Kind(reply) = "retryable" /\ tries[p] + 1 < MaximumAttempts)
           /\ ~ (Kind(reply) = "invalid" /\ repair[p] < MaximumRepairs)
  <2> DEFINE status == CASE Kind(reply) = "valid" -> "accepted"
                         [] Kind(reply) = "invalid" -> "invalid response"
                         [] OTHER -> "model error"
  <2>1. /\ End(p, status, more)
        /\ replies' = [replies EXCEPT ![p] = <<>>]
        /\ tries' = [tries EXCEPT ![p] = 0] /\ repair' = [repair EXCEPT ![p] = 0]
    BY <1>8 DEF Return
  <2>2. status \in Verdicts /\ (status = "accepted") = (Kind(reply) = "valid")
    BY <1>3 DEF Verdicts
  <2> HIDE DEF status
  <2>3. Finite(more)
    <3>1. Cardinality(Bad(heard)) <= MaximumRepairs
      BY <1>2, <1>5 DEF MaximumRepairs
    <3>2. Len(heard) < MaximumAttempts * (1 + MaximumRepairs)
      BY <1>2 DEF MaximumAttempts, MaximumRepairs
    <3> QED
      BY <1>2, <1>3, <3>1, <3>2, Finishing
  <2>4. at'[p] = "ended" /\ answer'[p] = [command |-> command[p], status |-> status, what |-> more]
    BY <2>1, EndSteps DEF PlaceInv
  <2>5. answer'[p].status = status /\ answer'[p].what = more /\ answer'[p].command.op = "triage"
    BY <1>1, <2>4
  <2>6. (status = "accepted") = (more # <<>> /\ Last(more) = "good")
    BY <1>3, <1>4, <2>2
  <2>7. Settled(p)'
    <3>1. Finite(answer'[p].what)
      BY <2>3, <2>5
    <3>2. (answer'[p].status = "accepted") = (answer'[p].what # <<>> /\ Last(answer'[p].what) = "good")
      BY <2>5, <2>6
    <3>3. answer'[p].status \in Verdicts
      BY <2>2, <2>5
    <3> QED
      BY <2>4, <3>1, <3>2, <3>3 DEF Settled
  <2> QED
    BY <2>1, <2>7, ForgetPaid
<1> QED
  BY <1>6, <1>7, <1>8

\* The cache is free.
LEMMA CachePaid ==
    ASSUME PlaceInv, PaidInv, NEW p \in Procs, ReadCache(p)
    PROVE  PaidInv'
<1> PICK kind \in {"final", "invalid", "valid"} : Return(p, kind, <<>>)
  BY DEF ReadCache
<1>1. at[p] = "read cache" /\ command[p].op = "replay"
  BY DEF ReadCache, PlaceInv, Place
<1>2. CASE kind = "invalid" /\ repair[p] < MaximumRepairs
  <2>1. /\ replies' = [replies EXCEPT ![p] = <<>>] /\ tries' = [tries EXCEPT ![p] = 0]
        /\ repair' = [repair EXCEPT ![p] = repair[p] + 1] /\ UNCHANGED <<at, local, answer>>
    BY <1>2 DEF Return
  <2>2. /\ 0 \in 0 .. MaximumAttempts - 1 /\ repair[p] + 1 \in 0 .. MaximumRepairs /\ <<>> \in Seq(Sounds)
    BY <1>2 DEF MaximumAttempts, MaximumRepairs, PaidInv, Calls
  <2>3. Calls'
    BY <2>1, <2>2 DEF PaidInv, Calls
  <2>4. /\ replies'[p] = <<>> /\ tries'[p] = 0 /\ repair'[p] = repair[p] + 1
        /\ \A q \in Procs \ {p} : replies'[q] = replies[q] /\ tries'[q] = tries[q] /\ repair'[q] = repair[q]
    BY <2>1 DEF PaidInv, Calls
  <2>5. Paid(p)'
    BY <2>2, <2>4, QuietPaid
  <2>6. Settled(p)'
    BY <2>1, SettledStays DEF PaidInv
  <2>7. \A q \in Procs : Same(q)
    BY <2>1 DEF Same, local
  <2>8. \A q \in Procs \ {p} : Paid(q)' /\ Settled(q)'
    BY <2>4, <2>7, OthersPaid
  <2> QED
    BY <2>3, <2>5, <2>6, <2>8 DEF PaidInv
<1>3. CASE ~ (kind = "invalid" /\ repair[p] < MaximumRepairs)
  <2> DEFINE status == CASE kind = "valid" -> "accepted"
                         [] kind = "invalid" -> "invalid response"
                         [] OTHER -> "model error"
  <2>1. /\ End(p, status, <<>>)
        /\ replies' = [replies EXCEPT ![p] = <<>>]
        /\ tries' = [tries EXCEPT ![p] = 0] /\ repair' = [repair EXCEPT ![p] = 0]
    BY <1>3 DEF Return
  <2> HIDE DEF status
  <2>2. Settled(p)'
    BY <1>1, <2>1, EndSettled
  <2> QED
    BY <2>1, <2>2, ForgetPaid
<1> QED
  BY <1>2, <1>3

\* A loss of power costs nothing.
LEMMA LossPaid ==
    ASSUME PlaceInv, PaidInv, Crash
    PROVE  PaidInv'
<1>1. /\ at' = [p \in Procs |-> IF at[p] = "idle" THEN "idle" ELSE "ended"]
      /\ UNCHANGED answer
      /\ replies' = [p \in Procs |-> <<>>]
      /\ tries' = [p \in Procs |-> 0] /\ repair' = [p \in Procs |-> 0]
  BY DEF Crash, PowerLoss
<1>2. 0 \in 0 .. MaximumAttempts - 1 /\ 0 \in 0 .. MaximumRepairs /\ <<>> \in Seq(Sounds)
  BY DEF MaximumAttempts, MaximumRepairs
<1>3. Calls'
  BY <1>1, <1>2 DEF Calls
<1>4. ASSUME NEW q \in Procs
      PROVE  Paid(q)' /\ Settled(q)'
  <2>1. Paid(q)'
    BY <1>1, <1>2, QuietPaid
  <2>2. Settled(q)'
    BY <1>1, SettledStays DEF PaidInv
  <2> QED
    BY <2>1, <2>2
<1> QED
  BY <1>3, <1>4 DEF PaidInv

\* Every step keeps what was paid for.
LEMMA EveryStepPaid ==
    ASSUME PlaceInv, PaidInv, [Next]_vars
    PROVE  PaidInv'
<1>1. CASE UNCHANGED vars
  BY <1>1, CalmPaid DEF vars
<1>2. ASSUME NEW p \in Procs, Call(p) \/ ProcessStep(p) \/ ToolStep(p) \/ Trouble(p)
      PROVE  PaidInv'
  <2>1. CASE Own(p) /\ UNCHANGED call
    BY <2>1, OwnPaid
  <2>2. CASE Post(p)
    BY <2>2, PostPaid
  <2>3. CASE ReadCache(p)
    BY <2>3, CachePaid
  <2>4. CASE (ToolSucceeds(p) \/ ToolFails(p)) /\ UNCHANGED call
    BY <2>4, CalmPaid DEF ToolSucceeds, ToolFails
  <2>5. CASE /\ Kill(p) /\ replies' = [replies EXCEPT ![p] = <<>>]
             /\ tries' = [tries EXCEPT ![p] = 0] /\ repair' = [repair EXCEPT ![p] = 0]
    <3>1. End(p, "killed", <<>>)
      BY <2>5 DEF Kill
    <3>2. Settled(p)'
      BY <3>1, EndSettled DEF Verdicts
    <3> QED
      BY <2>5, <3>1, <3>2, ForgetPaid
  <2> QED
    BY <1>2, <2>1, <2>2, <2>3, <2>4, <2>5 DEF Call, ProcessStep, ToolStep, Trouble, Own
<1>3. CASE Captures
  BY <1>3, CalmPaid DEF Captures, Deliver
<1>4. CASE Crash
  BY <1>4, LossPaid
<1> QED
  BY <1>1, <1>2, <1>3, <1>4 DEF Next

-----------------------------------------------------------------------------
(* The invariant *)

\* At the start there is one file at most, and no report.
LEMMA StartStored ==
    ASSUME Start
    PROVE  StoreInv
<1>1. /\ \E s \in Sources : files = IF s.file = None THEN <<>> ELSE <<s.file>>
      /\ answer = [p \in Procs |-> NoCommand]
  BY DEF Start, Init
<1>2. Len(files) \in {0, 1}
  BY <1>1
<1>3. FilesAreFew
  <2>1. IsFiniteSet(Stored)
    BY CredentialsAssumption, FS_Subset DEF Stored
  <2>2. Cardinality(Stored) \in Nat
    BY <2>1, FS_CardinalityType
  <2>3. Len(files) \in Nat /\ Len(files) <= 1
    BY <1>2
  <2>4. \A l \in Nat, n \in Nat : l <= 1 => l <= 1 + n
    OBVIOUS
  <2>5. Len(files) <= 1 + Cardinality(Stored)
    BY <2>2, <2>3, <2>4
  <2> QED
    BY <2>5 DEF FilesAreFew
<1>4. \A p \in Procs : Safe(p)
  BY <1>1 DEF Safe
<1> QED
  BY <1>3, <1>4 DEF StoreInv

\* At the start nothing was asked.
LEMMA StartPaid ==
    ASSUME Start
    PROVE  PaidInv
<1>1. /\ replies = [p \in Procs |-> <<>>] /\ tries = [p \in Procs |-> 0] /\ repair = [p \in Procs |-> 0]
      /\ answer = [p \in Procs |-> NoCommand]
  BY DEF Start, Init
<1>2. 0 \in 0 .. MaximumAttempts - 1 /\ 0 \in 0 .. MaximumRepairs /\ <<>> \in Seq(Sounds)
  BY DEF MaximumAttempts, MaximumRepairs
<1>3. Calls
  BY <1>1, <1>2 DEF Calls
<1>4. ASSUME NEW p \in Procs
      PROVE  Paid(p) /\ Settled(p)
  <2>1. replies[p] = <<>> /\ tries[p] = 0 /\ repair[p] = 0 /\ answer[p] = NoCommand
    BY <1>1
  <2>2. Trying(<<>>, 0)
    BY NothingHeard DEF Trying
  <2>3. Cardinality(Bad(<<>>)) <= 0
    BY NothingHeard
  <2>4. Len(<<>>) <= MaximumAttempts * 0 + 0
    BY DEF MaximumAttempts
  <2> QED
    BY <2>1, <2>2, <2>3, <2>4, NothingHeard DEF Paid, Settled
<1> QED
  BY <1>3, <1>4 DEF PaidInv

\* The three parts together hold throughout.
LEMMA AccessInvariant == Spec => []AccessInv
<1>1. Start => AccessInv
  BY StartPlaced, StartStored, StartPaid DEF AccessInv
<1>2. AccessInv /\ [Next]_vars => AccessInv'
  BY EveryStepPlaced, EveryStepStored, EveryStepPaid DEF AccessInv
<1> QED
  BY <1>1, <1>2, PTL DEF Spec

\* _BoundedPipeCapture: the buffer holds the beginning of what was read and no
\* more than it may, and somebody reads as long as the tool can write.
THEOREM CaptureSound == Spec => []CaptureIsSound
<1>1. AccessInv => CaptureIsSound
  <2> SUFFICES ASSUME AccessInv
               PROVE  CaptureIsSound
    OBVIOUS
  <2>1. Disk /\ Locals /\ Pipe /\ Calls /\ FilesAreFew /\ \A p \in Procs : Place(p)
    BY DEF AccessInv, PlaceInv, StoreInv, PaidInv
  <2>2. Len(files) <= 1 + Cardinality(Procs) /\ Len(files) \in Nat
    <3>1. IsFiniteSet(Procs) /\ Stored \subseteq Procs
      BY CredentialsAssumption DEF Stored
    <3>2. /\ Cardinality(Stored) <= Cardinality(Procs)
          /\ Cardinality(Stored) \in Nat /\ Cardinality(Procs) \in Nat
      BY <3>1, FS_Subset, FS_CardinalityType
    <3>3. Len(files) <= 1 + Cardinality(Stored) /\ Len(files) \in Nat
      BY <2>1 DEF FilesAreFew, Disk
    <3> QED
      BY <3>2, <3>3
  <2>3. ToSet(files) \subseteq Contents
    BY <2>1 DEF Disk, ToSet
  <2>4. ASSUME NEW p \in Procs
        PROVE  /\ at[p] \in Spots
               /\ (at[p] = "ended") = (command[p] = NoCommand)
               /\ (at[p] = "wait") = (owner = p)
               /\ next[p] \in DOMAIN Providers /\ round[p] \in 1 .. 3
               /\ held[p] \in 0 .. Len(files)
               /\ secret[p] \in Secrets /\ selected[p] \in ProviderIds \cup {None}
               /\ tries[p] < MaximumAttempts /\ repair[p] <= MaximumRepairs
    <3>1. /\ at[p] \in Spots /\ next[p] \in DOMAIN Providers /\ round[p] \in 1 .. 3
          /\ secret[p] \in Secrets /\ selected[p] \in ProviderIds \cup {None}
      BY <2>1 DEF Locals
    <3>2. (at[p] = "ended") = (command[p] = NoCommand) /\ (at[p] = "wait") = (owner = p)
      BY <2>1 DEF Place
    <3>3. held[p] \in Nat /\ held[p] <= Len(files)
      BY <2>1 DEF Locals, Place
    <3>4. tries[p] < MaximumAttempts /\ repair[p] <= MaximumRepairs
      BY <2>1 DEF Calls, MaximumAttempts, MaximumRepairs
    <3>5. held[p] \in 0 .. Len(files)
      BY <2>2, <3>3
    <3> QED
      BY <3>1, <3>2, <3>4, <3>5
  <2>5. TypeOK
    <3>1. path # 0 => directory \in 1 .. path
      <4>1. directory \in Nat /\ path \in Nat
        BY <2>1, <2>2 DEF Disk, Folder
      <4> QED
        BY <2>1, <4>1 DEF Disk, Folder
    <3>2. /\ directory \in 0 .. Len(files) + 1 /\ private \in BOOLEAN /\ anchored \in BOOLEAN
          /\ anchored => directory # 0
      BY <2>1 DEF Disk, Folder
    <3> QED
      BY <2>1, <2>2, <2>3, <2>4, <3>1, <3>2 DEF TypeOK, Disk, Pipe, Spots, Secrets
  <2> QED
    BY <2>1, <2>5 DEF CaptureIsSound, Pipe
<1> QED
  BY <1>1, AccessInvariant, PTL

\* store_deepseek_credential: what was reported to be stored outlives a loss
\* of power, and nothing older comes back to the path, for as long as its
\* directory is there; the directory is lost only if the store had made it.
THEOREM StoredSurvive == Spec => []StoredCredentialsSurvive
<1>1. AccessInv => StoredCredentialsSurvive
  BY DEF AccessInv, StoreInv, Safe, Kept, StoredCredentialsSurvive
<1> QED
  BY <1>1, AccessInvariant, PTL

\* DeepSeekLLM.complete and _complete_role: whatever the provider does of a
\* request and whatever of it arrives, an answer that arrives is not asked for
\* again but for one repair, a silence is followed by two more requests at most
\* (be the answer lost, and paid for), and a role costs six answers at most.
THEOREM AskedAgainAfterSilence == Spec => []OnlySilenceIsAskedAgain
<1>1. ASSUME AccessInv, NEW p \in Procs
      PROVE  LET ended == answer[p] # NoCommand /\ answer[p].command.op = "triage"
                 heard == IF ended /\ answer[p].status \in
                               {"accepted", "invalid response", "model error"}
                          THEN answer[p].what ELSE replies[p]
                 bad == {i \in DOMAIN heard : heard[i] = "bad"}
             IN /\ \A i \in DOMAIN heard :
                     heard[i] \in {"good", "permanent"} => ended /\ i = Len(heard)
                /\ Cardinality(bad) <= 1 + MaximumRepairs
                /\ Len(heard) <= MaximumAttempts * (1 + MaximumRepairs)
                /\ \A i \in DOMAIN heard :
                     (\A j \in i .. i + MaximumAttempts - 1 :
                         j \in DOMAIN heard /\ heard[j] \in Silence)
                     => ended /\ i + MaximumAttempts - 1 = Len(heard)
                /\ ended => (answer[p].status = "accepted")
                              = (heard # <<>> /\ Last(heard) = "good")
  <2>1. Paid(p) /\ Settled(p) /\ Calls
    BY <1>1 DEF AccessInv, PaidInv
  <2> DEFINE ended == answer[p] # NoCommand /\ answer[p].command.op = "triage"
             heard == IF ended /\ answer[p].status \in Verdicts THEN answer[p].what ELSE replies[p]
  <2>2. CASE ended /\ answer[p].status \in Verdicts
    <3>1. /\ Finite(heard)
          /\ (answer[p].status = "accepted") = (heard # <<>> /\ Last(heard) = "good")
      BY <2>1, <2>2 DEF Settled
    <3> QED
      BY <2>2, <3>1 DEF Finite, Bad, Verdicts
  <2>3. CASE ~ (ended /\ answer[p].status \in Verdicts)
    <3>1. heard = replies[p] /\ Unfinished(heard) /\ Cardinality(Bad(heard)) <= repair[p]
      BY <2>1, <2>3 DEF Paid
    <3>2. Cardinality(Bad(heard)) <= 1 + MaximumRepairs
      <4>1. heard \in Seq(Sounds) /\ repair[p] \in 0 .. MaximumRepairs
        BY <2>1, <3>1 DEF Calls
      <4>2. Cardinality(Bad(heard)) \in Nat
        BY <4>1, BadMore DEF Sounds
      <4> QED
        BY <3>1, <4>1, <4>2 DEF MaximumRepairs
    <3>3. ended => answer[p].status # "accepted" /\ heard = <<>>
      <4>1. ended => at[p] = "ended" /\ answer[p].status # "accepted"
        BY <2>1, <2>3 DEF Settled
      <4> QED
        BY <2>1, <3>1, <4>1 DEF Paid
    <3>4. Len(heard) <= MaximumAttempts * (1 + MaximumRepairs)
      <4>1. /\ heard \in Seq(Sounds) /\ repair[p] \in 0 .. MaximumRepairs
            /\ tries[p] \in 0 .. MaximumAttempts - 1
            /\ Len(heard) <= MaximumAttempts * repair[p] + tries[p]
        BY <2>1, <3>1 DEF Calls, Paid
      <4>2. Len(heard) \in Nat
        BY <4>1
      <4> QED
        BY <4>1, <4>2 DEF MaximumAttempts, MaximumRepairs
    <3>5. \A i \in DOMAIN heard : heard[i] \notin {"good", "permanent"}
      BY <3>1 DEF Unfinished, Silence
    <3> QED
      BY <2>3, <3>1, <3>2, <3>3, <3>4, <3>5 DEF Unfinished, Bad, Verdicts
  <2> QED
    BY <2>2, <2>3
<1>2. AccessInv => OnlySilenceIsAskedAgain
  BY <1>1 DEF OnlySilenceIsAskedAgain
<1> QED
  BY <1>2, AccessInvariant, PTL

-----------------------------------------------------------------------------
(* The sources in a quiet time *)

sources == <<environment, executable, files, path, entry>>

\* A provider, by its place in the order.
Stand(i) == Standing(Providers[i])
Says(i) == Content(Providers[i])

\* The provider i is the one the command is about.
Chosen(c, i) ==
    IF c.selection = "auto" THEN \A j \in 1 .. 3 : j < i => Stand(j) = "missing"
    ELSE c.selection = Providers[i]

\* What a process that resolves a key knows of the provider it is at.
Resolving(p, i) ==
    /\ Chosen(command[p], i)
    /\ round[p] # 1 => Stand(i) = "available"
    /\ at[p] \in {"open", "read"} => executable["systemd-creds"] = "ok" /\ path # 0
    /\ at[p] = "read" => held[p] = path
    /\ at[p] \in {"tool", "wait"} => round[p] # 1 /\ (Providers[i] = "systemd-creds" => held[p] = path)
    /\ at[p] = "wait" => exit # "timeout"
    /\ at[p] = "wait" /\ exit = "ok" => secret[p] = Says(i) /\ Says(i) \notin {None, Torn, Unsafe}
    /\ at[p] = "wait" /\ exit = "failed" => Says(i) \in {None, Torn, Unsafe}
    /\ at[p] = "request" => round[p] # 1 /\ Says(i) \in Keys

\* What status has seen of the providers before the one it is at.
Showing(p, i) ==
    /\ selected[p] = None => \A j \in 1 .. 3 : j < i => Stand(j) = "missing"
    /\ selected[p] # None =>
         \E k \in 1 .. 3 : /\ k < i /\ selected[p] = Providers[k] /\ Stand(k) # "missing"
                           /\ \A j \in 1 .. 3 : j < k => Stand(j) = "missing"
    /\ at[p] \in {"open", "read"} => executable["systemd-creds"] = "ok" /\ path # 0
    /\ at[p] = "read" => held[p] = path

\* What a process that stores a key has stored.
Storing(p) ==
    /\ at[p] = "wait" /\ exit = "ok" /\ Inserts(p) => Content("pass") \in Keys
    /\ at[p] = "install" => secret[p] \in Keys
    /\ at[p] = "sync" => Content("systemd-creds") \in Keys

Seen(p) ==
    undisturbed[p] /\ at[p] # "idle" =>
        /\ command[p].op \in {"resolve", "triage"} => \A i \in 1 .. 3 : i = next[p] => Resolving(p, i)
        /\ command[p].op = "status" => \A i \in 1 .. 3 : i = next[p] => Showing(p, i)
        /\ command[p].op = "store" => Storing(p)

Honest(p) ==
    answer[p] # NoCommand /\ undisturbed[p] =>
        Right(answer[p].command, answer[p].status, answer[p].what)

Fresh(p) == at[p] = "idle" => next[p] = 1 /\ selected[p] = None

QuietInv ==
    /\ undisturbed \in [Procs -> BOOLEAN]
    /\ \A p \in Procs : Seen(p) /\ Honest(p) /\ Fresh(p)

-----------------------------------------------------------------------------
(* What is right *)

\* Nothing is changed that a command looks at.
LEMMA SourcesStay ==
    ASSUME UNCHANGED sources
    PROVE  /\ \A q : Standing(q)' = Standing(q) /\ Content(q)' = Content(q)
           /\ \A i : Stand(i)' = Stand(i) /\ Says(i)' = Says(i)
           /\ FirstPresent' = FirstPresent
<1>1. environment' = environment /\ executable' = executable /\ files' = files /\ path' = path
      /\ entry' = entry
  BY DEF sources
<1>2. ASSUME NEW q
      PROVE  Standing(q)' = Standing(q) /\ Content(q)' = Content(q)
  <2>1. Standing(q)' = Standing(q)
    BY <1>1 DEF Standing, EnvironmentStanding, SystemdStanding, PassStanding
  <2>2. Content(q)' = Content(q)
    BY <1>1 DEF Content
  <2> QED
    BY <2>1, <2>2
<1>3. FirstPresent' = FirstPresent
  BY <1>1 DEF FirstPresent, Standing, EnvironmentStanding, SystemdStanding, PassStanding
<1>4. ASSUME NEW i
      PROVE  Stand(i)' = Stand(i) /\ Says(i)' = Says(i)
  <2>1. Stand(i)' = Stand(i)
    BY <1>1 DEF Stand, Standing, EnvironmentStanding, SystemdStanding, PassStanding
  <2>2. Says(i)' = Says(i)
    BY <1>1 DEF Says, Content
  <2> QED
    BY <2>1, <2>2
<1> QED
  BY <1>2, <1>3, <1>4

\* An answer stays right while the sources stay.
LEMMA RightStays ==
    ASSUME UNCHANGED sources, NEW c, NEW status, NEW what, Right(c, status, what)
    PROVE  Right(c, status, what)'
<1>1. environment' = environment /\ executable' = executable /\ files' = files /\ path' = path
      /\ entry' = entry
  BY DEF sources
<1>2. FirstPresent' = FirstPresent
  BY SourcesStay
<1>3. \A q : Standing(q)' = Standing(q) /\ Content(q)' = Content(q)
  BY SourcesStay
<1> QED
  BY <1>2, <1>3 DEF Right

\* The provider that is first, of those that are there.
LEMMA FirstOne ==
    /\ (\A j \in 1 .. 3 : Stand(j) = "missing") => FirstPresent = None
    /\ \A i \in 1 .. 3 : Stand(i) # "missing" /\ (\A j \in 1 .. 3 : j < i => Stand(j) = "missing")
                           => FirstPresent = Providers[i]
<1> DEFINE present == {i \in DOMAIN Providers : Standing(Providers[i]) # "missing"}
<1>1. present = {i \in 1 .. 3 : Stand(i) # "missing"}
  BY ProviderFacts DEF Stand
<1>2. FirstPresent = IF present = {} THEN None ELSE Providers[Min(present)]
  BY DEF FirstPresent
<1> HIDE DEF present
<1>3. (\A j \in 1 .. 3 : Stand(j) = "missing") => FirstPresent = None
  BY <1>1, <1>2
<1>4. ASSUME NEW i \in 1 .. 3, Stand(i) # "missing", \A j \in 1 .. 3 : j < i => Stand(j) = "missing"
      PROVE  FirstPresent = Providers[i]
  <2>1. i \in present /\ \A j \in present : i <= j
    BY <1>1, <1>4
  <2>2. Min(present) \in present /\ \A j \in present : Min(present) <= j
    BY <2>1 DEF Min
  <2>3. Min(present) = i
    <3>1. Min(present) \in 1 .. 3
      BY <1>1, <2>2
    <3> QED
      BY <2>1, <2>2, <3>1
  <2> QED
    BY <1>2, <2>1, <2>3
<1> QED
  BY <1>3, <1>4

\* The provider that a resolution is about.
LEMMA ChosenOne ==
    ASSUME NEW c, NEW i \in 1 .. 3, Chosen(c, i), c.selection = "auto" => Stand(i) # "missing"
    PROVE  (IF c.selection = "auto" THEN FirstPresent ELSE c.selection) = Providers[i]
  BY FirstOne DEF Chosen

\* The providers have names, and none is called none.
LEMMA ProvidersAreNamed ==
    \A i \in 1 .. 3 : Providers[i] \in {"environment", "systemd-creds", "pass"} /\ Providers[i] # None
<1>1. \A i \in 1 .. 3 : i = 1 \/ i = 2 \/ i = 3
  OBVIOUS
<1>2. \A i \in 1 .. 3 : Providers[i] \in {"environment", "systemd-creds", "pass"}
  BY <1>1, ProviderFacts
<1>3. None \notin {"environment", "systemd-creds", "pass"}
  BY DEF None
<1> QED
  BY <1>2, <1>3

\* A key that can be used.
LEMMA RightKey ==
    ASSUME NEW c, c.op \in {"resolve", "triage"}, NEW i \in 1 .. 3, Chosen(c, i),
           Stand(i) = "available", Says(i) \in Keys
    PROVE  /\ c.op = "resolve" => Right(c, "key", <<Providers[i], Says(i)>>)
           /\ c.op = "triage" => \A status, what : status # "error" => Right(c, status, what)
<1> DEFINE q == IF c.selection = "auto" THEN FirstPresent ELSE c.selection
<1>1. q = Providers[i]
  BY ChosenOne
<1>2. Standing(q) = "available" /\ Content(q) = Says(i) /\ q # None
  BY <1>1, ProvidersAreNamed DEF Stand, Says
<1> HIDE DEF q
<1>3. \A status, what : Right(c, status, what) =
        CASE c.op = "status" -> status = "shown" /\ what = <<FirstPresent>>
          [] c.op = "resolve" ->
               IF q # None /\ Standing(q) = "available" /\ Content(q) \in Keys
               THEN status = "key" /\ what = <<q, Content(q)>>
               ELSE status = "error" /\ what = IF q = None THEN <<>> ELSE <<q>>
          [] c.op = "triage" -> (q # None /\ Standing(q) = "available" /\ Content(q) \in Keys) <=> status # "error"
          [] c.op = "store" -> status = "stored" => Content(c.provider) \in Keys
          [] c.op = "replay" -> TRUE
  BY DEF Right, q
<1>4. CASE c.op = "resolve"
  BY <1>1, <1>2, <1>3, <1>4
<1>5. CASE c.op = "triage"
  BY <1>2, <1>3, <1>5
<1> QED
  BY <1>4, <1>5

\* A triage that has its key ends without an error of the sources.
LEMMA RightTriage ==
    ASSUME NEW c, c.op = "triage", NEW i \in 1 .. 3, Chosen(c, i),
           Stand(i) = "available", Says(i) \in Keys, NEW status, NEW what, status # "error"
    PROVE  Right(c, status, what)
<1>1. c.op = "triage" => \A s, w : s # "error" => Right(c, s, w)
  BY RightKey
<1> QED
  BY <1>1

\* A key that cannot be used.
LEMMA RightError ==
    ASSUME NEW c, c.op \in {"resolve", "triage"}, NEW i \in 1 .. 3, Chosen(c, i),
           c.selection = "auto" => Stand(i) # "missing",
           ~ (Stand(i) = "available" /\ Says(i) \in Keys)
    PROVE  Right(c, "error", <<Providers[i]>>)
<1> DEFINE q == IF c.selection = "auto" THEN FirstPresent ELSE c.selection
<1>1. q = Providers[i]
  BY ChosenOne
<1>2. ~ (Standing(q) = "available" /\ Content(q) \in Keys) /\ q # None
  BY <1>1, ProvidersAreNamed DEF Stand, Says
<1> HIDE DEF q
<1>3. \A status, what : Right(c, status, what) =
        CASE c.op = "status" -> status = "shown" /\ what = <<FirstPresent>>
          [] c.op = "resolve" ->
               IF q # None /\ Standing(q) = "available" /\ Content(q) \in Keys
               THEN status = "key" /\ what = <<q, Content(q)>>
               ELSE status = "error" /\ what = IF q = None THEN <<>> ELSE <<q>>
          [] c.op = "triage" -> (q # None /\ Standing(q) = "available" /\ Content(q) \in Keys) <=> status # "error"
          [] c.op = "store" -> status = "stored" => Content(c.provider) \in Keys
          [] c.op = "replay" -> TRUE
  BY DEF Right, q
<1>4. CASE c.op = "resolve"
  BY <1>1, <1>2, <1>3, <1>4
<1>5. CASE c.op = "triage"
  BY <1>2, <1>3, <1>5
<1> QED
  BY <1>4, <1>5

\* No provider is there.
LEMMA RightNothing ==
    ASSUME NEW c, c.op \in {"resolve", "triage"}, c.selection = "auto",
           \A j \in 1 .. 3 : Stand(j) = "missing"
    PROVE  Right(c, "error", <<>>)
<1>1. FirstPresent = None
  BY FirstOne
<1>2. CASE c.op = "resolve"
  BY <1>1, <1>2 DEF Right
<1>3. CASE c.op = "triage"
  BY <1>1, <1>3 DEF Right
<1> QED
  BY <1>2, <1>3

\* status shows the first provider that is there.
LEMMA RightShown ==
    ASSUME NEW c, c.op = "status"
    PROVE  Right(c, "shown", <<FirstPresent>>)
  BY DEF Right

\* The store commands and the replay.
LEMMA RightOthers ==
    /\ \A c, status, what : c.op = "store" /\ (status = "stored" => Content(c.provider) \in Keys)
                              => Right(c, status, what)
    /\ \A c, status, what : c.op = "replay" => Right(c, status, what)
<1>1. ASSUME NEW c, NEW status, NEW what, c.op = "store", status = "stored" => Content(c.provider) \in Keys
      PROVE  Right(c, status, what)
  BY <1>1 DEF Right
<1>2. ASSUME NEW c, NEW status, NEW what, c.op = "replay"
      PROVE  Right(c, status, what)
  BY <1>2 DEF Right
<1> QED
  BY <1>1, <1>2

-----------------------------------------------------------------------------
(* What others do not disturb *)

\* What a process has seen stays true until it is disturbed.
LEMMA SeenStays ==
    ASSUME NEW q \in Procs, Seen(q), Honest(q), Fresh(q), Same(q), at[q] = "wait" => exit' = exit,
           undisturbed'[q] => undisturbed[q] /\ UNCHANGED sources
    PROVE  Seen(q)' /\ Honest(q)' /\ Fresh(q)'
<1>1. /\ at'[q] = at[q] /\ command'[q] = command[q] /\ next'[q] = next[q]
      /\ round'[q] = round[q] /\ held'[q] = held[q] /\ secret'[q] = secret[q]
      /\ selected'[q] = selected[q] /\ answer'[q] = answer[q]
  BY DEF Same
<1>2. Fresh(q)'
  BY <1>1 DEF Fresh
<1>3. CASE ~ undisturbed'[q]
  BY <1>2, <1>3 DEF Seen, Honest
<1>4. CASE undisturbed'[q]
  <2>1. undisturbed[q] /\ UNCHANGED sources
    BY <1>4
  <2>2. /\ \A r : Standing(r)' = Standing(r) /\ Content(r)' = Content(r)
        /\ \A i : Stand(i)' = Stand(i) /\ Says(i)' = Says(i)
    BY <2>1, SourcesStay
  <2>3. executable' = executable /\ path' = path
    BY <2>1 DEF sources
  <2> PICK o : o = answer[q]
    OBVIOUS
  <2>4. answer[q] # NoCommand => Right(o.command, o.status, o.what)
    BY <2>1 DEF Honest
  <2>5. answer[q] # NoCommand => Right(o.command, o.status, o.what)'
    BY <2>1, <2>4, RightStays
  <2>6. Honest(q)'
    BY <1>1, <2>5 DEF Honest
  <2> PICK c : c = command[q]
    OBVIOUS
  <2>7. ASSUME NEW i \in 1 .. 3, Resolving(q, i)
        PROVE  Resolving(q, i)'
    <3>1. Chosen(c, i)
      BY <2>7 DEF Resolving
    <3>2. Chosen(c, i)'
      BY <2>2, <3>1 DEF Chosen
    <3>3. Chosen(command[q], i)'
      BY <1>1, <3>2 DEF Chosen
    <3> QED
      BY <1>1, <2>2, <2>3, <2>7, <3>3 DEF Resolving
  <2>8. ASSUME NEW i \in 1 .. 3, Showing(q, i)
        PROVE  Showing(q, i)'
    BY <1>1, <2>2, <2>3, <2>8 DEF Showing
  <2>9. Storing(q) => Storing(q)'
    <3>1. Inserts(q)' = Inserts(q)
      BY <1>1 DEF Inserts, Provider
    <3> QED
      BY <1>1, <2>2, <3>1 DEF Storing
  <2>10. Seen(q)'
    BY <1>1, <2>1, <2>7, <2>8, <2>9 DEF Seen
  <2> QED
    BY <1>2, <2>6, <2>10
<1> QED
  BY <1>3, <1>4

-----------------------------------------------------------------------------
(* What a command sees *)

\* A command that was disturbed claims nothing.
LEMMA DisturbedQuiet ==
    ASSUME NEW p \in Procs, ~ undisturbed'[p], at'[p] # "idle"
    PROVE  Seen(p)' /\ Honest(p)' /\ Fresh(p)'
  BY DEF Seen, Honest, Fresh

\* A command that ends with the right answer.
LEMMA EndQuiet ==
    ASSUME PlaceInv, NEW p \in Procs, NEW status, NEW what, End(p, status, what),
           undisturbed'[p] => UNCHANGED sources /\ Right(command[p], status, what)
    PROVE  Seen(p)' /\ Honest(p)' /\ Fresh(p)'
<1>1. /\ at'[p] = "ended" /\ command'[p] = NoCommand
      /\ answer'[p] = [command |-> command[p], status |-> status, what |-> what]
  BY EndSteps DEF PlaceInv
<1> PICK c : c = command[p]
  OBVIOUS
<1>2. answer'[p].command = c /\ answer'[p].status = status /\ answer'[p].what = what
  BY <1>1
<1>3. undisturbed'[p] => Right(c, status, what)'
  BY RightStays
<1>4. Honest(p)'
  BY <1>2, <1>3 DEF Honest
<1>5. Seen(p)'
  BY <1>1, OrderFacts DEF Seen
<1> QED
  BY <1>1, <1>4, <1>5 DEF Fresh

\* A command that goes on has no answer yet.
LEMMA GoingQuiet ==
    ASSUME PaidInv, NEW p \in Procs, at[p] # "ended", answer'[p] = answer[p], at'[p] # "idle"
    PROVE  Honest(p)' /\ Fresh(p)'
<1>1. answer'[p] = NoCommand
  BY DEF PaidInv, Settled
<1> QED
  BY <1>1 DEF Honest, Fresh

\* A command that is called has seen nothing yet.
LEMMA CallQuiet ==
    ASSUME PlaceInv, PaidInv, QuietInv, NEW p \in Procs, CallCommand(p)
    PROVE  Seen(p)' /\ Honest(p)' /\ Fresh(p)'
<1>1. /\ at[p] = "idle" /\ UNCHANGED <<command, round, held, selected, answer>> /\ UNCHANGED disk
      /\ at' = [at EXCEPT ![p] = IF command[p].op = "store" THEN "check"
                                 ELSE IF command[p].op = "replay" THEN "read cache" ELSE "look"]
      /\ IF command[p].op \in {"resolve", "triage"} /\ command[p].selection # "auto"
         THEN \E i \in DOMAIN Providers : Providers[i] = command[p].selection /\ next' = [next EXCEPT ![p] = i]
         ELSE UNCHANGED next
  BY DEF CallCommand, Goto
<1>2. at'[p] = IF command[p].op = "store" THEN "check"
               ELSE IF command[p].op = "replay" THEN "read cache" ELSE "look"
  BY <1>1 DEF PlaceInv, Locals
<1>3. at'[p] \in {"check", "read cache", "look"} /\ (command[p].op = "store" => at'[p] = "check")
  BY <1>2
<1>4. round[p] = 1 /\ next[p] = 1 /\ selected[p] = None
  BY <1>1 DEF PlaceInv, Place, QuietInv, Fresh
<1>5. ASSUME command[p].op \in {"resolve", "triage"}, NEW i \in 1 .. 3, i = next'[p]
      PROVE  Resolving(p, i)'
  <2>1. Chosen(command[p], i)'
    <3>1. CASE command[p].selection = "auto"
      <4>1. i = 1
        BY <1>1, <1>4, <1>5, <3>1 DEF PlaceInv, Locals
      <4>2. \A j \in 1 .. 3 : ~ (j < i)
        BY <4>1
      <4> QED
        BY <1>1, <3>1, <4>2 DEF Chosen
    <3>2. CASE command[p].selection # "auto"
      <4>1. Providers[i] = command[p].selection
        BY <1>1, <1>5, <3>2 DEF PlaceInv, Locals
      <4> QED
        BY <1>1, <3>2, <4>1 DEF Chosen
    <3> QED
      BY <3>1, <3>2
  <2>2. at'[p] = "look" /\ round'[p] = 1
    BY <1>1, <1>2, <1>4, <1>5
  <2> QED
    BY <2>1, <2>2 DEF Resolving
<1>6. ASSUME command[p].op = "status", NEW i \in 1 .. 3, i = next'[p]
      PROVE  Showing(p, i)'
  <2>1. at'[p] = "look" /\ selected'[p] = None
    BY <1>1, <1>2, <1>4, <1>6
  <2>2. i = 1
    BY <1>1, <1>4, <1>6 DEF PlaceInv, Locals
  <2>3. \A j \in 1 .. 3 : ~ (j < i)
    BY <2>2
  <2> QED
    BY <2>1, <2>3 DEF Showing
<1>7. command[p].op = "store" => Storing(p)'
  BY <1>3 DEF Storing
<1>8. Seen(p)'
  BY <1>1, <1>5, <1>6, <1>7 DEF Seen
<1>9. Honest(p)' /\ Fresh(p)'
  <2>1. at'[p] # "idle" /\ answer'[p] = answer[p]
    BY <1>1, <1>3
  <2> QED
    BY <1>1, <2>1, GoingQuiet
<1> QED
  BY <1>8, <1>9

\* What a command has seen, put together.
LEMMA ResolvingSeen ==
    ASSUME NEW p \in Procs, command'[p] = command[p], command[p].op \in {"resolve", "triage"},
           NEW i \in 1 .. 3, next'[p] = i, undisturbed'[p] => Resolving(p, i)'
    PROVE  Seen(p)'
<1>1. ASSUME NEW k \in 1 .. 3, k = next'[p], undisturbed'[p]
      PROVE  Resolving(p, k)'
  <2>1. k = i
    BY <1>1
  <2> QED
    BY <1>1, <2>1
<1> QED
  BY <1>1 DEF Seen

\* What status has seen, put together.
LEMMA ShowingSeen ==
    ASSUME NEW p \in Procs, command'[p] = command[p], command[p].op = "status",
           NEW i \in 1 .. 3, next'[p] = i, undisturbed'[p] => Showing(p, i)'
    PROVE  Seen(p)'
<1>1. ASSUME NEW k \in 1 .. 3, k = next'[p], undisturbed'[p]
      PROVE  Showing(p, k)'
  <2>1. k = i
    BY <1>1
  <2> QED
    BY <1>1, <2>1
<1> QED
  BY <1>1 DEF Seen

\* What a store has seen, put together.
LEMMA StoringSeen ==
    ASSUME NEW p \in Procs, command'[p] = command[p], command[p].op = "store",
           undisturbed'[p] => Storing(p)'
    PROVE  Seen(p)'
  BY DEF Seen

\* Standing, provider by provider.
LEMMA StandFacts ==
    ASSUME Disk, NEW i \in 1 .. 3, Stand(i) = "available"
    PROVE  /\ Providers[i] = "environment" => Says(i) = environment /\ environment \in Keys
           /\ Providers[i] = "systemd-creds" =>
                executable["systemd-creds"] = "ok" /\ path # 0 /\ Says(i) = files[path]
           /\ Providers[i] = "pass" => Says(i) = entry
<1>1. Standing(Providers[i]) = "available" /\ Says(i) = Content(Providers[i])
  BY DEF Stand, Says
<1>2. CASE Providers[i] = "environment"
  <2>1. environment # None /\ WellFormed(environment)
    BY <1>1, <1>2 DEF Standing, EnvironmentStanding
  <2> QED
    BY <1>1, <1>2, <2>1 DEF WellFormed, Content, Disk
<1>3. CASE Providers[i] = "systemd-creds"
  <2>1. executable["systemd-creds"] = "ok"
    BY <1>1, <1>3 DEF Standing
  <2>2. path # 0
    BY <1>1, <1>3, <2>1 DEF Standing, SystemdStanding
  <2> QED
    BY <1>1, <1>3, <2>1, <2>2 DEF Content
<1>4. CASE Providers[i] = "pass"
  BY <1>1, <1>4 DEF Content
<1> QED
  BY <1>2, <1>3, <1>4, ProvidersAreNamed

\* status after its look.
LEMMA ShowQuiet ==
    ASSUME PlaceInv, PaidInv, QuietInv, NEW p \in Procs, NEW standing, Show(p, standing),
           command[p].op = "status", at[p] \in {"look", "read"}, UNCHANGED <<disk, tool>>,
           UNCHANGED undisturbed,
           undisturbed[p] => standing = Stand(next[p])
    PROVE  Seen(p)' /\ Honest(p)' /\ Fresh(p)'
<1> PICK i : i = next[p]
  OBVIOUS
<1>1. i \in 1 .. 3 /\ Provider(p) = Providers[i] /\ Locals
  BY ProviderFacts DEF PlaceInv, Locals, Provider
<1>2. UNCHANGED sources
  BY DEF disk, sources
<1>3. undisturbed[p] => Showing(p, i) /\ standing = Stand(i)
  BY <1>1 DEF QuietInv, Seen
<1> DEFINE choice == IF selected[p] = None /\ standing # "missing" THEN Provider(p) ELSE selected[p]
<1>4. ASSUME undisturbed[p]
      PROVE  /\ choice = None => \A j \in 1 .. 3 : j <= i => Stand(j) = "missing"
             /\ choice # None =>
                  \E k \in 1 .. 3 : /\ k <= i /\ choice = Providers[k] /\ Stand(k) # "missing"
                                    /\ \A j \in 1 .. 3 : j < k => Stand(j) = "missing"
  <2>1. CASE selected[p] = None /\ standing # "missing"
    <3>1. choice = Providers[i] /\ choice # None /\ Stand(i) # "missing"
      BY <1>1, <1>3, <1>4, <2>1, ProvidersAreNamed
    <3>2. \A j \in 1 .. 3 : j < i => Stand(j) = "missing"
      BY <1>3, <1>4, <2>1 DEF Showing
    <3>3. i <= i
      BY <1>1
    <3> QED
      BY <1>1, <3>1, <3>2, <3>3
  <2>2. CASE selected[p] = None /\ standing = "missing"
    <3>1. choice = None /\ Stand(i) = "missing"
      BY <1>3, <1>4, <2>2
    <3>2. \A j \in 1 .. 3 : j < i => Stand(j) = "missing"
      BY <1>3, <1>4, <2>2 DEF Showing
    <3>3. \A j \in 1 .. 3 : j <= i => j < i \/ j = i
      BY <1>1
    <3> QED
      BY <3>1, <3>2, <3>3
  <2>3. CASE selected[p] # None
    <3>1. choice = selected[p]
      BY <2>3
    <3>2. PICK k \in 1 .. 3 : /\ k < i /\ selected[p] = Providers[k] /\ Stand(k) # "missing"
                              /\ \A j \in 1 .. 3 : j < k => Stand(j) = "missing"
      BY <1>3, <1>4, <2>3 DEF Showing
    <3>3. k <= i
      BY <1>1, <3>2
    <3> QED
      BY <2>3, <3>1, <3>2, <3>3
  <2> QED
    BY <2>1, <2>2, <2>3
<1>5. Show(p, standing) =>
        IF next[p] = Len(Providers) THEN End(p, "shown", <<choice>>)
        ELSE NextProvider(p) /\ selected' = [selected EXCEPT ![p] = choice]
  BY DEF Show
<1>6. choice \in ProviderIds \cup {None}
  BY <1>1, ProviderFacts DEF Locals
<1> HIDE DEF choice
<1>7. CASE i = 3
  <2>1. End(p, "shown", <<choice>>)
    BY <1>5, <1>7, ProviderFacts
  <2>2. undisturbed[p] => choice = FirstPresent
    <3>1. \A j \in 1 .. 3 : j <= i
      BY <1>7
    <3> QED
      BY <1>4, <3>1, FirstOne
  <2>3. undisturbed[p] => Right(command[p], "shown", <<choice>>)
    BY <2>2, RightShown
  <2> QED
    BY <1>2, <2>1, <2>3, EndQuiet
<1>8. CASE i # 3
  <2>1. NextProvider(p) /\ selected' = [selected EXCEPT ![p] = choice]
    BY <1>5, <1>8, ProviderFacts
  <2>2. /\ next' = [next EXCEPT ![p] = next[p] + 1] /\ at' = [at EXCEPT ![p] = "look"]
        /\ UNCHANGED <<command, round, held, secret, answer>>
    BY <2>1 DEF NextProvider, Goto
  <2>3. /\ next'[p] = i + 1 /\ at'[p] = "look" /\ selected'[p] = choice /\ i + 1 \in 1 .. 3
        /\ command'[p] = command[p]
    BY <1>1, <1>8, <2>1, <2>2 DEF Locals
  <2>4. \A j : Stand(j)' = Stand(j)
    BY <1>2, SourcesStay
  <2>5. \A j \in 1 .. 3 : (j < i + 1) = (j <= i)
    BY <1>1
  <2> PICK m : m = i + 1
    OBVIOUS
  <2>6. undisturbed[p] => Showing(p, m)'
    <3>1. ASSUME undisturbed[p]
          PROVE  Showing(p, m)'
      <4>1. selected'[p] = None => \A j \in 1 .. 3 : j < m => Stand(j)' = "missing"
        BY <1>4, <2>3, <2>4, <2>5, <3>1
      <4>2. selected'[p] # None =>
              \E k \in 1 .. 3 : /\ k < m /\ selected'[p] = Providers[k] /\ Stand(k)' # "missing"
                                /\ \A j \in 1 .. 3 : j < k => Stand(j)' = "missing"
        BY <1>4, <2>3, <2>4, <2>5, <3>1
      <4> QED
        BY <2>3, <4>1, <4>2 DEF Showing
    <3> QED
      BY <3>1
  <2>7. Seen(p)'
    BY <2>3, <2>6, ShowingSeen
  <2> QED
    BY <2>2, <2>3, <2>7, GoingQuiet
<1> QED
  BY <1>7, <1>8

\* A key is resolved.
LEMMA ResolvedQuiet ==
    ASSUME PlaceInv, PaidInv, QuietInv, NEW p \in Procs, NEW key, Resolved(p, key),
           command[p].op \in {"resolve", "triage"}, at[p] # "ended", UNCHANGED sources,
           NEW i \in 1 .. 3, i = next[p],
           undisturbed'[p] => /\ Chosen(command[p], i) /\ Stand(i) = "available"
                              /\ Says(i) = key /\ key \in Keys /\ round[p] # 1
    PROVE  Seen(p)' /\ Honest(p)' /\ Fresh(p)'
<1>1. Provider(p) = Providers[i]
  BY DEF Provider
<1>2. CASE command[p].op = "triage"
  <2>1. /\ at' = [at EXCEPT ![p] = "request"] /\ UNCHANGED <<command, next, round, held, selected, answer>>
    BY <1>2 DEF Resolved, Goto
  <2>2. at'[p] = "request"
    BY <2>1 DEF PlaceInv, Locals
  <2>3. /\ \A j : Stand(j)' = Stand(j) /\ Says(j)' = Says(j)
    BY SourcesStay
  <2>4. ASSUME undisturbed'[p]
        PROVE  Resolving(p, i)'
    <3>1. Chosen(command[p], i)'
      BY <2>1, <2>3, <2>4 DEF Chosen
    <3>2. Stand(i)' = "available" /\ Says(i)' \in Keys /\ round'[p] # 1
      BY <2>1, <2>3, <2>4
    <3> QED
      BY <2>2, <3>1, <3>2 DEF Resolving
  <2>5. Seen(p)'
    BY <1>2, <2>1, <2>4, ResolvingSeen
  <2> QED
    BY <2>1, <2>2, <2>5, GoingQuiet
<1>3. CASE command[p].op = "resolve"
  <2>1. End(p, "key", <<Provider(p), key>>)
    BY <1>3 DEF Resolved
  <2>2. undisturbed'[p] => Right(command[p], "key", <<Provider(p), key>>)
    BY <1>1, <1>3, RightKey
  <2> QED
    BY <2>1, <2>2, EndQuiet
<1> QED
  BY <1>2, <1>3

\* The provider that is chosen cannot be used.
LEMMA RefusedQuiet ==
    ASSUME PlaceInv, NEW p \in Procs, Refused(p), command[p].op \in {"resolve", "triage"},
           UNCHANGED sources, NEW i \in 1 .. 3, i = next[p],
           undisturbed'[p] => /\ Chosen(command[p], i)
                              /\ command[p].selection = "auto" => Stand(i) # "missing"
                              /\ ~ (Stand(i) = "available" /\ Says(i) \in Keys)
    PROVE  Seen(p)' /\ Honest(p)' /\ Fresh(p)'
<1>1. End(p, "error", <<Providers[i]>>)
  BY DEF Refused, Provider
<1>2. undisturbed'[p] => Right(command[p], "error", <<Providers[i]>>)
  BY RightError
<1> QED
  BY <1>1, <1>2, EndQuiet

\* resolve() and load_secret() after a look.
LEMMA ChooseQuiet ==
    ASSUME PlaceInv, PaidInv, QuietInv, NEW p \in Procs, NEW standing, Choose(p, standing),
           command[p].op \in {"resolve", "triage"}, at[p] \in {"look", "read"},
           UNCHANGED <<disk, tool>>, UNCHANGED undisturbed,
           undisturbed[p] => standing = Stand(next[p])
    PROVE  Seen(p)' /\ Honest(p)' /\ Fresh(p)'
<1> PICK i : i = next[p]
  OBVIOUS
<1>1. i \in 1 .. 3 /\ Provider(p) = Providers[i] /\ Locals /\ Disk /\ round[p] \in 1 .. 3
  BY ProviderFacts DEF PlaceInv, Locals, Provider
<1>2. UNCHANGED sources
  BY DEF disk, sources
<1>3. undisturbed[p] => Resolving(p, i) /\ standing = Stand(i)
  BY <1>1 DEF QuietInv, Seen
<1>4. \A j : Stand(j)' = Stand(j) /\ Says(j)' = Says(j)
  BY <1>2, SourcesStay
<1>5. executable' = executable /\ path' = path
  BY DEF disk
<1>6. CASE standing = "missing" /\ command[p].selection = "auto" /\ round[p] = 1
  <2>1. undisturbed[p] => \A j \in 1 .. 3 : j <= i => Stand(j) = "missing"
    <3>1. undisturbed[p] => Stand(i) = "missing" /\ \A j \in 1 .. 3 : j < i => Stand(j) = "missing"
      BY <1>3, <1>6 DEF Resolving, Chosen
    <3>2. \A j \in 1 .. 3 : j <= i => j < i \/ j = i
      BY <1>1
    <3> QED
      BY <3>1, <3>2
  <2>2. CASE i = 3
    <3>1. End(p, "error", <<>>)
      BY <1>6, <2>2, ProviderFacts DEF Choose
    <3>2. \A j \in 1 .. 3 : j <= i
      BY <2>2
    <3>3. undisturbed[p] => Right(command[p], "error", <<>>)
      BY <1>6, <2>1, <3>2, RightNothing
    <3> QED
      BY <1>2, <3>1, <3>3, EndQuiet
  <2>3. CASE i # 3
    <3>1. NextProvider(p)
      BY <1>6, <2>3, ProviderFacts DEF Choose
    <3>2. /\ next' = [next EXCEPT ![p] = next[p] + 1] /\ at' = [at EXCEPT ![p] = "look"]
          /\ UNCHANGED <<command, round, held, secret, answer>>
      BY <3>1 DEF NextProvider, Goto
    <3> PICK m : m = i + 1
      OBVIOUS
    <3>3. /\ next'[p] = m /\ at'[p] = "look" /\ m \in 1 .. 3 /\ command'[p] = command[p] /\ round'[p] = 1
      BY <1>1, <1>6, <2>3, <3>2 DEF Locals
    <3>4. \A j \in 1 .. 3 : (j < m) = (j <= i)
      BY <1>1
    <3>5. undisturbed[p] => Chosen(command[p], m)'
      BY <1>4, <1>6, <2>1, <3>2, <3>4 DEF Chosen
    <3>6. undisturbed[p] => Resolving(p, m)'
      BY <3>3, <3>5 DEF Resolving
    <3>7. Seen(p)'
      BY <3>3, <3>6, ResolvingSeen
    <3> QED
      BY <3>2, <3>3, <3>7, GoingQuiet
  <2> QED
    BY <2>2, <2>3
<1>7. CASE ~ (standing = "missing" /\ command[p].selection = "auto" /\ round[p] = 1)
  <2>1. CASE standing # "available"
    <3>1. Refused(p)
      BY <1>7, <2>1 DEF Choose
    <3>2. ASSUME undisturbed[p]
          PROVE  /\ Chosen(command[p], i)
                 /\ command[p].selection = "auto" => Stand(i) # "missing"
                 /\ ~ (Stand(i) = "available" /\ Says(i) \in Keys)
      <4>1. Chosen(command[p], i) /\ (round[p] # 1 => Stand(i) = "available") /\ standing = Stand(i)
        BY <1>3, <3>2 DEF Resolving
      <4> QED
        BY <1>7, <2>1, <4>1
    <3> QED
      BY <1>1, <1>2, <3>1, <3>2, RefusedQuiet
  <2>2. CASE standing = "available"
    <3>1. undisturbed[p] => Chosen(command[p], i) /\ Stand(i) = "available"
      BY <1>3, <2>2 DEF Resolving
    <3>2. CASE Provider(p) = "environment" /\ round[p] = 2
      <4>1. Resolved(p, environment)
        BY <1>7, <2>2, <3>2 DEF Choose
      <4>2. undisturbed[p] => Says(i) = environment /\ environment \in Keys
        BY <1>1, <3>1, <3>2, StandFacts
      <4>3. round[p] # 1
        BY <3>2
      <4> QED
        BY <1>1, <1>2, <3>1, <4>1, <4>2, <4>3, ResolvedQuiet
    <3>3. CASE ~ (Provider(p) = "environment" /\ round[p] = 2) /\ round[p] = 3
      <4>1. Proceed(p, "tool")
        BY <1>7, <2>2, <3>3 DEF Choose
      <4>2. /\ at'[p] = "tool" /\ command'[p] = command[p] /\ next'[p] = next[p] /\ round'[p] = round[p]
            /\ held'[p] = held[p] /\ answer'[p] = answer[p]
        BY <1>1, <4>1 DEF Proceed, Goto, local, Locals
      <4>3. at[p] = "read"
        <5>1. at[p] = "look" => round[p] <= 2
          BY DEF PlaceInv, Place
        <5>2. round[p] # 1 /\ ~ (round[p] <= 2)
          BY <3>3
        <5> QED
          BY <5>1, <5>2
      <4>4. round[p] # 1
        BY <3>3
      <4>5. ASSUME undisturbed[p]
            PROVE  Resolving(p, i)'
        <5>1. Chosen(command[p], i)'
          BY <1>4, <3>1, <4>2, <4>5 DEF Chosen
        <5>2. held'[p] = path' /\ round'[p] # 1 /\ Stand(i)' = "available"
          BY <1>3, <1>4, <1>5, <3>1, <4>2, <4>3, <4>4, <4>5 DEF Resolving
        <5> QED
          BY <4>2, <5>1, <5>2 DEF Resolving
      <4>6. Seen(p)'
        BY <1>1, <4>2, <4>5, ResolvingSeen
      <4> QED
        BY <4>2, <4>6, GoingQuiet
    <3>4. CASE ~ (Provider(p) = "environment" /\ round[p] = 2) /\ round[p] # 3
      <4>1. LookAgain(p)
        BY <1>7, <2>2, <3>4 DEF Choose
      <4> DEFINE where == IF round[p] = 1 THEN "look"
                          ELSE IF Provider(p) = "systemd-creds" THEN "open" ELSE "tool"
      <4>2. /\ round' = [round EXCEPT ![p] = round[p] + 1] /\ at' = [at EXCEPT ![p] = where]
            /\ UNCHANGED <<command, next, held, secret, selected, answer>>
        BY <4>1 DEF LookAgain, Goto
      <4>3. where \in {"look", "open", "tool"} /\ (where = "open" => Provider(p) = "systemd-creds")
            /\ (where = "tool" => Provider(p) # "systemd-creds")
        OBVIOUS
      <4> HIDE DEF where
      <4>4. at'[p] = where /\ round'[p] = round[p] + 1
        BY <1>1, <4>2 DEF Locals
      <4>5. round'[p] # 1
        BY <1>1, <4>4
      <4>6. ASSUME undisturbed[p]
            PROVE  Resolving(p, i)'
        <5>1. Chosen(command[p], i)'
          BY <1>4, <3>1, <4>2, <4>6 DEF Chosen
        <5>2. Stand(i)' = "available"
          BY <1>4, <3>1, <4>6
        <5>3. at'[p] = "open" => executable'["systemd-creds"] = "ok" /\ path' # 0
          BY <1>1, <1>5, <3>1, <4>3, <4>4, <4>6, StandFacts
        <5>4. at'[p] = "tool" => Providers[i] # "systemd-creds"
          BY <1>1, <4>3, <4>4
        <5> QED
          BY <4>3, <4>4, <4>5, <5>1, <5>2, <5>3, <5>4 DEF Resolving
      <4>7. Seen(p)'
        BY <1>1, <4>2, <4>6, ResolvingSeen
      <4>8. at'[p] # "idle" /\ answer'[p] = answer[p]
        BY <4>2, <4>3, <4>4
      <4> QED
        BY <4>7, <4>8, GoingQuiet
    <3> QED
      BY <3>2, <3>3, <3>4
  <2> QED
    BY <2>1, <2>2
<1> QED
  BY <1>6, <1>7

\* A look that confirms what is known of the provider.
LEMMA SawQuiet ==
    ASSUME PlaceInv, PaidInv, QuietInv, NEW p \in Procs, NEW standing, Saw(p, standing),
           at[p] \in {"look", "read"}, UNCHANGED <<disk, tool>>, UNCHANGED undisturbed,
           undisturbed[p] => standing = Stand(next[p])
    PROVE  Seen(p)' /\ Honest(p)' /\ Fresh(p)'
<1>1. command[p].op \in {"resolve", "triage", "status"}
  BY DEF PlaceInv, Place
<1>2. CASE command[p].op = "status"
  <2>1. Show(p, standing)
    BY <1>2 DEF Saw
  <2> QED
    BY <1>2, <2>1, ShowQuiet
<1>3. CASE command[p].op # "status"
  <2>1. Choose(p, standing) /\ command[p].op \in {"resolve", "triage"}
    BY <1>1, <1>3 DEF Saw
  <2> QED
    BY <2>1, ChooseQuiet
<1> QED
  BY <1>2, <1>3

\* A process in a place of its own, with an order that is not to store.
LEMMA AtProvider ==
    ASSUME PlaceInv, QuietInv, NEW p \in Procs, NEW i, i = next[p]
    PROVE  /\ i \in 1 .. 3 /\ command[p].op # "store" => Provider(p) = Providers[i]
           /\ i \in 1 .. 3
           /\ undisturbed[p] /\ at[p] # "idle" /\ command[p].op \in {"resolve", "triage"} => Resolving(p, i)
           /\ undisturbed[p] /\ at[p] # "idle" /\ command[p].op = "status" => Showing(p, i)
           /\ undisturbed[p] /\ at[p] # "idle" /\ command[p].op = "store" => Storing(p)
<1>1. i \in 1 .. 3 /\ (command[p].op # "store" => Provider(p) = Providers[i])
  BY ProviderFacts DEF PlaceInv, Locals, Provider
<1>2. Seen(p)
  BY DEF QuietInv
<1> QED
  BY <1>1, <1>2 DEF Seen

\* A look at the present provider.
LEMMA LookQuiet ==
    ASSUME PlaceInv, PaidInv, QuietInv, NEW p \in Procs, Look(p)
    PROVE  Seen(p)' /\ Honest(p)' /\ Fresh(p)'
<1>1. at[p] = "look" /\ UNCHANGED <<disk, tool>> /\ UNCHANGED undisturbed
  BY DEF Look, Calm
<1> PICK i : i = next[p]
  OBVIOUS
<1>2. command[p].op \in {"resolve", "triage", "status"}
  BY <1>1 DEF PlaceInv, Place
<1>3. i \in 1 .. 3 /\ Provider(p) = Providers[i]
  BY <1>2, AtProvider
<1>4. CASE Saw(p, Standing(Provider(p)))
  <2>1. Standing(Provider(p)) = Stand(next[p])
    BY <1>3 DEF Stand
  <2> QED
    BY <1>1, <1>4, <2>1, SawQuiet
<1>5. CASE /\ Provider(p) = "systemd-creds" /\ executable["systemd-creds"] = "ok" /\ path # 0
           /\ Proceed(p, "open")
  <2>1. /\ at'[p] = "open" /\ command'[p] = command[p] /\ next'[p] = i /\ round'[p] = round[p]
        /\ selected'[p] = selected[p] /\ answer'[p] = answer[p]
    BY <1>5 DEF Proceed, Goto, local, PlaceInv, Locals
  <2>2. UNCHANGED sources /\ executable' = executable /\ path' = path
    BY <1>1 DEF disk, sources
  <2>3. \A j : Stand(j)' = Stand(j)
    BY <2>2, SourcesStay
  <2>4. Seen(p)'
    <3>1. CASE command[p].op \in {"resolve", "triage"}
      <4>1. ASSUME undisturbed[p]
            PROVE  Resolving(p, i)'
        <5>1. Resolving(p, i)
          BY <1>1, <3>1, <4>1, AtProvider
        <5>2. Chosen(command[p], i)'
          BY <2>1, <2>3, <5>1 DEF Resolving, Chosen
        <5>3. round'[p] # 1 => Stand(i)' = "available"
          BY <2>1, <2>3, <5>1 DEF Resolving
        <5> QED
          BY <1>5, <2>1, <2>2, <5>2, <5>3 DEF Resolving
      <4> QED
        BY <1>1, <1>3, <2>1, <3>1, <4>1, ResolvingSeen
    <3>2. CASE command[p].op = "status"
      <4>1. ASSUME undisturbed[p]
            PROVE  Showing(p, i)'
        <5>1. Showing(p, i)
          BY <1>1, <3>2, <4>1, AtProvider
        <5> QED
          BY <1>5, <2>1, <2>2, <2>3, <5>1 DEF Showing
      <4> QED
        BY <1>1, <1>3, <2>1, <3>2, <4>1, ShowingSeen
    <3> QED
      BY <1>2, <3>1, <3>2
  <2> QED
    BY <1>1, <2>1, <2>4, GoingQuiet
<1> QED
  BY <1>4, <1>5 DEF Look

\* The ciphertext is opened: it is the one at the path.
LEMMA OpenQuiet ==
    ASSUME PlaceInv, PaidInv, QuietInv, NEW p \in Procs, Open(p)
    PROVE  Seen(p)' /\ Honest(p)' /\ Fresh(p)'
<1>1. /\ at[p] = "open" /\ UNCHANGED disk /\ UNCHANGED undisturbed
      /\ held' = [held EXCEPT ![p] = path] /\ at' = [at EXCEPT ![p] = "read"]
      /\ UNCHANGED <<command, next, round, secret, selected, answer>>
  BY DEF Open, Calm, Goto
<1> PICK i : i = next[p]
  OBVIOUS
<1>2. command[p].op \in {"resolve", "triage", "status"}
  BY <1>1 DEF PlaceInv, Place
<1>3. i \in 1 .. 3
  BY AtProvider
<1>4. at'[p] = "read" /\ held'[p] = path /\ command'[p] = command[p] /\ next'[p] = i
  BY <1>1 DEF PlaceInv, Locals
<1>5. UNCHANGED sources /\ executable' = executable /\ path' = path
  BY <1>1 DEF disk, sources
<1>6. \A j : Stand(j)' = Stand(j)
  BY <1>5, SourcesStay
<1>7. CASE command[p].op \in {"resolve", "triage"}
  <2>1. ASSUME undisturbed[p]
        PROVE  Resolving(p, i)'
    <3>1. Resolving(p, i)
      BY <1>1, <1>7, <2>1, AtProvider
    <3>2. Chosen(command[p], i)'
      BY <1>1, <1>6, <3>1 DEF Resolving, Chosen
    <3>3. round'[p] # 1 => Stand(i)' = "available"
      BY <1>1, <1>6, <3>1 DEF Resolving
    <3> QED
      BY <1>1, <1>4, <1>5, <3>1, <3>2, <3>3 DEF Resolving
  <2>2. Seen(p)'
    BY <1>1, <1>3, <1>4, <1>7, <2>1, ResolvingSeen
  <2> QED
    BY <1>1, <1>4, <2>2, GoingQuiet
<1>8. CASE command[p].op = "status"
  <2>1. ASSUME undisturbed[p]
        PROVE  Showing(p, i)'
    <3>1. Showing(p, i)
      BY <1>1, <1>8, <2>1, AtProvider
    <3> QED
      BY <1>1, <1>4, <1>5, <1>6, <3>1 DEF Showing
  <2>2. Seen(p)'
    BY <1>1, <1>3, <1>4, <1>8, <2>1, ShowingSeen
  <2> QED
    BY <1>1, <1>4, <2>2, GoingQuiet
<1> QED
  BY <1>2, <1>7, <1>8

\* The open ciphertext is looked at again.
LEMMA ReadQuiet ==
    ASSUME PlaceInv, PaidInv, QuietInv, NEW p \in Procs, ReadCiphertext(p)
    PROVE  Seen(p)' /\ Honest(p)' /\ Fresh(p)'
<1>1. at[p] = "read" /\ UNCHANGED <<disk, tool>> /\ UNCHANGED undisturbed
  BY DEF ReadCiphertext, Calm
<1> DEFINE standing == IF held[p] = path /\ files[path] # Unsafe THEN "available" ELSE "broken"
<1>2. Saw(p, standing)
  BY DEF ReadCiphertext
<1> PICK i : i = next[p]
  OBVIOUS
<1>3. command[p].op \in {"resolve", "triage", "status"} /\ Provider(p) = "systemd-creds"
  BY <1>1 DEF PlaceInv, Place
<1>4. Providers[i] = "systemd-creds"
  BY <1>3, AtProvider
<1>5. ASSUME undisturbed[p]
      PROVE  standing = Stand(i)
  <2>1. executable["systemd-creds"] = "ok" /\ path # 0 /\ held[p] = path
    <3>1. Resolving(p, i) \/ Showing(p, i)
      BY <1>1, <1>3, <1>5, AtProvider
    <3> QED
      BY <1>1, <3>1 DEF Resolving, Showing
  <2>2. Stand(i) = SystemdStanding
    BY <1>4, <2>1 DEF Stand, Standing
  <2> QED
    BY <2>1, <2>2 DEF SystemdStanding
<1> HIDE DEF standing
<1> QED
  BY <1>1, <1>2, <1>5, SawQuiet

\* The checks of a store.
LEMMA ChecksQuiet ==
    ASSUME PlaceInv, PaidInv, QuietInv, NEW p \in Procs, CheckCiphertext(p) \/ CheckEntry(p)
    PROVE  Seen(p)' /\ Honest(p)' /\ Fresh(p)'
<1>1. /\ at[p] = "check" /\ UNCHANGED undisturbed
      /\ UNCHANGED <<environment, executable, files, path, entry>>
      /\ Refused(p) \/ Proceed(p, "tool")
  BY DEF CheckCiphertext, CheckEntry, Calm, disk
<1>2. command[p].op = "store" /\ UNCHANGED sources
  BY <1>1 DEF PlaceInv, Place, sources
<1>3. CASE Refused(p)
  <2>1. End(p, "error", <<Provider(p)>>) /\ Right(command[p], "error", <<Provider(p)>>)
    BY <1>2, <1>3, RightOthers DEF Refused
  <2> QED
    BY <1>2, <2>1, EndQuiet
<1>4. CASE Proceed(p, "tool")
  <2>1. at'[p] = "tool" /\ command'[p] = command[p] /\ answer'[p] = answer[p]
    BY <1>4 DEF Proceed, Goto, local, PlaceInv, Locals
  <2>2. Seen(p)'
    BY <1>2, <2>1, StoringSeen DEF Storing
  <2> QED
    BY <1>1, <2>1, <2>2, GoingQuiet
<1> QED
  BY <1>1, <1>3, <1>4

\* A tool is started, for the provider that was seen.
LEMMA RunQuiet ==
    ASSUME PlaceInv, PaidInv, QuietInv, NEW p \in Procs, RunTool(p)
    PROVE  Seen(p)' /\ Honest(p)' /\ Fresh(p)'
<1>1. /\ at[p] = "tool" /\ owner = Nobody /\ Proceed(p, "wait") /\ UNCHANGED disk /\ UNCHANGED exit
      /\ UNCHANGED undisturbed \/ Disturb
  BY DEF RunTool, Calm
<1>2. exit' = None /\ exit' \notin {"ok", "failed", "timeout"}
  BY <1>1 DEF PlaceInv, Pipe, None
<1>3. /\ at'[p] = "wait" /\ command'[p] = command[p] /\ answer'[p] = answer[p] /\ next'[p] = next[p]
      /\ round'[p] = round[p] /\ held'[p] = held[p]
  BY <1>1 DEF Proceed, Goto, local, PlaceInv, Locals
<1>4. undisturbed'[p] => undisturbed[p]
  BY <1>1 DEF Disturb
<1>5. command[p].op \in {"resolve", "triage", "store"}
  BY <1>1 DEF PlaceInv, Place
<1>6. UNCHANGED sources /\ path' = path
  BY <1>1 DEF disk, sources
<1>7. \A j : Stand(j)' = Stand(j)
  BY <1>6, SourcesStay
<1> PICK i : i = next[p]
  OBVIOUS
<1>8. CASE command[p].op \in {"resolve", "triage"}
  <2>1. ASSUME undisturbed'[p]
        PROVE  Resolving(p, i)'
    <3>1. Resolving(p, i)
      BY <1>1, <1>4, <1>8, <2>1, AtProvider
    <3>2. Chosen(command[p], i)'
      BY <1>1, <1>7, <3>1 DEF Resolving, Chosen, Proceed, local
    <3>3. round'[p] # 1 /\ Stand(i)' = "available" /\ (Providers[i] = "systemd-creds" => held'[p] = path')
      BY <1>1, <1>3, <1>6, <1>7, <3>1 DEF Resolving
    <3> QED
      BY <1>2, <1>3, <3>2, <3>3 DEF Resolving
  <2>2. Seen(p)'
    BY <1>3, <1>8, <2>1, AtProvider, ResolvingSeen
  <2> QED
    BY <1>1, <1>3, <2>2, GoingQuiet
<1>9. CASE command[p].op = "store"
  <2>1. Storing(p)'
    BY <1>2, <1>3 DEF Storing
  <2>2. Seen(p)'
    BY <1>3, <1>9, <2>1, StoringSeen
  <2> QED
    BY <1>1, <1>3, <2>2, GoingQuiet
<1> QED
  BY <1>5, <1>8, <1>9

\* What the tool of a command that resolves a key tells.
LEMMA ToldFacts ==
    ASSUME PlaceInv, NEW p \in Procs, at[p] = "wait", command[p].op # "store",
           NEW i \in 1 .. 3, Provider(p) = Providers[i],
           Providers[i] = "systemd-creds" => held[p] = path
    PROVE  Told(p) = Says(i) /\ Says(i) \in Contents \cup {None}
<1>1. Provider(p) \in Tools
  BY DEF PlaceInv, Place
<1>2. CASE Providers[i] = "pass"
  BY <1>2 DEF Told, Says, Content, PlaceInv, Disk
<1>3. CASE Providers[i] = "systemd-creds"
  <2>1. held[p] \in DOMAIN files /\ files \in Seq(Contents)
    BY <1>3 DEF PlaceInv, Place, Disk
  <2>2. files[held[p]] \in Contents
    BY <2>1
  <2> QED
    BY <1>3, <2>2 DEF Told, Says, Content
<1> QED
  BY <1>1, <1>2, <1>3 DEF Tools

\* A tool tells what its source says, or inserts a key.
LEMMA SucceedsQuiet ==
    ASSUME PlaceInv, PaidInv, QuietInv, NEW p \in Procs, ToolSucceeds(p)
    PROVE  Seen(p)' /\ Honest(p)' /\ Fresh(p)'
<1>1. /\ owner = p /\ UNCHANGED <<environment, executable, files, path>>
      /\ UNCHANGED <<at, command, next, round, held, answer>>
      /\ IF Told(p) \in {None, Torn, Unsafe}
         THEN exit' = "failed" /\ UNCHANGED <<secret, entry>> /\ UNCHANGED undisturbed
         ELSE /\ exit' = "ok" /\ secret' = [secret EXCEPT ![p] = Told(p)]
              /\ IF Inserts(p)
                 THEN /\ entry' = secret[p]
                      /\ undisturbed' = [r \in Procs |-> r = p /\ undisturbed[p]]
                 ELSE UNCHANGED entry /\ UNCHANGED undisturbed
  BY DEF ToolSucceeds, Calm
<1>2. at[p] = "wait" /\ command[p].op \in {"resolve", "triage", "store"} /\ Provider(p) \in Tools
  BY <1>1 DEF PlaceInv, Place
<1>3. undisturbed'[p] => undisturbed[p]
  BY <1>1
<1> PICK i : i = next[p]
  OBVIOUS
<1>4. CASE command[p].op \in {"resolve", "triage"}
  <2>1. ~ Inserts(p) /\ i \in 1 .. 3 /\ Provider(p) = Providers[i]
    BY <1>4, AtProvider DEF Inserts
  <2>2. UNCHANGED sources /\ path' = path
    BY <1>1, <2>1 DEF sources
  <2>3. \A j : Stand(j)' = Stand(j) /\ Says(j)' = Says(j)
    BY <2>2, SourcesStay
  <2>4. ASSUME undisturbed'[p]
        PROVE  Resolving(p, i)'
    <3>1. Resolving(p, i)
      BY <1>2, <1>3, <1>4, <2>4, AtProvider
    <3>2. Told(p) = Says(i)
      BY <1>2, <1>4, <2>1, <3>1, ToldFacts DEF Resolving
    <3>3. Chosen(command[p], i)'
      BY <1>1, <2>3, <3>1 DEF Resolving, Chosen
    <3>4. round'[p] # 1 /\ Stand(i)' = "available" /\ (Providers[i] = "systemd-creds" => held'[p] = path')
      BY <1>1, <1>2, <2>2, <2>3, <3>1 DEF Resolving
    <3>5. CASE Told(p) \in {None, Torn, Unsafe}
      <4>1. exit' = "failed" /\ Says(i)' \in {None, Torn, Unsafe}
        BY <1>1, <2>3, <3>2, <3>5
      <4> QED
        BY <1>1, <1>2, <3>3, <3>4, <4>1 DEF Resolving
    <3>6. CASE Told(p) \notin {None, Torn, Unsafe}
      <4>1. exit' = "ok" /\ secret'[p] = Says(i)'
        BY <1>1, <2>3, <3>2, <3>6 DEF PlaceInv, Locals
      <4>2. Says(i)' \notin {None, Torn, Unsafe}
        BY <2>3, <3>2, <3>6
      <4> QED
        BY <1>1, <1>2, <3>3, <3>4, <4>1, <4>2 DEF Resolving
    <3> QED
      BY <3>5, <3>6
  <2>5. Seen(p)'
    BY <1>1, <1>4, <2>1, <2>4, ResolvingSeen
  <2> QED
    BY <1>1, <1>2, <2>5, GoingQuiet
<1>5. CASE command[p].op = "store"
  <2>1. Told(p) = secret[p] /\ secret[p] \in Keys
    BY <1>2, <1>5 DEF Told, PlaceInv, Place
  <2>2. Told(p) \notin {None, Torn, Unsafe}
    BY <2>1, CredentialsAssumption
  <2>3. Inserts(p) => Content("pass")' \in Keys
    BY <1>1, <2>1, <2>2 DEF Content
  <2>4. Inserts(p)' = Inserts(p)
    BY <1>1 DEF Inserts, Provider
  <2>5. Storing(p)'
    BY <1>1, <1>2, <2>3, <2>4 DEF Storing
  <2>6. Seen(p)'
    BY <1>1, <1>5, <2>5, StoringSeen
  <2> QED
    BY <1>1, <1>2, <2>6, GoingQuiet
<1> QED
  BY <1>2, <1>4, <1>5

\* The output of the tool is there, in full if nothing was disturbed.
LEMMA ReturnsQuiet ==
    ASSUME PlaceInv, PaidInv, QuietInv, NEW p \in Procs, ToolReturns(p)
    PROVE  Seen(p)' /\ Honest(p)' /\ Fresh(p)'
<1>1. /\ at[p] = "wait" /\ owner = p /\ Joined /\ UNCHANGED disk
      /\ undisturbed' = [undisturbed EXCEPT ![p] = @ /\ Captured = "whole"]
      /\ IF exit # "ok" \/ Captured = "too large"
            \/ (Captured = "empty" /\ ~Inserts(p)) THEN Refused(p)
         ELSE IF command[p].op # "store"
         THEN IF WellFormed(Received(p)) THEN Resolved(p, Received(p))
              ELSE Refused(p)
         ELSE IF Inserts(p) THEN End(p, "stored", <<0>>)
         ELSE /\ Goto(p, "install") /\ secret' = [secret EXCEPT ![p] = Received(p)]
              /\ UNCHANGED <<command, next, round, held, selected, answer>>
  BY DEF ToolReturns
<1>2. undisturbed'[p] => undisturbed[p] /\ Captured = "whole"
  BY <1>1 DEF QuietInv
<1>3. command[p].op \in {"resolve", "triage", "store"} /\ Provider(p) \in Tools
  BY <1>1 DEF PlaceInv, Place
<1>4. exit \in {"ok", "failed", "timeout"}
  <2>1. finished /\ reader = "done"
    BY <1>1 DEF Joined
  <2> QED
    BY <2>1 DEF PlaceInv, Pipe
<1>5. UNCHANGED sources
  BY <1>1 DEF disk, sources
<1>6. Captured = "whole" => Received(p) = secret[p] /\ Captured # "too large" /\ Captured # "empty"
  BY DEF Received
<1> PICK i : i = next[p]
  OBVIOUS
<1>7. CASE command[p].op \in {"resolve", "triage"}
  <2>1. i \in 1 .. 3 /\ Provider(p) = Providers[i] /\ ~ Inserts(p)
    BY <1>7, AtProvider DEF Inserts
  <2>2. undisturbed'[p] => Resolving(p, i)
    BY <1>1, <1>2, <1>7, AtProvider
  <2>3. undisturbed'[p] => /\ Chosen(command[p], i) /\ Stand(i) = "available" /\ round[p] # 1
                           /\ Says(i) \in Contents \cup {None}
                           /\ exit = "ok" => secret[p] = Says(i) /\ Says(i) \notin {None, Torn, Unsafe}
                           /\ exit # "ok" => Says(i) \in {None, Torn, Unsafe}
    <3>1. ASSUME undisturbed'[p]
          PROVE  /\ Chosen(command[p], i) /\ Stand(i) = "available" /\ round[p] # 1
                 /\ Providers[i] = "systemd-creds" => held[p] = path
                 /\ exit = "ok" => secret[p] = Says(i) /\ Says(i) \notin {None, Torn, Unsafe}
                 /\ exit # "ok" => Says(i) \in {None, Torn, Unsafe}
      BY <1>1, <1>4, <2>2, <3>1 DEF Resolving
    <3> QED
      BY <1>1, <1>7, <2>1, <3>1, ToldFacts
  <2>4. Keys \cap {None, Garbled, Spoiled, Unsafe, Torn} = {} /\ Contents = Keys \cup {Garbled, Unsafe, Torn}
    BY CredentialsAssumption DEF Contents
  <2>5. CASE exit = "ok" /\ WellFormed(Received(p)) /\ Resolved(p, Received(p))
    <3>1. undisturbed'[p] => Says(i) = Received(p) /\ Received(p) \in Keys
      BY <1>2, <1>6, <2>3, <2>4, <2>5 DEF WellFormed
    <3> QED
      BY <1>1, <1>5, <1>7, <2>1, <2>3, <2>5, <3>1, ResolvedQuiet
  <2>6. CASE Refused(p) /\ (exit # "ok" \/ Captured = "too large" \/ Captured = "empty"
                            \/ ~ WellFormed(Received(p)))
    <3>1. undisturbed'[p] => Says(i) \notin Keys
      BY <1>2, <1>6, <2>3, <2>4, <2>6 DEF WellFormed
    <3>2. undisturbed'[p] => Stand(i) # "missing"
      BY <2>3
    <3> QED
      BY <1>5, <1>7, <2>1, <2>3, <2>6, <3>1, <3>2, RefusedQuiet
  <2> QED
    BY <1>1, <1>7, <2>5, <2>6
<1>8. CASE command[p].op = "store"
  <2>1. CASE Refused(p)
    <3>1. End(p, "error", <<Provider(p)>>) /\ Right(command[p], "error", <<Provider(p)>>)
      BY <1>8, <2>1, RightOthers DEF Refused
    <3> QED
      BY <1>5, <3>1, EndQuiet
  <2>2. CASE exit = "ok" /\ Inserts(p) /\ End(p, "stored", <<0>>)
    <3>1. undisturbed'[p] => Content("pass") \in Keys
      BY <1>1, <1>2, <1>8, <2>2, AtProvider DEF Storing
    <3>2. command[p].provider = "pass"
      BY <2>2 DEF Inserts, Provider
    <3>3. undisturbed'[p] => Right(command[p], "stored", <<0>>)
      BY <1>8, <3>1, <3>2, RightOthers
    <3> QED
      BY <1>5, <2>2, <3>3, EndQuiet
  <2>3. CASE /\ Goto(p, "install") /\ secret' = [secret EXCEPT ![p] = Received(p)]
             /\ UNCHANGED <<command, next, round, held, selected, answer>>
    <3>1. at'[p] = "install" /\ command'[p] = command[p] /\ answer'[p] = answer[p]
          /\ secret'[p] = Received(p)
      BY <2>3 DEF Goto, PlaceInv, Locals
    <3>2. secret[p] \in Keys
      BY <1>1, <1>8 DEF PlaceInv, Place
    <3>3. undisturbed'[p] => secret'[p] \in Keys
      BY <1>2, <1>6, <3>1, <3>2
    <3>4. undisturbed'[p] => Storing(p)'
      BY <3>1, <3>3 DEF Storing
    <3>5. Seen(p)'
      BY <1>8, <3>1, <3>4, StoringSeen
    <3> QED
      BY <1>1, <3>1, <3>5, GoingQuiet
  <2> QED
    BY <1>1, <1>8, <2>1, <2>2, <2>3
<1> QED
  BY <1>3, <1>7, <1>8

\* The new ciphertext is at the path.
LEMMA InstallQuiet ==
    ASSUME PlaceInv, PaidInv, QuietInv, NEW p \in Procs, Install(p)
    PROVE  Seen(p)' /\ Honest(p)' /\ Fresh(p)'
<1>1. /\ at[p] = "install" /\ files' = Append(files, secret[p]) /\ path' = Len(files')
      /\ undisturbed' = [r \in Procs |-> r = p /\ undisturbed[p]]
      /\ at' = [at EXCEPT ![p] = "sync"] /\ UNCHANGED <<command, answer>>
  BY DEF Install, Goto
<1>2. command[p].op = "store" /\ secret[p] \in Contents /\ files \in Seq(Contents)
  BY <1>1 DEF PlaceInv, Place, Disk
<1>3. at'[p] = "sync" /\ (undisturbed'[p] => undisturbed[p])
  BY <1>1 DEF PlaceInv, Locals
<1>4. files'[path'] = secret[p]
  BY <1>1, <1>2
<1>5. undisturbed'[p] => secret[p] \in Keys
  BY <1>1, <1>2, <1>3, AtProvider DEF Storing
<1>6. undisturbed'[p] => Content("systemd-creds")' \in Keys
  BY <1>4, <1>5 DEF Content
<1>7. undisturbed'[p] => Storing(p)'
  BY <1>3, <1>6 DEF Storing
<1>8. Seen(p)'
  BY <1>1, <1>2, <1>7, StoringSeen
<1> QED
  BY <1>1, <1>3, <1>8, GoingQuiet

\* The store is reported, and the file is at the path.
LEMMA SyncQuiet ==
    ASSUME PlaceInv, PaidInv, QuietInv, NEW p \in Procs, SyncDirectory(p)
    PROVE  Seen(p)' /\ Honest(p)' /\ Fresh(p)'
<1>1. /\ at[p] = "sync" /\ End(p, "stored", <<held[p], anchored>>) /\ UNCHANGED undisturbed
      /\ UNCHANGED <<environment, executable, files, path, entry>>
  BY DEF SyncDirectory, Calm
<1>2. command[p].op = "store" /\ command[p].provider = "systemd-creds"
  BY <1>1 DEF PlaceInv, Place, Provider
<1>3. undisturbed[p] => Content("systemd-creds") \in Keys
  BY <1>1, <1>2, AtProvider DEF Storing
<1>4. undisturbed'[p] => UNCHANGED sources /\ Right(command[p], "stored", <<held[p], anchored>>)
  BY <1>1, <1>2, <1>3, RightOthers DEF sources
<1> QED
  BY <1>1, <1>4, EndQuiet

\* The model is asked, or its cache.
LEMMA AskingQuiet ==
    ASSUME PlaceInv, PaidInv, QuietInv, NEW p \in Procs, Post(p) \/ ReadCache(p)
    PROVE  Seen(p)' /\ Honest(p)' /\ Fresh(p)'
<1>1. /\ at[p] \in {"request", "read cache"} /\ UNCHANGED <<disk, tool>> /\ UNCHANGED undisturbed
      /\ UNCHANGED <<at, local, answer>>
         \/ \E status \in {"accepted", "invalid response", "model error"} : \E heard : End(p, status, heard)
  BY DEF Post, ReadCache, Calm, Return
<1>2. UNCHANGED sources
  BY <1>1 DEF disk, sources
<1>3. at[p] = "request" => command[p].op = "triage"
  BY DEF PlaceInv, Place
<1>4. at[p] = "read cache" => command[p].op = "replay"
  BY DEF PlaceInv, Place
<1>5. CASE UNCHANGED <<at, local, answer>>
  <2>1. Same(p) /\ at[p] # "wait"
    BY <1>1, <1>5 DEF Same, local
  <2> QED
    BY <1>1, <1>2, <2>1, SeenStays DEF QuietInv
<1>6. ASSUME NEW status \in {"accepted", "invalid response", "model error"}, NEW heard, End(p, status, heard)
      PROVE  Seen(p)' /\ Honest(p)' /\ Fresh(p)'
  <2> PICK i : i = next[p]
    OBVIOUS
  <2>1. ASSUME undisturbed'[p]
        PROVE  Right(command[p], status, heard)
    <3>1. CASE at[p] = "request"
      <4>1. i \in 1 .. 3 /\ Resolving(p, i)
        BY <1>1, <1>3, <2>1, <3>1, AtProvider
      <4>2. Chosen(command[p], i) /\ Stand(i) = "available" /\ Says(i) \in Keys
        BY <3>1, <4>1 DEF Resolving
      <4>3. status # "error"
        BY <1>6
      <4>4. command[p].op = "triage"
        BY <1>3, <3>1
      <4> QED
        BY <4>1, <4>2, <4>3, <4>4, RightTriage
    <3>2. CASE at[p] = "read cache"
      BY <1>4, <3>2, RightOthers
    <3> QED
      BY <1>1, <3>1, <3>2
  <2> QED
    BY <1>2, <1>6, <2>1, EndQuiet
<1> QED
  BY <1>1, <1>5, <1>6

\* The others, while one takes a step.
LEMMA OthersQuiet ==
    ASSUME QuietInv, NEW p \in Procs, undisturbed' \in [Procs -> BOOLEAN],
           \A q \in Procs \ {p} : Same(q),
           \A q \in Procs \ {p} : at[q] = "wait" => exit' = exit,
           \A q \in Procs \ {p} : undisturbed'[q] => undisturbed[q] /\ UNCHANGED sources,
           Seen(p)' /\ Honest(p)' /\ Fresh(p)'
    PROVE  QuietInv'
<1>1. ASSUME NEW q \in Procs \ {p}
      PROVE  Seen(q)' /\ Honest(q)' /\ Fresh(q)'
  BY SeenStays DEF QuietInv
<1>2. \A q \in Procs : Seen(q)' /\ Honest(q)' /\ Fresh(q)'
  BY <1>1
<1> QED
  BY <1>2 DEF QuietInv

\* The steps a command takes by itself.
LEMMA OwnQuiet ==
    ASSUME PlaceInv, PaidInv, QuietInv, NEW p \in Procs, Own(p)
    PROVE  QuietInv'
<1>1. Seen(p)' /\ Honest(p)' /\ Fresh(p)'
  <2>1. CASE CallCommand(p)
    BY <2>1, CallQuiet
  <2>2. CASE Look(p)
    BY <2>2, LookQuiet
  <2>3. CASE Open(p)
    BY <2>3, OpenQuiet
  <2>4. CASE ReadCiphertext(p)
    BY <2>4, ReadQuiet
  <2>5. CASE RunTool(p)
    BY <2>5, RunQuiet
  <2>6. CASE ToolReturns(p)
    BY <2>6, ReturnsQuiet
  <2>7. CASE CheckCiphertext(p) \/ CheckEntry(p)
    BY <2>7, ChecksQuiet
  <2>8. CASE Install(p)
    BY <2>8, InstallQuiet
  <2>9. CASE SyncDirectory(p)
    BY <2>9, SyncQuiet
  <2>10. CASE StoreFails(p)
    <3>1. Disturb /\ Refused(p)
      BY <2>10 DEF StoreFails
    <3>2. ~ undisturbed'[p] /\ at'[p] = "ended"
      BY <3>1, EndSteps DEF Disturb, Refused, PlaceInv
    <3> QED
      BY <3>2, DisturbedQuiet
  <2>11. CASE CheckFails(p)
    <3>1. Disturb /\ End(p, "traceback", <<>>)
      BY <2>11 DEF CheckFails
    <3>2. ~ undisturbed'[p] /\ at'[p] = "ended"
      BY <3>1, EndSteps DEF Disturb, PlaceInv
    <3> QED
      BY <3>2, DisturbedQuiet
  <2> QED
    BY <2>1, <2>2, <2>3, <2>4, <2>5, <2>6, <2>7, <2>8, <2>9, <2>10, <2>11 DEF Own
<1>2. \A q \in Procs \ {p} : Same(q)
  BY OwnSteps DEF Steps
<1>3. undisturbed \in [Procs -> BOOLEAN]
  BY DEF QuietInv
<1>e. \A q \in Procs \ {p} : at[q] = "wait" => exit' = exit
  <2>1. UNCHANGED exit \/ owner = p \/ owner = Nobody
    BY DEF Own, CallCommand, Look, Open, ReadCiphertext, RunTool, ToolReturns, CheckCiphertext,
           CheckEntry, Install, SyncDirectory, StoreFails, CheckFails, tool
  <2>2. ASSUME NEW q \in Procs \ {p}, at[q] = "wait"
        PROVE  exit' = exit
    <3>1. owner = q
      BY <2>2 DEF PlaceInv, Place
    <3>2. owner # p /\ owner # Nobody
      BY <3>1, CredentialsAssumption
    <3> QED
      BY <2>1, <3>2
  <2> QED
    BY <2>2
<1>4. CASE UNCHANGED undisturbed /\ UNCHANGED sources
  BY <1>1, <1>2, <1>3, <1>4, <1>e, OthersQuiet
<1>5. CASE UNCHANGED sources /\ \E b \in BOOLEAN : undisturbed' = [undisturbed EXCEPT ![p] = b]
  <2>3. undisturbed' \in [Procs -> BOOLEAN] /\ \A q \in Procs \ {p} : undisturbed'[q] = undisturbed[q]
    BY <1>3, <1>5
  <2> QED
    BY <1>1, <1>2, <1>5, <1>e, <2>3, OthersQuiet
<1>6. CASE /\ \/ Disturb \/ undisturbed' = [r \in Procs |-> r = p /\ undisturbed[p]]
  <2>3. undisturbed' \in [Procs -> BOOLEAN] /\ \A q \in Procs \ {p} : ~ undisturbed'[q]
    BY <1>3, <1>6 DEF Disturb
  <2> QED
    BY <1>1, <1>2, <1>e, <2>3, OthersQuiet
<1>7. \/ UNCHANGED undisturbed /\ UNCHANGED sources
      \/ UNCHANGED sources /\ \E b \in BOOLEAN : undisturbed' = [undisturbed EXCEPT ![p] = b]
      \/ Disturb \/ undisturbed' = [r \in Procs |-> r = p /\ undisturbed[p]]
  <2>1. CASE CallCommand(p)
    BY <2>1 DEF CallCommand, disk, sources
  <2>2. CASE ToolReturns(p)
    <3>1. UNCHANGED sources /\ undisturbed' = [undisturbed EXCEPT ![p] = undisturbed[p] /\ Captured = "whole"]
      BY <2>2 DEF ToolReturns, disk, sources
    <3>2. (undisturbed[p] /\ Captured = "whole") \in BOOLEAN
      OBVIOUS
    <3> QED
      BY <3>1, <3>2
  <2>3. CASE Look(p) \/ Open(p) \/ ReadCiphertext(p) \/ CheckCiphertext(p) \/ CheckEntry(p)
    BY <2>3 DEF Look, Open, ReadCiphertext, CheckCiphertext, CheckEntry, Calm, disk, sources
  <2>4. CASE RunTool(p)
    BY <2>4 DEF RunTool, Calm, disk, sources
  <2>5. CASE SyncDirectory(p)
    BY <2>5 DEF SyncDirectory, Calm, sources
  <2>6. CASE Install(p) \/ StoreFails(p) \/ CheckFails(p)
    BY <2>6 DEF Install, StoreFails, CheckFails
  <2> QED
    BY <2>1, <2>2, <2>3, <2>4, <2>5, <2>6 DEF Own
<1> QED
  BY <1>4, <1>5, <1>6, <1>7

\* Nothing is changed that a command looks at, and nobody moves.
LEMMA CalmQuiet ==
    ASSUME QuietInv, UNCHANGED undisturbed, UNCHANGED sources, UNCHANGED exit, \A q \in Procs : Same(q)
    PROVE  QuietInv'
<1>1. ASSUME NEW q \in Procs
      PROVE  Seen(q)' /\ Honest(q)' /\ Fresh(q)'
  BY SeenStays DEF QuietInv
<1> QED
  BY <1>1 DEF QuietInv

\* Every step keeps what was seen and answered.
LEMMA EveryStepQuiet ==
    ASSUME PlaceInv, PaidInv, QuietInv, [Next]_vars
    PROVE  QuietInv'
<1>0. undisturbed \in [Procs -> BOOLEAN]
  BY DEF QuietInv
<1>1. CASE UNCHANGED vars
  <2>1. UNCHANGED undisturbed /\ UNCHANGED sources /\ UNCHANGED exit /\ \A q \in Procs : Same(q)
    BY <1>1 DEF vars, disk, tool, sources, local, Same
  <2> QED
    BY <2>1, CalmQuiet
<1>2. ASSUME NEW p \in Procs, Call(p) \/ ProcessStep(p) \/ ToolStep(p) \/ Trouble(p)
      PROVE  QuietInv'
  <2>1. CASE Own(p)
    BY <2>1, OwnQuiet
  <2>2. CASE Post(p) \/ ReadCache(p)
    <3>1. Seen(p)' /\ Honest(p)' /\ Fresh(p)'
      BY <2>2, AskingQuiet
    <3>2. UNCHANGED undisturbed /\ UNCHANGED sources /\ UNCHANGED exit
      BY <2>2 DEF Post, ReadCache, Calm, disk, tool, sources
    <3>3. UNCHANGED <<at, local, answer>> \/ \E status, heard : End(p, status, heard)
      BY <2>2 DEF Post, ReadCache, Return
    <3>4. \A q \in Procs \ {p} : Same(q)
      BY <3>3, EndSteps DEF local, Same, PlaceInv
    <3> QED
      BY <1>0, <3>1, <3>2, <3>4, OthersQuiet
  <2>3. CASE ToolSucceeds(p)
    <3>1. Seen(p)' /\ Honest(p)' /\ Fresh(p)'
      BY <2>3, SucceedsQuiet
    <3>2. /\ owner = p /\ UNCHANGED <<environment, executable, files, path>>
          /\ UNCHANGED <<at, command, next, round, held, selected, answer>>
          /\ UNCHANGED secret \/ secret' = [secret EXCEPT ![p] = Told(p)]
          /\ \/ UNCHANGED entry /\ UNCHANGED undisturbed
             \/ undisturbed' = [r \in Procs |-> r = p /\ undisturbed[p]]
      BY <2>3 DEF ToolSucceeds, Calm
    <3>3. \A q \in Procs \ {p} : Same(q)
      BY <3>2 DEF Same, PlaceInv, Locals
    <3>4. \A q \in Procs \ {p} : at[q] # "wait"
      BY <3>2 DEF PlaceInv, Place
    <3>5. undisturbed' \in [Procs -> BOOLEAN]
          /\ \A q \in Procs \ {p} : undisturbed'[q] => undisturbed[q] /\ UNCHANGED sources
      BY <1>0, <3>2 DEF sources
    <3> QED
      BY <3>1, <3>3, <3>4, <3>5, OthersQuiet
  <2>4. CASE ToolFails(p)
    <3>1. owner = p /\ Disturb /\ UNCHANGED at /\ UNCHANGED local /\ UNCHANGED answer
      BY <2>4 DEF ToolFails
    <3>2. at[p] = "wait" /\ \A q \in Procs \ {p} : at[q] # "wait"
      BY <3>1 DEF PlaceInv, Place
    <3>3. undisturbed' \in [Procs -> BOOLEAN] /\ \A q \in Procs : ~ undisturbed'[q]
      BY <3>1 DEF Disturb
    <3>4. Seen(p)' /\ Honest(p)' /\ Fresh(p)'
      BY <3>1, <3>2, <3>3, DisturbedQuiet
    <3>5. \A q \in Procs \ {p} : Same(q)
      BY <3>1 DEF local, Same
    <3> QED
      BY <3>2, <3>3, <3>4, <3>5, OthersQuiet
  <2>5. CASE Kill(p)
    <3>1. End(p, "killed", <<>>) /\ Disturb /\ (owner = p \/ UNCHANGED exit)
      BY <2>5 DEF Kill, tool
    <3>2. at'[p] = "ended" /\ \A q \in Procs \ {p} : Same(q)
      BY <3>1, EndSteps DEF PlaceInv
    <3>3. undisturbed' \in [Procs -> BOOLEAN] /\ \A q \in Procs : ~ undisturbed'[q]
      BY <3>1 DEF Disturb
    <3>4. \A q \in Procs \ {p} : at[q] = "wait" => exit' = exit
      BY <3>1 DEF PlaceInv, Place
    <3>5. Seen(p)' /\ Honest(p)' /\ Fresh(p)'
      BY <3>2, <3>3, DisturbedQuiet
    <3> QED
      BY <3>2, <3>3, <3>4, <3>5, OthersQuiet
  <2> QED
    BY <1>2, <2>1, <2>2, <2>3, <2>4, <2>5 DEF Call, ProcessStep, ToolStep, Trouble, Own
<1>3. CASE Captures
  <2>1. UNCHANGED undisturbed /\ UNCHANGED sources /\ UNCHANGED exit /\ \A q \in Procs : Same(q)
    BY <1>3 DEF Captures, Deliver, Calm, disk, sources, local, Same
  <2> QED
    BY <2>1, CalmQuiet
<1>4. CASE Crash
  <2>1. /\ Disturb /\ next' = [p \in Procs |-> 1] /\ selected' = [p \in Procs |-> None]
    BY <1>4 DEF Crash, PowerLoss
  <2>2. undisturbed' \in [Procs -> BOOLEAN] /\ \A q \in Procs : ~ undisturbed'[q]
    BY <2>1 DEF Disturb
  <2>3. \A q \in Procs : Seen(q)' /\ Honest(q)' /\ Fresh(q)'
    BY <2>1, <2>2 DEF Seen, Honest, Fresh
  <2> QED
    BY <2>2, <2>3 DEF QuietInv
<1> QED
  BY <1>1, <1>2, <1>3, <1>4 DEF Next

\* At the start nothing was seen.
LEMMA StartQuiet ==
    ASSUME Start
    PROVE  QuietInv
<1>1. /\ at = [p \in Procs |-> "idle"] /\ next = [p \in Procs |-> 1]
      /\ selected = [p \in Procs |-> None] /\ answer = [p \in Procs |-> NoCommand]
      /\ undisturbed = [p \in Procs |-> TRUE]
  BY DEF Start, Init
<1> QED
  BY <1>1 DEF QuietInv, Seen, Honest, Fresh

\* CredentialResolver and the store commands: in a quiet time the answers are
\* those that the sources call for, one provider with no way back to another.
THEOREM SourcesAreTold == Spec => []UndisturbedCommandsTellTheSources
<1>1. Start => QuietInv
  BY StartQuiet
<1>2. AccessInv /\ QuietInv /\ [Next]_vars => QuietInv'
  BY EveryStepQuiet DEF AccessInv
<1>3. QuietInv => UndisturbedCommandsTellTheSources
  BY DEF QuietInv, Honest, UndisturbedCommandsTellTheSources
<1> QED
  BY <1>1, <1>2, <1>3, AccessInvariant, PTL DEF Spec

-----------------------------------------------------------------------------
(* What was found is not passed over *)

\* What FoundIsNotPassedOver says of one process.
Keeping(p) ==
    at[p] # "idle" /\ command[p].op \in {"resolve", "triage"} =>
       /\ next'[p] > next[p] => round[p] = 1 /\ Standing(Provider(p)) = "missing"
       /\ answer'[p] # answer[p] /\ answer'[p].status = "key" =>
             answer'[p].what[1] = Provider(p)

\* No step to the next provider, and no key.
Remains(p) ==
    /\ next'[p] \in {1, next[p]}
    /\ answer'[p] = answer[p] \/ answer'[p].status # "key"

\* Then there is nothing to keep to.
LEMMA RemainsKeeps ==
    ASSUME Locals, NEW p \in Procs, Remains(p)
    PROVE  Keeping(p)
<1>1. next[p] \in 1 .. 3
  BY ProviderFacts DEF Locals
<1>2. ~ next'[p] > next[p]
  BY <1>1 DEF Remains
<1> QED
  BY <1>2 DEF Remains, Keeping

\* A command that ends, but by its key, and one that goes on where it is.
LEMMA EndRemains ==
    ASSUME Locals, NEW p \in Procs, NEW status, NEW what, End(p, status, what),
           status # "key"
    PROVE  Remains(p)
<1>1. answer' = [answer EXCEPT ![p] =
         [command |-> command[p], status |-> status, what |-> what]]
  BY DEF End
<1>2. answer'[p] = [command |-> command[p], status |-> status, what |-> what]
  BY <1>1 DEF Locals
<1>3. answer'[p].status = status
  BY <1>2
<1>4. next'[p] = 1
  BY DEF End, Locals
<1> QED
  BY <1>3, <1>4 DEF Remains

\* The key is told with the name of the provider.
LEMMA ResolvedKeeps ==
    ASSUME Locals, NEW p \in Procs, NEW key, Resolved(p, key)
    PROVE  Keeping(p)
<1>1. CASE End(p, "key", <<Provider(p), key>>)
  <2>1. next'[p] = 1
    BY <1>1 DEF End, Locals
  <2>2. answer'[p] = [command |-> command[p], status |-> "key", what |-> <<Provider(p), key>>]
    BY <1>1 DEF End, Locals
  <2>3. ~ next'[p] > next[p]
    BY <2>1, ProviderFacts DEF Locals
  <2>4. answer'[p].what[1] = Provider(p)
    BY <2>2
  <2> QED
    BY <2>3, <2>4 DEF Keeping
<1>2. CASE UNCHANGED <<next, answer>>
  BY <1>2, RemainsKeeps DEF Remains
<1> QED
  BY <1>1, <1>2 DEF Resolved

\* A look whose result is what the source is, if it says that it is missing.
LEMMA SawKeeps ==
    ASSUME Locals, NEW p \in Procs, NEW standing, Saw(p, standing),
           standing = "missing" => Standing(Provider(p)) = "missing"
    PROVE  Keeping(p)
<1>1. ASSUME UNCHANGED <<next, answer>> PROVE Keeping(p)
  BY <1>1, RemainsKeeps DEF Remains
<1>2. ASSUME NEW status, NEW what, End(p, status, what), status # "key" PROVE Keeping(p)
  BY <1>2, EndRemains, RemainsKeeps
<1>3. CASE command[p].op = "status"
  BY <1>3 DEF Keeping
<1>4. CASE Choose(p, standing)
  <2>1. CASE standing = "missing" /\ round[p] = 1 /\ NextProvider(p)
    <3>1. answer' = answer
      BY <2>1 DEF NextProvider
    <3> QED
      BY <2>1, <3>1 DEF Keeping
  <2>2. CASE End(p, "error", <<>>) \/ Refused(p)
    BY <1>2, <2>2 DEF Refused
  <2>3. CASE Resolved(p, environment)
    BY <2>3, ResolvedKeeps
  <2>4. CASE Proceed(p, "tool") \/ LookAgain(p)
    BY <1>1, <2>4 DEF Proceed, LookAgain, local
  <2> QED
    BY <1>4, <2>1, <2>2, <2>3, <2>4 DEF Choose
<1> QED
  BY <1>3, <1>4 DEF Saw

\* A command by itself, and what befalls it.
LEMMA OwnKeeps ==
    ASSUME Locals, NEW p \in Procs, Call(p) \/ ProcessStep(p) \/ ToolStep(p) \/ Trouble(p)
    PROVE  Keeping(p)
<1>1. ASSUME UNCHANGED <<next, answer>> PROVE Keeping(p)
  BY <1>1, RemainsKeeps DEF Remains
<1>2. ASSUME NEW status, NEW what, End(p, status, what), status # "key" PROVE Keeping(p)
  BY <1>2, EndRemains, RemainsKeeps
<1>3. CASE Call(p)
  BY <1>3 DEF Call, CallCommand, Keeping
<1>4. CASE Look(p)
  <2>1. CASE Proceed(p, "open")
    BY <1>1, <2>1 DEF Proceed, local
  <2>2. CASE Saw(p, Standing(Provider(p)))
    BY <2>2, SawKeeps
  <2> QED
    BY <1>4, <2>1, <2>2 DEF Look
<1>5. CASE ReadCiphertext(p)
  <2>1. PICK standing \in {"available", "broken"} : Saw(p, standing)
    BY <1>5 DEF ReadCiphertext
  <2> QED
    BY <2>1, SawKeeps
<1>6. CASE Open(p) \/ RunTool(p) \/ Install(p)
  BY <1>1, <1>6 DEF Open, RunTool, Install, Proceed, local
<1>7. CASE ToolReturns(p)
  <2>1. \/ Refused(p) \/ Resolved(p, Received(p)) \/ End(p, "stored", <<0>>)
        \/ UNCHANGED <<next, answer>>
    BY <1>7 DEF ToolReturns
  <2> QED
    BY <1>1, <1>2, <2>1, ResolvedKeeps DEF Refused
<1>8. CASE CheckCiphertext(p) \/ CheckEntry(p) \/ SyncDirectory(p) \/ StoreFails(p)
           \/ CheckFails(p) \/ Kill(p)
  <2>1. \/ Refused(p) \/ Proceed(p, "tool") \/ End(p, "stored", <<held[p], anchored>>)
        \/ End(p, "traceback", <<>>) \/ End(p, "killed", <<>>)
    BY <1>8 DEF CheckCiphertext, CheckEntry, SyncDirectory, StoreFails, CheckFails, Kill
  <2> QED
    BY <1>1, <1>2, <2>1 DEF Refused, Proceed, local
<1>9. CASE ToolStep(p) \/ ToolFails(p)
  BY <1>1, <1>9 DEF ToolStep, ToolSucceeds, ToolFails, local
<1>10. CASE Post(p) \/ ReadCache(p)
  <2>1. \/ UNCHANGED <<next, answer>>
        \/ \E status \in {"accepted", "invalid response", "model error"} :
              \E what : End(p, status, what)
    BY <1>10 DEF Post, ReadCache, Return, local
  <2> QED
    BY <1>1, <1>2, <2>1
<1> QED
  BY <1>3, <1>4, <1>5, <1>6, <1>7, <1>8, <1>9, <1>10 DEF ProcessStep, Trouble

\* And the others, whatever happens.
LEMMA EveryStepKeeps ==
    ASSUME AccessInv, AccessInv', [Next]_vars
    PROVE  \A p \in Procs : Keeping(p)
<1> Locals
  BY DEF AccessInv, PlaceInv
<1>1. ASSUME UNCHANGED <<next, answer>> PROVE \A p \in Procs : Keeping(p)
  BY <1>1, RemainsKeeps DEF Remains
<1>2. CASE UNCHANGED vars
  BY <1>1, <1>2 DEF vars, local
<1>3. ASSUME NEW p \in Procs, Call(p) \/ ProcessStep(p) \/ ToolStep(p) \/ Trouble(p)
      PROVE  \A q \in Procs : Keeping(q)
  <2>1. \A q \in Procs \ {p} : next'[q] = next[q] /\ answer'[q] = answer[q]
    <3>1. CASE Own(p) \/ Kill(p)
      <4>1. Steps(p)
        BY <3>1, OwnSteps, KillPlaced DEF AccessInv
      <4> QED
        BY <4>1 DEF Steps, Same
    <3>2. CASE UNCHANGED <<next, answer>>
      BY <3>2
    <3>3. CASE \E status, what : End(p, status, what)
      BY <3>3 DEF End
    <3>4. CASE ToolStep(p) \/ ToolFails(p)
      BY <3>2, <3>4 DEF ToolStep, ToolSucceeds, ToolFails, local
    <3>5. CASE Post(p) \/ ReadCache(p)
      BY <3>2, <3>3, <3>5 DEF Post, ReadCache, Return, local
    <3> QED
      BY <1>3, <3>1, <3>4, <3>5 DEF Call, ProcessStep, Trouble, Own
  <2>2. \A q \in Procs \ {p} : Keeping(q)
    BY <2>1, RemainsKeeps DEF Remains
  <2> QED
    BY <1>3, <2>2, OwnKeeps
<1>4. CASE Captures
  BY <1>1, <1>4 DEF Captures, Deliver, local
<1>5. CASE Crash
  <2>1. next' = [q \in Procs |-> 1] /\ answer' = answer
    BY <1>5 DEF Crash, PowerLoss
  <2> QED
    BY <2>1, RemainsKeeps DEF Remains
<1> QED
  BY <1>2, <1>3, <1>4, <1>5 DEF Next

\* CredentialResolver, whatever changes while it resolves: a provider that was
\* found is used or fails, and never makes room for the next.
THEOREM NothingFoundIsPassedOver == Spec => FoundIsNotPassedOver
<1>1. AccessInv /\ AccessInv' /\ [Next]_vars => \A p \in Procs : Keeping(p)
  BY EveryStepKeeps
<1>2. AccessInv /\ AccessInv' /\ [Next]_vars =>
        [\A p \in Procs :
          at[p] # "idle" /\ command[p].op \in {"resolve", "triage"} =>
             /\ next'[p] > next[p] =>
                   round[p] = 1 /\ Standing(Provider(p)) = "missing"
             /\ answer'[p] # answer[p] /\ answer'[p].status = "key" =>
                   answer'[p].what[1] = Provider(p)]_vars
  BY <1>1 DEF Keeping
<1> QED
  BY <1>2, AccessInvariant, PTL DEF Spec, FoundIsNotPassedOver

=============================================================================
