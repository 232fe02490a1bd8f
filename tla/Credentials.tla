---------------------------- MODULE Credentials ----------------------------
(***************************************************************************)
(* The three sources of the DeepSeek key and the commands that read, show  *)
(* and replace them, process by process and system call by system call.    *)
(* The file of systemd-creds is an inode that a rename replaces; a reader  *)
(* holds the one it opened.  The entry of pass is external: its tool       *)
(* changes it.  Tools run under the capture of PipeCapture, one at a time  *)
(* (a bound).  Keys are values; what is captured of a key in part, or with *)
(* something else behind it, is Spoiled, which is well-formed at worst.    *)
(***************************************************************************)
EXTENDS PipeCapture, SequencesExt

CONSTANTS
    Procs,          \* processes of one operator, one for each command
    Keys,           \* well-formed keys
    Workloads,      \* the commands an operator may give them
    Sources,        \* what the key sources may be like at the start
    Whole,          \* chunks of a correct answer of a tool
    MaxIncidents    \* bound: tools that misbehave, refused calls, kills

Nobody == "nobody"
None == "none"
Garbled == "garbled"        \* no well-formed key
Spoiled == "spoiled"        \* well-formed, and not the key that was stored
Unsafe == "unsafe"          \* a file with the wrong owner, mode or type
Torn == "torn"              \* a file that does not decrypt
Contents == Keys \cup {Garbled, Unsafe, Torn}

Providers == <<"environment", "systemd-creds", "pass">>
ProviderIds == ToSet(Providers)

ASSUME CredentialsAssumption ==
    /\ IsFiniteSet(Procs) /\ Nobody \notin Procs
    /\ Keys \cap {None, Garbled, Spoiled, Unsafe, Torn} = {}
    /\ Workloads \subseteq [Procs ->
         [op : {"resolve", "triage"}, selection : ProviderIds \cup {"auto"}]
         \cup [op : {"status", "replay"}]
         \cup [op : {"store"}, provider : {"systemd-creds", "pass"}, replace : BOOLEAN]]
    /\ Sources \subseteq
         [environment : Keys \cup {None, Garbled},
          executable : [{"systemd-creds", "pass"} -> {"ok", "missing", "unsafe"}],
          file : Contents \cup {None}, entry : Contents \cup {None},
          directory : {"private", Unsafe, "absent"}]
    /\ \A s \in Sources : s.directory = "absent" => s.file = None
    /\ MaxIncidents \in Nat
    /\ Whole \in 1 .. Limit - 1 /\ Whole < Output

VARIABLES
    environment,    \* DEEPSEEK_API_KEY
    executable,     \* what the two tools are like
    files,          \* what the ciphertext files decrypt to, in order
    flushed,        \* those whose data is on the disk
    path, durable,  \* the file at the credential path, and the one a power
                    \* loss that spares its directory leaves there at least;
                    \* 0 for none
    directory,      \* the first file that the present credential directory
                    \* can hold; 0 if there is no such directory
    private,        \* its owner and mode are as they should be
    anchored,       \* its own entry, and those above it, are on the disk
    entry,          \* the entry of pass
    owner, exit,    \* whose tool the capture serves, and how it ended
    at,             \* where each process is in its command
    command,        \* what it was asked for
    next, round,    \* providers it has passed over, looks at the present one
    held,           \* the ciphertext file it has open
    secret,         \* the key it stores, or that the tool tells it
    selected,       \* what status has selected so far
    answer,         \* how its last command ended
    undisturbed,    \* no source changed and nothing failed since it began
    incidents

folder == <<directory, private, anchored>>
disk == <<environment, executable, files, flushed, path, durable, entry, folder>>
tool == <<capture, owner, exit>>
local == <<command, next, round, held, secret, selected>>

NoCommand == [op |-> "none"]

Init ==
    /\ \E s \in Sources :
         /\ environment = s.environment /\ executable = s.executable
         /\ entry = s.entry /\ files = IF s.file = None THEN <<>> ELSE <<s.file>>
         /\ directory = IF s.directory = "absent" THEN 0 ELSE 1
         /\ private = (s.directory # Unsafe) /\ anchored = (s.directory # "absent")
    /\ path = Len(files) /\ durable = Len(files) /\ flushed = DOMAIN files
    /\ Closed /\ owner = Nobody /\ exit = None
    /\ at = [p \in Procs |-> "idle"] /\ command \in Workloads
    /\ next = [p \in Procs |-> 1] /\ round = [p \in Procs |-> 1]
    /\ held = [p \in Procs |-> 0] /\ secret = [p \in Procs |-> None]
    /\ selected = [p \in Procs |-> None]
    /\ answer = [p \in Procs |-> NoCommand]
    /\ undisturbed = [p \in Procs |-> TRUE] /\ incidents = 0

Goto(p, where) == at' = [at EXCEPT ![p] = where]
Proceed(p, where) == Goto(p, where) /\ UNCHANGED <<local, answer>>
Provider(p) == IF command[p].op = "store" THEN command[p].provider ELSE Providers[next[p]]

\* A step after which nothing another command saw need be true any more.
Disturb == undisturbed' = [p \in Procs |-> FALSE]
Incident == incidents < MaxIncidents /\ incidents' = incidents + 1
Calm == UNCHANGED <<undisturbed, incidents>>

\* The command returns or raises; its variables are gone.
End(p, status, what) ==
    /\ Goto(p, "ended")
    /\ answer' = [answer EXCEPT ![p] =
         [command |-> command[p], status |-> status, what |-> what]]
    /\ command' = [command EXCEPT ![p] = NoCommand]
    /\ next' = [next EXCEPT ![p] = 1] /\ round' = [round EXCEPT ![p] = 1]
    /\ held' = [held EXCEPT ![p] = 0] /\ secret' = [secret EXCEPT ![p] = None]
    /\ selected' = [selected EXCEPT ![p] = None]

-----------------------------------------------------------------------------
(* Discovery and loading. *)

\* _validated_api_key
WellFormed(text) == text # Garbled

EnvironmentStanding ==
    IF environment = None THEN "missing"
    ELSE IF ~WellFormed(environment) THEN "broken" ELSE "available"

SystemdStanding ==
    IF path = 0 THEN "missing" ELSE IF files[path] = Unsafe THEN "broken" ELSE "available"

PassStanding ==
    IF entry = None THEN "missing" ELSE IF entry = Unsafe THEN "broken" ELSE "available"

\* What availability() of a provider says: missing, broken (it raises) or there.
Standing(q) ==
    CASE q = "environment" -> EnvironmentStanding
      [] q # "environment" /\ executable[q] # "ok" ->
           IF executable[q] = "missing" THEN "missing" ELSE "broken"
      [] q = "systemd-creds" /\ executable[q] = "ok" -> SystemdStanding
      [] q = "pass" /\ executable[q] = "ok" -> PassStanding

CallCommand(p) ==
    /\ at[p] = "idle"
    /\ LET c == command[p] IN
         /\ Goto(p, IF c.op = "store" THEN "check"
                    ELSE IF c.op = "replay" THEN "read cache" ELSE "look")
         /\ IF c.op \in {"resolve", "triage"} /\ c.selection # "auto"
            THEN \E i \in DOMAIN Providers :
                   Providers[i] = c.selection /\ next' = [next EXCEPT ![p] = i]
            ELSE UNCHANGED next
         /\ IF c.op = "store"
            THEN \E k \in Keys : secret' = [secret EXCEPT ![p] = k]
            ELSE UNCHANGED secret
    /\ undisturbed' = [undisturbed EXCEPT ![p] = TRUE]
    /\ UNCHANGED <<disk, tool, command, round, held, selected, answer, incidents>>

\* The resolver is given the key.  A triage goes on with it.
Resolved(p, key) ==
    IF command[p].op = "triage"
    THEN /\ Goto(p, "request") /\ secret' = [secret EXCEPT ![p] = key]
         /\ UNCHANGED <<command, next, round, held, selected, answer>>
    ELSE End(p, "key", <<Provider(p), key>>)

Refused(p) == End(p, "error", <<Provider(p)>>)

NextProvider(p) ==
    /\ next' = [next EXCEPT ![p] = @ + 1] /\ Goto(p, "look")
    /\ UNCHANGED <<command, round, held, secret, answer>>

\* CredentialResolver.status after the look at one provider.
Show(p, standing) ==
    LET choice == IF selected[p] = None /\ standing # "missing"
                  THEN Provider(p) ELSE selected[p]
    IN IF next[p] = Len(Providers) THEN End(p, "shown", <<choice>>)
       ELSE NextProvider(p) /\ selected' = [selected EXCEPT ![p] = choice]

\* The provider is there: resolve() calls load_secret(), which looks again.
LookAgain(p) ==
    /\ round' = [round EXCEPT ![p] = @ + 1]
    /\ Goto(p, IF round[p] = 1 THEN "look"
               ELSE IF Provider(p) = "systemd-creds" THEN "open" ELSE "tool")
    /\ UNCHANGED <<command, next, held, secret, selected, answer>>

\* Mutant of Choose: what cannot be used is passed over.
ChooseFallsBack(p, standing) ==
    IF standing # "available" /\ command[p].selection = "auto" /\ round[p] = 1
    THEN IF next[p] = Len(Providers) THEN End(p, "error", <<>>)
         ELSE NextProvider(p) /\ UNCHANGED selected
    ELSE IF standing # "available" THEN Refused(p)
    ELSE IF Provider(p) = "environment" /\ round[p] = 2 THEN Resolved(p, environment)
    ELSE IF round[p] = 3 THEN Proceed(p, "tool")
    ELSE LookAgain(p)

\* Mutant of Choose: what was found and cannot be used any more is passed over.
ChooseFallsBackLate(p, standing) ==
    IF command[p].selection = "auto" /\ ((standing = "missing") = (round[p] = 1))
       /\ standing # "available"
    THEN IF next[p] = Len(Providers) THEN End(p, "error", <<>>)
         ELSE NextProvider(p) /\ UNCHANGED selected
    ELSE IF standing # "available" THEN Refused(p)
    ELSE IF Provider(p) = "environment" /\ round[p] = 2 THEN Resolved(p, environment)
    ELSE IF round[p] = 3 THEN Proceed(p, "tool")
    ELSE LookAgain(p)

\* CredentialResolver.resolve and load_secret() after a look.
Choose(p, standing) ==
    IF standing = "missing" /\ command[p].selection = "auto" /\ round[p] = 1
    THEN IF next[p] = Len(Providers) THEN End(p, "error", <<>>)
         ELSE NextProvider(p) /\ UNCHANGED selected
    ELSE IF standing # "available" THEN Refused(p)
    ELSE IF Provider(p) = "environment" /\ round[p] = 2 THEN Resolved(p, environment)
    ELSE IF round[p] = 3 THEN Proceed(p, "tool")
    ELSE LookAgain(p)

Saw(p, standing) ==
    IF command[p].op = "status" THEN Show(p, standing) ELSE Choose(p, standing)

\* availability(), but for the ciphertext: only its presence is seen here.
Look(p) ==
    /\ at[p] = "look"
    /\ LET q == Provider(p) IN
       IF q = "systemd-creds" /\ executable[q] = "ok" /\ path # 0
       THEN Proceed(p, "open") ELSE Saw(p, Standing(q))
    /\ UNCHANGED <<disk, tool>> /\ Calm

Open(p) ==
    /\ at[p] = "open" /\ path # 0
    /\ held' = [held EXCEPT ![p] = path] /\ Goto(p, "read")
    /\ UNCHANGED <<disk, tool, command, next, round, secret, selected, answer>>
    /\ Calm

\* An open file that is no longer at the path has no link and is refused.
ReadCiphertext(p) ==
    /\ at[p] = "read"
    /\ Saw(p, IF held[p] = path /\ files[path] # Unsafe
              THEN "available" ELSE "broken")
    /\ UNCHANGED <<disk, tool>> /\ Calm

-----------------------------------------------------------------------------
(* Tools. *)

\* What the tool of the process writes, if it does what it is for.
Told(p) ==
    IF command[p].op = "store" THEN secret[p]
    ELSE IF Provider(p) = "pass" THEN entry ELSE files[held[p]]

RunTool(p) ==
    /\ at[p] = "tool" /\ owner = Nobody /\ owner' = p
    /\ \E chunks \in {Whole, Output} :
         /\ Spawn(chunks)
         /\ IF chunks = Whole THEN Calm ELSE Incident /\ Disturb
    /\ Proceed(p, "wait") /\ UNCHANGED <<disk, exit>>

Inserts(p) == command[p].op = "store" /\ Provider(p) = "pass"

\* The tool has said all it has to say.  It fails when there is no key to tell.
ToolSucceeds(p) ==
    /\ owner = p /\ exit = None /\ written = size /\ ToolEnds
    /\ IF Told(p) \in {None, Torn, Unsafe}
       THEN exit' = "failed" /\ UNCHANGED <<secret, entry>> /\ Calm
       ELSE /\ exit' = "ok" /\ secret' = [secret EXCEPT ![p] = Told(p)]
            /\ IF Inserts(p)
               THEN /\ entry' = secret[p] /\ UNCHANGED incidents
                    /\ undisturbed' = [r \in Procs |-> r = p /\ undisturbed[p]]
               ELSE UNCHANGED entry /\ Calm
    /\ UNCHANGED <<environment, executable, files, flushed, path, durable, folder,
                   owner, at, command, next, round, held, selected, answer>>

\* The tool fails or runs into its timeout, with or without its effect.
ToolFails(p) ==
    /\ owner = p /\ exit = None /\ ToolEnds /\ Incident /\ Disturb
    /\ exit' \in {"failed", "timeout"}
    /\ \/ UNCHANGED entry
       \/ Inserts(p) /\ entry' = secret[p]
    /\ UNCHANGED <<environment, executable, files, flushed, path, durable, folder,
                   owner, at, local, answer>>

Deliver ==
    /\ CaptureSteps
    /\ UNCHANGED <<disk, owner, exit, at, local, answer>> /\ Calm

\* The captured bytes; those that are not all the tool wrote, or more than
\* that, do not decrypt, and look like a key at worst.
Received(p) ==
    IF Captured = "whole" THEN secret[p]
    ELSE IF command[p].op = "store" THEN Torn ELSE Spoiled

\* subprocess.run has returned or raised, and the capture is finished.
ToolReturns(p) ==
    /\ at[p] = "wait" /\ owner = p /\ Joined
    /\ IF exit # "ok" \/ Captured = "too large"
          \/ (Captured = "empty" /\ ~Inserts(p)) THEN Refused(p)
       ELSE IF command[p].op # "store"
       THEN IF WellFormed(Received(p)) THEN Resolved(p, Received(p))
            ELSE Refused(p)
       ELSE IF Inserts(p) THEN End(p, "stored", <<0>>)
       ELSE /\ Goto(p, "install") /\ secret' = [secret EXCEPT ![p] = Received(p)]
            /\ UNCHANGED <<command, next, round, held, selected, answer>>
    /\ Close /\ owner' = Nobody /\ exit' = None
    /\ undisturbed' = [undisturbed EXCEPT ![p] = @ /\ Captured = "whole"]
    /\ UNCHANGED <<disk, incidents>>

-----------------------------------------------------------------------------
(* credentials set-deepseek. *)

\* mkdir with parents, which nothing flushes in the directories above them.
MakeDirectory ==
    IF directory # 0 THEN UNCHANGED folder
    ELSE directory' = Len(files) + 1 /\ private' = TRUE /\ anchored' = FALSE

\* The directory is made before anything else is looked at, and stays whatever
\* comes of the command.  A symbolic link is not replaced; a file with the
\* wrong owner or mode is.
CheckCiphertext(p) ==
    /\ at[p] = "check" /\ Provider(p) = "systemd-creds"
    /\ \/ executable["systemd-creds"] # "ok" /\ Refused(p) /\ UNCHANGED folder
       \/ /\ executable["systemd-creds"] = "ok" /\ MakeDirectory
          /\ \/ private' /\ (path # 0 => command[p].replace) /\ Proceed(p, "tool")
             \/ ~private' /\ Refused(p)
             \/ path # 0 /\ (~command[p].replace \/ files[path] = Unsafe) /\ Refused(p)
    /\ UNCHANGED <<environment, executable, files, flushed, path, durable, entry, tool>>
    /\ Calm

\* mkdir, or a look at the path, is refused: no one catches the OSError.
CheckFails(p) ==
    /\ at[p] = "check" /\ Provider(p) = "systemd-creds"
    /\ executable["systemd-creds"] = "ok"
    /\ Incident /\ Disturb /\ End(p, "traceback", <<>>)
    /\ MakeDirectory \/ UNCHANGED folder
    /\ UNCHANGED <<environment, executable, files, flushed, path, durable, entry, tool>>

CheckEntry(p) ==
    /\ at[p] = "check" /\ Provider(p) = "pass"
    /\ IF \/ executable["pass"] # "ok" \/ entry = Unsafe
          \/ (entry # None /\ ~command[p].replace)
       THEN Refused(p) ELSE Proceed(p, "tool")
    /\ UNCHANGED <<disk, tool>> /\ Calm

\* The temporary file is written, flushed and renamed over the credential.
Install(p) ==
    /\ at[p] = "install"
    /\ files' = Append(files, secret[p]) /\ flushed' = flushed \cup {Len(files')}
    /\ path' = Len(files') /\ held' = [held EXCEPT ![p] = path']
    /\ undisturbed' = [r \in Procs |-> r = p /\ undisturbed[p]]
    /\ Goto(p, "sync")
    /\ UNCHANGED <<environment, executable, durable, entry, folder, tool, command,
                   next, round, secret, selected, answer, incidents>>

\* Mutant of SyncDirectory: the directory is not flushed.
SyncDirectoryNever(p) ==
    /\ at[p] = "sync" /\ UNCHANGED durable /\ End(p, "stored", <<held[p], anchored>>)
    /\ UNCHANGED <<environment, executable, files, flushed, path, entry, folder, tool>>
    /\ Calm

\* The directory that holds the file is flushed, those above it are not.
SyncDirectory(p) ==
    /\ at[p] = "sync" /\ durable' = path /\ End(p, "stored", <<held[p], anchored>>)
    /\ UNCHANGED <<environment, executable, files, flushed, path, entry, folder, tool>>
    /\ Calm

\* A system call is refused; a failed flush leaves the new file in place.
StoreFails(p) ==
    /\ at[p] \in {"install", "sync"} /\ Incident /\ Disturb
    /\ Refused(p) /\ UNCHANGED <<disk, tool>>

-----------------------------------------------------------------------------
(* The end of a process and of the machine. *)

\* The tool of a killed process lives on, and may have its effect yet.
Kill(p) ==
    /\ at[p] \notin {"idle", "ended"} /\ Incident /\ Disturb /\ End(p, "killed", <<>>)
    /\ IF owner = p THEN Close /\ owner' = Nobody /\ exit' = None ELSE UNCHANGED tool
    /\ \/ UNCHANGED entry
       \/ owner = p /\ exit = None /\ Inserts(p) /\ entry' = secret[p]
    /\ UNCHANGED <<environment, executable, files, flushed, path, durable, folder>>

\* A rename that was not flushed may be lost, and so may unflushed data, and a
\* directory, with all it holds, whose own entry was not flushed.
PowerLoss ==
    /\ Incident /\ Disturb
    /\ \/ /\ directory # 0 /\ path' \in {path, durable}
          /\ anchored' = TRUE /\ UNCHANGED <<directory, private>>
       \/ /\ ~anchored /\ path' = 0 /\ directory' = 0
          /\ UNCHANGED <<private, anchored>>
    /\ durable' = path'
    /\ files' = [i \in DOMAIN files |-> IF i \in flushed THEN files[i] ELSE Torn]
    /\ flushed' = DOMAIN files
    /\ Close /\ owner' = Nobody /\ exit' = None
    /\ at' = [p \in Procs |-> IF at[p] = "idle" THEN "idle" ELSE "ended"]
    /\ command' = [p \in Procs |-> IF at[p] = "idle" THEN command[p] ELSE NoCommand]
    /\ next' = [p \in Procs |-> 1] /\ round' = [p \in Procs |-> 1]
    /\ held' = [p \in Procs |-> 0] /\ secret' = [p \in Procs |-> None]
    /\ selected' = [p \in Procs |-> None]
    /\ UNCHANGED <<environment, executable, entry, answer>>

=============================================================================
