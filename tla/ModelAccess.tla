---------------------------- MODULE ModelAccess ----------------------------
(***************************************************************************)
(* The commands of Credentials and the calls of the model that a triage    *)
(* makes with the key it resolved: one role of the agents' workflow, its   *)
(* bounded repair of the schema, the transport retries of DeepSeekLLM and  *)
(* the cache of ReplayLLM.  A process remembers every reply of the role.   *)
(* The other roles go the same way (module Triage).                        *)
(***************************************************************************)
EXTENDS Credentials

VARIABLES
    replies,    \* the replies a process has had from the model
    tries,      \* requests of the present call of complete()
    repair      \* the attempt of the role: 0, and 1 for the repair

call == <<replies, tries, repair>>
vars == <<disk, tool, at, local, answer, undisturbed, incidents, call>>

MaximumAttempts == 3        \* _DEEPSEEK_MAXIMUM_TRANSPORT_ATTEMPTS
MaximumRepairs == 1         \* maximum_schema_repairs_per_agent

\* What the provider does of a request, and whether its response is read before
\* the connection breaks or its timeout has passed.  A request that does not
\* reach the provider is never answered.
Replies ==
    [status : {"200", "429", "5xx", "other"}, large : BOOLEAN,
     finished : BOOLEAN, valid : BOOLEAN, arrives : BOOLEAN]
    \cup [status : {"none"}, large : {FALSE}, finished : {FALSE}, valid : {FALSE},
          arrives : {FALSE}]

-----------------------------------------------------------------------------
(* DeepSeekLLM and ReplayLLM. *)

\* _deepseek_retryable: the connection failed, whatever the provider has done,
\* or it said so; a body that is too large hides the status.
Retryable(reply) ==
    ~reply.arrives \/ (reply.status \in {"429", "5xx"} /\ ~reply.large)

\* A success, within the limit of the size.
Answered(reply) == reply.arrives /\ reply.status = "200" /\ ~reply.large

\* The envelope is well-formed and the model stopped by itself.
Finished(reply) == Answered(reply) /\ reply.finished

\* Its content has the response schema.
Validated(reply) == Finished(reply) /\ reply.valid

\* Mutant of Kind: a bad envelope is taken for a failure of the transport.
KindRetriesInvalid(reply) ==
    IF Retryable(reply) \/ (Answered(reply) /\ ~Finished(reply)) THEN "retryable"
    ELSE IF ~Answered(reply) THEN "final" ELSE "valid"

\* What complete() makes of it: it tries again, raises ModelError, raises
\* ModelResponseError or returns.
Kind(reply) ==
    IF Retryable(reply) THEN "retryable"
    ELSE IF ~Answered(reply) THEN "final"
    ELSE IF Validated(reply) THEN "valid" ELSE "invalid"

\* complete() returns to the role, or raises; a bad answer is asked for again
\* once, with what was wrong with it.
Return(p, kind, heard) ==
    IF kind = "invalid" /\ repair[p] < MaximumRepairs
    THEN /\ replies' = [replies EXCEPT ![p] = heard]
         /\ tries' = [tries EXCEPT ![p] = 0]
         /\ repair' = [repair EXCEPT ![p] = @ + 1]
         /\ UNCHANGED <<at, local, answer>>
    ELSE /\ End(p, CASE kind = "valid" -> "accepted"
                     [] kind = "invalid" -> "invalid response"
                     [] OTHER -> "model error", heard)
         /\ replies' = [replies EXCEPT ![p] = <<>>]
         /\ tries' = [tries EXCEPT ![p] = 0] /\ repair' = [repair EXCEPT ![p] = 0]

\* What a reply is to somebody who pays for it: "lost" is an answer of the model
\* that the client does not get, which it cannot tell from a "transient" failure.
Heard(reply) ==
    IF ~reply.arrives
    THEN IF reply.status = "200" THEN "lost" ELSE "transient"
    ELSE IF reply.large \/ reply.status = "other" THEN "permanent"
    ELSE IF reply.status # "200" THEN "transient"
    ELSE IF reply.finished /\ reply.valid THEN "good" ELSE "bad"

\* To the client no answer has come.
Silence == {"transient", "lost"}

Post(p) ==
    /\ at[p] = "request"
    /\ \E reply \in Replies :
         IF Kind(reply) = "retryable" /\ tries[p] + 1 < MaximumAttempts
         THEN /\ replies' = [replies EXCEPT ![p] = Append(@, Heard(reply))]
              /\ tries' = [tries EXCEPT ![p] = @ + 1]
              /\ UNCHANGED <<repair, at, local, answer>>
         ELSE Return(p, Kind(reply), Append(replies[p], Heard(reply)))
    /\ UNCHANGED <<disk, tool>> /\ Calm

\* An entry of the cache is missing or unsafe, or it is validated as a reply.
ReadCache(p) ==
    /\ at[p] = "read cache"
    /\ \E kind \in {"final", "invalid", "valid"} : Return(p, kind, <<>>)
    /\ UNCHANGED <<disk, tool>> /\ Calm

-----------------------------------------------------------------------------

Start ==
    /\ Init
    /\ replies = [p \in Procs |-> <<>>]
    /\ tries = [p \in Procs |-> 0] /\ repair = [p \in Procs |-> 0]

ProcessStep(p) ==
    \/ /\ \/ Look(p) \/ Open(p) \/ ReadCiphertext(p)
          \/ RunTool(p) \/ ToolReturns(p)
          \/ CheckCiphertext(p) \/ CheckEntry(p) \/ Install(p) \/ SyncDirectory(p)
       /\ UNCHANGED call
    \/ Post(p) \/ ReadCache(p)

ToolStep(p) == ToolSucceeds(p) /\ UNCHANGED call

Call(p) == CallCommand(p) /\ UNCHANGED call

Trouble(p) ==
    \/ (ToolFails(p) \/ CheckFails(p) \/ StoreFails(p)) /\ UNCHANGED call
    \/ /\ Kill(p)
       /\ replies' = [replies EXCEPT ![p] = <<>>]
       /\ tries' = [tries EXCEPT ![p] = 0] /\ repair' = [repair EXCEPT ![p] = 0]

Crash ==
    /\ PowerLoss
    /\ replies' = [p \in Procs |-> <<>>]
    /\ tries' = [p \in Procs |-> 0] /\ repair' = [p \in Procs |-> 0]

Captures == Deliver /\ UNCHANGED call

Next ==
    \/ \E p \in Procs : Call(p) \/ ProcessStep(p) \/ ToolStep(p) \/ Trouble(p)
    \/ Captures \/ Crash

\* Processes, reading threads and tools go on; a tool that did nothing would
\* be killed by its timeout.  A process that a tool left behind need not.
Fairness ==
    /\ \A p \in Procs : WF_vars(ProcessStep(p))
    /\ WF_vars(\E p \in Procs : ToolStep(p))
    /\ WF_vars(Captures /\ ReaderSteps)
    /\ WF_vars(Captures /\ (("tool" \in writers /\ ToolWrites)
                            \/ CloseOwnEnd \/ SetFinished))

Spec == Start /\ [][Next]_vars /\ Fairness

-----------------------------------------------------------------------------
(* Properties. *)

TypeOK ==
    /\ CaptureType
    /\ environment \in Keys \cup {None, Garbled} /\ entry \in Contents \cup {None}
    /\ Len(files) <= 1 + Cardinality(Procs) /\ ToSet(files) \subseteq Contents
    /\ flushed \subseteq DOMAIN files
    /\ path \in 0 .. Len(files) /\ durable \in 0 .. path
    /\ directory \in 0 .. Len(files) + 1 /\ private \in BOOLEAN /\ anchored \in BOOLEAN
    /\ (path # 0 => directory \in 1 .. path) /\ (anchored => directory # 0)
    /\ owner \in Procs \cup {Nobody} /\ exit \in {None, "ok", "failed", "timeout"}
    /\ (owner = Nobody) = (reader = "off")
    /\ \A p \in Procs :
         /\ at[p] \in {"idle", "look", "open", "read", "tool", "wait", "request",
                       "read cache", "check", "install", "sync", "ended"}
         /\ (at[p] = "ended") = (command[p] = NoCommand)
         /\ (at[p] = "wait") = (owner = p)
         /\ next[p] \in DOMAIN Providers /\ round[p] \in 1 .. 3
         /\ held[p] \in 0 .. Len(files)
         /\ secret[p] \in Contents \cup {None, Spoiled}
         /\ selected[p] \in ProviderIds \cup {None}
         /\ tries[p] < MaximumAttempts /\ repair[p] <= MaximumRepairs

\* _BoundedPipeCapture: the reader keeps no more than it may, and it reads
\* until the tool is gone (credentials.py:109-127).
CaptureIsSound == TypeOK /\ ReaderOutlivesTheTool

FirstPresent ==
    LET present == {i \in DOMAIN Providers : Standing(Providers[i]) # "missing"}
    IN IF present = {} THEN None ELSE Providers[Min(present)]

Content(q) ==
    IF q = "environment" THEN environment
    ELSE IF q = "pass" THEN entry ELSE files[path]

\* The outcome that the sources, as they stand, make right for a command.
Right(c, status, what) ==
    LET q == IF c.selection = "auto" THEN FirstPresent ELSE c.selection
        usable == q # None /\ Standing(q) = "available" /\ Content(q) \in Keys
    IN CASE c.op = "status" -> status = "shown" /\ what = <<FirstPresent>>
         [] c.op = "resolve" ->
              IF usable THEN status = "key" /\ what = <<q, Content(q)>>
              ELSE status = "error" /\ what = IF q = None THEN <<>> ELSE <<q>>
         [] c.op = "triage" -> usable <=> status # "error"
         [] c.op = "store" -> status = "stored" => Content(c.provider) \in Keys
         [] c.op = "replay" -> TRUE

\* "Select one provider without fallback after discovery or load failure"
\* (CredentialResolver): in a quiet time the answers of status(), resolve()
\* and the store commands are those the sources call for, and status()
\* announces the provider that an automatic resolve() then uses or fails on.
UndisturbedCommandsTellTheSources ==
    \A p \in Procs :
        answer[p] # NoCommand /\ undisturbed[p] =>
            Right(answer[p].command, answer[p].status, answer[p].what)

\* And when something does change: a resolution goes on to the next provider only
\* at its first look, past one that is missing at that moment.  A provider that
\* was there and is replaced or breaks before its secret is read is not passed
\* over; the key, if there is one, is told as that provider's (credentials.py:530-547).
FoundIsNotPassedOver ==
    [][\A p \in Procs :
          at[p] # "idle" /\ command[p].op \in {"resolve", "triage"} =>
             /\ next'[p] > next[p] =>
                   round[p] = 1 /\ Standing(Provider(p)) = "missing"
             /\ answer'[p] # answer[p] /\ answer'[p].status = "key" =>
                   answer'[p].what[1] = Provider(p)]_vars

\* store_deepseek_credential: once it has returned, its ciphertext is on the
\* disk, and at the path, whatever a loss of power undoes, is that file or one
\* stored after it, for as long as the directory that holds it is there.  Only
\* the directory that a first store made may be lost, with the file in it: its
\* parents are made (credentials.py:620) and not flushed (:888).
StoredCredentialsSurvive ==
    \A p \in Procs :
        answer[p] # NoCommand /\ answer[p].status = "stored"
        /\ answer[p].command.provider = "systemd-creds" =>
            LET file == answer[p].what[1]
                wasAnchored == answer[p].what[2]
            IN /\ file \in flushed
               /\ wasAnchored \/ (directory # 0 /\ directory <= file) => file <= durable

\* DeepSeekLLM.complete and _complete_role: an answer that has arrived is not
\* asked for again, but for one repair of an invalid one.  A request is repeated
\* after silence only, be its answer lost on the way or never given, and not
\* after the third, so that a role costs six answers at most, of which one is
\* accepted (structured.py:383-397, 408-420).
OnlySilenceIsAskedAgain ==
    \A p \in Procs :
        LET ended == answer[p] # NoCommand /\ answer[p].command.op = "triage"
            heard == IF ended /\ answer[p].status \in
                          {"accepted", "invalid response", "model error"}
                     THEN answer[p].what ELSE replies[p]
            bad == {i \in DOMAIN heard : heard[i] = "bad"}
        IN /\ \A i \in DOMAIN heard :
                heard[i] \in {"good", "permanent"} => ended /\ i = Len(heard)
           /\ Cardinality(bad) <= 1 + MaximumRepairs
           /\ Len(heard) <= MaximumAttempts * (1 + MaximumRepairs)
           /\ \A i \in DOMAIN heard :
                (\A j \in i .. i + MaximumAttempts - 1 :
                    j \in DOMAIN heard /\ heard[j] \in Silence)
                => ended /\ i + MaximumAttempts - 1 = Len(heard)
           /\ ended => (answer[p].status = "accepted")
                         = (heard # <<>> /\ Last(heard) = "good")

\* Every command comes back to the operator.
CommandsReturn == \A p \in Procs : at[p] # "idle" ~> at[p] = "ended"

=============================================================================
