--------------------------- MODULE MCModelAccess ---------------------------
(***************************************************************************)
(* Two processes of one operator, at most two ciphertext files, and one    *)
(* incident.  The sources are those that differ in what resolve() does.    *)
(***************************************************************************)
EXTENDS ModelAccess

CONSTANTS p1, p2, k1, k2

Resolve(q) == [op |-> "resolve", selection |-> q]
Triage == [op |-> "triage", selection |-> "systemd-creds"]
Store(q, rotate) == [op |-> "store", provider |-> q, replace |-> rotate]

MCWorkloads ==
    {p1 :> c[1] @@ p2 :> c[2] : c \in
        {<<Resolve("auto"), Store("systemd-creds", TRUE)>>,
         <<Resolve("auto"), Store("pass", TRUE)>>,
         <<Resolve("pass"), Resolve("auto")>>,
         <<[op |-> "status"], Store("systemd-creds", FALSE)>>,
         <<Store("systemd-creds", TRUE), Store("systemd-creds", FALSE)>>,
         <<Triage, [op |-> "replay"]>>}}

Source(env, systemd, file, pass, inserted) ==
    [environment |-> env, file |-> file, entry |-> inserted,
     directory |-> IF file = None THEN "absent" ELSE "private",
     executable |-> [q \in {"systemd-creds", "pass"} |->
                       IF q = "pass" THEN pass ELSE systemd]]

MCSources ==
    {Source(None, "ok", k1, "missing", None), Source(None, "ok", None, "ok", k2),
     Source(k1, "missing", None, "unsafe", None),
     Source(Garbled, "missing", None, "ok", k1),
     Source(None, "ok", Unsafe, "missing", None),
     Source(None, "unsafe", k1, "ok", None),
     Source(None, "missing", None, "ok", Unsafe),
     Source(None, "missing", None, "missing", None),
     Source(None, "ok", Garbled, "missing", None),
     [Source(None, "ok", None, "missing", None) EXCEPT !.directory = "private"],
     [Source(None, "ok", k1, "missing", None) EXCEPT !.directory = Unsafe]}

=============================================================================
