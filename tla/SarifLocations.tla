--------------------------- MODULE SarifLocations ---------------------------
(***************************************************************************)
(* How _LocationResolver (sarif/normalizer.py) turns what a SARIF file     *)
(* calls a location into a path of the snapshot.                           *)
(*                                                                         *)
(* A URI is what _parse_uri makes of its text: a form ("relative",         *)
(* "absolute", "refused", or "missing" when there is no text), a drive     *)
(* ("" for a POSIX path) and its parts.  A SARIF run has `bases`, its      *)
(* originalUriBaseIds [id -> [uri, base]], and `artifacts`, a sequence of  *)
(* [uri, base, hash].  A location has a `name` [uri, base, index], whose   *)
(* index is 0 when it refers to no artifact; one that is not physical      *)
(* stands for the related location of the same result with its id.         *)
(***************************************************************************)
EXTENDS Integers, SequencesExt

CONSTANTS
    Snapshot,         \* the URI of the root of the source snapshot
    MaximumDepth      \* _MAXIMUM_URI_BASE_DEPTH

ASSUME SarifLocationsAssumption ==
    /\ Snapshot.form = "absolute" /\ Snapshot.parts \in Seq(Range(Snapshot.parts))
    /\ MaximumDepth \in Nat \ {0}

NoBase == ""
SourceRoot == "%srcroot%"
Uri(form, drive, parts) == [form |-> form, drive |-> drive, parts |-> parts]
Parsed(uri) == uri.form \in {"relative", "absolute"}

\* The place a location is about, as a set of at most one: ids are distinct.
Physical(result, location) ==
    IF location.physical THEN {location}
    ELSE {r \in Range(result.related) :
            r.physical /\ r.id = location.id /\ r.id # 0}

\* _artifact_location: a URI of its own or that of the artifact, and the hash
\* that the SARIF file asserts.
NoArtifact == [uri |-> Uri("missing", "", <<>>), base |-> NoBase, hash |-> "none"]

NamedFile(run, name) ==
    LET artifact == IF name.index = 0 THEN NoArtifact
                    ELSE run.artifacts[name.index]
    IN  [uri |-> IF name.uri.form = "missing" THEN artifact.uri ELSE name.uri,
         base |-> IF name.uri.form = "missing" /\ name.base = NoBase
                  THEN artifact.base ELSE name.base,
         hash |-> artifact.hash]

\* A cache keeps the first value that it was given for a key.
Remember(known, key, value) ==
    [k \in DOMAIN known \cup {key} |-> IF k \in DOMAIN known THEN known[k] ELSE value]

-----------------------------------------------------------------------------
(* _resolve_base.  `known` is _base_cache: id -> [path, anchor].            *)

Parent(run, id) == IF id \in DOMAIN run.bases THEN run.bases[id].base ELSE NoBase

\* The ids that are looked at one after the other, up to one that is known or
\* has no parent.  A cycle has no end.
Ancestors(run, id, known, limit) ==
    LET Ends(i) == i \in known \/ Parent(run, i) = NoBase
        visited[n \in 0 .. limit] ==
          IF n = 0 THEN <<id>>
          ELSE IF Ends(Last(visited[n - 1])) THEN visited[n - 1]
          ELSE Append(visited[n - 1], Parent(run, Last(visited[n - 1])))
    IN  visited[limit]

Chain(run, known, id) == Ancestors(run, id, DOMAIN known, MaximumDepth)

Declared(run, id) ==
    IF id \in DOMAIN run.bases THEN Parsed(run.bases[id].uri) ELSE id = SourceRoot

BaseResolves(run, known, id) ==
    LET chain == Chain(run, known, id)
    IN  /\ Len(chain) <= MaximumDepth
        /\ \A i \in DOMAIN chain :
             chain[i] \in DOMAIN known \/ Declared(run, chain[i])

\* A relative anchor stands for none.
Join(base, child) ==
    IF child.form = "absolute" THEN child
    ELSE Uri(base.form, base.drive, base.parts \o child.parts)

BasePath(run, known, id) ==
    LET own == IF id \in DOMAIN run.bases THEN run.bases[id].uri
               ELSE Uri("relative", "", <<>>)
        parent == Parent(run, id)
    IN  IF parent = NoBase THEN [path |-> own, anchor |-> own]
        ELSE [path |-> Join(known[parent].path, own),
              anchor |-> known[parent].anchor]

Learn(run, known, id) == Remember(known, id, BasePath(run, known, id))

\* The cache after the base was resolved, from the outermost one inwards.
Learned(run, known, id) ==
    LET chain == Chain(run, known, id)
        after[n \in 0 .. Len(chain)] ==
          IF n = 0 THEN known
          ELSE Learn(run, after[n - 1], chain[Len(chain) + 1 - n])
    IN  after[Len(chain)]

-----------------------------------------------------------------------------
(* _relative_source_path, over a cache that knows the base.                 *)

Below(uri, root) ==
    /\ uri.form = "absolute" /\ root.form = "absolute"
    /\ uri.drive = root.drive /\ IsPrefix(root.parts, uri.parts)

\* The parts of the path; none when the URI is refused.
SourcePath(named, known) ==
    LET based == named.base # NoBase
        full == IF based THEN Join(known[named.base].path, named.uri) ELSE named.uri
        root == IF based /\ known[named.base].anchor.form = "absolute"
                THEN known[named.base].anchor ELSE Snapshot
    IN  IF full.form # "absolute" THEN full.parts
        ELSE IF Below(full, root)
        THEN SubSeq(full.parts, Len(root.parts) + 1, Len(full.parts))
        ELSE <<>>

\* What the resolver makes of a location: its path, <<>> when it is refused,
\* the asserted hash, and the cache afterwards.
Resolve(run, known, result, location) ==
    LET refused == [path |-> <<>>, hash |-> "none", known |-> known]
        physical == Physical(result, location)
        name == (CHOOSE l \in physical : TRUE).name
        named == NamedFile(run, name)
        learned == IF named.base = NoBase THEN known
                   ELSE Learned(run, known, named.base)
    IN  IF physical = {} \/ name.index > Len(run.artifacts) THEN refused
        ELSE IF ~Parsed(named.uri) \/ (named.base # NoBase
                                       /\ ~BaseResolves(run, known, named.base))
        THEN refused
        ELSE [path |-> SourcePath(named, learned), hash |-> named.hash,
              known |-> learned]

-----------------------------------------------------------------------------
(* What a location means, without a resolver.                               *)

\* The URI of a location, then those of its bases from the inner to the outer.
Spelling(run, named) ==
    LET count == Cardinality(DOMAIN run.bases)
        ids == IF named.base = NoBase THEN <<>>
               ELSE Ancestors(run, named.base, {}, count)
    IN  <<named.uri>>
        \o [i \in DOMAIN ids |->
              IF i = count + 1 /\ Parent(run, ids[i]) # NoBase THEN NoArtifact.uri
              ELSE IF ids[i] \in DOMAIN run.bases THEN run.bases[ids[i]].uri
              ELSE IF ids[i] = SourceRoot THEN Uri("relative", "", <<>>)
              ELSE NoArtifact.uri]

\* Each URI is relative to the next up to the first absolute one.  The path is
\* what that leaves below the outermost base, or below the snapshot when that
\* base is relative; a set of at most one path.
Meaning(uris) ==
    LET absolute == {i \in DOMAIN uris : uris[i].form = "absolute"}
        outer == IF absolute = {} THEN Len(uris) ELSE Min(absolute)
        parts == FlattenSeq([i \in 1 .. outer |-> uris[outer + 1 - i].parts])
        based == Len(uris) > 1 /\ Last(uris).form = "absolute"
        root == IF absolute = {} THEN uris[outer]
                ELSE IF based THEN Last(uris) ELSE Snapshot
    IN  {path \in Suffixes(parts) \ {<<>>} :
           /\ \A i \in DOMAIN uris : Parsed(uris[i])
           /\ root.drive = uris[outer].drive
           /\ parts = (IF absolute = {} THEN <<>> ELSE root.parts) \o path}

=============================================================================
