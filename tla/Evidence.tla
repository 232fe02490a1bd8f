------------------------------ MODULE Evidence ------------------------------
(***************************************************************************)
(* From a parsed SARIF file to the evidence registry of a run: the         *)
(* normalizer resolves every location to a path and hashes the file,       *)
(* ContextBuilder reads those files again, alert by alert, and the         *)
(* registry is built and merged with the supplement.  In between another   *)
(* program may change the snapshot.                                        *)
(*                                                                         *)
(* The files a run writes on the way are Pipeline's; here their content    *)
(* matters.                                                                *)
(***************************************************************************)
EXTENDS EvidenceGraph, SarifLocations

CONSTANTS
    Paths,            \* files of the snapshot the alerts may name
    Setups,           \* [runs, results, policy, supplement]: the inputs
    InitialContents,  \* what a file may hold at first
    MaxChanges        \* bound: changes of the snapshot by other programs

\* The locations of a result.
Spots(result) ==
    {result.primary} \cup Range(result.additional) \cup Range(result.related)
    \cup UNION {Range(result.paths[o]) : o \in DOMAIN result.paths}

\* The results of a SARIF file are what its parser accepts: lines count from 1
\* (sarif/raw_models.py:43-46).  The related locations of a sound result have
\* distinct ids.
ASSUME EvidenceAssumption ==
    /\ InitialContents \subseteq Contents /\ MaxChanges \in Nat
    /\ \A s \in Setups :
         /\ IsSequence(s.results) /\ IsSequence(s.supplement.entries)
         /\ \A n \in DOMAIN s.runs :
              LET run == s.runs[n]
              IN  /\ IsSequence(run.artifacts) /\ IsFiniteSet(DOMAIN run.bases)
                  /\ \A a \in Range(run.artifacts) : IsSequence(a.uri.parts)
                  /\ \A id \in DOMAIN run.bases : IsSequence(run.bases[id].uri.parts)
         /\ \A r \in Range(s.results) :
              /\ r.run \in DOMAIN s.runs
              /\ r.bytes \in Nat /\ r.resource \in BOOLEAN
              /\ IsSequence(r.additional) /\ IsSequence(r.related)
              /\ IsSequence(r.paths)
              /\ \A o \in DOMAIN r.paths : IsSequence(r.paths[o])
              /\ \A l \in Spots(r) :
                   /\ l.first \in Nat \ {0} /\ l.last \in Nat
                   /\ l.name.index \in Nat /\ IsSequence(l.name.uri.parts)
              /\ r.sound =>
                   \A l, k \in Range(r.related) : l.id = k.id /\ l.id # 0 => l = k

VARIABLES
    setup,        \* the parsed SARIF, the policy and the supplement
    tree,         \* [path -> content] the source snapshot
    bases,        \* _base_cache of the resolver of the current SARIF run
    hashes,       \* its _hash_cache: path -> "none" or a digest
    located,      \* the locations of the current result resolved so far
    alerts,       \* the AlertBundle, as far as it is made
    cache,        \* ContextBuilder._cache: path -> content
    taken,        \* the references of the current alert taken so far
    contexts,     \* the SliceArtifacts built so far, one per alert
    registry,     \* the EvidenceRegistry
    pc,           \* the stage of the run
    changes

normalizing == <<bases, hashes, located, alerts>>
building == <<cache, taken, contexts>>
vars == <<setup, tree, normalizing, building, registry, pc, changes>>

Nothing == [next |-> 1, selected |-> <<>>, omissions |-> <<>>]
NoRegistry == [artifacts |-> <<>>, items |-> <<>>, edges |-> {}]

Content(path) == IF path \in Paths THEN tree[path] ELSE "absent"

Init ==
    /\ setup \in Setups
    /\ tree \in [Paths -> InitialContents]
    /\ bases = <<>> /\ hashes = <<>> /\ located = <<>> /\ alerts = <<>>
    /\ cache = <<>> /\ taken = Nothing /\ contexts = <<>>
    /\ registry = NoRegistry /\ pc = "normalize" /\ changes = 0

-----------------------------------------------------------------------------
\* The next result of the SARIF file, its run, and its next location.  The
\* locations of a result are resolved in the order in which ContextBuilder
\* will refer to them.
Result == setup.results[Len(alerts) + 1]
Run == setup.runs[Result.run]
RawLocation == References(Result)[Len(located) + 1].location
Resolution == Resolve(Run, bases, Result, RawLocation)
PhysicalPlace == CHOOSE l \in Physical(Result, RawLocation) : TRUE

\* A file is hashed once for all locations of a SARIF run.
Hash(path) ==
    IF path \in DOMAIN hashes THEN hashes[path]
    ELSE IF Content(path) = "absent" THEN "none" ELSE Content(path)

SourceLocation(location, path) ==
    [path |-> path, first |-> location.first, last |-> location.last,
     from |-> location.from, upto |-> location.upto, digest |-> Hash(path)]

\* A symbolic link, what is no regular file when it is hashed, a digest that is
\* not the asserted one, and a region that ends before it begins are refused.
Contained(path) ==
    /\ path # <<>> /\ Content(path) # "link"
    /\ path \in DOMAIN hashes \/ Content(path) # "special"
Confirms(path, asserted) == asserted = "none" \/ Hash(path) \in {"none", asserted}
Ordered(place) ==
    /\ place.first <= place.last
    /\ place.first = place.last /\ place.upto # 0 => place.from <= place.upto

Locate ==
    /\ pc = "normalize" /\ Len(alerts) < Len(setup.results)
    /\ Len(located) < Len(References(Result))
    /\ LET path == Resolution.path
       IN  IF /\ Contained(path) /\ Confirms(path, Resolution.hash)
              /\ Ordered(PhysicalPlace)
           THEN /\ located' = Append(located, SourceLocation(PhysicalPlace, path))
                /\ bases' = Resolution.known
                /\ hashes' = Remember(hashes, path, Hash(path))
                /\ UNCHANGED pc
           ELSE pc' = "refused" /\ UNCHANGED <<located, bases, hashes>>
    /\ UNCHANGED <<setup, tree, alerts, building, registry, changes>>

\* The alert of a result whose locations are `located`, in the same places.
NormalizedAlert(result) ==
    LET more == Len(result.additional)
        related == Len(result.related)
        steps(o) == Len(FlattenSeq(SubSeq(result.paths, 1, o - 1)))
        Place(n, sequence) == [i \in DOMAIN sequence |-> located[n + i]]
    IN  [resource |-> result.resource, bytes |-> result.bytes,
         primary |-> located[1],
         additional |-> Place(1, result.additional),
         related |-> Place(1 + more, result.related),
         paths |-> [o \in DOMAIN result.paths |->
                      Place(1 + more + related + steps(o), result.paths[o])]]

\* Mutant of NextResolver: one resolver for all runs of the SARIF file.
NextResolverOfTheFile == UNCHANGED <<bases, hashes>>

\* Every SARIF run has a resolver with caches of its own.
NextResolver ==
    IF /\ Len(alerts') < Len(setup.results)
       /\ setup.results[Len(alerts') + 1].run = Result.run
    THEN UNCHANGED <<bases, hashes>>
    ELSE bases' = <<>> /\ hashes' = <<>>

\* A result is sound when its rule, message, fingerprints, flows and the ids
\* of its related locations are accepted.
AddAlert ==
    /\ pc = "normalize" /\ Len(alerts) < Len(setup.results)
    /\ Len(located) = Len(References(Result))
    /\ IF Result.sound
       THEN /\ alerts' = Append(alerts, NormalizedAlert(Result))
            /\ NextResolver /\ located' = <<>> /\ UNCHANGED pc
       ELSE pc' = "refused" /\ UNCHANGED normalizing
    /\ UNCHANGED <<setup, tree, building, registry, changes>>

Normalize ==
    /\ pc = "normalize" /\ Len(alerts) = Len(setup.results)
    /\ pc' = IF alerts = <<>> THEN "register" ELSE "slice"
    /\ UNCHANGED <<setup, tree, normalizing, building, registry, changes>>

\* The current alert and its next reference.
Current == alerts[Len(contexts) + 1]
NextReference == References(Current)[taken.next]

\* _read_source: a file is read once for all alerts of the run.
ReadSource(p) == IF p \in DOMAIN cache THEN cache[p] ELSE Content(p)

TakeReference ==
    /\ pc = "slice" /\ taken.next <= Len(References(Current))
    /\ LET p == NextReference.location.path
       IN  /\ cache' = Remember(cache, p, ReadSource(p))
           /\ taken' = [Refer(taken, setup.policy, NextReference, ReadSource(p))
                          EXCEPT !.next = @ + 1]
    /\ UNCHANGED <<setup, tree, normalizing, contexts, registry, pc, changes>>

BuildAlert ==
    /\ pc = "slice" /\ taken.next > Len(References(Current))
    /\ contexts' = Append(contexts, Context(Current, taken))
    /\ taken' = Nothing
    /\ pc' = IF Len(contexts') = Len(alerts) THEN "register" ELSE pc
    /\ UNCHANGED <<setup, tree, normalizing, cache, registry, changes>>

-----------------------------------------------------------------------------
\* The registry exists only if it passes its own validator.
Register ==
    /\ pc = "register"
    /\ IF Closed(Build(alerts, contexts))
       THEN /\ registry' = Build(alerts, contexts)
            /\ pc' = IF setup.supplement.given THEN "merge" ELSE "ready"
       ELSE pc' = "crashed" /\ UNCHANGED registry
    /\ UNCHANGED <<setup, tree, normalizing, building, changes>>

\* merge_evidence_supplement: one of another source or SARIF file, or one that
\* cites an occurrence the run does not have, is a PolicyRejectedError.  Its
\* entries are distinct, so that the merged registry is closed again.
Acceptable(supplement) ==
    /\ supplement.identity
    /\ \A i \in DOMAIN supplement.entries :
         supplement.entries[i].alert \in DOMAIN alerts

Merge ==
    /\ pc = "merge"
    /\ IF Acceptable(setup.supplement)
       THEN /\ registry' = Merged(registry, setup.supplement.entries)
            /\ pc' = "ready"
       ELSE pc' = "refused" /\ UNCHANGED registry
    /\ UNCHANGED <<setup, tree, normalizing, building, changes>>

\* Another program of the same user.
Change(p, content) ==
    /\ pc \in {"normalize", "slice"} /\ changes < MaxChanges
    /\ tree[p] # content
    /\ tree' = [tree EXCEPT ![p] = content]
    /\ changes' = changes + 1
    /\ UNCHANGED <<setup, normalizing, building, registry, pc>>

Next ==
    \/ Locate
    \/ AddAlert
    \/ Normalize
    \/ TakeReference
    \/ BuildAlert
    \/ Register
    \/ Merge
    \/ \E p \in Paths, c \in InitialContents : Change(p, c)

Spec == Init /\ [][Next]_vars

-----------------------------------------------------------------------------
(* Properties. *)

TypeOK ==
    /\ setup \in Setups /\ tree \in [Paths -> Contents]
    /\ Range(hashes) \subseteq {"none"} \cup Contents
    /\ Range(cache) \subseteq Contents
    /\ Len(alerts) <= Len(setup.results) /\ taken.next \in Nat \ {0}
    /\ Len(contexts) <= Len(alerts)
    /\ pc \in {"normalize", "slice", "register", "merge", "ready", "refused",
               "crashed"}
    /\ changes \in 0 .. MaxChanges

\* Every place an alert names is shown, in a slice that says so and has its
\* first line, or the context declares an omission for its file
\* (builder.py:200-251).
Accounted(a) ==
    \A i \in DOMAIN References(alerts[a]) :
       LET r == References(alerts[a])[i]
           c == contexts[a]
       IN  \/ \E s \in Range(c.slices) :
                /\ \E k \in DOMAIN s.references :
                     /\ s.references[k].kind = r.kind
                     /\ s.references[k].ordinal = r.ordinal
                     /\ s.references[k].location.first = r.location.first
                /\ s.path = r.location.path
                /\ s.first <= r.location.first /\ r.location.first <= s.last
           \/ ~c.complete /\ \E o \in Range(c.omitted) : o.path = r.location.path

\* What is shown of a file is the version the normalizer hashed for each of the
\* locations it is shown for, when there was one, and one version in the
\* contexts of all alerts (builder.py:226-237).
OneVersion ==
    \A a, b \in DOMAIN contexts :
       \A s \in Range(contexts[a].slices), t \in Range(contexts[b].slices) :
          /\ s.path = t.path => s.digest = t.digest
          /\ \A k \in DOMAIN s.references :
               s.references[k].location.digest \in {"none", s.digest}

\* What is shown stays within the budget of an alert together with the alert
\* itself, or nothing is shown (builder.py:254-290).
WithinTheBudget(a) ==
    LET slices == contexts[a].slices
    IN  slices # <<>> =>
          Tokens(alerts[a].bytes)
            + FoldLeft(LAMBDA n, s : n + SliceTokens(s), 0, slices) <= Budget

\* The context of an alert is honest about what it shows and what it leaves
\* out, whatever happens to the snapshot between the normalizer and the last
\* alert.
ContextIsHonest ==
    /\ TypeOK
    /\ OneVersion
    /\ \A a \in DOMAIN contexts : Accounted(a) /\ WithinTheBudget(a)

\* What the SARIF file says of a location: how it spells the place and which
\* version it analyzed; a set of at most one record.
Spelled(result, location) ==
    LET run == setup.runs[result.run]
    IN  {[uris |-> Spelling(run, NamedFile(run, l.name)),
          hash |-> NamedFile(run, l.name).hash] :
           l \in {k \in Physical(result, location) :
                    k.name.index <= Len(run.artifacts)}}

PathsAreTrue ==
    \A a \in DOMAIN alerts : \A i \in DOMAIN References(alerts[a]) :
       \E said \in Spelled(setup.results[a],
                           References(setup.results[a])[i].location) :
          Meaning(said.uris) = {References(alerts[a])[i].location.path}

RefusalsAreReal ==
    pc = "refused" /\ Len(alerts) < Len(setup.results) /\ Result.sound =>
       \A said \in Spelled(Result, RawLocation) :
          \/ Len(said.uris) > MaximumDepth + 1
          \/ \A path \in Meaning(said.uris) :
               Content(path) \in {"link", "special"} \/ said.hash \notin {"none", Hash(path)}
          \/ ~Ordered(PhysicalPlace)

\* A location gets the path it means, whatever was resolved before it, in this
\* SARIF run or another, and is refused only when it means none, is nested too
\* deep, ends before it begins, or names what is no regular file or not the one
\* that was analyzed (sarif/normalizer.py:144-306).
LocationsMeanWhatTheyName == PathsAreTrue /\ RefusalsAreReal

\* What an item rests on in the end: the other items it reaches.
Reached(items, edges) ==
    LET Step(S) == S \cup {e[1] : e \in {d \in edges : d[2] \in S}}
        roots == {i \in items : i.type = "rule_semantics"}
    IN  Step(Step(Step(Step(roots))))

\* Every item of a registry, but the outside observations, rests through its
\* dependencies on the rule of its own alert; every omission of a resource
\* alert is a gap the policy sees (agents/resource_policy.py:62); and every
\* observation is about an alert of the run (registry.py:48-285, 318-345).
RegistryIsGrounded ==
    pc = "ready" =>
       LET items == Range(registry.items)
       IN  /\ {i \in items : i.artifact # Supplement}
                \subseteq Reached(items, registry.edges)
           /\ \A e \in registry.edges : e[1].alert = e[2].alert
           /\ \A a \in DOMAIN alerts :
                alerts[a].resource =>
                  ({i \in items : i.alert = a /\ i.type = "context_gap"
                                  /\ i.artifact # Supplement} = {}
                     <=> contexts[a].complete)
           /\ \A i \in items : i.alert \in DOMAIN alerts

\* KNOWN_LIMITATIONS.md:101 says that missing, binary, oversized or changed
\* source makes a partial context and "does not make the whole alert
\* disappear".  It is violated: the gap item of an omission has its code and
\* detail and not its path, so two files that are missing in one resource
\* alert give one evidence_id twice, and the validator of the registry ends
\* the run.
GapsDoNotEndTheRun == pc # "crashed"

\* The only way a run ends like that: two omissions of one resource alert that
\* differ in nothing but their file.
OnlyTwinGapsCrash ==
    pc = "crashed" =>
       \E a \in DOMAIN contexts :
          /\ alerts[a].resource
          /\ \E o, q \in Range(contexts[a].omitted) :
               o.path # q.path /\ o.code = q.code /\ o.detail = q.detail

=============================================================================
