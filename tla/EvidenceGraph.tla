--------------------------- MODULE EvidenceGraph ---------------------------
(***************************************************************************)
(* The evidence registry (evidence/registry.py) over the alerts of a run   *)
(* and their contexts, and the validators of the persisted record          *)
(* (domain/evidence.py).                                                   *)
(*                                                                         *)
(* An item is the content its evidence_id is the digest of, so two items   *)
(* have one id exactly when they are equal.  An artifact is the file an    *)
(* item is taken from: Normalized, the slice file of an alert, or the      *)
(* Supplement.                                                             *)
(***************************************************************************)
EXTENDS SliceContext

Normalized == <<"normalized", 0>>
SliceFile(a) == <<"slice", a>>
Supplement == <<"supplement", 0>>

\* _evidence_item: a is the index of the alert, `at` a range of lines or
\* <<>>, and `about` what tells the item from others of its type.
Item(a, type, at, artifact, about) ==
    [alert |-> a, type |-> type, at |-> at, artifact |-> artifact, about |-> about]

At(location) == <<location.path, location.first, location.last>>

RuleItem(a, alert) ==
    Item(a, "rule_semantics", At(alert.primary), Normalized, <<"rule", <<>>>>)

PathItem(a, alert, o) ==
    Item(a, "data_flow", At(alert.paths[o][1]), Normalized, <<"path", <<o>>>>)

SourceItem(a, alert, slice) ==
    Item(a, IF alert.resource THEN "resource_lifecycle" ELSE "data_flow",
         At(slice), SliceFile(a), <<slice.selection, <<>>>>)

\* The resource lines of a slice (evidence/resource.py); the same line seen
\* through two slices gives two items.
TraceItems(a, slice) ==
    {Item(a, t.type, <<slice.path, t.line, t.line>>, SliceFile(a),
          <<slice.selection, <<slice.first, slice.last>>>>) :
       t \in {u \in Documents[slice.digest].traces :
                slice.first <= u.line /\ u.line <= slice.last}}

GapItem(a, omission) ==
    Item(a, "context_gap", <<>>, SliceFile(a), <<omission.code, omission.detail>>)

CandidateItem(a, candidate) ==
    Item(a, candidate.kind, <<candidate.path, candidate.line, candidate.line>>,
         SliceFile(a), <<"lexical", <<>>>>)

\* The first slice that shows the line of a candidate.
Containing(slices, candidate) ==
    slices[Min({i \in DOMAIN slices :
                  /\ slices[i].path = candidate.path
                  /\ slices[i].first <= candidate.line
                  /\ candidate.line <= slices[i].last})]

-----------------------------------------------------------------------------
\* What the excerpt of a slice rests on: the paths that led to it, else the
\* rule.
PathsOf(slice) ==
    {slice.references[i].ordinal : i \in DOMAIN slice.references} \ {0}

\* Mutant of SourceEdges: an excerpt that no path led to rests on nothing.
SourceEdgesOfPaths(a, alert, slice) ==
    {<<SourceItem(a, alert, slice), PathItem(a, alert, o)>> : o \in PathsOf(slice)}

SourceEdges(a, alert, slice) ==
    {<<SourceItem(a, alert, slice), target>> :
       target \in IF PathsOf(slice) = {} THEN {RuleItem(a, alert)}
                  ELSE {PathItem(a, alert, o) : o \in PathsOf(slice)}}

AlertItems(a, alert, context) ==
    <<RuleItem(a, alert)>>
    \o [o \in DOMAIN alert.paths |-> PathItem(a, alert, o)]
    \o FlattenSeq([i \in DOMAIN context.slices |->
          <<SourceItem(a, alert, context.slices[i])>>
          \o (IF alert.resource THEN SetToSeq(TraceItems(a, context.slices[i]))
              ELSE <<>>)])
    \o (IF alert.resource
        THEN [i \in DOMAIN context.omitted |-> GapItem(a, context.omitted[i])]
        ELSE <<>>)
    \o SetToSeq({CandidateItem(a, c) : c \in context.candidates})

AlertEdges(a, alert, context) ==
    LET rule == RuleItem(a, alert)
        slices == Range(context.slices)
    IN  {<<PathItem(a, alert, o), rule>> : o \in DOMAIN alert.paths}
        \cup (UNION {SourceEdges(a, alert, s) : s \in slices})
        \cup (IF alert.resource
              THEN (UNION {{<<t, SourceItem(a, alert, s)>> : t \in TraceItems(a, s)} :
                             s \in slices})
                   \cup {<<GapItem(a, o), rule>> : o \in Range(context.omitted)}
              ELSE {})
        \cup {<<CandidateItem(a, c),
                SourceItem(a, alert, Containing(context.slices, c))>> :
                c \in context.candidates}

\* build_evidence_registry
Build(alerts, contexts) ==
    [artifacts |-> <<Normalized>> \o [a \in DOMAIN contexts |-> SliceFile(a)],
     items |-> FlattenSeq([a \in DOMAIN alerts |->
                             AlertItems(a, alerts[a], contexts[a])]),
     edges |-> UNION {AlertEdges(a, alerts[a], contexts[a]) : a \in DOMAIN alerts}]

\* validate_closed_registry.  A record that is not closed is not made: the
\* validator raises, and its exception is no EviTriageError.
Closed(registry) ==
    /\ IsInjective(registry.artifacts)
    /\ IsInjective(registry.items)
    /\ \A i \in DOMAIN registry.items :
         registry.items[i].artifact \in Range(registry.artifacts)
    /\ \A e \in registry.edges : {e[1], e[2]} \subseteq Range(registry.items)

\* An observation from outside: `alert` is the occurrence it is about.
EntryItem(entry) ==
    Item(entry.alert, entry.type, <<>>, Supplement, <<entry.polarity, <<>>>>)

Merged(registry, entries) ==
    [registry EXCEPT
       !.artifacts = Append(@, Supplement),
       !.items = @ \o [i \in DOMAIN entries |-> EntryItem(entries[i])]]

=============================================================================
