---------------------------- MODULE SliceContext ----------------------------
(***************************************************************************)
(* What ContextBuilder (context/builder.py) makes of one alert: which      *)
(* lines of the snapshot are shown to the agents, and which of the lines   *)
(* the alert names are declared missing instead.                           *)
(*                                                                         *)
(* A file holds one of Documents (named by its digest) or something that   *)
(* cannot be shown.  A document is what the lexical passes see in it: the  *)
(* bytes and columns of each line, its callables, the calls in each line,  *)
(* its guard and sanitizer lines (marks) and its resource lines (traces).  *)
(* Names are numbers, in alphabetical order; 0 is no name.                 *)
(***************************************************************************)
EXTENDS Integers, SequencesExt

CONSTANTS
    Documents,        \* [digest -> what the lexical passes see in the file]
    Budget,           \* maximum_token_budget
    Radius,           \* radius of FixedWindowPolicy
    MaximumCallees    \* _MAXIMUM_RESOURCE_CALLEE_SLICES

\* What _read_source says of a file that cannot be shown: its code, and what its
\* detail tells apart.  The size of a file is in its detail (a file that grows
\* while it is read has a detail of its own), and so is the name of a file that
\* cannot be opened for another reason, which no other file shares.
Unreadable(code, detail) == [code |-> code, detail |-> detail]
ReadFailures ==
    [absent |-> Unreadable("source_file_missing", <<>>),
     link |-> Unreadable("source_not_regular", <<1>>),
     special |-> Unreadable("source_not_regular", <<2>>),
     binary |-> Unreadable("binary_source", <<>>),
     encoding |-> Unreadable("unsupported_encoding", <<>>),
     large |-> Unreadable("source_too_large", <<1>>),
     larger |-> Unreadable("source_too_large", <<2>>),
     growing |-> Unreadable("source_too_large", <<>>)]

Contents == DOMAIN ReadFailures \cup DOMAIN Documents

IsSequence(s) == s \in Seq(Range(s))

\* What the passes find is in the lines of the file: callables and calls, the
\* lines of _GUARD_PATTERN and _SANITIZER_PATTERN, and the six resource patterns
\* of evidence/resource.py.
IsDocument(document) ==
    LET lines == 1 .. Len(document.bytes)
    IN  /\ document.bytes \in Seq(Nat) /\ document.columns \in Seq(Nat)
        /\ lines # {} /\ Len(document.columns) = Len(document.bytes)
        /\ document.functions \subseteq [first : lines, last : lines, name : Nat]
        /\ document.calls \subseteq [line : lines, name : Nat]
        /\ document.marks \subseteq [line : lines, kind : {"guard", "sanitizer"}]
        /\ document.traces \subseteq
             [line : lines,
              type : {"resource_acquisition", "resource_release", "control_flow_exit",
                      "exception_flow", "release_coverage", "resource_escape"}]
        /\ IsFiniteSet(document.functions) /\ IsFiniteSet(document.calls)
        /\ IsFiniteSet(document.marks) /\ IsFiniteSet(document.traces)

ASSUME SliceContextAssumption ==
    /\ Budget \in Nat \ {0} /\ Radius \in 0 .. 100 /\ MaximumCallees \in Nat
    /\ DOMAIN Documents \cap (DOMAIN ReadFailures \cup {"none"}) = {}
    /\ \A d \in DOMAIN Documents : IsDocument(Documents[d])

Omission(code, path, detail) == [code |-> code, path |-> path, detail |-> detail]

\* _estimate_tokens of the lines first .. last
Tokens(bytes) == (bytes + 3) \div 4

SliceTokens(slice) ==
    Tokens(FoldLeft(+, 0, SubSeq(Documents[slice.digest].bytes,
                                 slice.first, slice.last)))

-----------------------------------------------------------------------------
\* An alert is [resource, bytes, primary, additional, related, paths]; `bytes`
\* is the size of its own metadata and `paths` a sequence of sequences of
\* locations.  Every location gives the agents a reason to see its lines.
StepKind(path, i) == IF i = 1 THEN "source"
                     ELSE IF i = Len(path) THEN "sink" ELSE "path_step"

Named(kind, ordinal, location) ==
    [kind |-> kind, ordinal |-> ordinal, location |-> location]

References(alert) ==
    <<Named("primary", 0, alert.primary)>>
    \o [i \in DOMAIN alert.additional |->
          Named("additional", 0, alert.additional[i])]
    \o [i \in DOMAIN alert.related |-> Named("related", 0, alert.related[i])]
    \o FlattenSeq([o \in DOMAIN alert.paths |->
          [i \in DOMAIN alert.paths[o] |->
             Named(StepKind(alert.paths[o], i), o, alert.paths[o][i])]])

\* The detail of _coordinate_error, or <<>>.  Columns count from 1; `upto` is
\* 0 when the location has no end column.
CoordinateError(document, at) ==
    LET count == Len(document.bytes)
    IN  IF at.first > count \/ at.last > count THEN <<at.first, at.last, count>>
        ELSE IF at.from > document.columns[at.first] + 1
             THEN <<at.from, document.columns[at.first]>>
        ELSE IF at.upto > document.columns[at.last] + 1
             THEN <<at.upto, document.columns[at.last]>>
        ELSE <<>>

\* The smallest callable around a line, as a set of at most one.
EnclosingFunction(document, line) ==
    LET around == {f \in document.functions : f.first <= line /\ line <= f.last}
    IN  {f \in around : \A g \in around :
           \/ f.last - f.first < g.last - g.first
           \/ f.last - f.first = g.last - g.first /\ f.first <= g.first}

Slice(path, digest, selection, first, last, name) ==
    [path |-> path, digest |-> digest, selection |-> selection,
     first |-> first, last |-> last, name |-> name, references |-> <<>>]

FixedWindow(digest, at) ==
    Slice(at.path, digest, "fixed_window", Max({1, at.first - Radius}),
          Min({Len(Documents[digest].bytes), at.last + Radius}), 0)

Enclosing(path, digest, f) ==
    Slice(path, digest, "enclosing_function", f.first, f.last, f.name)

Select(policy, digest, at) ==
    LET functions == EnclosingFunction(Documents[digest], at.first)
    IN  IF policy = "fixed_window" \/ functions = {} THEN FixedWindow(digest, at)
        ELSE Enclosing(at.path, digest, CHOOSE f \in functions : TRUE)

SameLines(s, t) == s.path = t.path /\ s.first = t.first /\ s.last = t.last

-----------------------------------------------------------------------------
\* The references are taken one by one; acc holds what was selected so far
\* and what was left out.  `content` is what _read_source saw in the file.
Omit(acc, omission) == [acc EXCEPT !.omissions = Append(@, omission)]

\* Mutant of Collect: a reference to lines that are already selected is lost.
CollectFirst(acc, slice, reference) ==
    IF \E i \in DOMAIN acc.selected :
         SameLines(acc.selected[i], slice)
         /\ acc.selected[i].selection = slice.selection
    THEN acc
    ELSE [acc EXCEPT !.selected =
            Append(@, [slice EXCEPT !.references = <<reference>>])]

Collect(acc, slice, reference) ==
    LET known == {i \in DOMAIN acc.selected :
                    SameLines(acc.selected[i], slice)
                    /\ acc.selected[i].selection = slice.selection}
    IN  IF known = {}
        THEN [acc EXCEPT !.selected =
                Append(@, [slice EXCEPT !.references = <<reference>>])]
        ELSE [acc EXCEPT !.selected[CHOOSE i \in known : TRUE].references =
                Append(@, reference)]

Refer(acc, policy, reference, content) ==
    LET at == reference.location
        fallback == policy = "path_function_slice"
                    /\ EnclosingFunction(Documents[content], at.first) = {}
    IN  IF content \notin DOMAIN Documents
        THEN Omit(acc, Omission(ReadFailures[content].code, at.path,
                                ReadFailures[content].detail))
        ELSE IF CoordinateError(Documents[content], at) # <<>>
        THEN Omit(acc, Omission("coordinate_out_of_bounds", at.path,
                                CoordinateError(Documents[content], at)))
        ELSE IF at.digest # "none" /\ at.digest # content
        THEN Omit(acc, Omission("source_digest_mismatch", at.path, <<>>))
        ELSE Collect(IF fallback
                     THEN Omit(acc, Omission("function_boundary_unresolved",
                                             at.path, <<at.first>>))
                     ELSE acc,
                     Select(policy, content, at), reference)

-----------------------------------------------------------------------------
\* Slices are admitted in order while the budget lasts; acc counts the tokens.
Admit(acc, slice, reason) ==
    IF acc.tokens + SliceTokens(slice) > Budget
    THEN Omit(acc, Omission("token_budget_exceeded", slice.path, reason))
    ELSE [acc EXCEPT !.slices = Append(@, slice),
                     !.tokens = @ + SliceTokens(slice)]

\* Mutant of WithinBudget: the metadata of the alert is not counted.
WithinBudgetOfSlices(alert, omissions, selected) ==
    FoldLeft(LAMBDA acc, s : Admit(acc, s,
                 <<s.first, s.last, SliceTokens(s), Max({0, Budget - acc.tokens})>>),
             [slices |-> <<>>, tokens |-> 0, omissions |-> omissions], selected)

WithinBudget(alert, omissions, selected) ==
    LET own == Tokens(alert.bytes)
        start == [slices |-> <<>>, tokens |-> own, omissions |-> omissions]
    IN  FoldLeft(LAMBDA acc, s : Admit(acc, s,
                     <<s.first, s.last, SliceTokens(s), Max({0, Budget - acc.tokens})>>),
                 IF own > Budget
                 THEN Omit(start, Omission("token_budget_exceeded",
                                           alert.primary.path, <<own>>))
                 ELSE start,
                 selected)

\* The callables of the same file that a slice calls.  A name with several
\* definitions is left out and said so; one with none is not mentioned.
CalledNames(slice) ==
    {c.name : c \in {d \in Documents[slice.digest].calls :
                       slice.first <= d.line /\ d.line <= slice.last}}
    \ {slice.name}

Definitions(digest, name) ==
    {f \in Documents[digest].functions : f.name = name}

CallSite(slice, name) ==
    LET line == Min({c.line : c \in {d \in Documents[slice.digest].calls :
                        d.name = name /\ slice.first <= d.line /\ d.line <= slice.last}})
    IN  Named("callee", 0,
              [path |-> slice.path, first |-> line, last |-> line, from |-> 1,
               upto |-> Documents[slice.digest].columns[line] + 1,
               digest |-> slice.digest])

\* A finite set of names in alphabetical order.
InOrder(names) ==
    CHOOSE s \in SetToSeqs(names) : \A i, j \in DOMAIN s : i < j => s[i] < s[j]

Callees(slice) ==
    LET Of(n) == Definitions(slice.digest, n)
        unique == InOrder({n \in CalledNames(slice) : Cardinality(Of(n)) = 1})
        many == InOrder({n \in CalledNames(slice) : Cardinality(Of(n)) > 1})
        kept == SubSeq(unique, 1, Min({Len(unique), MaximumCallees}))
    IN  [slices |-> [i \in DOMAIN kept |->
             [Enclosing(slice.path, slice.digest, CHOOSE f \in Of(kept[i]) : TRUE)
                EXCEPT !.references = <<CallSite(slice, kept[i])>>]],
         omissions |->
             [i \in DOMAIN many |->
                Omission("function_boundary_unresolved", slice.path, <<0, many[i]>>)]
             \o (IF Len(unique) <= MaximumCallees THEN <<>>
                 ELSE <<Omission("resource_context_bound", slice.path,
                                 <<Len(unique) - MaximumCallees>>)>>)]

AdmitCallee(acc, slice) ==
    IF \E i \in DOMAIN acc.slices : SameLines(acc.slices[i], slice) THEN acc
    ELSE Admit(acc, slice, <<slice.name>>)

WithCalleesOf(acc, slice) ==
    FoldLeft(AdmitCallee, [acc EXCEPT !.omissions = @ \o Callees(slice).omissions],
             Callees(slice).slices)

WithCallees(acc) == FoldLeft(WithCalleesOf, acc, acc.slices)

\* Mutant of Deduplicated: an omission is kept as often as it is met.
DeduplicatedNever(omissions) == omissions

\* _deduplicate_omissions
Deduplicated(omissions) ==
    FoldLeft(LAMBDA kept, o : IF Contains(kept, o) THEN kept ELSE Append(kept, o),
             <<>>, omissions)

\* _lexical_candidates: the guard and sanitizer lines in what is shown
Candidates(slices) ==
    UNION {{[path |-> slices[i].path, line |-> m.line, kind |-> m.kind] :
              m \in {n \in Documents[slices[i].digest].marks :
                       slices[i].first <= n.line /\ n.line <= slices[i].last}} :
           i \in DOMAIN slices}

\* _build_alert, after the references were taken
Context(alert, taken) ==
    LET within == WithinBudget(alert, taken.omissions, taken.selected)
        all == IF alert.resource THEN WithCallees(within) ELSE within
    IN  [slices |-> all.slices, tokens |-> all.tokens,
         candidates |-> Candidates(all.slices),
         complete |-> all.omissions = <<>>,
         omitted |-> Deduplicated(all.omissions)]

=============================================================================
