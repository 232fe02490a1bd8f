----------------------------- MODULE MCEvidence -----------------------------
(* Two files, 21 inputs, and one change of the snapshot by another program. *)
EXTENDS Evidence

\* Seven lines of two tokens: a callable that calls two others and an
\* overloaded one.
MethodFile ==
    [bytes |-> [i \in 1 .. 7 |-> 8], columns |-> [i \in 1 .. 7 |-> 8],
     functions |-> {[first |-> 1, last |-> 3, name |-> 1],
                    [first |-> 4, last |-> 4, name |-> 2],
                    [first |-> 5, last |-> 5, name |-> 4],
                    [first |-> 6, last |-> 6, name |-> 3],
                    [first |-> 7, last |-> 7, name |-> 3]},
     calls |-> {[line |-> 2, name |-> n] : n \in 1 .. 5},
     marks |-> {[line |-> 2, kind |-> "guard"]},
     traces |-> {[line |-> 2, type |-> "resource_acquisition"],
                 [line |-> 4, type |-> "resource_release"]}]

\* Two lines outside any callable.
PlainFile ==
    [bytes |-> <<8, 7>>, columns |-> <<8, 7>>, functions |-> {}, calls |-> {},
     marks |-> {[line |-> 2, kind |-> "sanitizer"]}, traces |-> {}]

MCDocuments == [d1 |-> MethodFile, d2 |-> PlainFile]

\* The snapshot is in /s; one build of it was analyzed in /ci, another on a
\* Windows drive.
Rel(parts) == Uri("relative", "", parts)
Abs(parts) == Uri("absolute", "", parts)
Drive(parts) == Uri("absolute", "c", parts)
Missing == Uri("missing", "", <<>>)
MCSnapshot == Abs(<<"s">>)
A == <<"A">>
B == <<"d", "B">>
MCPaths == {A, B}

Spot(uri, base, index, line, column) ==
    [name |-> [uri |-> uri, base |-> base, index |-> index],
     physical |-> TRUE, id |-> 0,
     first |-> line, last |-> line, from |-> column, upto |-> 0]
Loc(path, line, column) == Spot(Rel(path), NoBase, 0, line, column)

See(id) == [Spot(Missing, NoBase, 0, 1, 1) EXCEPT !.physical = FALSE, !.id = id]

Alert(resource, primary, additional, related, paths) ==
    [run |-> 1, sound |-> TRUE, resource |-> resource, bytes |-> 8,
     primary |-> primary, additional |-> additional, related |-> related,
     paths |-> paths]

Base(uri, base) == [uri |-> uri, base |-> base]
File(uri, base, hash) == [uri |-> uri, base |-> base, hash |-> hash]
NoBases == <<>>
Plain == <<[bases |-> NoBases, artifacts |-> <<>>]>>

Without == [given |-> FALSE, identity |-> TRUE, entries |-> <<>>]
Entry(a) == [alert |-> a, type |-> "test", polarity |-> "supports_fp"]
With(identity, entries) ==
    [given |-> TRUE, identity |-> identity, entries |-> entries]

Setup(runs, results, policy, supplement) ==
    [runs |-> runs, results |-> results, policy |-> policy,
     supplement |-> supplement]

Leak == Alert(TRUE, Loc(A, 2, 1), <<Loc(A, 3, 1)>>, <<Loc(B, 2, 1)>>, <<>>)
Flow == Alert(FALSE, Loc(B, 1, 1), <<>>, <<>>,
              <<<<Loc(A, 2, 1), Loc(A, 3, 1), Loc(B, 1, 1)>>>>)
Again == Alert(FALSE, Loc(A, 2, 1), <<Loc(A, 2, 9)>>, <<Loc(A, 2, 10)>>, <<>>)
Long == [Alert(TRUE, Loc(A, 1, 1), <<>>, <<>>, <<>>) EXCEPT !.bytes = 50]

Unsound == [Long EXCEPT !.sound = FALSE]

\* Two builds in one SARIF file, whose bases have one name and two roots; the
\* second says which version of A it analyzed, and has bases within bases.
Builds ==
    <<[bases |-> [src |-> Base(Abs(<<"ci">>), NoBase)], artifacts |-> <<>>],
      [bases |-> [root |-> Base(Drive(<<"w">>), NoBase),
                  src |-> Base(Rel(<<"d">>), "root"),
                  deep |-> Base(Rel(<<"d">>), "src"),
                  round |-> Base(Rel(<<"d">>), "turn"),
                  turn |-> Base(Rel(<<"d">>), "round"),
                  inner |-> Base(Drive(<<"w", "d">>), "root"),
                  other |-> Base(Abs(<<"x">>), "root"),
                  lost |-> Base(Rel(<<"d">>), "nowhere")],
       artifacts |-> <<File(Rel(A), "root", "d1")>>]>>

InFirstBuild == Alert(FALSE, Spot(Abs(<<"s">> \o A), NoBase, 0, 1, 1),
                      <<Spot(Rel(B), "src", 0, 1, 1)>>,
                      <<[Spot(Rel(A), SourceRoot, 0, 2, 1) EXCEPT !.id = 1]>>,
                      <<<<See(1)>>>>)
InSecondBuild(first, second) ==
    [Alert(FALSE, first, <<second, Spot(Missing, NoBase, 1, 1, 1)>>, <<>>, <<>>)
       EXCEPT !.run = 2]

Inner == Spot(Rel(<<"B">>), "src", 0, 1, 1)
Deep == Spot(Rel(A), "deep", 0, 1, 1)

Backwards == [Spot(Rel(A), "root", 0, 2, 1) EXCEPT !.last = 1]
BackwardsInLine == [Spot(Rel(A), "root", 0, 2, 5) EXCEPT !.upto = 4]

Spellings ==
    {Deep, Backwards, BackwardsInLine,
     Spot(Rel(<<"B">>), "inner", 0, 1, 1), Spot(Rel(A), "round", 0, 1, 1),
     Spot(Rel(A), "lost", 0, 1, 1), Spot(Rel(A), "other", 0, 1, 1),
     Spot(Drive(<<"w", "d", "B">>), "src", 0, 2, 1),
     Spot(Drive(<<"w", "A">>), NoBase, 0, 2, 1), Spot(Rel(A), "root", 2, 1, 1),
     Spot(Abs(<<"ci", "A">>), NoBase, 0, 1, 1), Spot(Rel(<<>>), "root", 0, 1, 1),
     See(1)}

MCSetups ==
    {Setup(Plain, <<Leak>>, "path_function_slice", Without),
     Setup(Plain, <<Leak>>, "fixed_window", With(TRUE, <<Entry(1)>>)),
     Setup(Plain, <<Flow, Leak>>, "path_function_slice", With(FALSE, <<Entry(1)>>)),
     Setup(Plain, <<Again, Flow>>, "path_function_slice",
           With(TRUE, <<Entry(1), Entry(2)>>)),
     Setup(Plain, <<Long>>, "fixed_window", With(TRUE, <<Entry(2)>>)),
     Setup(Plain, <<Unsound>>, "fixed_window", Without),
     Setup(Plain, <<>>, "fixed_window", Without)}
    \cup {Setup(Builds, <<InFirstBuild, InSecondBuild(p[1], p[2])>>, "fixed_window",
                Without) : p \in {<<Deep, Inner>>} \cup ({Inner} \X Spellings)}

MCContents == Contents

=============================================================================
