----------------------------- MODULE MCFlowRun -----------------------------
(* Two flows of two steps, which between them have every kind of step.     *)
EXTENDS FlowRun, TLC

Plain == [part |-> <<"a", "b">>, gate |-> <<"none", "none">>, goto |-> <<0, 0>>,
          aborts |-> {}, diffs |-> {}, readsDiff |-> {}, ifChanged |-> {},
          reviews |-> {}, writes |-> {}, worker |-> FALSE]

\* Write code, and let the same participant review it if anything changed; a
\* bad review sends the code back.
Build == [Plain EXCEPT !.part = <<"a", "a">>, !.goto = <<0, 1>>, !.diffs = {1},
                       !.readsDiff = {2}, !.ifChanged = {2}, !.reviews = {2}]

\* A worker drafts, and another participant sends the draft out into the world.
Ship == [Plain EXCEPT !.gate = <<"none", "externalAction">>, !.writes = {2}, !.worker = TRUE]

BuildAndShip == {Build, Ship}
ShipOnly     == {Ship}

\* What people and crashes do.
TwoMoves   == [f \in BuildAndShip |-> 2]
ThreeMoves == [f \in ShipOnly |-> 3]
=============================================================================
