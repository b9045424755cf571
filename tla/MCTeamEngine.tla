---------------------------- MODULE MCTeamEngine ----------------------------
(* Plans for TeamEngine's runs.                                            *)
EXTENDS TeamEngine

\* Two pieces side by side, one with its stage to itself behind a checkpoint, the pack.
TwoThenOne ==
    << [kind |-> "contribute", who |-> {1, 2}],
       [kind |-> "challenge",  who |-> {1}],
       [kind |-> "synthesize", who |-> {}] >>

OneThenPack ==
    << [kind |-> "contribute", who |-> {1}],
       [kind |-> "synthesize", who |-> {}] >>
=============================================================================
