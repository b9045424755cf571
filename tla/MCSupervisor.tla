---------------------------- MODULE MCSupervisor ----------------------------
(* Small stacks for Supervisor: `api` waits on `pub`, or `pub` on `api`.     *)
EXTENDS Supervisor

CONSTANTS api, pub

\* What a service waits on, and what restarts with it.
Nothing      == [s \in Services |-> <<>>]
ApiNeedsPub  == [Nothing EXCEPT ![api] = <<pub>>]
PubNeedsApi  == [Nothing EXCEPT ![pub] = <<api>>]
PubFollows   == [Nothing EXCEPT ![api] = <<pub>>]
=============================================================================
