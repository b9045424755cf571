---------------------------- MODULE LaunchGate ----------------------------
(***************************************************************************)
(* The gate of src/main/services/launchGate.ts: how many heavy starts run  *)
(* at once.  One gate serves every supervisor of the app.  A launch asks   *)
(* for a slot (acquire), is granted one at once or queues, and gives it    *)
(* back through a closure that every way a start can end calls, so that    *)
(* some launches call it more than once.                                   *)
(***************************************************************************)
EXTENDS Naturals, Sequences, FiniteSets

CONSTANTS Launches,   \* the identities of calls of acquire
          Limit       \* the limit the gate was made with

VARIABLE gate   \* [running, waiting, held]: held are those granted and not released

EmptyGate == [running |-> 0, waiting |-> <<>>, held |-> {}]

(***************************************************************************)
(* What the methods make of a gate g.                                      *)
(***************************************************************************)
Full(g) == g.running >= Limit

Granted(g, l) == [g EXCEPT !.running = @ + 1, !.held = @ \cup {l}]

Asked(g, l) == IF Full(g) THEN [g EXCEPT !.waiting = Append(@, l)] ELSE Granted(g, l)

ReleasedUnheard(g, l) ==
  IF l \in g.held THEN [g EXCEPT !.running = @ - 1, !.held = @ \ {l}] ELSE g

ReleasedTwice(g, l) ==
  LET free == [g EXCEPT !.running = @ - 1, !.held = @ \ {l}]
  IN  IF g.waiting = <<>> THEN free
      ELSE Granted([free EXCEPT !.waiting = Tail(@)], Head(g.waiting))

\* The closure remembers that it was called: only the first call counts.
Released(g, l) ==
  LET free == [g EXCEPT !.running = @ - 1, !.held = @ \ {l}]
  IN  IF l \notin g.held THEN g
      ELSE IF g.waiting = <<>> THEN free
           ELSE Granted([free EXCEPT !.waiting = Tail(@)], Head(g.waiting))

Queued(g) == {g.waiting[i] : i \in DOMAIN g.waiting}

-----------------------------------------------------------------------------
Init == gate = EmptyGate

Acquire(l) ==
  /\ l \notin gate.held \cup Queued(gate)
  /\ gate' = Asked(gate, l)

Release(l) == gate' = Released(gate, l)

Next == \E l \in Launches : Acquire(l) \/ Release(l)

\* A launch gives its slot back: it is ready, slow, exited or failed to spawn.
Spec == Init /\ [][Next]_gate

-----------------------------------------------------------------------------
TypeOK == gate \in [running : Nat, waiting : Seq(Launches), held : SUBSET Launches]

(***************************************************************************)
(* No start waits while a slot is free: the slot a start gives back goes   *)
(* to the one at the head of the line in the same call.                    *)
(***************************************************************************)
NoIdleSlot == gate.waiting # <<>> => gate.running = Limit
=============================================================================
