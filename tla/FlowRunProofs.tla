--------------------------- MODULE FlowRunProofs ---------------------------
(***************************************************************************)
(* What holds of a flow run for every flow, however many steps it has,     *)
(* whoever takes part and whatever the budgets are: its type, that a       *)
(* watchdog sees a run at work, that a run at rest stays there, that gates *)
(* hold and that a run is done only over settled steps.                    *)
(*                                                                         *)
(* The handlers of the runtime call each other and checkpoint on the way,  *)
(* so each has a lemma that says what it may start from and leaves behind. *)
(***************************************************************************)
EXTENDS FlowRun, TLAPS, SequenceTheorems

\* A gated step that is skipped when nothing changed is not cleared; nor is the
\* one behind a gate that a crash sends the run back to.  Such a step must not be
\* followed by one with a gate or skipped when nothing changed: before that one
\* the run is called to be at the former again, for git or for a summary.
Spaced(f) ==
    \A s \in Steps : f.gate[s] # "none" /\ s # Last
                        /\ (f.gate[s + 1] # "none" \/ s + 1 \in f.ifChanged) =>
        s \notin f.ifChanged /\ ~(f.worker /\ f.gate[s + 1] = "externalAction")

\* A step before one that is skipped when nothing changed does not send the run
\* back when it fails: git's late answer would find the run at it again.
Forward(f) == \A s \in Steps : s # Last /\ s + 1 \in f.ifChanged => f.goto[s] = 0

\* What a paused run says of its step, and the steps a run has behind it.
RunSafe(r) ==
    /\ r.kind = "paused" => r.why # "none"
    /\ r.kind = "paused" /\ r.why \in Gates => r.why = Gate(r.at)
    /\ Forward(flow) => 1..(r.at - 1) \subseteq r.settled
    /\ Forward(flow) /\ r.kind = "done" => r.settled = Steps

\* A run at work, or cut short at it, was let through the gate of its step; one
\* held or stopped at the next step was, too.
OpenHere(r) ==
    /\ Gate(r.at) # "none"
    /\ r.kind = "running" \/ (r.kind = "paused" /\ r.why \in {"interrupted", "failure"})
    => r.at \in r.cleared
OpenBehind(r) ==
    /\ r.kind = "paused" /\ r.why \in Gates \cup {"held"}
    /\ r.at # 1 /\ Gate(r.at - 1) # "none"
    /\ Gate(r.at) # "none" \/ r.at \in flow.ifChanged
    => r.at - 1 \in r.cleared
GateOpen(r) == Spaced(flow) => OpenHere(r) /\ OpenBehind(r)

RunOK(r) == RunSafe(r) /\ GateOpen(r)

\* Whoever waits for git's word on a step waits at a settled one; x is exempt.
ChangedOK(e, x) ==
    \A s \in Steps : e.awaits["changed"][s] > 0 =>
        /\ s # Last /\ s + 1 \in flow.ifChanged
        /\ Forward(flow) /\ e.run.kind = "running" /\ s # x => s \in e.run.settled

\* While a finalize turn is awaited nothing else moves the run.
FinalOK(e) ==
    e.final # 0 =>
        /\ e.final # 1 /\ e.run.at = e.final - 1
        /\ e.run.kind = "paused" => e.run.why = "needsInput"
        /\ \A s \in Steps : e.awaits["changed"][s] = 0 /\ e.awaits["diff"][s] = 0
        /\ Forward(flow) => 1..(e.final - 1) \subseteq e.run.settled
        /\ Spaced(flow) /\ Gate(e.final) # "none" => e.final \in e.run.cleared

Loose(e, x) ==
    e \in Runtime /\ RunSafe(e.run) /\ RunOK(e.disk) /\ ChangedOK(e, x) /\ FinalOK(e)

\* A run at work is one the sweep sees, or waits at its step.
Watched(e) ==
    e.run.kind = "running" =>
        \/ e.armed \/ e.final # 0
        \/ \E w \in Waits \ {"ask"} : e.awaits[w][e.run.at] > 0

EngineOK(e) == Loose(e, 0) /\ GateOpen(e.run) /\ Watched(e)

IInv == flow \in Flows /\ moves \in 0..MaxMoves[flow] /\ EngineOK(rt)
-----------------------------------------------------------------------------
(* The updates the handlers are made of: their type, and what they keep.   *)

\* d may differ from e in its conversations, buffers and budgets only.
Keeps(d, e) ==
    d.disk = e.disk /\ d.final = e.final /\ d.armed = e.armed /\ d.awaits = e.awaits

\* The fields of a flow, at its steps.
LEMMA FlowFields ==
    ASSUME flow \in Flows, NEW s \in Steps
    PROVE  /\ Part(s) \in Parties /\ Gate(s) \in Gates \cup {"none"} /\ Goto(s) \in 0..Last
           /\ Gate(s) # "none" => Gate(s) \in Gates
BY FlowAssumption DEF Flow, Part, Gate, Goto

\* There is a first step, and no step is 0.
LEMMA StepRange == Last \in Nat /\ Last # 0 /\ 1 \in Steps /\ 0 \notin Steps
BY FlowAssumption DEF Steps

\* A runtime with another run is a runtime.
LEMMA SetRun ==
    ASSUME NEW e \in Runtime, NEW r \in Run
    PROVE  LET d == [e EXCEPT !.run = r] IN d \in Runtime /\ Keeps(d, e) /\ d.run = r
BY DEF Runtime, Keeps

\* The run is at work at s.
LEMMA GoesType ==
    ASSUME NEW e \in Runtime, NEW s \in Steps
    PROVE  /\ Goes(e, s) \in Runtime /\ Keeps(Goes(e, s), e)
           /\ Goes(e, s).run.kind = "running" /\ Goes(e, s).run.at = s
           /\ Goes(e, s).run.settled = e.run.settled
           /\ Goes(e, s).run.cleared = e.run.cleared
BY DEF Goes, Runtime, Run, Kinds, Why, Keeps

\* The run is paused at s.
LEMMA StopsType ==
    ASSUME NEW e \in Runtime, NEW s \in Steps, NEW why \in Why
    PROVE  /\ Stops(e, s, why) \in Runtime /\ Keeps(Stops(e, s, why), e)
           /\ Stops(e, s, why).run.kind = "paused" /\ Stops(e, s, why).run.at = s
           /\ Stops(e, s, why).run.why = why
           /\ Stops(e, s, why).run.settled = e.run.settled
           /\ Stops(e, s, why).run.cleared = e.run.cleared
BY DEF Stops, Runtime, Run, Kinds, Keeps

\* The run is saved, and nothing else changes.
LEMMA CheckpointType ==
    ASSUME NEW e \in Runtime
    PROVE  /\ Checkpoint(e) \in Runtime /\ Checkpoint(e).run = e.run
           /\ Checkpoint(e).disk = e.run /\ Checkpoint(e).final = e.final
           /\ Checkpoint(e).armed = e.armed /\ Checkpoint(e).awaits = e.awaits
BY DEF Checkpoint, Runtime

\* One more wait for an answer about s.
LEMMA WaitType ==
    ASSUME NEW e \in Runtime, NEW w \in Waits, NEW s \in Steps
    PROVE  /\ Wait(e, w, s) \in Runtime
           /\ Wait(e, w, s).run = e.run /\ Wait(e, w, s).disk = e.disk
           /\ Wait(e, w, s).final = e.final /\ Wait(e, w, s).armed = e.armed
           /\ \A v \in Waits, u \in Steps : Wait(e, w, s).awaits[v][u] =
                IF v = w /\ u = s THEN e.awaits[v][u] + 1 ELSE e.awaits[v][u]
<1>1. e.awaits \in [Waits -> [Steps -> Nat]]  BY DEF Runtime
<1> DEFINE a == [e.awaits EXCEPT ![w] = [e.awaits[w] EXCEPT ![s] = @ + 1]]
<1>2. a \in [Waits -> [Steps -> Nat]]  BY <1>1
<1>3. Wait(e, w, s) = [e EXCEPT !.awaits = a]  BY <1>1 DEF Wait, Runtime
<1> HIDE DEF a
<1>4. /\ Wait(e, w, s) \in Runtime
      /\ Wait(e, w, s).run = e.run /\ Wait(e, w, s).disk = e.disk
      /\ Wait(e, w, s).final = e.final /\ Wait(e, w, s).armed = e.armed
      /\ Wait(e, w, s).awaits = a
  BY <1>2, <1>3 DEF Runtime
<1>5. \A v \in Waits, u \in Steps :
        a[v][u] = IF v = w /\ u = s THEN e.awaits[v][u] + 1 ELSE e.awaits[v][u]
  BY <1>1 DEF a
<1> QED BY <1>4, <1>5

\* One wait less.
LEMMA ReturnType ==
    ASSUME NEW e \in Runtime, NEW w \in Waits, NEW s \in Steps, e.awaits[w][s] > 0
    PROVE  /\ Return(e, w, s) \in Runtime
           /\ Return(e, w, s).run = e.run /\ Return(e, w, s).disk = e.disk
           /\ Return(e, w, s).final = e.final /\ Return(e, w, s).armed = e.armed
           /\ \A v \in Waits, u \in Steps : Return(e, w, s).awaits[v][u] =
                IF v = w /\ u = s THEN e.awaits[v][u] - 1 ELSE e.awaits[v][u]
<1>1. e.awaits \in [Waits -> [Steps -> Nat]]  BY DEF Runtime
<1> DEFINE a == [e.awaits EXCEPT ![w] = [e.awaits[w] EXCEPT ![s] = @ - 1]]
<1>2. a \in [Waits -> [Steps -> Nat]]  BY <1>1
<1>3. Return(e, w, s) = [e EXCEPT !.awaits = a]  BY <1>1 DEF Return, Runtime
<1> HIDE DEF a
<1>4. /\ Return(e, w, s) \in Runtime
      /\ Return(e, w, s).run = e.run /\ Return(e, w, s).disk = e.disk
      /\ Return(e, w, s).final = e.final /\ Return(e, w, s).armed = e.armed
      /\ Return(e, w, s).awaits = a
  BY <1>2, <1>3 DEF Runtime
<1>5. \A v \in Waits, u \in Steps :
        a[v][u] = IF v = w /\ u = s THEN e.awaits[v][u] - 1 ELSE e.awaits[v][u]
  BY <1>1 DEF a
<1> QED BY <1>4, <1>5

\* A conversation changes, nothing else does.
LEMMA SetConv ==
    ASSUME NEW e \in Runtime, NEW p \in Parties, NEW c \in Conv
    PROVE  LET d == [e EXCEPT !.conv[p] = c] IN d \in Runtime /\ Keeps(d, e) /\ d.run = e.run
<1>1. e.conv \in [Parties -> Conv]  BY DEF Runtime
<1> DEFINE cs == [e.conv EXCEPT ![p] = c]
<1>2. cs \in [Parties -> Conv]  BY <1>1
<1>3. [e EXCEPT !.conv[p] = c] = [e EXCEPT !.conv = cs]  BY <1>1 DEF Runtime
<1> HIDE DEF cs
<1> QED BY <1>2, <1>3 DEF Runtime, Keeps

\* A turn is sent to a conversation.
LEMMA SendType ==
    ASSUME NEW e \in Runtime, NEW p \in Parties, NEW t \in 0..Last
    PROVE  Send(e, p, t) \in Runtime /\ Keeps(Send(e, p, t), e) /\ Send(e, p, t).run = e.run
<1>1. e.conv \in [Parties -> Conv]  BY DEF Runtime
<1>2. e.conv[p].prep \in Turns  BY <1>1 DEF Conv
<1> DEFINE q == Append(e.conv[p].prep, t)
<1>3. q \in Turns  BY <1>2 DEF Turns
<1> DEFINE c == [e.conv[p] EXCEPT !.prep = q, !.pending = TRUE]
<1> HIDE DEF q
<1>4. c \in Conv  BY <1>1, <1>3 DEF Conv
<1>5. Send(e, p, t) = [e EXCEPT !.conv[p] = c]  BY <1>1 DEF Send, Runtime, Conv, q
<1> HIDE DEF c
<1> QED BY <1>4, <1>5, SetConv

\* The minute's sweep looks at the run.
LEMMA SetArmed ==
    ASSUME NEW e \in Runtime, NEW b \in BOOLEAN
    PROVE  LET d == [e EXCEPT !.armed = b]
           IN  /\ d \in Runtime /\ d.run = e.run /\ d.disk = e.disk /\ d.final = e.final
               /\ d.armed = b /\ d.awaits = e.awaits
BY DEF Runtime

\* A finalize turn is asked for, or over.
LEMMA SetFinal ==
    ASSUME NEW e \in Runtime, NEW f \in 0..Last
    PROVE  LET d == [e EXCEPT !.final = f]
           IN  /\ d \in Runtime /\ d.run = e.run /\ d.disk = e.disk /\ d.final = f
               /\ d.armed = e.armed /\ d.awaits = e.awaits
BY DEF Runtime

\* The buffers, the chats and the budgets: no property reads them.
LEMMA SetBuf ==
    ASSUME NEW e \in Runtime, NEW b \in SUBSET {"output", "question"}
    PROVE  LET d == [e EXCEPT !.buf = b] IN d \in Runtime /\ Keeps(d, e) /\ d.run = e.run
BY DEF Runtime, Keeps

\* Who has been talked to in the pause.
LEMMA SetChat ==
    ASSUME NEW e \in Runtime, NEW c \in SUBSET Parties
    PROVE  LET d == [e EXCEPT !.chat = c] IN d \in Runtime /\ Keeps(d, e) /\ d.run = e.run
BY DEF Runtime, Keeps

\* How often a step has been gone back from.
LEMMA SetRetries ==
    ASSUME NEW e \in Runtime, NEW n \in [Steps -> Nat]
    PROVE  LET d == [e EXCEPT !.retries = n] IN d \in Runtime /\ Keeps(d, e) /\ d.run = e.run
BY DEF Runtime, Keeps

\* How often a step has been asked again.
LEMMA SetReasks ==
    ASSUME NEW e \in Runtime, NEW n \in [Steps -> Nat]
    PROVE  LET d == [e EXCEPT !.reasks = n] IN d \in Runtime /\ Keeps(d, e) /\ d.run = e.run
BY DEF Runtime, Keeps
-----------------------------------------------------------------------------
(* What the parts of the invariant look at.                                *)

\* Git is asked about the same steps in d as in e.
SameGit(d, e) ==
    \A s \in Steps : /\ d.awaits["changed"][s] = e.awaits["changed"][s]
                     /\ d.awaits["diff"][s] = e.awaits["diff"][s]

\* What the runtime may wait for.
LEMMA WaitNames == "changed" \in Waits /\ "diff" \in Waits /\ "refresh" \in Waits /\ "ask" \in Waits
BY DEF Waits

\* A runtime that differs in none of its waits waits for git as before.
LEMMA KeepsGit ==
    ASSUME NEW e, NEW d, Keeps(d, e)
    PROVE  SameGit(d, e)
BY DEF Keeps, SameGit

\* The invariant reads the run, its checkpoint, the finalize turn and git.
LEMMA LooseTransfer ==
    ASSUME NEW e, NEW d \in Runtime, NEW x, Loose(e, x),
           d.run = e.run, d.disk = e.disk, d.final = e.final, SameGit(d, e)
    PROVE  Loose(d, x)
BY DEF Loose, ChangedOK, FinalOK, SameGit

\* A run at rest, checkpointed, with no finalize turn asked for.
LEMMA Rested ==
    ASSUME NEW e, NEW x, Loose(e, x), NEW f \in Runtime, SameGit(f, e),
           f.final = 0, f.run.kind # "running", RunOK(f.run)
    PROVE  EngineOK(Checkpoint(f))
<1> DEFINE d == Checkpoint(f)
<1>1. /\ d \in Runtime /\ d.run = f.run /\ d.disk = f.run /\ d.final = 0
      /\ d.awaits = f.awaits
  BY CheckpointType
<1> HIDE DEF d
<1>2. ChangedOK(d, 0)  BY <1>1 DEF Loose, ChangedOK, SameGit
<1>3. FinalOK(d)  BY <1>1 DEF FinalOK
<1>4. GateOpen(d.run) /\ RunSafe(d.run) /\ RunOK(d.disk)  BY <1>1 DEF RunOK
<1>5. Watched(d)  BY <1>1 DEF Watched
<1> QED BY <1>1, <1>2, <1>3, <1>4, <1>5 DEF EngineOK, Loose, d

\* Saving what the run is.
LEMMA Saved ==
    ASSUME NEW e \in Runtime, NEW x, Loose(e, x), GateOpen(e.run)
    PROVE  Loose(Checkpoint(e), x) /\ GateOpen(Checkpoint(e).run)
<1> DEFINE d == Checkpoint(e)
<1>1. /\ d \in Runtime /\ d.run = e.run /\ d.disk = e.run /\ d.final = e.final
      /\ d.awaits = e.awaits
  BY CheckpointType
<1> HIDE DEF d
<1>2. ChangedOK(d, x) /\ FinalOK(d)  BY <1>1 DEF Loose, ChangedOK, FinalOK
<1> QED BY <1>1, <1>2 DEF Loose, RunOK, d

-----------------------------------------------------------------------------
(* Starting a step.                                                        *)

\* The send of an attempt starts the watchdog.
LEMMA LaunchOK ==
    ASSUME flow \in Flows, NEW e \in Runtime, NEW s \in Steps, Loose(e, 0), GateOpen(e.run)
    PROVE  /\ EngineOK(Launch(e, s))
           /\ Launch(e, s).run = e.run
<1>1. Part(s) \in Parties /\ s \in 0..Last  BY FlowFields, StepRange DEF Steps
<1> DEFINE m == Send(e, Part(s), s)  d == Launch(e, s)
<1>2. m \in Runtime /\ Keeps(m, e) /\ m.run = e.run  BY <1>1, SendType
<1>3. d = [m EXCEPT !.armed = TRUE]  BY DEF Launch
<1> HIDE DEF m, d
<1>4. /\ d \in Runtime /\ d.run = m.run /\ d.disk = m.disk /\ d.final = m.final
      /\ d.armed = TRUE /\ d.awaits = m.awaits
  BY <1>2, <1>3, SetArmed
<1>5. d.run = e.run /\ d.disk = e.disk /\ d.final = e.final /\ d.awaits = e.awaits
  BY <1>2, <1>4 DEF Keeps
<1>6. Loose(d, 0)  BY <1>4, <1>5, LooseTransfer DEF SameGit
<1>7. GateOpen(d.run) /\ Watched(d)  BY <1>4, <1>5 DEF Watched
<1> QED BY <1>5, <1>6, <1>7 DEF EngineOK, d

\* Whoever starts a step has gone to it, through its gate if it has one.
LEMMA ExecuteOK ==
    ASSUME flow \in Flows, NEW e \in Runtime, NEW s \in Steps, Loose(e, 0),
           At(e, "running", s), GateOpen(e.run)
    PROVE  EngineOK(Execute(e, s))
<1> DEFINE rs == [e.reasks EXCEPT ![s] = 0]
           b == [e EXCEPT !.buf = {}]
           fresh == [e EXCEPT !.buf = {}, !.reasks[s] = 0]
<1>1. e.reasks \in [Steps -> Nat]  BY DEF Runtime
<1>2. rs \in [Steps -> Nat]  BY <1>1
<1>3. b \in Runtime /\ Keeps(b, e) /\ b.run = e.run  BY SetBuf
<1>4. fresh = [b EXCEPT !.reasks = rs]  BY <1>1 DEF Runtime
<1> HIDE DEF b, rs, fresh
<1>5. fresh \in Runtime /\ Keeps(fresh, b) /\ fresh.run = b.run  BY <1>2, <1>3, <1>4, SetReasks
<1>6. Keeps(fresh, e) /\ fresh.run = e.run  BY <1>3, <1>5 DEF Keeps
<1>7. Loose(fresh, 0)  BY <1>5, <1>6, KeepsGit, LooseTransfer DEF Keeps
<1>8. Execute(e, s) = IF s \in flow.readsDiff /\ e.run.made \cap flow.diffs # {}
                      THEN Wait(fresh, "refresh", s) ELSE Launch(fresh, s)
  BY DEF Execute, fresh
<1>9. CASE s \in flow.readsDiff /\ e.run.made \cap flow.diffs # {}
  <2> DEFINE d == Wait(fresh, "refresh", s)
  <2>1. /\ d \in Runtime /\ d.run = fresh.run /\ d.disk = fresh.disk
        /\ d.final = fresh.final
        /\ \A v \in Waits, u \in Steps : d.awaits[v][u] =
             IF v = "refresh" /\ u = s THEN fresh.awaits[v][u] + 1 ELSE fresh.awaits[v][u]
    BY <1>5, WaitType, WaitNames
  <2> HIDE DEF d
  <2>2. SameGit(d, fresh)  BY <2>1, WaitNames DEF SameGit
  <2>3. Loose(d, 0)  BY <2>1, <2>2, <1>7, LooseTransfer
  <2>4. fresh.awaits["refresh"][s] \in Nat  BY <1>5, WaitNames DEF Runtime
  <2>5. d.awaits["refresh"][s] > 0  BY <2>1, <2>4, WaitNames
  <2>6. Watched(d)  BY <2>1, <2>5, <1>6, WaitNames DEF Watched, At
  <2>7. GateOpen(d.run)  BY <2>1, <1>6
  <2> QED BY <1>8, <1>9, <2>3, <2>6, <2>7 DEF EngineOK, d
<1>10. CASE ~(s \in flow.readsDiff /\ e.run.made \cap flow.diffs # {})
  BY <1>5, <1>6, <1>7, <1>8, <1>10, LaunchOK
<1> QED BY <1>9, <1>10
-----------------------------------------------------------------------------
(* From one step to the next.                                              *)

\* The run may be at s again once it has come to the next step.
Passed(r, s) ==
    Spaced(flow) /\ s # Last /\ Gate(s) # "none"
    /\ (Gate(s + 1) # "none" \/ s + 1 \in flow.ifChanged) => s \in r.cleared

\* The run is at work at s, which is settled and passed.
Settled(e, s) ==
    /\ Loose(e, 0) /\ At(e, "running", s) /\ e.final = 0
    /\ Forward(flow) => s \in e.run.settled
    /\ Passed(e.run, s)

\* The run comes to the next step: to its gate, or to work.
LEMMA EnterOK ==
    ASSUME flow \in Flows, NEW e \in Runtime, NEW s \in Steps, s # Last, Settled(e, s)
    PROVE  EngineOK(Enter(e, s + 1))
<1> DEFINE n == s + 1
<1>1. n \in Steps /\ n # 1 /\ n - 1 = s  BY StepRange DEF Steps
<1>2. /\ Gate(n) \in Why
      /\ Gate(n) # "none" => Gate(n) \in Gates
  BY <1>1, FlowFields DEF Why
<1>3. e.run \in Run  BY DEF Runtime
<1>4. Forward(flow) => 1..(n - 1) \subseteq e.run.settled
  BY <1>1, StepRange DEF Settled, Loose, RunSafe, At, Steps
<1>5. CASE Gate(n) # "none"
  <2> DEFINE f == Stops(e, n, Gate(n))
  <2>1. f \in Runtime /\ Keeps(f, e)  BY <1>1, <1>2, StopsType
  <2>2. /\ f.run.kind = "paused" /\ f.run.at = n /\ f.run.why = Gate(n)
        /\ f.run.settled = e.run.settled /\ f.run.cleared = e.run.cleared
    BY <1>1, <1>2, StopsType
  <2> HIDE DEF f
  <2>3. RunSafe(f.run)  BY <1>4, <1>5, <2>2 DEF RunSafe
  <2>4. OpenHere(f.run)  BY <1>2, <1>5, <2>2 DEF OpenHere, Gates
  <2>5. Spaced(flow) => OpenBehind(f.run)
    BY <1>1, <2>2 DEF OpenBehind, Settled, Passed
  <2>6. RunOK(f.run)  BY <2>3, <2>4, <2>5 DEF RunOK, GateOpen
  <2>7. SameGit(f, e) /\ f.final = 0  BY <2>1, KeepsGit DEF Keeps, Settled
  <2>8. EngineOK(Checkpoint(f))  BY <2>1, <2>2, <2>6, <2>7, Rested DEF Settled
  <2> QED BY <2>8, <1>5 DEF Enter, f
<1>6. CASE Gate(n) = "none"
  <2> DEFINE f == Goes(e, n)
  <2>1. f \in Runtime /\ Keeps(f, e)  BY <1>1, GoesType
  <2>2. /\ f.run.kind = "running" /\ f.run.at = n
        /\ f.run.settled = e.run.settled /\ f.run.cleared = e.run.cleared
    BY <1>1, GoesType
  <2> HIDE DEF f
  <2>3. RunSafe(f.run)  BY <1>4, <2>2 DEF RunSafe
  <2>4. GateOpen(f.run)  BY <1>6, <2>2 DEF GateOpen, OpenHere, OpenBehind
  <2>5. ChangedOK(f, 0)  BY <2>1, <2>2 DEF ChangedOK, Keeps, Settled, Loose, At
  <2>6. FinalOK(f)  BY <2>1 DEF FinalOK, Keeps, Settled
  <2>7. Loose(f, 0)  BY <2>1, <2>3, <2>5, <2>6 DEF Loose, Keeps, Settled
  <2>8. EngineOK(Execute(f, n))  BY <1>1, <2>1, <2>2, <2>4, <2>7, ExecuteOK DEF At
  <2> QED BY <2>8, <1>6 DEF Enter, f
<1> QED BY <1>5, <1>6

\* The run goes on past a settled step: it is done, held, waits for git, or
\* comes to the next step.
LEMMA AdvanceAfterOK ==
    ASSUME flow \in Flows, NEW e \in Runtime, NEW s \in Steps, Settled(e, s)
    PROVE  EngineOK(AdvanceAfter(e, s))
<1>1. At(e, "running", s) /\ e.run \in Run  BY DEF Settled, Runtime
<1>2. e.run.kind = "running" /\ e.run.at = s  BY <1>1 DEF At
<1>3. CASE s = Last
  <2> DEFINE r == [e.run EXCEPT !.kind = "done", !.hold = FALSE]
             f == [e EXCEPT !.run = r]
  <2>1. r \in Run  BY <1>1 DEF Run, Kinds
  <2>2. /\ r.kind = "done" /\ r.at = Last
        /\ r.settled = e.run.settled /\ r.settled \subseteq Steps
    BY <1>1, <1>2, <1>3 DEF Run
  <2>3. AdvanceAfter(e, s) = Checkpoint(f)
    BY <1>1, <1>3 DEF AdvanceAfter, Finish, Runtime, Run
  <2> HIDE DEF r
  <2>4. f \in Runtime /\ Keeps(f, e) /\ f.run = r  BY <2>1, SetRun
  <2> HIDE DEF f
  <2>5. Forward(flow) => 1..(Last - 1) \subseteq r.settled /\ Last \in r.settled
    BY <1>2, <1>3, <2>2 DEF Settled, Loose, RunSafe
  <2>10. \A u \in Steps : u \in 1..(Last - 1) \/ u = Last  BY StepRange DEF Steps
  <2>6. Forward(flow) => r.settled = Steps  BY <2>2, <2>5, <2>10
  <2>9. RunSafe(r)  BY <2>2, <2>5, <2>6 DEF RunSafe
  <2>7. RunOK(r)  BY <2>2, <2>9 DEF RunOK, GateOpen, OpenHere, OpenBehind
  <2>8. f.final = 0 /\ SameGit(f, e)  BY <2>4, KeepsGit DEF Keeps, Settled
  <2> QED BY <2>2, <2>3, <2>4, <2>7, <2>8, Rested DEF Settled
<1>4. CASE s # Last
  <2> DEFINE n == s + 1
             r == [e.run EXCEPT !.cleared = @ \ {n}]
             there == [e EXCEPT !.run = r]
  <2>1. n \in Steps /\ n # 1 /\ n - 1 = s /\ n # s  BY <1>4, StepRange DEF Steps
  <2>2. r \in Run  BY <1>1 DEF Run
  <2>3. /\ r.kind = "running" /\ r.at = s /\ r.settled = e.run.settled
        /\ r.cleared = e.run.cleared \ {n} /\ r.why = e.run.why
    BY <1>1, <1>2 DEF Run
  <2>4. there = Arrive(e, n)  BY <1>1 DEF Arrive, Runtime, Run
  <2> HIDE DEF r
  <2>5. there \in Runtime /\ Keeps(there, e) /\ there.run = r  BY <2>2, SetRun
  <2> HIDE DEF there
  <2>15. RunSafe(e.run)  BY DEF Settled, Loose
  <2>6. RunSafe(r)  BY <1>2, <2>3, <2>15 DEF RunSafe
  <2>7. ChangedOK(there, 0) /\ FinalOK(there)
    BY <2>3, <2>5 DEF Keeps, ChangedOK, FinalOK, Settled, Loose, At
  <2>8. Loose(there, 0)  BY <2>5, <2>6, <2>7 DEF Loose, Settled, Keeps
  <2>9. Passed(r, s)  BY <2>1, <2>3 DEF Passed, Settled
  <2>10. Settled(there, s)
    BY <2>3, <2>5, <2>8, <2>9 DEF Settled, Keeps, At
  <2>11. there.final = 0  BY <2>10 DEF Settled
  <2>12. CASE e.run.hold
    <3> DEFINE m == Stops(there, n, "held")
               q == [m.run EXCEPT !.hold = FALSE]
               f == [m EXCEPT !.run = q]
    <3>12. "held" \in Why  BY DEF Why
    <3>1. m \in Runtime /\ Keeps(m, there)  BY <2>1, <2>5, <3>12, StopsType
    <3>15. /\ m.run.kind = "paused" /\ m.run.at = n /\ m.run.why = "held"
           /\ m.run.settled = r.settled /\ m.run.cleared = r.cleared
      BY <2>1, <2>5, <3>12, StopsType
    <3>2. AdvanceAfter(e, s) = Checkpoint([m EXCEPT !.run.hold = FALSE])
      BY <1>1, <1>4, <2>4, <2>12 DEF AdvanceAfter, Hold
    <3> HIDE DEF m
    <3>3. m.run \in Run  BY <3>1 DEF Runtime
    <3>4. q \in Run  BY <3>3 DEF Run
    <3>5. /\ q.kind = "paused" /\ q.at = n /\ q.why = "held"
          /\ q.settled = r.settled /\ q.cleared = r.cleared
      BY <3>15, <3>3 DEF Run
    <3>6. f = [m EXCEPT !.run.hold = FALSE]  BY <3>1, <3>3 DEF Runtime, Run
    <3> HIDE DEF q
    <3>7. f \in Runtime /\ Keeps(f, m) /\ f.run = q  BY <3>1, <3>4, SetRun
    <3> HIDE DEF f
    <3>8. f.final = 0 /\ SameGit(f, there)
      BY <3>1, <3>7, <2>11, KeepsGit DEF Keeps, SameGit
    <3>9. Forward(flow) => 1..(n - 1) \subseteq q.settled
      BY <2>1, <2>3, <2>6, <2>10, <2>5, <3>5, StepRange DEF Settled, RunSafe, Steps
    <3>10. RunSafe(q)  BY <3>5, <3>9 DEF RunSafe, Gates
    <3>13. OpenHere(q)  BY <3>5 DEF OpenHere
    <3>14. Spaced(flow) => OpenBehind(q)  BY <1>4, <2>1, <2>9, <3>5 DEF OpenBehind, Passed
    <3>11. RunOK(q)  BY <3>10, <3>13, <3>14 DEF RunOK, GateOpen
    <3> QED BY <3>2, <3>5, <3>6, <3>7, <3>8, <3>11, <2>8, Rested
  <2>13. CASE ~e.run.hold /\ n \in flow.ifChanged
    <3> DEFINE d == Wait(there, "changed", s)
    <3>1. AdvanceAfter(e, s) = d
      BY <1>1, <1>4, <2>4, <2>13 DEF AdvanceAfter
    <3>10. "changed" \in Waits  BY WaitNames
    <3>2. /\ d \in Runtime /\ d.run = there.run /\ d.disk = there.disk
          /\ d.final = there.final
          /\ \A v \in Waits, u \in Steps : d.awaits[v][u] =
               IF v = "changed" /\ u = s THEN there.awaits[v][u] + 1 ELSE there.awaits[v][u]
      BY <2>5, <3>10, WaitType
    <3> HIDE DEF d
    <3>3. there.awaits["changed"][s] \in Nat  BY <2>5, WaitNames DEF Runtime
    <3>4. d.awaits["changed"][s] > 0  BY <3>2, <3>3, WaitNames
    <3>5. ChangedOK(d, 0)
      BY <1>4, <2>1, <2>5, <2>8, <2>10, <2>13, <3>2, WaitNames DEF ChangedOK, Settled, Loose
    <3>6. FinalOK(d)  BY <2>11, <3>2 DEF FinalOK
    <3>7. Loose(d, 0)  BY <2>8, <3>2, <3>5, <3>6 DEF Loose
    <3>8. GateOpen(d.run)
      BY <1>4, <2>3, <2>5, <2>9, <2>13, <3>2 DEF GateOpen, OpenHere, OpenBehind, Passed
    <3>9. Watched(d)  BY <2>3, <2>5, <3>2, <3>4, WaitNames DEF Watched
    <3> QED BY <3>1, <3>7, <3>8, <3>9 DEF EngineOK
  <2>14. CASE ~e.run.hold /\ n \notin flow.ifChanged
    <3>1. AdvanceAfter(e, s) = Enter(there, n)
      BY <1>1, <1>4, <2>4, <2>14 DEF AdvanceAfter
    <3> QED BY <1>4, <2>5, <2>10, <3>1, EnterOK
  <2> QED BY <2>12, <2>13, <2>14
<1> QED BY <1>3, <1>4
-----------------------------------------------------------------------------
(* A step fails.                                                           *)

\* The run goes to s, as somebody said: r is the run, cleared and settled so far.
LEMMA StartOK ==
    ASSUME flow \in Flows, NEW e \in Runtime, NEW s \in Steps,
           RunOK(e.disk), e.final = 0 \/ (FinalOK(e) /\ e.run.at = s),
           \A u \in Steps : e.awaits["changed"][u] > 0 =>
               /\ u # Last /\ u + 1 \in flow.ifChanged
               /\ Forward(flow) => u \in e.run.settled,
           Forward(flow) => 1..(s - 1) \subseteq e.run.settled,
           Spaced(flow) /\ Gate(s) # "none" => s \in e.run.cleared
    PROVE  EngineOK(Execute(Goes(e, s), s))
<1> DEFINE f == Goes(e, s)
<1>1. f \in Runtime /\ Keeps(f, e)  BY GoesType
<1>2. /\ f.run.kind = "running" /\ f.run.at = s
      /\ f.run.settled = e.run.settled /\ f.run.cleared = e.run.cleared
  BY GoesType
<1> HIDE DEF f
<1>3. RunSafe(f.run)  BY <1>2 DEF RunSafe
<1>4. GateOpen(f.run)  BY <1>2 DEF GateOpen, OpenHere, OpenBehind
<1>5. ChangedOK(f, 0)  BY <1>1, <1>2 DEF ChangedOK, Keeps
<1>6. FinalOK(f)  BY <1>1, <1>2 DEF FinalOK, Keeps
<1>7. Loose(f, 0)  BY <1>1, <1>3, <1>5, <1>6 DEF Loose, Keeps
<1> QED BY <1>1, <1>2, <1>4, <1>7, ExecuteOK DEF At, f

\* The step the run is at work at, with no finalize turn asked for.
Working(e, s) == At(e, "running", s) /\ e.final = 0 /\ GateOpen(e.run)

\* A failed step is not settled, and who waits for git there waits no more: the
\* run is over, goes back to a step behind, or pauses.
LEMMA FailureOK ==
    ASSUME flow \in Flows, NEW e \in Runtime, NEW s \in Steps, Loose(e, s), Working(e, s)
    PROVE  EngineOK(Failure(e, s))
<1> DEFINE q == [e.run EXCEPT !.settled = @ \ {s}]
           f == [e EXCEPT !.run.settled = @ \ {s}]
<1>1. e.run \in Run /\ e.run.kind = "running" /\ e.run.at = s  BY DEF Runtime, Working, At
<1>2. q \in Run  BY <1>1 DEF Run
<1>3. /\ q.kind = "running" /\ q.at = s /\ q.settled = e.run.settled \ {s}
      /\ q.cleared = e.run.cleared
  BY <1>1 DEF Run
<1>4. f = [e EXCEPT !.run = q]  BY DEF Runtime, Run
<1>6. Failure(e, s) =
        IF s \in flow.aborts THEN Checkpoint([f EXCEPT !.run.kind = "aborted"])
        ELSE IF Goto(s) # 0 /\ f.retries[s] < MaxRetries THEN Retry(f, s)
        ELSE Checkpoint(Stops(f, s, "failure"))
  BY DEF Failure
<1> HIDE DEF q, f
<1>5. f \in Runtime /\ Keeps(f, e) /\ f.run = q  BY <1>2, <1>4, SetRun
<1>7. s \in 1..Last /\ s \in Int  BY DEF Steps
<1>8. Forward(flow) => 1..(s - 1) \subseteq e.run.settled  BY <1>1 DEF Loose, RunSafe
<1>9. s \notin 1..(s - 1)  BY <1>7
<1>10. Forward(flow) => 1..(s - 1) \subseteq q.settled  BY <1>3, <1>8, <1>9
<1>11. f.final = 0 /\ SameGit(f, e) /\ f.disk = e.disk
  BY <1>5, KeepsGit DEF Keeps, Working
<1>12. Spaced(flow) /\ Gate(s) # "none" => s \in q.cleared
  BY <1>1, <1>3 DEF Working, GateOpen, OpenHere
<1>13. CASE s \in flow.aborts
  <2> DEFINE r == [q EXCEPT !.kind = "aborted"]
             d == [f EXCEPT !.run = r]
  <2>1. r \in Run  BY <1>2 DEF Run, Kinds
  <2>2. r.kind = "aborted" /\ r.at = s /\ r.settled = q.settled  BY <1>2, <1>3 DEF Run
  <2>3. d = [f EXCEPT !.run.kind = "aborted"]  BY <1>5 DEF Runtime, Run
  <2> HIDE DEF r
  <2>4. d \in Runtime /\ Keeps(d, f) /\ d.run = r  BY <1>5, <2>1, SetRun
  <2> HIDE DEF d
  <2>5. d.final = 0 /\ SameGit(d, e)  BY <1>11, <2>4, KeepsGit DEF Keeps, SameGit
  <2>6. RunOK(r)
    BY <1>10, <2>2 DEF RunOK, RunSafe, GateOpen, OpenHere, OpenBehind
  <2> QED BY <1>6, <1>13, <2>2, <2>3, <2>4, <2>5, <2>6, Rested
<1>14. CASE s \notin flow.aborts /\ Goto(s) # 0 /\ f.retries[s] < MaxRetries
  <2> DEFINE t == Goto(s)
             n == [f.retries EXCEPT ![s] = @ + 1]
             m == [f EXCEPT !.retries = n]
             r == [q EXCEPT !.settled = @ \cup 1..(t - 1), !.cleared = @ \cup {t}]
             d == [m EXCEPT !.run = r]
  <2>1. t \in Steps  BY <1>14, FlowFields, StepRange DEF Steps
  <2>2. n \in [Steps -> Nat]  BY <1>5 DEF Runtime
  <2>3. 1..(t - 1) \subseteq Steps  BY <2>1, StepRange DEF Steps
  <2>4. r \in Run  BY <1>2, <2>1, <2>3 DEF Run
  <2>5. /\ r.settled = q.settled \cup 1..(t - 1) /\ r.cleared = q.cleared \cup {t}
    BY <1>2 DEF Run
  <2>6. d = [f EXCEPT !.retries[s] = @ + 1, !.run.settled = @ \cup 1..(t - 1),
                      !.run.cleared = @ \cup {t}]
    BY <1>5, <1>2 DEF Runtime, Run
  <2>7. Retry(f, s) = Execute(Goes(d, t), t)  BY <2>6 DEF Retry
  <2> HIDE DEF n, r, t
  <2>8. m \in Runtime /\ Keeps(m, f) /\ m.run = f.run  BY <1>5, <2>2, SetRetries
  <2> HIDE DEF m
  <2>9. d \in Runtime /\ Keeps(d, m) /\ d.run = r  BY <2>4, <2>8, SetRun
  <2> HIDE DEF d
  <2>10. d.disk = e.disk /\ d.final = 0 /\ d.awaits = e.awaits
    BY <2>8, <2>9, <1>5, <1>11 DEF Keeps
  <2>11. ASSUME NEW u \in Steps, d.awaits["changed"][u] > 0
         PROVE  /\ u # Last /\ u + 1 \in flow.ifChanged
                /\ Forward(flow) => u \in d.run.settled
    <3>1. /\ u # Last /\ u + 1 \in flow.ifChanged
          /\ Forward(flow) /\ u # s => u \in e.run.settled
      BY <2>10, <2>11, <1>1 DEF Loose, ChangedOK
    <3>2. Forward(flow) => u # s  BY <1>14, <3>1 DEF Forward, Goto
    <3> QED BY <3>1, <3>2, <2>5, <2>9, <1>3
  <2>12. Forward(flow) => 1..(t - 1) \subseteq d.run.settled  BY <2>5, <2>9
  <2>13. t \in d.run.cleared  BY <2>5, <2>9
  <2>14. RunOK(d.disk)  BY <2>10 DEF Loose
  <2>15. EngineOK(Execute(Goes(d, t), t))
    BY <2>1, <2>9, <2>10, <2>11, <2>12, <2>13, <2>14, StartOK
  <2> QED BY <1>6, <1>14, <2>7, <2>15
<1>15. CASE s \notin flow.aborts /\ ~(Goto(s) # 0 /\ f.retries[s] < MaxRetries)
  <2> DEFINE d == Stops(f, s, "failure")
  <2>1. "failure" \in Why  BY DEF Why
  <2>2. d \in Runtime /\ Keeps(d, f)  BY <1>5, <2>1, StopsType
  <2>3. /\ d.run.kind = "paused" /\ d.run.at = s /\ d.run.why = "failure"
        /\ d.run.settled = q.settled /\ d.run.cleared = q.cleared
    BY <1>5, <2>1, StopsType
  <2> HIDE DEF d
  <2>4. d.final = 0 /\ SameGit(d, e)  BY <1>11, <2>2, KeepsGit DEF Keeps, SameGit
  <2>5. RunSafe(d.run)  BY <1>10, <2>3 DEF RunSafe, Gates
  <2>6. Spaced(flow) => OpenHere(d.run)  BY <1>12, <2>3 DEF OpenHere
  <2>7. OpenBehind(d.run)  BY <2>3 DEF OpenBehind, Gates
  <2>8. RunOK(d.run)  BY <2>5, <2>6, <2>7 DEF RunOK, GateOpen
  <2> QED BY <1>6, <1>15, <2>2, <2>3, <2>4, <2>8, Rested DEF d
<1> QED BY <1>13, <1>14, <1>15

-----------------------------------------------------------------------------
(* A step succeeds, asks, or has said nothing.                             *)

\* What a judgement does to the run.
LEMMA JudgedType ==
    ASSUME NEW e \in Runtime, NEW s \in Steps, NEW approves
    PROVE  LET d == Judged(e, s, approves)
           IN  /\ d \in Runtime /\ Keeps(d, e)
               /\ d.run.kind = e.run.kind /\ d.run.at = e.run.at /\ d.run.why = e.run.why
               /\ d.run.cleared = e.run.cleared
               /\ Disapproved(s, approves) => d.run.settled = e.run.settled \ {s}
               /\ ~Disapproved(s, approves) => d.run.settled = e.run.settled \cup {s}
<1> DEFINE z == IF Disapproved(s, approves) THEN e.run.settled \ {s} ELSE e.run.settled \cup {s}
           n == [e.run.rounds EXCEPT ![s] = 0]
           r == [e.run EXCEPT !.made = @ \cup {s}, !.rounds = n, !.settled = z]
           d == Judged(e, s, approves)
<1>1. e.run \in Run  BY DEF Runtime
<1>2. z \in SUBSET Steps  BY <1>1 DEF Run
<1>3. n \in [Steps -> Nat]  BY <1>1 DEF Run
<1> HIDE DEF n
<1>4. d = [e EXCEPT !.run = r]
  BY <1>1 DEF Judged, Runtime, Run, n
<1> HIDE DEF z, d
<1>5. r \in Run  BY <1>1, <1>2, <1>3 DEF Run
<1>6. /\ r.kind = e.run.kind /\ r.at = e.run.at /\ r.why = e.run.why
      /\ r.cleared = e.run.cleared /\ r.settled = z
  BY <1>1 DEF Run
<1> HIDE DEF r
<1>7. d \in Runtime /\ Keeps(d, e) /\ d.run = r  BY <1>4, <1>5, SetRun
<1> QED BY <1>6, <1>7 DEF z, d

\* A result settles its step unless it disapproves, which is a failure.
LEMMA SuccessOK ==
    ASSUME flow \in Flows, NEW e \in Runtime, NEW s \in Steps, NEW approves,
           Loose(e, 0), Working(e, s)
    PROVE  EngineOK(Success(e, s, approves))
<1> DEFINE j == Judged(e, s, approves)
           d == Checkpoint(j)
<1>1. e.run.kind = "running" /\ e.run.at = s /\ e.final = 0  BY DEF Working, At
<1>2. /\ j \in Runtime /\ Keeps(j, e)
      /\ j.run.kind = "running" /\ j.run.at = s /\ j.run.cleared = e.run.cleared
      /\ Disapproved(s, approves) => j.run.settled = e.run.settled \ {s}
      /\ ~Disapproved(s, approves) => j.run.settled = e.run.settled \cup {s}
  BY <1>1, JudgedType
<1>3. Success(e, s, approves) =
        IF Disapproved(s, approves) THEN Failure(d, s) ELSE AdvanceAfter(d, s)
  BY DEF Success
<1> HIDE DEF j
<1>4. /\ d \in Runtime /\ d.run = j.run /\ d.disk = j.run /\ d.final = 0
      /\ d.awaits = e.awaits
  BY <1>1, <1>2, CheckpointType DEF Keeps
<1> HIDE DEF d
<1>5. s \notin 1..(s - 1)  BY DEF Steps
<1>6. Forward(flow) => 1..(s - 1) \subseteq e.run.settled  BY <1>1 DEF Loose, RunSafe
<1>7. Forward(flow) => 1..(s - 1) \subseteq j.run.settled
  <2>1. e.run.settled \ {s} \subseteq j.run.settled  BY <1>2
  <2> QED BY <1>5, <1>6, <2>1
<1>8. RunSafe(j.run)  BY <1>2, <1>7 DEF RunSafe
<1>9. Spaced(flow) /\ Gate(s) # "none" => s \in j.run.cleared
  BY <1>1, <1>2 DEF Working, GateOpen, OpenHere
<1>10. GateOpen(j.run)  BY <1>2, <1>9 DEF GateOpen, OpenHere, OpenBehind
<1>11. FinalOK(d)  BY <1>4 DEF FinalOK
<1>12. ASSUME NEW u \in Steps, d.awaits["changed"][u] > 0
       PROVE  /\ u # Last /\ u + 1 \in flow.ifChanged
              /\ Forward(flow) => u \in e.run.settled
  <2>1. u # 0  BY StepRange
  <2> QED BY <1>1, <1>4, <1>12, <2>1 DEF Loose, ChangedOK
<1>13. CASE Disapproved(s, approves)
  <2>1. ChangedOK(d, s)  BY <1>2, <1>4, <1>12, <1>13 DEF ChangedOK
  <2>2. Loose(d, s)  BY <1>4, <1>8, <1>10, <1>11, <2>1 DEF Loose, RunOK
  <2>3. Working(d, s)  BY <1>2, <1>4, <1>10 DEF Working, At
  <2> QED BY <1>3, <1>4, <1>13, <2>2, <2>3, FailureOK
<1>14. CASE ~Disapproved(s, approves)
  <2>1. ChangedOK(d, 0)  BY <1>2, <1>4, <1>12, <1>14 DEF ChangedOK
  <2>2. Loose(d, 0)  BY <1>4, <1>8, <1>10, <1>11, <2>1 DEF Loose, RunOK
  <2>3. s \in d.run.settled  BY <1>2, <1>4, <1>14
  <2>4. Passed(d.run, s)  BY <1>4, <1>9 DEF Passed
  <2>5. Settled(d, s)  BY <1>2, <1>4, <2>2, <2>3, <2>4 DEF Settled, At
  <2> QED BY <1>3, <1>4, <1>14, <2>5, AdvanceAfterOK
<1> QED BY <1>13, <1>14
\* What the invariant reads of a run.
Alike(r, q) ==
    /\ r.kind = q.kind /\ r.at = q.at /\ r.why = q.why
    /\ r.settled = q.settled /\ r.cleared = q.cleared

\* Runs that are alike are equally sound.
LEMMA AlikeOK ==
    ASSUME NEW r, NEW q, Alike(r, q)
    PROVE  /\ RunSafe(q) => RunSafe(r)
           /\ GateOpen(q) => GateOpen(r)
BY DEF Alike, RunSafe, GateOpen, OpenHere, OpenBehind

\* The run stays where it is and is waited for as before, but for the supervisor.
LEMMA Unmoved ==
    ASSUME NEW e, NEW d \in Runtime, EngineOK(e), Alike(d.run, e.run),
           d.disk = e.disk \/ d.disk = d.run, d.final = e.final, d.armed = e.armed,
           \A w \in Waits \ {"ask"}, s \in Steps : d.awaits[w][s] = e.awaits[w][s]
    PROVE  EngineOK(d)
<1>1. Loose(e, 0) /\ GateOpen(e.run) /\ Watched(e)  BY DEF EngineOK
<1>2. RunSafe(d.run) /\ GateOpen(d.run)  BY <1>1, AlikeOK DEF Loose
<1>3. RunOK(d.disk)  BY <1>1, <1>2 DEF Loose, RunOK
<1>4. SameGit(d, e)
  <2>1. "changed" \in Waits \ {"ask"} /\ "diff" \in Waits \ {"ask"}  BY DEF Waits
  <2> QED BY <2>1 DEF SameGit
<1>5. ChangedOK(d, 0)  BY <1>1, <1>4 DEF Loose, ChangedOK, Alike, SameGit
<1>6. FinalOK(d)  BY <1>1, <1>4 DEF Loose, FinalOK, Alike, SameGit
<1>7. d.run.at \in Steps  BY DEF Runtime, Run
<1>8. Watched(d)  BY <1>1, <1>7 DEF Watched, Alike
<1> QED BY <1>2, <1>3, <1>5, <1>6, <1>8 DEF EngineOK, Loose

\* A change of conversations, buffers or budgets.
LEMMA KeepsUnmoved ==
    ASSUME NEW e, NEW d \in Runtime, EngineOK(e), Keeps(d, e), d.run = e.run
    PROVE  EngineOK(d)
BY Unmoved DEF Keeps, Alike

\* A worker's question is passed on, or was one too many.
LEMMA QuestionOK ==
    ASSUME flow \in Flows, NEW e \in Runtime, NEW s \in Steps, EngineOK(e), Working(e, s)
    PROVE  EngineOK(Question(e, s))
<1> DEFINE n == [e.run.rounds EXCEPT ![s] = @ + 1]
           r == [e.run EXCEPT !.rounds = n]
           m == [e EXCEPT !.run.rounds[s] = @ + 1]
           d == Checkpoint(m)
<1>1. e.run \in Run /\ e.run.kind = "running" /\ e.run.at = s  BY DEF Runtime, Working, At
<1>2. n \in [Steps -> Nat]  BY <1>1 DEF Run
<1>3. m = [e EXCEPT !.run = r]  BY <1>1 DEF Runtime, Run
<1>4. Question(e, s) = IF d.run.rounds[s] > MaxRounds THEN Checkpoint(Stops(d, s, "needsInput"))
                       ELSE Wait(d, "ask", s)
  BY DEF Question
<1> HIDE DEF n, m
<1>5. r \in Run  BY <1>1, <1>2 DEF Run
<1>6. Alike(r, e.run)  BY <1>1 DEF Run, Alike
<1> HIDE DEF r
<1>7. m \in Runtime /\ Keeps(m, e) /\ m.run = r  BY <1>3, <1>5, SetRun
<1>8. /\ d \in Runtime /\ d.run = r /\ d.disk = r /\ d.final = 0 /\ d.armed = e.armed
      /\ d.awaits = e.awaits
  BY <1>7, CheckpointType DEF Keeps, Working
<1> HIDE DEF d
<1>9. EngineOK(d)  BY <1>6, <1>8, Unmoved DEF Working
<1>10. CASE d.run.rounds[s] > MaxRounds
  <2> DEFINE f == Stops(d, s, "needsInput")
  <2>1. "needsInput" \in Why  BY DEF Why
  <2>2. f \in Runtime /\ Keeps(f, d)  BY <1>8, <2>1, StopsType
  <2>3. /\ f.run.kind = "paused" /\ f.run.at = s /\ f.run.why = "needsInput"
        /\ f.run.settled = r.settled /\ f.run.cleared = r.cleared
    BY <1>8, <2>1, StopsType
  <2> HIDE DEF f
  <2>4. f.final = 0 /\ SameGit(f, d)  BY <1>8, <2>2, KeepsGit DEF Keeps
  <2>5. RunSafe(r) /\ r.at = s  BY <1>1, <1>6, <1>8, <1>9 DEF EngineOK, Loose, Alike
  <2>6. RunSafe(f.run)  BY <2>3, <2>5 DEF RunSafe, Gates
  <2>7. RunOK(f.run)  BY <2>3, <2>6 DEF RunOK, GateOpen, OpenHere, OpenBehind, Gates
  <2> QED BY <1>4, <1>9, <1>10, <2>2, <2>3, <2>4, <2>7, Rested DEF EngineOK, f
<1>11. CASE ~(d.run.rounds[s] > MaxRounds)
  <2> DEFINE f == Wait(d, "ask", s)
  <2>1. "ask" \in Waits  BY WaitNames
  <2>2. /\ f \in Runtime /\ f.run = d.run /\ f.disk = d.disk /\ f.final = d.final
        /\ f.armed = d.armed
        /\ \A v \in Waits, u \in Steps : f.awaits[v][u] =
             IF v = "ask" /\ u = s THEN d.awaits[v][u] + 1 ELSE d.awaits[v][u]
    <3> HIDE DEF f
    <3>1. d \in Runtime  BY <1>8
    <3> QED BY <3>1, <2>1, WaitType DEF f
  <2> HIDE DEF f
  <2>3. EngineOK(f)  BY <1>9, <2>2, Unmoved DEF Alike
  <2> QED BY <1>4, <1>11, <2>3 DEF f
<1> QED BY <1>10, <1>11

\* A step that said nothing is asked again, or has failed.
LEMMA MissingOK ==
    ASSUME flow \in Flows, NEW e \in Runtime, NEW s \in Steps, EngineOK(e), Working(e, s)
    PROVE  EngineOK(Missing(e, s))
<1>1. CASE e.reasks[s] < MaxReasks
  <2> DEFINE n == [e.reasks EXCEPT ![s] = @ + 1]
             b == [e EXCEPT !.buf = {}]
             m == [e EXCEPT !.buf = {}, !.reasks[s] = @ + 1]
             d == Send(m, Part(s), s)
  <2>1. n \in [Steps -> Nat]  BY DEF Runtime
  <2>2. m = [b EXCEPT !.reasks = n]  BY DEF Runtime
  <2>3. b \in Runtime /\ Keeps(b, e) /\ b.run = e.run  BY SetBuf
  <2>4. Missing(e, s) = d  BY <1>1 DEF Missing, Reask
  <2> HIDE DEF n, b, m
  <2>5. m \in Runtime /\ Keeps(m, b) /\ m.run = b.run  BY <2>1, <2>2, <2>3, SetReasks
  <2>6. Part(s) \in Parties /\ s \in 0..Last  BY FlowFields, StepRange DEF Steps
  <2>7. d \in Runtime /\ Keeps(d, m) /\ d.run = m.run  BY <2>5, <2>6, SendType
  <2> HIDE DEF d
  <2>8. Keeps(d, e) /\ d.run = e.run  BY <2>3, <2>5, <2>7 DEF Keeps
  <2> QED BY <2>4, <2>7, <2>8, KeepsUnmoved
<1>2. CASE ~(e.reasks[s] < MaxReasks)
  <2>1. Loose(e, s)  BY StepRange DEF EngineOK, Loose, ChangedOK
  <2> QED BY <1>2, <2>1, FailureOK DEF Missing
<1> QED BY <1>1, <1>2

\* However a turn ended, its step is judged, asked about, asked again or failed.
LEMMA StepFinishedOK ==
    ASSUME flow \in Flows, NEW e \in Runtime, NEW s \in Steps, NEW approves,
           EngineOK(e), Working(e, s)
    PROVE  EngineOK(StepFinished(e, s, approves))
<1> DEFINE a == IF e.run.approved = s THEN 0 ELSE e.run.approved
           r == [e.run EXCEPT !.approved = a]
           f == [e EXCEPT !.run.approved = IF @ = s THEN 0 ELSE @]
<1>1. e.run \in Run /\ e.run.approved \in 0..Last  BY DEF Runtime, Run
<1>2. a \in 0..Last  BY <1>1, StepRange
<1>3. f = [e EXCEPT !.run = r]  BY <1>1 DEF Runtime, Run
<1>4. StepFinished(e, s, approves) =
        IF "output" \in e.buf
        THEN IF s \in flow.diffs THEN Wait(f, "diff", s) ELSE Success(f, s, approves)
        ELSE IF "question" \in e.buf /\ flow.worker THEN Question(f, s)
        ELSE Missing(f, s)
  BY DEF StepFinished
<1> HIDE DEF a, f
<1>5. r \in Run  BY <1>1, <1>2 DEF Run
<1>6. Alike(r, e.run)  BY <1>1 DEF Run, Alike
<1> HIDE DEF r
<1>7. f \in Runtime /\ Keeps(f, e) /\ f.run = r  BY <1>3, <1>5, SetRun
<1>8. EngineOK(f)  BY <1>6, <1>7, Unmoved DEF Keeps
<1>9. Working(f, s)
  BY <1>6, <1>7, AlikeOK DEF Working, At, Alike, Keeps
<1>10. CASE "output" \in e.buf /\ s \in flow.diffs
  <2> DEFINE d == Wait(f, "diff", s)
  <2>1. "diff" \in Waits /\ "changed" \in Waits /\ "diff" # "changed"  BY WaitNames
  <2>2. /\ d \in Runtime /\ d.run = f.run /\ d.disk = f.disk /\ d.final = f.final
        /\ d.armed = f.armed
        /\ \A v \in Waits, u \in Steps : d.awaits[v][u] =
             IF v = "diff" /\ u = s THEN f.awaits[v][u] + 1 ELSE f.awaits[v][u]
    BY <1>7, <2>1, WaitType
  <2> HIDE DEF d
  <2>3. ChangedOK(d, 0)  BY <1>8, <2>1, <2>2 DEF EngineOK, Loose, ChangedOK
  <2>4. FinalOK(d)  BY <1>9, <2>2 DEF FinalOK, Working
  <2>5. Loose(d, 0)  BY <1>8, <2>2, <2>3, <2>4 DEF EngineOK, Loose
  <2>6. f.awaits["diff"][s] \in Nat  BY <1>7, <2>1 DEF Runtime
  <2>7. d.awaits["diff"][s] > 0  BY <2>1, <2>2, <2>6
  <2>8. Watched(d)  BY <1>9, <2>1, <2>2, <2>7 DEF Watched, Working, At
  <2>9. GateOpen(d.run)  BY <1>9, <2>2 DEF Working
  <2> QED BY <1>4, <1>10, <2>5, <2>8, <2>9 DEF EngineOK, d
<1>11. CASE "output" \in e.buf /\ s \notin flow.diffs
  BY <1>4, <1>7, <1>8, <1>9, <1>11, SuccessOK DEF EngineOK
<1>12. CASE "output" \notin e.buf /\ "question" \in e.buf /\ flow.worker
  BY <1>4, <1>7, <1>8, <1>9, <1>12, QuestionOK
<1>13. CASE "output" \notin e.buf /\ ~("question" \in e.buf /\ flow.worker)
  BY <1>4, <1>7, <1>8, <1>9, <1>13, MissingOK
<1> QED BY <1>10, <1>11, <1>12, <1>13
-----------------------------------------------------------------------------
(* The run is sent to a step; a conversation goes idle.                    *)

NoChanged(e) == \A s \in Steps : e.awaits["changed"][s] = 0

\* advanceToStep: the steps behind are settled, the gate is cleared, git is not
\* at work, and a finalize turn that is still awaited leads on from this step.
LEMMA AdvanceToOK ==
    ASSUME flow \in Flows, NEW e \in Runtime, NEW s \in Steps, e.run.kind # "deleted",
           RunOK(e.disk), NoChanged(e),
           e.final = 0 \/ (FinalOK(e) /\ e.run.at = s),
           Forward(flow) => 1..(s - 1) \subseteq e.run.settled,
           Spaced(flow) /\ Gate(s) # "none" => s \in e.run.cleared
    PROVE  EngineOK(AdvanceTo(e, s))
<1>1. AdvanceTo(e, s) = Execute(Goes(e, s), s)  BY DEF AdvanceTo
<1>2. \A u \in Steps : e.awaits["changed"][u] > 0 =>
        /\ u # Last /\ u + 1 \in flow.ifChanged
        /\ Forward(flow) => u \in e.run.settled
  BY DEF NoChanged
<1> QED BY <1>1, <1>2, StartOK

\* The finalize turn is over: the run enters the step it was asked for.
LEMMA FinalizedOK ==
    ASSUME flow \in Flows, NEW e \in Runtime, EngineOK(e)
    PROVE  EngineOK(Finalized(e))
<1>1. CASE e.final = 0
  BY <1>1 DEF Finalized
<1>2. CASE e.final # 0
  <2> DEFINE f == e.final
             d == [e EXCEPT !.final = 0]
  <2>1. Finalized(e) = AdvanceTo(d, f)  BY <1>2 DEF Finalized
  <2>2. f \in Steps  BY <1>2, StepRange DEF Runtime, Steps
  <2>3. /\ d \in Runtime /\ d.run = e.run /\ d.disk = e.disk /\ d.final = 0
        /\ d.armed = e.armed /\ d.awaits = e.awaits
    BY StepRange, SetFinal
  <2> HIDE DEF d
  <2>4. FinalOK(e) /\ Loose(e, 0)  BY DEF EngineOK, Loose
  <2>5. NoChanged(d)  BY <1>2, <2>3, <2>4 DEF FinalOK, NoChanged
  <2>6. CASE d.run.kind = "deleted"
    <3>1. FinalOK(d)  BY <2>3 DEF FinalOK
    <3>2. ChangedOK(d, 0)  BY <2>5 DEF ChangedOK, NoChanged
    <3>3. Loose(d, 0)  BY <2>3, <2>4, <3>1, <3>2 DEF Loose
    <3>4. EngineOK(d)  BY <2>3, <2>6, <3>3 DEF EngineOK, Watched
    <3> QED BY <2>1, <2>6, <3>4 DEF AdvanceTo
  <2>7. CASE d.run.kind # "deleted"
    <3>1. Forward(flow) => 1..(f - 1) \subseteq d.run.settled
      BY <1>2, <2>3, <2>4 DEF FinalOK
    <3>2. Spaced(flow) /\ Gate(f) # "none" => f \in d.run.cleared
      BY <1>2, <2>3, <2>4 DEF FinalOK
    <3>3. RunOK(d.disk)  BY <2>3, <2>4 DEF Loose
    <3> QED BY <2>1, <2>2, <2>3, <2>5, <2>7, <3>1, <3>2, <3>3, AdvanceToOK
  <2> QED BY <2>6, <2>7
<1> QED BY <1>1, <1>2

\* An idle conversation ends the step the run is at work at, unless a finalize
\* turn was asked for: that one's conversation is the same.
LEMMA ObserveIdleOK ==
    ASSUME flow \in Flows, NEW e \in Runtime, NEW p \in Parties, NEW approves, EngineOK(e)
    PROVE  EngineOK(ObserveIdle(e, p, approves))
<1> DEFINE ignored == \/ AwaitsTurn(e, p) \/ e.run.kind # "running"
                      \/ Part(e.run.at) # p \/ TurnPending(e, p)
                      \/ e.awaits["diff"][e.run.at] > 0
<1>1. CASE ignored
  BY <1>1 DEF ObserveIdle
<1>2. CASE ~ignored
  <2>1. e.run.at \in Steps  BY DEF Runtime, Run
  <2>2. e.final = 0
    <3>1. e.final # 0 => e.run.at = e.final - 1  BY DEF EngineOK, Loose, FinalOK
    <3> QED BY <1>2, <3>1 DEF AwaitsTurn
  <2>3. Working(e, e.run.at)  BY <1>2, <2>2 DEF Working, At, EngineOK
  <2>4. ObserveIdle(e, p, approves) = StepFinished(e, e.run.at, approves)
    BY <1>2 DEF ObserveIdle
  <2> QED BY <2>1, <2>3, <2>4, StepFinishedOK
<1> QED BY <1>1, <1>2

\* Whichever of the two the conversation was in.
LEMMA GoesIdleOK ==
    ASSUME flow \in Flows, NEW e \in Runtime, NEW p \in Parties, NEW approves, EngineOK(e)
    PROVE  EngineOK(GoesIdle(e, p, approves))
BY FinalizedOK, ObserveIdleOK DEF GoesIdle
-----------------------------------------------------------------------------
(* The start of the process, and of a run.                                 *)

\* A start of the process has nothing to wait for.
LEMMA LoadedType ==
    ASSUME NEW r \in Run
    PROVE  LET d == Loaded(r)
           IN  /\ d \in Runtime /\ d.run = r /\ d.disk = r /\ d.final = 0
               /\ \A w \in Waits, s \in Steps : d.awaits[w][s] = 0
<1> DEFINE n == [s \in Steps |-> 0]
           a == [w \in Waits |-> [s \in Steps |-> 0]]
           c == [p \in Parties |-> Idle]
           d == Loaded(r)
<1>1. n \in [Steps -> Nat]  OBVIOUS
<1>2. a \in [Waits -> [Steps -> Nat]]  OBVIOUS
<1>3. Idle \in Conv  BY DEF Idle, Conv, Turns
<1>4. c \in [Parties -> Conv]  BY <1>3
<1>5. \A w \in Waits, s \in Steps : a[w][s] = 0  OBVIOUS
<1>6. d = [run |-> r, disk |-> r, buf |-> {}, chat |-> {}, final |-> 0,
           retries |-> n, reasks |-> n, armed |-> FALSE, awaits |-> a, conv |-> c]
  BY DEF Loaded
<1> HIDE DEF n, a, c, d
<1>7. d \in Runtime  BY <1>1, <1>2, <1>4, <1>6, StepRange DEF Runtime
<1>8. d.run = r /\ d.disk = r /\ d.final = 0 /\ d.awaits = a  BY <1>6
<1> QED BY <1>5, <1>7, <1>8 DEF d

\* Nothing in memory, and a run that is not at work.
LEMMA LoadedOK ==
    ASSUME NEW r \in Run, RunOK(r), r.kind # "running"
    PROVE  EngineOK(Loaded(r))
<1> DEFINE d == Loaded(r)
<1>1. /\ d \in Runtime /\ d.run = r /\ d.disk = r /\ d.final = 0
      /\ \A w \in Waits, s \in Steps : d.awaits[w][s] = 0
  BY LoadedType
<1> HIDE DEF d
<1>2. ChangedOK(d, 0) /\ FinalOK(d)  BY <1>1, WaitNames DEF ChangedOK, FinalOK
<1>3. Watched(d)  BY <1>1 DEF Watched
<1> QED BY <1>1, <1>2, <1>3 DEF EngineOK, Loose, RunOK, d

\* A checkpoint of a run at work becomes one of a run cut short.
LEMMA RestoredOK ==
    ASSUME flow \in Flows, NEW r \in Run, RunOK(r)
    PROVE  /\ Restored(r) \in Run /\ RunOK(Restored(r))
           /\ Restored(r).kind # "running"
<1> DEFINE p == IF r.kind = "running" THEN [r EXCEPT !.kind = "paused", !.why = "interrupted"]
                ELSE r
           back == /\ flow.worker /\ p.kind = "paused" /\ p.why = "interrupted"
                   /\ Gate(p.at) = "externalAction" /\ ~Survives(p)
           q == [p EXCEPT !.why = "externalAction", !.cleared = @ \ {p.at}]
<1>1. Restored(r) = IF back THEN q ELSE p  BY DEF Restored
<1>2. p \in Run /\ p.kind # "running"  BY DEF Run, Kinds, Why
<1>3. p.at = r.at /\ p.settled = r.settled /\ p.cleared = r.cleared  BY DEF Run
<1>4. p.kind = "paused" => p = r \/ (r.kind = "running" /\ p.why = "interrupted")  BY DEF Run
<1>5. p.kind # "paused" => p = r  BY DEF Run
<1>6. RunSafe(p)  BY <1>3, <1>4, <1>5 DEF RunOK, RunSafe, Gates
<1>7. Spaced(flow) => OpenHere(p)
  BY <1>3, <1>4, <1>5 DEF RunOK, GateOpen, OpenHere
<1>8. Spaced(flow) => OpenBehind(p)
  BY <1>3, <1>4, <1>5 DEF RunOK, GateOpen, OpenBehind, Gates
<1>9. RunOK(p)  BY <1>6, <1>7, <1>8 DEF RunOK, GateOpen
<1>10. CASE ~back
  BY <1>1, <1>2, <1>9, <1>10
<1>11. CASE back
  <2> HIDE DEF p
  <2>1. back  BY <1>11
  <2>2. q \in Run  BY <1>2 DEF Run, Why, Gates
  <2>3. /\ q.kind = "paused" /\ q.at = p.at /\ q.why = "externalAction"
        /\ q.settled = p.settled /\ q.cleared = p.cleared \ {p.at}
    BY <1>2, <2>1 DEF Run
  <2>4. Gate(q.at) = "externalAction" /\ flow.worker  BY <2>1, <2>3
  <2> HIDE DEF q, back
  <2>5. RunSafe(q)  BY <1>6, <2>3, <2>4 DEF RunSafe
  <2>6. OpenHere(q)  BY <2>3 DEF OpenHere
  <2>7. Spaced(flow) => OpenBehind(q)
    <3>1. q.at \in Steps /\ (q.at # 1 => q.at - 1 \in Steps /\ q.at - 1 # Last)
      <4>1. q.at \in Steps  BY <2>2 DEF Run
      <4> QED BY <4>1, StepRange DEF Steps
    <3>2. q.at - 1 + 1 = q.at  BY <3>1 DEF Steps
    <3>3. ASSUME Spaced(flow), q.at # 1, Gate(q.at - 1) # "none" PROVE FALSE
      <4>1. ~(flow.worker /\ flow.gate[q.at - 1 + 1] = "externalAction")
        BY <2>4, <3>1, <3>2, <3>3 DEF Spaced, Gate
      <4> QED BY <2>4, <3>2, <4>1 DEF Gate
    <3> QED BY <3>3 DEF OpenBehind
  <2>8. RunOK(q)  BY <2>5, <2>6, <2>7 DEF RunOK, GateOpen
  <2> QED BY <1>1, <2>1, <2>2, <2>3, <2>8
<1> QED BY <1>10, <1>11

\* A run starts at its first step, or at the gate before it.
LEMMA InitOK == Init => IInv
<1> SUFFICES ASSUME Init PROVE IInv  OBVIOUS
<1>1. flow \in Flows /\ moves = 0  BY DEF Init
<1>2. moves \in 0..MaxMoves[flow]  BY <1>1, BudgetAssumption
<1> DEFINE e == Loaded(Fresh)
           external == Gate(1) \in {"externalAction", "riskyStep"}
           r == [Fresh EXCEPT !.cleared = {1}]
           m == [e EXCEPT !.run.cleared = {1}]
<1>3. rt = IF external THEN Checkpoint(Stops(e, 1, Gate(1))) ELSE Execute(Checkpoint(m), 1)
  BY DEF Init
<1>4. [s \in Steps |-> 0] \in [Steps -> Nat]  OBVIOUS
<1>5. Fresh \in Run  BY <1>4, StepRange DEF Fresh, Run, Kinds, Why
<1>6. /\ Fresh.kind = "running" /\ Fresh.at = 1 /\ Fresh.why = "none"
      /\ Fresh.settled = {} /\ Fresh.cleared = {}
  BY DEF Fresh
<1>7. r \in Run  BY <1>5, StepRange DEF Run
<1>8. r.kind = "running" /\ r.at = 1 /\ r.settled = {} /\ r.cleared = {1}  BY <1>5, <1>6 DEF Run
<1>9. /\ e \in Runtime /\ e.run = Fresh /\ e.disk = Fresh /\ e.final = 0
      /\ \A w \in Waits, s \in Steps : e.awaits[w][s] = 0
  BY <1>5, LoadedType
<1>10. m = [e EXCEPT !.run = r]  BY <1>9 DEF Runtime, Run
<1> HIDE DEF e, r, m
<1>11. 1..(1 - 1) = {}  OBVIOUS
<1>12. m \in Runtime /\ Keeps(m, e) /\ m.run = r  BY <1>7, <1>9, <1>10, SetRun
<1>13. \A s \in Steps : m.awaits["changed"][s] = 0
  BY <1>9, <1>12, WaitNames DEF Keeps
<1>14. RunSafe(r)  BY <1>8, <1>11 DEF RunSafe
<1>15. GateOpen(r)  BY <1>8 DEF GateOpen, OpenHere, OpenBehind
<1>16. CASE ~external
  <2> DEFINE d == Checkpoint(m)
  <2>1. /\ d \in Runtime /\ d.run = r /\ d.disk = r /\ d.final = 0 /\ d.awaits = m.awaits
    BY <1>9, <1>12, CheckpointType DEF Keeps
  <2> HIDE DEF d
  <2>2. ChangedOK(d, 0) /\ FinalOK(d)  BY <1>13, <2>1 DEF ChangedOK, FinalOK
  <2>3. Loose(d, 0)  BY <1>14, <1>15, <2>1, <2>2 DEF Loose, RunOK
  <2>4. EngineOK(Execute(d, 1))  BY <1>1, <1>8, <1>15, <2>1, <2>3, StepRange, ExecuteOK DEF At
  <2> QED BY <1>1, <1>2, <1>3, <1>16, <2>4 DEF IInv, d
<1>17. CASE external
  <2> DEFINE f == Stops(e, 1, Gate(1))
             d == Checkpoint(f)
  <2>1. Gate(1) \in Why /\ Gate(1) \in Gates  BY <1>17 DEF Why, Gates
  <2>2. f \in Runtime /\ Keeps(f, e)  BY <1>9, <2>1, StepRange, StopsType
  <2>3. /\ f.run.kind = "paused" /\ f.run.at = 1 /\ f.run.why = Gate(1)
        /\ f.run.settled = {} /\ f.run.cleared = {}
    BY <1>6, <1>9, <2>1, StepRange, StopsType
  <2> HIDE DEF f
  <2>4. /\ d \in Runtime /\ d.run = f.run /\ d.disk = f.run /\ d.final = 0
        /\ d.awaits = e.awaits
    BY <1>9, <2>2, CheckpointType DEF Keeps
  <2> HIDE DEF d
  <2>5. RunSafe(f.run)  BY <1>11, <1>17, <2>3 DEF RunSafe
  <2>6. OpenHere(f.run)  BY <2>1, <2>3 DEF OpenHere, Gates
  <2>7. RunOK(f.run)  BY <2>3, <2>5, <2>6 DEF RunOK, GateOpen, OpenBehind
  <2>8. ChangedOK(d, 0) /\ FinalOK(d)
    BY <1>9, <2>4, WaitNames DEF ChangedOK, FinalOK
  <2>9. Watched(d)  BY <2>3, <2>4 DEF Watched
  <2>10. EngineOK(d)  BY <2>4, <2>7, <2>8, <2>9 DEF EngineOK, Loose, RunOK
  <2> QED BY <1>1, <1>2, <1>3, <1>17, <2>10 DEF IInv, d, f
<1> QED BY <1>16, <1>17
-----------------------------------------------------------------------------
(* One step of the run: what a person does.                                *)

\* The invariant of the next state, the flow being the same.
LEMMA PrimedOK ==
    ASSUME flow' = flow, EngineOK(rt')
    PROVE  EngineOK(rt)'
<1>1. rt' \in Runtime /\ RunSafe(rt'.run) /\ GateOpen(rt'.run) /\ RunSafe(rt'.disk)
      /\ GateOpen(rt'.disk) /\ ChangedOK(rt', 0) /\ FinalOK(rt') /\ Watched(rt')
  BY DEF EngineOK, Loose, RunOK
<1>2. (rt \in Runtime)' /\ Watched(rt)'  BY <1>1 DEF Watched
<1>3. RunSafe(rt.run)' /\ RunSafe(rt.disk)'  BY <1>1 DEF RunSafe, Forward, Gate
<1>4. GateOpen(rt.run)' /\ GateOpen(rt.disk)'
  BY <1>1 DEF GateOpen, OpenHere, OpenBehind, Spaced, Gate
<1>5. ChangedOK(rt, 0)'  BY <1>1 DEF ChangedOK, Forward
<1>6. FinalOK(rt)'  BY <1>1 DEF FinalOK, Forward, Spaced, Gate
<1> QED BY <1>2, <1>3, <1>4, <1>5, <1>6 DEF EngineOK, Loose, RunOK

\* Git has answered: nobody waits for it.
LEMMA QuickGitQuiet ==
    ASSUME rt \in Runtime, QuickGit
    PROVE  NoChanged(rt) /\ \A s \in Steps : rt.awaits["diff"][s] = 0
<1>1. \A w \in Waits, s \in Steps : rt.awaits[w][s] \in Nat  BY DEF Runtime
<1>2. \A w \in Waits \ {"ask"}, s \in Steps : ~(rt.awaits[w][s] > 0)
  BY DEF QuickGit, Waiting
<1>3. "changed" \in Waits \ {"ask"} /\ "diff" \in Waits \ {"ask"}  BY DEF Waits
<1> QED BY <1>1, <1>2, <1>3 DEF NoChanged

\* Somebody says go to s.
LEMMA ClearType ==
    ASSUME NEW e \in Runtime, NEW s \in Steps
    PROVE  LET d == Clear(e, s)
           IN  /\ d \in Runtime /\ Keeps(d, e)
               /\ d.run.kind = e.run.kind /\ d.run.at = e.run.at /\ d.run.why = e.run.why
               /\ d.run.settled = e.run.settled /\ d.run.cleared = e.run.cleared \cup {s}
BY DEF Clear, Runtime, Run, Keeps

\* Approving the step saves the run as it is.
LEMMA ApproveType ==
    ASSUME NEW e \in Runtime, NEW s \in Steps
    PROVE  LET d == Approve(e, s)
           IN  /\ d \in Runtime /\ Alike(d.run, e.run) /\ (d.disk = e.disk \/ d.disk = d.run)
               /\ d.final = e.final /\ d.armed = e.armed /\ d.awaits = e.awaits
<1> DEFINE r == [e.run EXCEPT !.approved = s]
           m == [e EXCEPT !.run.approved = s]
<1>1. e.run \in Run /\ s \in 0..Last  BY StepRange DEF Runtime, Steps
<1>2. m = [e EXCEPT !.run = r]  BY DEF Runtime, Run
<1>3. r \in Run /\ Alike(r, e.run)  BY <1>1 DEF Run, Alike
<1> HIDE DEF r, m
<1>4. m \in Runtime /\ Keeps(m, e) /\ m.run = r  BY <1>2, <1>3, SetRun
<1>5. /\ Checkpoint(m) \in Runtime /\ Checkpoint(m).run = r /\ Checkpoint(m).disk = r
      /\ Checkpoint(m).final = e.final /\ Checkpoint(m).armed = e.armed
      /\ Checkpoint(m).awaits = e.awaits
  BY <1>4, CheckpointType DEF Keeps
<1>6. Approve(e, s) = Checkpoint(m) \/ Approve(e, s) = e  BY DEF Approve, m
<1> QED BY <1>3, <1>5, <1>6 DEF Alike
\* The run a person may resume: paused, with nothing asked of git, and no
\* finalize turn unless it was interrupted by a question.
Resumable(e) ==
    /\ EngineOK(e) /\ e.run.kind = "paused" /\ NoChanged(e)
    /\ \A s \in Steps : e.awaits["diff"][s] = 0

\* Continue clears the gate of the step, or finds it cleared before the crash.
LEMMA ContinuedOK ==
    ASSUME flow \in Flows, NEW e \in Runtime, NEW s \in Steps, Resumable(e), s = e.run.at
    PROVE  LET c == Continued(e, s)
           IN  /\ c \in Runtime /\ Resumable(c)
               /\ c.run.at = s /\ c.run.why = e.run.why /\ c.final = e.final
               /\ Spaced(flow) /\ Gate(s) # "none" => s \in c.run.cleared
<1> DEFINE k == Clear(e, s)
           c == Continued(e, s)
<1>1. /\ k \in Runtime /\ Keeps(k, e)
      /\ k.run.kind = e.run.kind /\ k.run.at = e.run.at /\ k.run.why = e.run.why
      /\ k.run.settled = e.run.settled /\ k.run.cleared = e.run.cleared \cup {s}
  BY ClearType
<1>2. /\ e.run.kind = "paused" /\ EngineOK(e) /\ NoChanged(e)
      /\ \A u \in Steps : e.awaits["diff"][u] = 0
  BY DEF Resumable
<1>3. Loose(e, 0) /\ GateOpen(e.run) /\ RunSafe(e.run) /\ RunOK(e.disk) /\ FinalOK(e)
  BY <1>2 DEF EngineOK, Loose
<1>4. CASE e.run.why = "interrupted" /\ flow.worker /\ Gate(s) = "externalAction"
  <2>1. c = e  BY <1>4 DEF Continued
  <2>2. Spaced(flow) => s \in e.run.cleared
    BY <1>2, <1>3, <1>4 DEF GateOpen, OpenHere
  <2> QED BY <2>1, <2>2
<1>5. CASE ~(e.run.why = "interrupted" /\ flow.worker /\ Gate(s) = "externalAction")
  <2>1. c = Approve(k, s)  BY <1>5 DEF Continued
  <2> HIDE DEF k
  <2>2. /\ c \in Runtime /\ Alike(c.run, k.run) /\ (c.disk = k.disk \/ c.disk = c.run)
        /\ c.final = k.final /\ c.armed = k.armed /\ c.awaits = k.awaits
    BY <1>1, <2>1, ApproveType
  <2> HIDE DEF c
  <2>3. /\ c.run.kind = "paused" /\ c.run.at = s /\ c.run.why = e.run.why
        /\ c.run.settled = e.run.settled /\ c.run.cleared = e.run.cleared \cup {s}
        /\ c.final = e.final /\ c.awaits = e.awaits
        /\ (c.disk = e.disk \/ c.disk = c.run)
    BY <1>1, <1>2, <2>2 DEF Alike, Keeps
  <2>4. RunSafe(c.run)  BY <1>2, <1>3, <2>3 DEF RunSafe
  <2>5. GateOpen(c.run)  BY <1>2, <1>3, <2>3 DEF GateOpen, OpenHere, OpenBehind
  <2>6. RunOK(c.disk)  BY <1>3, <2>3, <2>4, <2>5 DEF RunOK
  <2>7. NoChanged(c) /\ ChangedOK(c, 0)
    BY <1>2, <2>3 DEF NoChanged, ChangedOK
  <2>8. FinalOK(c)  BY <1>2, <1>3, <2>3 DEF FinalOK
  <2>9. Watched(c)  BY <2>3 DEF Watched
  <2>10. EngineOK(c)  BY <2>2, <2>4, <2>5, <2>6, <2>7, <2>8, <2>9 DEF EngineOK, Loose
  <2> QED BY <1>2, <2>2, <2>3, <2>7, <2>10 DEF Resumable, c
<1> QED BY <1>4, <1>5

\* A paused run is sent on to the step it is paused at, whatever was chatted.
LEMMA ResumeAtOK ==
    ASSUME flow \in Flows, NEW e \in Runtime, NEW s \in Steps, NEW chat \in SUBSET Parties,
           Resumable(e), s = e.run.at, Spaced(flow) /\ Gate(s) # "none" => s \in e.run.cleared
    PROVE  /\ EngineOK(AdvanceTo([e EXCEPT !.chat = chat], s))
           /\ EngineOK(AdvanceTo(e, s))
<1>1. /\ e.run.kind = "paused" /\ NoChanged(e) /\ RunOK(e.disk) /\ FinalOK(e)
      /\ RunSafe(e.run)
  BY DEF Resumable, EngineOK, Loose
<1>2. Forward(flow) => 1..(s - 1) \subseteq e.run.settled  BY <1>1 DEF RunSafe
<1> DEFINE d == [e EXCEPT !.chat = chat]
<1>3. d \in Runtime /\ Keeps(d, e) /\ d.run = e.run  BY SetChat
<1> HIDE DEF d
<1>4. NoChanged(d) /\ RunOK(d.disk) /\ FinalOK(d)
  BY <1>1, <1>3 DEF NoChanged, FinalOK, Keeps
<1>5. EngineOK(AdvanceTo(d, s))  BY <1>1, <1>2, <1>3, <1>4, AdvanceToOK
<1>6. EngineOK(AdvanceTo(e, s))  BY <1>1, <1>2, AdvanceToOK
<1> QED BY <1>5, <1>6 DEF d

\* A hold is over: git is asked, the gate is put up, or the step starts.
LEMMA HeldGoesOnOK ==
    ASSUME flow \in Flows, NEW e \in Runtime, NEW s \in Steps, NEW edited,
           Resumable(e), s = e.run.at, e.run.why = "held"
    PROVE  EngineOK(HeldGoesOn(e, s, edited))
<1>1. /\ e.run.kind = "paused" /\ NoChanged(e) /\ RunOK(e.disk) /\ FinalOK(e)
      /\ RunSafe(e.run) /\ GateOpen(e.run) /\ Loose(e, 0)
  BY DEF Resumable, EngineOK, Loose
<1>2. e.final = 0  BY <1>1 DEF FinalOK
<1>3. Forward(flow) => 1..(s - 1) \subseteq e.run.settled  BY <1>1 DEF RunSafe
<1>4. s \in 1..Last /\ Last \in Nat  BY StepRange DEF Steps
<1>5. CASE s \in flow.ifChanged /\ s > 1
  <2> DEFINE p == s - 1
             f == Goes(e, p)
             d == Wait(f, "changed", p)
  <2>1. p \in Steps /\ p # Last /\ p + 1 = s /\ s # 1 /\ p \in 1..(s - 1)
    BY <1>4, <1>5 DEF Steps
  <2>2. HeldGoesOn(e, s, edited) = d  BY <1>5 DEF HeldGoesOn
  <2>3. f \in Runtime /\ Keeps(f, e)  BY <2>1, GoesType
  <2>4. /\ f.run.kind = "running" /\ f.run.at = p
        /\ f.run.settled = e.run.settled /\ f.run.cleared = e.run.cleared
    BY <2>1, GoesType
  <2>5. Spaced(flow) /\ Gate(p) # "none" => p \in e.run.cleared
    BY <1>1, <1>5, <2>1 DEF GateOpen, OpenBehind
  <2>6. Forward(flow) => 1..(p - 1) \subseteq e.run.settled /\ p \in e.run.settled
    <3>1. 1..(p - 1) \subseteq 1..(s - 1)  BY <1>4
    <3> QED BY <1>3, <2>1, <3>1
  <2> HIDE DEF p, f
  <2>7. "changed" \in Waits  BY WaitNames
  <2>8. /\ d \in Runtime /\ d.run = f.run /\ d.disk = f.disk /\ d.final = f.final
        /\ \A v \in Waits, u \in Steps : d.awaits[v][u] =
             IF v = "changed" /\ u = p THEN f.awaits[v][u] + 1 ELSE f.awaits[v][u]
    <3> HIDE DEF d
    <3>1. f \in Runtime /\ p \in Steps  BY <2>1, <2>3
    <3> QED BY <3>1, <2>7, WaitType DEF d
  <2> HIDE DEF d
  <2>9. \A u \in Steps : f.awaits["changed"][u] = 0
    BY <1>1, <2>3 DEF Keeps, NoChanged
  <2>10. ChangedOK(d, 0)
    BY <1>5, <2>1, <2>4, <2>6, <2>7, <2>8, <2>9 DEF ChangedOK
  <2>11. FinalOK(d)  BY <1>2, <2>3, <2>8 DEF Keeps, FinalOK
  <2>12. RunSafe(d.run)  BY <2>4, <2>6, <2>8 DEF RunSafe
  <2>13. GateOpen(d.run)  BY <2>4, <2>5, <2>8 DEF GateOpen, OpenHere, OpenBehind
  <2>14. d.awaits["changed"][p] > 0  BY <2>1, <2>7, <2>8, <2>9
  <2>15. Watched(d)  BY <2>4, <2>7, <2>8, <2>14 DEF Watched
  <2>16. RunOK(d.disk)  BY <1>1, <2>3, <2>8 DEF Keeps
  <2> QED BY <2>2, <2>8, <2>10, <2>11, <2>12, <2>13, <2>15, <2>16 DEF EngineOK, Loose
<1>6. CASE ~(s \in flow.ifChanged /\ s > 1) /\ Gate(s) # "none"
  <2> DEFINE f == Stops(e, s, Gate(s))
  <2>1. Gate(s) \in Why /\ Gate(s) \in Gates  BY <1>6, FlowFields DEF Why
  <2>2. f \in Runtime /\ Keeps(f, e)  BY <2>1, StopsType
  <2>3. /\ f.run.kind = "paused" /\ f.run.at = s /\ f.run.why = Gate(s)
        /\ f.run.settled = e.run.settled /\ f.run.cleared = e.run.cleared
    BY <2>1, StopsType
  <2>4. HeldGoesOn(e, s, edited) = Checkpoint(f)  BY <1>6 DEF HeldGoesOn
  <2> HIDE DEF f
  <2>5. f.final = 0 /\ SameGit(f, e)  BY <1>2, <2>2, KeepsGit DEF Keeps
  <2>6. RunSafe(f.run)  BY <1>3, <1>6, <2>3 DEF RunSafe
  <2>7. OpenHere(f.run)  BY <2>1, <2>3 DEF OpenHere, Gates
  <2>8. Spaced(flow) => OpenBehind(f.run)
    BY <1>1, <2>3 DEF GateOpen, OpenBehind
  <2>9. RunOK(f.run)  BY <2>6, <2>7, <2>8 DEF RunOK, GateOpen
  <2> QED BY <1>1, <2>2, <2>3, <2>4, <2>5, <2>9, Rested
<1>7. CASE ~(s \in flow.ifChanged /\ s > 1) /\ Gate(s) = "none"
  <2> DEFINE chat == IF edited THEN e.chat ELSE {}
  <2>1. chat \in SUBSET Parties  BY DEF Runtime
  <2>2. HeldGoesOn(e, s, edited) = AdvanceTo([e EXCEPT !.chat = chat], s)
    BY <1>7 DEF HeldGoesOn
  <2> HIDE DEF chat
  <2> QED BY <1>7, <2>1, <2>2, ResumeAtOK
<1> QED BY <1>5, <1>6, <1>7
\* Before the gate the last step's chat is summed up, in a turn of its own unless
\* its party has said it all.
LEMMA FinalizeOK ==
    ASSUME flow \in Flows, NEW e \in Runtime, NEW s \in Steps, NEW fresh,
           Resumable(e), s = e.run.at, s > 1, e.run.why \in Gates, e.final = 0,
           Spaced(flow) /\ Gate(s) # "none" => s \in e.run.cleared
    PROVE  EngineOK(Finalize(e, s, fresh))
<1> DEFINE p == s - 1
           g == Goes(e, p)
           f == [g EXCEPT !.final = s]
           d == Send(f, Part(p), p)
<1>1. CASE fresh /\ p \in e.run.made
  BY <1>1, ResumeAtOK DEF Finalize, Runtime
<1>2. CASE ~(fresh /\ p \in e.run.made)
  <2>1. /\ e.run.kind = "paused" /\ NoChanged(e) /\ RunOK(e.disk)
        /\ RunSafe(e.run) /\ GateOpen(e.run)
        /\ \A u \in Steps : e.awaits["diff"][u] = 0
    BY DEF Resumable, EngineOK, Loose
  <2>2. s \in 1..Last /\ Last \in Nat  BY StepRange DEF Steps
  <2>3. p \in Steps /\ p \in 0..Last /\ s \in 0..Last /\ s # 1 /\ p + 1 = s
    BY <2>2 DEF Steps
  <2>4. Finalize(e, s, fresh) = Send([Goes(e, p) EXCEPT !.final = s], Part(p), p)
    BY <1>2 DEF Finalize
  <2>5. g \in Runtime /\ Keeps(g, e)  BY <2>3, GoesType
  <2>6. /\ g.run.kind = "running" /\ g.run.at = p
        /\ g.run.settled = e.run.settled /\ g.run.cleared = e.run.cleared
    BY <2>3, GoesType
  <2>7. Gate(s) \in Gates /\ Gate(s) # "none"  BY <2>1 DEF RunSafe, Gates
  <2>8. Spaced(flow) /\ Gate(p) # "none" => p \in e.run.cleared
    BY <2>1, <2>3, <2>7 DEF GateOpen, OpenBehind
  <2>9. Forward(flow) => 1..(s - 1) \subseteq e.run.settled  BY <2>1 DEF RunSafe
  <2>10. 1..(p - 1) \subseteq 1..(s - 1)  BY <2>2
  <2>11. Part(p) \in Parties  BY <2>3, FlowFields
  <2> HIDE DEF g
  <2>12. f \in Runtime /\ f.run = g.run /\ f.disk = g.disk /\ f.final = s /\ f.awaits = g.awaits
    BY <2>3, <2>5, SetFinal
  <2> HIDE DEF f
  <2>13. d \in Runtime /\ Keeps(d, f) /\ d.run = f.run  BY <2>3, <2>11, <2>12, SendType
  <2>14. Finalize(e, s, fresh) = d  BY <2>4 DEF d, f, g
  <2> HIDE DEF d
  <2>15. d.run = g.run /\ d.disk = e.disk /\ d.final = s /\ d.awaits = e.awaits
    BY <2>5, <2>12, <2>13 DEF Keeps
  <2>16. RunSafe(d.run)  BY <2>6, <2>9, <2>10, <2>15 DEF RunSafe
  <2>17. GateOpen(d.run)  BY <2>6, <2>8, <2>15 DEF GateOpen, OpenHere, OpenBehind
  <2>18. ChangedOK(d, 0)  BY <2>1, <2>15 DEF ChangedOK, NoChanged
  <2>19. FinalOK(d)
    BY <2>1, <2>3, <2>6, <2>9, <2>15 DEF FinalOK, NoChanged
  <2>20. Watched(d)  BY <2>3, <2>15, StepRange DEF Watched
  <2> QED BY <2>1, <2>13, <2>14, <2>15, <2>16, <2>17, <2>18, <2>19, <2>20 DEF EngineOK, Loose
<1> QED BY <1>1, <1>2

\* However the run was paused, Continue leads to its step or to its gate.
LEMMA ResumedOK ==
    ASSUME flow \in Flows, NEW e \in Runtime, NEW edited \in BOOLEAN, NEW fresh \in BOOLEAN,
           Resumable(e)
    PROVE  EngineOK(Resumed(e, edited, fresh))
<1> DEFINE s == e.run.at
           c == Continued(e, s)
           prior == s - 1
           chat == IF s > 1 THEN c.chat \ {Part(prior)} ELSE c.chat
           quiet == [c EXCEPT !.chat = chat]
<1>1. s \in Steps  BY DEF Runtime, Run
<1>2. /\ c \in Runtime /\ Resumable(c)
      /\ c.run.at = s /\ c.run.why = e.run.why /\ c.final = e.final
      /\ Spaced(flow) /\ Gate(s) # "none" => s \in c.run.cleared
  BY <1>1, ContinuedOK
<1>3. quiet = [c EXCEPT !.chat = IF s > 1 THEN @ \ {Part(prior)} ELSE @]
  BY <1>2 DEF Runtime
<1>4. Resumed(e, edited, fresh) =
        IF e.run.why = "held" THEN HeldGoesOn(e, s, edited)
        ELSE IF edited THEN AdvanceTo(c, s)
        ELSE IF e.run.why \notin Gates THEN AdvanceTo([c EXCEPT !.chat = {}], s)
        ELSE IF s > 1 /\ Part(prior) \in e.chat /\ prior \notin flow.diffs
             THEN Finalize(quiet, s, fresh)
        ELSE AdvanceTo(quiet, s)
  BY <1>3 DEF Resumed
<1> HIDE DEF s, c
<1>5. chat \in SUBSET Parties  BY <1>2 DEF Runtime
<1> HIDE DEF chat
<1>6. quiet \in Runtime /\ Keeps(quiet, c) /\ quiet.run = c.run  BY <1>2, <1>5, SetChat
<1>7. EngineOK(AdvanceTo(quiet, s)) /\ EngineOK(AdvanceTo(c, s))
  BY <1>1, <1>2, <1>5, ResumeAtOK
<1>8. {} \in SUBSET Parties  OBVIOUS
<1>9. EngineOK(AdvanceTo([c EXCEPT !.chat = {}], s))
  BY <1>1, <1>2, <1>8, ResumeAtOK
<1> HIDE DEF quiet
<1>10. CASE e.run.why = "held"
  BY <1>1, <1>4, <1>10, HeldGoesOnOK DEF s
<1>11. CASE e.run.why \in Gates /\ s > 1
  <2>1. EngineOK(c) /\ NoChanged(c) /\ c.run.kind = "paused"
        /\ \A u \in Steps : c.awaits["diff"][u] = 0
    BY <1>2 DEF Resumable
  <2>2. EngineOK(quiet)  BY <1>6, <2>1, KeepsUnmoved
  <2>3. Resumable(quiet)
    BY <1>6, <2>1, <2>2 DEF Resumable, NoChanged, Keeps
  <2>4. c.final = 0  BY <1>2, <1>11, <2>1 DEF EngineOK, Loose, FinalOK, Gates
  <2>5. quiet.final = 0  BY <1>6, <2>4 DEF Keeps
  <2>6. /\ s = quiet.run.at /\ quiet.run.why \in Gates
        /\ Spaced(flow) /\ Gate(s) # "none" => s \in quiet.run.cleared
    BY <1>2, <1>6, <1>11
  <2>7. EngineOK(Finalize(quiet, s, fresh))
    BY <1>1, <1>6, <1>11, <2>3, <2>5, <2>6, FinalizeOK
  <2> QED BY <1>4, <1>7, <1>9, <1>11, <2>7 DEF Gates
<1>12. CASE e.run.why # "held" /\ ~(e.run.why \in Gates /\ s > 1)
  BY <1>4, <1>7, <1>9, <1>12
<1> QED BY <1>10, <1>11, <1>12

\* A person resumes the paused run.
LEMMA ResumeRunOK ==
    ASSUME IInv, NEW edited \in BOOLEAN, NEW fresh \in BOOLEAN, ResumeRun(edited, fresh)
    PROVE  EngineOK(rt')
<1>1. rt \in Runtime /\ flow \in Flows /\ EngineOK(rt)  BY DEF IInv, EngineOK, Loose
<1>2. Resumable(rt)  BY <1>1, QuickGitQuiet DEF ResumeRun, Resumable
<1> QED BY <1>1, <1>2, ResumedOK DEF ResumeRun

\* A person waives the step that failed: it counts as settled.
LEMMA OverrideOK ==
    ASSUME IInv, Override
    PROVE  EngineOK(rt')
<1> DEFINE s == rt.run.at
           r == [rt.run EXCEPT !.settled = @ \cup {s}]
           m == [rt EXCEPT !.run = r]
           d == Goes(m, s)
<1>1. rt \in Runtime /\ flow \in Flows /\ EngineOK(rt)  BY DEF IInv, EngineOK, Loose
<1>2. rt.run \in Run /\ s \in Steps  BY <1>1 DEF Runtime, Run
<1>3. rt.run.kind = "paused" /\ rt.run.why = "failure" /\ NoChanged(rt)
  BY <1>1, QuickGitQuiet DEF Override
<1>4. RunSafe(rt.run) /\ GateOpen(rt.run) /\ RunOK(rt.disk) /\ rt.final = 0
  BY <1>1, <1>3 DEF EngineOK, Loose, FinalOK
<1>5. r \in Run /\ r.settled = rt.run.settled \cup {s} /\ r.cleared = rt.run.cleared
  BY <1>2 DEF Run
<1>6. m = [rt EXCEPT !.run.settled = @ \cup {s}]  BY <1>1 DEF Runtime, Run
<1>7. rt' = AdvanceAfter(d, s)  BY <1>6 DEF Override
<1> HIDE DEF r
<1>8. m \in Runtime /\ Keeps(m, rt) /\ m.run = r  BY <1>1, <1>5, SetRun
<1> HIDE DEF m
<1>9. d \in Runtime /\ Keeps(d, m)  BY <1>2, <1>8, GoesType
<1>10. /\ d.run.kind = "running" /\ d.run.at = s
       /\ d.run.settled = r.settled /\ d.run.cleared = r.cleared
  BY <1>2, <1>8, GoesType
<1> HIDE DEF d
<1>11. d.final = 0 /\ d.awaits = rt.awaits /\ d.disk = rt.disk
  BY <1>4, <1>8, <1>9 DEF Keeps
<1>12. RunSafe(d.run)  BY <1>4, <1>5, <1>10 DEF RunSafe
<1>13. ChangedOK(d, 0) /\ FinalOK(d)
  BY <1>3, <1>11 DEF ChangedOK, FinalOK, NoChanged
<1>14. Loose(d, 0)  BY <1>4, <1>9, <1>11, <1>12, <1>13 DEF Loose
<1>15. Passed(d.run, s)
  BY <1>3, <1>4, <1>5, <1>10 DEF Passed, GateOpen, OpenHere
<1>16. Settled(d, s)  BY <1>5, <1>10, <1>11, <1>14, <1>15 DEF Settled, At
<1> QED BY <1>1, <1>2, <1>7, <1>9, <1>16, AdvanceAfterOK

\* A person starts a step again: what is behind it counts as settled.
LEMMA RerunOK ==
    ASSUME IInv, NEW s \in Steps, RerunFromStep(s)
    PROVE  EngineOK(rt')
<1> DEFINE n == [t \in Steps |-> 0]
           a == [rt EXCEPT !.chat = {}]
           b == [a EXCEPT !.retries = n]
           c == [b EXCEPT !.reasks = n]
           r == [rt.run EXCEPT !.settled = @ \cup 1..(s - 1)]
           m == [c EXCEPT !.run = r]
           d == Clear(m, s)
<1>1. rt \in Runtime /\ flow \in Flows /\ EngineOK(rt)  BY DEF IInv, EngineOK, Loose
<1>2. rt.run \in Run  BY <1>1 DEF Runtime, Run
<1>3. NoChanged(rt) /\ rt.final = 0 /\ RunOK(rt.disk)
  BY <1>1, QuickGitQuiet DEF RerunFromStep, EngineOK, Loose
<1>4. n \in [Steps -> Nat]  OBVIOUS
<1>5. 1..(s - 1) \subseteq Steps  BY StepRange DEF Steps
<1>6. r \in Run /\ r.settled = rt.run.settled \cup 1..(s - 1)  BY <1>2, <1>5 DEF Run
<1>7. m = [rt EXCEPT !.chat = {}, !.retries = n, !.reasks = n,
                     !.run.settled = @ \cup 1..(s - 1)]
  BY <1>1, <1>2 DEF Runtime, Run
<1>8. rt' = Execute(Goes(d, s), s)  BY <1>7 DEF RerunFromStep
<1> HIDE DEF n, r
<1>9. {} \in SUBSET Parties  OBVIOUS
<1>10. a \in Runtime /\ Keeps(a, rt)  BY <1>1, <1>9, SetChat
<1> HIDE DEF a
<1>11. b \in Runtime /\ Keeps(b, a)  BY <1>4, <1>10, SetRetries
<1> HIDE DEF b
<1>12. c \in Runtime /\ Keeps(c, b)  BY <1>4, <1>11, SetReasks
<1> HIDE DEF c
<1>13. m \in Runtime /\ Keeps(m, c) /\ m.run = r  BY <1>6, <1>12, SetRun
<1> HIDE DEF m
<1>14. /\ d \in Runtime /\ Keeps(d, m)
       /\ d.run.settled = m.run.settled /\ d.run.cleared = m.run.cleared \cup {s}
  BY <1>13, ClearType
<1> HIDE DEF d
<1>15. d.disk = rt.disk /\ d.final = 0 /\ d.awaits = rt.awaits
  BY <1>3, <1>10, <1>11, <1>12, <1>13, <1>14 DEF Keeps
<1>16. 1..(s - 1) \subseteq d.run.settled /\ s \in d.run.cleared  BY <1>6, <1>13, <1>14
<1>17. \A u \in Steps : ~(d.awaits["changed"][u] > 0)  BY <1>3, <1>15 DEF NoChanged
<1>18. RunOK(d.disk)  BY <1>3, <1>15
<1> QED BY <1>1, <1>8, <1>14, <1>15, <1>16, <1>17, <1>18, StartOK
\* A hold, or its end, saves the run as it is.
LEMMA HoldSaved ==
    ASSUME flow \in Flows, NEW e \in Runtime, EngineOK(e), NEW b \in BOOLEAN
    PROVE  LET d == Checkpoint([e EXCEPT !.run.hold = b])
           IN  /\ d \in Runtime /\ EngineOK(d) /\ Alike(d.run, e.run)
               /\ d.final = e.final /\ d.awaits = e.awaits
<1> DEFINE r == [e.run EXCEPT !.hold = b]
           m == [e EXCEPT !.run.hold = b]
           d == Checkpoint(m)
<1>1. e.run \in Run  BY DEF Runtime
<1>2. r \in Run /\ Alike(r, e.run)  BY <1>1 DEF Run, Alike
<1>3. m = [e EXCEPT !.run = r]  BY <1>1 DEF Runtime, Run
<1> HIDE DEF r, m
<1>4. m \in Runtime /\ Keeps(m, e) /\ m.run = r  BY <1>2, <1>3, SetRun
<1>5. /\ d \in Runtime /\ d.run = r /\ d.disk = r /\ d.final = e.final
      /\ d.armed = e.armed /\ d.awaits = e.awaits
  BY <1>4, CheckpointType DEF Keeps
<1> HIDE DEF d
<1>6. EngineOK(d)  BY <1>2, <1>5, Unmoved
<1> QED BY <1>2, <1>5, <1>6 DEF d, m

\* A person asks for a hold.
LEMMA HoldRunOK ==
    ASSUME IInv, HoldRun
    PROVE  EngineOK(rt')
BY HoldSaved DEF HoldRun, IInv, EngineOK, Loose

\* A person takes the hold back: a held run goes on.
LEMMA ReleaseHoldOK ==
    ASSUME IInv, ReleaseHold
    PROVE  EngineOK(rt')
<1> DEFINE e == IF rt.run.hold THEN Checkpoint([rt EXCEPT !.run.hold = FALSE]) ELSE rt
<1>1. rt \in Runtime /\ flow \in Flows /\ EngineOK(rt)  BY DEF IInv, EngineOK, Loose
<1>2. /\ e \in Runtime /\ EngineOK(e) /\ e.awaits = rt.awaits
  BY <1>1, HoldSaved
<1>3. QuickGit  BY DEF ReleaseHold
<1>4. NoChanged(rt) /\ \A s \in Steps : rt.awaits["diff"][s] = 0  BY <1>1, <1>3, QuickGitQuiet
<1>5. rt' = IF e.run.kind = "paused" /\ e.run.why = "held" THEN Resumed(e, FALSE, FALSE) ELSE e
  BY DEF ReleaseHold
<1> HIDE DEF e
<1>6. CASE e.run.kind = "paused" /\ e.run.why = "held"
  <2>1. Resumable(e)  BY <1>2, <1>4, <1>6 DEF Resumable, NoChanged
  <2>2. FALSE \in BOOLEAN  OBVIOUS
  <2> QED BY <1>1, <1>2, <1>5, <1>6, <2>1, <2>2, ResumedOK
<1>7. CASE ~(e.run.kind = "paused" /\ e.run.why = "held")
  BY <1>2, <1>5, <1>7
<1> QED BY <1>6, <1>7

\* The process of a conversation is killed.
LEMMA StoppedOK ==
    ASSUME NEW e \in Runtime, NEW p \in Parties, EngineOK(e)
    PROVE  Stopped(e, p) \in Runtime /\ EngineOK(Stopped(e, p))
<1>1. e.conv \in [Parties -> Conv]  BY DEF Runtime
<1>2. <<>> \in Turns  BY DEF Turns
<1> DEFINE c == [e.conv[p] EXCEPT !.queue = <<>>, !.inFlight = FALSE]
<1>3. c \in Conv  BY <1>1, <1>2 DEF Conv
<1>4. Stopped(e, p) = [e EXCEPT !.conv[p] = c]  BY <1>1 DEF Stopped, Runtime, Conv
<1> HIDE DEF c
<1>5. Stopped(e, p) \in Runtime /\ Keeps(Stopped(e, p), e) /\ Stopped(e, p).run = e.run
  BY <1>3, <1>4, SetConv
<1> QED BY <1>5, KeepsUnmoved

\* Whatever stopping the conversation set off, the run is over; a finalize turn
\* that this ended still starts its step.
LEMMA AbortRunOK ==
    ASSUME IInv, NEW approves, AbortRun(approves)
    PROVE  EngineOK(rt')
<1> DEFINE r == [rt.run EXCEPT !.hold = FALSE]
           begun == [rt EXCEPT !.run.hold = FALSE]
           stopped == StepStopped(begun, approves)
           q == [stopped.run EXCEPT !.kind = "aborted"]
           m == [stopped EXCEPT !.run.kind = "aborted"]
           over == Checkpoint(m)
<1>1. rt \in Runtime /\ flow \in Flows /\ EngineOK(rt)  BY DEF IInv, EngineOK, Loose
<1>2. rt.run \in Run  BY <1>1 DEF Runtime
<1>3. r \in Run /\ Alike(r, rt.run)  BY <1>2 DEF Run, Alike
<1>4. begun = [rt EXCEPT !.run = r]  BY <1>1, <1>2 DEF Runtime, Run
<1>5. rt' = Finalized(over) \/ rt' = over  BY DEF AbortRun
<1> HIDE DEF r, begun
<1>6. begun \in Runtime /\ Keeps(begun, rt) /\ begun.run = r  BY <1>1, <1>3, <1>4, SetRun
<1>7. EngineOK(begun)  BY <1>1, <1>3, <1>6, Unmoved DEF Keeps
<1>8. EngineOK(stopped)
  <2>1. begun.run.at \in Steps  BY <1>6 DEF Runtime, Run
  <2> DEFINE p == Part(begun.run.at)
  <2>2. p \in Parties  BY <1>1, <2>1, FlowFields
  <2>3. stopped = ObserveIdle(Stopped(begun, p), p, approves) \/ stopped = begun
    BY DEF StepStopped
  <2> HIDE DEF p
  <2> QED BY <1>1, <1>6, <1>7, <2>2, <2>3, StoppedOK, ObserveIdleOK
<1> HIDE DEF stopped
<1>9. stopped \in Runtime /\ Loose(stopped, 0) /\ RunSafe(stopped.run) /\ FinalOK(stopped)
  BY <1>8 DEF EngineOK, Loose
<1>10. stopped.run \in Run  BY <1>9 DEF Runtime
<1>11. /\ q \in Run /\ q.kind = "aborted" /\ q.at = stopped.run.at
       /\ q.settled = stopped.run.settled /\ q.cleared = stopped.run.cleared
  BY <1>10 DEF Run, Kinds
<1>12. m = [stopped EXCEPT !.run = q]  BY <1>9, <1>10 DEF Runtime, Run
<1> HIDE DEF q, m
<1>13. m \in Runtime /\ Keeps(m, stopped) /\ m.run = q  BY <1>9, <1>11, <1>12, SetRun
<1>14. /\ over \in Runtime /\ over.run = q /\ over.disk = q /\ over.final = stopped.final
       /\ over.awaits = stopped.awaits
  BY <1>13, CheckpointType DEF Keeps
<1> HIDE DEF over
<1>15. RunOK(q)
  BY <1>9, <1>11 DEF RunOK, RunSafe, GateOpen, OpenHere, OpenBehind
<1>16. ChangedOK(over, 0)  BY <1>9, <1>11, <1>14 DEF Loose, ChangedOK
<1>17. FinalOK(over)  BY <1>9, <1>11, <1>14 DEF FinalOK
<1>18. Watched(over)  BY <1>11, <1>14 DEF Watched
<1>19. EngineOK(over)  BY <1>14, <1>15, <1>16, <1>17, <1>18 DEF EngineOK, Loose, RunOK
<1> QED BY <1>1, <1>5, <1>14, <1>19, FinalizedOK

\* The run is forgotten.
LEMMA DeleteRunOK ==
    ASSUME IInv, DeleteRun
    PROVE  EngineOK(rt')
<1> DEFINE r == [rt.run EXCEPT !.kind = "deleted"]
<1>1. rt.run \in Run /\ RunSafe(rt.run)  BY DEF IInv, EngineOK, Loose, Runtime
<1>2. /\ r \in Run /\ r.kind = "deleted" /\ r.at = rt.run.at
      /\ r.settled = rt.run.settled
  BY <1>1 DEF Run, Kinds
<1>3. rt' = Loaded(r)  BY DEF DeleteRun
<1> HIDE DEF r
<1>4. RunOK(r)  BY <1>1, <1>2 DEF RunOK, RunSafe, GateOpen, OpenHere, OpenBehind
<1> QED BY <1>2, <1>3, <1>4, LoadedOK

\* A person talks to a participant.
LEMMA ChatOK ==
    ASSUME IInv, NEW p \in Parties, Chat(p)
    PROVE  EngineOK(rt')
<1>1. rt \in Runtime /\ EngineOK(rt)  BY DEF IInv, EngineOK, Loose
<1>2. rt' = Send(rt, p, 0) /\ 0 \in 0..Last  BY StepRange DEF Chat
<1> QED BY <1>1, <1>2, SendType, KeepsUnmoved

\* The process dies, and comes back to the checkpoint.
LEMMA RestartOK ==
    ASSUME IInv, Restart
    PROVE  EngineOK(rt')
<1>1. rt.disk \in Run /\ RunOK(rt.disk) /\ flow \in Flows
  BY DEF IInv, EngineOK, Loose, Runtime
<1> QED BY <1>1, RestoredOK, LoadedOK DEF Restart

-----------------------------------------------------------------------------
(* One step of the run: its conversations, git, the supervisor, the timers. *)

\* A conversation other than it was, with nothing else changed.
LEMMA ConvOK ==
    ASSUME IInv, NEW p \in Parties, NEW c \in Conv
    PROVE  /\ [rt EXCEPT !.conv[p] = c] \in Runtime
           /\ EngineOK([rt EXCEPT !.conv[p] = c])
<1>1. rt \in Runtime /\ EngineOK(rt)  BY DEF IInv, EngineOK, Loose
<1> DEFINE d == [rt EXCEPT !.conv[p] = c]
<1>2. d \in Runtime /\ Keeps(d, rt) /\ d.run = rt.run  BY <1>1, SetConv
<1> HIDE DEF d
<1>3. EngineOK(d)  BY <1>1, <1>2, KeepsUnmoved
<1> QED BY <1>2, <1>3 DEF d

\* The tail of a queue of turns is one, and so is the queue with a turn more.
LEMMA TurnsOK ==
    ASSUME NEW q \in Turns, q # <<>>
    PROVE  Head(q) \in 0..Last /\ Tail(q) \in Turns
BY HeadTailProperties DEF Turns

\* A process is given the turn in front.
LEMMA LaunchesOK ==
    ASSUME IInv, NEW p \in Parties, NEW relaunch \in BOOLEAN, Launches(p, relaunch)
    PROVE  EngineOK(rt')
<1> DEFINE k == rt.conv[p]
           b == IF relaunch THEN <<>> ELSE k.queue
           q == Append(b, Head(k.prep))
           c == [prep |-> Tail(k.prep), pending |-> FALSE, inFlight |-> TRUE, queue |-> q]
<1>1. k \in Conv  BY DEF IInv, EngineOK, Loose, Runtime
<1>2. k.prep \in Turns /\ k.queue \in Turns  BY <1>1 DEF Conv
<1>3. k.prep # <<>> /\ rt' = [rt EXCEPT !.conv[p] = c]  BY DEF Launches
<1> HIDE DEF k
<1>4. Head(k.prep) \in 0..Last /\ Tail(k.prep) \in Turns  BY <1>2, <1>3, TurnsOK
<1>8. <<>> \in Turns  BY DEF Turns
<1>5. b \in Turns  BY <1>2, <1>8
<1> HIDE DEF b
<1>6. q \in Turns  BY <1>4, <1>5 DEF Turns
<1> HIDE DEF q
<1>7. c \in Conv  BY <1>4, <1>6 DEF Conv
<1> QED BY <1>3, <1>7, ConvOK

\* A launch that fails leaves its conversation idle.
LEMMA LaunchFailsOK ==
    ASSUME IInv, NEW p \in Parties, NEW approves, LaunchFails(p, approves)
    PROVE  EngineOK(rt')
<1> DEFINE k == rt.conv[p]
           c == [k EXCEPT !.prep = Tail(@), !.pending = FALSE]
           e == [rt EXCEPT !.conv[p].prep = Tail(@), !.conv[p].pending = FALSE]
<1>1. rt \in Runtime /\ rt.conv \in [Parties -> Conv]  BY DEF IInv, EngineOK, Loose, Runtime
<1>2. k \in Conv /\ k.prep \in Turns  BY <1>1 DEF Conv
<1>3. k.prep # <<>> /\ rt' = GoesIdle(e, p, approves)  BY DEF LaunchFails
<1>4. Tail(k.prep) \in Turns  BY <1>2, <1>3, TurnsOK
<1>5. c \in Conv  BY <1>2, <1>4 DEF Conv
<1>6. e = [rt EXCEPT !.conv[p] = c]  BY <1>1 DEF Runtime, Conv
<1> HIDE DEF c, e
<1>7. e \in Runtime /\ EngineOK(e)  BY <1>5, <1>6, ConvOK
<1> QED BY <1>3, <1>7, GoesIdleOK DEF IInv

\* A message is an output or a question of the step, or talk.
LEMMA SaysOK ==
    ASSUME IInv, NEW p \in Parties, NEW what \in {"output", "question", "talk"}, Says(p, what)
    PROVE  EngineOK(rt')
<1>1. rt \in Runtime /\ EngineOK(rt)  BY DEF IInv, EngineOK, Loose
<1>2. CASE what = "talk"
  <2> DEFINE c == rt.chat \cup {p}
  <2>1. c \in SUBSET Parties  BY <1>1 DEF Runtime
  <2>2. rt' = [rt EXCEPT !.chat = c]  BY <1>2 DEF Says
  <2> HIDE DEF c
  <2>3. rt' \in Runtime /\ Keeps(rt', rt) /\ rt'.run = rt.run  BY <1>1, <2>1, <2>2, SetChat
  <2> QED BY <1>1, <2>3, KeepsUnmoved
<1>3. CASE what # "talk"
  <2> DEFINE b == rt.buf \cup {what}
  <2>1. b \in SUBSET {"output", "question"}  BY <1>1, <1>3 DEF Runtime
  <2>2. rt' = [rt EXCEPT !.buf = b]  BY <1>3 DEF Says
  <2> HIDE DEF b
  <2>3. rt' \in Runtime /\ Keeps(rt', rt) /\ rt'.run = rt.run  BY <1>1, <2>1, <2>2, SetBuf
  <2> QED BY <1>1, <2>3, KeepsUnmoved
<1> QED BY <1>2, <1>3

\* A turn returns its result, or its process dies.
LEMMA TurnEndsOK ==
    ASSUME IInv, NEW p \in Parties, NEW died \in BOOLEAN, NEW approves,
           TurnEnds(p, died, approves)
    PROVE  EngineOK(rt')
<1> DEFINE k == rt.conv[p]
           q == IF died THEN <<>> ELSE Tail(k.queue)
           c == [k EXCEPT !.queue = q, !.inFlight = FALSE]
           e == [rt EXCEPT !.conv[p].queue = IF died THEN <<>> ELSE Tail(@),
                           !.conv[p].inFlight = FALSE]
<1>1. rt \in Runtime /\ rt.conv \in [Parties -> Conv]  BY DEF IInv, EngineOK, Loose, Runtime
<1>2. k \in Conv /\ k.queue \in Turns  BY <1>1 DEF Conv
<1>3. k.queue # <<>> /\ rt' = GoesIdle(e, p, approves)  BY DEF TurnEnds
<1>4. Tail(k.queue) \in Turns  BY <1>2, <1>3, TurnsOK
<1>9. <<>> \in Turns  BY DEF Turns
<1>5. q \in Turns  BY <1>4, <1>9
<1>6. e = [rt EXCEPT !.conv[p] = c]  BY <1>1 DEF Runtime, Conv
<1> HIDE DEF q, e
<1>7. c \in Conv  BY <1>2, <1>5 DEF Conv
<1> HIDE DEF c
<1>8. e \in Runtime /\ EngineOK(e)  BY <1>6, <1>7, ConvOK
<1> QED BY <1>3, <1>8, GoesIdleOK DEF IInv
\* An answer about s has come: nothing else is different, and a run that is not
\* at work at s is waited for as before.
LEMMA ReturnOK ==
    ASSUME IInv, NEW w \in Waits, NEW s \in Steps, rt.awaits[w][s] > 0
    PROVE  LET e == Return(rt, w, s)
           IN  /\ e \in Runtime /\ Loose(e, 0) /\ e.run = rt.run /\ e.final = rt.final
               /\ GateOpen(e.run)
               /\ ~At(rt, "running", s) \/ w = "ask" => EngineOK(e)
<1> DEFINE e == Return(rt, w, s)
<1>1. rt \in Runtime /\ EngineOK(rt) /\ Loose(rt, 0) /\ GateOpen(rt.run) /\ Watched(rt)
  BY DEF IInv, EngineOK, Loose
<1>2. /\ e \in Runtime /\ e.run = rt.run /\ e.disk = rt.disk /\ e.final = rt.final
      /\ e.armed = rt.armed
      /\ \A v \in Waits, u \in Steps : e.awaits[v][u] =
           IF v = w /\ u = s THEN rt.awaits[v][u] - 1 ELSE rt.awaits[v][u]
  <2> HIDE DEF e
  <2> QED BY <1>1, ReturnType DEF e
<1> HIDE DEF e
<1>3. \A v \in Waits, u \in Steps : rt.awaits[v][u] \in Nat  BY <1>1 DEF Runtime
<1>4. \A v \in Waits, u \in Steps : e.awaits[v][u] > 0 => rt.awaits[v][u] > 0
  BY <1>2, <1>3
<1>5. ChangedOK(e, 0)  BY <1>1, <1>2, <1>4, WaitNames DEF Loose, ChangedOK
<1>6. FinalOK(e)
  <2>1. ASSUME rt.final # 0, NEW u \in Steps
        PROVE  e.awaits["changed"][u] = 0 /\ e.awaits["diff"][u] = 0
    <3>1. rt.awaits["changed"][u] = 0 /\ rt.awaits["diff"][u] = 0
      BY <1>1, <2>1 DEF Loose, FinalOK
    <3>2. ~(u = s /\ w = "changed") /\ ~(u = s /\ w = "diff")  BY <3>1
    <3> QED BY <1>2, <3>1, <3>2, WaitNames
  <2> QED BY <1>1, <1>2, <2>1 DEF Loose, FinalOK
<1>7. Loose(e, 0)  BY <1>1, <1>2, <1>5, <1>6 DEF Loose
<1>8. ASSUME ~At(rt, "running", s) \/ w = "ask" PROVE Watched(e)
  <2>1. rt.run.at \in Steps  BY <1>1 DEF Runtime, Run
  <2>2. \A v \in Waits \ {"ask"} : rt.run.kind = "running" =>
          e.awaits[v][rt.run.at] = rt.awaits[v][rt.run.at]
    BY <1>2, <1>8, <2>1 DEF At
  <2> QED BY <1>1, <1>2, <2>2 DEF Watched
<1> QED BY <1>1, <1>2, <1>7, <1>8 DEF EngineOK, e

\* The diff is refreshed: the step starts if the run still stands there.
LEMMA RefreshReturnsOK ==
    ASSUME IInv, NEW s \in Steps, RefreshReturns(s)
    PROVE  EngineOK(rt')
<1> DEFINE e == Return(rt, "refresh", s)
<1>1. "refresh" \in Waits /\ flow \in Flows  BY WaitNames DEF IInv
<1>2. /\ rt.awaits["refresh"][s] > 0
      /\ rt' = IF At(e, "running", s) THEN Launch(e, s) ELSE e
  BY DEF RefreshReturns
<1>3. /\ e \in Runtime /\ Loose(e, 0) /\ e.run = rt.run /\ GateOpen(e.run)
      /\ ~At(rt, "running", s) => EngineOK(e)
  BY <1>1, <1>2, ReturnOK
<1> HIDE DEF e
<1>4. EngineOK(Launch(e, s))  BY <1>1, <1>3, LaunchOK
<1> QED BY <1>2, <1>3, <1>4 DEF At

\* The diff is captured: the step is judged if the run still stands there.
LEMMA DiffReturnsOK ==
    ASSUME IInv, NEW s \in Steps, NEW approves, DiffReturns(s, approves)
    PROVE  EngineOK(rt')
<1> DEFINE e == Return(rt, "diff", s)
<1>1. "diff" \in Waits /\ flow \in Flows  BY WaitNames DEF IInv
<1>2. /\ rt.awaits["diff"][s] > 0
      /\ rt' = IF At(e, "running", s) THEN Success(e, s, approves) ELSE e
  BY DEF DiffReturns
<1>3. /\ e \in Runtime /\ Loose(e, 0) /\ e.run = rt.run /\ e.final = rt.final
      /\ GateOpen(e.run)
      /\ ~At(rt, "running", s) => EngineOK(e)
  BY <1>1, <1>2, ReturnOK
<1> HIDE DEF e
<1>4. e.final = 0  BY <1>2, <1>3 DEF IInv, EngineOK, Loose, FinalOK
<1>5. At(e, "running", s) => EngineOK(Success(e, s, approves))
  BY <1>1, <1>3, <1>4, SuccessOK DEF Working
<1> QED BY <1>2, <1>3, <1>5 DEF At

\* The supervisor answers, or has nothing to say: a late word changes nothing.
LEMMA AnswerReturnsOK ==
    ASSUME IInv, NEW s \in Steps, NEW answered \in BOOLEAN, AnswerReturns(s, answered)
    PROVE  EngineOK(rt')
<1> DEFINE e == Return(rt, "ask", s)
<1>1. "ask" \in Waits /\ flow \in Flows  BY WaitNames DEF IInv
<1>2. /\ rt.awaits["ask"][s] > 0
      /\ rt' = IF ~At(e, "running", s) THEN e
               ELSE IF answered THEN Execute(Checkpoint(e), s)
               ELSE Checkpoint(Stops(e, s, "needsInput"))
  BY DEF AnswerReturns
<1>3. /\ e \in Runtime /\ Loose(e, 0) /\ e.run = rt.run /\ GateOpen(e.run)
      /\ EngineOK(e)
  BY <1>1, <1>2, ReturnOK
<1> HIDE DEF e
<1>4. CASE ~At(e, "running", s)
  BY <1>2, <1>3, <1>4
<1>5. CASE At(e, "running", s) /\ answered
  <2>1. Loose(Checkpoint(e), 0) /\ GateOpen(Checkpoint(e).run)  BY <1>3, Saved
  <2>2. Checkpoint(e) \in Runtime /\ At(Checkpoint(e), "running", s)
    BY <1>3, <1>5, CheckpointType DEF At
  <2> QED BY <1>1, <1>2, <1>5, <2>1, <2>2, ExecuteOK
<1>6. CASE At(e, "running", s) /\ ~answered
  <2> DEFINE f == Stops(e, s, "needsInput")
             d == Checkpoint(f)
  <2>1. "needsInput" \in Why  BY DEF Why
  <2>2. f \in Runtime /\ Keeps(f, e)  BY <1>3, <2>1, StopsType
  <2>3. /\ f.run.kind = "paused" /\ f.run.at = s /\ f.run.why = "needsInput"
        /\ f.run.settled = e.run.settled /\ f.run.cleared = e.run.cleared
    BY <1>3, <2>1, StopsType
  <2>4. rt' = d  BY <1>2, <1>6
  <2> HIDE DEF f
  <2>5. /\ d \in Runtime /\ d.run = f.run /\ d.disk = f.run /\ d.final = e.final
        /\ d.awaits = e.awaits
    BY <2>2, CheckpointType DEF Keeps
  <2> HIDE DEF d
  <2>6. RunSafe(e.run) /\ e.run.at = s  BY <1>3, <1>6 DEF Loose, At
  <2>7. RunSafe(f.run)  BY <2>3, <2>6 DEF RunSafe, Gates
  <2>8. RunOK(f.run)  BY <2>3, <2>7 DEF RunOK, GateOpen, OpenHere, OpenBehind, Gates
  <2>9. ChangedOK(d, 0)  BY <1>3, <2>3, <2>5 DEF Loose, ChangedOK
  <2>10. FinalOK(d)  BY <1>3, <2>3, <2>5, <2>6 DEF Loose, FinalOK
  <2>11. Watched(d)  BY <2>3, <2>5 DEF Watched
  <2> QED BY <2>4, <2>5, <2>8, <2>9, <2>10, <2>11 DEF EngineOK, Loose, RunOK
<1> QED BY <1>4, <1>5, <1>6

\* Git says whether the step after s has anything to do: it is entered, or passed
\* over to the one after.
LEMMA ChangedReturnsOK ==
    ASSUME IInv, NEW s \in Steps, NEW changed \in BOOLEAN, ChangedReturns(s, changed)
    PROVE  EngineOK(rt')
<1> DEFINE e == Return(rt, "changed", s)
           n == s + 1
<1>1. "changed" \in Waits /\ flow \in Flows  BY WaitNames DEF IInv
<1>2. /\ rt.awaits["changed"][s] > 0
      /\ rt' = IF ~At(e, "running", s) THEN e
               ELSE IF changed THEN Enter(e, n) ELSE Skip(e, n)
  BY DEF ChangedReturns
<1>3. /\ e \in Runtime /\ Loose(e, 0) /\ e.run = rt.run /\ e.final = rt.final
      /\ GateOpen(e.run)
      /\ ~At(rt, "running", s) => EngineOK(e)
  BY <1>1, <1>2, ReturnOK
<1> HIDE DEF e
<1>4. e.final = 0  BY <1>2, <1>3 DEF IInv, EngineOK, Loose, FinalOK
<1>5. /\ s # Last /\ n \in flow.ifChanged
      /\ Forward(flow) /\ rt.run.kind = "running" => s \in rt.run.settled
  <2>1. s # 0  BY StepRange
  <2> QED BY <1>2, <2>1 DEF IInv, EngineOK, Loose, ChangedOK
<1>6. n \in Steps /\ n # 1  BY <1>5, StepRange DEF Steps
<1>7. CASE ~At(e, "running", s)
  BY <1>2, <1>3, <1>7 DEF At
<1>8. CASE At(e, "running", s) /\ changed
  <2>1. Settled(e, s)
    BY <1>3, <1>4, <1>5, <1>8 DEF Settled, At, Passed, GateOpen, OpenHere
  <2> QED BY <1>1, <1>2, <1>3, <1>5, <1>8, <2>1, EnterOK
<1>9. CASE At(e, "running", s) /\ ~changed
  <2> DEFINE r == [e.run EXCEPT !.settled = @ \cup {n}]
             m == [e EXCEPT !.run = r]
             d == Goes(m, n)
  <2>1. e.run \in Run  BY <1>3 DEF Runtime
  <2>2. /\ r \in Run /\ r.settled = e.run.settled \cup {n}
        /\ r.cleared = e.run.cleared /\ r.kind = e.run.kind
    BY <1>6, <2>1 DEF Run
  <2>3. m = [e EXCEPT !.run.settled = @ \cup {n}]  BY <1>3, <2>1 DEF Runtime, Run
  <2>4. Skip(e, n) = AdvanceAfter(d, n)  BY <2>3 DEF Skip
  <2> HIDE DEF r
  <2>5. m \in Runtime /\ Keeps(m, e) /\ m.run = r  BY <1>3, <2>2, SetRun
  <2> HIDE DEF m
  <2>6. d \in Runtime /\ Keeps(d, m)  BY <1>6, <2>5, GoesType
  <2>7. /\ d.run.kind = "running" /\ d.run.at = n /\ d.run.settled = r.settled
    BY <1>6, <2>5, GoesType
  <2> HIDE DEF d
  <2>8. d.final = 0 /\ d.awaits = e.awaits /\ d.disk = e.disk
    BY <1>4, <2>5, <2>6 DEF Keeps
  <2>9. Forward(flow) => 1..(n - 1) \subseteq d.run.settled
    <3>1. \A u \in 1..(n - 1) : u \in 1..(s - 1) \/ u = s  BY DEF Steps
    <3>2. Forward(flow) => 1..(s - 1) \subseteq e.run.settled /\ s \in e.run.settled
      BY <1>3, <1>5, <1>9 DEF Loose, RunSafe, At
    <3> QED BY <2>2, <2>7, <3>1, <3>2
  <2>10. RunSafe(d.run)  BY <2>7, <2>9 DEF RunSafe
  <2>11. ChangedOK(d, 0)
    BY <1>3, <1>9, <2>2, <2>7, <2>8 DEF Loose, ChangedOK, At
  <2>12. FinalOK(d)  BY <2>8 DEF FinalOK
  <2>13. Loose(d, 0)  BY <1>3, <2>6, <2>8, <2>10, <2>11, <2>12 DEF Loose
  <2>14. Passed(d.run, n)  BY <1>5, <1>6 DEF Passed, Spaced, Gate
  <2>15. n \in d.run.settled  BY <2>2, <2>7
  <2>16. Settled(d, n)  BY <2>7, <2>8, <2>13, <2>14, <2>15 DEF Settled, At
  <2> QED BY <1>1, <1>2, <1>6, <1>9, <2>4, <2>6, <2>16, AdvanceAfterOK
<1> QED BY <1>7, <1>8, <1>9

\* The sweep fails a silent step, or stops looking at a run at rest.
LEMMA SweepOK ==
    ASSUME IInv, Sweep
    PROVE  EngineOK(rt')
<1>1. rt \in Runtime /\ flow \in Flows /\ EngineOK(rt)  BY DEF IInv, EngineOK, Loose
<1>2. CASE rt.run.kind # "running"
  <2>1. rt' = [rt EXCEPT !.armed = FALSE]  BY <1>2 DEF Sweep
  <2>2. FALSE \in BOOLEAN  OBVIOUS
  <2>3. /\ rt' \in Runtime /\ rt'.run = rt.run /\ rt'.disk = rt.disk
        /\ rt'.final = rt.final /\ rt'.awaits = rt.awaits
    BY <1>1, <2>1, <2>2, SetArmed
  <2>4. Loose(rt', 0)  BY <1>1, <2>3, LooseTransfer DEF EngineOK, SameGit
  <2> QED BY <1>1, <1>2, <2>3, <2>4 DEF EngineOK, Watched
<1>3. CASE rt.run.kind = "running"
  <2>1. rt' = Failure(rt, rt.run.at) /\ rt.final = 0  BY <1>3 DEF Sweep, Patient
  <2>2. rt.run.at \in Steps  BY <1>1 DEF Runtime, Run
  <2>3. Working(rt, rt.run.at)  BY <1>1, <1>3, <2>1 DEF Working, At, EngineOK
  <2>4. Loose(rt, rt.run.at)  BY <1>1, StepRange DEF EngineOK, Loose, ChangedOK
  <2> QED BY <1>1, <2>1, <2>2, <2>3, <2>4, FailureOK
<1> QED BY <1>2, <1>3
-----------------------------------------------------------------------------
(* The invariant, and what follows from it.                                *)

\* A move is one of those a run of this flow is given.
LEMMA MoveOK ==
    ASSUME IInv, Move
    PROVE  flow' = flow /\ moves' \in 0..MaxMoves[flow]
BY BudgetAssumption DEF IInv, Move

\* Each move keeps the invariant.
LEMMA MovesOK ==
    ASSUME IInv, Moves
    PROVE  flow' = flow /\ moves' \in 0..MaxMoves[flow] /\ EngineOK(rt')
<1>1. CASE \E edited, fresh \in BOOLEAN : ResumeRun(edited, fresh)
  BY <1>1, MoveOK, ResumeRunOK DEF ResumeRun
<1>2. CASE DeleteRun
  BY <1>2, MoveOK, DeleteRunOK DEF DeleteRun
<1>3. CASE Override
  BY <1>3, MoveOK, OverrideOK DEF Override
<1>4. CASE HoldRun
  BY <1>4, MoveOK, HoldRunOK DEF HoldRun
<1>5. CASE ReleaseHold
  <2>1. Move  BY <1>5 DEF ReleaseHold
  <2> QED BY <1>5, <2>1, MoveOK, ReleaseHoldOK
<1>6. CASE \E s \in Steps : RerunFromStep(s)
  BY <1>6, MoveOK, RerunOK DEF RerunFromStep
<1>7. CASE \E approves \in Verdicts : AbortRun(approves)
  <2>1. Move  BY <1>7 DEF AbortRun
  <2> QED BY <1>7, <2>1, MoveOK, AbortRunOK
<1>8. CASE \E p \in Parties : Chat(p)
  BY <1>8, MoveOK, ChatOK DEF Chat
<1>9. CASE Restart
  BY <1>9, MoveOK, RestartOK DEF Restart
<1> QED BY <1>1, <1>2, <1>3, <1>4, <1>5, <1>6, <1>7, <1>8, <1>9 DEF Moves

\* What happens by itself leaves the moves alone.
LEMMA TurningOK ==
    ASSUME IInv, NEW p \in Parties, Turning(p)
    PROVE  flow' = flow /\ moves' = moves /\ EngineOK(rt')
<1>1. CASE \E relaunch \in BOOLEAN : Launches(p, relaunch)
  <2>1. PICK relaunch \in BOOLEAN : Launches(p, relaunch)  BY <1>1
  <2>2. flow' = flow /\ moves' = moves  BY <2>1 DEF Launches
  <2> QED BY <2>1, <2>2, LaunchesOK
<1>2. CASE \E approves \in Verdicts : LaunchFails(p, approves)
  BY <1>2, LaunchFailsOK DEF LaunchFails
<1>3. CASE \E what \in {"output", "question", "talk"} : Says(p, what)
  <2>1. PICK what \in {"output", "question", "talk"} : Says(p, what)  BY <1>3
  <2>2. flow' = flow /\ moves' = moves  BY <2>1 DEF Says
  <2> QED BY <2>1, <2>2, SaysOK
<1>4. CASE \E died \in BOOLEAN, approves \in Verdicts : TurnEnds(p, died, approves)
  BY <1>4, TurnEndsOK DEF TurnEnds
<1> QED BY <1>1, <1>2, <1>3, <1>4 DEF Turning

\* Each answer of git keeps it.
LEMMA GitReturnsOK ==
    ASSUME IInv, NEW s \in Steps, GitReturns(s)
    PROVE  flow' = flow /\ moves' = moves /\ EngineOK(rt')
<1>1. CASE RefreshReturns(s)
  <2>1. flow' = flow /\ moves' = moves  BY <1>1 DEF RefreshReturns
  <2> QED BY <1>1, <2>1, RefreshReturnsOK
<1>2. CASE \E approves \in Verdicts : DiffReturns(s, approves)
  <2>1. PICK approves \in Verdicts : DiffReturns(s, approves)  BY <1>2
  <2>2. flow' = flow /\ moves' = moves  BY <2>1 DEF DiffReturns
  <2> QED BY <2>1, <2>2, DiffReturnsOK
<1>3. CASE \E changed \in BOOLEAN : ChangedReturns(s, changed)
  <2>1. PICK changed \in BOOLEAN : ChangedReturns(s, changed)  BY <1>3
  <2>2. flow' = flow /\ moves' = moves  BY <2>1 DEF ChangedReturns
  <2> QED BY <2>1, <2>2, ChangedReturnsOK
<1> QED BY <1>1, <1>2, <1>3 DEF GitReturns

\* Every step of the run keeps the invariant.
LEMMA Inductive == IInv /\ [Next]_vars => IInv'
<1> SUFFICES ASSUME IInv, [Next]_vars PROVE IInv'  OBVIOUS
<1>1. flow \in Flows /\ moves \in 0..MaxMoves[flow]  BY DEF IInv
<1>2. CASE Moves
  BY <1>1, <1>2, MovesOK, PrimedOK DEF IInv
<1>3. CASE \E p \in Parties : Turning(p)
  BY <1>1, <1>3, TurningOK, PrimedOK DEF IInv
<1>4. CASE \E s \in Steps : GitReturns(s)
  BY <1>1, <1>4, GitReturnsOK, PrimedOK DEF IInv
<1>5. CASE \E s \in Steps : \E answered \in BOOLEAN : AnswerReturns(s, answered)
  <2>1. PICK s \in Steps, answered \in BOOLEAN : AnswerReturns(s, answered)  BY <1>5
  <2>2. flow' = flow /\ moves' = moves  BY <2>1 DEF AnswerReturns
  <2> QED BY <1>1, <2>1, <2>2, AnswerReturnsOK, PrimedOK DEF IInv
<1>6. CASE FinalizeTimesOut
  <2>1. rt \in Runtime /\ EngineOK(rt)  BY DEF IInv, EngineOK, Loose
  <2>2. rt' = Finalized(rt) /\ flow' = flow /\ moves' = moves  BY <1>6 DEF FinalizeTimesOut
  <2>3. EngineOK(rt')  BY <1>1, <2>1, <2>2, FinalizedOK
  <2> QED BY <1>1, <2>2, <2>3, PrimedOK DEF IInv
<1>7. CASE Sweep
  <2>1. flow' = flow /\ moves' = moves  BY <1>7 DEF Sweep
  <2> QED BY <1>1, <1>7, <2>1, SweepOK, PrimedOK DEF IInv
<1>8. CASE UNCHANGED vars
  <2>1. flow' = flow /\ moves' = moves /\ EngineOK(rt')  BY <1>8 DEF vars, IInv
  <2> QED BY <1>1, <2>1, PrimedOK DEF IInv
<1> QED BY <1>2, <1>3, <1>4, <1>5, <1>6, <1>7, <1>8 DEF Next

\* The invariant holds from the start of a run to its end, over restarts.
THEOREM Invariant == Spec => []IInv
BY InitOK, Inductive, PTL DEF Spec

\* Every field keeps its type, and a paused run says what it waits for.
THEOREM TypeCorrect == Spec => []TypeOK
<1>1. IInv => TypeOK  BY DEF IInv, EngineOK, Loose, RunSafe, TypeOK
<1> QED BY <1>1, Invariant, PTL

\* A run at work is one that the watchdog's sweep sees, or that waits for git or
\* a finalize turn, which end by themselves: every path through the runtime's
\* handlers leaves the one or the other behind.
THEOREM WatchdogAlways == Spec => []WatchdogArmed
<1>1. IInv => WatchdogArmed
  <2> SUFFICES ASSUME IInv, rt.run.kind = "running", ~rt.armed, rt.final = 0
               PROVE  \E w \in Waits \ {"ask"} : Waiting(rt, w)
    BY DEF WatchdogArmed, Patient
  <2>1. \E w \in Waits \ {"ask"} : rt.awaits[w][rt.run.at] > 0
    BY DEF IInv, EngineOK, Watched
  <2>2. rt.run.at \in Steps  BY DEF IInv, EngineOK, Loose, Runtime, Run
  <2> QED BY <2>1, <2>2 DEF Waiting
<1> QED BY <1>1, Invariant, PTL

\* No gate is walked past, in a flow that is spaced: a step behind a gate is at
\* work only when somebody has said go to it since the run came to it.
THEOREM GatesHold ==
    ASSUME \A f \in Flows : Spaced(f)
    PROVE  Spec => []GateHeld
<1>1. IInv => GateHeld  BY DEF IInv, EngineOK, GateOpen, OpenHere, GateHeld
<1> QED BY <1>1, Invariant, PTL

\* A run is done over settled steps only, in a flow that goes forward where git
\* is asked.
THEOREM DoneSettled ==
    ASSUME \A f \in Flows : Forward(f)
    PROVE  Spec => []DoneMeansSettled
<1>1. IInv => DoneMeansSettled
  BY DEF IInv, EngineOK, Loose, RunSafe, DoneMeansSettled
<1> QED BY <1>1, Invariant, PTL

\* A conversation that goes idle does not move a run at rest.
LEMMA IdleAtRest ==
    ASSUME NEW e, NEW p, NEW approves, e.run.kind # "running", e.final = 0
    PROVE  GoesIdle(e, p, approves) = e
BY DEF GoesIdle, Resolves, AwaitsTurn, ObserveIdle

\* What happens by itself leaves a run at rest where it is.
LEMMA RestStep ==
    IInv /\ [Next]_vars =>
        [ rt.run.kind \notin {"running", "deleted"} /\ rt.final = 0 /\ rt'.run.kind = "running"
            => moves' > moves ]_vars
<1> SUFFICES ASSUME IInv, Next, rt.run.kind # "running", rt.final = 0,
                    ~(moves' > moves)
             PROVE  rt'.run.kind # "running"
  OBVIOUS
<1>1. /\ rt \in Runtime /\ moves \in Nat /\ rt.conv \in [Parties -> Conv]
      /\ flow \in Flows
  BY BudgetAssumption DEF IInv, EngineOK, Loose, Runtime
<1>2. ~Move  BY <1>1 DEF Move
<1>3. ~Moves
  <2>1. ~ReleaseHold /\ ~(\E approves \in Verdicts : AbortRun(approves))
    BY <1>2 DEF ReleaseHold, AbortRun
  <2> QED BY <1>2, <2>1 DEF Moves, ResumeRun, DeleteRun, Override, HoldRun, RerunFromStep,
                            Chat, Restart
<1>4. ASSUME NEW p \in Parties, Turning(p) PROVE rt'.run.kind # "running"
  <2>1. CASE \E relaunch \in BOOLEAN : Launches(p, relaunch)
    BY <1>1, <2>1 DEF Launches, Runtime
  <2>2. CASE \E approves \in Verdicts : LaunchFails(p, approves)
    <3> DEFINE e == [rt EXCEPT !.conv[p].prep = Tail(@), !.conv[p].pending = FALSE]
    <3>1. e.run = rt.run /\ e.final = rt.final  BY <1>1 DEF Runtime
    <3>2. PICK approves \in Verdicts : rt' = GoesIdle(e, p, approves)
      BY <2>2 DEF LaunchFails
    <3> HIDE DEF e
    <3>3. rt' = e  BY <3>1, <3>2, IdleAtRest
    <3> QED BY <3>1, <3>3
  <2>3. CASE \E what \in {"output", "question", "talk"} : Says(p, what)
    BY <1>1, <2>3 DEF Says, Runtime
  <2>4. CASE \E died \in BOOLEAN, approves \in Verdicts : TurnEnds(p, died, approves)
    <3>1. PICK died \in BOOLEAN, approves \in Verdicts : TurnEnds(p, died, approves)
      BY <2>4
    <3> DEFINE e == [rt EXCEPT !.conv[p].queue = IF died THEN <<>> ELSE Tail(@),
                               !.conv[p].inFlight = FALSE]
    <3>2. e.run = rt.run /\ e.final = rt.final  BY <1>1 DEF Runtime
    <3>3. rt' = GoesIdle(e, p, approves)  BY <3>1 DEF TurnEnds
    <3> HIDE DEF e
    <3>4. rt' = e  BY <3>2, <3>3, IdleAtRest
    <3> QED BY <3>2, <3>4
  <2> QED BY <1>4, <2>1, <2>2, <2>3, <2>4 DEF Turning
<1>5. ASSUME NEW s \in Steps, GitReturns(s) \/ \E answered \in BOOLEAN : AnswerReturns(s, answered)
      PROVE  rt'.run.kind # "running"
  <2>1. \A w \in Waits : Return(rt, w, s).run = rt.run  BY <1>1 DEF Return, Runtime
  <2> QED BY <1>5, <2>1, WaitNames
          DEF GitReturns, RefreshReturns, DiffReturns, ChangedReturns, AnswerReturns, At
<1>6. ~FinalizeTimesOut  BY DEF FinalizeTimesOut
<1>7. Sweep => rt'.run.kind # "running"  BY <1>1 DEF Sweep, Runtime
<1> QED BY <1>3, <1>4, <1>5, <1>6, <1>7 DEF Next

\* A run at rest goes to work again only when a person moves it, whatever answer,
\* turn or timer comes late.
THEOREM AtRest == Spec => RestStays
BY RestStep, Invariant, PTL DEF Spec, RestStays
=============================================================================
