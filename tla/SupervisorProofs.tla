-------------------------- MODULE SupervisorProofs --------------------------
(***************************************************************************)
(* Proofs about Supervisor, for any services, graph of dependencies, limit *)
(* of the gate and number of calls in flight: the supervisor implements    *)
(* the specification of the gate, from which the gate's own invariants     *)
(* follow, and it never runs two processes of one service.                 *)
(***************************************************************************)
EXTENDS Supervisor, FiniteSetTheorems, TLAPS

-----------------------------------------------------------------------------
(***************************************************************************)
(* The gate: what its methods make of a good gate is a good one.           *)
(***************************************************************************)
Gates == [running : Nat, waiting : Seq(Procs), held : SUBSET Procs]

GateOK(g) ==
  /\ g \in Gates
  /\ IsFiniteSet(g.held) /\ g.running = Cardinality(g.held)
  /\ g.running <= Limit
  /\ g.waiting # <<>> => g.running = Limit
  /\ \A i \in DOMAIN g.waiting : g.waiting[i] \notin g.held
  /\ \A i, j \in DOMAIN g.waiting : g.waiting[i] = g.waiting[j] => i = j

LEMMA GateInitial == GateOK(Gate!EmptyGate)
<1>1. Cardinality({}) = 0 /\ IsFiniteSet({})
  BY FS_EmptySet
<1> QED
  BY <1>1, LimitAssumption DEF Gate!EmptyGate, GateOK, Gates

\* One more slot is out.
LEMMA GateGrants ==
  ASSUME NEW g \in Gates, NEW p \in Procs, p \notin g.held,
         IsFiniteSet(g.held), g.running = Cardinality(g.held)
  PROVE  LET h == Gate!Granted(g, p)
         IN  /\ h \in Gates /\ h.waiting = g.waiting /\ h.held = g.held \cup {p}
             /\ h.running = g.running + 1
             /\ IsFiniteSet(h.held) /\ h.running = Cardinality(h.held)
<1> DEFINE h == Gate!Granted(g, p)
<1>1. /\ h = [g EXCEPT !.running = g.running + 1, !.held = g.held \cup {p}]
      /\ g.running + 1 \in Nat /\ g.held \cup {p} \in SUBSET Procs
  BY DEF Gate!Granted, Gates
<1> HIDE DEF h
<1>3. /\ h \in Gates /\ h.waiting = g.waiting /\ h.held = g.held \cup {p}
      /\ h.running = g.running + 1
  BY <1>1 DEF Gates
<1>2. IsFiniteSet(g.held \cup {p}) /\ Cardinality(g.held \cup {p}) = Cardinality(g.held) + 1
  BY FS_AddElement
<1>4. IsFiniteSet(h.held) /\ h.running = Cardinality(h.held)
  BY <1>2, <1>3
<1> QED
  BY <1>3, <1>4 DEF h

\* acquire: a slot at once, or a place at the end of the line.
LEMMA GateAsks ==
  ASSUME NEW g, GateOK(g), NEW p \in Procs, p \notin g.held,
         \A i \in DOMAIN g.waiting : g.waiting[i] # p
  PROVE  GateOK(Gate!Asked(g, p))
<1> DEFINE h == Gate!Asked(g, p)
<1>1. CASE Gate!Full(g)
  <2>1. h = [g EXCEPT !.waiting = Append(@, p)]
    BY <1>1 DEF Gate!Asked
  <2>2. /\ h \in Gates /\ h.running = g.running /\ h.held = g.held
        /\ h.waiting = Append(g.waiting, p)
    BY <2>1 DEF GateOK, Gates
  <2>3. g.running = Limit
    BY <1>1, LimitAssumption DEF Gate!Full, GateOK, Gates
  <2>4. \A i \in DOMAIN h.waiting :
           \/ i = Len(g.waiting) + 1 /\ h.waiting[i] = p
           \/ i \in DOMAIN g.waiting /\ h.waiting[i] = g.waiting[i]
    BY <2>2 DEF GateOK, Gates
  <2> HIDE DEF h
  <2>5. \A i, j \in DOMAIN h.waiting : h.waiting[i] = h.waiting[j] => i = j
    BY <2>4 DEF GateOK
  <2>6. \A i \in DOMAIN h.waiting : h.waiting[i] \notin h.held
    BY <2>2, <2>4 DEF GateOK
  <2>7. /\ IsFiniteSet(h.held) /\ h.running = Cardinality(h.held)
        /\ h.running <= Limit /\ h.running = Limit
    BY <2>2, <2>3 DEF GateOK
  <2> QED
    BY <2>2, <2>5, <2>6, <2>7 DEF GateOK, h
<1>2. CASE ~Gate!Full(g)
  <2>1. h = Gate!Granted(g, p)
    BY <1>2 DEF Gate!Asked
  <2>2. g.waiting = <<>> /\ g.running + 1 <= Limit
    BY <1>2, LimitAssumption DEF Gate!Full, GateOK, Gates
  <2>3. /\ h \in Gates /\ h.waiting = g.waiting /\ h.held = g.held \cup {p}
        /\ h.running = g.running + 1
        /\ IsFiniteSet(h.held) /\ h.running = Cardinality(h.held)
    BY <2>1, GateGrants DEF GateOK
  <2> HIDE DEF h
  <2>4. DOMAIN h.waiting = {}
    BY <2>2, <2>3
  <2>5. h.running <= Limit
    BY <2>2, <2>3
  <2>6. GateOK(h)
    BY <2>2, <2>3, <2>4, <2>5 DEF GateOK
  <2> QED
    BY <2>6 DEF h
<1> QED
  BY <1>1, <1>2

\* The release of a slot, which may have been given back before.
LEMMA GateReleases ==
  ASSUME NEW g, GateOK(g), NEW p
  PROVE  GateOK(Gate!Released(g, p))
<1> DEFINE h == Gate!Released(g, p)
           free == [g EXCEPT !.running = @ - 1, !.held = @ \ {p}]
           next == Head(g.waiting)
           left == [free EXCEPT !.waiting = Tail(@)]
<1>1. CASE p \notin g.held
  BY <1>1 DEF Gate!Released
<1>2. CASE p \in g.held
  <2>1. /\ IsFiniteSet(g.held \ {p}) /\ Cardinality(g.held \ {p}) = g.running - 1
        /\ g.running - 1 \in Nat
    <3>1. IsFiniteSet(g.held) /\ g.running = Cardinality(g.held)
      BY DEF GateOK
    <3>2. IsFiniteSet(g.held \ {p}) /\ Cardinality(g.held \ {p}) = Cardinality(g.held) - 1
      BY <1>2, <3>1, FS_RemoveElement
    <3>3. Cardinality(g.held \ {p}) \in Nat
      BY <3>2, FS_CardinalityType
    <3> QED
      BY <3>1, <3>2, <3>3
  <2>2. /\ free \in Gates /\ free.waiting = g.waiting /\ free.held = g.held \ {p}
        /\ free.running = g.running - 1
    BY <2>1 DEF GateOK, Gates
  <2>3. CASE g.waiting = <<>>
    <3>1. h = free
      BY <1>2, <2>3 DEF Gate!Released
    <3>2. DOMAIN free.waiting = {} /\ free.running <= Limit
      BY <2>2, <2>3, LimitAssumption DEF GateOK, Gates
    <3> HIDE DEF free
    <3>3. GateOK(free)
      BY <2>1, <2>2, <2>3, <3>2 DEF GateOK
    <3> QED
      BY <3>1, <3>3
  <2>4. CASE g.waiting # <<>>
    <3>1. h = Gate!Granted(left, next)
      BY <1>2, <2>2, <2>4 DEF Gate!Released
    <3>2. /\ next \in Procs /\ next = g.waiting[1] /\ 1 \in DOMAIN g.waiting
          /\ Tail(g.waiting) \in Seq(Procs)
          /\ \A i \in DOMAIN Tail(g.waiting) :
               i \in Nat /\ i # 0 /\ i + 1 \in DOMAIN g.waiting /\ Tail(g.waiting)[i] = g.waiting[i + 1]
      BY <2>4 DEF GateOK, Gates
    <3>3. /\ left \in Gates /\ left.waiting = Tail(g.waiting)
          /\ left.held = g.held \ {p} /\ left.running = g.running - 1
      BY <2>2, <3>2 DEF Gates
    <3>4. next \notin g.held /\ g.running = Limit /\ g.running \in Nat
      BY <2>4, <3>2 DEF GateOK, Gates
    <3> HIDE DEF left, next, free, h
    <3>5. /\ h \in Gates /\ h.waiting = Tail(g.waiting)
          /\ h.held = left.held \cup {next} /\ h.running = left.running + 1
          /\ IsFiniteSet(h.held) /\ h.running = Cardinality(h.held)
      <4>1. /\ next \notin left.held /\ IsFiniteSet(left.held)
            /\ left.running = Cardinality(left.held)
        BY <2>1, <3>3, <3>4
      <4> QED
        BY <3>1, <3>2, <3>3, <4>1, GateGrants
    <3>6. \A i \in DOMAIN h.waiting : h.waiting[i] \notin h.held
      BY <3>2, <3>3, <3>5 DEF GateOK
    <3>7. \A i, j \in DOMAIN h.waiting : h.waiting[i] = h.waiting[j] => i = j
      BY <3>2, <3>5 DEF GateOK
    <3>8. h.running = Limit /\ h.running <= Limit
      BY <3>3, <3>4, <3>5, LimitAssumption
    <3>9. GateOK(h)
      BY <3>5, <3>6, <3>7, <3>8 DEF GateOK
    <3> QED
      BY <3>9 DEF h
  <2> QED
    BY <2>3, <2>4
<1> QED
  BY <1>1, <1>2

-----------------------------------------------------------------------------
(***************************************************************************)
(* The invariant: types, as far as the steps need them, the gate, and that *)
(* a process nobody told to stop is the one its service is running.        *)
(***************************************************************************)
SpecsOK == listed \subseteq Services /\ bindings \in [Services -> Refs \cup {None}]

RowsOK == adoptedAs \in [Services -> Nat] /\ adoptions \in Nat

AwaitsOK ==
  /\ finishing \in [Services -> Procs \cup {None}]
  /\ stopping \in [Services -> Procs \cup {None}]

ProcsOK ==
  /\ procs \in [Services -> Procs \cup {None}]
  /\ processes \in [Procs -> Process]
  /\ \A p \in Procs : processes[p].phase = "live"
                        => processes[p].svc \in Services /\ procs[processes[p].svc] = p

\* A start goes through its own dependencies.
GoodFrame ==
  {f \in Frame : f.at \in {"dependency", "verifyDep"} => f.todo \subseteq DOMAIN DepsOf[f.svc]}

StacksOK == stacks \in [Threads -> Seq(GoodFrame)]

Inv == SpecsOK /\ RowsOK /\ AwaitsOK /\ ProcsOK /\ StacksOK /\ GateOK(gate)

(***************************************************************************)
(* Frames and stacks.                                                      *)
(***************************************************************************)
LEMMA AtFrame ==
  ASSUME NEW place \in Places, NEW s \in Services
  PROVE  /\ At(place, s) \in GoodFrame
         /\ At(place, s).at = place /\ At(place, s).svc = s /\ At(place, s).todo = {}
BY DEF At, Frame, GoodFrame

LEMMA PutFrame ==
  ASSUME NEW f \in GoodFrame, NEW rest \in Seq(GoodFrame)
  PROVE  <<f>> \o rest \in Seq(GoodFrame)
OBVIOUS

LEMMA PutTwo ==
  ASSUME NEW f \in GoodFrame, NEW g \in GoodFrame, NEW rest \in Seq(GoodFrame)
  PROVE  <<f, g>> \o rest \in Seq(GoodFrame)
OBVIOUS

LEMMA TopFrame ==
  ASSUME StacksOK, NEW t \in Threads, Busy(t)
  PROVE  Top(t) \in GoodFrame /\ Under(t) \in Seq(GoodFrame)
BY DEF StacksOK, Busy, Top, Under

LEMMA GotoKeeps ==
  ASSUME StacksOK, NEW t \in Threads, NEW frames \in Seq(GoodFrame), Goto(t, frames)
  PROVE  StacksOK'
BY DEF StacksOK, Goto

LEMMA ReturnsKeeps ==
  ASSUME StacksOK, NEW t \in Threads, Busy(t), Returns(t)
  PROVE  StacksOK'
BY TopFrame, GotoKeeps DEF Returns

LEMMA BecomesKeeps ==
  ASSUME StacksOK, NEW t \in Threads, Busy(t), NEW f \in GoodFrame, Becomes(t, f)
  PROVE  StacksOK'
<1>1. <<f>> \o Under(t) \in Seq(GoodFrame)
  BY TopFrame, PutFrame
<1> QED
  BY <1>1, GotoKeeps DEF Becomes

LEMMA MovedFrame ==
  ASSUME NEW f \in GoodFrame
  PROVE  /\ f.svc \in Services /\ f.ref \in Refs \cup {None} /\ f.todo \in SUBSET Nat
         /\ \A place \in Places \ {"dependency", "verifyDep"} :
               /\ [f EXCEPT !.at = place] \in GoodFrame
               /\ \A p \in Procs : [f EXCEPT !.at = place, !.proc = p] \in GoodFrame
         /\ f.at \in {"dependency", "verifyDep"} => f.todo \subseteq DOMAIN DepsOf[f.svc]
BY DEF Frame, GoodFrame

LEMMA LaunchFrameType ==
  ASSUME SpecsOK, NEW s \in Services, NEW fresh \in BOOLEAN
  PROVE  LaunchFrame(s, fresh) \in GoodFrame
<1>1. \A place \in Places : At(place, s) \in GoodFrame
  BY AtFrame
<1>2. /\ At("plan", s) \in GoodFrame /\ At("claim", s) \in GoodFrame /\ bindings[s] \in Refs \cup {None}
  BY <1>1 DEF Places, SpecsOK
<1> QED
  BY <1>2 DEF LaunchFrame, Frame, GoodFrame

LEMMA StartFrameType ==
  ASSUME AwaitsOK, NEW s \in Services
  PROVE  StartFrame(s) \in GoodFrame
<1>1. At("settle", s) \in GoodFrame /\ stopping[s] \in Procs \cup {None}
  BY AtFrame DEF Places, AwaitsOK
<1> QED
  BY <1>1 DEF StartFrame, Frame, GoodFrame

\* What the pane shows matters to none of this, but for the adoptions.
LEMMA ShowKeeps ==
  ASSUME RowsOK, NEW rows, Show(rows)
  PROVE  adoptedAs' \in [Services -> Nat]
BY DEF RowsOK, Show

LEMMA CheckableType ==
  ASSUME RowsOK, NEW s \in Services
  PROVE  Checkable(s) \in Nat
BY DEF RowsOK, Checkable

(***************************************************************************)
(* stop, which takes the process from its service as it signals it.        *)
(***************************************************************************)
LEMMA SignalKeeps ==
  ASSUME ProcsOK, NEW s \in Services, procs[s] # None,
         procs' = [procs EXCEPT ![s] = None],
         processes' = [processes EXCEPT ![procs[s]].phase = "killed"]
  PROVE  ProcsOK'
<1> DEFINE p == procs[s]
<1>1. p \in Procs
  BY DEF ProcsOK
<1>2. procs' \in [Services -> Procs \cup {None}]
  BY DEF ProcsOK
<1>3. /\ processes' \in [Procs -> Process]
      /\ processes'[p].phase = "killed"
      /\ \A q \in Procs : q # p => processes'[q] = processes[q]
  BY <1>1 DEF ProcsOK, Process
<1>4. ASSUME NEW q \in Procs, processes'[q].phase = "live"
      PROVE  processes'[q].svc \in Services /\ procs'[processes'[q].svc] = q
  <2>1. q # p /\ processes'[q] = processes[q]
    BY <1>3, <1>4
  <2>2. processes[q].svc \in Services /\ procs[processes[q].svc] = q
    BY <1>4, <2>1 DEF ProcsOK
  <2>3. processes[q].svc # s
    BY <2>1, <2>2
  <2> QED
    BY <2>1, <2>2, <2>3 DEF ProcsOK
<1> QED
  BY <1>2, <1>3, <1>4 DEF ProcsOK

LEMMA StopKeeps ==
  ASSUME Inv, NEW t \in Threads, NEW s \in Services, NEW frames \in Seq(GoodFrame), NEW seen,
         StopThen(t, s, frames, seen), StopUnchanged
  PROVE  Inv'
<1> DEFINE p == procs[s]
<1>1. SpecsOK' /\ GateOK(gate)' /\ UNCHANGED <<adoptions, finishing>>
  BY DEF StopUnchanged, Inv, SpecsOK, specVars, leftVars
<1>2. CASE /\ p # None
           /\ procs' = [procs EXCEPT ![s] = None]
           /\ processes' = [processes EXCEPT ![p].phase = "killed"]
           /\ SetStatus(s, [status |-> "stopped", pid |-> FALSE, port |-> FALSE])
           /\ stopping' = [stopping EXCEPT ![s] = p]
           /\ Goto(t, <<[At("stopWait", s) EXCEPT !.proc = p]>> \o frames)
  <2>1. p \in Procs /\ ProcsOK'
    BY <1>2, SignalKeeps DEF Inv, ProcsOK
  <2>2. At("stopWait", s) \in GoodFrame
    BY AtFrame DEF Places
  <2> HIDE DEF p
  <2>6. [At("stopWait", s) EXCEPT !.proc = p] \in GoodFrame
    BY <2>1, <2>2 DEF Frame, GoodFrame
  <2> USE DEF p
  <2>3. StacksOK'
    BY <1>2, <2>6, PutFrame, GotoKeeps DEF Inv
  <2>4. RowsOK'
    BY <1>1, <1>2, ShowKeeps DEF SetStatus, Inv, RowsOK
  <2>5. AwaitsOK'
    BY <1>1, <1>2, <2>1 DEF Inv, AwaitsOK
  <2> QED
    BY <1>1, <2>1, <2>3, <2>4, <2>5 DEF Inv
<1>3. CASE /\ Goto(t, <<[At("stopVerify", s) EXCEPT !.known = Checkable(s)]>> \o frames)
           /\ UNCHANGED <<rowVars, procs, processes, stopping>>
  <2>3. At("stopVerify", s) \in GoodFrame /\ Checkable(s) \in Nat
    BY AtFrame, CheckableType DEF Places, Inv
  <2>1. [At("stopVerify", s) EXCEPT !.known = Checkable(s)] \in GoodFrame
    BY <2>3 DEF Frame, GoodFrame
  <2>2. StacksOK'
    BY <1>3, <2>1, PutFrame, GotoKeeps DEF Inv
  <2> QED
    BY <1>1, <1>3, <2>2 DEF Inv, RowsOK, AwaitsOK, ProcsOK, rowVars
<1>4. CASE /\ IF runtimes[s].waitingOn \/ runtimes[s].queued
              THEN SetStatus(s, [status |-> "stopped"]) ELSE UNCHANGED rowVars
           /\ Goto(t, frames)
           /\ UNCHANGED <<procs, processes, stopping>>
  <2>1. StacksOK'
    BY <1>4, GotoKeeps DEF Inv
  <2>2. adoptedAs' \in [Services -> Nat]
    BY <1>4, ShowKeeps DEF Inv, SetStatus, RowsOK, rowVars
  <2> QED
    BY <1>1, <1>4, <2>1, <2>2 DEF Inv, RowsOK, AwaitsOK, ProcsOK
<1> QED
  BY <1>2, <1>3, <1>4 DEF StopThen

\* A step that moves no process, no binding and no slot.
LEMMA MildKeeps ==
  ASSUME Inv, StacksOK', adoptedAs' \in [Services -> Nat], adoptions' \in Nat,
         UNCHANGED <<specVars, procVars, finishing, stopping>>
  PROVE  Inv'
BY DEF Inv, SpecsOK, RowsOK, AwaitsOK, ProcsOK, specVars, procVars

\* A step that moves only calls.
LEMMA CalmKeeps ==
  ASSUME Inv, StacksOK', UNCHANGED <<rowVars, specVars, procVars, awaitVars, leftVars>>
  PROVE  Inv'
BY MildKeeps DEF Inv, RowsOK, rowVars, awaitVars, leftVars

\* A step that moves calls and what the pane shows.
LEMMA ShownKeeps ==
  ASSUME Inv, StacksOK', NEW rows, Show(rows),
         UNCHANGED <<specVars, procVars, finishing, stopping, adoptions>>
  PROVE  Inv'
BY MildKeeps, ShowKeeps DEF Inv, RowsOK

-----------------------------------------------------------------------------
(***************************************************************************)
(* What is called from outside.                                            *)
(***************************************************************************)
LEMMA EmptyStack == <<>> \in Seq(GoodFrame)
OBVIOUS

LEMMA CallStartKeeps ==
  ASSUME Inv, NEW t \in Threads, NEW s \in Services, CallStart(t, s)
  PROVE  Inv'
<1>1. <<StartFrame(s)>> \in Seq(GoodFrame)
  BY StartFrameType DEF Inv
<1>2. StacksOK'
  BY <1>1, GotoKeeps DEF CallStart, Inv
<1> QED
  BY <1>2, CalmKeeps DEF CallStart

LEMMA CallStopKeeps ==
  ASSUME Inv, NEW t \in Threads, NEW s \in Services, CallStop(t, s)
  PROVE  Inv'
BY EmptyStack, StopKeeps DEF CallStop

LEMMA RestartKeeps ==
  ASSUME Inv, NEW t \in Threads, NEW s \in Services, NEW frames \in Seq(GoodFrame), NEW seen,
         RestartThen(t, s, frames, seen), StopUnchanged
  PROVE  Inv'
<1>1. At("relaunch", s) \in GoodFrame
  BY AtFrame DEF Places
<1>2. <<At("relaunch", s)>> \o frames \in Seq(GoodFrame)
  BY <1>1, PutFrame
<1> QED
  BY <1>2, StopKeeps DEF RestartThen

LEMMA CallRestartKeeps ==
  ASSUME Inv, NEW t \in Threads, NEW s \in Services, CallRestart(t, s)
  PROVE  Inv'
BY EmptyStack, RestartKeeps DEF CallRestart

LEMMA CallRebindKeeps ==
  ASSUME Inv, NEW t \in Threads, NEW s \in Services, CallRebind(t, s)
  PROVE  Inv'
<1> DEFINE frame(ref) == [At("rebound", s) EXCEPT !.ref = ref, !.flag = procs[s] # None]
<1>1. PICK ref \in Refs : StopThen(t, s, <<frame(ref)>>, watch) /\ StopUnchanged
  BY DEF CallRebind
<1>2. At("rebound", s) \in GoodFrame
  BY AtFrame DEF Places
<1>3. frame(ref) \in GoodFrame
  BY <1>2 DEF Frame, GoodFrame
<1>4. <<frame(ref)>> \in Seq(GoodFrame)
  BY <1>3
<1> QED
  BY <1>1, <1>4, StopKeeps

LEMMA CallEditKeeps ==
  ASSUME Inv, NEW t \in Threads, NEW s \in Services, CallEdit(t, s)
  PROVE  Inv'
<1>1. UNCHANGED <<runtimes, adoptedAs, adoptions, bindings, procs, processes, gate, finishing,
                  stopping, stacks>> /\ listed' \subseteq Services
  BY DEF CallEdit, Inv, SpecsOK, rowVars, procVars, awaitVars, leftVars
<1> QED
  BY <1>1 DEF Inv, SpecsOK, RowsOK, AwaitsOK, ProcsOK, StacksOK

LEMMA CallRemoveKeeps ==
  ASSUME Inv, NEW t \in Threads, NEW s \in Services, CallRemove(t, s)
  PROVE  Inv'
<1> DEFINE p == procs[s]
<1>1. SpecsOK' /\ GateOK(gate)' /\ UNCHANGED <<adoptions, finishing>>
  BY DEF CallRemove, Inv, SpecsOK, leftVars
<1>2. RowsOK'
  BY <1>1, ShowKeeps DEF CallRemove, Inv, RowsOK
<1>3. CASE p = None
  <2>1. UNCHANGED <<procs, processes, stopping, stacks>>
    BY <1>3 DEF CallRemove
  <2> QED
    BY <1>1, <1>2, <2>1 DEF Inv, AwaitsOK, ProcsOK, StacksOK
<1>4. CASE p # None
  <2>1. /\ procs' = [procs EXCEPT ![s] = None]
        /\ processes' = [processes EXCEPT ![p].phase = "killed"]
        /\ stopping' = [stopping EXCEPT ![s] = p]
        /\ Goto(t, <<[At("stopWait", s) EXCEPT !.proc = p]>>)
    BY <1>4 DEF CallRemove
  <2>2. p \in Procs /\ ProcsOK'
    BY <1>4, <2>1, SignalKeeps DEF Inv, ProcsOK
  <2>3. At("stopWait", s) \in GoodFrame
    BY AtFrame DEF Places
  <2>4. AwaitsOK'
    BY <1>1, <2>1, <2>2 DEF Inv, AwaitsOK
  <2> HIDE DEF p
  <2>5. [At("stopWait", s) EXCEPT !.proc = p] \in GoodFrame
    BY <2>2, <2>3 DEF Frame, GoodFrame
  <2>6. <<[At("stopWait", s) EXCEPT !.proc = p]>> \in Seq(GoodFrame)
    BY <2>5
  <2>7. StacksOK'
    BY <2>1, <2>6, GotoKeeps DEF Inv
  <2> QED
    BY <1>1, <1>2, <2>2, <2>4, <2>7 DEF Inv
<1> QED
  BY <1>3, <1>4

LEMMA FileChangedKeeps ==
  ASSUME Inv, NEW s \in Services, FileChanged(s)
  PROVE  Inv'
BY CalmKeeps DEF FileChanged, Inv, StacksOK

LEMMA ChangeDueKeeps ==
  ASSUME Inv, NEW t \in Threads, NEW s \in Services, ChangeDue(t, s)
  PROVE  Inv'
<1> DEFINE fired == [watch EXCEPT ![s].timer = FALSE]
<1>1. StopUnchanged
  BY DEF ChangeDue
<1>2. CASE RestartThen(t, s, <<At("changed", s)>>, [fired EXCEPT ![s].restarting = TRUE])
  <2>1. At("changed", s) \in GoodFrame
    BY AtFrame DEF Places
  <2>2. <<At("changed", s)>> \in Seq(GoodFrame)
    BY <2>1
  <2> QED
    BY <1>1, <1>2, <2>2, RestartKeeps
<1>3. CASE UNCHANGED <<rowVars, procs, processes, stopping, stacks>>
  BY <1>1, <1>3 DEF StopUnchanged, Inv, SpecsOK, RowsOK, AwaitsOK, ProcsOK, StacksOK,
                    rowVars, specVars, leftVars
<1> QED
  BY <1>2, <1>3 DEF ChangeDue

-----------------------------------------------------------------------------
(***************************************************************************)
(* start.                                                                  *)
(***************************************************************************)
LEMMA WaitForKeeps ==
  ASSUME Inv, NEW t \in Threads, Busy(t), NEW s \in Services, NEW todo \in SUBSET DOMAIN DepsOf[s], NEW rows,
         WaitFor(t, s, todo, rows)
  PROVE  StacksOK' /\ adoptedAs' \in [Services -> Nat]
<1>1. PICK i \in todo :
        LET d == DepsOf[s][i]
        IN  Goto(t, (IF d \in listed THEN <<StartFrame(d)>> ELSE <<>>)
                    \o <<[At("dependency", s) EXCEPT !.todo = todo, !.flag = d \in Tasks \cap listed]>>
                    \o Under(t))
  BY DEF WaitFor
<1> DEFINE d == DepsOf[s][i]
           waits == [At("dependency", s) EXCEPT !.todo = todo, !.flag = d \in Tasks \cap listed]
           begun == IF d \in listed THEN <<StartFrame(d)>> ELSE <<>>
<1>2. At("dependency", s) \in GoodFrame /\ At("dependency", s).svc = s /\ todo \in SUBSET Nat
  BY AtFrame, KindAssumption DEF Places
<1>3. waits \in GoodFrame
  <2> HIDE DEF d
  <2>2. At("dependency", s) \in Frame
    BY <1>2 DEF GoodFrame
  <2>5. todo \in SUBSET Nat /\ (d \in Tasks \cap listed) \in BOOLEAN
    BY <1>2
  <2>3. waits \in Frame
    BY <2>2, <2>5 DEF Frame
  <2>4. waits.svc = s /\ waits.todo = todo
    BY <1>2, <2>2 DEF Frame
  <2>1. waits \in Frame /\ waits.svc = s /\ waits.todo = todo
    BY <2>3, <2>4
  <2> HIDE DEF waits
  <2> QED
    BY <2>1 DEF GoodFrame
<1>4. d \in listed => StartFrame(d) \in GoodFrame
  <2> HIDE DEF d
  <2> QED
    BY StartFrameType DEF Inv, SpecsOK
<1>5. begun \in Seq(GoodFrame)
  <2> HIDE DEF d
  <2> QED
    BY <1>4
<1>6. <<waits>> \in Seq(GoodFrame) /\ Under(t) \in Seq(GoodFrame)
  BY <1>3, TopFrame DEF Inv
<1>7. Goto(t, begun \o <<waits>> \o Under(t))
  BY <1>1
<1> HIDE DEF begun, waits
<1>8. begun \o <<waits>> \o Under(t) \in Seq(GoodFrame)
  BY <1>5, <1>6
<1>9. StacksOK'
  BY <1>7, <1>8, GotoKeeps DEF Inv
<1> QED
  BY <1>9, ShowKeeps DEF WaitFor, Inv, RowsOK

LEMMA StartOnKeeps ==
  ASSUME Inv, NEW t \in Threads, Busy(t), NEW s \in Services, NEW todo \in SUBSET DOMAIN DepsOf[s], NEW rows,
         StartOn(t, s, todo, rows)
  PROVE  StacksOK' /\ adoptedAs' \in [Services -> Nat]
<1>1. CASE Show(rows) /\ Becomes(t, LaunchFrame(s, FALSE))
  <2>1. LaunchFrame(s, FALSE) \in GoodFrame
    BY LaunchFrameType DEF Inv
  <2> QED
    BY <1>1, <2>1, BecomesKeeps, ShowKeeps DEF Inv
<1>2. ASSUME NEW i \in todo, Show(rows),
             Becomes(t, [At("verifyDep", s) EXCEPT !.todo = {j \in todo : j >= i},
                                                   !.known = Checkable(DepsOf[s][i])])
      PROVE  StacksOK' /\ adoptedAs' \in [Services -> Nat]
  <2>1. At("verifyDep", s) \in GoodFrame /\ {j \in todo : j >= i} \in SUBSET Nat
        /\ At("verifyDep", s).svc = s
    BY AtFrame, KindAssumption DEF Places
  <2>2. Checkable(DepsOf[s][i]) \in Nat
    <3>1. DepsOf[s][i] \in Services
      BY KindAssumption
    <3> QED
      BY <3>1, CheckableType DEF Inv
  <2>3. [At("verifyDep", s) EXCEPT !.todo = {j \in todo : j >= i},
                                   !.known = Checkable(DepsOf[s][i])] \in GoodFrame
    BY <2>1, <2>2 DEF Frame, GoodFrame
  <2> QED
    BY <1>2, <2>3, BecomesKeeps, ShowKeeps DEF Inv
<1>3. ASSUME NEW i \in todo, WaitFor(t, s, {j \in todo : j >= i}, rows)
      PROVE  StacksOK' /\ adoptedAs' \in [Services -> Nat]
  <2>1. {j \in todo : j >= i} \in SUBSET DOMAIN DepsOf[s]
    OBVIOUS
  <2> QED
    BY <1>3, <2>1, WaitForKeeps
<1> QED
  BY <1>1, <1>2, <1>3 DEF StartOn

LEMMA SettleKeeps ==
  ASSUME Inv, NEW t \in Threads, Settle(t)
  PROVE  Inv'
<1> DEFINE s == Top(t).svc
<1>1. /\ Busy(t) /\ Top(t) \in GoodFrame /\ s \in Services
      /\ UNCHANGED <<specVars, procVars, finishing, stopping, adoptions>>
  BY TopFrame, MovedFrame DEF Settle, Waits, Inv, awaitVars, leftVars
<1>2. CASE Returns(t) /\ UNCHANGED rowVars
  BY <1>1, <1>2, ReturnsKeeps, MildKeeps DEF Inv, RowsOK, rowVars
<1>3. CASE /\ Becomes(t, [At("finishing", s) EXCEPT !.proc = finishing[s]])
           /\ UNCHANGED rowVars
  <2>1. At("finishing", s) \in GoodFrame /\ finishing[s] \in Procs \cup {None}
    BY <1>1, AtFrame DEF Places, Inv, AwaitsOK
  <2>2. [At("finishing", s) EXCEPT !.proc = finishing[s]] \in GoodFrame
    BY <2>1 DEF Frame, GoodFrame
  <2>3. StacksOK'
    BY <1>1, <1>3, <2>2, BecomesKeeps DEF Inv
  <2> QED
    BY <1>1, <1>3, <2>3, MildKeeps DEF Inv, RowsOK, rowVars
<1>4. CASE StartOn(t, s, ListedOf(DepsOf[s]), runtimes)
  <2>1. ListedOf(DepsOf[s]) \in SUBSET DOMAIN DepsOf[s]
    BY DEF ListedOf
  <2>2. StacksOK' /\ adoptedAs' \in [Services -> Nat]
    BY <1>1, <1>4, <2>1, StartOnKeeps
  <2> QED
    BY <1>1, <2>2, MildKeeps DEF Inv, RowsOK
<1> QED
  BY <1>2, <1>3, <1>4 DEF Settle

LEMMA VerifyDepKeeps ==
  ASSUME Inv, NEW t \in Threads, VerifyDep(t)
  PROVE  Inv'
<1> DEFINE s == Top(t).svc
           todo == Top(t).todo
<1>1. /\ Busy(t) /\ s \in Services /\ todo \in SUBSET DOMAIN DepsOf[s]
      /\ UNCHANGED <<specVars, procVars, finishing, stopping, adoptions>>
  BY TopFrame, MovedFrame DEF VerifyDep, Awaited, Waits, Inv, awaitVars, leftVars
<1>i. PICK i \in todo : \E rows : StartOn(t, s, todo \ {i}, rows) \/ WaitFor(t, s, todo, rows)
  BY DEF VerifyDep
<1>2. PICK rows : StartOn(t, s, todo \ {i}, rows) \/ WaitFor(t, s, todo, rows)
  BY <1>i
<1>3. todo \ {i} \in SUBSET DOMAIN DepsOf[s]
  BY <1>1
<1> HIDE DEF s, todo
<1>4. StacksOK' /\ adoptedAs' \in [Services -> Nat]
  BY <1>1, <1>2, <1>3, StartOnKeeps, WaitForKeeps
<1> QED
  BY <1>1, <1>4, MildKeeps DEF Inv, RowsOK

LEMMA DependencyBackKeeps ==
  ASSUME Inv, NEW t \in Threads, DependencyBack(t)
  PROVE  Inv'
<1> DEFINE s == Top(t).svc
           todo == Top(t).todo
<1>1. /\ Busy(t) /\ s \in Services /\ todo \in SUBSET DOMAIN DepsOf[s]
      /\ UNCHANGED <<specVars, procVars, finishing, stopping, adoptions>>
  BY TopFrame, MovedFrame DEF DependencyBack, Waits, Inv, awaitVars, leftVars
<1>2. CASE Returns(t) /\ UNCHANGED rowVars
  BY <1>1, <1>2, ReturnsKeeps, MildKeeps DEF Inv, RowsOK, rowVars
<1>3. CASE SetStatus(s, Failed) /\ Returns(t)
  BY <1>1, <1>3, ReturnsKeeps, ShownKeeps DEF Inv, SetStatus
<1>4. ASSUME NEW i \in todo, StartOn(t, s, todo \ {i}, runtimes)
      PROVE  Inv'
  <2>1. todo \ {i} \in SUBSET DOMAIN DepsOf[s]
    BY <1>1
  <2> HIDE DEF s, todo
  <2>2. StacksOK' /\ adoptedAs' \in [Services -> Nat]
    BY <1>1, <1>4, <2>1, StartOnKeeps
  <2> QED
    BY <1>1, <2>2, MildKeeps DEF Inv, RowsOK
<1> QED
  BY <1>2, <1>3, <1>4 DEF DependencyBack

LEMMA RunEndedKeeps ==
  ASSUME Inv, NEW t \in Threads, RunEnded(t)
  PROVE  Inv'
BY ReturnsKeeps, CalmKeeps DEF RunEnded, Waits, Inv

-----------------------------------------------------------------------------
(***************************************************************************)
(* launch.                                                                 *)
(***************************************************************************)
\* What the step of a waiting call has at hand.
LEMMA Waiting ==
  ASSUME Inv, NEW t \in Threads, NEW place \in Places, Waits(t, place)
  PROVE  /\ Busy(t) /\ Top(t) \in GoodFrame /\ Top(t).svc \in Services
         /\ Top(t).ref \in Refs \cup {None} /\ Top(t).at = place
         /\ Under(t) \in Seq(GoodFrame)
BY TopFrame, MovedFrame DEF Waits, Inv

\* The call goes on to another of launch's awaits.
LEMMA MovesOn ==
  ASSUME Inv, NEW t \in Threads, Busy(t), NEW place \in Places \ {"dependency", "verifyDep"},
         \/ Becomes(t, [Top(t) EXCEPT !.at = place])
         \/ \E p \in Procs : Becomes(t, [Top(t) EXCEPT !.at = place, !.proc = p])
         \/ Returns(t)
  PROVE  StacksOK'
<1>1. Top(t) \in GoodFrame
  BY TopFrame DEF Inv
<1>2. /\ [Top(t) EXCEPT !.at = place] \in GoodFrame
      /\ \A p \in Procs : [Top(t) EXCEPT !.at = place, !.proc = p] \in GoodFrame
  BY <1>1, MovedFrame
<1> QED
  BY <1>2, BecomesKeeps, ReturnsKeeps DEF Inv

LEMMA ClaimKeeps ==
  ASSUME Inv, NEW t \in Threads, Claim(t)
  PROVE  Inv'
<1>1. Busy(t) /\ UNCHANGED <<specVars, procVars, finishing, stopping>>
  BY DEF Claim, Awaited, Waits, awaitVars
<1>2. StacksOK'
  <2>1. "plan" \in Places \ {"dependency", "verifyDep"}
    BY DEF Places
  <2>2. Becomes(t, [Top(t) EXCEPT !.at = "plan"]) \/ Returns(t)
    BY DEF Claim
  <2> QED
    BY <1>1, <2>1, <2>2, MovesOn
<1>3. adoptedAs' \in [Services -> Nat] /\ adoptions' \in Nat
  BY DEF Claim, Adopts, Inv, RowsOK, rowVars
<1> QED
  BY <1>1, <1>2, <1>3, MildKeeps

LEMMA PlanKeeps ==
  ASSUME Inv, NEW t \in Threads, Plan(t)
  PROVE  Inv'
<1>1. Busy(t) /\ UNCHANGED <<specVars, procVars, finishing, stopping, adoptions>>
  BY DEF Plan, Awaited, Waits, awaitVars, leftVars
<1>2. StacksOK'
  <2>1. "mirror" \in Places \ {"dependency", "verifyDep"}
    BY DEF Places
  <2>2. Becomes(t, [Top(t) EXCEPT !.at = "mirror"]) \/ Returns(t)
    BY DEF Plan
  <2> QED
    BY <1>1, <2>1, <2>2, MovesOn
<1>3. PICK rows : Show(rows)
  BY DEF Plan, SetStatus
<1> QED
  BY <1>1, <1>2, <1>3, ShownKeeps

LEMMA MirrorKeeps ==
  ASSUME Inv, NEW t \in Threads, Mirror(t)
  PROVE  Inv'
<1>1. Busy(t) /\ UNCHANGED <<rowVars, specVars, procVars, awaitVars, leftVars>>
  BY DEF Mirror, Awaited, Waits
<1>2. StacksOK'
  <2>1. "env" \in Places \ {"dependency", "verifyDep"}
    BY DEF Places
  <2>2. Becomes(t, [Top(t) EXCEPT !.at = "env"]) \/ Returns(t)
    BY DEF Mirror
  <2> QED
    BY <1>1, <2>1, <2>2, MovesOn
<1> QED
  BY <1>1, <1>2, CalmKeeps

\* The service had no process, so the new one is the only one of it.
LEMMA SpawnKeeps ==
  ASSUME Inv, NEW t \in Threads, NEW p \in Procs, NEW rows,
         Busy(t), procs[Top(t).svc] = None, Spawn(t, Top(t).svc, p, rows)
  PROVE  StacksOK' /\ ProcsOK' /\ adoptedAs' \in [Services -> Nat]
         /\ finishing' \in [Services -> Procs \cup {None}]
<1> DEFINE s == Top(t).svc
<1>1. Top(t) \in GoodFrame /\ s \in Services /\ Top(t).ref \in Refs \cup {None}
  BY TopFrame, MovedFrame DEF Inv
<1> DEFINE new == [NoProcess EXCEPT !.phase = "live", !.svc = s, !.ref = Top(t).ref]
<1>2. procs' = [procs EXCEPT ![s] = p] /\ processes' = [processes EXCEPT ![p] = new]
  BY DEF Spawn
<1>3. new \in Process /\ new.svc = s
  BY <1>1 DEF NoProcess, Process
<1>4. StacksOK'
  BY MovesOn DEF Spawn, Places
<1>5. adoptedAs' \in [Services -> Nat] /\ finishing' \in [Services -> Procs \cup {None}]
  BY <1>1, ShowKeeps DEF Spawn, Inv, RowsOK, AwaitsOK
<1> HIDE DEF new
<1>6. /\ procs' \in [Services -> Procs \cup {None}] /\ processes' \in [Procs -> Process]
      /\ processes'[p] = new /\ procs'[s] = p
      /\ \A q \in Procs : q # p => processes'[q] = processes[q]
      /\ \A r \in Services : r # s => procs'[r] = procs[r]
  BY <1>1, <1>2, <1>3 DEF Inv, ProcsOK
<1>7. ASSUME NEW q \in Procs, processes'[q].phase = "live"
      PROVE  processes'[q].svc \in Services /\ procs'[processes'[q].svc] = q
  <2>1. CASE q = p
    BY <1>1, <1>3, <1>6, <2>1
  <2>2. CASE q # p
    <3>1. processes[q].svc \in Services /\ procs[processes[q].svc] = q
      BY <1>6, <1>7, <2>2 DEF Inv, ProcsOK
    <3>2. processes[q].svc # s
      BY <3>1, NoneAssumption
    <3> QED
      BY <1>6, <2>2, <3>1, <3>2
  <2> QED
    BY <2>1, <2>2
<1> QED
  BY <1>4, <1>5, <1>6, <1>7 DEF ProcsOK

LEMMA EnvKeeps ==
  ASSUME Inv, NEW t \in Threads, Env(t)
  PROVE  Inv'
<1> DEFINE s == Top(t).svc
<1>1. Busy(t) /\ UNCHANGED <<specVars, stopping, adoptions>>
  BY DEF Env, Awaited, Waits, leftVars
<1>2. CASE Returns(t) /\ UNCHANGED <<rowVars, procVars, finishing>>
  <2>1. StacksOK'
    BY <1>1, <1>2, ReturnsKeeps DEF Inv
  <2> QED
    BY <1>1, <1>2, <2>1, MildKeeps DEF Inv, RowsOK, rowVars
<1>3. CASE SetStatus(s, Failed) /\ Returns(t) /\ UNCHANGED <<procVars, finishing>>
  <2>1. StacksOK'
    BY <1>1, <1>3, ReturnsKeeps DEF Inv
  <2> QED
    BY <1>1, <1>3, <2>1, ShownKeeps DEF SetStatus
<1>4. ASSUME StillOurs(runtimes, s), Unused # {}, Spawn(t, s, NewProc, runtimes), UNCHANGED gate
      PROVE  Inv'
  <2>1. NewProc \in Procs /\ procs[s] = None
    BY <1>4 DEF NewProc, Unused, StillOurs
  <2> HIDE DEF s
  <2>2. /\ StacksOK' /\ ProcsOK' /\ adoptedAs' \in [Services -> Nat]
        /\ finishing' \in [Services -> Procs \cup {None}]
    BY <1>1, <1>4, <2>1, SpawnKeeps DEF s
  <2> QED
    BY <1>1, <1>4, <2>2 DEF Inv, SpecsOK, RowsOK, AwaitsOK, specVars
<1>5. ASSUME Unused # {}, AsksForTurn(NewProc),
             Becomes(t, [Top(t) EXCEPT !.at = "gate", !.proc = NewProc]),
             IF Gate!Full(gate) THEN SetStatus(s, [queued |-> TRUE]) ELSE UNCHANGED rowVars,
             UNCHANGED <<procs, processes, finishing>>
      PROVE  Inv'
  <2>1. NewProc \in Unused
    BY <1>5 DEF NewProc
  <2>2. /\ NewProc \in Procs /\ NewProc \notin gate.held
        /\ \A i \in DOMAIN gate.waiting : gate.waiting[i] # NewProc
    BY <2>1 DEF Unused, Gate!Queued
  <2>3. GateOK(gate)'
    BY <1>5, <2>2, GateAsks DEF AsksForTurn, Inv
  <2>4. StacksOK'
    BY <1>1, <1>5, <2>2, MovesOn DEF Places
  <2>5. adoptedAs' \in [Services -> Nat]
    BY <1>5, ShowKeeps DEF SetStatus, Inv, RowsOK, rowVars
  <2> QED
    BY <1>1, <1>5, <2>3, <2>4, <2>5 DEF Inv, SpecsOK, RowsOK, AwaitsOK, ProcsOK, specVars
<1> QED
  BY <1>2, <1>3, <1>4, <1>5 DEF Env

LEMMA TurnKeeps ==
  ASSUME Inv, NEW t \in Threads, Turn(t)
  PROVE  Inv'
<1> DEFINE s == Top(t).svc
           p == Top(t).proc
           rows == TurnCame(s)
<1>1. /\ Busy(t) /\ p \in gate.held /\ p \in Procs
      /\ UNCHANGED <<specVars, stopping, adoptions>>
  BY DEF Turn, Waits, leftVars, Inv, GateOK, Gates
<1>2. CASE StillOurs(rows, s) /\ Spawn(t, s, p, rows) /\ UNCHANGED gate
  <2>1. procs[s] = None
    BY <1>2 DEF StillOurs
  <2> HIDE DEF p, rows
  <2>2. /\ StacksOK' /\ ProcsOK' /\ adoptedAs' \in [Services -> Nat]
        /\ finishing' \in [Services -> Procs \cup {None}]
    BY <1>1, <1>2, <2>1, SpawnKeeps
  <2> QED
    BY <1>1, <1>2, <2>2 DEF Inv, SpecsOK, RowsOK, AwaitsOK, specVars
<1>3. CASE GivesBack(p) /\ Show(rows) /\ Returns(t) /\ UNCHANGED <<procs, processes, finishing>>
  <2>1. GateOK(gate)'
    BY <1>3, GateReleases DEF GivesBack, Inv
  <2>2. StacksOK'
    BY <1>1, <1>3, ReturnsKeeps DEF Inv
  <2>3. adoptedAs' \in [Services -> Nat]
    BY <1>3, ShowKeeps DEF Inv
  <2> QED
    BY <1>1, <1>3, <2>1, <2>2, <2>3 DEF Inv, SpecsOK, RowsOK, AwaitsOK, ProcsOK, specVars
<1> QED
  BY <1>2, <1>3 DEF Turn

\* A launch that throws leaves at most one frame of its call.
LEMMA SpawnThrowsKeeps ==
  ASSUME Inv, NEW t \in Threads, SpawnThrows(t)
  PROVE  Inv'
<1> DEFINE outermost == stacks[t][Len(stacks[t])]
           left == IF outermost.at = "changed" THEN <<outermost>> ELSE <<>>
<1>1. outermost \in GoodFrame
  BY DEF SpawnThrows, Busy, Inv, StacksOK
<1>2. left \in Seq(GoodFrame)
  BY <1>1
<1>3. StacksOK'
  BY <1>2, GotoKeeps DEF SpawnThrows, Rejects, Inv
<1>4. PICK rows : Show(rows)
  BY DEF SpawnThrows
<1>5. UNCHANGED <<specVars, procVars, finishing, stopping, adoptions>>
  BY DEF SpawnThrows, awaitVars, leftVars
<1> QED
  BY <1>3, <1>4, <1>5, ShownKeeps

LEMMA BootDiedKeeps ==
  ASSUME Inv, NEW t \in Threads, BootDied(t)
  PROVE  Inv'
<1>1. StacksOK'
  BY ReturnsKeeps DEF BootDied, Awaited, Waits, Inv
<1>2. GateOK(gate)'
  BY GateReleases DEF BootDied, GivesBack, Inv
<1>3. UNCHANGED <<rowVars, specVars, procs, processes, awaitVars, leftVars>>
  BY DEF BootDied
<1> QED
  BY <1>1, <1>2, <1>3 DEF Inv, SpecsOK, RowsOK, AwaitsOK, ProcsOK,
                          rowVars, specVars, awaitVars, leftVars

LEMMA ProbeKeeps ==
  ASSUME Inv, NEW t \in Threads, Probe(t)
  PROVE  Inv'
<1>1. Busy(t) /\ UNCHANGED <<rowVars, specVars, procVars, awaitVars, leftVars>>
  BY DEF Probe, Awaited, Waits
<1>2. StacksOK'
  BY <1>1, MovesOn DEF Probe, Places
<1> QED
  BY <1>1, <1>2, CalmKeeps

\* A process told of itself: nothing it says changes whose it is.
LEMMA LateKeeps ==
  ASSUME ProcsOK, UNCHANGED procs, NEW p, NEW late \in BOOLEAN,
         processes' = [processes EXCEPT ![p].late = late]
  PROVE  ProcsOK'
<1>1. CASE p \in Procs
  <2>1. /\ processes' \in [Procs -> Process]
        /\ \A q \in Procs : processes'[q].phase = processes[q].phase /\ processes'[q].svc = processes[q].svc
    BY <1>1 DEF ProcsOK, Process
  <2> QED
    BY <2>1 DEF ProcsOK
<1>2. CASE p \notin Procs
  BY <1>2 DEF ProcsOK
<1> QED
  BY <1>1, <1>2

LEMMA ProbedKeeps ==
  ASSUME Inv, NEW t \in Threads, Probed(t)
  PROVE  Inv'
<1>1. StacksOK'
  BY ReturnsKeeps DEF Probed, Awaited, Waits, Inv
<1>2. GateOK(gate)'
  BY GateReleases DEF Probed, GivesBack, Inv
<1>3. UNCHANGED <<specVars, procs, awaitVars, leftVars>>
  BY DEF Probed
<1>4. ProcsOK'
  BY <1>3, LateKeeps DEF Probed, Inv, ProcsOK
<1>5. adoptedAs' \in [Services -> Nat]
  BY ShowKeeps DEF Probed, SetStatus, Inv
<1> QED
  BY <1>1, <1>2, <1>3, <1>4, <1>5 DEF Inv, SpecsOK, RowsOK, AwaitsOK,
                                      specVars, awaitVars, leftVars

LEMMA TaskEndedKeeps ==
  ASSUME Inv, NEW t \in Threads, TaskEnded(t)
  PROVE  Inv'
<1>1. StacksOK'
  BY ReturnsKeeps DEF TaskEnded, Waits, Inv
<1>2. finishing' \in [Services -> Procs \cup {None}]
  BY DEF TaskEnded, Inv, AwaitsOK
<1>3. UNCHANGED <<rowVars, specVars, procVars, stopping, leftVars>>
  BY DEF TaskEnded
<1> QED
  BY <1>1, <1>2, <1>3 DEF Inv, SpecsOK, RowsOK, AwaitsOK, ProcsOK,
                          rowVars, specVars, procVars, leftVars

-----------------------------------------------------------------------------
(***************************************************************************)
(* The processes.                                                          *)
(***************************************************************************)
LEMMA ExitKeeps ==
  ASSUME Inv, NEW p \in Procs, Exit(p)
  PROVE  Inv'
<1> DEFINE s == processes[p].svc
<1>1. /\ GateOK(gate)' /\ UNCHANGED <<specVars, awaitVars, adoptions, stacks>>
      /\ processes' = [processes EXCEPT ![p] = NoProcess]
  BY GateReleases DEF Exit, GivesBack, Inv, leftVars
<1>2. NoProcess \in Process /\ NoProcess.phase = "none"
  BY DEF NoProcess, Process
<1>3. /\ processes' \in [Procs -> Process] /\ processes'[p].phase = "none"
      /\ \A q \in Procs : q # p => processes'[q] = processes[q]
  <2> HIDE DEF NoProcess
  <2> QED
    BY <1>1, <1>2 DEF Inv, ProcsOK
<1>4. CASE procs[s] # p
  <2>1. UNCHANGED <<rowVars, procs>>
    BY <1>4 DEF Exit
  <2>2. ProcsOK'
    BY <1>3, <2>1 DEF Inv, ProcsOK
  <2> QED
    BY <1>1, <2>1, <2>2 DEF Inv, SpecsOK, RowsOK, AwaitsOK, StacksOK, rowVars, specVars, awaitVars
<1>5. CASE procs[s] = p
  <2>1. procs' = [procs EXCEPT ![s] = None]
    BY <1>5 DEF Exit
  <2>2. PICK rows : Show(rows)
    BY <1>5 DEF Exit, SetStatus
  <2>3. RowsOK'
    BY <1>1, <2>2, ShowKeeps DEF Inv, RowsOK
  <2>4. ASSUME NEW q \in Procs, processes'[q].phase = "live"
        PROVE  processes'[q].svc \in Services /\ procs'[processes'[q].svc] = q
    <3>1. q # p /\ processes'[q] = processes[q]
      BY <1>3, <2>4
    <3>2. processes[q].svc \in Services /\ procs[processes[q].svc] = q
      BY <2>4, <3>1 DEF Inv, ProcsOK
    <3>3. processes[q].svc # s
      BY <1>5, <3>1, <3>2
    <3> QED
      BY <2>1, <3>1, <3>2, <3>3 DEF Inv, ProcsOK
  <2>5. procs' \in [Services -> Procs \cup {None}]
    BY <2>1 DEF Inv, ProcsOK
  <2>6. ProcsOK'
    BY <1>3, <2>4, <2>5 DEF ProcsOK
  <2> QED
    BY <1>1, <2>3, <2>6 DEF Inv, SpecsOK, AwaitsOK, StacksOK, specVars, awaitVars
<1> QED
  BY <1>4, <1>5

LEMMA LateAnswerKeeps ==
  ASSUME Inv, NEW p \in Procs, LateAnswer(p)
  PROVE  Inv'
<1>1. UNCHANGED <<specVars, procs, gate, awaitVars, leftVars, stacks>>
  BY DEF LateAnswer
<1>2. ProcsOK'
  BY LateKeeps DEF LateAnswer, Inv
<1>3. adoptedAs' \in [Services -> Nat]
  <2>1. UNCHANGED rowVars \/ \E rows : Show(rows)
    BY DEF LateAnswer, SetStatus
  <2> QED
    BY <2>1, ShowKeeps DEF Inv, RowsOK, rowVars
<1> QED
  BY <1>1, <1>2, <1>3 DEF Inv, SpecsOK, RowsOK, AwaitsOK, StacksOK,
                          specVars, awaitVars, leftVars

-----------------------------------------------------------------------------
(***************************************************************************)
(* stop, restart and rebind, after their awaits.                           *)
(***************************************************************************)
LEMMA StopWaitedKeeps ==
  ASSUME Inv, NEW t \in Threads, StopWaited(t)
  PROVE  Inv'
<1>1. StacksOK'
  BY ReturnsKeeps DEF StopWaited, Awaited, Waits, Inv
<1>2. stopping' \in [Services -> Procs \cup {None}]
  BY DEF StopWaited, Inv, AwaitsOK
<1>3. UNCHANGED <<rowVars, specVars, procVars, finishing, leftVars>>
  BY DEF StopWaited
<1> QED
  BY <1>1, <1>2, <1>3 DEF Inv, SpecsOK, RowsOK, AwaitsOK, ProcsOK,
                          rowVars, specVars, procVars, leftVars

LEMMA StopVerifiedKeeps ==
  ASSUME Inv, NEW t \in Threads, StopVerified(t)
  PROVE  Inv'
<1>1. Busy(t) /\ UNCHANGED <<specVars, procVars, finishing, stopping, adoptions>>
  BY DEF StopVerified, Awaited, Waits, awaitVars
<1>2. StacksOK'
  <2>1. "stopLeftover" \in Places \ {"dependency", "verifyDep"}
    BY DEF Places
  <2>2. Becomes(t, [Top(t) EXCEPT !.at = "stopLeftover"]) \/ Returns(t)
    BY DEF StopVerified
  <2> QED
    BY <1>1, <2>1, <2>2, MovesOn
<1>3. UNCHANGED rowVars \/ \E rows : Show(rows)
  BY DEF StopVerified, SetStatus
<1>4. adoptedAs' \in [Services -> Nat]
  BY <1>3, ShowKeeps DEF Inv, RowsOK, rowVars
<1> QED
  BY <1>1, <1>2, <1>4, MildKeeps DEF Inv, RowsOK

LEMMA LeftoverStoppedKeeps ==
  ASSUME Inv, NEW t \in Threads, LeftoverStopped(t)
  PROVE  Inv'
<1>1. StacksOK'
  BY ReturnsKeeps DEF LeftoverStopped, Awaited, Waits, Inv
<1>2. PICK rows : Show(rows)
  BY DEF LeftoverStopped, SetStatus
<1>3. UNCHANGED <<specVars, procVars, finishing, stopping, adoptions>>
  BY DEF LeftoverStopped, awaitVars, leftVars
<1> QED
  BY <1>1, <1>2, <1>3, ShownKeeps

LEMMA RelaunchKeeps ==
  ASSUME Inv, NEW t \in Threads, Relaunch(t)
  PROVE  Inv'
<1> DEFINE s == Top(t).svc
           after == [At("followers", s) EXCEPT !.todo = DOMAIN Followers[s]]
<1>1. Busy(t) /\ s \in Services /\ Under(t) \in Seq(GoodFrame)
  BY TopFrame, MovedFrame DEF Relaunch, Waits, Inv
<1>2. /\ UNCHANGED <<rowVars, specVars, procVars, awaitVars, leftVars>>
      /\ \/ Goto(t, <<LaunchFrame(s, TRUE), after>> \o Under(t))
         \/ Returns(t)
  BY DEF Relaunch
<1> HIDE DEF s
<1>3. At("followers", s) \in GoodFrame /\ DOMAIN Followers[s] \in SUBSET Nat
      /\ At("followers", s).at = "followers"
  BY <1>1, AtFrame, KindAssumption DEF Places
<1>4. after \in Frame /\ after.at = "followers"
  BY <1>3 DEF Frame, GoodFrame
<1> HIDE DEF after
<1>5. after \in GoodFrame /\ LaunchFrame(s, TRUE) \in GoodFrame
  BY <1>1, <1>4, LaunchFrameType DEF GoodFrame, Inv
<1> DEFINE first == LaunchFrame(s, TRUE)
<1> HIDE DEF first
<1>6. <<first, after>> \o Under(t) \in Seq(GoodFrame)
  BY <1>1, <1>5, PutTwo DEF first
<1>7. StacksOK'
  BY <1>1, <1>2, <1>6, GotoKeeps, ReturnsKeeps DEF Inv, first
<1> QED
  BY <1>2, <1>7, CalmKeeps

LEMMA RestartFollowersKeeps ==
  ASSUME Inv, NEW t \in Threads, RestartFollowers(t)
  PROVE  Inv'
<1> DEFINE s == Top(t).svc
           order == Followers[s]
           todo == IF s \in listed THEN Top(t).todo \cap ListedOf(order) ELSE {}
           rest(i) == [Top(t) EXCEPT !.todo = todo \ {i}]
<1>1. /\ Busy(t) /\ s \in Services /\ Top(t) \in GoodFrame /\ Top(t).at = "followers"
      /\ Top(t).todo \in SUBSET Nat /\ Under(t) \in Seq(GoodFrame)
  BY TopFrame, MovedFrame DEF RestartFollowers, Waits, Inv
<1>2. StopUnchanged
  BY DEF RestartFollowers
<1>3. CASE Returns(t) /\ UNCHANGED <<rowVars, procs, processes, stopping, watch>>
  <2>1. StacksOK'
    BY <1>1, <1>3, ReturnsKeeps DEF Inv
  <2> QED
    BY <1>2, <1>3, <2>1 DEF StopUnchanged, Inv, SpecsOK, RowsOK, AwaitsOK, ProcsOK,
                            rowVars, specVars, leftVars
<1>4. ASSUME NEW i \in todo, RestartThen(t, order[i], <<rest(i)>> \o Under(t), watch)
      PROVE  Inv'
  <2>1. order[i] \in Services /\ todo \ {i} \in SUBSET Nat
    BY <1>1, <1>4, KindAssumption DEF ListedOf
  <2> DEFINE left == todo \ {i}
  <2>2. left \in SUBSET Nat
    BY <2>1
  <2> HIDE DEF left
  <2>3. [Top(t) EXCEPT !.todo = left] \in Frame /\ [Top(t) EXCEPT !.todo = left].at = "followers"
    BY <1>1, <2>2 DEF Frame, GoodFrame
  <2>4. [Top(t) EXCEPT !.todo = left] \in GoodFrame
    BY <2>3 DEF GoodFrame
  <2>5. rest(i) \in GoodFrame
    BY <2>4 DEF left
  <2> DEFINE r == rest(i)
  <2>6. r \in GoodFrame
    BY <2>5
  <2> HIDE DEF r
  <2>7. <<r>> \o Under(t) \in Seq(GoodFrame)
    BY <1>1, <2>6
  <2>8. <<rest(i)>> \o Under(t) \in Seq(GoodFrame)
    BY <2>7 DEF r
  <2> QED
    BY <1>2, <1>4, <2>1, <2>8, RestartKeeps
<1> QED
  BY <1>3, <1>4 DEF RestartFollowers

LEMMA ReboundKeeps ==
  ASSUME Inv, NEW t \in Threads, Rebound(t)
  PROVE  Inv'
<1> DEFINE s == Top(t).svc
           ref == Top(t).ref
           frame == IF Top(t).flag THEN [LaunchFrame(s, TRUE) EXCEPT !.ref = ref]
                    ELSE At("reboundMirror", s)
<1>1. Busy(t) /\ s \in Services /\ ref \in Refs \cup {None}
  BY TopFrame, MovedFrame DEF Rebound, Waits, Inv
<1>2. /\ UNCHANGED <<rowVars, listed, procVars, awaitVars, leftVars>>
      /\ bindings' = [bindings EXCEPT ![s] = ref]
      /\ Becomes(t, frame)
  BY DEF Rebound
<1>3. frame \in GoodFrame
  <2>1. LaunchFrame(s, TRUE) \in GoodFrame /\ At("reboundMirror", s) \in GoodFrame
    BY <1>1, LaunchFrameType, AtFrame DEF Inv, Places
  <2> HIDE DEF s, ref
  <2>2. [LaunchFrame(s, TRUE) EXCEPT !.ref = ref] \in GoodFrame
    BY <1>1, <2>1 DEF Frame, GoodFrame
  <2> QED
    BY <2>1, <2>2
<1>4. StacksOK'
  BY <1>1, <1>2, <1>3, BecomesKeeps DEF Inv
<1>5. SpecsOK'
  BY <1>1, <1>2 DEF Inv, SpecsOK
<1> QED
  BY <1>2, <1>4, <1>5 DEF Inv, RowsOK, AwaitsOK, ProcsOK, rowVars, procVars, awaitVars, leftVars

LEMMA ReboundMirroredKeeps ==
  ASSUME Inv, NEW t \in Threads, ReboundMirrored(t)
  PROVE  Inv'
BY ReturnsKeeps, CalmKeeps DEF ReboundMirrored, Awaited, Waits, Inv

LEMMA ChangedKeeps ==
  ASSUME Inv, NEW t \in Threads, Changed(t)
  PROVE  Inv'
BY ReturnsKeeps, CalmKeeps DEF Changed, Waits, Inv

-----------------------------------------------------------------------------
(***************************************************************************)
(* Leftovers.                                                              *)
(***************************************************************************)
LEMMA AdoptKeeps ==
  ASSUME Inv, NEW s \in Services, Adopt(s)
  PROVE  Inv'
<1>1. UNCHANGED <<specVars, procVars, awaitVars, stacks>>
  BY DEF Adopt
<1>2. PICK status \in {"ready", "unready"} : Adopts(s, status)
  BY DEF Adopt
<1>3. RowsOK'
  BY <1>2 DEF Adopts, Inv, RowsOK
<1> QED
  BY <1>1, <1>3, MildKeeps DEF Inv, StacksOK, RowsOK, awaitVars

LEMMA PollAskKeeps ==
  ASSUME Inv, NEW s \in Services, PollAsk(s)
  PROVE  Inv'
BY MildKeeps DEF PollAsk, Inv, StacksOK, RowsOK, rowVars, awaitVars

LEMMA PollAnswerKeeps ==
  ASSUME Inv, NEW s \in Services, PollAnswer(s)
  PROVE  Inv'
<1>1. UNCHANGED <<specVars, procVars, awaitVars, adoptions, stacks>>
  BY DEF PollAnswer
<1>2. UNCHANGED rowVars \/ \E rows : Show(rows)
  BY DEF PollAnswer, SetStatus
<1>3. RowsOK'
  BY <1>1, <1>2, ShowKeeps DEF Inv, RowsOK, rowVars
<1> QED
  BY <1>1, <1>3, MildKeeps DEF Inv, StacksOK, RowsOK, awaitVars

LEMMA LeftoverExitsKeeps ==
  ASSUME Inv, NEW s \in Services, LeftoverExits(s)
  PROVE  Inv'
BY MildKeeps DEF LeftoverExits, Inv, StacksOK, RowsOK, rowVars, awaitVars

-----------------------------------------------------------------------------
(***************************************************************************)
(* The three facts an invariant needs.                                     *)
(***************************************************************************)
LEMMA InitInv ==
  ASSUME Init
  PROVE  Inv
<1>1. SpecsOK /\ RowsOK /\ AwaitsOK /\ StacksOK
  BY RefAssumption DEF Init, SpecsOK, RowsOK, AwaitsOK, StacksOK
<1>2. NoProcess \in Process /\ NoProcess.phase # "live"
  BY DEF NoProcess, Process
<1>3. ProcsOK
  <2> HIDE DEF NoProcess
  <2> QED
    BY <1>2 DEF Init, ProcsOK
<1>4. GateOK(gate)
  BY GateInitial DEF Init
<1> QED
  BY <1>1, <1>3, <1>4 DEF Inv

LEMMA CallsInv ==
  ASSUME Inv, NEW t \in Threads, Calls(t)
  PROVE  Inv'
<1>1. PICK s \in Services : \/ CallStart(t, s) \/ CallStop(t, s) \/ CallRestart(t, s)
                            \/ CallRebind(t, s) \/ CallEdit(t, s) \/ CallRemove(t, s)
                            \/ ChangeDue(t, s)
  BY DEF Calls
<1> QED
  BY <1>1, CallStartKeeps, CallStopKeeps, CallRestartKeeps, CallRebindKeeps, CallEditKeeps,
     CallRemoveKeeps, ChangeDueKeeps

LEMMA ContinueInv ==
  ASSUME Inv, NEW t \in Threads, Continue(t)
  PROVE  Inv'
BY SettleKeeps, DependencyBackKeeps, RunEndedKeeps, TurnKeeps, TaskEndedKeeps,
   RelaunchKeeps, RestartFollowersKeeps, ReboundKeeps, ChangedKeeps DEF Continue

LEMMA AnswerInv ==
  ASSUME Inv, NEW t \in Threads, Answer(t)
  PROVE  Inv'
BY VerifyDepKeeps, ClaimKeeps, PlanKeeps, MirrorKeeps, EnvKeeps, BootDiedKeeps, ProbeKeeps,
   ProbedKeeps, StopWaitedKeeps, StopVerifiedKeeps, LeftoverStoppedKeeps, ReboundMirroredKeeps
   DEF Answer

LEMMA StepInv ==
  ASSUME Inv, [Next]_vars
  PROVE  Inv'
<1>1. ASSUME NEW t \in Threads, Continue(t) \/ Answer(t) \/ Calls(t)
      PROVE  Inv'
  BY <1>1, ContinueInv, AnswerInv, CallsInv
<1>2. ASSUME NEW p \in Procs, Exit(p) \/ LateAnswer(p)
      PROVE  Inv'
  BY <1>2, ExitKeeps, LateAnswerKeeps
<1>3. ASSUME NEW s \in Services,
             Adopt(s) \/ PollAsk(s) \/ PollAnswer(s) \/ LeftoverExits(s) \/ FileChanged(s)
      PROVE  Inv'
  BY <1>3, AdoptKeeps, PollAskKeeps, PollAnswerKeeps, LeftoverExitsKeeps, FileChangedKeeps
<1>4. CASE UNCHANGED vars
  BY <1>4, CalmKeeps DEF vars, Inv, StacksOK
<1> QED
  BY <1>1, <1>2, <1>3, <1>4, SpawnThrowsKeeps DEF Next

(***************************************************************************)
(* Inv is an invariant.                                                    *)
(***************************************************************************)
THEOREM Invariance ==
  Spec => []Inv
BY InitInv, StepInv, PTL DEF Spec

(***************************************************************************)
(* However many starts, stops, restarts, rebinds and changes of code are   *)
(* in flight, a service has at most one process that was not told to stop, *)
(* and a stop would reach it (supervisor.ts, procs).                       *)
(***************************************************************************)
THEOREM OneProcessHolds ==
  Spec => []OneProcess
<1>1. Inv => OneProcess
  BY DEF Inv, ProcsOK, OneProcess
<1> QED
  BY <1>1, Invariance, PTL

-----------------------------------------------------------------------------
(***************************************************************************)
(* The gate as the supervisor uses it.                                     *)
(***************************************************************************)
\* A release, however late or repeated, is one the gate's specification allows.
LEMMA ReleaseStep ==
  ASSUME GateOK(gate), NEW p \in Procs \cup {None}, GivesBack(p)
  PROVE  [Gate!Next]_gate
<1>1. CASE p \in Procs
  BY <1>1 DEF GivesBack, Gate!Next, Gate!Release
<1>2. CASE p = None
  BY <1>2, NoneAssumption DEF GivesBack, GateOK, Gates, Gate!Released
<1> QED
  BY <1>1, <1>2

\* A launch that asks is a new one.
LEMMA AskStep ==
  ASSUME Unused # {}, AsksForTurn(NewProc)
  PROVE  [Gate!Next]_gate
<1>1. NewProc \in Unused
  BY DEF NewProc
<1>2. NewProc \in Procs /\ NewProc \notin gate.held \cup Gate!Queued(gate)
  BY <1>1 DEF Unused
<1> QED
  BY <1>2 DEF AsksForTurn, Gate!Next, Gate!Acquire

LEMMA TopProc ==
  ASSUME Inv, NEW t \in Threads, Busy(t)
  PROVE  Top(t).proc \in Procs \cup {None}
BY TopFrame DEF Inv, GoodFrame, Frame

LEMMA ContinueGate ==
  ASSUME Inv, NEW t \in Threads, Continue(t)
  PROVE  [Gate!Next]_gate
<1>1. CASE Turn(t)
  <2>1. UNCHANGED gate \/ GivesBack(Top(t).proc)
    <3>1. CASE currentLaunch[Top(t).svc] = Top(t).proc /\ StillOurs(TurnCame(Top(t).svc), Top(t).svc)
      BY <1>1, <3>1 DEF Turn
    <3>2. CASE ~(currentLaunch[Top(t).svc] = Top(t).proc /\ StillOurs(TurnCame(Top(t).svc), Top(t).svc))
      BY <1>1, <3>2 DEF Turn
    <3> QED
      BY <3>1, <3>2
  <2>2. Busy(t) /\ GateOK(gate)
    BY <1>1 DEF Turn, Waits, Inv
  <2> QED
    BY <2>1, <2>2, TopProc, ReleaseStep
<1>2. CASE RestartFollowers(t)
  BY <1>2 DEF RestartFollowers, StopUnchanged
<1>3. CASE Settle(t) \/ DependencyBack(t) \/ RunEnded(t) \/ TaskEnded(t)
           \/ Relaunch(t) \/ Rebound(t) \/ Changed(t)
  BY <1>3 DEF Settle, DependencyBack, RunEnded, TaskEnded, Relaunch, Rebound, Changed, procVars
<1> QED
  BY <1>1, <1>2, <1>3 DEF Continue

LEMMA AnswerGate ==
  ASSUME Inv, NEW t \in Threads, Answer(t)
  PROVE  [Gate!Next]_gate
<1>1. CASE Env(t)
  BY <1>1, AskStep DEF Env, procVars
<1>2. CASE BootDied(t) \/ Probed(t)
  BY <1>2, TopProc, ReleaseStep DEF BootDied, Probed, Awaited, Waits, Inv
<1>3. CASE VerifyDep(t) \/ Claim(t) \/ Plan(t) \/ Mirror(t) \/ Probe(t)
           \/ StopWaited(t) \/ StopVerified(t) \/ LeftoverStopped(t) \/ ReboundMirrored(t)
  BY <1>3 DEF VerifyDep, Claim, Plan, Mirror, Probe, StopWaited, StopVerified, LeftoverStopped,
              ReboundMirrored, procVars
<1> QED
  BY <1>1, <1>2, <1>3 DEF Answer

LEMMA CallsGate ==
  ASSUME NEW t \in Threads, Calls(t)
  PROVE  UNCHANGED gate
BY DEF Calls, CallStart, CallStop, CallRestart, CallRebind, CallEdit, CallRemove, ChangeDue,
       StopUnchanged, procVars

LEMMA GateStep ==
  ASSUME Inv, [Next]_vars
  PROVE  [Gate!Next]_gate
<1>1. ASSUME NEW t \in Threads, Continue(t) \/ Answer(t) \/ Calls(t)
      PROVE  [Gate!Next]_gate
  BY <1>1, ContinueGate, AnswerGate, CallsGate
<1>2. ASSUME NEW p \in Procs, Exit(p)
      PROVE  [Gate!Next]_gate
  BY <1>2, ReleaseStep DEF Exit, Inv
<1>3. ASSUME NEW p \in Procs, LateAnswer(p)
      PROVE  [Gate!Next]_gate
  BY <1>3 DEF LateAnswer
<1>4. ASSUME NEW s \in Services,
             Adopt(s) \/ PollAsk(s) \/ PollAnswer(s) \/ LeftoverExits(s) \/ FileChanged(s)
      PROVE  [Gate!Next]_gate
  BY <1>4 DEF Adopt, PollAsk, PollAnswer, LeftoverExits, FileChanged, procVars
<1>5. CASE UNCHANGED vars
  BY <1>5 DEF vars, procVars
<1>6. ASSUME NEW t \in Threads, SpawnThrows(t)
      PROVE  [Gate!Next]_gate
  BY <1>6 DEF SpawnThrows, procVars
<1> QED
  BY <1>1, <1>2, <1>3, <1>4, <1>5, <1>6 DEF Next

(***************************************************************************)
(* The supervisor implements the specification of launchGate.ts: a launch  *)
(* asks once, and what its exit, its wait and its calling off give back is *)
(* what the gate's release takes.                                          *)
(***************************************************************************)
THEOREM GateImplemented ==
  Spec => GateSpec
<1>1. Init => Gate!Init
  BY DEF Init, Gate!Init
<1> QED
  BY <1>1, InitInv, StepInv, GateStep, PTL DEF Spec, GateSpec, Gate!Spec

(***************************************************************************)
(* The gate's counter is the number of slots out and within the limit, for *)
(* any number of launches and any order of their ends.                     *)
(***************************************************************************)
THEOREM SlotsCountedHolds ==
  Spec => []SlotsCounted
<1>1. Inv => SlotsCounted
  BY DEF Inv, GateOK, SlotsCounted
<1> QED
  BY <1>1, Invariance, PTL

(***************************************************************************)
(* No start is left in line while a slot is free.                          *)
(***************************************************************************)
THEOREM NoIdleSlotHolds ==
  Spec => []NoIdleSlot
<1>1. Inv => NoIdleSlot
  BY DEF Inv, GateOK, NoIdleSlot, Gate!NoIdleSlot
<1> QED
  BY <1>1, Invariance, PTL

-----------------------------------------------------------------------------
(***************************************************************************)
(* Slots.  A frame that has to do with a slot is always the one on top of  *)
(* its stack, since a launch awaits no other method: a launch that holds   *)
(* a slot waits for its turn, its readiness or the end of its task, one    *)
(* that stands in line waits for its turn.                                 *)
(***************************************************************************)
OnItsWay(p, t) ==
  /\ Busy(t) /\ Top(t).proc = p
  /\ \/ Top(t).at \in {"gate", "boot", "probe"}
     \/ Top(t).at = "task" /\ processes[p].phase # "none"

InLine(p, t) == Busy(t) /\ Top(t).at = "gate" /\ Top(t).proc = p

SlotsOK ==
  /\ \A p \in gate.held : \E t \in Threads : OnItsWay(p, t)
  /\ \A p \in Gate!Queued(gate) : \E t \in Threads : InLine(p, t)

SlotPlaces == {"gate", "boot", "probe", "task"}

\* What a step of call t leaves alone: the other calls, and that a process is there.
OnlyMoves(t) == \A x \in Threads : x # t => stacks'[x] = stacks[x]
PhasesStay == \A p \in Procs : processes[p].phase # "none" => processes'[p].phase # "none"

\* A launch in line or with a slot is one of the processes.
LEMMA SlotProcs ==
  ASSUME NEW g, GateOK(g)
  PROVE  g.held \subseteq Procs /\ Gate!Queued(g) \subseteq Procs /\ g.held \cap Gate!Queued(g) = {}
BY DEF GateOK, Gates, Gate!Queued

\* A release takes the slot from the launch, and gives it to one in line at most.
LEMMA GateFrees ==
  ASSUME NEW g, GateOK(g), NEW p
  PROVE  LET h == Gate!Released(g, p)
         IN  /\ p \notin h.held /\ h.held \subseteq g.held \cup Gate!Queued(g)
             /\ Gate!Queued(h) \subseteq Gate!Queued(g)
<1> DEFINE h == Gate!Released(g, p)
           free == [g EXCEPT !.running = @ - 1, !.held = @ \ {p}]
           left == [free EXCEPT !.waiting = Tail(@)]
           next == Head(g.waiting)
<1>1. CASE p \notin g.held
  BY <1>1 DEF Gate!Released
<1>2. CASE p \in g.held /\ g.waiting = <<>>
  <2>1. h = free
    BY <1>2 DEF Gate!Released
  <2>2. free.held = g.held \ {p} /\ free.waiting = g.waiting
    BY DEF GateOK, Gates
  <2> QED
    BY <2>1, <2>2 DEF Gate!Queued
<1>3. CASE p \in g.held /\ g.waiting # <<>>
  <2>1. h = Gate!Granted(left, next)
    BY <1>3 DEF Gate!Released
  <2> DEFINE Loose == [running : Int, waiting : Seq(Procs), held : SUBSET Procs]
  <2>0. free \in Loose /\ free.held = g.held \ {p} /\ free.waiting = g.waiting
    <3>1. g.running - 1 \in Int /\ g.held \ {p} \in SUBSET Procs /\ g \in Gates
      BY DEF GateOK, Gates
    <3>2. free = [g EXCEPT !.running = g.running - 1, !.held = g.held \ {p}]
      BY <3>1 DEF Gates
    <3> QED
      BY <3>1, <3>2 DEF Gates
  <2>8. Tail(g.waiting) \in Seq(Procs)
    BY <1>3 DEF GateOK, Gates
  <2>2. left \in Loose /\ left.held = g.held \ {p} /\ left.waiting = Tail(g.waiting)
    <3> HIDE DEF free
    <3> QED
      BY <2>0, <2>8
  <2>3. /\ next = g.waiting[1] /\ 1 \in DOMAIN g.waiting
        /\ \A i \in DOMAIN Tail(g.waiting) :
               i + 1 \in DOMAIN g.waiting /\ Tail(g.waiting)[i] = g.waiting[i + 1]
    BY <1>3 DEF GateOK, Gates
  <2> HIDE DEF left, next, h
  <2>4. h.held = left.held \cup {next} /\ h.waiting = left.waiting
    BY <2>1, <2>2 DEF Gate!Granted
  <2>5. next # p /\ next \in Gate!Queued(g)
    BY <1>3, <2>3 DEF GateOK, Gate!Queued
  <2>6. p \notin h.held /\ h.held \subseteq g.held \cup Gate!Queued(g)
    BY <2>2, <2>4, <2>5
  <2>7. Gate!Queued(h) \subseteq Gate!Queued(g)
    BY <2>2, <2>3, <2>4 DEF Gate!Queued
  <2> QED
    BY <2>6, <2>7 DEF h
<1> QED
  BY <1>1, <1>2, <1>3

\* Whoever asks is in line or has a slot, and nobody else is moved.
LEMMA GateSeats ==
  ASSUME NEW g, GateOK(g), NEW p
  PROVE  LET h == Gate!Asked(g, p)
         IN  h.held \cup Gate!Queued(h) \subseteq g.held \cup Gate!Queued(g) \cup {p}
             /\ h.held \subseteq g.held \cup {p} /\ Gate!Queued(h) \subseteq Gate!Queued(g) \cup {p}
<1> DEFINE h == Gate!Asked(g, p)
<1>1. CASE Gate!Full(g)
  <2>1. h = [g EXCEPT !.waiting = Append(@, p)]
    BY <1>1 DEF Gate!Asked
  <2>2. h.held = g.held /\ h.waiting = Append(g.waiting, p)
    BY <2>1 DEF GateOK, Gates
  <2>3. \A i \in DOMAIN h.waiting : h.waiting[i] = p \/ (i \in DOMAIN g.waiting /\ h.waiting[i] = g.waiting[i])
    BY <2>2 DEF GateOK, Gates
  <2> QED
    BY <2>2, <2>3 DEF Gate!Queued
<1>2. CASE ~Gate!Full(g)
  <2>1. h.held = g.held \cup {p} /\ h.waiting = g.waiting
    BY <1>2 DEF Gate!Asked, Gate!Granted, GateOK, Gates
  <2> QED
    BY <2>1 DEF Gate!Queued
<1> QED
  BY <1>1, <1>2

\* Another call's launch is where it was.
LEMMA OthersWait ==
  ASSUME NEW t \in Threads, OnlyMoves(t), PhasesStay, NEW p \in Procs, NEW x \in Threads, x # t
  PROVE  (OnItsWay(p, x) => OnItsWay(p, x)') /\ (InLine(p, x) => InLine(p, x)')
BY DEF OnlyMoves, PhasesStay, OnItsWay, InLine, Busy, Top

\* A step of a call that has nothing to do with a slot.
LEMMA SlotsUntouched ==
  ASSUME Inv, SlotsOK, NEW t \in Threads, OnlyMoves(t), PhasesStay, gate' = gate,
         Busy(t) => Top(t).at \notin SlotPlaces
  PROVE  SlotsOK'
<1>1. ASSUME NEW p \in Procs, NEW x \in Threads, OnItsWay(p, x)
      PROVE  OnItsWay(p, x)'
  BY <1>1, OthersWait DEF OnItsWay, SlotPlaces
<1>2. ASSUME NEW p \in Procs, NEW x \in Threads, InLine(p, x)
      PROVE  InLine(p, x)'
  BY <1>2, OthersWait DEF InLine, SlotPlaces
<1>3. gate.held \subseteq Procs /\ Gate!Queued(gate) \subseteq Procs
  BY SlotProcs DEF Inv
<1>4. Gate!Queued(gate)' = Gate!Queued(gate)
  BY DEF Gate!Queued
<1> QED
  BY <1>1, <1>2, <1>3, <1>4 DEF SlotsOK

\* A step in which the launch of a call gives its slot back.
LEMMA SlotReturned ==
  ASSUME Inv, SlotsOK, NEW t \in Threads, OnlyMoves(t), PhasesStay, Busy(t),
         GivesBack(Top(t).proc), Top(t).at = "gate" => Top(t).proc \in gate.held
  PROVE  SlotsOK'
<1> DEFINE p == Top(t).proc
<1>1. /\ gate.held \subseteq Procs /\ Gate!Queued(gate) \subseteq Procs
      /\ gate.held \cap Gate!Queued(gate) = {}
  BY SlotProcs DEF Inv
<1>2. /\ p \notin gate'.held /\ gate'.held \subseteq gate.held \cup Gate!Queued(gate)
      /\ Gate!Queued(gate') \subseteq Gate!Queued(gate)
  BY GateFrees DEF Inv, GivesBack
<1>3. ASSUME NEW q \in Gate!Queued(gate)
      PROVE  \E x \in Threads : x # t /\ InLine(q, x)
  <2>1. PICK x \in Threads : InLine(q, x)
    BY <1>3 DEF SlotsOK
  <2>2. x # t
    BY <1>1, <1>3, <2>1 DEF InLine
  <2> QED
    BY <2>1, <2>2
<1>4. ASSUME NEW q \in gate.held, q # p
      PROVE  \E x \in Threads : x # t /\ OnItsWay(q, x)
  BY <1>4 DEF SlotsOK, OnItsWay
<1>5. ASSUME NEW q \in gate'.held
      PROVE  \E x \in Threads : OnItsWay(q, x)'
  <2>1. PICK x \in Threads : x # t /\ OnItsWay(q, x)
    BY <1>2, <1>3, <1>4 DEF InLine, OnItsWay
  <2> QED
    BY <1>1, <1>2, <2>1, OthersWait
<1>6. ASSUME NEW q \in Gate!Queued(gate')
      PROVE  \E x \in Threads : InLine(q, x)'
  BY <1>1, <1>2, <1>3, OthersWait
<1>7. Gate!Queued(gate)' = Gate!Queued(gate')
  BY DEF Gate!Queued
<1> QED
  BY <1>5, <1>6, <1>7 DEF SlotsOK

(***************************************************************************)
(* The steps: which call each moves, and that no process vanishes but by   *)
(* its exit.                                                               *)
(***************************************************************************)
\* A call that goes somewhere leaves the others where they are.
LEMMA GotoMoves ==
  ASSUME StacksOK, NEW t \in Threads, NEW frames, Goto(t, frames)
  PROVE  OnlyMoves(t)
BY DEF StacksOK, Goto, OnlyMoves

LEMMA StopMoves ==
  ASSUME Inv, NEW t \in Threads, NEW s \in Services, NEW frames, NEW seen,
         StopThen(t, s, frames, seen)
  PROVE  OnlyMoves(t) /\ PhasesStay
<1>1. OnlyMoves(t)
  BY GotoMoves DEF StopThen, Inv
<1>2. processes' = processes \/ processes' = [processes EXCEPT ![procs[s]].phase = "killed"]
  BY DEF StopThen
<1>3. PhasesStay
  BY <1>2 DEF PhasesStay, Inv, ProcsOK, Process
<1> QED
  BY <1>1, <1>3

\* A process that is spawned is there.
LEMMA SpawnMoves ==
  ASSUME Inv, NEW t \in Threads, NEW s \in Services, NEW p \in Procs, NEW rows, Spawn(t, s, p, rows)
  PROVE  OnlyMoves(t) /\ PhasesStay
<1>1. OnlyMoves(t)
  BY GotoMoves DEF Spawn, Becomes, Inv
<1> DEFINE new == [NoProcess EXCEPT !.phase = "live", !.svc = s, !.ref = Top(t).ref]
<1>2. processes' = [processes EXCEPT ![p] = new] /\ new.phase = "live"
  BY DEF Spawn, NoProcess
<1> HIDE DEF new
<1>3. PhasesStay
  BY <1>2 DEF PhasesStay, Inv, ProcsOK
<1> QED
  BY <1>1, <1>3

\* A process that exits gives back what it held; it is in line for nothing.
LEMMA ExitSlots ==
  ASSUME Inv, SlotsOK, NEW p \in Procs, Exit(p)
  PROVE  SlotsOK'
<1>1. /\ gate.held \subseteq Procs /\ Gate!Queued(gate) \subseteq Procs
  BY SlotProcs DEF Inv
<1>2. /\ p \notin gate'.held /\ gate'.held \subseteq gate.held \cup Gate!Queued(gate)
      /\ Gate!Queued(gate') \subseteq Gate!Queued(gate)
  BY GateFrees DEF Inv, GivesBack, Exit
<1>3. stacks' = stacks /\ \A q \in Procs : q # p => processes'[q] = processes[q]
  <2>1. stacks' = stacks /\ processes' = [processes EXCEPT ![p] = NoProcess]
    BY DEF Exit
  <2> QED
    BY <2>1 DEF Inv, ProcsOK
<1>4. \A q \in Procs, x \in Threads :
        (InLine(q, x) => InLine(q, x)') /\ (q # p /\ OnItsWay(q, x) => OnItsWay(q, x)')
  BY <1>3 DEF InLine, OnItsWay, Busy, Top
<1>5. \A q \in Procs, x \in Threads : InLine(q, x) => OnItsWay(q, x)
  BY DEF InLine, OnItsWay
<1>6. ASSUME NEW q \in gate'.held
      PROVE  \E x \in Threads : OnItsWay(q, x)'
  <2>1. q \in Procs /\ q # p
    BY <1>1, <1>2
  <2>2. PICK x \in Threads : OnItsWay(q, x)
    BY <1>2, <1>5, <2>1 DEF SlotsOK
  <2> QED
    BY <1>4, <2>1, <2>2
<1>7. ASSUME NEW q \in Gate!Queued(gate')
      PROVE  \E x \in Threads : InLine(q, x)'
  BY <1>1, <1>2, <1>4 DEF SlotsOK
<1>8. Gate!Queued(gate)' = Gate!Queued(gate')
  BY DEF Gate!Queued
<1> QED
  BY <1>6, <1>7, <1>8 DEF SlotsOK

\* A late answer says something of a row, and of a process that is there.
LEMMA LateStays ==
  ASSUME Inv, NEW p, NEW b, processes' = [processes EXCEPT ![p].late = b]
  PROVE  PhasesStay
BY DEF PhasesStay, Inv, ProcsOK, Process

\* A step that moves no call and no slot.
LEMMA SlotsStill ==
  ASSUME Inv, SlotsOK, stacks' = stacks, gate' = gate, PhasesStay
  PROVE  SlotsOK'
<1>1. gate.held \subseteq Procs
  BY SlotProcs DEF Inv
<1>2. \A p \in Procs, x \in Threads : OnItsWay(p, x) => OnItsWay(p, x)'
  BY DEF PhasesStay, OnItsWay, Busy, Top
<1>3. \A p, x : InLine(p, x) => InLine(p, x)'
  BY DEF InLine, Busy, Top
<1>4. Gate!Queued(gate)' = Gate!Queued(gate)
  BY DEF Gate!Queued
<1> QED
  BY <1>1, <1>2, <1>3, <1>4 DEF SlotsOK

\* The service and the process a call is about.
LEMMA TopService ==
  ASSUME Inv, NEW t \in Threads, Busy(t)
  PROVE  Top(t).svc \in Services
BY TopFrame DEF Inv, GoodFrame, Frame

\* Env: a light launch starts, a heavy one asks and waits.
LEMMA EnvSlots ==
  ASSUME Inv, SlotsOK, NEW t \in Threads, Env(t)
  PROVE  SlotsOK'
<1> DEFINE s == Top(t).svc
<1>1. Busy(t) /\ Top(t).at = "env" /\ s \in Services /\ Top(t) \in GoodFrame
      /\ Under(t) \in Seq(GoodFrame) /\ "env" \notin SlotPlaces
  <2>1. Busy(t) /\ Top(t).at = "env"
    BY DEF Env, Awaited, Waits
  <2> QED
    BY <2>1, TopFrame, TopService DEF Inv, SlotPlaces
<1>2. CASE Returns(t) /\ UNCHANGED procVars
  <2>1. OnlyMoves(t)
    BY <1>2, GotoMoves DEF Returns, Inv
  <2>2. PhasesStay /\ gate' = gate
    BY <1>2 DEF PhasesStay, procVars
  <2> QED
    BY <1>1, <2>1, <2>2, SlotsUntouched
<1>3. CASE Unused # {} /\ Spawn(t, s, NewProc, runtimes) /\ gate' = gate
  <2>1. NewProc \in Procs
    BY <1>3 DEF NewProc, Unused
  <2>2. OnlyMoves(t) /\ PhasesStay
    BY <1>1, <1>3, <2>1, SpawnMoves
  <2> QED
    BY <1>1, <1>3, <2>2, SlotsUntouched
<1>4. CASE /\ Unused # {} /\ AsksForTurn(NewProc)
           /\ Becomes(t, [Top(t) EXCEPT !.at = "gate", !.proc = NewProc])
           /\ UNCHANGED <<procs, processes>>
  <2>0. NewProc \in Procs
    BY <1>4 DEF NewProc, Unused
  <2>1. PICK p \in Procs : p = NewProc
    BY <2>0
  <2>2. PICK f : f = [Top(t) EXCEPT !.at = "gate", !.proc = p]
    OBVIOUS
  <2>11. f.at = "gate" /\ f.proc = p
    BY <1>1, <2>2 DEF GoodFrame, Frame
  <2>3. stacks' = [stacks EXCEPT ![t] = <<f>> \o Under(t)]
    BY <1>4, <2>1, <2>2 DEF Becomes, Goto
  <2>4. stacks'[t] = <<f>> \o Under(t) /\ OnlyMoves(t)
    BY <2>3 DEF Inv, StacksOK, OnlyMoves
  <2>5. Head(<<f>> \o Under(t)) = f /\ <<f>> \o Under(t) # <<>>
    BY <1>1
  <2>6. InLine(p, t)' /\ OnItsWay(p, t)'
    BY <2>4, <2>5, <2>11 DEF InLine, OnItsWay, Busy, Top
  <2>7. PhasesStay
    BY <1>4 DEF PhasesStay
  <2>8. /\ gate'.held \subseteq gate.held \cup {p}
        /\ Gate!Queued(gate') \subseteq Gate!Queued(gate) \cup {p}
        /\ gate.held \subseteq Procs /\ Gate!Queued(gate) \subseteq Procs
    BY <1>4, <2>1, GateSeats, SlotProcs DEF Inv, AsksForTurn
  <2>9. \A q \in Procs, x \in Threads :
          (OnItsWay(q, x) => OnItsWay(q, x)') /\ (InLine(q, x) => InLine(q, x)')
    <3> TAKE q \in Procs, x \in Threads
    <3>1. CASE x = t
      BY <1>1, <3>1 DEF OnItsWay, InLine
    <3>2. CASE x # t
      BY <2>4, <2>7, <3>2, OthersWait
    <3> QED
      BY <3>1, <3>2
  <2>10. Gate!Queued(gate)' = Gate!Queued(gate')
    BY DEF Gate!Queued
  <2> QED
    BY <2>6, <2>8, <2>9, <2>10 DEF SlotsOK
<1> QED
  BY <1>2, <1>3, <1>4 DEF Env, procVars

\* Turn: a launch whose turn has come starts, with its slot, or gives it back.
LEMMA TurnSlots ==
  ASSUME Inv, SlotsOK, NEW t \in Threads, Turn(t)
  PROVE  SlotsOK'
<1> DEFINE s == Top(t).svc
<1>0. PICK p : p = Top(t).proc
  OBVIOUS
<1>1. Busy(t) /\ Top(t).at = "gate" /\ s \in Services /\ Top(t) \in GoodFrame /\ p \in gate.held
      /\ Under(t) \in Seq(GoodFrame)
  <2>1. Busy(t) /\ Top(t).at = "gate" /\ p \in gate.held
    BY <1>0 DEF Turn, Waits
  <2> QED
    BY <2>1, TopFrame, TopService DEF Inv
<1>2. CASE GivesBack(p) /\ Returns(t) /\ UNCHANGED <<procs, processes>>
  <2>1. OnlyMoves(t) /\ PhasesStay
    BY <1>2, GotoMoves DEF Returns, Inv, PhasesStay
  <2> QED
    BY <1>0, <1>1, <1>2, <2>1, SlotReturned
<1>3. CASE Spawn(t, s, p, TurnCame(s)) /\ gate' = gate
  <2> DEFINE new == [NoProcess EXCEPT !.phase = "live", !.svc = s, !.ref = Top(t).ref]
  <2>1. /\ p \in Procs /\ gate.held \subseteq Procs /\ Gate!Queued(gate) \subseteq Procs
        /\ p \notin Gate!Queued(gate)
    BY <1>1, SlotProcs DEF Inv
  <2>2. OnlyMoves(t) /\ PhasesStay
    BY <1>1, <1>3, <2>1, SpawnMoves
  <2>0. PICK f : f = [Top(t) EXCEPT !.at = IF s \in Tasks THEN "task" ELSE "boot", !.proc = p]
    OBVIOUS
  <2>3. f.at \in {"boot", "task"} /\ f.proc = p
    BY <1>1, <2>0, <2>1 DEF GoodFrame, Frame
  <2>4. stacks' = [stacks EXCEPT ![t] = <<f>> \o Under(t)]
    BY <1>3, <2>0 DEF Spawn, Becomes, Goto
  <2>5. processes' = [processes EXCEPT ![p] = new] /\ new.phase = "live"
    BY <1>3 DEF Spawn, NoProcess
  <2> HIDE DEF new
  <2>6. stacks'[t] = <<f>> \o Under(t) /\ processes'[p].phase # "none"
    BY <2>1, <2>4, <2>5 DEF Inv, StacksOK, ProcsOK
  <2>7. Head(<<f>> \o Under(t)) = f /\ <<f>> \o Under(t) # <<>>
    BY <1>1
  <2>8. OnItsWay(p, t)'
    BY <2>3, <2>6, <2>7 DEF OnItsWay, Busy, Top
  <2>9. ASSUME NEW q \in gate.held
        PROVE  \E x \in Threads : OnItsWay(q, x)'
    <3>1. PICK x \in Threads : OnItsWay(q, x)
      BY <2>9 DEF SlotsOK
    <3>2. x = t => q = p
      BY <1>0, <3>1 DEF OnItsWay
    <3> QED
      BY <2>1, <2>2, <2>8, <3>1, <3>2, OthersWait
  <2>10. ASSUME NEW q \in Gate!Queued(gate)
         PROVE  \E x \in Threads : InLine(q, x)'
    <3>1. PICK x \in Threads : InLine(q, x)
      BY <2>10 DEF SlotsOK
    <3>2. x # t
      BY <1>0, <2>1, <2>10, <3>1 DEF InLine
    <3> QED
      BY <2>1, <2>2, <3>1, <3>2, OthersWait
  <2>11. Gate!Queued(gate)' = Gate!Queued(gate)
    BY <1>3 DEF Gate!Queued
  <2> QED
    BY <1>3, <2>9, <2>10, <2>11 DEF SlotsOK
<1> QED
  BY <1>0, <1>2, <1>3 DEF Turn

\* What is called from outside begins where nothing was in flight.
LEMMA CallsSlots ==
  ASSUME Inv, SlotsOK, NEW t \in Threads, Calls(t)
  PROVE  SlotsOK'
<1>1. PICK s \in Services : \/ CallStart(t, s) \/ CallStop(t, s) \/ CallRestart(t, s)
                            \/ CallRebind(t, s) \/ CallEdit(t, s) \/ CallRemove(t, s)
                            \/ ChangeDue(t, s)
  BY DEF Calls
<1>2. gate' = gate
  BY CallsGate
<1>3. CASE CallEdit(t, s)
  <2>1. stacks' = stacks /\ processes' = processes
    BY <1>3 DEF CallEdit, procVars
  <2> QED
    BY <1>2, <2>1, SlotsStill DEF PhasesStay
<1>4. CASE \/ CallStart(t, s) \/ CallStop(t, s) \/ CallRestart(t, s) \/ CallRebind(t, s)
           \/ CallRemove(t, s) \/ ChangeDue(t, s)
  <2>1. ~Busy(t)
    BY <1>4 DEF CallStart, CallStop, CallRestart, CallRebind, CallRemove, ChangeDue, Call, IsIdle
  <2>2. OnlyMoves(t) /\ PhasesStay
    <3>1. CASE CallStart(t, s)
      BY <3>1, GotoMoves DEF CallStart, Inv, PhasesStay, procVars
    <3>2. CASE CallStop(t, s) \/ CallRestart(t, s) \/ CallRebind(t, s)
      BY <3>2, StopMoves DEF CallStop, CallRestart, CallRebind, RestartThen
    <3>3. CASE CallRemove(t, s)
      <4>1. \/ UNCHANGED <<processes, stacks>>
            \/ /\ processes' = [processes EXCEPT ![procs[s]].phase = "killed"]
               /\ Goto(t, <<[At("stopWait", s) EXCEPT !.proc = procs[s]]>>)
        BY <3>3 DEF CallRemove
      <4>2. OnlyMoves(t)
        BY <4>1, GotoMoves DEF Inv, OnlyMoves
      <4>3. PhasesStay
        BY <4>1 DEF PhasesStay, Inv, ProcsOK, Process
      <4> QED
        BY <4>2, <4>3
    <3>4. CASE ChangeDue(t, s)
      <4>1. \/ UNCHANGED <<processes, stacks>>
            \/ \E frames, seen : RestartThen(t, s, frames, seen)
        BY <3>4 DEF ChangeDue
      <4> QED
        BY <4>1, StopMoves DEF RestartThen, OnlyMoves, PhasesStay
    <3> QED
      BY <1>4, <3>1, <3>2, <3>3, <3>4
  <2> QED
    BY <1>2, <2>1, <2>2, SlotsUntouched
<1> QED
  BY <1>1, <1>3, <1>4

\* A wait that ends, elsewhere than on the way from the gate.
LEMMA WaitSlots ==
  ASSUME Inv, SlotsOK, NEW t \in Threads, Busy(t), Top(t).at \notin SlotPlaces,
         NEW frames, Goto(t, frames), UNCHANGED <<processes, gate>>
  PROVE  SlotsOK'
<1>1. OnlyMoves(t) /\ PhasesStay
  BY GotoMoves DEF Inv, PhasesStay
<1> QED
  BY <1>1, SlotsUntouched

\* start, as it goes through its dependencies: a call only goes somewhere.
LEMMA StartGoes ==
  ASSUME NEW t, NEW s, NEW todo, NEW rows, StartOn(t, s, todo, rows) \/ WaitFor(t, s, todo, rows)
  PROVE  \E frames : Goto(t, frames)
<1>1. ASSUME NEW left, WaitFor(t, s, left, rows)
      PROVE  \E frames : Goto(t, frames)
  BY <1>1 DEF WaitFor
<1> QED
  BY <1>1 DEF StartOn, Becomes

LEMMA ContinueSlots ==
  ASSUME Inv, SlotsOK, NEW t \in Threads, Continue(t)
  PROVE  SlotsOK'
<1>1. CASE Settle(t)
  <2>1. Busy(t) /\ Top(t).at \notin SlotPlaces /\ UNCHANGED <<processes, gate>>
    BY <1>1 DEF Settle, Waits, SlotPlaces, procVars
  <2>2. \E frames : Goto(t, frames)
    BY <1>1, StartGoes DEF Settle, Returns, Becomes
  <2> QED
    BY <2>1, <2>2, WaitSlots
<1>2. CASE DependencyBack(t)
  <2>1. Busy(t) /\ Top(t).at \notin SlotPlaces /\ UNCHANGED <<processes, gate>>
    BY <1>2 DEF DependencyBack, Waits, SlotPlaces, procVars
  <2>2. \E frames : Goto(t, frames)
    BY <1>2, StartGoes DEF DependencyBack, Returns
  <2> QED
    BY <2>1, <2>2, WaitSlots
<1>3. CASE RunEnded(t) \/ Relaunch(t) \/ Rebound(t) \/ Changed(t)
  <2>1. Busy(t) /\ Top(t).at \notin SlotPlaces /\ UNCHANGED <<processes, gate>>
    BY <1>3 DEF RunEnded, Relaunch, Rebound, Changed, Waits, SlotPlaces, procVars
  <2>2. \E frames : Goto(t, frames)
    BY <1>3 DEF RunEnded, Relaunch, Rebound, Changed, Returns, Becomes
  <2> QED
    BY <2>1, <2>2, WaitSlots
<1>4. CASE Turn(t)
  BY <1>4, TurnSlots
<1>5. CASE TaskEnded(t)
  <2>1. /\ Busy(t) /\ Top(t).at = "task" /\ processes[Top(t).proc].phase = "none"
        /\ UNCHANGED <<processes, gate>> /\ Returns(t)
    BY <1>5 DEF TaskEnded, Waits, procVars
  <2>2. OnlyMoves(t) /\ PhasesStay
    BY <2>1, GotoMoves DEF Inv, PhasesStay, Returns
  <2>3. \A p, x : (InLine(p, x) \/ OnItsWay(p, x)) => x # t
    BY <2>1 DEF InLine, OnItsWay
  <2>4. /\ gate.held \subseteq Procs /\ Gate!Queued(gate) \subseteq Procs
        /\ Gate!Queued(gate)' = Gate!Queued(gate)
    BY <2>1, SlotProcs DEF Inv, Gate!Queued
  <2> QED
    BY <2>1, <2>2, <2>3, <2>4, OthersWait DEF SlotsOK
<1>6. CASE RestartFollowers(t)
  <2>1. Busy(t) /\ Top(t).at \notin SlotPlaces /\ gate' = gate
    BY <1>6 DEF RestartFollowers, Waits, SlotPlaces, StopUnchanged
  <2>2. \/ Returns(t) /\ UNCHANGED processes
        \/ \E i \in ListedOf(Followers[Top(t).svc]) : \E frames :
              RestartThen(t, Followers[Top(t).svc][i], frames, watch)
    BY <1>6 DEF RestartFollowers
  <2>3. Top(t).svc \in Services
    BY <2>1, TopService
  <2>4. \A i \in ListedOf(Followers[Top(t).svc]) : Followers[Top(t).svc][i] \in Services
    BY <2>3, KindAssumption DEF ListedOf
  <2>5. OnlyMoves(t) /\ PhasesStay
    BY <2>2, <2>4, GotoMoves, StopMoves DEF Returns, RestartThen, Inv, PhasesStay
  <2> QED
    BY <2>1, <2>5, SlotsUntouched
<1> QED
  BY <1>1, <1>2, <1>3, <1>4, <1>5, <1>6 DEF Continue

LEMMA AnswerSlots ==
  ASSUME Inv, SlotsOK, NEW t \in Threads, Answer(t)
  PROVE  SlotsOK'
<1>1. CASE Env(t)
  BY <1>1, EnvSlots
<1>2. CASE BootDied(t)
  <2>1. Busy(t) /\ Top(t).at = "boot" /\ GivesBack(Top(t).proc) /\ Returns(t) /\ processes' = processes
    BY <1>2 DEF BootDied, Awaited, Waits
  <2>2. OnlyMoves(t) /\ PhasesStay
    BY <2>1, GotoMoves DEF Inv, PhasesStay, Returns
  <2> QED
    BY <2>1, <2>2, SlotReturned
<1>3. CASE Probed(t)
  <2>1. Busy(t) /\ Top(t).at = "probe" /\ GivesBack(Top(t).proc) /\ Returns(t)
    BY <1>3 DEF Probed, Awaited, Waits
  <2>2. OnlyMoves(t)
    BY <2>1, GotoMoves DEF Inv, Returns
  <2>3. PhasesStay
    <3>1. processes' = processes \/ processes' = [processes EXCEPT ![Top(t).proc].late = TRUE]
      BY <1>3 DEF Probed
    <3> QED
      BY <3>1, LateStays DEF PhasesStay
  <2> QED
    BY <2>1, <2>2, <2>3, SlotReturned
<1>4. CASE Probe(t)
  <2>1. /\ Busy(t) /\ Top(t).at = "boot" /\ UNCHANGED <<processes, gate>>
        /\ Becomes(t, [Top(t) EXCEPT !.at = "probe"])
    BY <1>4 DEF Probe, Awaited, Waits, procVars
  <2>2. Top(t) \in GoodFrame /\ Under(t) \in Seq(GoodFrame)
    BY <2>1, TopFrame DEF Inv
  <2>3. PICK f : f = [Top(t) EXCEPT !.at = "probe"]
    OBVIOUS
  <2>4. f.at = "probe" /\ f.proc = Top(t).proc
    BY <2>2, <2>3 DEF GoodFrame, Frame
  <2>5. stacks' = [stacks EXCEPT ![t] = <<f>> \o Under(t)]
    BY <2>1, <2>3 DEF Becomes, Goto
  <2>6. stacks'[t] = <<f>> \o Under(t) /\ OnlyMoves(t) /\ PhasesStay
    BY <2>1, <2>5 DEF Inv, StacksOK, OnlyMoves, PhasesStay
  <2>7. Head(<<f>> \o Under(t)) = f /\ <<f>> \o Under(t) # <<>>
    BY <2>2
  <2>8. ASSUME NEW p, OnItsWay(p, t)
        PROVE  OnItsWay(p, t)'
    <3>1. f.proc = p
      BY <2>4, <2>8 DEF OnItsWay
    <3> QED
      BY <2>4, <2>6, <2>7, <3>1 DEF OnItsWay, Busy, Top
  <2>9. \A p : ~InLine(p, t)
    BY <2>1 DEF InLine
  <2>10. /\ gate.held \subseteq Procs /\ Gate!Queued(gate) \subseteq Procs
         /\ Gate!Queued(gate)' = Gate!Queued(gate)
    BY <2>1, SlotProcs DEF Inv, Gate!Queued
  <2>11. ASSUME NEW p \in gate.held
         PROVE  \E x \in Threads : OnItsWay(p, x)'
    <3>1. PICK x \in Threads : OnItsWay(p, x)
      BY <2>11 DEF SlotsOK
    <3> QED
      BY <2>6, <2>8, <2>10, <3>1, OthersWait
  <2>12. ASSUME NEW p \in Gate!Queued(gate)
         PROVE  \E x \in Threads : InLine(p, x)'
    <3>1. PICK x \in Threads : InLine(p, x)
      BY <2>12 DEF SlotsOK
    <3> QED
      BY <2>6, <2>9, <2>10, <3>1, OthersWait
  <2> QED
    BY <2>1, <2>10, <2>11, <2>12 DEF SlotsOK
<1>5. CASE VerifyDep(t)
  <2>1. Busy(t) /\ Top(t).at \notin SlotPlaces /\ UNCHANGED <<processes, gate>>
    BY <1>5 DEF VerifyDep, Awaited, Waits, SlotPlaces, procVars
  <2>2. \E frames : Goto(t, frames)
    BY <1>5, StartGoes DEF VerifyDep
  <2> QED
    BY <2>1, <2>2, WaitSlots
<1>6. CASE \/ Claim(t) \/ Plan(t) \/ Mirror(t) \/ StopWaited(t) \/ StopVerified(t)
           \/ LeftoverStopped(t) \/ ReboundMirrored(t)
  <2>1. Busy(t) /\ Top(t).at \notin SlotPlaces /\ UNCHANGED <<processes, gate>>
    BY <1>6 DEF Claim, Plan, Mirror, StopWaited, StopVerified, LeftoverStopped, ReboundMirrored,
                Awaited, Waits, SlotPlaces, procVars
  <2>2. \E frames : Goto(t, frames)
    BY <1>6 DEF Claim, Plan, Mirror, StopWaited, StopVerified, LeftoverStopped, ReboundMirrored,
                Returns, Becomes
  <2> QED
    BY <2>1, <2>2, WaitSlots
<1> QED
  BY <1>1, <1>2, <1>3, <1>4, <1>5, <1>6 DEF Answer

\* A spawn that throws keeps its slot for good: what follows supposes that none does.
SpawnAnswers == "throws" \notin Methods

LEMMA StepSlots ==
  ASSUME SpawnAnswers, Inv, SlotsOK, [Next]_vars
  PROVE  SlotsOK'
<1>1. ASSUME NEW t \in Threads, Continue(t) \/ Answer(t) \/ Calls(t)
      PROVE  SlotsOK'
  BY <1>1, ContinueSlots, AnswerSlots, CallsSlots
<1>2. ASSUME NEW p \in Procs, LateAnswer(p)
      PROVE  SlotsOK'
  <2>1. stacks' = stacks /\ gate' = gate /\ processes' = [processes EXCEPT ![p].late = FALSE]
    BY <1>2 DEF LateAnswer
  <2> QED
    BY <2>1, LateStays, SlotsStill
<1>3. ASSUME NEW s \in Services,
             Adopt(s) \/ PollAsk(s) \/ PollAnswer(s) \/ LeftoverExits(s) \/ FileChanged(s)
      PROVE  SlotsOK'
  <2>1. UNCHANGED <<stacks, gate, processes>>
    BY <1>3 DEF Adopt, PollAsk, PollAnswer, LeftoverExits, FileChanged, procVars
  <2> QED
    BY <2>1, SlotsStill DEF PhasesStay
<1>4. CASE UNCHANGED vars
  <2>1. UNCHANGED <<stacks, gate, processes>>
    BY <1>4 DEF vars, procVars
  <2> QED
    BY <2>1, SlotsStill DEF PhasesStay
<1> QED
  BY <1>1, <1>2, <1>3, <1>4, ExitSlots DEF Next, SpawnThrows, SpawnAnswers

LEMMA InitSlots ==
  ASSUME Init
  PROVE  SlotsOK
BY DEF Init, SlotsOK, Gate!EmptyGate, Gate!Queued

(***************************************************************************)
(* A slot is held by a launch that is on its way up and by nothing else:   *)
(* whatever way a start ends - called off, failed, died, refused, ready -  *)
(* it has given its slot back, and a heavy start never waits for one that  *)
(* is gone (supervisor.ts, the releases of the launch gate), as long as no *)
(* spawn throws.                                                           *)
(***************************************************************************)
THEOREM SlotsInUseHolds ==
  ASSUME SpawnAnswers
  PROVE  Spec => []SlotsInUse
<1>1. Inv /\ SlotsOK => SlotsInUse
  <2> SUFFICES ASSUME Inv, SlotsOK, NEW p \in gate.held
               PROVE  \E f \in InFlight : f.proc = p /\ f.at \in {"gate", "boot", "probe", "task"}
    BY DEF SlotsInUse
  <2>1. PICK t \in Threads : OnItsWay(p, t)
    BY DEF SlotsOK
  <2>2. Top(t) = stacks[t][1] /\ 1 \in DOMAIN stacks[t]
    BY <2>1 DEF OnItsWay, Busy, Top, Inv, StacksOK
  <2>3. Top(t) \in InFlight
    BY <2>2 DEF InFlight
  <2> QED
    BY <2>1, <2>3 DEF OnItsWay
<1>2. Init => Inv /\ SlotsOK
  BY InitInv, InitSlots
<1>3. Inv /\ SlotsOK /\ [Next]_vars => Inv' /\ SlotsOK'
  BY StepInv, StepSlots
<1> QED
  BY <1>1, <1>2, <1>3, PTL DEF Spec

(***************************************************************************)
(* Whoever stands in line is there to take the slot when its turn comes:   *)
(* one that was stopped or superseded keeps its place and gives the slot   *)
(* back, but none is a launch that has ended, as long as no spawn throws.  *)
(***************************************************************************)
THEOREM LineIsAlive ==
  ASSUME SpawnAnswers
  PROVE  Spec => [](\A p \in Gate!Queued(gate) : \E t \in Threads : InLine(p, t))
<1>1. Init => Inv /\ SlotsOK
  BY InitInv, InitSlots
<1>2. Inv /\ SlotsOK /\ [Next]_vars => Inv' /\ SlotsOK'
  BY StepInv, StepSlots
<1>3. SlotsOK => \A p \in Gate!Queued(gate) : \E t \in Threads : InLine(p, t)
  BY DEF SlotsOK
<1> QED
  BY <1>1, <1>2, <1>3, PTL DEF Spec
=============================================================================
