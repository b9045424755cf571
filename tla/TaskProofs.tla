----------------------------- MODULE TaskProofs -----------------------------
(***************************************************************************)
(* What keeps a task of a team moving, in order and with no run left over, *)
(* for every number of tasks and members and every plan.  It is about one  *)
(* task at a time - its record k, its launch l, its turns T and the table  *)
(* of batches B - and says how they fit (Fit), where the task waits        *)
(* (Waits) and who moves it on (Pursued).  An operator of the engine that  *)
(* returns a state Settles task t when t fits there and the other tasks    *)
(* are as they were.                                                       *)
(***************************************************************************)
EXTENDS TeamProofs

Active(k) == IsTaskActive(k)

\* Not yet approved.
Early(k) == \/ k.status \in {"none", "planning", "questions", "proposed", "failed"}
            \/ k.status = "queued" /\ k.resumes # "carryOn"

PieceFit(p) == (p.batch # 0 => p.status \in {"running", "paused"}) /\ (p.clash => p.status = "done")
Idle(p) == p.batch = 0 /\ p.status \notin {"running", "paused"}
Resting(k) == \A j \in Stages : k.stages[j].status # "running"

StagesFit(k) ==
    \A j \in Stages :
        LET s == k.stages[j]
        IN  /\ \A m \in Members : PieceFit(s.pieces[m])
            /\ Settled(s) => \A m \in Plan[j].who : Settled(s.pieces[m])
            /\ s.status # "running" => \A m \in Members : Idle(s.pieces[m])
            /\ s.status = "running" =>
                  j = k.at /\ (k.status = "running" \/ (k.status = "waiting" /\ k.why = "failed"))
            /\ j < k.at => Settled(s)

EarlyFit(k, l, T) == Early(k) =>
    /\ l = NoLaunch /\ T = {} /\ k.at = 1 /\ k.resumes # "carryOn"
    /\ \A j \in Stages : k.stages[j].status = "pending"

LaunchFit(k, l) ==
    /\ l.at # "none" => IsMemberStage(l.stage)
    /\ l.at # "commissioning" => l.batch = 0
    /\ l.at # "none" /\ Active(k) =>
          /\ l.stage <= k.at
          /\ l.stage # k.at /\ k.at \in Stages /\ IsMemberStage(k.at) => k.stages[k.at].status # "running"
          /\ l.stage = k.at =>
                /\ k.status = "running" /\ k.stages[k.at].status = "running"
                /\ \A m \in Plan[k.at].who :
                      l.at = "ending" \/ (l.at \in {"commissioning", "refused"} /\ m <= l.member)
                      => k.stages[k.at].pieces[m].status # "pending"
          /\ l.at \in {"commissioning", "refused"} =>
                LET p == k.stages[l.stage].pieces[l.member]
                IN  p.status = "skipped" \/ (p.status = "running" /\ p.batch = l.batch)

\* Piece m of stage j.
RunFit(t, j, m, p, l, B) ==
    /\ p.batch # 0 =>
          /\ m \in Plan[j].who /\ p.batch \in DOMAIN B
          /\ B[p.batch].task = t /\ B[p.batch].stage = j /\ B[p.batch].member = m
    /\ p.batch = 0 /\ p.status \in {"running", "paused"} =>
          l.at = "refused" /\ l.stage = j /\ l.member = m

RunsFit(t, k, l, B) ==
    \A j \in Stages, m \in Members : RunFit(t, j, m, k.stages[j].pieces[m], l, B)

BatchesFit(t, k, l, B) ==
    \A b \in DOMAIN B : B[b].task = t =>
        /\ B[b].member \in Plan[B[b].stage].who
        /\ \/ l.at = "commissioning" /\ l.batch = b
           \/ k.stages[B[b].stage].pieces[B[b].member].batch = b

TurnsFit(k, T) ==
    \A j \in T : /\ ~IsMemberStage(j)
                 /\ Active(k) => j <= k.at
                 /\ Active(k) /\ j = k.at => k.status = "running" /\ k.stages[j].status = "running"

Fit(t, k, l, T, B) ==
    /\ Held(t, l, B) /\ StagesFit(k) /\ EarlyFit(k, l, T) /\ LaunchFit(k, l)
    /\ RunsFit(t, k, l, B) /\ BatchesFit(t, k, l, B) /\ TurnsFit(k, T)

Waits(k, l) ==
    /\ k.status = "waiting" =>
          LET s == k.stages[k.at]
          IN  /\ k.at \in Stages /\ k.why # "none"
              /\ k.why # "failed" => s.status = "pending"
              /\ k.why = "failed" =>
                    /\ \A m \in Plan[k.at].who : Settled(s.pieces[m])
                    /\ IsMemberStage(k.at) => l = NoLaunch
                    /\ \/ s.status = "running" /\ IsMemberStage(k.at)
                       \/ s.status = "failed" /\ \A m \in Plan[k.at].who : ~s.pieces[m].clash
    /\ k.status = "running" => k.at \in Stages /\ ~Settled(k.stages[k.at])
    /\ k.status # "waiting" => k.why = "none"

Pursued(k, l, T) == k.status = "running" =>
    \/ l # NoLaunch /\ (l.stage # k.at /\ k.stages[k.at].status = "running" => k.at \in T)
    \/ k.at \in T
    \/ /\ IsMemberStage(k.at) /\ k.stages[k.at].status = "running"
       /\ \A m \in Plan[k.at].who : k.stages[k.at].pieces[m].status # "pending"
       /\ \E m \in Plan[k.at].who : k.stages[k.at].pieces[m].batch # 0

TurnsOf(e, t) == {j \in Stages : <<t, j>> \in e.turns}

FitAt(e, t)     == Fit(t, e.tasks[t], e.launches[t], TurnsOf(e, t), e.batches)
WaitsAt(e, t)   == Waits(e.tasks[t], e.launches[t])
PursuedAt(e, t) == Pursued(e.tasks[t], e.launches[t], TurnsOf(e, t))
FullAt(e, t)    == FitAt(e, t) /\ WaitsAt(e, t) /\ PursuedAt(e, t)

AllFull(e) == e \in Team /\ \A t \in Tasks : FullAt(e, t)

LEMMA WhoOf ==
    ASSUME NEW j \in Stages
    PROVE  /\ ~IsMemberStage(j) => Plan[j].who = {}
           /\ IsMemberStage(j) => Plan[j].who # {}
           /\ Plan[j].who \subseteq Members
<1>1. Plan[j].kind \in Kinds
  <2> DEFINE R == [kind : Kinds, who : SUBSET Members]
  <2>1. Plan \in Seq(R)
    BY PlanAssumption
  <2> HIDE DEF R
  <2>2. Plan[j] \in R
    BY <2>1 DEF Stages
  <2> QED
    BY <2>2 DEF R
<1>2. (Plan[j].kind \in {"draft", "synthesize"}) <=> (Plan[j].who = {})
  BY PlanAssumption
<1> QED
  BY <1>1, <1>2, Sizes DEF Kinds, IsMemberStage

LEMMA TaskTyped ==
    ASSUME NEW k \in Task
    PROVE  /\ k.status \in TaskStatus /\ k.why \in Whys /\ k.at \in 1..(Len(Plan) + 1)
           /\ k.resumes \in {"no", "approved", "carryOn"}
           /\ \A j \in Stages :
                 /\ k.stages[j] \in Stage /\ k.stages[j].status \in StageStatus
                 /\ k.stages[j].pieces \in [Members -> Piece]
                 /\ \A m \in Members :
                       /\ k.stages[j].pieces[m] \in Piece
                       /\ k.stages[j].pieces[m].status \in PieceStatus
                       /\ k.stages[j].pieces[m].batch \in Nat
                       /\ k.stages[j].pieces[m].clash \in BOOLEAN
<1>1. k.stages \in [Stages -> Stage]
  BY DEF Task
<1>2. \A j \in Stages : /\ k.stages[j] \in Stage /\ k.stages[j].status \in StageStatus
                        /\ k.stages[j].pieces \in [Members -> Piece]
  BY <1>1 DEF Stage
<1>3. \A j \in Stages, m \in Members : k.stages[j].pieces[m] \in Piece
  BY <1>2
<1>4. \A p \in Piece : p.status \in PieceStatus /\ p.batch \in Nat /\ p.clash \in BOOLEAN
  BY DEF Piece
<1> QED
  BY <1>2, <1>3, <1>4 DEF Task

\* The pieces of n are where those of k are.
SamePieces(k, n) ==
    \A j \in Stages, m \in Members :
        /\ n.stages[j].pieces[m].status = k.stages[j].pieces[m].status
        /\ n.stages[j].pieces[m].batch = k.stages[j].pieces[m].batch

LEMMA SameRuns ==
    ASSUME NEW t, NEW k, NEW n, NEW l, NEW B \in Tables, SamePieces(k, n),
           RunsFit(t, k, l, B), BatchesFit(t, k, l, B)
    PROVE  RunsFit(t, n, l, B) /\ BatchesFit(t, n, l, B)
<1>1. RunsFit(t, n, l, B)
  <2>1. \A j \in Stages, m \in Members :
          /\ n.stages[j].pieces[m].status = k.stages[j].pieces[m].status
          /\ n.stages[j].pieces[m].batch = k.stages[j].pieces[m].batch
    BY DEF SamePieces
  <2> SUFFICES ASSUME NEW j \in Stages, NEW m \in Members
               PROVE  RunFit(t, j, m, n.stages[j].pieces[m], l, B)
    BY DEF RunsFit
  <2>2. RunFit(t, j, m, k.stages[j].pieces[m], l, B)
    BY DEF RunsFit
  <2> QED
    BY <2>1, <2>2 DEF RunFit
<1>2. \A b \in DOMAIN B : B[b].stage \in Stages /\ B[b].member \in Members
  BY TableIs DEF Batch
<1>3. BatchesFit(t, n, l, B)
  BY <1>2 DEF BatchesFit, SamePieces
<1> QED
  BY <1>1, <1>3

\* Where every piece in hand is over, none of the stage's runs goes on.
LEMMA IdleAll ==
    ASSUME NEW t, NEW k \in Task, NEW l, NEW T, NEW B, Fit(t, k, l, T, B), NEW j \in Stages,
           \A m \in Plan[j].who : Settled(k.stages[j].pieces[m])
    PROVE  \A m \in Members : Idle(k.stages[j].pieces[m])
<1> SUFFICES ASSUME NEW m \in Members PROVE Idle(k.stages[j].pieces[m])
  OBVIOUS
<1> DEFINE p == k.stages[j].pieces[m]
<1>1. PieceFit(p)
  BY DEF Fit, StagesFit
<1>2. CASE m \in Plan[j].who
  BY <1>1, <1>2 DEF Idle, PieceFit, Settled
<1>3. CASE m \notin Plan[j].who
  <2>1. p.batch = 0
    BY <1>3 DEF Fit, RunsFit, RunFit
  <2>2. p.status \in {"running", "paused"} => l.at = "refused" /\ l.stage = j /\ l.member = m
    BY <2>1 DEF Fit, RunsFit, RunFit
  <2>3. l.at = "refused" => l.member \in Plan[l.stage].who
    BY DEF Fit, Held
  <2> QED
    BY <1>3, <2>1, <2>2, <2>3 DEF Idle
<1> QED
  BY <1>2, <1>3

\* A task that is not running has nothing going at the stage it is at.
LEMMA NotHere ==
    ASSUME NEW k, NEW l, NEW T, LaunchFit(k, l), TurnsFit(k, T), Active(k), k.status # "running"
    PROVE  (l.at = "none" \/ l.stage # k.at) /\ k.at \notin T
  BY DEF LaunchFit, TurnsFit

\* The task rests, at the stage it was at or further on.
LEMMA RestFit ==
    ASSUME NEW t, NEW k \in Task, NEW l \in Launch, NEW T \in SUBSET Stages, NEW B \in Tables,
           Fit(t, k, l, T, B), Active(k),
           NEW n \in Task, SamePieces(k, n), ~Early(n), StagesFit(n), Resting(n), k.at <= n.at,
           n.at = k.at => (l.at = "none" \/ l.stage # k.at) /\ k.at \notin T
    PROVE  Fit(t, n, l, T, B)
<1>1. RunsFit(t, n, l, B) /\ BatchesFit(t, n, l, B)
  BY SameRuns DEF Fit
<1>2. k.at \in Nat /\ n.at \in Nat
  BY TaskTyped
<1>3. l.at # "none" => l.stage \in Stages
  BY DEF Fit, Held
<1>4. l.at \in {"commissioning", "refused"} => l.member \in Members
  BY Sizes DEF Fit, Held
<1>5. l.at # "none" => l.stage <= k.at /\ l.stage <= n.at /\ l.stage # n.at
  <2>1. l.at # "none" => l.stage <= k.at
    BY DEF Fit, LaunchFit
  <2>2. l.at # "none" => l.stage \in Nat
    BY <1>3, Sizes
  <2> QED
    BY <1>2, <2>1, <2>2
<1>6. LaunchFit(n, l)
  <2>1. LaunchFit(k, l)
    BY DEF Fit
  <2>2. n.at \in Stages => n.stages[n.at].status # "running"
    BY DEF Resting
  <2>3. l.at \in {"commissioning", "refused"} =>
           /\ n.stages[l.stage].pieces[l.member].status = k.stages[l.stage].pieces[l.member].status
           /\ n.stages[l.stage].pieces[l.member].batch = k.stages[l.stage].pieces[l.member].batch
    BY <1>3, <1>4 DEF SamePieces
  <2> QED
    BY <1>5, <2>1, <2>2, <2>3 DEF LaunchFit
<1>7. TurnsFit(n, T)
  <2>1. TurnsFit(k, T)
    BY DEF Fit
  <2>2. \A j \in T : j \in Nat
    BY Sizes
  <2>3. \A j \in T : j <= k.at /\ j <= n.at /\ j # n.at
    BY <1>2, <2>1, <2>2 DEF TurnsFit
  <2> QED
    BY <2>1, <2>3 DEF TurnsFit
<1> QED
  BY <1>1, <1>6, <1>7 DEF Fit, EarlyFit

LEMMA GoingSame ==
    ASSUME NEW A, NEW B, NEW u, Going(B, u) = Going(A, u)
    PROVE  /\ \A b : b \in DOMAIN B /\ B[b].task = u <=> b \in DOMAIN A /\ A[b].task = u
           /\ \A b \in DOMAIN A : A[b].task = u => B[b] = A[b]
<1>1. \A b : b \in DOMAIN B /\ B[b].task = u <=> b \in DOMAIN A /\ A[b].task = u
  <2>1. DOMAIN Going(B, u) = DOMAIN Going(A, u)
    OBVIOUS
  <2> QED
    BY <2>1 DEF Going
<1>2. \A b \in DOMAIN A : A[b].task = u => B[b] = A[b]
  <2> SUFFICES ASSUME NEW b \in DOMAIN A, A[b].task = u PROVE B[b] = A[b]
    OBVIOUS
  <2>1. Going(B, u)[b] = Going(A, u)[b]
    OBVIOUS
  <2> QED
    BY <2>1, <1>1 DEF Going
<1> QED
  BY <1>1, <1>2

\* What is true of a task is a matter of its own part.
LEMMA FullOfSlice ==
    ASSUME NEW e, NEW f, NEW u, Slice(f, u) = Slice(e, u)
    PROVE  /\ FitAt(e, u) => FitAt(f, u)
           /\ WaitsAt(e, u) => WaitsAt(f, u)
           /\ PursuedAt(e, u) => PursuedAt(f, u)
           /\ FullAt(e, u) => FullAt(f, u)
<1> DEFINE k == e.tasks[u]  l == e.launches[u]  T == TurnsOf(e, u)  A == e.batches  B == f.batches
<1>1. f.tasks[u] = k /\ f.launches[u] = l /\ TurnsOf(f, u) = T /\ Going(B, u) = Going(A, u)
  BY DEF Slice, TurnsOf
<1>2. /\ \A b : b \in DOMAIN B /\ B[b].task = u <=> b \in DOMAIN A /\ A[b].task = u
      /\ \A b \in DOMAIN A : A[b].task = u => B[b] = A[b]
  BY <1>1, GoingSame
<1>3. WaitsAt(e, u) => WaitsAt(f, u)
  BY <1>1 DEF WaitsAt
<1>4. PursuedAt(e, u) => PursuedAt(f, u)
  BY <1>1 DEF PursuedAt
<1>5. ASSUME FitAt(e, u) PROVE FitAt(f, u)
  <2> HIDE DEF T
  <2>1. Fit(u, k, l, T, A)
    BY <1>5 DEF FitAt, T
  <2>2. Held(u, l, B)
    BY <1>5, <1>1, HeldOfSlice DEF FitAt, Fit
  <2>3. RunsFit(u, k, l, B)
    <3> SUFFICES ASSUME NEW j \in Stages, NEW m \in Members
                 PROVE  RunFit(u, j, m, k.stages[j].pieces[m], l, B)
      BY DEF RunsFit
    <3>1. RunFit(u, j, m, k.stages[j].pieces[m], l, A)
      BY <2>1 DEF Fit, RunsFit
    <3> QED
      BY <1>2, <3>1 DEF RunFit
  <2>4. BatchesFit(u, k, l, B)
    BY <1>2, <2>1, ZenonT(60) DEF Fit, BatchesFit
  <2>5. Fit(u, k, l, T, B)
    BY <2>1, <2>2, <2>3, <2>4 DEF Fit
  <2> QED
    BY <1>1, <2>5 DEF FitAt
<1> QED
  BY <1>3, <1>4, <1>5 DEF FullAt

LEMMA FullElsewhere ==
    ASSUME NEW e, NEW f, NEW t \in Tasks, f \in Team, Local(e, f, t), FullAt(f, t),
           \A u \in Tasks \ {t} : FullAt(e, u)
    PROVE  AllFull(f)
<1>1. \A u \in Tasks \ {t} : FullAt(f, u)
  BY FullOfSlice DEF Local
<1> QED
  BY <1>1 DEF AllFull

\* The parts of a task's own, and what they are.
Own(e, t, k, l, T, B) ==
    e.tasks[t] = k /\ e.launches[t] = l /\ TurnsOf(e, t) = T /\ e.batches = B

LEMMA OwnFull ==
    ASSUME NEW e, NEW t, NEW k, NEW l, NEW T, NEW B, Own(e, t, k, l, T, B)
    PROVE  /\ FitAt(e, t) <=> Fit(t, k, l, T, B)
           /\ WaitsAt(e, t) <=> Waits(k, l)
           /\ PursuedAt(e, t) <=> Pursued(k, l, T)
           /\ FullAt(e, t) <=> Fit(t, k, l, T, B) /\ Waits(k, l) /\ Pursued(k, l, T)
  BY DEF Own, FitAt, WaitsAt, PursuedAt, FullAt

LEMMA OwnTyped ==
    ASSUME NEW e \in Team, NEW t \in Tasks
    PROVE  /\ Own(e, t, e.tasks[t], e.launches[t], TurnsOf(e, t), e.batches)
           /\ e.tasks[t] \in Task /\ e.launches[t] \in Launch /\ TurnsOf(e, t) \in SUBSET Stages
           /\ e.batches \in Tables
  BY DEF Own, Team, TurnsOf

LEMMA RetaskOwn ==
    ASSUME NEW e, NEW f, NEW t \in Tasks, NEW n, Retask(e, f, t, n)
    PROVE  Own(f, t, n, e.launches[t], TurnsOf(e, t), e.batches) /\ f \in Team
  BY DEF Own, Retask, TurnsOf

LEMMA MovedOwn ==
    ASSUME NEW e, NEW f, NEW t \in Tasks, NEW n, NEW l, NEW B, Moved(e, f, t, n, l, B)
    PROVE  Own(f, t, n, l, TurnsOf(e, t), B) /\ f \in Team
  BY DEF Own, Moved, TurnsOf

LEMMA TurningOwn ==
    ASSUME NEW e, NEW f, NEW t \in Tasks, NEW n, NEW T, Turning(e, f, t, n, T)
    PROVE  Own(f, t, n, e.launches[t], {j \in Stages : <<t, j>> \in T}, e.batches) /\ f \in Team
  BY DEF Own, Turning, TurnsOf

\* A launch that begins where nothing of the task is being launched.
LEMMA LaunchBegins ==
    ASSUME NEW t, NEW k, NEW l, NEW T, NEW B, Fit(t, k, NoLaunch, T, B), ~Early(k),
           Held(t, l, B), LaunchFit(k, l)
    PROVE  Fit(t, k, l, T, B)
<1>1. NoLaunch.at = "none"
  BY DEF NoLaunch
<1>2. RunsFit(t, k, l, B)
  <2> SUFFICES ASSUME NEW j \in Stages, NEW m \in Members
               PROVE  RunFit(t, j, m, k.stages[j].pieces[m], l, B)
    BY DEF RunsFit
  <2>1. RunFit(t, j, m, k.stages[j].pieces[m], NoLaunch, B)
    BY DEF Fit, RunsFit
  <2> QED
    BY <1>1, <2>1 DEF RunFit
<1>3. BatchesFit(t, k, l, B)
  BY <1>1 DEF Fit, BatchesFit
<1> QED
  BY <1>2, <1>3 DEF Fit, EarlyFit

LEMMA PiecedStages ==
    ASSUME NEW k \in Task, NEW m \in Members, NEW p \in Piece, StagesFit(k), k.at \in Stages,
           k.stages[k.at].status = "running", PieceFit(p)
    PROVE  StagesFit(Pieced(k, k.at, m, p))
<1> DEFINE n == Pieced(k, k.at, m, p)
<1>1. /\ n.status = k.status /\ n.why = k.why /\ n.at = k.at
      /\ \A i \in Stages \ {k.at} : n.stages[i] = k.stages[i]
      /\ n.stages[k.at].status = "running"
      /\ n.stages[k.at].pieces[m] = p
      /\ \A x \in Members \ {m} : n.stages[k.at].pieces[x] = k.stages[k.at].pieces[x]
  BY PiecedIs
<1> HIDE DEF n
<1>2. StagesFit(n)
  BY <1>1 DEF StagesFit, Settled
<1> QED
  BY <1>2 DEF n

\* A member's stage may be commissioned from the member after m.
Ready(k, T, j, m) ==
    /\ IsMemberStage(j) /\ ~Early(k) /\ Waits(k, Ending(j))
    /\ Active(k) =>
          /\ j <= k.at
          /\ j = k.at =>
                /\ k.status = "running" /\ k.stages[k.at].status = "running"
                /\ \A x \in Plan[j].who : x <= m => k.stages[j].pieces[x].status # "pending"
          /\ j # k.at /\ k.at \in Stages /\ k.stages[k.at].status = "running" =>
                ~IsMemberStage(k.at) /\ (k.status = "running" => k.at \in T)

LEMMA EndingIs ==
    ASSUME NEW j
    PROVE  /\ Ending(j).at = "ending" /\ Ending(j).stage = j /\ Ending(j).batch = 0
           /\ Ending(j) # NoLaunch
  BY DEF Ending, NoLaunch

LEMMA LaunchingIs ==
    ASSUME NEW at, at # "none", NEW j, NEW n, NEW b
    PROVE  /\ Launching(at, j, n, b).at = at /\ Launching(at, j, n, b).stage = j
           /\ Launching(at, j, n, b).member = n /\ Launching(at, j, n, b).batch = b
           /\ Launching(at, j, n, b) # NoLaunch
  BY DEF Launching, NoLaunch

LEMMA CommissionEndsFull ==
    ASSUME NEW e \in Team, NEW t \in Tasks, NEW j \in Stages, NEW m \in Nat, NEW f,
           FitAt([e EXCEPT !.launches[t] = NoLaunch], t), Ready(e.tasks[t], TurnsOf(e, t), j, m),
           CommissionEnds(e, f, t, j, m)
    PROVE  FullAt(f, t)
<1> DEFINE k == e.tasks[t]  T == TurnsOf(e, t)  B == e.batches  l == Ending(j)
<1>1. k \in Task /\ T \in SUBSET Stages /\ B \in Tables
  BY OwnTyped
<1>2. Own([e EXCEPT !.launches[t] = NoLaunch], t, k, NoLaunch, T, B)
  BY DEF Own, Team, TurnsOf
<1>3. Fit(t, k, NoLaunch, T, B)
  BY <1>2, OwnFull
<1>4. Own(f, t, k, l, T, B)
  BY MovedOwn DEF CommissionEnds
<1> HIDE DEF k, T, B
<1>5. l.at = "ending" /\ l.stage = j /\ l.batch = 0 /\ l # NoLaunch
  BY EndingIs
<1>6. NoneStarting(t, B)
  BY <1>3, NoneStartingWithout DEF Fit
<1> HIDE DEF l
<1>7. Held(t, l, B)
  BY <1>5, <1>6, HeldIdle
<1>8. \A x \in Plan[j].who : x \in Nat
  BY WhoOf, Sizes
<1>9. k.status = "running" => \A x \in Plan[j].who : x > m => k.stages[j].pieces[x].status # "pending"
  BY DEF CommissionEnds, k
<1>10. LaunchFit(k, l)
  <2>1. /\ IsMemberStage(j)
        /\ Active(k) =>
              /\ j <= k.at
              /\ j = k.at =>
                    /\ k.status = "running" /\ k.stages[k.at].status = "running"
                    /\ \A x \in Plan[j].who : x <= m => k.stages[j].pieces[x].status # "pending"
              /\ j # k.at /\ k.at \in Stages /\ k.stages[k.at].status = "running" =>
                    ~IsMemberStage(k.at)
    BY DEF Ready, k, T
  <2>2. Active(k) /\ j = k.at =>
           \A x \in Plan[j].who : k.stages[j].pieces[x].status # "pending"
    BY <1>8, <1>9, <2>1
  <2> QED
    BY ONLY <1>5, <2>1, <2>2 DEF LaunchFit
<1>11. Fit(t, k, l, T, B)
  BY <1>3, <1>7, <1>10, LaunchBegins DEF Ready, k
<1>12. Waits(k, l)
  BY DEF Ready, k, l
<1>13. Pursued(k, l, T)
  BY <1>5 DEF Pursued, Ready, k, T, Active, IsTaskActive, Waits
<1> QED
  BY <1>4, <1>11, <1>12, <1>13, OwnFull

Fresh(k, j, n) == k.stages[j].pieces[n].batch = 0 /\ ~k.stages[j].pieces[n].clash

\* The piece that is next is one of the stage the task is at, and nobody's yet.
Upcoming(k, j, n) ==
    /\ j = k.at /\ k.stages[j].status = "running" /\ n \in Members
    /\ Fresh(k, j, n)
    /\ \A x \in Plan[j].who : x < n => k.stages[j].pieces[x].status # "pending"

LEMMA NextIsHere ==
    ASSUME NEW t, NEW k \in Task, NEW T, NEW B, Fit(t, k, NoLaunch, T, B), NEW j \in Stages,
           NEW m \in Nat, NEW n, NextPiece(k, j, m, n), k.status = "running", Ready(k, T, j, m)
    PROVE  Upcoming(k, j, n)
<1>1. n \in Members /\ \A x \in Plan[j].who : x \in Nat
  BY WhoOf, Sizes DEF NextPiece
<1>2. Active(k) /\ j \in Nat /\ k.at \in Nat
  BY Sizes, TaskTyped DEF Active, IsTaskActive
<1>3. k.stages[j].pieces[n].status = "pending"
  BY DEF NextPiece
<1>4. j = k.at
  <2>1. CASE j < k.at
    <3>1. Settled(k.stages[j].pieces[n])
      BY <2>1 DEF Fit, StagesFit, NextPiece
    <3> QED
      BY <1>3, <3>1 DEF Settled
  <2> QED
    BY <1>2, <2>1 DEF Ready
<1>5. k.stages[j].status = "running"
  BY <1>2, <1>4 DEF Ready
<1>6. PieceFit(k.stages[j].pieces[n])
  BY <1>1 DEF Fit, StagesFit
<1>7. Fresh(k, j, n)
  BY <1>3, <1>6 DEF PieceFit, Fresh
<1>8. \A x \in Plan[j].who : x < n => k.stages[j].pieces[x].status # "pending"
  <2> SUFFICES ASSUME NEW x \in Plan[j].who, x < n, k.stages[j].pieces[x].status = "pending" PROVE FALSE
    OBVIOUS
  <2>1. CASE x > m
    <3>1. n <= x
      BY <2>1 DEF NextPiece
    <3> QED
      BY <1>1, <3>1, Sizes
  <2>2. CASE ~(x > m)
    <3>1. x <= m
      BY <1>1, <2>2
    <3> QED
      BY <1>2, <1>4, <3>1 DEF Ready
  <2> QED
    BY <2>1, <2>2
<1> QED
  BY <1>1, <1>4, <1>5, <1>7, <1>8 DEF Upcoming

LEMMA OwnTypes ==
    ASSUME NEW e \in Team, NEW t \in Tasks, NEW k, NEW l, NEW T, NEW B, Own(e, t, k, l, T, B)
    PROVE  k \in Task /\ l \in Launch /\ T \in SUBSET Stages /\ B \in Tables
  BY OwnTyped DEF Own

LEMMA OwnIs ==
    ASSUME NEW e, NEW t, NEW k, NEW l, NEW T, NEW B, Own(e, t, k, l, T, B)
    PROVE  e.tasks[t] = k /\ e.launches[t] = l /\ TurnsOf(e, t) = T /\ e.batches = B
  BY DEF Own

\* The piece's commission is answered at once, with a refusal, or is in flight with its
\* batch.
\* C is B, perhaps with o under b.
Grown(B, C, b, o) ==
    /\ \A x \in DOMAIN B : x \in DOMAIN C /\ C[x] = B[x]
    /\ \A x \in DOMAIN C : x \in DOMAIN B \/ (x = b /\ C[x] = o)

LEMMA PieceLaunched ==
    ASSUME NEW t, NEW k \in Task, NEW T \in SUBSET Stages, NEW B \in Tables, NEW C \in Tables,
           NEW j \in Stages, NEW m \in Nat, NEW n, NEW p \in Piece, NEW l,
           Fit(t, k, NoLaunch, T, B), Ready(k, T, j, m), NextPiece(k, j, m, n),
           k.status = "running",
           p.status = "running", ~p.clash, l # NoLaunch,
           l.at \in {"commissioning", "refused"}, l.stage = j, l.member = n, l.batch = p.batch,
           Held(t, l, C), p.batch # 0 <=> l.at = "commissioning",
           Grown(B, C, p.batch, Starting(t, j, n))
    PROVE  /\ Fit(t, Pieced(k, j, n, p), l, T, C) /\ Waits(Pieced(k, j, n, p), l)
           /\ Pursued(Pieced(k, j, n, p), l, T)
<1> DEFINE x == Pieced(k, j, n, p)
<1> SUFFICES Fit(t, x, l, T, C) /\ Waits(x, l) /\ Pursued(x, l, T)
  OBVIOUS
<1>1. /\ j = k.at /\ k.stages[j].status = "running" /\ n \in Members /\ n \in Plan[j].who
      /\ k.stages[j].pieces[n].batch = 0
      /\ \A y \in Plan[j].who : y < n => k.stages[j].pieces[y].status # "pending"
  <2>1. Upcoming(k, j, n)
    BY NextIsHere
  <2> QED
    BY <2>1 DEF NextPiece, Upcoming, Fresh
<1>2. /\ x \in Task /\ x.status = k.status /\ x.why = k.why /\ x.at = k.at /\ x.resumes = k.resumes
      /\ \A i \in Stages \ {j} : x.stages[i] = k.stages[i]
      /\ x.stages[j].status = k.stages[j].status /\ x.stages[j].pieces[n] = p
      /\ \A y \in Members \ {n} : x.stages[j].pieces[y] = k.stages[j].pieces[y]
  BY <1>1, PiecedIs
<1>3. StagesFit(x)
  <2>1. PieceFit(p)
    BY DEF PieceFit
  <2>2. StagesFit(k)
    BY DEF Fit
  <2> QED
    BY <1>1, <2>1, <2>2, PiecedStages
<1> HIDE DEF x
<1>4. ~Early(x) /\ Active(x)
  BY <1>2 DEF Early, Active, IsTaskActive
<1>5. LaunchFit(x, l)
  <2>1. IsMemberStage(j)
    BY DEF Ready
  <2>2. \A y \in Plan[j].who : y <= n => x.stages[j].pieces[y].status # "pending"
    <3> SUFFICES ASSUME NEW y \in Plan[j].who, y <= n PROVE x.stages[j].pieces[y].status # "pending"
      OBVIOUS
    <3>1. CASE y = n
      BY <1>2, <3>1
    <3>2. CASE y # n
      <4>1. y \in Members /\ y < n
        BY <1>1, <3>2, WhoOf, Sizes
      <4> QED
        BY <1>1, <1>2, <3>2, <4>1
    <3> QED
      BY <3>1, <3>2
  <2>3. j <= k.at
    BY <1>1, Sizes
  <2> QED
    BY <1>1, <1>2, <2>1, <2>2, <2>3 DEF LaunchFit
<1>6. NoLaunch.at = "none"
  BY DEF NoLaunch
<1>7. \A i \in Stages, y \in Members :
         (i # j \/ y # n) => x.stages[i].pieces[y] = k.stages[i].pieces[y]
  BY <1>2
<1>8. RunsFit(t, x, l, C)
  <2> SUFFICES ASSUME NEW i \in Stages, NEW y \in Members
               PROVE  RunFit(t, i, y, x.stages[i].pieces[y], l, C)
    BY DEF RunsFit
  <2>1. RunFit(t, i, y, k.stages[i].pieces[y], NoLaunch, B)
    BY DEF Fit, RunsFit
  <2>2. CASE i = j /\ y = n
    <3>1. p.batch # 0 => p.batch \in DOMAIN C /\ C[p.batch] = Starting(t, j, n)
      BY DEF Held, Starting
    <3> QED
      <4>1. p.batch # 0 => C[p.batch].task = t /\ C[p.batch].stage = j /\ C[p.batch].member = n
        BY <3>1 DEF Starting
      <4>2. x.stages[i].pieces[y] = p
        BY <1>2, <2>2
      <4>3. p.batch = 0 => l.at = "refused"
        OBVIOUS
      <4>4. RunFit(t, j, n, p, l, C)
        BY ONLY <1>1, <3>1, <4>1, <4>3, l.stage = j, l.member = n DEF RunFit
      <4> QED
        BY <2>2, <4>2, <4>4
  <2>3. CASE ~(i = j /\ y = n)
    <3>1. x.stages[i].pieces[y] = k.stages[i].pieces[y]
      BY <1>7, <2>3
    <3> QED
      BY <1>6, <2>1, <3>1 DEF RunFit, Grown
  <2> QED
    BY <2>2, <2>3
<1>9. BatchesFit(t, x, l, C)
  <2> SUFFICES ASSUME NEW b \in DOMAIN C, C[b].task = t
               PROVE  /\ C[b].member \in Plan[C[b].stage].who
                      /\ \/ l.at = "commissioning" /\ l.batch = b
                         \/ x.stages[C[b].stage].pieces[C[b].member].batch = b
    BY DEF BatchesFit
  <2> DEFINE i == C[b].stage  y == C[b].member
  <2>1. b \in Nat \ {0} /\ i \in Stages /\ y \in Members
    BY TableIs DEF Batch
  <2>2. CASE b \in DOMAIN B
    <3>1. C[b] = B[b]
      BY <2>2 DEF Grown
    <3>2. y \in Plan[i].who /\ k.stages[i].pieces[y].batch = b
      BY <1>6, <2>2, <3>1 DEF Fit, BatchesFit
    <3> HIDE DEF i, y
    <3>3. i # j \/ y # n
      BY <1>1, <2>1, <3>2
    <3>4. x.stages[i].pieces[y] = k.stages[i].pieces[y]
      BY <1>7, <2>1, <3>3
    <3>5. y \in Plan[i].who /\ x.stages[i].pieces[y].batch = b
      BY <3>2, <3>4
    <3> QED
      BY <3>5 DEF i, y
  <2>3. CASE b \notin DOMAIN B
    <3>1. b = p.batch /\ i = j /\ y = n
      BY <2>3 DEF Grown, Starting
    <3> HIDE DEF i, y
    <3>2. y \in Plan[i].who /\ x.stages[i].pieces[y].batch = b
      BY <1>1, <1>2, <3>1
    <3> QED
      BY <3>2 DEF i, y
  <2> QED
    BY <2>2, <2>3
<1>10. TurnsFit(x, T)
  BY <1>1, <1>2 DEF Fit, TurnsFit, Active, IsTaskActive
<1>11. Fit(t, x, l, T, C)
  BY <1>3, <1>4, <1>5, <1>8, <1>9, <1>10 DEF Fit, EarlyFit
<1>12. Waits(x, l)
  BY <1>1, <1>2 DEF Waits, Ready, Settled
<1>13. Pursued(x, l, T)
  BY <1>1, <1>2 DEF Pursued
<1> QED
  BY <1>11, <1>12, <1>13

LEMMA CommissionFull ==
    ASSUME NEW e \in Team, NEW t \in Tasks, NEW k, NEW h, NEW T, NEW B, Own(e, t, k, h, T, B),
           NEW j \in Stages, NEW m \in Nat, Fit(t, k, NoLaunch, T, B), Ready(k, T, j, m)
    PROVE  FullAt(Commission(e, t, j, m), t)
<1> DEFINE f == Commission(e, t, j, m)
<1>1. CommissionEnds(e, f, t, j, m) \/ CommissionRefuses(e, f, t, j, m) \/ CommissionStarts(e, f, t, j, m)
  BY CommissionIs
<1> HIDE DEF f
<1> SUFFICES FullAt(f, t)
  BY DEF f
<1>2. k \in Task /\ T \in SUBSET Stages /\ B \in Tables
  BY OwnTypes
<1>3. e.tasks[t] = k /\ TurnsOf(e, t) = T /\ e.batches = B
  BY OwnIs
<1>4. NoneStarting(t, B)
  BY <1>2, NoneStartingWithout DEF Fit
<1>5. CASE CommissionEnds(e, f, t, j, m)
  <2>1. Own([e EXCEPT !.launches[t] = NoLaunch], t, k, NoLaunch, T, B)
    BY <1>3 DEF Own, Team, TurnsOf
  <2>2. FitAt([e EXCEPT !.launches[t] = NoLaunch], t)
    BY <2>1, OwnFull
  <2> QED
    BY <1>3, <1>5, <2>2, CommissionEndsFull
<1>6. CASE CommissionRefuses(e, f, t, j, m)
  <2>1. PICK n \in Members :
          /\ NextPiece(k, j, m, n) /\ k.status = "running"
          /\ Moved(e, f, t, Pieced(k, j, n, [k.stages[j].pieces[n] EXCEPT !.status = "running"]),
                   Launching("refused", j, n, 0), B)
    BY <1>3, <1>6 DEF CommissionRefuses
  <2> DEFINE q == k.stages[j].pieces[n]
             p == [q EXCEPT !.status = "running"]
             l == Launching("refused", j, n, 0)
  <2>2. q \in Piece
    BY <1>2, TaskTyped
  <2>3. NextPiece(k, j, m, n) /\ k.status = "running"
    BY <2>1
  <2>4. q.batch = 0 /\ ~q.clash
    <3>1. Upcoming(k, j, n)
      BY <1>2, <2>3, NextIsHere
    <3> QED
      BY <3>1 DEF Upcoming, Fresh
  <2>5. p \in Piece /\ p.status = "running" /\ p.batch = 0 /\ ~p.clash
    <3> HIDE DEF q
    <3> QED
      BY <2>2, <2>4 DEF Piece, PieceStatus, StageStatus
  <2>6. l.at = "refused" /\ l.stage = j /\ l.member = n /\ l.batch = 0 /\ l # NoLaunch
    BY LaunchingIs
  <2>7. Own(f, t, Pieced(k, j, n, p), l, T, B)
    BY <1>3, <2>1, MovedOwn
  <2>8. n \in Plan[j].who
    BY <2>1 DEF NextPiece
  <2> HIDE DEF p, l
  <2>9. Held(t, l, B)
    BY <1>2, <1>4, <2>6, <2>8, HeldIdle
  <2>10. l.batch = p.batch /\ l.at \in {"commissioning", "refused"}
         /\ (p.batch # 0 <=> l.at = "commissioning")
    BY <2>5, <2>6
  <2>11. /\ \A b \in DOMAIN B : b \in DOMAIN B /\ B[b] = B[b]
         /\ \A b \in DOMAIN B : b \in DOMAIN B \/ (b = p.batch /\ B[b] = Starting(t, j, n))
    OBVIOUS
  <2>12. Fit(t, Pieced(k, j, n, p), l, T, B) /\ Waits(Pieced(k, j, n, p), l)
         /\ Pursued(Pieced(k, j, n, p), l, T)
    <3>1. Grown(B, B, p.batch, Starting(t, j, n))
      BY DEF Grown
    <3> QED
      BY <1>2, <2>3, <2>5, <2>6, <2>9, <2>10, <2>11, <3>1, PieceLaunched
  <2> QED
    BY <2>7, <2>12, OwnFull
<1>7. CASE CommissionStarts(e, f, t, j, m)
  <2>1. PICK n \in Members, b \in Nat \ {0} :
          /\ NextPiece(k, j, m, n) /\ k.status = "running" /\ b \notin DOMAIN B
          /\ Moved(e, f, t,
                   Pieced(k, j, n, [k.stages[j].pieces[n] EXCEPT !.status = "running", !.batch = b]),
                   Launching("commissioning", j, n, b), With(B, b, Starting(t, j, n)))
    BY <1>3, <1>7 DEF CommissionStarts
  <2> DEFINE q == k.stages[j].pieces[n]
             p == [q EXCEPT !.status = "running", !.batch = b]
             l == Launching("commissioning", j, n, b)
             o == Starting(t, j, n)
             C == With(B, b, o)
  <2>2. q \in Piece
    BY <1>2, TaskTyped
  <2>3. NextPiece(k, j, m, n) /\ k.status = "running"
    BY <2>1
  <2>4. q.batch = 0 /\ ~q.clash
    <3>1. Upcoming(k, j, n)
      BY <1>2, <2>3, NextIsHere
    <3> QED
      BY <3>1 DEF Upcoming, Fresh
  <2>5. p \in Piece /\ p.status = "running" /\ p.batch = b /\ ~p.clash
    <3> HIDE DEF q
    <3> QED
      BY <2>2, <2>4 DEF Piece, PieceStatus, StageStatus
  <2>6. l.at = "commissioning" /\ l.stage = j /\ l.member = n /\ l.batch = b /\ l # NoLaunch
    BY LaunchingIs
  <2>7. Own(f, t, Pieced(k, j, n, p), l, T, C)
    BY <1>3, <2>1, MovedOwn
  <2>8. n \in Plan[j].who
    BY <2>1 DEF NextPiece
  <2>9. o \in Batch /\ o = [state |-> "starting", task |-> t, stage |-> j, member |-> n]
    BY DEF Starting, Batch
  <2> HIDE DEF p, l, o
  <2>10. /\ C \in Tables /\ DOMAIN C = DOMAIN B \cup {b} /\ C[b] = o
         /\ \A x \in DOMAIN B \ {b} : C[x] = B[x]
    BY <1>2, <2>9, WithIs
  <2> HIDE DEF C
  <2>11. Held(t, l, C)
    BY <1>4, <2>1, <2>6, <2>8, <2>9, <2>10 DEF Held, NoneStarting
  <2>12. Grown(B, C, p.batch, Starting(t, j, n))
    BY <2>1, <2>5, <2>10 DEF o, Grown
  <2>13. l.batch = p.batch /\ l.at \in {"commissioning", "refused"}
         /\ (p.batch # 0 <=> l.at = "commissioning")
    BY <2>5, <2>6
  <2>14. Fit(t, Pieced(k, j, n, p), l, T, C) /\ Waits(Pieced(k, j, n, p), l)
         /\ Pursued(Pieced(k, j, n, p), l, T)
    BY <1>2, <2>3, <2>5, <2>6, <2>10, <2>11, <2>12, <2>13, PieceLaunched
  <2> QED
    BY <2>7, <2>14, OwnFull
<1> QED
  BY <1>1, <1>5, <1>6, <1>7

\* Task t of f is as it should be, and the others are as they are in e.
Settles(e, f, t) == f \in Team /\ Local(e, f, t) /\ FullAt(f, t)

LEMMA SettlesOf ==
    ASSUME NEW e, NEW f, NEW t, Kept(e, f, t), FullAt(f, t)
    PROVE  Settles(e, f, t)
  BY DEF Settles, Kept, Fine

LEMMA SettlesTrans ==
    ASSUME NEW e, NEW f, NEW g, NEW t, Local(e, f, t), Settles(f, g, t)
    PROVE  Settles(e, g, t)
  BY LocalTrans DEF Settles

LEMMA FineOwn ==
    ASSUME NEW e \in Team, NEW t \in Tasks, NEW k, NEW l, NEW T, NEW B, Own(e, t, k, l, T, B),
           Fit(t, k, l, T, B), Sited(k)
    PROVE  Fine(e, t)
  BY OwnIs DEF Fine, Fit

LEMMA CommissionSettles ==
    ASSUME NEW e \in Team, NEW t \in Tasks, NEW k, NEW h, NEW T, NEW B, Own(e, t, k, h, T, B),
           NEW j \in Stages, NEW m \in Nat, Fit(t, k, NoLaunch, T, B), Ready(k, T, j, m)
    PROVE  Settles(e, Commission(e, t, j, m), t)
<1>1. FullAt(Commission(e, t, j, m), t)
  BY CommissionFull
<1>2. e.tasks[t] = k /\ e.batches = B
  BY OwnIs
<1>3. NoneStarting(t, B)
  BY NoneStartingWithout DEF Fit
<1>4. Sited(k)
  BY DEF Ready, Waits, Sited
<1>5. Calmly(e, Commission(e, t, j, m), t)
  BY <1>2, <1>3, <1>4, CommissionKept
<1> QED
  BY <1>1, <1>5, SettlesOf DEF Calmly

\* What the invariant looks at is the same.
Alike(k, n) ==
    /\ n.status = k.status /\ n.why = k.why /\ n.at = k.at /\ n.resumes = k.resumes
    /\ \A j \in Stages : /\ n.stages[j].status = k.stages[j].status
                         /\ \A m \in Members : n.stages[j].pieces[m] = k.stages[j].pieces[m]

LEMMA AlikeFit ==
    ASSUME NEW t, NEW k \in Task, NEW n, NEW l, NEW T, NEW B \in Tables, Alike(k, n),
           Fit(t, k, l, T, B), T \subseteq Stages
    PROVE  Fit(t, n, l, T, B)
<1>1. Early(n) <=> Early(k)
  BY DEF Alike, Early
<1>2. Active(n) <=> Active(k)
  BY DEF Alike, Active, IsTaskActive
<1>3. \A j \in Stages : Settled(n.stages[j]) <=> Settled(k.stages[j])
  BY DEF Alike, Settled
<1>4. StagesFit(n)
  <2>1. StagesFit(k)
    BY DEF Fit
  <2> QED
    BY <1>3, <2>1, WhoOf DEF StagesFit, Alike
<1>5. EarlyFit(n, l, T)
  BY <1>1 DEF Fit, EarlyFit, Alike
<1>6. LaunchFit(n, l)
  <2>1. LaunchFit(k, l) /\ Held(t, l, B)
    BY DEF Fit
  <2>2. l.at # "none" => l.stage \in Stages
    BY <2>1 DEF Held
  <2>3. l.at \in {"commissioning", "refused"} => l.member \in Members
    BY <2>1, <2>2, WhoOf DEF Held
  <2>4. \A j \in Stages : Plan[j].who \subseteq Members
    BY WhoOf
  <2>5. CASE l.at = "none" \/ ~Active(k)
    BY <1>2, <2>1, <2>5 DEF LaunchFit
  <2>6. CASE l.at # "none" /\ Active(k)
    <3>1. l.stage \in Stages /\ n.at = k.at /\ n.status = k.status
      BY <2>2, <2>6 DEF Alike
    <3>2. /\ l.stage <= k.at
          /\ l.stage # k.at /\ k.at \in Stages /\ IsMemberStage(k.at) => n.stages[k.at].status # "running"
      BY <2>1, <2>6 DEF LaunchFit, Alike
    <3>3. l.stage = k.at =>
             /\ k.status = "running" /\ n.stages[k.at].status = "running"
             /\ \A m \in Plan[k.at].who :
                   l.at = "ending" \/ (l.at \in {"commissioning", "refused"} /\ m <= l.member)
                   => n.stages[k.at].pieces[m].status # "pending"
      BY <2>1, <2>4, <2>6, <3>1 DEF LaunchFit, Alike
    <3>4. l.at \in {"commissioning", "refused"} =>
             n.stages[l.stage].pieces[l.member] = k.stages[l.stage].pieces[l.member]
      BY <2>3, <3>1 DEF Alike
    <3> QED
      BY <2>1, <2>6, <3>1, <3>2, <3>3, <3>4 DEF LaunchFit
  <2> QED
    BY <2>5, <2>6
<1>7. RunsFit(t, n, l, B)
  BY DEF Fit, RunsFit, Alike
<1>8. BatchesFit(t, n, l, B)
  <2> SUFFICES ASSUME NEW b \in DOMAIN B, B[b].task = t
               PROVE  /\ B[b].member \in Plan[B[b].stage].who
                      /\ \/ l.at = "commissioning" /\ l.batch = b
                         \/ n.stages[B[b].stage].pieces[B[b].member].batch = b
    BY DEF BatchesFit
  <2>1. B[b].stage \in Stages /\ B[b].member \in Members
    BY TableIs DEF Batch
  <2> QED
    BY <2>1 DEF Fit, BatchesFit, Alike
<1>9. TurnsFit(n, T)
  BY <1>2 DEF Fit, TurnsFit, Alike
<1> QED
  BY <1>4, <1>5, <1>6, <1>7, <1>8, <1>9 DEF Fit

\* What marking a stage leaves.
MarkedAs(k, n, j, status) ==
    /\ n \in Task /\ n.status = k.status /\ n.why = k.why /\ n.at = k.at /\ n.resumes = k.resumes
    /\ n.stages[j].status = status /\ n.stages[j].pieces = k.stages[j].pieces
    /\ \A i \in Stages \ {j} : n.stages[i] = k.stages[i]

LEMMA MarkedStages ==
    ASSUME NEW k \in Task, NEW j \in Stages, NEW status \in StageStatus
    PROVE  MarkedAs(k, Marked(k, j, status), j, status) /\ SamePieces(k, Marked(k, j, status))
<1> DEFINE n == Marked(k, j, status)
<1>1. k.stages \in [Stages -> Stage] /\ k.stages[j] \in Stage
  BY DEF Task
<1>2. n \in Task /\ n.status = k.status /\ n.why = k.why /\ n.at = k.at
  BY MarkedIs
<1>3. n.resumes = k.resumes
  BY DEF Task, Marked
<1>4. n.stages = [k.stages EXCEPT ![j] = [@ EXCEPT !.status = status]]
  BY DEF Task, Marked
<1>5. n.stages[j].status = status /\ n.stages[j].pieces = k.stages[j].pieces
  BY <1>1, <1>4 DEF Stage
<1>6. \A i \in Stages \ {j} : n.stages[i] = k.stages[i]
  BY <1>1, <1>4
<1> HIDE DEF n
<1>7. MarkedAs(k, n, j, status)
  BY <1>2, <1>3, <1>5, <1>6 DEF MarkedAs
<1>8. SamePieces(k, n)
  BY <1>5, <1>6 DEF SamePieces
<1> QED
  BY <1>7, <1>8 DEF n

\* The stage the task has come to begins: a member's, where nothing is launched, or the
\* coordinator's, with its turn.
LEMMA BeginFit ==
    ASSUME NEW t, NEW k \in Task, NEW l \in Launch, NEW T \in SUBSET Stages, NEW B \in Tables,
           NEW U, NEW j \in Stages, Fit(t, k, l, T, B),
           k.status = "running", k.at = j, Resting(k), ~Settled(k.stages[j]),
           \/ IsMemberStage(j) /\ l = NoLaunch /\ U = T
           \/ ~IsMemberStage(j) /\ U = T \cup {j}
    PROVE  Fit(t, Marked(k, j, "running"), l, U, B)
<1> DEFINE n == Marked(k, j, "running")
<1>1. MarkedAs(k, n, j, "running") /\ SamePieces(k, n)
  BY MarkedStages DEF StageStatus
<1> HIDE DEF n
<1>2. RunsFit(t, n, l, B) /\ BatchesFit(t, n, l, B)
  BY <1>1, SameRuns DEF Fit
<1>3. StagesFit(n)
  <2>1. StagesFit(k)
    BY DEF Fit
  <2> SUFFICES ASSUME NEW i \in Stages
               PROVE  /\ \A m \in Members : PieceFit(n.stages[i].pieces[m])
                      /\ Settled(n.stages[i]) => \A m \in Plan[i].who : Settled(n.stages[i].pieces[m])
                      /\ n.stages[i].status # "running" => \A m \in Members : Idle(n.stages[i].pieces[m])
                      /\ n.stages[i].status = "running" =>
                           i = n.at /\ (n.status = "running" \/ (n.status = "waiting" /\ n.why = "failed"))
                      /\ i < n.at => Settled(n.stages[i])
    BY DEF StagesFit
  <2>2. CASE i = j
    BY <1>1, <2>1, <2>2, Sizes DEF StagesFit, MarkedAs, Settled
  <2>3. CASE i # j
    BY <1>1, <2>1, <2>3 DEF StagesFit, MarkedAs, Resting
  <2> QED
    BY <2>2, <2>3
<1>4. Active(k) /\ Active(n) /\ ~Early(n)
  BY <1>1 DEF MarkedAs, Active, IsTaskActive, Early
<1>5. k.stages[j].status # "running"
  BY DEF Resting
<1>6. LaunchFit(n, l)
  <2>1. LaunchFit(k, l) /\ Held(t, l, B)
    BY DEF Fit
  <2>2. CASE l = NoLaunch
    BY <2>2 DEF NoLaunch, LaunchFit
  <2>3. CASE l # NoLaunch
    <3>1. l.at # "none" /\ l.stage \in Stages
      BY <2>1, <2>3 DEF Held
    <3>2. IsMemberStage(l.stage) /\ l.stage # j /\ l.stage <= k.at
      BY <1>4, <1>5, <2>1, <3>1 DEF LaunchFit
    <3>3. n.at = j /\ n.stages[l.stage] = k.stages[l.stage] /\ ~IsMemberStage(j)
      BY <1>1, <2>3, <3>1, <3>2 DEF MarkedAs
    <3> QED
      BY <1>4, <2>1, <3>1, <3>2, <3>3 DEF LaunchFit
  <2> QED
    BY <2>2, <2>3
<1>7. TurnsFit(n, U)
  <2>1. TurnsFit(k, T) /\ U \subseteq Stages
    BY DEF Fit
  <2>2. \A i \in T : ~IsMemberStage(i) /\ i <= k.at /\ i # j
    BY <1>4, <1>5, <2>1 DEF TurnsFit
  <2> SUFFICES ASSUME NEW i \in U
               PROVE  ~IsMemberStage(i) /\ i <= n.at
                      /\ (i = n.at => n.status = "running" /\ n.stages[i].status = "running")
    BY DEF TurnsFit
  <2>3. CASE i = j
    <3>1. ~IsMemberStage(j)
      BY <2>2, <2>3
    <3> QED
      BY <1>1, <2>3, <3>1, Sizes DEF MarkedAs
  <2>4. CASE i # j
    BY <1>1, <2>2, <2>4 DEF MarkedAs
  <2> QED
    BY <2>3, <2>4
<1>8. Fit(t, n, l, U, B)
  BY <1>2, <1>3, <1>4, <1>6, <1>7 DEF Fit, EarlyFit
<1> QED
  BY <1>8 DEF n

LEMMA LaunchStageSettles ==
    ASSUME NEW e \in Team, NEW t \in Tasks, NEW k, NEW T, NEW B, Own(e, t, k, NoLaunch, T, B),
           NEW j \in Stages, IsMemberStage(j), k.status = "running", k.why = "none", k.at = j,
           Fit(t, Marked(k, j, "running"), NoLaunch, T, B)
    PROVE  Settles(e, LaunchStage(e, t, j), t)
<1> DEFINE n == Marked(k, j, "running")  g == LaunchStage(e, t, j)
<1> SUFFICES Settles(e, g, t)
  OBVIOUS
<1>1. e.tasks[t] = k /\ e.launches[t] = NoLaunch /\ TurnsOf(e, t) = T /\ e.batches = B /\ k \in Task
      /\ B \in Tables
  BY OwnIs, OwnTypes
<1>2. MarkedAs(k, n, j, "running")
  BY <1>1, MarkedStages DEF StageStatus
<1>3. PICK f : /\ Retask(e, f, t, n)
               /\ \/ Moved(f, g, t, f.tasks[t], Restoring(j), f.batches)
                  \/ g = Commission(f, t, j, 0)
  BY <1>1, LaunchStageIs
<1>4. f \in Team /\ Own(f, t, n, NoLaunch, T, B) /\ Local(e, f, t)
  BY <1>1, <1>3, RetaskOwn, RetaskLocal
<1>5. Fit(t, n, NoLaunch, T, B)
  OBVIOUS
<1> HIDE DEF n, g
<1>6. n \in Task /\ n.status = "running" /\ n.why = "none" /\ n.at = j /\ n.stages[j].status = "running"
  BY <1>2 DEF MarkedAs
<1>7. ~Early(n) /\ Active(n)
  BY <1>6 DEF Early, Active, IsTaskActive
<1>8. \A l : Waits(n, l)
  BY <1>6 DEF Waits, Settled
<1>9. CASE g = Commission(f, t, j, 0)
  <2>1. \A x \in Plan[j].who : ~(x <= 0)
    BY WhoOf, Sizes
  <2>2. Ready(n, T, j, 0)
    BY <1>6, <1>7, <1>8, <2>1, Sizes DEF Ready
  <2>3. Settles(f, g, t)
    BY <1>4, <1>5, <1>9, <2>2, CommissionSettles
  <2> QED
    BY <1>4, <2>3, SettlesTrans
<1>10. CASE Moved(f, g, t, f.tasks[t], Restoring(j), f.batches)
  <2> DEFINE l == Restoring(j)
  <2>1. l.at = "restoring" /\ l.stage = j /\ l.batch = 0 /\ l # NoLaunch
    BY DEF Restoring, NoLaunch
  <2>2. f.tasks[t] = n /\ f.batches = B /\ TurnsOf(f, t) = T
    BY <1>4, OwnIs
  <2>3. Own(g, t, n, l, T, B) /\ g \in Team
    BY <1>10, <2>2, MovedOwn
  <2> HIDE DEF l
  <2>4. NoneStarting(t, B)
    BY <1>1, <1>5, NoneStartingWithout DEF Fit
  <2>5. Held(t, l, B)
    BY <2>1, <2>4, HeldIdle
  <2>6. LaunchFit(n, l)
    BY <1>6, <2>1, Sizes DEF LaunchFit
  <2>7. Fit(t, n, l, T, B)
    BY <1>5, <1>7, <2>5, <2>6, LaunchBegins
  <2>8. Pursued(n, l, T)
    BY <1>6, <2>1 DEF Pursued
  <2>9. FullAt(g, t)
    BY <1>8, <2>3, <2>7, <2>8, OwnFull
  <2>10. Fine(f, t)
    BY <1>4, <1>5, <1>6, FineOwn DEF Sited
  <2>11. Local(f, g, t)
    BY <1>10 DEF Moved, Local, Slice
  <2>12. Settles(f, g, t)
    BY <2>3, <2>9, <2>11 DEF Settles
  <2> QED
    BY <1>4, <2>12, SettlesTrans
<1> QED
  BY <1>3, <1>9, <1>10

LEMMA RestingClear ==
    ASSUME NEW t, NEW k \in Task, NEW l \in Launch, NEW T \in SUBSET Stages, NEW B,
           Fit(t, k, l, T, B), Active(k), Resting(k)
    PROVE  (l.at = "none" \/ l.stage # k.at) /\ k.at \notin T
<1>1. l.at # "none" => l.stage # k.at
  <2>1. l.at # "none" => l.stage \in Stages
    BY DEF Fit, Held
  <2> QED
    BY <2>1 DEF Fit, LaunchFit, Resting
<1>2. k.at \notin T
  BY DEF Fit, TurnsFit, Resting
<1> QED
  BY <1>1, <1>2

\* A task at rest may change what it is said to be.
LEMMA TurnFit ==
    ASSUME NEW t, NEW k \in Task, NEW l \in Launch, NEW T \in SUBSET Stages, NEW B \in Tables,
           Fit(t, k, l, T, B), Active(k), Resting(k), NEW n \in Task,
           n.stages = k.stages, n.at = k.at, ~Early(n)
    PROVE  Fit(t, n, l, T, B) /\ Resting(n)
<1>1. (l.at = "none" \/ l.stage # k.at) /\ k.at \notin T
  BY RestingClear
<1>2. SamePieces(k, n)
  BY DEF SamePieces
<1>3. StagesFit(n)
  BY DEF Fit, StagesFit, Resting
<1>4. Resting(n)
  BY DEF Resting
<1>5. k.at <= n.at
  BY TaskTyped
<1> QED
  BY <1>1, <1>2, <1>3, <1>4, <1>5, RestFit

\* On its way to the next stage that is not over.
LEMMA SentFit ==
    ASSUME NEW t, NEW k \in Task, NEW l \in Launch, NEW T \in SUBSET Stages, NEW B \in Tables,
           Fit(t, k, l, T, B), k.status = "running", NEW j \in Stages, NextStage(k, j)
    PROVE  /\ Fit(t, Sent(k, j), l, T, B)
           /\ \/ k.stages[j].status = "running" /\ Alike(k, Sent(k, j))
              \/ k.stages[j].status = "pending" /\ Resting(Sent(k, j))
<1> DEFINE n == Sent(k, j)
<1>1. n \in Task /\ n.at = j /\ n.status = k.status /\ n.why = k.why /\ n.stages = k.stages
      /\ n.resumes = k.resumes
  BY SentIs, Sizes
<1> HIDE DEF n
<1>2. k.at \in Nat /\ j \in Nat /\ k.at <= j /\ ~Settled(k.stages[j])
      /\ \A i \in Stages : i >= k.at /\ ~Settled(k.stages[i]) => j <= i
  BY TaskTyped, Sizes DEF NextStage, Open
<1>3. \A i \in Stages : k.stages[i].status = "running" => i = k.at
  BY DEF Fit, StagesFit
<1>4. Active(k) /\ ~Early(n)
  BY <1>1 DEF Active, IsTaskActive, Early
<1>5. CASE k.stages[j].status = "running"
  <2>1. j = k.at
    BY <1>3, <1>5
  <2>2. Alike(k, n)
    BY <1>1, <2>1 DEF Alike
  <2>3. Fit(t, n, l, T, B)
    BY <2>2, AlikeFit
  <2> QED
    BY <1>5, <2>2, <2>3 DEF n
<1>6. CASE k.stages[j].status # "running"
  <2>1. k.stages[j].status = "pending"
    <3>1. k.stages[j].status \in StageStatus
      BY TaskTyped
    <3> QED
      BY <1>2, <1>6, <3>1 DEF StageStatus, Settled
  <2>2. Resting(k)
    <3> SUFFICES ASSUME NEW i \in Stages, k.stages[i].status = "running" PROVE FALSE
      BY DEF Resting
    <3>1. i = k.at /\ ~Settled(k.stages[i])
      BY <1>3 DEF Settled
    <3>2. j <= i
      BY <1>2, <3>1
    <3>3. j = i
      BY <1>2, <3>1, <3>2
    <3> QED
      BY <1>6, <3>3
  <2>3. (l.at = "none" \/ l.stage # k.at) /\ k.at \notin T
    BY <1>4, <2>2, RestingClear
  <2>4. SamePieces(k, n) /\ Resting(n)
    BY <1>1, <2>2 DEF SamePieces, Resting
  <2>5. StagesFit(n)
    <3>1. StagesFit(k)
      BY DEF Fit
    <3>2. \A i \in Stages : i < j => Settled(k.stages[i])
      <4> SUFFICES ASSUME NEW i \in Stages, i < j PROVE Settled(k.stages[i])
        OBVIOUS
      <4>1. i \in Nat
        BY Sizes
      <4>2. CASE i < k.at
        BY <3>1, <4>2 DEF StagesFit
      <4>3. CASE i >= k.at
        BY <1>2, <4>1, <4>3
      <4> QED
        BY <1>2, <4>1, <4>2, <4>3
    <3> QED
      BY <1>1, <2>2, <3>1, <3>2 DEF StagesFit, Resting
  <2>6. k.at <= n.at
    BY <1>1, <1>2
  <2>7. Fit(t, n, l, T, B)
    BY <1>1, <1>4, <2>3, <2>4, <2>5, <2>6, RestFit
  <2> QED
    BY <2>1, <2>4, <2>7 DEF n
<1> QED
  BY <1>5, <1>6

\* A task through all its stages.
LEMMA OverFit ==
    ASSUME NEW t, NEW k \in Task, NEW l \in Launch, NEW T \in SUBSET Stages, NEW B \in Tables,
           Fit(t, k, l, T, B), k.status = "running", Open(k) = {},
           NEW n \in Task, n.stages = k.stages, n.at = Len(Plan) + 1, ~Early(n)
    PROVE  Fit(t, n, l, T, B)
<1>1. \A i \in Stages : Settled(k.stages[i])
  <2> SUFFICES ASSUME NEW i \in Stages PROVE Settled(k.stages[i])
    OBVIOUS
  <2>1. i \in Nat /\ k.at \in Nat
    BY Sizes, TaskTyped
  <2>2. CASE i < k.at
    BY <2>2 DEF Fit, StagesFit
  <2>3. CASE i >= k.at
    BY <2>3 DEF Open
  <2> QED
    BY <2>1, <2>2, <2>3
<1>2. Resting(k) /\ Resting(n)
  BY <1>1 DEF Resting, Settled
<1>3. Active(k)
  BY DEF Active, IsTaskActive
<1>4. (l.at = "none" \/ l.stage # k.at) /\ k.at \notin T
  BY <1>2, <1>3, RestingClear
<1>5. SamePieces(k, n)
  BY DEF SamePieces
<1>6. StagesFit(n)
  <2>1. StagesFit(k)
    BY DEF Fit
  <2> QED
    BY <1>1, <1>2, <2>1 DEF StagesFit, Resting
<1>7. k.at <= n.at
  BY TaskTyped, Sizes
<1> QED
  BY <1>2, <1>3, <1>4, <1>5, <1>6, <1>7, RestFit

\* A task may be moved on: what it is at is pursued if it has begun.
Onward(k, l, T) ==
    /\ k.status # "running" => Waits(k, l)
    /\ k.status = "running" =>
          /\ k.why = "none"
          /\ k.at \in Stages /\ k.stages[k.at].status = "running" => Pursued(k, l, T)

LEMMA GoesSettles ==
    ASSUME NEW e \in Team, NEW t \in Tasks, NEW k, NEW l, NEW T, NEW B, Own(e, t, k, l, T, B),
           NEW status \in TaskStatus, NEW why \in Whys,
           LET n == Turned(k, status, why)
           IN  Fit(t, n, l, T, B) /\ Waits(n, l) /\ Pursued(n, l, T)
    PROVE  Settles(e, Goes(e, t, status, why), t)
<1> DEFINE n == Turned(k, status, why)  g == Goes(e, t, status, why)
<1>1. Retask(e, g, t, n)
  <2>1. e.tasks[t] = k
    BY OwnIs
  <2> QED
    BY <2>1, GoesRetasks
<1>2. Fit(t, n, l, T, B) /\ Waits(n, l) /\ Pursued(n, l, T)
  OBVIOUS
<1> HIDE DEF n, g
<1>3. Own(g, t, n, l, T, B) /\ g \in Team
  BY <1>1, RetaskOwn, OwnIs
<1>4. FullAt(g, t)
  BY <1>2, <1>3, OwnFull
<1>5. Local(e, g, t)
  BY <1>1, RetaskLocal
<1>6. Settles(e, g, t)
  BY <1>3, <1>4, <1>5 DEF Settles
<1> QED
  BY <1>6 DEF g

\* The task stays where it is.
LEMMA StaysSettled ==
    ASSUME NEW e, NEW f \in Team, NEW t \in Tasks, NEW k, NEW l, NEW T, NEW B, Own(f, t, k, l, T, B),
           Fit(t, k, l, T, B), Waits(k, l), Pursued(k, l, T), Local(e, f, t)
    PROVE  Settles(e, f, t)
  BY OwnFull DEF Settles

LEMMA AdvanceEndsSettles ==
    ASSUME NEW e \in Team, NEW t \in Tasks, NEW k, NEW l, NEW T, NEW B, Own(e, t, k, l, T, B),
           Fit(t, k, l, T, B), k.status = "running", NEW g, AdvanceEnds(e, g, t)
    PROVE  Settles(e, g, t)
<1>1. e.tasks[t] = k /\ k \in Task /\ l \in Launch /\ T \in SUBSET Stages /\ B \in Tables
  BY OwnIs, OwnTypes
<1>0. PICK status \in {"review", "done"} : \E f :
         Retask(e, f, t, Sent(k, Len(Plan) + 1)) /\ g = Goes(f, t, status, "none")
  BY <1>1 DEF AdvanceEnds
<1>2. PICK f : Retask(e, f, t, Sent(k, Len(Plan) + 1)) /\ g = Goes(f, t, status, "none")
  BY <1>0
<1> DEFINE x == Sent(k, Len(Plan) + 1)  n == Turned(x, status, "none")
<1>3. x \in Task /\ x.stages = k.stages /\ x.at = Len(Plan) + 1
  BY <1>1, SentIs, Sizes
<1>4. Own(f, t, x, l, T, B) /\ f \in Team /\ Local(e, f, t)
  BY <1>2, RetaskOwn, RetaskLocal, OwnIs
<1> HIDE DEF x
<1>5. status \in TaskStatus /\ "none" \in Whys
  BY DEF TaskStatus, Whys
<1>6. n \in Task /\ n.stages = x.stages /\ n.at = x.at /\ n.status = status /\ n.why = "none"
  BY <1>3, <1>5, TurnedIs
<1> HIDE DEF n
<1>7. ~Early(n)
  BY <1>6 DEF Early
<1>8. Fit(t, n, l, T, B)
  <2>1. Open(k) = {}
    BY <1>1 DEF AdvanceEnds
  <2> QED
    BY <1>1, <1>3, <1>6, <1>7, <2>1, OverFit
<1>9. Waits(n, l) /\ Pursued(n, l, T)
  BY <1>6 DEF Waits, Pursued
<1>10. Settles(f, g, t)
  BY <1>2, <1>4, <1>5, <1>8, <1>9, GoesSettles DEF n
<1> QED
  BY <1>4, <1>10, SettlesTrans

\* At a gate the task waits; past it, its stage begins.
LEMMA GateSettles ==
    ASSUME NEW f \in Team, NEW t \in Tasks, NEW k, NEW l, NEW T, NEW B, Own(f, t, k, l, T, B),
           Fit(t, k, l, T, B), k.status = "running", k.why = "none", NEW j \in Stages, k.at = j,
           k.stages[j].status = "pending", Resting(k), NEW g,
           \/ \E why \in {"checkpoint", "budget", "away"} : g = Wait(f, t, why)
           \/ IsMemberStage(j) /\ g = LaunchStage(f, t, j)
           \/ ~IsMemberStage(j) /\ g = RunCoordinatorStage(f, t, j)
    PROVE  Settles(f, g, t)
<1>1. f.tasks[t] = k /\ f.launches[t] = l /\ TurnsOf(f, t) = T /\ f.batches = B
      /\ k \in Task /\ l \in Launch /\ T \in SUBSET Stages /\ B \in Tables
  BY OwnIs, OwnTypes
<1>2. Active(k)
  BY DEF Active, IsTaskActive
<1>3. (l.at = "none" \/ l.stage # j) /\ j \notin T
  BY <1>1, <1>2, RestingClear
<1>4. Waits(k, l)
  BY DEF Waits, Settled
<1>5. Local(f, f, t)
  BY DEF Local
<1>6. ASSUME NEW why \in {"checkpoint", "budget", "away"}, g = Wait(f, t, why) PROVE Settles(f, g, t)
  <2> DEFINE n == Turned(k, "waiting", why)
  <2>1. "waiting" \in TaskStatus /\ why \in Whys
    BY DEF TaskStatus, Whys
  <2>2. n \in Task /\ n.status = "waiting" /\ n.why = why /\ n.at = k.at /\ n.stages = k.stages
    BY <1>1, <2>1, TurnedIs
  <2>3. g = Goes(f, t, "waiting", why)
    BY <1>6 DEF Wait
  <2> HIDE DEF n
  <2>4. ~Early(n)
    BY <2>2 DEF Early
  <2>5. Fit(t, n, l, T, B)
    BY <1>1, <1>2, <2>2, <2>4, TurnFit
  <2>6. Waits(n, l) /\ Pursued(n, l, T)
    BY <1>6, <2>2 DEF Waits, Pursued
  <2> QED
    BY <2>1, <2>3, <2>5, <2>6, GoesSettles DEF n
<1>7. CASE IsMemberStage(j) /\ g = LaunchStage(f, t, j)
  <2>1. CASE l = NoLaunch
    <3>1. Fit(t, Marked(k, j, "running"), NoLaunch, T, B)
      BY <1>1, <1>7, <2>1, BeginFit DEF Settled
    <3>2. Own(f, t, k, NoLaunch, T, B)
      BY <2>1
    <3> QED
      BY <1>7, <3>1, <3>2, LaunchStageSettles
  <2>2. CASE l # NoLaunch
    <3>1. g = f
      BY <1>1, <1>7, <2>2, LaunchStageIs
    <3>2. Pursued(k, l, T)
      BY <2>2 DEF Pursued
    <3> QED
      BY <1>4, <1>5, <3>1, <3>2, StaysSettled
  <2> QED
    BY <2>1, <2>2
<1>8. CASE ~IsMemberStage(j) /\ g = RunCoordinatorStage(f, t, j)
  <2> DEFINE n == Marked(k, j, "running")  V == f.turns \cup {<<t, j>>}
  <2>1. <<t, j>> \notin f.turns
    BY <1>1, <1>3 DEF TurnsOf
  <2>2. Turning(f, g, t, n, V)
    BY <1>1, <1>8, <2>1, RunCoordinatorStageIs
  <2> HIDE DEF n, V
  <2>12. Own(g, t, n, f.launches[t], {i \in Stages : <<t, i>> \in V}, f.batches) /\ g \in Team
    BY <2>2, TurningOwn
  <2>3. Own(g, t, n, l, {i \in Stages : <<t, i>> \in V}, B) /\ g \in Team
    BY <1>1, <2>12
  <2>4. {i \in Stages : <<t, i>> \in V} = T \cup {j}
    BY <1>1 DEF TurnsOf, V
  <2>5. Fit(t, n, l, T \cup {j}, B)
    BY <1>1, <1>8, BeginFit DEF Settled, n
  <2>6. MarkedAs(k, n, j, "running")
    BY <1>1, MarkedStages DEF StageStatus, n
  <2>7. \A u \in Tasks \ {t}, i \in Stages : <<u, i>> \in V <=> <<u, i>> \in f.turns
    BY DEF V
  <2>8. Waits(n, l) /\ Pursued(n, l, T \cup {j})
    BY <2>6 DEF Waits, Pursued, MarkedAs, Settled
  <2>9. Fine(f, t) /\ Sited(n)
    BY <2>6, FineOwn DEF Sited, MarkedAs
  <2>10. Local(f, g, t)
    BY <2>2, <2>7, <2>9, TurningKept DEF Kept
  <2>11. Own(g, t, n, l, T \cup {j}, B)
    BY <2>3, <2>4
  <2> QED
    BY <2>3, <2>5, <2>8, <2>10, <2>11, StaysSettled
<1> QED
  BY <1>6, <1>7, <1>8

LEMMA AdvanceSettles ==
    ASSUME NEW e \in Team, NEW t \in Tasks, NEW k, NEW l, NEW T, NEW B, Own(e, t, k, l, T, B),
           Fit(t, k, l, T, B), Onward(k, l, T)
    PROVE  Settles(e, Advance(e, t), t)
<1> DEFINE g == Advance(e, t)
<1> SUFFICES Settles(e, g, t)
  OBVIOUS
<1>1. e.tasks[t] = k /\ k \in Task /\ l \in Launch /\ T \in SUBSET Stages /\ B \in Tables
  BY OwnIs, OwnTypes
<1>2. \/ k.status # "running" /\ g = e
      \/ k.status = "running" /\ AdvanceEnds(e, g, t)
      \/ k.status = "running" /\ AdvanceMoves(e, g, t)
  BY <1>1, AdvanceIs
<1> HIDE DEF g
<1>3. CASE k.status # "running" /\ g = e
  <2>1. Waits(k, l) /\ Pursued(k, l, T)
    BY <1>3 DEF Onward, Pursued
  <2>2. Local(e, g, t)
    BY <1>3 DEF Local
  <2> QED
    BY <1>3, <2>1, <2>2, StaysSettled
<1>4. CASE k.status = "running" /\ AdvanceEnds(e, g, t)
  BY <1>4, AdvanceEndsSettles
<1>5. CASE k.status = "running" /\ AdvanceMoves(e, g, t)
  <2>1. PICK j \in Stages : \E f :
           NextStage(k, j) /\ Retask(e, f, t, Sent(k, j)) /\ AdvanceGoes(e, f, g, t, j)
    BY <1>1, <1>5 DEF AdvanceMoves
  <2>2. PICK f : NextStage(k, j) /\ Retask(e, f, t, Sent(k, j)) /\ AdvanceGoes(e, f, g, t, j)
    BY <2>1
  <2> DEFINE n == Sent(k, j)
  <2>3. n \in Task /\ n.at = j /\ n.status = "running" /\ n.why = "none" /\ n.stages = k.stages
    BY <1>1, <1>5, SentIs, Sizes DEF Onward
  <2>4. Own(f, t, n, l, T, B) /\ f \in Team /\ Local(e, f, t)
    BY <2>2, RetaskOwn, RetaskLocal, OwnIs
  <2>5. /\ Fit(t, n, l, T, B)
        /\ \/ k.stages[j].status = "running" /\ Alike(k, n)
           \/ k.stages[j].status = "pending" /\ Resting(n)
    BY <1>1, <1>5, <2>2, SentFit
  <2> HIDE DEF n
  <2>6. CASE k.stages[j].status = "running"
    <3>1. g = f
      BY <1>1, <2>2, <2>6 DEF AdvanceGoes
    <3>2. Waits(n, l)
      BY <2>3, <2>6 DEF Waits, Settled
    <3>3. k.at = j
      BY <2>3, <2>5, <2>6 DEF Alike
    <3>4. Pursued(k, l, T)
      BY <1>5, <2>6, <3>3 DEF Onward
    <3>5. Pursued(n, l, T)
      BY <1>5, <2>3, <3>3, <3>4 DEF Pursued
    <3> QED
      BY <2>4, <2>5, <3>1, <3>2, <3>5, StaysSettled
  <2>7. CASE k.stages[j].status # "running"
    <3>1. \/ \E why \in {"checkpoint", "budget", "away"} : g = Wait(f, t, why)
          \/ IsMemberStage(j) /\ g = LaunchStage(f, t, j)
          \/ ~IsMemberStage(j) /\ g = RunCoordinatorStage(f, t, j)
      BY <1>1, <2>2, <2>7 DEF AdvanceGoes
    <3>2. n.stages[j].status = "pending" /\ Resting(n)
      BY <2>3, <2>5, <2>7
    <3>3. Settles(f, g, t)
      BY <2>3, <2>4, <2>5, <3>1, <3>2, GateSettles
    <3> QED
      BY <2>4, <3>3, SettlesTrans
  <2> QED
    BY <2>6, <2>7
<1> QED
  BY <1>2, <1>3, <1>4, <1>5

\* What going past the stage leaves.
LEMMA PassedIs ==
    ASSUME NEW k \in Task, NEW j \in Stages, NEW status \in StageStatus
    PROVE  /\ Passed(k, j, status) \in Task /\ Passed(k, j, status).at = j + 1
           /\ Passed(k, j, status).status = k.status /\ Passed(k, j, status).why = k.why
           /\ Passed(k, j, status).resumes = k.resumes
           /\ Passed(k, j, status).stages[j].status = status
           /\ Passed(k, j, status).stages[j].pieces = k.stages[j].pieces
           /\ \A i \in Stages \ {j} : Passed(k, j, status).stages[i] = k.stages[i]
<1> DEFINE n == Marked(k, j, status)
<1>1. MarkedAs(k, n, j, status)
  BY MarkedStages
<1>2. n \in Task /\ j + 1 \in 1..(Len(Plan) + 1)
  BY <1>1, Sizes DEF MarkedAs
<1> HIDE DEF n
<1>3. /\ Sent(n, j + 1) \in Task /\ Sent(n, j + 1).at = j + 1
      /\ Sent(n, j + 1).status = n.status /\ Sent(n, j + 1).why = n.why
      /\ Sent(n, j + 1).stages = n.stages /\ Sent(n, j + 1).resumes = n.resumes
  BY <1>2, SentIs
<1>4. Passed(k, j, status) = Sent(n, j + 1)
  BY DEF Passed, n
<1> QED
  BY <1>1, <1>3, <1>4 DEF MarkedAs

\* The stage the task is at is over, and the task goes past it.
LEMMA PassedFit ==
    ASSUME NEW t, NEW k \in Task, NEW l \in Launch, NEW T \in SUBSET Stages, NEW B \in Tables,
           Fit(t, k, l, T, B), Active(k), ~Early(k), NEW j \in Stages, k.at = j,
           \A m \in Plan[j].who : Settled(k.stages[j].pieces[m]),
           NEW status \in {"done", "failed", "skipped"}
    PROVE  Fit(t, Passed(k, j, status), l, T, B) /\ Resting(Passed(k, j, status))
<1> DEFINE n == Passed(k, j, status)
<1>1. status \in StageStatus
  BY DEF StageStatus
<1>2. /\ n \in Task /\ n.at = j + 1 /\ n.status = k.status /\ n.why = k.why /\ n.resumes = k.resumes
      /\ n.stages[j].status = status /\ n.stages[j].pieces = k.stages[j].pieces
      /\ \A i \in Stages \ {j} : n.stages[i] = k.stages[i]
  BY <1>1, PassedIs
<1> HIDE DEF n
<1>3. SamePieces(k, n)
  BY <1>2 DEF SamePieces
<1>4. ~Early(n)
  BY <1>2 DEF Early
<1>5. StagesFit(k)
  BY DEF Fit
<1>6. \A m \in Members : Idle(k.stages[j].pieces[m])
  BY IdleAll
<1>7. Resting(n)
  BY <1>2, <1>5 DEF Resting, StagesFit
<1>8. \A i \in Stages : i < n.at => i = j \/ i < k.at
  BY <1>2, Sizes
<1>9. StagesFit(n)
  <2> SUFFICES ASSUME NEW i \in Stages
               PROVE  /\ \A m \in Members : PieceFit(n.stages[i].pieces[m])
                      /\ Settled(n.stages[i]) => \A m \in Plan[i].who : Settled(n.stages[i].pieces[m])
                      /\ \A m \in Members : Idle(n.stages[i].pieces[m])
                      /\ i < n.at => Settled(n.stages[i])
    BY <1>7 DEF StagesFit, Resting
  <2>1. CASE i = j
    <3>1. Settled(n.stages[j])
      BY <1>2 DEF Settled
    <3> QED
      BY <1>2, <1>5, <1>6, <2>1, <3>1 DEF StagesFit
  <2>2. CASE i # j
    <3>1. n.stages[i] = k.stages[i] /\ n.stages[i].status # "running" /\ (i < n.at => i < k.at)
      BY <1>2, <1>7, <1>8, <2>2 DEF Resting
    <3> QED
      BY <1>5, <3>1 DEF StagesFit
  <2> QED
    BY <2>1, <2>2
<1>10. k.at <= n.at /\ n.at # k.at
  BY <1>2, Sizes
<1>11. Fit(t, n, l, T, B)
  BY <1>2, <1>3, <1>4, <1>7, <1>9, <1>10, RestFit
<1> QED
  BY <1>7, <1>11 DEF n

\* A turn less is no matter.
LEMMA FewerTurns ==
    ASSUME NEW t, NEW k, NEW l, NEW T, NEW U \in SUBSET T, NEW B, Fit(t, k, l, T, B)
    PROVE  Fit(t, k, l, U, B)
<1>1. TurnsFit(k, U)
  BY DEF Fit, TurnsFit
<1>2. EarlyFit(k, l, U)
  BY DEF Fit, EarlyFit
<1> QED
  BY <1>1, <1>2 DEF Fit

\* A launch with no commission in flight may be over.
LEMMA LaunchDone ==
    ASSUME NEW t, NEW k, NEW l, NEW T, NEW B, Fit(t, k, l, T, B),
           l.at \notin {"commissioning", "refused"}
    PROVE  Fit(t, k, NoLaunch, T, B)
<1>1. NoLaunch.at = "none" /\ NoLaunch.batch = 0
  BY DEF NoLaunch
<1>2. NoneStarting(t, B)
  BY DEF Fit, Held, NoneStarting
<1>3. Held(t, NoLaunch, B)
  BY <1>2, HeldIdle
<1>4. LaunchFit(k, NoLaunch)
  BY <1>1 DEF LaunchFit
<1>5. EarlyFit(k, NoLaunch, T)
  BY DEF Fit, EarlyFit
<1>6. RunsFit(t, k, NoLaunch, B)
  BY ZenonT(60) DEF Fit, RunsFit, RunFit
<1>7. BatchesFit(t, k, NoLaunch, B)
  BY DEF Fit, BatchesFit
<1> QED
  BY <1>3, <1>4, <1>5, <1>6, <1>7 DEF Fit

\* Where a launch is under way, the next piece may be commissioned.
LEMMA ReadyFrom ==
    ASSUME NEW t, NEW k \in Task, NEW l, NEW T, NEW B, Fit(t, k, l, T, B), Waits(k, l),
           Pursued(k, l, T), NEW m \in Nat,
           \/ l.at = "restoring" /\ m = 0
           \/ l.at \in {"commissioning", "refused"} /\ m = l.member
    PROVE  Ready(k, T, l.stage, m)
<1>1. l.at # "none" /\ l # NoLaunch
  BY DEF NoLaunch
<1>2. l.stage \in Stages
  BY <1>1 DEF Fit, Held
<1>3. IsMemberStage(l.stage)
  BY <1>1 DEF Fit, LaunchFit
<1>4. ~Early(k)
  BY <1>1 DEF Fit, EarlyFit
<1>5. Waits(k, Ending(l.stage))
  BY <1>1 DEF Waits
<1>6. \A x \in Plan[l.stage].who : ~(x <= 0)
  BY <1>2, WhoOf, Sizes
<1>7. Active(k) =>
         /\ l.stage <= k.at
         /\ l.stage = k.at =>
               /\ k.status = "running" /\ k.stages[k.at].status = "running"
               /\ \A x \in Plan[l.stage].who : x <= m => k.stages[l.stage].pieces[x].status # "pending"
  BY <1>1, <1>6 DEF Fit, LaunchFit
<1>8. Active(k) /\ l.stage # k.at /\ k.at \in Stages /\ k.stages[k.at].status = "running" =>
         ~IsMemberStage(k.at)
  BY <1>1 DEF Fit, LaunchFit
<1>9. k.status = "running" => Active(k)
  BY DEF Active, IsTaskActive
<1>10. k.status = "running" /\ l.stage # k.at /\ k.at \in Stages /\ k.stages[k.at].status = "running"
         => k.at \in T
  BY <1>8, <1>9 DEF Pursued
<1> QED
  BY <1>3, <1>4, <1>5, <1>7, <1>8, <1>10 DEF Ready

\* The members' stage the task is at has every piece in, and nobody has looked yet.
Landed(k, l) ==
    /\ l = NoLaunch /\ k.status = "running" /\ k.at \in Stages /\ IsMemberStage(k.at)
    /\ k.stages[k.at].status = "running" /\ ~StillGoing(k.stages[k.at], k.at)

LEMMA CheckFailsSettles ==
    ASSUME NEW e \in Team, NEW t \in Tasks, NEW k, NEW T, NEW B, Own(e, t, k, NoLaunch, T, B),
           Fit(t, k, NoLaunch, T, B), Landed(k, NoLaunch), NEW g,
           \/ g = Wait(e, t, "failed")
           \/ \E f : /\ Retask(e, f, t, Marked(k, k.at, "failed")) /\ g = Wait(f, t, "failed")
                     /\ \A m \in Plan[k.at].who : k.stages[k.at].pieces[m].status = "failed"
    PROVE  Settles(e, g, t)
<1> DEFINE j == k.at  l == NoLaunch
<1>1. k \in Task /\ l \in Launch /\ T \in SUBSET Stages /\ B \in Tables /\ e.tasks[t] = k
  BY OwnTypes, OwnIs
<1>2. j \in Stages /\ IsMemberStage(j) /\ k.stages[j].status = "running" /\ k.status = "running"
      /\ \A m \in Plan[j].who : Settled(k.stages[j].pieces[m])
  BY DEF Landed, StillGoing
<1>3. "waiting" \in TaskStatus /\ "failed" \in Whys
  BY DEF TaskStatus, Whys
<1>4. Active(k)
  BY <1>2 DEF Active, IsTaskActive
<1>5. StagesFit(k) /\ TurnsFit(k, T)
  BY DEF Fit
<1>6. l.at = "none" /\ l.batch = 0
  BY DEF NoLaunch
<1> HIDE DEF j, l
<1>7. CASE g = Wait(e, t, "failed")
  <2> DEFINE n == Turned(k, "waiting", "failed")
  <2>1. n \in Task /\ n.status = "waiting" /\ n.why = "failed" /\ n.at = j /\ n.stages = k.stages
    BY <1>1, <1>3, TurnedIs DEF j
  <2> HIDE DEF n
  <2>2. RunsFit(t, n, l, B) /\ BatchesFit(t, n, l, B)
    <3>1. SamePieces(k, n)
      BY <2>1 DEF SamePieces
    <3>2. RunsFit(t, k, l, B) /\ BatchesFit(t, k, l, B)
      BY DEF Fit, l
    <3> QED
      BY <1>1, <3>1, <3>2, SameRuns
  <2>3. StagesFit(n)
    BY <1>5, <2>1 DEF StagesFit, j
  <2>4. LaunchFit(n, l)
    BY <1>6 DEF LaunchFit
  <2>5. TurnsFit(n, T)
    BY <1>2, <1>4, <1>5, <2>1 DEF TurnsFit, j
  <2>6. ~Early(n)
    BY <2>1 DEF Early
  <2>7. Fit(t, n, l, T, B)
    <3>1. Held(t, l, B)
      BY DEF Fit, l
    <3> QED
      BY <2>2, <2>3, <2>4, <2>5, <2>6, <3>1 DEF Fit, EarlyFit
  <2>8. Waits(n, l)
    <3>1. l = NoLaunch
      BY DEF l
    <3> QED
      BY <1>2, <2>1, <3>1 DEF Waits
  <2>9. Pursued(n, l, T)
    BY <2>1 DEF Pursued
  <2>10. Own(e, t, k, l, T, B) /\ g = Goes(e, t, "waiting", "failed")
    BY <1>7 DEF l, Wait
  <2> QED
    BY <1>3, <2>7, <2>8, <2>9, <2>10, GoesSettles DEF n
<1>8. ASSUME NEW f, Retask(e, f, t, Marked(k, j, "failed")), g = Wait(f, t, "failed"),
             \A m \in Plan[j].who : k.stages[j].pieces[m].status = "failed"
      PROVE  Settles(e, g, t)
  <2> DEFINE x == Marked(k, j, "failed")  n == Turned(x, "waiting", "failed")
  <2>1. "failed" \in StageStatus
    BY DEF StageStatus
  <2>2. MarkedAs(k, x, j, "failed") /\ SamePieces(k, x)
    BY <1>1, <1>2, <2>1, MarkedStages
  <2>3. Own(f, t, x, l, T, B) /\ f \in Team /\ Local(e, f, t)
    BY <1>8, RetaskOwn, RetaskLocal, OwnIs DEF l
  <2> HIDE DEF x
  <2>4. x \in Task
    BY <2>2 DEF MarkedAs
  <2>5. n \in Task /\ n.status = "waiting" /\ n.why = "failed" /\ n.at = x.at /\ n.stages = x.stages
    BY <1>3, <2>4, TurnedIs
  <2> HIDE DEF n
  <2>6. /\ n.at = j /\ n.stages[j].status = "failed" /\ n.stages[j].pieces = k.stages[j].pieces
        /\ \A i \in Stages \ {j} : n.stages[i] = k.stages[i]
    BY <2>2, <2>5 DEF MarkedAs, j
  <2>7. SamePieces(k, n) /\ ~Early(n)
    BY <2>2, <2>5 DEF SamePieces, Early
  <2>8. \A m \in Members : Idle(k.stages[j].pieces[m])
    <3>1. Fit(t, k, l, T, B)
      BY DEF l
    <3> QED
      BY <1>1, <1>2, <3>1, IdleAll
  <2>9. Resting(n)
    BY <1>5, <2>6 DEF Resting, StagesFit, j
  <2>10. StagesFit(n)
    <3> SUFFICES ASSUME NEW i \in Stages
                 PROVE  /\ \A m \in Members : PieceFit(n.stages[i].pieces[m])
                        /\ Settled(n.stages[i]) => \A m \in Plan[i].who : Settled(n.stages[i].pieces[m])
                        /\ \A m \in Members : Idle(n.stages[i].pieces[m])
                        /\ i < n.at => Settled(n.stages[i])
      BY <2>9 DEF StagesFit, Resting
    <3>1. CASE i = j
      <4>1. \A m \in Members : PieceFit(k.stages[j].pieces[m])
        BY <1>2, <1>5 DEF StagesFit
      <4>2. ~(j < n.at)
        BY <1>2, <2>6, Sizes
      <4> QED
        BY <1>2, <2>6, <2>8, <3>1, <4>1, <4>2
    <3>2. CASE i # j
      <4>1. n.stages[i] = k.stages[i] /\ n.stages[i].status # "running" /\ n.at = k.at
        BY <2>6, <2>9, <3>2 DEF Resting, j
      <4> QED
        BY <1>5, <4>1 DEF StagesFit
    <3> QED
      BY <3>1, <3>2
  <2>11. k.at \notin T
    BY <1>2, <1>5 DEF TurnsFit, j
  <2>12. k.at <= n.at
    BY <1>2, <2>6, Sizes DEF j
  <2>13. Fit(t, n, l, T, B)
    <3>1. Fit(t, k, l, T, B)
      BY DEF l
    <3> QED
      BY <1>1, <1>4, <1>6, <2>5, <2>7, <2>9, <2>10, <2>11, <2>12, <3>1, RestFit
  <2>14. Waits(n, l)
    <3>1. l = NoLaunch
      BY DEF l
    <3>2. \A m \in Plan[j].who : ~n.stages[j].pieces[m].clash
      <4> SUFFICES ASSUME NEW m \in Plan[j].who PROVE ~n.stages[j].pieces[m].clash
        OBVIOUS
      <4>1. m \in Members
        BY <1>2, WhoOf
      <4>2. PieceFit(k.stages[j].pieces[m]) /\ k.stages[j].pieces[m].status = "failed"
        BY <1>2, <1>5, <1>8, <4>1 DEF StagesFit
      <4> QED
        BY <2>6, <4>2 DEF PieceFit
    <3> QED
      BY <1>2, <2>5, <2>6, <3>1, <3>2 DEF Waits
  <2>15. Pursued(n, l, T)
    BY <2>5 DEF Pursued
  <2>16. g = Goes(f, t, "waiting", "failed")
    BY <1>8 DEF Wait
  <2>17. Settles(f, g, t)
    BY <1>3, <2>3, <2>13, <2>14, <2>15, <2>16, GoesSettles DEF n
  <2> QED
    BY <2>3, <2>17, SettlesTrans
<1> QED
  BY <1>7, <1>8 DEF j

LEMMA CheckStageSettles ==
    ASSUME NEW e \in Team, NEW t \in Tasks, NEW k, NEW l, NEW T, NEW B, Own(e, t, k, l, T, B),
           Fit(t, k, l, T, B), Waits(k, l), Pursued(k, l, T) \/ Landed(k, l)
    PROVE  Settles(e, CheckStage(e, t), t)
<1> DEFINE g == CheckStage(e, t)
<1> SUFFICES Settles(e, g, t)
  OBVIOUS
<1>1. k \in Task /\ l \in Launch /\ T \in SUBSET Stages /\ B \in Tables
      /\ e.tasks[t] = k /\ e.launches[t] = l
  BY OwnTypes, OwnIs
<1>2. \/ /\ g = e
         /\ \/ k.status # "running" \/ l # NoLaunch \/ k.at \notin Stages
            \/ ~IsMemberStage(k.at) \/ k.stages[k.at].status # "running"
            \/ StillGoing(k.stages[k.at], k.at)
      \/ CheckStageGoes(e, g, t)
  BY <1>1, CheckStageIs
<1> HIDE DEF g
<1>3. CASE ~CheckStageGoes(e, g, t)
  <2>1. g = e /\ Pursued(k, l, T)
    BY <1>2, <1>3 DEF Landed
  <2>2. Local(e, g, t)
    BY <2>1 DEF Local
  <2> QED
    BY <2>1, <2>2, StaysSettled
<1>4. CASE CheckStageGoes(e, g, t)
  <2> DEFINE j == k.at
  <2>1. l = NoLaunch /\ Landed(k, NoLaunch) /\ j \in Stages /\ k.status = "running"
        /\ \A m \in Plan[j].who : Settled(k.stages[j].pieces[m])
    BY <1>1, <1>4 DEF CheckStageGoes, Landed, StillGoing
  <2>2. Own(e, t, k, NoLaunch, T, B) /\ Fit(t, k, NoLaunch, T, B)
    BY <2>1
  <2>3. \/ \E f : /\ Retask(e, f, t, Marked(k, j, "failed")) /\ g = Wait(f, t, "failed")
                  /\ \A m \in Plan[j].who : k.stages[j].pieces[m].status = "failed"
        \/ g = Wait(e, t, "failed")
        \/ \E over \in {"done", "skipped"} : \E f :
              Retask(e, f, t, Passed(k, j, over)) /\ g = Advance(f, t)
    BY <1>1, <1>4 DEF CheckStageGoes, Passed
  <2>4. CASE \/ g = Wait(e, t, "failed")
             \/ \E f : /\ Retask(e, f, t, Marked(k, j, "failed")) /\ g = Wait(f, t, "failed")
                       /\ \A m \in Plan[j].who : k.stages[j].pieces[m].status = "failed"
    BY <2>1, <2>2, <2>4, CheckFailsSettles
  <2>5. ASSUME NEW over \in {"done", "skipped"}, NEW f, Retask(e, f, t, Passed(k, j, over)),
               g = Advance(f, t)
        PROVE  Settles(e, g, t)
    <3> DEFINE n == Passed(k, j, over)
    <3>1. Active(k) /\ ~Early(k) /\ over \in {"done", "failed", "skipped"} /\ over \in StageStatus
      BY <2>1 DEF Active, IsTaskActive, Early, StageStatus
    <3>2. Fit(t, n, l, T, B) /\ Resting(n)
      BY <1>1, <2>1, <3>1, PassedFit
    <3>3. n.status = "running" /\ n.why = "none"
      <4>1. k.why = "none"
        BY <2>1 DEF Waits
      <4> QED
        BY <1>1, <2>1, <3>1, <4>1, PassedIs
    <3>4. Own(f, t, n, l, T, B) /\ f \in Team /\ Local(e, f, t)
      BY <2>5, RetaskOwn, RetaskLocal, OwnIs
    <3> HIDE DEF n
    <3>5. Onward(n, l, T)
      BY <3>2, <3>3 DEF Onward, Resting
    <3>6. Settles(f, g, t)
      BY <2>5, <3>2, <3>4, <3>5, AdvanceSettles
    <3> QED
      BY <3>4, <3>6, SettlesTrans
  <2> QED
    BY <2>3, <2>4, <2>5
<1> QED
  BY <1>3, <1>4

\* The table C is B after piece p has become q: p's batch is forgotten or stays q's.
Tabled(B, C, p, q) ==
    /\ \A x \in DOMAIN C : /\ x \in DOMAIN B /\ C[x].task = B[x].task
                           /\ C[x].stage = B[x].stage /\ C[x].member = B[x].member
    /\ \A x \in DOMAIN B : x = p.batch \/ x \in DOMAIN C
    /\ p.batch \in DOMAIN C => q.batch = p.batch
    /\ q.batch # 0 => q.batch = p.batch /\ q.batch \in DOMAIN C

\* The launch h is what l was, on another piece, or l was m's commission and is over.
Handed(k, l, h, m) ==
    \/ h = l /\ (l.at \in {"commissioning", "refused"} => l.stage # k.at \/ l.member # m)
    \/ /\ h = NoLaunch /\ l.at \in {"commissioning", "refused"}
       /\ l.stage = k.at /\ l.member = m /\ k.stages[k.at].pieces[m].batch = l.batch

\* A piece of the stage that goes is heard of.
LEMMA PiecedFit ==
    ASSUME NEW t, NEW k \in Task, NEW l, NEW h, NEW T \in SUBSET Stages, NEW B \in Tables,
           NEW C \in Tables, Fit(t, k, l, T, B), NEW m \in Members, NEW q \in Piece,
           k.at \in Stages, k.status = "running", k.stages[k.at].status = "running",
           PieceFit(q), q.status # "pending",
           q.batch = 0 => q.status \notin {"running", "paused"},
           Held(t, h, C), Handed(k, l, h, m), Tabled(B, C, k.stages[k.at].pieces[m], q)
    PROVE  Fit(t, Pieced(k, k.at, m, q), h, T, C)
<1> DEFINE j == k.at  p == k.stages[j].pieces[m]  n == Pieced(k, j, m, q)
<1>1. /\ n \in Task /\ n.status = k.status /\ n.why = k.why /\ n.at = j /\ n.resumes = k.resumes
      /\ \A i \in Stages \ {j} : n.stages[i] = k.stages[i]
      /\ n.stages[j].status = "running" /\ n.stages[j].pieces[m] = q
      /\ \A y \in Members \ {m} : n.stages[j].pieces[y] = k.stages[j].pieces[y]
  BY PiecedIs
<1>2. StagesFit(n)
  BY PiecedStages DEF Fit
<1> HIDE DEF n
<1>3. \A i \in Stages, y \in Members :
         (i # j \/ y # m) => n.stages[i].pieces[y] = k.stages[i].pieces[y]
  BY <1>1
<1>4. Active(k) /\ Active(n) /\ ~Early(n)
  BY <1>1 DEF Active, IsTaskActive, Early
<1>5. /\ \A x \in DOMAIN C : /\ x \in DOMAIN B /\ C[x].task = B[x].task
                             /\ C[x].stage = B[x].stage /\ C[x].member = B[x].member
      /\ \A x \in DOMAIN B : x = p.batch \/ x \in DOMAIN C
      /\ p.batch \in DOMAIN C => q.batch = p.batch
      /\ q.batch # 0 => q.batch = p.batch /\ q.batch \in DOMAIN C
  BY DEF Tabled
<1>6. j \in Stages
  OBVIOUS
<1>7. RunFit(t, j, m, p, l, B)
  BY DEF Fit, RunsFit
<1>8. NoLaunch.at = "none" /\ NoLaunch.batch = 0
  BY DEF NoLaunch
<1>9. RunsFit(t, n, h, C)
  <2> SUFFICES ASSUME NEW i \in Stages, NEW y \in Members
               PROVE  RunFit(t, i, y, n.stages[i].pieces[y], h, C)
    BY DEF RunsFit
  <2>1. CASE i = j /\ y = m
    BY <1>1, <1>5, <1>7, <2>1, ZenonT(60) DEF RunFit
  <2>2. CASE ~(i = j /\ y = m)
    <3> DEFINE x == k.stages[i].pieces[y]
    <3>1. n.stages[i].pieces[y] = x
      BY <1>3, <2>2
    <3>2. RunFit(t, i, y, x, l, B)
      BY DEF Fit, RunsFit
    <3> HIDE DEF x, p
    <3>3. x.batch # 0 => x.batch # p.batch
      BY <1>7, <2>2, <3>2 DEF RunFit
    <3>4. l.at = "refused" /\ l.stage = i /\ l.member = y => h = l
      BY <2>2 DEF Handed, j
    <3>5. RunFit(t, i, y, x, h, C)
      BY <1>5, <3>2, <3>3, <3>4 DEF RunFit
    <3> QED
      BY <3>1, <3>5
  <2> QED
    BY <2>1, <2>2
<1>10. BatchesFit(t, n, h, C)
  <2> SUFFICES ASSUME NEW b \in DOMAIN C, C[b].task = t
               PROVE  /\ C[b].member \in Plan[C[b].stage].who
                      /\ \/ h.at = "commissioning" /\ h.batch = b
                         \/ n.stages[C[b].stage].pieces[C[b].member].batch = b
    BY DEF BatchesFit
  <2> DEFINE i == C[b].stage  y == C[b].member
  <2>1. b \in DOMAIN B /\ B[b].task = t /\ i = B[b].stage /\ y = B[b].member
    BY <1>5
  <2>2. i \in Stages /\ y \in Members
    BY TableIs DEF Batch
  <2>3. /\ y \in Plan[i].who
        /\ \/ l.at = "commissioning" /\ l.batch = b
           \/ k.stages[i].pieces[y].batch = b
    BY <2>1 DEF Fit, BatchesFit
  <2> HIDE DEF i, y
  <2> SUFFICES \/ h.at = "commissioning" /\ h.batch = b
               \/ n.stages[i].pieces[y].batch = b
    BY <2>3 DEF i, y
  <2>4. CASE l.at = "commissioning" /\ l.batch = b
    <3>1. CASE h = l
      BY <2>4, <3>1
    <3>2. CASE h # l
      <4>1. p.batch = b /\ l.stage = j /\ l.member = m
        BY <2>4, <3>2 DEF Handed
      <4>2. q.batch = b
        BY <1>5, <4>1
      <4>3. i = j /\ y = m
        <5>1. Held(t, l, B)
          BY DEF Fit
        <5> QED
          BY <2>1, <2>4, <4>1, <5>1 DEF Held
      <4> QED
        BY <1>1, <4>2, <4>3
    <3> QED
      BY <3>1, <3>2
  <2>5. CASE k.stages[i].pieces[y].batch = b
    <3>1. CASE i = j /\ y = m
      BY <1>1, <1>5, <2>5, <3>1
    <3>2. CASE ~(i = j /\ y = m)
      BY <1>3, <2>2, <2>5, <3>2
    <3> QED
      BY <3>1, <3>2
  <2> QED
    BY <2>3, <2>4, <2>5
<1>11. LaunchFit(n, h)
  <2>1. CASE h = NoLaunch
    BY <1>8, <2>1 DEF LaunchFit
  <2>2. CASE h # NoLaunch
    <3>1. h = l /\ (l.at \in {"commissioning", "refused"} => l.stage # j \/ l.member # m)
      BY <2>2 DEF Handed
    <3>2. LaunchFit(k, l) /\ Held(t, l, B)
      BY DEF Fit
    <3>3. l.at # "none" => l.stage \in Stages
      BY <3>2 DEF Held
    <3>4. l.at \in {"commissioning", "refused"} => l.member \in Members
      BY <3>2, <3>3, WhoOf DEF Held
    <3>5. l.at \in {"commissioning", "refused"} =>
             n.stages[l.stage].pieces[l.member] = k.stages[l.stage].pieces[l.member]
      BY <1>3, <3>1, <3>3, <3>4
    <3>6. \A y \in Plan[j].who : k.stages[j].pieces[y].status # "pending"
                                   => n.stages[j].pieces[y].status # "pending"
      <4> SUFFICES ASSUME NEW y \in Plan[j].who, k.stages[j].pieces[y].status # "pending"
                   PROVE  n.stages[j].pieces[y].status # "pending"
        OBVIOUS
      <4>1. y \in Members
        BY WhoOf
      <4> QED
        BY <1>1, <4>1
    <3> HIDE DEF p
    <3>7. l.at # "none" =>
             /\ IsMemberStage(l.stage) /\ l.stage <= j
             /\ (l.stage # j => ~IsMemberStage(j))
             /\ l.stage = j => \A y \in Plan[j].who :
                   l.at = "ending" \/ (l.at \in {"commissioning", "refused"} /\ y <= l.member)
                   => k.stages[j].pieces[y].status # "pending"
      BY <1>4, <3>2 DEF LaunchFit
    <3>8. l.at # "commissioning" => l.batch = 0
      BY <3>2 DEF LaunchFit
    <3>9. l.at \in {"commissioning", "refused"} =>
             LET x == n.stages[l.stage].pieces[l.member]
             IN  x.status = "skipped" \/ (x.status = "running" /\ x.batch = l.batch)
      BY <1>4, <3>2, <3>5 DEF LaunchFit
    <3> QED
      BY <1>1, <1>4, <3>1, <3>6, <3>7, <3>8, <3>9 DEF LaunchFit
  <2> QED
    BY <2>1, <2>2
<1>12. TurnsFit(n, T)
  BY <1>1, <1>4 DEF Fit, TurnsFit
<1>13. Fit(t, n, h, T, C)
  BY <1>2, <1>4, <1>9, <1>10, <1>11, <1>12 DEF Fit, EarlyFit
<1> QED
  BY <1>13 DEF n

\* A members' stage that goes is watched by its launch or by a batch, or is over.
LEMMA Watched ==
    ASSUME NEW t, NEW k \in Task, NEW l, NEW T, NEW B, Fit(t, k, l, T, B), k.status = "running",
           k.at \in Stages, IsMemberStage(k.at), k.stages[k.at].status = "running",
           l = NoLaunch => \A m \in Plan[k.at].who : k.stages[k.at].pieces[m].status # "pending"
    PROVE  Pursued(k, l, T) \/ Landed(k, l)
<1>1. Active(k)
  BY DEF Active, IsTaskActive
<1>2. CASE l # NoLaunch
  <2>1. l.at # "none"
    BY <1>2 DEF Fit, Held
  <2>2. l.stage = k.at
    BY <1>1, <2>1 DEF Fit, LaunchFit
  <2> QED
    BY <1>2, <2>2 DEF Pursued
<1>3. CASE l = NoLaunch
  <2>1. CASE \E m \in Plan[k.at].who : k.stages[k.at].pieces[m].batch # 0
    BY <1>3, <2>1 DEF Pursued
  <2>2. CASE \A m \in Plan[k.at].who : k.stages[k.at].pieces[m].batch = 0
    <3> SUFFICES ASSUME NEW m \in Plan[k.at].who PROVE Settled(k.stages[k.at].pieces[m])
      BY <1>3 DEF Landed, StillGoing
    <3>1. m \in Members
      BY WhoOf
    <3>2. RunFit(t, k.at, m, k.stages[k.at].pieces[m], l, B)
      BY <3>1 DEF Fit, RunsFit
    <3>3. k.stages[k.at].pieces[m].status \in PieceStatus
      BY <3>1, TaskTyped
    <3>4. k.stages[k.at].pieces[m].status \notin {"running", "paused", "pending"}
      BY <1>3, <2>2, <3>2 DEF RunFit, NoLaunch
    <3> QED
      BY <3>3, <3>4 DEF PieceStatus, StageStatus, Settled
  <2> QED
    BY <2>1, <2>2
<1> QED
  BY <1>2, <1>3

\* The step is taken.
LEMMA FullBecomes ==
    ASSUME NEW f, Becomes(f), AllFull(f)
    PROVE  AllFull(Now)'
<1>1. /\ tasks' = f.tasks /\ planning' = f.planning /\ turns' = f.turns
      /\ launches' = f.launches /\ batches' = f.batches /\ waking' = f.waking
      /\ away' = f.away /\ idle' = f.idle
  BY DEF Becomes
<1>2. f \in Team /\ \A t \in Tasks : FullAt(f, t)
  BY DEF AllFull
<1>3. Now' \in Team
  BY <1>1, <1>2 DEF Now, Team
<1>4. Now'.tasks = f.tasks /\ Now'.launches = f.launches /\ Now'.batches = f.batches
      /\ Now'.turns = f.turns
  BY <1>1 DEF Now
<1>5. \A t \in Tasks : FullAt(Now', t)
  <2> SUFFICES ASSUME NEW t \in Tasks PROVE FullAt(Now', t)
    OBVIOUS
  <2>1. Slice(Now', t) = Slice(f, t)
    BY <1>4 DEF Slice
  <2> QED
    BY <1>2, <2>1, FullOfSlice
<1> QED
  BY <1>3, <1>5 DEF AllFull

LEMMA FullLands ==
    ASSUME AllFull(Now), NEW f, Becomes(f), NEW t \in Tasks, Settles(Now, f, t)
    PROVE  AllFull(Now)'
<1>1. AllFull(f)
  BY FullElsewhere DEF Settles, AllFull
<1> QED
  BY <1>1, FullBecomes

\* Where a step of task t begins.
Begins(t) == Own(Now, t, tasks[t], launches[t], TurnsOf(Now, t), batches)

LEMMA FullNow ==
    ASSUME AllFull(Now), NEW t \in Tasks
    PROVE  /\ Now \in Team /\ Begins(t)
           /\ Fit(t, tasks[t], launches[t], TurnsOf(Now, t), batches)
           /\ Waits(tasks[t], launches[t]) /\ Pursued(tasks[t], launches[t], TurnsOf(Now, t))
           /\ tasks[t] \in Task /\ launches[t] \in Launch /\ TurnsOf(Now, t) \in SUBSET Stages
           /\ batches \in Tables
           /\ Now.tasks = tasks /\ Now.launches = launches /\ Now.batches = batches
           /\ Now.turns = turns
<1>1. Now \in Team /\ FullAt(Now, t)
  BY DEF AllFull
<1>2. Now.tasks = tasks /\ Now.launches = launches /\ Now.batches = batches /\ Now.turns = turns
  BY DEF Now
<1>3. Own(Now, t, tasks[t], launches[t], TurnsOf(Now, t), batches)
  BY <1>1, <1>2, OwnTyped
<1> QED
  BY <1>1, <1>2, <1>3, OwnFull, OwnTypes DEF Begins

LEMMA NoClash ==
    ASSUME NEW t, NEW k, NEW l, NEW T, NEW B, Fit(t, k, l, T, B), NEW j \in Stages, NEW m \in Members,
           k.stages[j].pieces[m].status # "done"
    PROVE  ~k.stages[j].pieces[m].clash
  BY DEF Fit, StagesFit, PieceFit

\* Where a piece runs, its stage does, and the task is at it.
LEMMA RunsHere ==
    ASSUME NEW t, NEW k, NEW l, NEW T, NEW B, Fit(t, k, l, T, B), NEW j \in Stages, NEW m \in Members,
           ~Idle(k.stages[j].pieces[m])
    PROVE  /\ j = k.at /\ k.stages[j].status = "running" /\ Active(k)
           /\ k.status = "running" \/ (k.status = "waiting" /\ k.why = "failed")
  BY DEF Fit, StagesFit, Active, IsTaskActive

LEMMA WhoLaunches ==
    ASSUME NEW t, NEW k, NEW l, NEW T, NEW B, Fit(t, k, l, T, B),
           l.at \in {"commissioning", "refused"}
    PROVE  /\ l.stage \in Stages /\ l.member \in Plan[l.stage].who /\ l.member \in Members
           /\ l.member \in Nat /\ IsMemberStage(l.stage)
<1>1. l.stage \in Stages /\ l.member \in Plan[l.stage].who /\ IsMemberStage(l.stage)
  BY DEF Fit, Held, LaunchFit
<1> QED
  BY <1>1, WhoOf, Sizes

\* The commission that is awaited, if it is still wanted.
Wanted(k, l) ==
    /\ k.stages[l.stage].pieces[l.member].status = "running"
    /\ k.stages[l.stage].pieces[l.member].batch = l.batch
    /\ ~k.stages[l.stage].pieces[l.member].clash
    /\ l.stage = k.at /\ k.status = "running" /\ k.stages[k.at].status = "running"

LEMMA Commissioned ==
    ASSUME NEW t, NEW k, NEW l, NEW T, NEW B, Fit(t, k, l, T, B),
           l.at \in {"commissioning", "refused"}, Active(k),
           k.stages[l.stage].pieces[l.member].status # "skipped"
    PROVE  Wanted(k, l)
<1>1. l.stage \in Stages /\ l.member \in Members
  BY WhoLaunches
<1>2. /\ k.stages[l.stage].pieces[l.member].status = "running"
      /\ k.stages[l.stage].pieces[l.member].batch = l.batch
  BY DEF Fit, LaunchFit
<1>3. ~Idle(k.stages[l.stage].pieces[l.member])
  BY <1>2 DEF Idle
<1>4. l.stage = k.at /\ k.stages[l.stage].status = "running"
  BY <1>1, <1>3, RunsHere
<1>5. k.status = "running"
  BY <1>4 DEF Fit, LaunchFit
<1>6. ~k.stages[l.stage].pieces[l.member].clash
  BY <1>1, <1>2, NoClash
<1> QED
  BY <1>2, <1>4, <1>5, <1>6 DEF Wanted

\* A commission that was refused for a piece nobody wants any longer.
LEMMA RefusedDropped ==
    ASSUME NEW t, NEW k, NEW l, NEW T, NEW B, Fit(t, k, l, T, B), l.at = "refused",
           k.stages[l.stage].pieces[l.member].status = "skipped" \/ ~Active(k)
    PROVE  Fit(t, k, NoLaunch, T, B)
<1>1. NoLaunch.at = "none" /\ NoLaunch.batch = 0
  BY DEF NoLaunch
<1>2. NoneStarting(t, B)
  BY DEF Fit, Held, NoneStarting
<1>3. Held(t, NoLaunch, B)
  BY <1>2, HeldIdle
<1>4. LaunchFit(k, NoLaunch)
  BY <1>1 DEF LaunchFit
<1>5. EarlyFit(k, NoLaunch, T)
  BY DEF Fit, EarlyFit
<1>6. RunsFit(t, k, NoLaunch, B)
  <2> SUFFICES ASSUME NEW j \in Stages, NEW m \in Members
               PROVE  RunFit(t, j, m, k.stages[j].pieces[m], NoLaunch, B)
    BY DEF RunsFit
  <2>1. RunFit(t, j, m, k.stages[j].pieces[m], l, B)
    BY DEF Fit, RunsFit
  <2>2. ASSUME k.stages[j].pieces[m].batch = 0, k.stages[j].pieces[m].status \in {"running", "paused"}
        PROVE  FALSE
    <3>1. Active(k)
      <4>1. ~Idle(k.stages[j].pieces[m])
        BY <2>2 DEF Idle
      <4> QED
        BY <4>1, RunsHere
    <3>2. l.stage = j /\ l.member = m
      BY <2>1, <2>2 DEF RunFit
    <3> QED
      BY <2>2, <3>1, <3>2
  <2> QED
    BY <2>1, <2>2 DEF RunFit
<1>7. BatchesFit(t, k, NoLaunch, B)
  BY DEF Fit, BatchesFit
<1> QED
  BY <1>3, <1>4, <1>5, <1>6, <1>7 DEF Fit

LEMMA ReadyPieced ==
    ASSUME NEW k \in Task, NEW T, NEW j \in Stages, NEW m, Ready(k, T, j, m), k.at = j,
           k.status = "running", NEW y \in Members, NEW q \in Piece, q.status # "pending"
    PROVE  Ready(Pieced(k, j, y, q), T, j, m)
<1> DEFINE n == Pieced(k, j, y, q)
<1>1. /\ n.status = k.status /\ n.why = k.why /\ n.at = j /\ n.resumes = k.resumes
      /\ n.stages[j].status = k.stages[j].status
      /\ n.stages[j].pieces[y] = q
      /\ \A x \in Members \ {y} : n.stages[j].pieces[x] = k.stages[j].pieces[x]
  BY PiecedIs
<1> HIDE DEF n
<1>2. Active(k)
  BY DEF Active, IsTaskActive
<1>3. k.stages[j].status = "running"
        /\ \A x \in Plan[j].who : x <= m => k.stages[j].pieces[x].status # "pending"
  BY <1>2 DEF Ready
<1>4. \A x \in Plan[j].who : x <= m => n.stages[j].pieces[x].status # "pending"
  <2> SUFFICES ASSUME NEW x \in Plan[j].who, x <= m PROVE n.stages[j].pieces[x].status # "pending"
    OBVIOUS
  <2>1. x \in Members
    BY WhoOf
  <2> QED
    BY <1>1, <1>3, <2>1
<1>5. ~Early(n)
  BY <1>1 DEF Early
<1>6. Waits(n, Ending(j))
  BY <1>1, <1>3 DEF Waits, Ready, Settled
<1>7. Ready(n, T, j, m)
  BY <1>1, <1>3, <1>4, <1>5, <1>6, Sizes DEF Ready
<1> QED
  BY <1>7 DEF n

LEMMA RestoreReturnsFull ==
    ASSUME AllFull(Now), NEW t \in Tasks, RestoreReturns(t)
    PROVE  AllFull(Now)'
<1> DEFINE k == tasks[t]  l == launches[t]  T == TurnsOf(Now, t)  B == batches
<1>1. /\ Now \in Team /\ Own(Now, t, k, l, T, B) /\ Fit(t, k, l, T, B) /\ Waits(k, l) /\ Pursued(k, l, T)
      /\ k \in Task
  BY FullNow DEF Begins
<1>2. l.at = "restoring" /\ Becomes(Commission(Now, t, l.stage, 0))
  BY DEF RestoreReturns
<1> HIDE DEF k, l, T, B
<1>3. l.stage \in Stages
  BY <1>1, <1>2 DEF Fit, Held
<1>4. Ready(k, T, l.stage, 0)
  BY <1>1, <1>2, ReadyFrom
<1>5. Fit(t, k, NoLaunch, T, B)
  BY <1>1, <1>2, LaunchDone
<1>6. Settles(Now, Commission(Now, t, l.stage, 0), t)
  BY <1>1, <1>3, <1>4, <1>5, CommissionSettles
<1> QED
  BY <1>2, <1>6, FullLands

LEMMA CommissionRefusedFull ==
    ASSUME AllFull(Now), NEW t \in Tasks, CommissionRefused(t)
    PROVE  AllFull(Now)'
<1> DEFINE k == tasks[t]  l == launches[t]  T == TurnsOf(Now, t)  B == batches
           p == k.stages[l.stage].pieces[l.member]
           q == [p EXCEPT !.status = "failed"]
           f == Persist(SetPiece(Now, t, l.stage, l.member, q), t)
           g == Commission(IF Unwanted(Now, t, l.stage, l.member) THEN Now ELSE f,
                           t, l.stage, l.member)
<1>1. /\ Now \in Team /\ Own(Now, t, k, l, T, B) /\ Fit(t, k, l, T, B) /\ Waits(k, l) /\ Pursued(k, l, T)
      /\ k \in Task /\ l \in Launch /\ T \in SUBSET Stages /\ B \in Tables
  BY FullNow DEF Begins
<1>2. l.at = "refused" /\ Becomes(g)
  BY DEF CommissionRefused
<1>3. Unwanted(Now, t, l.stage, l.member) <=> p.status = "skipped" \/ ~Active(k)
  BY FullNow DEF Unwanted, Active
<1>4. l.stage \in Stages /\ l.member \in Members /\ l.member \in Nat
  BY <1>1, <1>2, WhoLaunches
<1>5. Ready(k, T, l.stage, l.member)
  BY <1>1, <1>2, <1>4, ReadyFrom
<1>6. CASE Unwanted(Now, t, l.stage, l.member)
  <2>1. Fit(t, k, NoLaunch, T, B)
    BY <1>1, <1>2, <1>3, <1>6, RefusedDropped
  <2>2. g = Commission(Now, t, l.stage, l.member)
    BY <1>6
  <2> HIDE DEF k, l, T, B, g
  <2>3. Settles(Now, g, t)
    BY <1>1, <1>4, <1>5, <2>1, <2>2, CommissionSettles
  <2> QED
    BY <1>2, <2>3, FullLands
<1>7. CASE ~Unwanted(Now, t, l.stage, l.member)
  <2>1. p.status = "running" /\ p.batch = l.batch /\ ~p.clash /\ l.stage = k.at
        /\ k.status = "running" /\ k.stages[k.at].status = "running"
    <3> HIDE DEF k, l, T, B
    <3>1. Active(k) /\ k.stages[l.stage].pieces[l.member].status # "skipped"
      BY <1>3, <1>7
    <3>2. l.at \in {"commissioning", "refused"}
      BY <1>2
    <3>3. Fit(t, k, l, T, B)
      BY <1>1
    <3>4. Wanted(k, l)
      BY ONLY <3>1, <3>2, <3>3, Commissioned
    <3> QED
      BY <3>4 DEF Wanted
  <2>2. p \in Piece /\ l.batch = 0
    BY <1>1, <1>2, <1>4, TaskTyped DEF Fit, LaunchFit
  <2>3. q \in Piece /\ q.status = "failed" /\ q.batch = 0 /\ ~q.clash
    <3> HIDE DEF p
    <3> QED
      BY <2>1, <2>2 DEF Piece, PieceStatus, StageStatus
  <2>4. g = Commission(f, t, l.stage, l.member)
    BY <1>7
  <2>5. Now.tasks[t] = k
    BY FullNow
  <2> HIDE DEF k, l, T, B, p, q, f
  <2>6. Retask(Now, f, t, Pieced(k, l.stage, l.member, q))
    <3> DEFINE d == SetPiece(Now, t, l.stage, l.member, q)
    <3>1. Retask(Now, d, t, [Now.tasks[t] EXCEPT !.stages[l.stage].pieces[l.member] = q])
      BY <1>1, <1>4, <2>3, SetPieceRetasks
    <3>2. Retask(Now, d, t, Pieced(k, l.stage, l.member, q))
      BY <2>5, <3>1 DEF Pieced
    <3>3. f = Persist(d, t)
      BY DEF f, q, p, k, l
    <3> HIDE DEF d
    <3> QED
      BY <3>2, <3>3, RetaskPersist
  <2> HIDE DEF g
  <2> DEFINE n == Pieced(k, l.stage, l.member, q)
  <2>7. Own(f, t, n, l, T, B) /\ f \in Team /\ Local(Now, f, t)
    BY <1>1, <2>6, RetaskOwn, RetaskLocal, OwnIs
  <2>8. Fit(t, n, NoLaunch, T, B)
    <3>1. PieceFit(q)
      BY <2>3 DEF PieceFit
    <3>2. Tabled(B, B, k.stages[k.at].pieces[l.member], q)
      <4>1. 0 \notin DOMAIN B
        BY <1>1, TableIs
      <4> QED
        BY <2>1, <2>2, <2>3, <4>1 DEF Tabled, p
    <3>3. Handed(k, l, NoLaunch, l.member)
      BY <1>2, <2>1 DEF Handed, p
    <3>4. Held(t, NoLaunch, B)
      <4>1. NoneStarting(t, B)
        BY <1>1, <1>2 DEF Fit, Held, NoneStarting
      <4> QED
        BY <4>1, HeldIdle
    <3>5. k.at \in Stages /\ q.status # "pending"
          /\ (q.batch = 0 => q.status \notin {"running", "paused"})
      BY <1>4, <2>1, <2>3
    <3> QED
      BY <1>1, <1>4, <2>1, <2>3, <3>1, <3>2, <3>3, <3>4, <3>5, PiecedFit
  <2>9. Ready(n, T, l.stage, l.member)
    <3>1. q.status # "pending"
      BY <2>3
    <3> QED
      BY <1>1, <1>4, <1>5, <2>1, <2>3, <3>1, ReadyPieced
  <2> HIDE DEF n
  <2>10. Settles(f, g, t)
    BY <1>4, <2>4, <2>7, <2>8, <2>9, CommissionSettles
  <2>11. Settles(Now, g, t)
    BY <2>7, <2>10, SettlesTrans
  <2> QED
    BY <1>2, <2>11, FullLands
<1> QED
  BY <1>6, <1>7

LEMMA RebatchLocal ==
    ASSUME NEW e, NEW f, NEW t, NEW C, Rebatched(e, f, C),
           \A u \in Tasks \ {t} : Going(C, u) = Going(e.batches, u)
    PROVE  /\ Local(e, f, t) /\ f \in Team
           /\ Own(f, t, e.tasks[t], e.launches[t], TurnsOf(e, t), C)
<1>1. f \in Team /\ f.tasks = e.tasks /\ f.launches = e.launches /\ f.turns = e.turns /\ f.batches = C
  BY DEF Rebatched
<1>2. Local(e, f, t)
  BY <1>1, LocalIs
<1>3. TurnsOf(f, t) = TurnsOf(e, t)
  BY <1>1 DEF TurnsOf
<1> QED
  BY <1>1, <1>2, <1>3 DEF Own

\* What a batch says of its piece is fit to be said.
Told1(B, C, p, q) ==
    /\ Tabled(B, C, p, q) /\ PieceFit(q) /\ q \in Piece /\ q.status # "pending"
    /\ (q.batch = 0 => q.status \notin {"running", "paused"})

LEMMA HeardTabled ==
    ASSUME NEW B \in Tables, NEW b \in DOMAIN B, NEW how \in Hows, NEW p \in Piece, p.batch = b,
           ~p.clash
    PROVE  Told1(B, Heard(B, b, how), p, Folded(p, b, how))
<1> DEFINE C == Heard(B, b, how)  q == Folded(p, b, how)
<1>1. b \in Nat /\ b # 0
  BY TableIs
<1>2. /\ q \in Piece
      /\ how \in {"running", "paused"} => q.status = how /\ q.batch = b /\ q.clash = p.clash
      /\ how \notin {"running", "paused"} =>
           /\ q.batch = 0
           /\ q.status = IF how = "failed" THEN "failed" ELSE "done"
           /\ how = "failed" => q.clash = p.clash
  BY <1>1, FoldedIs
<1>3. /\ \A x \in DOMAIN C :
            /\ x \in DOMAIN B
            /\ x # b => C[x] = B[x]
            /\ x = b => /\ how \in {"running", "paused"}
                        /\ C[b].task = B[b].task /\ C[b].stage = B[b].stage /\ C[b].member = B[b].member
      /\ \A x \in DOMAIN B \ {b} : x \in DOMAIN C
      /\ how \in {"running", "paused"} => b \in DOMAIN C
  BY HeardIs
<1> HIDE DEF C, q
<1>4. Tabled(B, C, p, q)
  <2>1. \A x \in DOMAIN C : /\ x \in DOMAIN B /\ C[x].task = B[x].task
                            /\ C[x].stage = B[x].stage /\ C[x].member = B[x].member
    BY <1>3
  <2>2. \A x \in DOMAIN B : x = p.batch \/ x \in DOMAIN C
    BY <1>3
  <2>3. p.batch \in DOMAIN C => q.batch = p.batch
    BY <1>2, <1>3
  <2>4. q.batch # 0 => q.batch = p.batch /\ q.batch \in DOMAIN C
    BY <1>2, <1>3
  <2> QED
    BY <2>1, <2>2, <2>3, <2>4 DEF Tabled
<1>5. PieceFit(q)
  BY <1>2 DEF PieceFit, Hows
<1>6. Told1(B, C, p, q)
  <2>1. q.status # "pending" /\ (q.batch = 0 => q.status \notin {"running", "paused"})
    <3>1. CASE how \in {"running", "paused"}
      BY <1>1, <1>2, <3>1
    <3>2. CASE how \notin {"running", "paused"}
      BY <1>2, <3>2
    <3> QED
      BY <3>1, <3>2
  <2> QED
    BY <1>2, <1>4, <1>5, <2>1 DEF Told1
<1> QED
  BY <1>6 DEF C, q

\* A commission that came to a batch nobody wants any longer.
LEMMA CommissionDropped ==
    ASSUME NEW t, NEW k, NEW l, NEW T, NEW B \in Tables, Fit(t, k, l, T, B), l.at = "commissioning",
           k.stages[l.stage].pieces[l.member].status = "skipped" \/ ~Active(k),
           NEW C, \A x \in DOMAIN C : x \in DOMAIN B /\ x # l.batch /\ C[x] = B[x],
           \A x \in DOMAIN B : x = l.batch \/ x \in DOMAIN C
    PROVE  Fit(t, k, NoLaunch, T, C)
<1>1. NoLaunch.at = "none" /\ NoLaunch.batch = 0
  BY DEF NoLaunch
<1>2. /\ l.batch \in DOMAIN B
      /\ B[l.batch] = [state |-> "starting", task |-> t, stage |-> l.stage, member |-> l.member]
      /\ \A b \in DOMAIN B : B[b].task = t /\ B[b].state = "starting" => l.batch = b
  BY DEF Fit, Held
<1>3. NoneStarting(t, C)
  BY <1>2 DEF NoneStarting
<1>4. Held(t, NoLaunch, C)
  BY <1>3, HeldIdle
<1>5. LaunchFit(k, NoLaunch)
  BY <1>1 DEF LaunchFit
<1>6. EarlyFit(k, NoLaunch, T)
  BY DEF Fit, EarlyFit
<1>7. RunsFit(t, k, NoLaunch, C)
  <2> SUFFICES ASSUME NEW j \in Stages, NEW m \in Members
               PROVE  RunFit(t, j, m, k.stages[j].pieces[m], NoLaunch, C)
    BY DEF RunsFit
  <2> DEFINE p == k.stages[j].pieces[m]
  <2>1. RunFit(t, j, m, p, l, B) /\ PieceFit(p)
    BY DEF Fit, RunsFit, StagesFit
  <2>2. p.batch # 0 => p.batch # l.batch
    <3> SUFFICES ASSUME p.batch # 0, p.batch = l.batch PROVE FALSE
      OBVIOUS
    <3>1. j = l.stage /\ m = l.member
      BY <1>2, <2>1 DEF RunFit
    <3>2. p.status \in {"running", "paused"}
      BY <2>1 DEF PieceFit
    <3>3. Active(k)
      <4>1. ~Idle(p)
        BY <3>2 DEF Idle
      <4> QED
        BY <4>1, RunsHere
    <3> QED
      BY <3>1, <3>2, <3>3
  <2>3. ~(p.batch = 0 /\ p.status \in {"running", "paused"})
    BY <2>1 DEF RunFit
  <2> HIDE DEF p
  <2>4. RunFit(t, j, m, p, NoLaunch, C)
    BY <2>1, <2>2, <2>3 DEF RunFit
  <2> QED
    BY <2>4 DEF p
<1>8. BatchesFit(t, k, NoLaunch, C)
  BY DEF Fit, BatchesFit
<1> QED
  BY <1>4, <1>5, <1>6, <1>7, <1>8 DEF Fit

\* The answer to a commission, and what it leaves to go on with.
LEMMA AnswerFit ==
    ASSUME NEW e \in Team, NEW t \in Tasks, NEW k, NEW l, NEW T, NEW B, Own(e, t, k, l, T, B),
           Fit(t, k, l, T, B), l.at = "commissioning", Ready(k, T, l.stage, l.member),
           NEW how \in {"running", "failed"}, NEW d,
           d = LET told == Told(e, l.batch, how)
               IN  IF Unwanted(told, t, l.stage, l.member) THEN Cancelled(told, {l.batch})
                   ELSE Persist(told, t)
    PROVE  /\ Local(e, d, t) /\ d \in Team
           /\ \E n, h, C : /\ Own(d, t, n, h, T, C) /\ Fit(t, n, NoLaunch, T, C)
                           /\ Ready(n, T, l.stage, l.member)
<1> DEFINE b == l.batch  j == l.stage  m == l.member  p == k.stages[j].pieces[m]
           told == Told(e, b, how)  C == Heard(B, b, how)
<1>1. /\ k \in Task /\ l \in Launch /\ T \in SUBSET Stages /\ B \in Tables
      /\ e.tasks[t] = k /\ e.launches[t] = l /\ TurnsOf(e, t) = T /\ e.batches = B
  BY OwnIs, OwnTypes
<1>2. j \in Stages /\ m \in Members /\ m \in Plan[j].who /\ m \in Nat
  BY WhoLaunches
<1>3. /\ Held(t, l, B) /\ b \in DOMAIN B
      /\ B[b] = [state |-> "starting", task |-> t, stage |-> j, member |-> m]
  BY DEF Fit, Held
<1>4. how \in Hows /\ l # NoLaunch
  BY DEF Hows, NoLaunch
<1>5. p \in Piece
  BY <1>1, <1>2, TaskTyped
<1>6. NoneStarting(t, C)
  BY <1>1, <1>3, <1>4, NoneStartingHeard
<1>7. \A u \in Tasks \ {t} : Going(C, u) = Going(B, u)
  BY <1>1, <1>3, <1>4, HeardKeepsOthers
<1>8. PICK f : /\ Rebatched(e, f, C)
               /\ \/ Deaf(k, B[b], b) /\ told = f
                  \/ ~Deaf(k, B[b], b) /\ Retask(f, told, t, Fold(k, B[b], b, how))
  <2>1. e.batches[b].task = t /\ b \in DOMAIN e.batches /\ e.launches[t] # NoLaunch
    BY <1>1, <1>3, <1>4
  <2> HIDE DEF b, C
  <2> QED
    BY <1>1, <1>4, <2>1, ToldInLaunch DEF C
<1>9. Deaf(k, B[b], b) <=> p.batch \notin {0, b} \/ Settled(p) \/ ~Active(k)
  BY <1>3 DEF Deaf, Active
<1>10. d = IF Unwanted(told, t, j, m) THEN Cancelled(told, {b}) ELSE Persist(told, t)
  OBVIOUS
<1>11. Active(k) /\ p.status # "skipped" => p.status = "running" /\ p.batch = b /\ ~p.clash
         /\ j = k.at /\ k.status = "running" /\ k.stages[k.at].status = "running"
  <2> SUFFICES ASSUME Active(k) /\ p.status # "skipped"
               PROVE  /\ p.status = "running" /\ p.batch = b /\ ~p.clash
                      /\ j = k.at /\ k.status = "running" /\ k.stages[k.at].status = "running"
    OBVIOUS
  <2>1. Wanted(k, l)
    BY Commissioned
  <2> QED
    BY <2>1 DEF Wanted
<1>12. b \in Nat /\ b # 0
  BY <1>1, <1>3, TableIs
<1>13. Local(e, f, t) /\ f \in Team /\ Own(f, t, k, l, T, C)
  BY <1>1, <1>7, <1>8, RebatchLocal
<1>14. Fold(k, B[b], b, how) = Pieced(k, j, m, Folded(p, b, how))
  BY <1>3 DEF Fold
<1>15. CASE Deaf(k, B[b], b)
  <2>1. told = f
    BY <1>8, <1>15
  <2>2. p.status = "skipped" \/ ~Active(k)
    BY <1>9, <1>11, <1>15 DEF Settled
  <2>3. f.tasks[t] = k /\ f.batches = C /\ f.launches[t] = l /\ TurnsOf(f, t) = T
    BY <1>13, OwnIs
  <2>4. Unwanted(told, t, j, m)
    BY <2>1, <2>2, <2>3 DEF Unwanted, Active
  <2> DEFINE D == Without(C, {x \in {b} : Abortable(f, x)})
  <2>5. Rebatched(f, d, D)
    BY <1>10, <1>13, <2>1, <2>3, <2>4, CancelledIs
  <2>6. /\ C \in Tables
        /\ \A x \in DOMAIN C :
              /\ x \in DOMAIN B
              /\ x # b => C[x] = B[x]
              /\ x = b => how \in {"running", "paused"} /\ C[b].state = how
        /\ \A x \in DOMAIN B \ {b} : x \in DOMAIN C
    BY <1>1, <1>3, <1>4, HeardIs
  <2> HIDE DEF C
  <2>7. /\ D \in Tables /\ DOMAIN D = DOMAIN C \ {x \in {b} : Abortable(f, x)}
        /\ \A x \in DOMAIN D : D[x] = C[x]
    <3> DEFINE R == {x \in {b} : Abortable(f, x)}
    <3>1. D = Without(C, R) /\ C \in Tables
      BY <2>6
    <3> HIDE DEF D, R
    <3>2. D \in Tables /\ DOMAIN D = DOMAIN C \ R /\ \A x \in DOMAIN C \ R : D[x] = C[x]
      BY ONLY <3>1, WithoutIs
    <3> QED
      BY <3>2 DEF R
  <2> HIDE DEF D
  <2>8. b \in DOMAIN C => Abortable(f, b)
    BY <2>3, <2>6 DEF Abortable
  <2>9. /\ \A x \in DOMAIN D : x \in DOMAIN B /\ x # b /\ D[x] = B[x]
        /\ \A x \in DOMAIN B : x = b \/ x \in DOMAIN D
    BY <2>6, <2>7, <2>8
  <2>10. Fit(t, k, NoLaunch, T, D)
    BY <1>1, <2>2, <2>9, CommissionDropped
  <2>11. \A u \in Tasks \ {t} : Going(D, u) = Going(C, u)
    <3> SUFFICES ASSUME NEW u \in Tasks \ {t} PROVE Going(D, u) = Going(C, u)
      OBVIOUS
    <3>1. \A x \in DOMAIN C : x # b => x \in DOMAIN D
      BY <2>7
    <3>2. b \in DOMAIN C => C[b].task = t
      BY <1>1, <1>3, <1>4, HeardIs DEF C
    <3>3. \A x : x \in DOMAIN D /\ D[x].task = u <=> x \in DOMAIN C /\ C[x].task = u
      BY <2>7, <3>1, <3>2
    <3>4. \A x \in DOMAIN C : C[x].task = u => D[x] = C[x]
      BY <2>7, <3>3
    <3> QED
      BY <3>3, <3>4, GoingElsewhere
  <2>12. Local(f, d, t) /\ d \in Team /\ Own(d, t, k, l, T, D)
    <3>1. \A u \in Tasks \ {t} : Going(D, u) = Going(f.batches, u)
      BY <2>3, <2>11
    <3>2. Local(f, d, t) /\ d \in Team /\ Own(d, t, f.tasks[t], f.launches[t], TurnsOf(f, t), D)
      BY <2>5, <3>1, RebatchLocal
    <3> QED
      BY <2>3, <3>2
  <2>13. Local(e, d, t)
    BY <1>13, <2>12, LocalTrans
  <2> QED
    BY <2>10, <2>12, <2>13
<1>16. CASE ~Deaf(k, B[b], b)
  <2>1. Retask(f, told, t, Fold(k, B[b], b, how))
    BY <1>8, <1>16
  <2>2. Active(k) /\ p.status = "running" /\ p.batch = b /\ ~p.clash
         /\ j = k.at /\ k.status = "running" /\ k.stages[k.at].status = "running"
    BY <1>9, <1>11, <1>16 DEF Settled
  <2> DEFINE q == Folded(p, b, how)  n == Pieced(k, j, m, q)
  <2>3. Told1(B, C, p, q)
    BY <1>1, <1>3, <1>4, <1>5, <2>2, HeardTabled
  <2>4. q.status = how
    BY <1>4, <1>5, <1>12, FoldedIs
  <2>5. q \in Piece
    BY <2>3 DEF Told1
  <2>6. n \in Task /\ n.status = k.status /\ n.stages[j].pieces[m] = q
    <3> HIDE DEF q, j, m
    <3> QED
      BY <1>1, <1>2, <2>5, PiecedIs
  <2>7. Retask(f, told, t, n)
    BY <1>14, <2>1
  <2>8. C \in Tables
    BY <1>1, <1>3, <1>4, HeardIs
  <2>9. Handed(k, l, NoLaunch, m)
    BY <2>2 DEF Handed
  <2>10. Held(t, NoLaunch, C)
    BY <1>6, HeldIdle
  <2>11. Fit(t, n, NoLaunch, T, C)
    <3>1. Tabled(B, C, k.stages[k.at].pieces[m], q) /\ PieceFit(q) /\ q.status # "pending"
          /\ (q.batch = 0 => q.status \notin {"running", "paused"})
      BY <2>2, <2>3 DEF Told1
    <3>2. k.at \in Stages /\ k.status = "running" /\ k.stages[k.at].status = "running"
          /\ n = Pieced(k, k.at, m, q)
      BY <1>2, <2>2
    <3> HIDE DEF q, n, C, p, j, m
    <3> QED
      BY <1>1, <1>2, <2>5, <2>8, <2>9, <2>10, <3>1, <3>2, PiecedFit
  <2>12. Ready(n, T, j, m)
    <3>1. q.status # "pending" /\ k.at = j /\ k.status = "running"
      BY <2>2, <2>4
    <3>2. Ready(k, T, j, m)
      OBVIOUS
    <3> HIDE DEF q, p, j, m
    <3> QED
      BY <1>1, <1>2, <2>5, <3>1, <3>2, ReadyPieced
  <2>13. told \in Team /\ told.tasks[t] = n
    BY <2>7 DEF Retask
  <2>14. ~Unwanted(told, t, j, m)
    BY <2>2, <2>4, <2>6, <2>13 DEF Unwanted, Active, IsTaskActive
  <2>15. d = Persist(told, t)
    BY <1>10, <2>14
  <2> HIDE DEF told, n, q, C
  <2>16. Retask(f, d, t, n)
    BY <2>7, <2>15, RetaskPersist
  <2>17. Own(d, t, n, l, T, C) /\ d \in Team /\ Local(f, d, t)
    BY <1>13, <2>16, RetaskOwn, RetaskLocal, OwnIs
  <2>18. Local(e, d, t)
    BY <1>13, <2>17, LocalTrans
  <2> QED
    BY <2>11, <2>12, <2>17, <2>18
<1> QED
  BY <1>15, <1>16

LEMMA CommissionReturnsFull ==
    ASSUME AllFull(Now), NEW t \in Tasks, NEW how \in {"running", "failed"}, CommissionReturns(t, how)
    PROVE  AllFull(Now)'
<1> DEFINE k == tasks[t]  l == launches[t]  T == TurnsOf(Now, t)  B == batches
           d == LET told == Told(Now, l.batch, how)
                IN  IF Unwanted(told, t, l.stage, l.member) THEN Cancelled(told, {l.batch})
                    ELSE Persist(told, t)
           g == Commission(d, t, l.stage, l.member)
<1>1. /\ Now \in Team /\ Own(Now, t, k, l, T, B) /\ Fit(t, k, l, T, B) /\ Waits(k, l) /\ Pursued(k, l, T)
      /\ k \in Task
  BY FullNow DEF Begins
<1>2. l.at = "commissioning" /\ Becomes(g)
  BY DEF CommissionReturns
<1>3. d = LET told == Told(Now, l.batch, how)
          IN  IF Unwanted(told, t, l.stage, l.member) THEN Cancelled(told, {l.batch})
              ELSE Persist(told, t)
  OBVIOUS
<1> HIDE DEF k, l, T, B, d
<1>4. l.stage \in Stages /\ l.member \in Nat
  BY <1>1, <1>2, WhoLaunches
<1>5. Ready(k, T, l.stage, l.member)
  BY <1>1, <1>2, <1>4, ReadyFrom
<1>6. /\ Local(Now, d, t) /\ d \in Team
      /\ \E n, h, C : /\ Own(d, t, n, h, T, C) /\ Fit(t, n, NoLaunch, T, C)
                      /\ Ready(n, T, l.stage, l.member)
  BY <1>1, <1>2, <1>3, <1>5, AnswerFit
<1>7. Settles(d, g, t)
  BY <1>4, <1>6, CommissionSettles
<1> HIDE DEF g
<1>8. Settles(Now, g, t)
  BY <1>6, <1>7, SettlesTrans
<1> QED
  BY <1>2, <1>8, FullLands

LEMMA FullAll ==
    ASSUME NEW e, AllFull(e)
    PROVE  All(e)
<1> SUFFICES ASSUME NEW t \in Tasks PROVE Held(t, e.launches[t], e.batches) /\ Sited(e.tasks[t])
  BY DEF All, AllFull
<1>1. FullAt(e, t)
  BY DEF AllFull
<1> QED
  BY <1>1 DEF FullAt, FitAt, WaitsAt, Fit, Waits, Sited

\* A batch that has been made is that of a piece of the stage that goes.
LEMMA Speaks ==
    ASSUME NEW t, NEW k \in Task, NEW l, NEW T, NEW B \in Tables, Fit(t, k, l, T, B), Waits(k, l),
           NEW b \in DOMAIN B, B[b].task = t, B[b].state # "starting"
    PROVE  /\ B[b].stage = k.at /\ k.at \in Stages /\ k.status = "running"
           /\ k.stages[k.at].status = "running" /\ IsMemberStage(k.at)
           /\ B[b].member \in Plan[k.at].who /\ B[b].member \in Members
           /\ k.stages[k.at].pieces[B[b].member].batch = b
           /\ k.stages[k.at].pieces[B[b].member].status \in {"running", "paused"}
           /\ ~k.stages[k.at].pieces[B[b].member].clash
<1> DEFINE j == B[b].stage  m == B[b].member  p == k.stages[j].pieces[m]
<1>1. j \in Stages /\ m \in Members /\ b # 0
  BY TableIs DEF Batch
<1>2. Held(t, l, B) /\ BatchesFit(t, k, l, B)
  BY DEF Fit
<1>3. ~(l.at = "commissioning" /\ l.batch = b)
  BY <1>2 DEF Held
<1>4. m \in Plan[j].who /\ p.batch = b
  BY <1>2, <1>3 DEF BatchesFit
<1>5. PieceFit(p)
  BY <1>1 DEF Fit, StagesFit
<1>6. p.status \in {"running", "paused"} /\ ~p.clash
  BY <1>1, <1>4, <1>5 DEF PieceFit
<1>7. ~Idle(p)
  BY <1>6 DEF Idle
<1>8. j = k.at /\ k.stages[j].status = "running"
      /\ (k.status = "running" \/ (k.status = "waiting" /\ k.why = "failed"))
  BY <1>1, <1>7, RunsHere
<1>9. ~Settled(p)
  BY <1>6 DEF Settled
<1>10. k.status = "running"
  BY <1>4, <1>8, <1>9 DEF Waits
<1>11. IsMemberStage(j)
  BY <1>1, <1>4, WhoOf
<1> QED
  BY <1>1, <1>4, <1>6, <1>8, <1>10, <1>11

LEMMA ToldSettles ==
    ASSUME NEW e \in Team, NEW t \in Tasks, NEW k, NEW l, NEW T, NEW B, Own(e, t, k, l, T, B),
           Fit(t, k, l, T, B), Waits(k, l), Pursued(k, l, T), NEW b \in DOMAIN B, B[b].task = t,
           B[b].state # "starting", NEW how \in Hows
    PROVE  Settles(e, Told(e, b, how), t)
<1> DEFINE g == Told(e, b, how)
<1> SUFFICES Settles(e, g, t)
  OBVIOUS
<1> DEFINE o == B[b]  j == o.stage  m == o.member  p == k.stages[j].pieces[m]
           C == Heard(B, b, how)  q == Folded(p, b, how)  n == Pieced(k, j, m, q)
<1>1. /\ k \in Task /\ l \in Launch /\ T \in SUBSET Stages /\ B \in Tables
      /\ e.tasks[t] = k /\ e.launches[t] = l /\ TurnsOf(e, t) = T /\ e.batches = B
  BY OwnIs, OwnTypes
<1>2. /\ j = k.at /\ j \in Stages /\ k.status = "running" /\ k.stages[j].status = "running"
      /\ IsMemberStage(j) /\ m \in Plan[j].who /\ m \in Members /\ p.batch = b
      /\ p.status \in {"running", "paused"} /\ ~p.clash
  <2>1. /\ B[b].stage = k.at /\ k.at \in Stages /\ k.status = "running"
        /\ k.stages[k.at].status = "running" /\ IsMemberStage(k.at)
        /\ B[b].member \in Plan[k.at].who /\ B[b].member \in Members
        /\ k.stages[k.at].pieces[B[b].member].batch = b
        /\ k.stages[k.at].pieces[B[b].member].status \in {"running", "paused"}
        /\ ~k.stages[k.at].pieces[B[b].member].clash
    <3> HIDE DEF o, j, m, p, C, q, n, g
    <3>1. /\ k \in Task /\ B \in Tables /\ Fit(t, k, l, T, B) /\ Waits(k, l)
          /\ b \in DOMAIN B /\ B[b].task = t /\ B[b].state # "starting"
      BY <1>1
    <3> QED
      BY ONLY <3>1, Speaks
  <2> QED
    BY <2>1
<1>3. p \in Piece /\ o \in Batch /\ b \in Nat
  BY <1>1, <1>2, TaskTyped, TableIs
<1>4. PICK f : Rebatched(e, f, C) /\ g = ApplyBatch(f, o, b, how)
  <2> HIDE DEF C, g, o
  <2> QED
    BY <1>1, ToldIs DEF C, g, o
<1>5. \A u \in Tasks \ {t} : Going(C, u) = Going(B, u)
  BY <1>1, HeardKeepsOthers
<1>6. C \in Tables
  BY <1>1, HeardIs
<1>7. Held(t, l, C)
  <2>1. Held(t, l, B)
    BY DEF Fit
  <2>2. /\ \A x \in DOMAIN C : /\ x \in DOMAIN B
                               /\ x # b => C[x] = B[x]
                               /\ x = b => how \in {"running", "paused"} /\ C[b].state = how
        /\ \A x \in DOMAIN B \ {b} : x \in DOMAIN C
    BY <1>1, HeardIs
  <2> HIDE DEF C
  <2> QED
    BY <2>1, <2>2 DEF Held
<1>8. Told1(B, C, p, q)
  BY <1>1, <1>2, <1>3, HeardTabled
<1>9. ~Deaf(k, o, b) /\ o.task = t
  BY <1>2 DEF Deaf, Settled, IsTaskActive
<1>10. n = Fold(k, o, b, how)
  BY DEF Fold
<1> HIDE DEF o, j, m, p, C, q, n, g
<1>11. Local(e, f, t) /\ f \in Team /\ Own(f, t, k, l, T, C)
  BY <1>1, <1>4, <1>5, RebatchLocal
<1>12. f.tasks[t] = k
  BY <1>11, OwnIs
<1>13. PICK d : Retask(f, d, t, n) /\ g = CheckStage(d, t)
  <2>1. \/ Deaf(f.tasks[o.task], o, b) /\ ApplyBatch(f, o, b, how) = f
        \/ /\ ~Deaf(f.tasks[o.task], o, b)
           /\ \E d : /\ Retask(f, d, o.task, Fold(f.tasks[o.task], o, b, how))
                     /\ ApplyBatch(f, o, b, how) =
                          IF o.stage = f.tasks[o.task].at THEN CheckStage(d, o.task) ELSE d
    BY <1>3, <1>11, ApplyBatchIs
  <2>2. o.stage = k.at
    BY <1>2 DEF j
  <2> QED
    BY <1>4, <1>9, <1>10, <1>12, <2>1, <2>2
<1>14. Own(d, t, n, l, T, C) /\ d \in Team /\ Local(f, d, t)
  BY <1>11, <1>13, RetaskOwn, RetaskLocal, OwnIs
<1>15. q \in Piece /\ q.status # "pending"
  BY <1>8 DEF Told1
<1>16. /\ n \in Task /\ n.status = k.status /\ n.why = k.why /\ n.at = j
       /\ n.stages[j].status = "running" /\ n.stages[j].pieces[m] = q
       /\ \A y \in Members \ {m} : n.stages[j].pieces[y] = k.stages[j].pieces[y]
  BY <1>1, <1>2, <1>15, PiecedIs DEF n
<1>17. l.at \in {"commissioning", "refused"} => l.stage # k.at \/ l.member # m
  <2> SUFFICES ASSUME l.at \in {"commissioning", "refused"}, l.stage = k.at, l.member = m PROVE FALSE
    OBVIOUS
  <2>1. k.stages[l.stage].pieces[l.member].batch = l.batch
    <3>1. k.stages[l.stage].pieces[l.member].status # "skipped"
      BY <1>2 DEF p
    <3>2. Active(k)
      BY <1>2 DEF Active, IsTaskActive
    <3> QED
      <4>1. Wanted(k, l)
        BY <3>1, <3>2, Commissioned
      <4> QED
        BY <4>1 DEF Wanted
  <2>2. l.batch = b
    BY <1>2, <2>1 DEF p
  <2>3. b # 0
    BY <1>1, TableIs
  <2> QED
    BY <2>2, <2>3 DEF Fit, Held, LaunchFit
<1>18. Fit(t, n, l, T, C)
  <2>1. Handed(k, l, l, m)
    BY <1>17 DEF Handed
  <2>2. Tabled(B, C, k.stages[k.at].pieces[m], q) /\ PieceFit(q) /\ q.status # "pending"
          /\ (q.batch = 0 => q.status \notin {"running", "paused"})
    BY <1>2, <1>8 DEF Told1, p
  <2>3. k.at \in Stages /\ k.status = "running" /\ k.stages[k.at].status = "running"
        /\ n = Pieced(k, k.at, m, q)
    BY <1>2 DEF n
  <2> QED
    BY <1>1, <1>2, <1>6, <1>7, <1>15, <2>1, <2>2, <2>3, PiecedFit
<1>19. Waits(n, l)
  BY <1>2, <1>16 DEF Waits, Settled
<1>20. l = NoLaunch => \A y \in Plan[j].who : n.stages[j].pieces[y].status # "pending"
  <2> SUFFICES ASSUME l = NoLaunch, NEW y \in Plan[j].who PROVE n.stages[j].pieces[y].status # "pending"
    OBVIOUS
  <2>1. y \in Members
    BY <1>2, WhoOf
  <2>2. k.at \notin T
    BY <1>2 DEF Fit, TurnsFit
  <2>3. k.stages[j].pieces[y].status # "pending"
    BY <1>2, <2>2 DEF Pursued
  <2> QED
    BY <1>15, <1>16, <2>1, <2>3
<1>21. Pursued(n, l, T) \/ Landed(n, l)
  <2>1. n.status = "running" /\ n.at \in Stages /\ IsMemberStage(n.at)
        /\ n.stages[n.at].status = "running"
    BY <1>2, <1>16
  <2>2. l = NoLaunch => \A y \in Plan[n.at].who : n.stages[n.at].pieces[y].status # "pending"
    BY <1>16, <1>20
  <2> QED
    BY <1>16, <1>18, <2>1, <2>2, Watched
<1>22. Settles(d, g, t)
  BY <1>13, <1>14, <1>18, <1>19, <1>21, CheckStageSettles
<1> QED
  BY <1>11, <1>14, <1>22, SettlesTrans

LEMMA BatchChangesFull ==
    ASSUME AllFull(Now), NEW b, NEW how \in Hows, BatchChanges(b, how)
    PROVE  AllFull(Now)'
<1> DEFINE t == batches[b].task
<1>1. b \in DOMAIN batches /\ batches[b].state # "starting" /\ Becomes(Told(Now, b, how))
  BY DEF BatchChanges
<1>2. t \in Tasks
  <2>1. batches \in Tables
    BY DEF AllFull, Team, Now
  <2>2. batches[b] \in Batch
    BY <1>1, <2>1, TableIs
  <2> QED
    BY <2>2 DEF Batch
<1>3. batches[b].task = t
  OBVIOUS
<1> HIDE DEF t
<1>4. Settles(Now, Told(Now, b, how), t)
  BY <1>1, <1>2, <1>3, FullNow, ToldSettles DEF Begins
<1> QED
  BY <1>1, <1>2, <1>4, FullLands

LEMMA LaunchEndsFull ==
    ASSUME AllFull(Now), NEW t \in Tasks, LaunchEnds(t)
    PROVE  AllFull(Now)'
<1> DEFINE over == [Now EXCEPT !.launches[t] = NoLaunch]
           g == IF tasks[t].at # launches[t].stage THEN Advance(over, t) ELSE CheckStage(over, t)
           k == tasks[t]  l == launches[t]  T == TurnsOf(Now, t)  B == batches
<1>1. /\ Now \in Team /\ Own(Now, t, k, l, T, B) /\ Fit(t, k, l, T, B) /\ Waits(k, l) /\ Pursued(k, l, T)
      /\ k \in Task
  BY FullNow DEF Begins
<1>2. l.at = "ending" /\ Becomes(g) /\ l # NoLaunch
  BY DEF LaunchEnds, NoLaunch
<1>3. over \in Team /\ Own(over, t, k, NoLaunch, T, B) /\ Local(Now, over, t)
  <2>1. Moved(Now, over, t, k, NoLaunch, B)
    BY <1>2, FullAll, LaunchOver
  <2> HIDE DEF over
  <2>2. Now.batches = B
    BY FullNow
  <2>3. Local(Now, over, t)
    BY <2>1, <2>2, LocalIs DEF Moved
  <2> QED
    BY <2>1, <2>3, MovedOwn
<1> HIDE DEF over
<1>4. g = IF k.at # l.stage THEN Advance(over, t) ELSE CheckStage(over, t)
  OBVIOUS
<1> HIDE DEF k, l, T, B, g
<1>5. Fit(t, k, NoLaunch, T, B)
  BY <1>1, <1>2, LaunchDone
<1>6. Waits(k, NoLaunch)
  BY <1>1 DEF Waits
<1>7. CASE k.at # l.stage
  <2>1. Onward(k, NoLaunch, T)
    BY <1>1, <1>6, <1>7 DEF Onward, Pursued, Waits
  <2>2. Settles(over, g, t)
    BY <1>3, <1>4, <1>5, <1>7, <2>1, AdvanceSettles
  <2>3. Settles(Now, g, t)
    BY <1>3, <2>2, SettlesTrans
  <2> QED
    BY <1>2, <2>3, FullLands
<1>8. CASE k.at = l.stage
  <2>1. Pursued(k, NoLaunch, T) \/ Landed(k, NoLaunch)
    <3>1. CASE k.status # "running"
      BY <3>1 DEF Pursued
    <3>2. CASE k.status = "running"
      <4>1. Active(k)
        BY <3>2 DEF Active, IsTaskActive
      <4>2. /\ k.at \in Stages /\ IsMemberStage(k.at) /\ k.stages[k.at].status = "running"
            /\ \A m \in Plan[k.at].who : k.stages[k.at].pieces[m].status # "pending"
        BY <1>1, <1>2, <1>8, <4>1 DEF Fit, LaunchFit, Held
      <4> QED
        BY <1>1, <1>5, <3>2, <4>2, Watched
    <3> QED
      BY <3>1, <3>2
  <2>2. Settles(over, g, t)
    BY <1>3, <1>4, <1>5, <1>6, <1>8, <2>1, CheckStageSettles
  <2>3. Settles(Now, g, t)
    BY <1>3, <2>2, SettlesTrans
  <2> QED
    BY <1>2, <2>3, FullLands
<1> QED
  BY <1>7, <1>8

-----------------------------------------------------------------------------
(* Before the plan is approved, and once the task is over.                 *)

LEMMA SameOwn ==
    ASSUME NEW e, NEW f, NEW t, Same(e, f), NEW k, NEW l, NEW T, NEW B, Own(e, t, k, l, T, B)
    PROVE  Own(f, t, k, l, T, B) /\ f \in Team /\ Local(e, f, t)
<1>1. f \in Team /\ f.tasks = e.tasks /\ f.launches = e.launches /\ f.turns = e.turns
      /\ f.batches = e.batches
  BY DEF Same
<1>2. Local(e, f, t)
  BY <1>1, LocalIs
<1>3. TurnsOf(f, t) = TurnsOf(e, t)
  BY <1>1 DEF TurnsOf
<1> QED
  BY <1>1, <1>2, <1>3 DEF Own

LEMMA SettlesSame ==
    ASSUME NEW e, NEW f, NEW g, NEW t, Settles(e, f, t), Same(f, g)
    PROVE  Settles(e, g, t)
<1> DEFINE k == f.tasks[t]  l == f.launches[t]  T == TurnsOf(f, t)  B == f.batches
<1>1. Own(f, t, k, l, T, B) /\ Local(e, f, t) /\ FullAt(f, t)
  BY DEF Own, Settles
<1> HIDE DEF k, l, T, B
<1>2. Own(g, t, k, l, T, B) /\ g \in Team /\ Local(f, g, t)
  BY <1>1, SameOwn
<1>3. FullAt(g, t)
  BY <1>1, <1>2, OwnFull
<1> QED
  BY <1>1, <1>2, <1>3, LocalTrans DEF Settles

\* No stage of it has begun.
Unbegun(k) == \A j \in Stages :
    /\ k.stages[j].status = "pending"
    /\ \A m \in Members : PieceFit(k.stages[j].pieces[m]) /\ Idle(k.stages[j].pieces[m])

NoneOf(t, B) == \A b \in DOMAIN B : B[b].task # t

LEMMA EarlyUnbegun ==
    ASSUME NEW t, NEW k, NEW l, NEW T, NEW B \in Tables, Fit(t, k, l, T, B), Early(k)
    PROVE  /\ l = NoLaunch /\ T = {} /\ k.at = 1 /\ k.resumes # "carryOn"
           /\ Unbegun(k) /\ NoneOf(t, B)
<1>1. l = NoLaunch /\ T = {} /\ k.at = 1 /\ k.resumes # "carryOn"
      /\ \A j \in Stages : k.stages[j].status = "pending"
  BY DEF Fit, EarlyFit
<1>2. Unbegun(k)
  BY <1>1 DEF Fit, StagesFit, Unbegun
<1>3. NoneOf(t, B)
  <2> SUFFICES ASSUME NEW b \in DOMAIN B, B[b].task = t PROVE FALSE
    BY DEF NoneOf
  <2>1. b \in Nat /\ b # 0 /\ B[b].stage \in Stages /\ B[b].member \in Members
    BY TableIs DEF Batch
  <2>2. k.stages[B[b].stage].pieces[B[b].member].batch = b
    BY <1>1 DEF Fit, BatchesFit, NoLaunch
  <2> QED
    BY <1>2, <2>1, <2>2 DEF Unbegun, Idle
<1> QED
  BY <1>1, <1>2, <1>3

LEMMA UnbegunFit ==
    ASSUME NEW t, NEW n \in Task, NEW B, Unbegun(n), n.at = 1, NoneOf(t, B),
           Early(n) => n.resumes # "carryOn"
    PROVE  Fit(t, n, NoLaunch, {}, B) /\ Resting(n)
<1>1. NoLaunch.at = "none" /\ NoLaunch.batch = 0
  BY DEF NoLaunch
<1>2. NoneStarting(t, B)
  BY DEF NoneOf, NoneStarting
<1>3. Held(t, NoLaunch, B)
  BY <1>2, HeldIdle
<1>4. Resting(n)
  BY DEF Unbegun, Resting
<1>5. StagesFit(n)
  <2>1. \A j \in Stages : ~(j < n.at)
    BY Sizes
  <2> QED
    BY <2>1 DEF Unbegun, StagesFit, Settled
<1>6. RunsFit(t, n, NoLaunch, B)
  BY DEF Unbegun, RunsFit, RunFit, Idle
<1>7. BatchesFit(t, n, NoLaunch, B)
  BY DEF BatchesFit, NoneOf
<1>8. LaunchFit(n, NoLaunch) /\ TurnsFit(n, {})
  BY <1>1 DEF LaunchFit, TurnsFit
<1>9. EarlyFit(n, NoLaunch, {})
  BY DEF EarlyFit, Unbegun
<1> QED
  BY <1>3, <1>4, <1>5, <1>6, <1>7, <1>8, <1>9 DEF Fit

\* Nothing of task t goes but what its launch holds.
OnlyHeld(t, l, B) ==
    \A b \in DOMAIN B : B[b].task = t =>
        B[b].member \in Plan[B[b].stage].who /\ l.at = "commissioning" /\ l.batch = b

\* A task that is over.
LEMMA EndedFit ==
    ASSUME NEW t, NEW n \in Task, NEW l, NEW T, NEW B, Held(t, l, B), OnlyHeld(t, l, B),
           l.at # "none" => IsMemberStage(l.stage), l.at # "commissioning" => l.batch = 0,
           \A j \in T : ~IsMemberStage(j), ~Active(n), ~Early(n), StagesFit(n), Resting(n)
    PROVE  Fit(t, n, l, T, B)
<1>1. LaunchFit(n, l)
  BY DEF LaunchFit
<1>2. TurnsFit(n, T)
  BY DEF TurnsFit
<1>3. BatchesFit(t, n, l, B)
  BY DEF BatchesFit, OnlyHeld
<1>4. RunsFit(t, n, l, B)
  <2> SUFFICES ASSUME NEW j \in Stages, NEW m \in Members
               PROVE  RunFit(t, j, m, n.stages[j].pieces[m], l, B)
    BY DEF RunsFit
  <2>1. Idle(n.stages[j].pieces[m])
    BY DEF StagesFit, Resting
  <2> QED
    BY <2>1 DEF RunFit, Idle
<1> QED
  BY <1>1, <1>2, <1>3, <1>4 DEF Fit, EarlyFit

\* Where no stage goes, nothing goes but what is held.
LEMMA RestingHeld ==
    ASSUME NEW t, NEW k, NEW l, NEW T, NEW B \in Tables, Fit(t, k, l, T, B),
           \A j \in Stages, m \in Members : k.stages[j].pieces[m].batch = 0
    PROVE  OnlyHeld(t, l, B)
<1> SUFFICES ASSUME NEW b \in DOMAIN B, B[b].task = t
             PROVE  B[b].member \in Plan[B[b].stage].who /\ l.at = "commissioning" /\ l.batch = b
  BY DEF OnlyHeld
<1>1. b # 0 /\ B[b].stage \in Stages /\ B[b].member \in Members
  BY TableIs DEF Batch
<1>2. k.stages[B[b].stage].pieces[B[b].member].batch # b
  BY <1>1
<1> QED
  BY <1>2 DEF Fit, BatchesFit

LEMMA RestingUnbatched ==
    ASSUME NEW t, NEW k, NEW l, NEW T, NEW B, Fit(t, k, l, T, B), Resting(k)
    PROVE  \A j \in Stages, m \in Members : k.stages[j].pieces[m].batch = 0
  BY DEF Fit, StagesFit, Resting, Idle

\* A task that is not running, or waits for what it failed in, is at rest.
LEMMA NotRunning ==
    ASSUME NEW t, NEW k, NEW l, NEW T, NEW B, Fit(t, k, l, T, B), k.status # "running",
           ~(k.status = "waiting" /\ k.why = "failed")
    PROVE  Resting(k)
  BY DEF Fit, StagesFit, Resting

-----------------------------------------------------------------------------
(* The turns of the coordinator.                                           *)

LEMMA TurnFailsFit ==
    ASSUME NEW t, NEW k \in Task, NEW l \in Launch, NEW T \in SUBSET Stages, NEW B \in Tables,
           Fit(t, k, l, T, B), NEW j \in Stages, k.at = j, k.status = "running", ~IsMemberStage(j),
           j \notin T, NEW n \in Task, n.at = j, n.status = "waiting", n.why = "failed",
           n.stages[j].status = "failed", n.stages[j].pieces = k.stages[j].pieces,
           \A i \in Stages \ {j} : n.stages[i] = k.stages[i]
    PROVE  Fit(t, n, l, T, B) /\ Waits(n, l) /\ Pursued(n, l, T)
<1>1. Plan[j].who = {}
  BY WhoOf
<1>2. Active(k) /\ ~Early(n)
  BY DEF Active, IsTaskActive, Early
<1>3. StagesFit(k) /\ LaunchFit(k, l)
  BY DEF Fit
<1>4. SamePieces(k, n)
  BY DEF SamePieces
<1>5. Resting(n)
  BY <1>3 DEF Resting, StagesFit
<1>6. \A m \in Members : Idle(k.stages[j].pieces[m])
  BY <1>1, IdleAll
<1>7. StagesFit(n)
  <2> SUFFICES ASSUME NEW i \in Stages
               PROVE  /\ \A m \in Members : PieceFit(n.stages[i].pieces[m])
                      /\ Settled(n.stages[i]) => \A m \in Plan[i].who : Settled(n.stages[i].pieces[m])
                      /\ \A m \in Members : Idle(n.stages[i].pieces[m])
                      /\ i < n.at => Settled(n.stages[i])
    BY <1>5 DEF StagesFit, Resting
  <2>1. CASE i = j
    <3>1. \A m \in Members : PieceFit(k.stages[j].pieces[m])
      BY <1>3 DEF StagesFit
    <3>2. ~(j < n.at)
      BY Sizes
    <3> QED
      BY <1>1, <1>6, <2>1, <3>1, <3>2
  <2>2. CASE i # j
    <3>1. n.stages[i] = k.stages[i] /\ n.stages[i].status # "running"
      BY <1>5, <2>2 DEF Resting
    <3> QED
      BY <1>3, <3>1 DEF StagesFit
  <2> QED
    BY <2>1, <2>2
<1>8. l.at = "none" \/ l.stage # k.at
  BY <1>3 DEF LaunchFit
<1>9. k.at <= n.at
  BY Sizes
<1>10. Fit(t, n, l, T, B)
  BY <1>2, <1>4, <1>5, <1>7, <1>8, <1>9, RestFit
<1>11. Waits(n, l) /\ Pursued(n, l, T)
  BY <1>1 DEF Waits, Pursued
<1> QED
  BY <1>10, <1>11

LEMMA TurnReturnsFull ==
    ASSUME AllFull(Now), NEW t \in Tasks, NEW j \in Stages, NEW ok \in BOOLEAN, TurnReturns(t, j, ok)
    PROVE  AllFull(Now)'
<1> DEFINE over == [Now EXCEPT !.turns = @ \ {<<t, j>>}]
           marked == [over EXCEPT !.tasks[t].stages[j].status = "done", !.tasks[t].at = j + 1]
           done == Persist(marked, t)
           lost == [over EXCEPT !.tasks[t].stages[j].status = "failed"]
           failed == Wait(lost, t, "failed")
           g == IF tasks[t].status # "running" \/ tasks[t].at # j THEN over
                ELSE IF ok THEN Advance(done, t) ELSE failed
           k == tasks[t]  l == launches[t]  T == TurnsOf(Now, t)  B == batches
           U == T \ {j}
<1>1. /\ Now \in Team /\ Own(Now, t, k, l, T, B) /\ Fit(t, k, l, T, B) /\ Waits(k, l) /\ Pursued(k, l, T)
      /\ k \in Task /\ l \in Launch /\ T \in SUBSET Stages /\ B \in Tables
  BY FullNow DEF Begins
<1>2. Becomes(g) /\ j \in T
  BY FullNow DEF TurnReturns, TurnsOf
<1>3. /\ Now.tasks[t] = k /\ Now.batches = B /\ Now.launches[t] = l
      /\ T = {i \in Stages : <<t, i>> \in Now.turns}
  BY FullNow DEF TurnsOf
<1>4. over \in Team /\ Own(over, t, k, l, U, B) /\ Local(Now, over, t)
  <2> DEFINE V == Now.turns \ {<<t, j>>}
  <2>1. Turning(Now, over, t, k, V)
    BY <1>1, <1>3 DEF Turning, Team
  <2> HIDE DEF over, V
  <2>2. Own(over, t, k, Now.launches[t], {i \in Stages : <<t, i>> \in V}, Now.batches) /\ over \in Team
    BY <2>1, TurningOwn
  <2>3. {i \in Stages : <<t, i>> \in V} = U
    BY <1>3 DEF V
  <2>4. \A u \in Tasks \ {t}, i \in Stages : <<u, i>> \in V <=> <<u, i>> \in Now.turns
    BY DEF V
  <2>5. Fine(Now, t) /\ Sited(k)
    BY <1>3, FullAll, NowIs DEF Fine
  <2>6. Local(Now, over, t)
    BY <2>1, <2>4, <2>5, TurningKept DEF Kept
  <2> QED
    BY <1>3, <2>2, <2>3, <2>6
<1>5. {"done", "failed"} \subseteq StageStatus /\ "waiting" \in TaskStatus /\ "failed" \in Whys
  BY DEF StageStatus, TaskStatus, Whys
<1>6. Retask(over, marked, t, Passed(k, j, "done")) /\ Retask(over, lost, t, Marked(k, j, "failed"))
  <2> HIDE DEF over, k
  <2>1. over.tasks[t] = k
    BY <1>4, OwnIs
  <2> QED
    BY <1>4, <1>5, <2>1, SendMarkRetasks, MarkRetasks DEF Passed
<1>7. Retask(over, done, t, Passed(k, j, "done"))
  <2> HIDE DEF over, marked
  <2> QED
    BY <1>6, RetaskPersist
<1>8. g = IF k.status # "running" \/ k.at # j THEN over
          ELSE IF ok THEN Advance(done, t) ELSE Wait(lost, t, "failed")
  OBVIOUS
<1> HIDE DEF over, done, lost, k, l, T, B, g
<1>9. U \in SUBSET Stages /\ U \subseteq T /\ j \notin U
  BY <1>1
<1>10. Fit(t, k, l, U, B)
  BY <1>1, <1>9, FewerTurns
<1>11. ~IsMemberStage(j)
  BY <1>1, <1>2 DEF Fit, TurnsFit
<1> SUFFICES Settles(Now, g, t)
  BY <1>2, FullLands
<1>12. CASE k.status # "running" \/ k.at # j
  <2>1. g = over
    BY <1>8, <1>12
  <2>2. Pursued(k, l, U)
    BY <1>1, <1>12 DEF Pursued
  <2> QED
    BY <1>1, <1>4, <1>10, <2>1, <2>2, StaysSettled
<1>13. CASE k.status = "running" /\ k.at = j /\ ok
  <2> DEFINE n == Passed(k, j, "done")
  <2>1. g = Advance(done, t)
    BY <1>8, <1>13
  <2>2. Own(done, t, n, l, U, B) /\ done \in Team /\ Local(over, done, t)
    BY <1>4, <1>7, RetaskOwn, RetaskLocal, OwnIs
  <2>3. Active(k) /\ ~Early(k) /\ Plan[j].who = {}
    BY <1>11, <1>13, WhoOf DEF Active, IsTaskActive, Early
  <2>4. Fit(t, n, l, U, B) /\ Resting(n)
    BY <1>1, <1>9, <1>10, <1>13, <2>3, PassedFit
  <2>5. n.status = "running" /\ n.why = "none"
    <3>1. k.why = "none"
      BY <1>1, <1>13 DEF Waits
    <3> QED
      BY <1>1, <1>5, <1>13, <3>1, PassedIs
  <2> HIDE DEF n
  <2>6. Onward(n, l, U)
    BY <2>4, <2>5 DEF Onward, Resting
  <2>7. Settles(done, g, t)
    BY <2>1, <2>2, <2>4, <2>6, AdvanceSettles
  <2> QED
    BY <1>4, <2>2, <2>7, LocalTrans, SettlesTrans
<1>14. CASE k.status = "running" /\ k.at = j /\ ~ok
  <2> DEFINE x == Marked(k, j, "failed")  n == Turned(x, "waiting", "failed")
  <2>1. g = Goes(lost, t, "waiting", "failed")
    BY <1>8, <1>14 DEF Wait
  <2>2. Own(lost, t, x, l, U, B) /\ lost \in Team /\ Local(over, lost, t)
    BY <1>4, <1>6, RetaskOwn, RetaskLocal, OwnIs
  <2>3. MarkedAs(k, x, j, "failed")
    BY <1>1, <1>5, MarkedStages
  <2> HIDE DEF x
  <2>4. x \in Task
    BY <2>3 DEF MarkedAs
  <2>5. n \in Task /\ n.status = "waiting" /\ n.why = "failed" /\ n.at = x.at /\ n.stages = x.stages
    BY <1>5, <2>4, TurnedIs
  <2> HIDE DEF n
  <2>6. /\ n.at = j /\ n.stages[j].status = "failed" /\ n.stages[j].pieces = k.stages[j].pieces
        /\ \A i \in Stages \ {j} : n.stages[i] = k.stages[i]
    BY <1>14, <2>3, <2>5 DEF MarkedAs
  <2>7. Fit(t, n, l, U, B) /\ Waits(n, l) /\ Pursued(n, l, U)
    BY <1>1, <1>9, <1>10, <1>11, <1>14, <2>5, <2>6, TurnFailsFit
  <2>8. Settles(lost, g, t)
    BY <1>5, <2>1, <2>2, <2>7, GoesSettles DEF n
  <2> QED
    BY <1>4, <2>2, <2>8, LocalTrans, SettlesTrans
<1> QED
  BY <1>12, <1>13, <1>14
=============================================================================
