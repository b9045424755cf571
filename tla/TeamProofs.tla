----------------------------- MODULE TeamProofs -----------------------------
(***************************************************************************)
(* What is proved of the team engine, for every number of tasks and        *)
(* members and every plan, whatever happens: its types, what a launch in   *)
(* flight holds, and that a task begins to work only when no other does.   *)
(***************************************************************************)
EXTENDS TeamEngine, Walks, FiniteSetTheorems

Tables == UNION {[S -> Batch] : S \in {X \in SUBSET (Nat \ {0}) : IsFiniteSet(X)}}

Team == [tasks : [Tasks -> Task], planning : SUBSET Tasks, turns : SUBSET (Tasks \X Stages),
         launches : [Tasks -> Launch], batches : Tables, waking : BOOLEAN,
         away : BOOLEAN, idle : SUBSET Members]

\* f is e but for task t, which is k.
Retask(e, f, t, k) ==
    /\ f \in Team
    /\ f.tasks[t] = k /\ \A u \in Tasks \ {t} : f.tasks[u] = e.tasks[u]
    /\ f.launches = e.launches /\ f.turns = e.turns /\ f.batches = e.batches
    /\ f.away = e.away /\ f.idle = e.idle

LEMMA Sizes ==
    /\ Len(Plan) \in Nat \ {0} /\ Stages = 1..Len(Plan)
    /\ K \in Nat /\ P \in Nat /\ Members = 1..P /\ Tasks = 1..K
    /\ \A j \in Stages : Plan[j].who \subseteq Members
<1> DEFINE R == [kind : Kinds, who : SUBSET Members]
<1>1. Plan \in Seq(R) /\ Plan # <<>>
  BY PlanAssumption
<1> HIDE DEF R
<1>2. Len(Plan) \in Nat /\ Plan \in [1..Len(Plan) -> R]
  BY <1>1
<1>3. Len(Plan) # 0
  BY <1>1
<1>4. ASSUME NEW j \in Stages PROVE Plan[j].who \subseteq Members
  <2>1. Plan[j] \in R
    BY <1>2 DEF Stages
  <2> QED
    BY <2>1 DEF R
<1> QED
  BY <1>2, <1>3, <1>4, BoundAssumption DEF Stages, Members, Tasks

LEMMA SmallestOf ==
    ASSUME NEW S \in SUBSET Nat, S # {}
    PROVE  Smallest(S) \in S /\ \A y \in S : Smallest(S) <= y
<1>1. PICK x \in S : \A y \in S : ~(y < x)
  BY LeastNumber
<1>2. \A y \in S : x <= y
  BY <1>1
<1> QED
  BY <1>2 DEF Smallest

LEMMA TableIs ==
    \A B : B \in Tables <=> B \in [DOMAIN B -> Batch] /\ IsFiniteSet(DOMAIN B)
                              /\ DOMAIN B \subseteq Nat \ {0}
  BY DEF Tables

LEMMA FreeBatchIsFree ==
    ASSUME NEW e \in Team
    PROVE  FreeBatch(e) \in Nat \ {0} /\ FreeBatch(e) \notin DOMAIN e.batches
<1> DEFINE D == DOMAIN e.batches
           n == Cardinality(D)
           S == (1..(n + 1)) \ D
<1>1. IsFiniteSet(D) /\ D \subseteq Nat \ {0}
  BY TableIs DEF Team
<1>2. n \in Nat
  BY <1>1, FS_CardinalityType
<1>3. S # {}
  <2>1. SUFFICES ASSUME 1..(n + 1) \subseteq D PROVE FALSE
    OBVIOUS
  <2>2. Cardinality(1..(n + 1)) <= n
    BY <2>1, <1>1, FS_Subset
  <2>3. Cardinality(1..(n + 1)) = n + 1
    BY <1>2, FS_Interval
  <2> QED
    BY <1>2, <2>2, <2>3
<1>4. S \in SUBSET Nat
  OBVIOUS
<1>5. Smallest(S) \in S
  BY <1>3, <1>4, SmallestOf
<1> QED
  BY <1>5 DEF FreeBatch

LEMMA PersistKeeps ==
    ASSUME NEW e \in Team, NEW t \in Tasks
    PROVE  Retask(e, Persist(e, t), t, e.tasks[t])
  BY DEF Team, Retask, Persist

Turned(k, status, why) == [k EXCEPT !.status = status, !.why = why]

LEMMA GoesRetasks ==
    ASSUME NEW e \in Team, NEW t \in Tasks, NEW status \in TaskStatus, NEW why \in Whys
    PROVE  Retask(e, Goes(e, t, status, why), t, Turned(e.tasks[t], status, why))
<1> DEFINE f == [e EXCEPT !.tasks[t].status = status, !.tasks[t].why = why]
<1>1. Retask(e, f, t, Turned(e.tasks[t], status, why))
  <2> DEFINE k == Turned(e.tasks[t], status, why)
  <2>1. e.tasks[t] \in Task
    BY DEF Team
  <2>2. k \in Task
    BY <2>1 DEF Task, Turned
  <2>3. f.tasks = [e.tasks EXCEPT ![t] = k]
    BY <2>1 DEF Team, Turned, Task
  <2>4. f \in Team
    BY <2>2, <2>3 DEF Team
  <2> QED
    BY <2>3, <2>4 DEF Retask, Team
<1>2. Retask(f, Persist(f, t), t, f.tasks[t])
  BY <1>1, PersistKeeps DEF Retask
<1> QED
  BY <1>1, <1>2 DEF Retask, Goes

LEMMA SetPieceRetasks ==
    ASSUME NEW e \in Team, NEW t \in Tasks, NEW j \in Stages, NEW m \in Members, NEW p \in Piece
    PROVE  Retask(e, SetPiece(e, t, j, m, p), t,
                  [e.tasks[t] EXCEPT !.stages[j].pieces[m] = p])
<1> DEFINE f == SetPiece(e, t, j, m, p)
           k == [e.tasks[t] EXCEPT !.stages[j].pieces[m] = p]
<1>1. e.tasks[t] \in Task
  BY DEF Team
<1>2. e.tasks[t].stages[j] \in Stage
  BY <1>1 DEF Task
<1>3. [e.tasks[t].stages[j] EXCEPT !.pieces[m] = p] \in Stage
  BY <1>2 DEF Stage
<1>4. k \in Task
  BY <1>1, <1>3 DEF Task
<1>5. f.tasks = [e.tasks EXCEPT ![t] = k]
  BY DEF Team, SetPiece
<1>6. f \in Team
  BY <1>4, <1>5 DEF Team, SetPiece
<1> QED
  BY <1>5, <1>6 DEF Retask, Team, SetPiece

-----------------------------------------------------------------------------
(* What belongs to a task.                                                 *)

Going(B, t) == [b \in {x \in DOMAIN B : B[x].task = t} |-> B[b]]
Slice(e, t) ==
    <<e.tasks[t], e.launches[t], {j \in Stages : <<t, j>> \in e.turns}, Going(e.batches, t)>>

\* A step of task t leaves the others alone.
Local(e, f, t) == \A u \in Tasks \ {t} : Slice(f, u) = Slice(e, u)

\* The launch l of task t: a commission in flight holds the batch being started, and
\* nothing else of the task is being started.
Held(t, l, B) ==
    /\ l.at = "none" => l = NoLaunch
    /\ l.at # "none" => l.stage \in Stages
    /\ l.at \in {"commissioning", "refused"} => l.member \in Plan[l.stage].who
    /\ l.at = "commissioning" =>
          /\ l.batch \in DOMAIN B
          /\ B[l.batch] = [state |-> "starting", task |-> t, stage |-> l.stage, member |-> l.member]
    /\ \A b \in DOMAIN B : B[b].task = t /\ B[b].state = "starting" =>
          l.at = "commissioning" /\ l.batch = b

Sited(k) == k.status = "waiting" => k.at \in Stages

\* A task that is not running keeps its place.
Calm(k, n) == k.status # "running" => n.status = k.status /\ n.why = k.why

Fine(e, t) == e \in Team /\ Held(t, e.launches[t], e.batches) /\ Sited(e.tasks[t])

\* A step of task t on its own.
Kept(e, f, t) == Fine(f, t) /\ Local(e, f, t)

\* One that leaves a task that is not running in its place.
Calmly(e, f, t) == Kept(e, f, t) /\ Calm(e.tasks[t], f.tasks[t])

LEMMA HeldOfSlice ==
    ASSUME NEW e, NEW f, NEW u, Slice(f, u) = Slice(e, u), Held(u, e.launches[u], e.batches)
    PROVE  Held(u, f.launches[u], f.batches)
<1> DEFINE l == e.launches[u]  A == e.batches  B == f.batches
<1>1. f.launches[u] = l /\ Going(B, u) = Going(A, u)
  BY DEF Slice
<1>2. \A b : b \in DOMAIN B /\ B[b].task = u <=> b \in DOMAIN A /\ A[b].task = u
  <2>1. DOMAIN Going(B, u) = DOMAIN Going(A, u)
    BY <1>1
  <2> QED
    BY <2>1 DEF Going
<1>3. \A b \in DOMAIN A : A[b].task = u => B[b] = A[b]
  <2> SUFFICES ASSUME NEW b \in DOMAIN A, A[b].task = u PROVE B[b] = A[b]
    OBVIOUS
  <2>1. Going(B, u)[b] = Going(A, u)[b]
    BY <1>1
  <2> QED
    BY <2>1, <1>2 DEF Going
<1>4. Held(u, l, A)
  OBVIOUS
<1> QED
  BY <1>1, <1>2, <1>3, <1>4 DEF Held

LEMMA GoingElsewhere ==
    ASSUME NEW A, NEW B, NEW u,
           \A b : b \in DOMAIN B /\ B[b].task = u <=> b \in DOMAIN A /\ A[b].task = u,
           \A b \in DOMAIN A : A[b].task = u => B[b] = A[b]
    PROVE  Going(B, u) = Going(A, u)
  BY DEF Going

LEMMA LocalIs ==
    ASSUME NEW e, NEW f, NEW t,
           \A u \in Tasks \ {t} :
              /\ f.tasks[u] = e.tasks[u] /\ f.launches[u] = e.launches[u]
              /\ \A j \in Stages : <<u, j>> \in f.turns <=> <<u, j>> \in e.turns
              /\ Going(f.batches, u) = Going(e.batches, u)
    PROVE  Local(e, f, t)
<1> SUFFICES ASSUME NEW u \in Tasks \ {t} PROVE Slice(f, u) = Slice(e, u)
  BY DEF Local
<1>1. {j \in Stages : <<u, j>> \in f.turns} = {j \in Stages : <<u, j>> \in e.turns}
  OBVIOUS
<1> QED
  BY <1>1 DEF Slice

LEMMA RetaskLocal ==
    ASSUME NEW e, NEW f, NEW t, NEW k, Retask(e, f, t, k)
    PROVE  Local(e, f, t)
  BY LocalIs DEF Retask

LEMMA LocalTrans ==
    ASSUME NEW e, NEW f, NEW g, NEW t, Local(e, f, t), Local(f, g, t)
    PROVE  Local(e, g, t)
  BY DEF Local

LEMMA RetaskTrans ==
    ASSUME NEW e, NEW f, NEW g, NEW t, NEW k, NEW n, Retask(e, f, t, k), Retask(f, g, t, n)
    PROVE  Retask(e, g, t, n)
  BY DEF Retask

LEMMA WithIs ==
    ASSUME NEW B \in Tables, NEW b \in Nat \ {0}, NEW o \in Batch
    PROVE  /\ With(B, b, o) \in Tables
           /\ DOMAIN With(B, b, o) = DOMAIN B \cup {b}
           /\ With(B, b, o)[b] = o /\ \A x \in DOMAIN B \ {b} : With(B, b, o)[x] = B[x]
<1>1. B \in [DOMAIN B -> Batch] /\ IsFiniteSet(DOMAIN B) /\ DOMAIN B \subseteq Nat \ {0}
  BY TableIs
<1>2. IsFiniteSet(DOMAIN B \cup {b})
  BY <1>1, FS_AddElement
<1>3. /\ DOMAIN With(B, b, o) = DOMAIN B \cup {b}
      /\ With(B, b, o)[b] = o /\ \A x \in DOMAIN B \ {b} : With(B, b, o)[x] = B[x]
  BY DEF With
<1>4. With(B, b, o) \in [DOMAIN B \cup {b} -> Batch]
  BY <1>1 DEF With
<1> QED
  BY <1>1, <1>2, <1>3, <1>4, TableIs

LEMMA WithoutIs ==
    ASSUME NEW B \in Tables, NEW S
    PROVE  /\ Without(B, S) \in Tables
           /\ DOMAIN Without(B, S) = DOMAIN B \ S
           /\ \A x \in DOMAIN B \ S : Without(B, S)[x] = B[x]
<1>1. B \in [DOMAIN B -> Batch] /\ IsFiniteSet(DOMAIN B) /\ DOMAIN B \subseteq Nat \ {0}
  BY TableIs
<1>2. IsFiniteSet(DOMAIN B \ S)
  BY <1>1, FS_Subset
<1>3. /\ DOMAIN Without(B, S) = DOMAIN B \ S
      /\ \A x \in DOMAIN B \ S : Without(B, S)[x] = B[x]
  BY DEF Without
<1>4. Without(B, S) \in [DOMAIN B \ S -> Batch]
  BY <1>1 DEF Without
<1> QED
  BY <1>1, <1>2, <1>3, <1>4, TableIs

-----------------------------------------------------------------------------
(* Launching.                                                              *)

\* f is e but for task t, its launch and the batches.
Moved(e, f, t, k, l, B) ==
    /\ f \in Team
    /\ f.tasks[t] = k /\ \A u \in Tasks \ {t} : f.tasks[u] = e.tasks[u]
    /\ f.launches[t] = l /\ \A u \in Tasks \ {t} : f.launches[u] = e.launches[u]
    /\ f.turns = e.turns /\ f.batches = B

Pieced(k, j, m, p) == [k EXCEPT !.stages[j].pieces[m] = p]
Ending(j) == [NoLaunch EXCEPT !.at = "ending", !.stage = j]
Launching(at, j, n, b) == [at |-> at, stage |-> j, member |-> n, batch |-> b]
Starting(t, j, n) == [state |-> "starting", task |-> t, stage |-> j, member |-> n]

\* The next piece to commission.
NextPiece(k, j, m, n) ==
    /\ n \in Plan[j].who /\ n > m /\ k.stages[j].pieces[n].status = "pending"
    /\ \A x \in Plan[j].who : x > m /\ k.stages[j].pieces[x].status = "pending" => n <= x

CommissionEnds(e, f, t, j, m) ==
    /\ \/ e.tasks[t].status # "running"
       \/ \A x \in Plan[j].who : x > m => e.tasks[t].stages[j].pieces[x].status # "pending"
    /\ Moved(e, f, t, e.tasks[t], Ending(j), e.batches)

CommissionRefuses(e, f, t, j, m) ==
    \E n \in Members :
        /\ NextPiece(e.tasks[t], j, m, n) /\ e.tasks[t].status = "running"
        /\ Moved(e, f, t,
             Pieced(e.tasks[t], j, n,
                    [e.tasks[t].stages[j].pieces[n] EXCEPT !.status = "running"]),
             Launching("refused", j, n, 0), e.batches)

CommissionStarts(e, f, t, j, m) ==
    \E n \in Members, b \in Nat \ {0} :
        /\ NextPiece(e.tasks[t], j, m, n) /\ e.tasks[t].status = "running"
        /\ b \notin DOMAIN e.batches
        /\ Moved(e, f, t,
             Pieced(e.tasks[t], j, n,
                    [e.tasks[t].stages[j].pieces[n] EXCEPT !.status = "running", !.batch = b]),
             Launching("commissioning", j, n, b), With(e.batches, b, Starting(t, j, n)))

LEMMA CommissionIs ==
    ASSUME NEW e \in Team, NEW t \in Tasks, NEW j \in Stages, NEW m \in Nat
    PROVE  LET f == Commission(e, t, j, m)
           IN  \/ CommissionEnds(e, f, t, j, m)
               \/ CommissionRefuses(e, f, t, j, m)
               \/ CommissionStarts(e, f, t, j, m)
<1> DEFINE k == e.tasks[t]
           todo == {n \in Plan[j].who : n > m /\ k.stages[j].pieces[n].status = "pending"}
           n == Smallest(todo)
           b == FreeBatch(e)
           p == [k.stages[j].pieces[n] EXCEPT !.status = "running"]
           f == Commission(e, t, j, m)
<1>1. k \in Task /\ k.stages[j] \in Stage
  <2>1. k \in Task
    BY DEF Team
  <2> QED
    BY <2>1 DEF Task
<1>2. CASE todo = {} \/ k.status # "running"
  <2>1. f = [e EXCEPT !.launches[t] = Ending(j)]
    BY <1>2 DEF Commission, Ending
  <2>2. Ending(j) \in Launch
    BY DEF Ending, Launch, NoLaunch
  <2>3. Moved(e, f, t, k, Ending(j), e.batches)
    BY <2>1, <2>2 DEF Team, Moved
  <2> QED
    BY <1>2, <2>3 DEF CommissionEnds
<1>3. CASE todo # {} /\ k.status = "running"
  <2>1. n \in todo /\ \A x \in todo : n <= x
    <3>1. todo \in SUBSET Nat
      BY Sizes
    <3> QED
      BY <1>3, <3>1, SmallestOf
  <2>2. n \in Members /\ NextPiece(k, j, m, n)
    BY <2>1, Sizes DEF NextPiece
  <2>3. k.stages[j].pieces[n] \in Piece
    BY <1>1, <2>2 DEF Stage
  <2>4. p \in Piece
    BY <2>3 DEF Piece, PieceStatus, StageStatus
  <2>5. CASE n \in e.idle
    <3> DEFINE g == SetPiece(e, t, j, n, p)
               l == Launching("refused", j, n, 0)
    <3>1. f = [g EXCEPT !.launches[t] = l]
      BY <1>3, <2>5 DEF Commission, Launching
    <3>2. Retask(e, g, t, Pieced(k, j, n, p))
      BY <2>2, <2>4, SetPieceRetasks DEF Pieced
    <3>3. l \in Launch
      BY <2>2 DEF Launching, Launch
    <3> HIDE DEF g, l, p, n
    <3>4. Moved(e, f, t, Pieced(k, j, n, p), l, e.batches)
      BY <3>1, <3>2, <3>3 DEF Retask, Team, Moved
    <3> QED
      BY <1>3, <2>2, <3>4 DEF CommissionRefuses, l, p
  <2>6. CASE n \notin e.idle
    <3> DEFINE q == [p EXCEPT !.batch = b]
               g == SetPiece(e, t, j, n, q)
               l == Launching("commissioning", j, n, b)
               o == Starting(t, j, n)
               h == [g EXCEPT !.launches[t] = l, !.batches = With(@, b, o)]
    <3>1. f = Persist(h, t)
      BY <1>3, <2>6 DEF Commission, Launching, Starting
    <3>2. b \in Nat \ {0} /\ b \notin DOMAIN e.batches
      BY FreeBatchIsFree
    <3>3. q \in Piece
      BY <2>4, <3>2 DEF Piece
    <3>4. Retask(e, g, t, Pieced(k, j, n, q))
      BY <2>2, <3>3, SetPieceRetasks DEF Pieced
    <3>5. l \in Launch
      BY <2>2, <3>2 DEF Launching, Launch
    <3>6. o \in Batch
      BY <2>2 DEF Starting, Batch
    <3>7. e.batches \in Tables /\ With(e.batches, b, o) \in Tables
      BY <3>2, <3>6, WithIs DEF Team
    <3>8. q = [k.stages[j].pieces[n] EXCEPT !.status = "running", !.batch = b]
      BY <2>3 DEF Piece
    <3> HIDE DEF g, l, q, p, n, o, b
    <3>9. Moved(e, h, t, Pieced(k, j, n, q), l, With(e.batches, b, o))
      BY <3>4, <3>5, <3>7 DEF Retask, Team, Moved
    <3>10. Retask(h, Persist(h, t), t, h.tasks[t])
      BY <3>9, PersistKeeps DEF Moved
    <3>11. Moved(e, f, t, Pieced(k, j, n, q), l, With(e.batches, b, o))
      BY <3>1, <3>9, <3>10, ZenonT(60) DEF Moved, Retask
    <3> QED
      BY <1>3, <2>2, <3>2, <3>8, <3>11 DEF CommissionStarts, l, o
  <2> QED
    BY <2>5, <2>6
<1> QED
  BY <1>2, <1>3

\* Nothing of the task is being started.
NoneStarting(t, B) == \A b \in DOMAIN B : B[b].task = t => B[b].state # "starting"

LEMMA HeldIdle ==
    ASSUME NEW t, NEW B, NoneStarting(t, B), NEW l,
           \/ l = NoLaunch
           \/ l.at \in {"restoring", "ending"} /\ l.stage \in Stages
           \/ l.at = "refused" /\ l.stage \in Stages /\ l.member \in Plan[l.stage].who
    PROVE  Held(t, l, B)
  BY DEF Held, NoneStarting, NoLaunch

LEMMA NoneStartingWithout ==
    ASSUME NEW t, NEW B, Held(t, NoLaunch, B)
    PROVE  NoneStarting(t, B)
  BY DEF Held, NoneStarting, NoLaunch

LEMMA MovedKept ==
    ASSUME NEW e, NEW f, NEW t, NEW k, NEW l, NEW B, Moved(e, f, t, k, l, B),
           \A u \in Tasks \ {t} : Going(B, u) = Going(e.batches, u),
           Held(t, l, B), Sited(k), Calm(e.tasks[t], k)
    PROVE  Calmly(e, f, t)
<1>1. Local(e, f, t)
  BY LocalIs DEF Moved
<1> QED
  BY <1>1 DEF Moved, Calmly, Kept, Fine

LEMMA RetaskKept ==
    ASSUME NEW e, NEW f, NEW t, NEW k, Retask(e, f, t, k), Fine(e, t), Sited(k)
    PROVE  Kept(e, f, t)
  BY RetaskLocal DEF Retask, Kept, Fine

LEMMA KeptTrans ==
    ASSUME NEW e, NEW f, NEW g, NEW t, Kept(e, f, t), Kept(f, g, t)
    PROVE  Kept(e, g, t)
  BY LocalTrans DEF Kept

LEMMA CalmlyTrans ==
    ASSUME NEW e, NEW f, NEW g, NEW t, Calmly(e, f, t), Calmly(f, g, t)
    PROVE  Calmly(e, g, t)
  BY KeptTrans DEF Calmly, Calm

LEMMA CalmlySame ==
    ASSUME NEW e, NEW t, Fine(e, t)
    PROVE  Calmly(e, e, t)
  BY DEF Calmly, Kept, Local, Calm

LEMMA WithKeepsOthers ==
    ASSUME NEW B \in Tables, NEW b \in Nat \ {0}, b \notin DOMAIN B, NEW o \in Batch, NEW u,
           o.task # u
    PROVE  Going(With(B, b, o), u) = Going(B, u)
<1>1. /\ DOMAIN With(B, b, o) = DOMAIN B \cup {b}
      /\ With(B, b, o)[b] = o /\ \A x \in DOMAIN B \ {b} : With(B, b, o)[x] = B[x]
  BY WithIs, ZenonT(60)
<1> QED
  BY <1>1, GoingElsewhere

LEMMA CommissionKept ==
    ASSUME NEW e \in Team, NEW t \in Tasks, NEW j \in Stages, NEW m \in Nat,
           NoneStarting(t, e.batches), Sited(e.tasks[t])
    PROVE  Calmly(e, Commission(e, t, j, m), t)
<1> DEFINE f == Commission(e, t, j, m)
           k == e.tasks[t]
           B == e.batches
<1>1. k \in Task /\ B \in Tables
  BY DEF Team
<1>2. CASE CommissionEnds(e, f, t, j, m)
  <2>1. Held(t, Ending(j), B)
    BY HeldIdle DEF Ending, NoLaunch
  <2> QED
    BY <1>2, <2>1, MovedKept DEF CommissionEnds, Calm
<1>3. CASE CommissionRefuses(e, f, t, j, m)
  <2>1. PICK n \in Members :
           /\ NextPiece(k, j, m, n) /\ k.status = "running"
           /\ Moved(e, f, t, Pieced(k, j, n, [k.stages[j].pieces[n] EXCEPT !.status = "running"]),
                    Launching("refused", j, n, 0), B)
    BY <1>3 DEF CommissionRefuses
  <2> DEFINE x == Pieced(k, j, n, [k.stages[j].pieces[n] EXCEPT !.status = "running"])
             l == Launching("refused", j, n, 0)
  <2>2. Held(t, l, B)
    <3>1. l.at = "refused" /\ l.stage \in Stages /\ l.member \in Plan[l.stage].who
      BY <2>1 DEF NextPiece, Launching
    <3> QED
      BY <3>1, HeldIdle
  <2>3. x.status = k.status /\ x.at = k.at /\ x.why = k.why
    BY <1>1 DEF Task, Pieced
  <2> HIDE DEF x, l
  <2> QED
    BY <2>1, <2>2, <2>3, MovedKept DEF Sited, Calm, x, l
<1>4. CASE CommissionStarts(e, f, t, j, m)
  <2>1. PICK n \in Members, b \in Nat \ {0} :
           /\ NextPiece(k, j, m, n) /\ k.status = "running" /\ b \notin DOMAIN B
           /\ Moved(e, f, t, Pieced(k, j, n, [k.stages[j].pieces[n] EXCEPT !.status = "running", !.batch = b]),
                    Launching("commissioning", j, n, b), With(B, b, Starting(t, j, n)))
    BY <1>4 DEF CommissionStarts
  <2> DEFINE x == Pieced(k, j, n, [k.stages[j].pieces[n] EXCEPT !.status = "running", !.batch = b])
             l == Launching("commissioning", j, n, b)
             o == Starting(t, j, n)
             C == With(B, b, o)
  <2>2. o \in Batch /\ o.task = t
    BY DEF Starting, Batch
  <2>3. DOMAIN C = DOMAIN B \cup {b} /\ C[b] = o /\ \A y \in DOMAIN B \ {b} : C[y] = B[y]
    <3>1. B \in Tables /\ o \in Batch
      BY <1>1, <2>2
    <3> HIDE DEF B, o
    <3> QED
      BY ONLY <3>1, b \in Nat \ {0}, WithIs
  <2>4. Held(t, l, C)
    BY <2>1, <2>3 DEF Held, Launching, NoneStarting, Starting, NextPiece
  <2>5. \A u \in Tasks \ {t} : Going(C, u) = Going(B, u)
    BY <1>1, <2>1, <2>2, WithKeepsOthers
  <2>6. x.status = k.status /\ x.at = k.at /\ x.why = k.why
    BY <1>1 DEF Task, Pieced
  <2>7. Moved(e, f, t, x, l, C)
    BY <2>1
  <2>8. Sited(x) /\ Calm(k, x)
    BY <2>6 DEF Sited, Calm
  <2> HIDE DEF x, l, o, C
  <2> QED
    BY <2>4, <2>5, <2>7, <2>8, MovedKept
<1> QED
  BY <1>2, <1>3, <1>4, CommissionIs

\* Stage j of the task gets a status.
Marked(k, j, status) == [k EXCEPT !.stages[j].status = status]

LEMMA MarkedIs ==
    ASSUME NEW k \in Task, NEW j \in Stages, NEW status \in StageStatus
    PROVE  /\ Marked(k, j, status) \in Task
           /\ Marked(k, j, status).status = k.status /\ Marked(k, j, status).why = k.why
           /\ Marked(k, j, status).at = k.at
<1>1. k.stages[j] \in Stage
  BY DEF Task
<1>2. [k.stages[j] EXCEPT !.status = status] \in Stage
  BY <1>1 DEF Stage
<1>3. [k.stages EXCEPT ![j] = [@ EXCEPT !.status = status]] \in [Stages -> Stage]
  BY <1>2 DEF Task
<1> QED
  BY <1>3 DEF Marked, Task

LEMMA MarkRetasks ==
    ASSUME NEW e \in Team, NEW t \in Tasks, NEW j \in Stages, NEW status \in StageStatus
    PROVE  Retask(e, [e EXCEPT !.tasks[t].stages[j].status = status], t,
                  Marked(e.tasks[t], j, status))
<1> DEFINE f == [e EXCEPT !.tasks[t].stages[j].status = status]
           k == Marked(e.tasks[t], j, status)
<1>1. k \in Task
  BY MarkedIs DEF Team
<1>2. f.tasks = [e.tasks EXCEPT ![t] = k]
  BY DEF Team, Marked
<1>3. f \in Team
  BY <1>1, <1>2 DEF Team
<1> QED
  BY <1>2, <1>3 DEF Retask, Team

LEMMA RetaskPersist ==
    ASSUME NEW e, NEW f, NEW t \in Tasks, NEW k, Retask(e, f, t, k)
    PROVE  Retask(e, Persist(f, t), t, k)
<1>1. Retask(f, Persist(f, t), t, f.tasks[t])
  BY PersistKeeps DEF Retask
<1> QED
  BY <1>1 DEF Retask

\* Where a stage's launch begins, once nothing of the task is launched.
Restoring(j) == [NoLaunch EXCEPT !.at = "restoring", !.stage = j]

LEMMA LaunchStageIs ==
    ASSUME NEW e \in Team, NEW t \in Tasks, NEW j \in Stages
    PROVE  \/ LaunchStage(e, t, j) = e /\ e.launches[t] # NoLaunch
           \/ /\ e.launches[t] = NoLaunch
              /\ \E f : /\ Retask(e, f, t, Marked(e.tasks[t], j, "running"))
                        /\ \/ Moved(f, LaunchStage(e, t, j), t, f.tasks[t], Restoring(j), f.batches)
                           \/ LaunchStage(e, t, j) = Commission(f, t, j, 0)
<1> DEFINE f == Persist([e EXCEPT !.tasks[t].stages[j].status = "running"], t)
           g == [f EXCEPT !.launches[t] = Restoring(j)]
<1>1. Retask(e, f, t, Marked(e.tasks[t], j, "running"))
  BY MarkRetasks, RetaskPersist DEF StageStatus
<1>2. LaunchStage(e, t, j) \in {e, g, Commission(f, t, j, 0)}
      /\ (LaunchStage(e, t, j) = e \/ e.launches[t] = NoLaunch)
      /\ (e.launches[t] # NoLaunch => LaunchStage(e, t, j) = e)
      /\ (e.launches[t] = NoLaunch => LaunchStage(e, t, j) \in {g, Commission(f, t, j, 0)})
  BY DEF LaunchStage, Restoring
<1>3. Restoring(j) \in Launch
  BY DEF Restoring, Launch, NoLaunch
<1>4. Moved(f, g, t, f.tasks[t], Restoring(j), f.batches)
  <2> HIDE DEF f
  <2> QED
    BY <1>1, <1>3 DEF Retask, Team, Moved
<1> HIDE DEF f, g
<1> QED
  BY <1>1, <1>2, <1>4

LEMMA LaunchStageKept ==
    ASSUME NEW e, NEW t \in Tasks, NEW j \in Stages, Fine(e, t)
    PROVE  Calmly(e, LaunchStage(e, t, j), t)
<1> DEFINE h == LaunchStage(e, t, j)
           k == e.tasks[t]
<1>1. e \in Team /\ k \in Task
  BY DEF Fine, Team
<1>2. CASE h = e
  BY <1>2, CalmlySame
<1>3. CASE h # e
  <2>1. PICK f : /\ e.launches[t] = NoLaunch
                 /\ Retask(e, f, t, Marked(k, j, "running"))
                 /\ \/ Moved(f, h, t, f.tasks[t], Restoring(j), f.batches)
                    \/ h = Commission(f, t, j, 0)
    BY <1>1, <1>3, LaunchStageIs
  <2>2. Marked(k, j, "running").status = k.status /\ Marked(k, j, "running").why = k.why
        /\ Marked(k, j, "running").at = k.at
    BY <1>1, MarkedIs DEF StageStatus
  <2>3. Sited(f.tasks[t]) /\ Calm(k, f.tasks[t]) /\ f \in Team
    BY <2>1, <2>2 DEF Fine, Sited, Calm, Retask
  <2>4. NoneStarting(t, f.batches)
    BY <2>1, NoneStartingWithout DEF Fine, Retask
  <2>5. Fine(f, t) /\ Calmly(e, f, t)
    <3>1. Kept(e, f, t)
      BY <2>1, <2>3, RetaskKept DEF Retask
    <3> QED
      BY <3>1, <2>3 DEF Kept, Calmly
  <2>6. Calmly(f, h, t)
    <3>1. CASE h = Commission(f, t, j, 0)
      BY <2>3, <2>4, <3>1, CommissionKept
    <3>2. CASE Moved(f, h, t, f.tasks[t], Restoring(j), f.batches)
      <4>1. Held(t, Restoring(j), f.batches)
        BY <2>4, HeldIdle DEF Restoring, NoLaunch
      <4>2. Calm(f.tasks[t], f.tasks[t])
        BY DEF Calm
      <4> QED
        BY <2>3, <3>2, <4>1, <4>2, MovedKept
    <3> QED
      BY <2>1, <3>1, <3>2
  <2> QED
    BY <2>5, <2>6, CalmlyTrans
<1> QED
  BY <1>2, <1>3

\* f is e but for task t and the turns.
Turning(e, f, t, k, T) ==
    /\ f \in Team
    /\ f.tasks[t] = k /\ \A u \in Tasks \ {t} : f.tasks[u] = e.tasks[u]
    /\ f.launches = e.launches /\ f.turns = T /\ f.batches = e.batches

LEMMA TurningKept ==
    ASSUME NEW e, NEW f, NEW t \in Tasks, NEW k, NEW T, Turning(e, f, t, k, T), Fine(e, t), Sited(k),
           \A u \in Tasks \ {t}, j \in Stages : <<u, j>> \in T <=> <<u, j>> \in e.turns
    PROVE  Kept(e, f, t)
<1>1. Local(e, f, t)
  BY LocalIs DEF Turning
<1> QED
  BY <1>1 DEF Turning, Kept, Fine

LEMMA RunCoordinatorStageIs ==
    ASSUME NEW e \in Team, NEW t \in Tasks, NEW j \in Stages
    PROVE  \/ RunCoordinatorStage(e, t, j) = e /\ <<t, j>> \in e.turns
           \/ Turning(e, RunCoordinatorStage(e, t, j), t, Marked(e.tasks[t], j, "running"),
                      e.turns \cup {<<t, j>>})
<1> DEFINE g == [e EXCEPT !.tasks[t].stages[j].status = "running"]
           f == [g EXCEPT !.turns = @ \cup {<<t, j>>}]
           h == RunCoordinatorStage(e, t, j)
           k == Marked(e.tasks[t], j, "running")
           T == e.turns \cup {<<t, j>>}
<1>1. Retask(e, g, t, k)
  BY MarkRetasks DEF StageStatus
<1>2. Turning(e, f, t, k, T)
  <2> HIDE DEF g
  <2> QED
    BY <1>1 DEF Retask, Turning, Team
<1>3. Retask(f, Persist(f, t), t, f.tasks[t])
  <2> HIDE DEF f
  <2> QED
    BY <1>2, PersistKeeps DEF Turning
<1>4. Turning(e, Persist(f, t), t, k, T)
  <2> HIDE DEF f
  <2> QED
    BY <1>2, <1>3 DEF Turning, Retask
<1>5. CASE <<t, j>> \in e.turns
  BY <1>5 DEF RunCoordinatorStage
<1>6. CASE <<t, j>> \notin e.turns
  <2>1. h = Persist(f, t)
    <3>1. f = [e EXCEPT !.tasks[t].stages[j].status = "running", !.turns = @ \cup {<<t, j>>}]
      BY DEF Team
    <3> HIDE DEF f
    <3> QED
      BY <1>6, <3>1 DEF RunCoordinatorStage
  <2> QED
    BY <1>4, <2>1
<1> QED
  BY <1>5, <1>6

LEMMA RunCoordinatorStageKept ==
    ASSUME NEW e, NEW t \in Tasks, NEW j \in Stages, Fine(e, t)
    PROVE  Calmly(e, RunCoordinatorStage(e, t, j), t)
<1> DEFINE h == RunCoordinatorStage(e, t, j)
           k == Marked(e.tasks[t], j, "running")
           T == e.turns \cup {<<t, j>>}
<1>1. e \in Team /\ e.tasks[t] \in Task
  BY DEF Fine, Team
<1>2. k.status = e.tasks[t].status /\ k.why = e.tasks[t].why /\ k.at = e.tasks[t].at
  BY <1>1, MarkedIs DEF StageStatus
<1>3. CASE h = e
  BY <1>3, CalmlySame
<1>4. CASE Turning(e, h, t, k, T)
  <2>1. Kept(e, h, t)
    <3>1. Sited(k)
      BY <1>2 DEF Fine, Sited
    <3>2. \A u \in Tasks \ {t}, i \in Stages : <<u, i>> \in T <=> <<u, i>> \in e.turns
      OBVIOUS
    <3> QED
      BY <1>4, <3>1, <3>2, TurningKept
  <2> QED
    BY <1>2, <1>4, <2>1 DEF Calmly, Calm, Turning
<1> QED
  BY <1>1, <1>3, <1>4, RunCoordinatorStageIs

-----------------------------------------------------------------------------
(* Moving a task on.                                                       *)

Sent(k, j) == [k EXCEPT !.at = j]

LEMMA SendRetasks ==
    ASSUME NEW e \in Team, NEW t \in Tasks, NEW j \in 1..(Len(Plan) + 1)
    PROVE  Retask(e, [e EXCEPT !.tasks[t].at = j], t, Sent(e.tasks[t], j))
<1> DEFINE f == [e EXCEPT !.tasks[t].at = j]
           k == Sent(e.tasks[t], j)
<1>1. k \in Task
  <2>1. e.tasks[t] \in Task
    BY DEF Team
  <2> QED
    BY <2>1 DEF Task, Sent
<1>2. f.tasks = [e.tasks EXCEPT ![t] = k]
  BY DEF Team, Sent
<1>3. f \in Team
  BY <1>1, <1>2 DEF Team
<1> QED
  BY <1>2, <1>3 DEF Retask, Team

Open(k) == {j \in Stages : j >= k.at /\ ~Settled(k.stages[j])}

\* The stage the task comes to.
NextStage(k, j) == j \in Open(k) /\ \A i \in Open(k) : j <= i

\* Where advance leads to: past the last stage, to the stage that goes, to a gate or into
\* the stage.
AdvanceGoes(e, f, g, t, j) ==
    \/ e.tasks[t].stages[j].status = "running" /\ g = f
    \/ /\ e.tasks[t].stages[j].status # "running"
       /\ \/ \E why \in {"checkpoint", "budget", "away"} : g = Wait(f, t, why)
          \/ IsMemberStage(j) /\ g = LaunchStage(f, t, j)
          \/ ~IsMemberStage(j) /\ g = RunCoordinatorStage(f, t, j)

AdvanceEnds(e, g, t) ==
    /\ Open(e.tasks[t]) = {}
    /\ \E status \in {"review", "done"} : \E f :
          /\ Retask(e, f, t, Sent(e.tasks[t], Len(Plan) + 1))
          /\ g = Goes(f, t, status, "none")

AdvanceMoves(e, g, t) ==
    \E j \in Stages : \E f :
       /\ NextStage(e.tasks[t], j) /\ Retask(e, f, t, Sent(e.tasks[t], j))
       /\ AdvanceGoes(e, f, g, t, j)

LEMMA AdvanceIs ==
    ASSUME NEW e \in Team, NEW t \in Tasks
    PROVE  \/ e.tasks[t].status # "running" /\ Advance(e, t) = e
           \/ e.tasks[t].status = "running" /\ AdvanceEnds(e, Advance(e, t), t)
           \/ e.tasks[t].status = "running" /\ AdvanceMoves(e, Advance(e, t), t)
<1> DEFINE k == e.tasks[t]
           g == Advance(e, t)
<1>1. k \in Task
  BY DEF Team
<1>2. CASE k.status # "running"
  BY <1>2 DEF Advance
<1>3. CASE k.status = "running" /\ Open(k) = {}
  <2> DEFINE f == [e EXCEPT !.tasks[t].at = Len(Plan) + 1]
             status == IF FinalReview THEN "review" ELSE "done"
  <2>1. g = Goes(f, t, status, "none")
    BY <1>3 DEF Advance, Open, Finish
  <2>2. Retask(e, f, t, Sent(k, Len(Plan) + 1))
    <3>1. Len(Plan) + 1 \in 1..(Len(Plan) + 1)
      BY Sizes
    <3> QED
      BY <3>1, SendRetasks
  <2>3. status \in {"review", "done"}
    OBVIOUS
  <2> HIDE DEF f, status
  <2> QED
    BY <1>3, <2>1, <2>2, <2>3 DEF AdvanceEnds
<1>4. CASE k.status = "running" /\ Open(k) # {}
  <2> DEFINE j == Smallest(Open(k))
             f == [e EXCEPT !.tasks[t].at = j]
  <2>1. j \in Stages /\ NextStage(k, j)
    <3>1. Open(k) \in SUBSET Nat
      BY Sizes DEF Open
    <3>2. j \in Open(k) /\ \A i \in Open(k) : j <= i
      BY <1>4, <3>1, SmallestOf
    <3> QED
      BY <3>2 DEF NextStage, Open
  <2>2. Retask(e, f, t, Sent(k, j))
    <3>1. j \in 1..(Len(Plan) + 1)
      BY <2>1, Sizes
    <3> HIDE DEF j
    <3> QED
      BY <3>1, SendRetasks
  <2>3. AdvanceGoes(e, f, g, t, j)
    <3> DEFINE gated == Plan[j].kind = "challenge" /\ ReviewFirst /\ k.cleared # j /\ j > 1
               gone == e.away /\ k.awayCleared # j
    <3>1. g = IF k.stages[j].status = "running" THEN f
              ELSE IF gated THEN Wait(f, t, "checkpoint")
              ELSE IF k.broke THEN Wait(f, t, "budget")
              ELSE IF gone THEN Wait(f, t, "away")
              ELSE IF IsMemberStage(j) THEN LaunchStage(f, t, j)
              ELSE RunCoordinatorStage(f, t, j)
      BY <1>4 DEF Advance, Open
    <3> HIDE DEF f, g, j, gated, gone
    <3> QED
      BY <3>1 DEF AdvanceGoes
  <2> HIDE DEF f, j
  <2> QED
    BY <1>4, <2>1, <2>2, <2>3 DEF AdvanceMoves
<1> QED
  BY <1>2, <1>3, <1>4

LEMMA TurnedIs ==
    ASSUME NEW k \in Task, NEW status \in TaskStatus, NEW why \in Whys
    PROVE  /\ Turned(k, status, why) \in Task
           /\ Turned(k, status, why).status = status /\ Turned(k, status, why).why = why
           /\ Turned(k, status, why).at = k.at /\ Turned(k, status, why).stages = k.stages
           /\ Turned(k, status, why).resumes = k.resumes
  BY DEF Turned, Task

LEMMA SentIs ==
    ASSUME NEW k \in Task, NEW j \in 1..(Len(Plan) + 1)
    PROVE  /\ Sent(k, j) \in Task /\ Sent(k, j).at = j
           /\ Sent(k, j).status = k.status /\ Sent(k, j).why = k.why
           /\ Sent(k, j).stages = k.stages /\ Sent(k, j).resumes = k.resumes
  BY DEF Sent, Task

LEMMA GoesKept ==
    ASSUME NEW e, NEW t \in Tasks, NEW status \in TaskStatus, NEW why \in Whys, Fine(e, t),
           status = "waiting" => e.tasks[t].at \in Stages
    PROVE  /\ Kept(e, Goes(e, t, status, why), t)
           /\ Goes(e, t, status, why).tasks[t].status = status
           /\ Goes(e, t, status, why).tasks[t].at = e.tasks[t].at
<1> DEFINE k == Turned(e.tasks[t], status, why)
<1>1. e \in Team /\ e.tasks[t] \in Task
  BY DEF Fine, Team
<1>2. Retask(e, Goes(e, t, status, why), t, k)
  BY <1>1, GoesRetasks
<1>3. k.status = status /\ k.at = e.tasks[t].at
  BY <1>1, TurnedIs
<1>4. Sited(k)
  BY <1>3 DEF Sited
<1>5. Kept(e, Goes(e, t, status, why), t)
  BY <1>2, <1>4, RetaskKept
<1> QED
  BY <1>2, <1>3, <1>5 DEF Retask

LEMMA AdvanceKept ==
    ASSUME NEW e, NEW t \in Tasks, Fine(e, t)
    PROVE  Calmly(e, Advance(e, t), t)
<1> DEFINE k == e.tasks[t]
           g == Advance(e, t)
<1>1. e \in Team /\ k \in Task
  BY DEF Fine, Team
<1>2. CASE k.status # "running" /\ g = e
  BY <1>2, CalmlySame
<1>3. ASSUME k.status = "running", NEW status \in {"review", "done"}, NEW f,
             Retask(e, f, t, Sent(k, Len(Plan) + 1)), g = Goes(f, t, status, "none")
      PROVE  Calmly(e, g, t)
  <2>1. Sited(Sent(k, Len(Plan) + 1))
    <3>1. Len(Plan) + 1 \in 1..(Len(Plan) + 1)
      BY Sizes
    <3> QED
      BY <1>1, <1>3, <3>1, SentIs DEF Sited
  <2>2. Kept(e, f, t)
    BY <1>3, <2>1, RetaskKept
  <2>3. Kept(f, g, t)
    <3>1. status \in TaskStatus /\ status # "waiting" /\ "none" \in Whys
      BY <1>3 DEF TaskStatus, Whys
    <3> QED
      BY <1>3, <2>2, <3>1, GoesKept DEF Kept
  <2>4. Kept(e, g, t)
    BY <2>2, <2>3, KeptTrans
  <2> QED
    BY <1>3, <2>4 DEF Calmly, Calm
<1>4. ASSUME k.status = "running", NEW j \in Stages, NEW f, NextStage(k, j),
             Retask(e, f, t, Sent(k, j)), AdvanceGoes(e, f, g, t, j)
      PROVE  Calmly(e, g, t)
  <2>1. j \in 1..(Len(Plan) + 1)
    BY Sizes
  <2>2. Sited(Sent(k, j)) /\ Sent(k, j).at = j
    BY <1>1, <1>4, <2>1, SentIs DEF Sited
  <2>3. Kept(e, f, t) /\ f.tasks[t].at = j
    BY <1>4, <2>2, RetaskKept DEF Retask
  <2>4. Kept(f, g, t)
    <3>1. CASE g = f
      BY <2>3, <3>1, CalmlySame DEF Kept, Calmly
    <3>2. ASSUME NEW why \in {"checkpoint", "budget", "away"}, g = Wait(f, t, why)
          PROVE  Kept(f, g, t)
      <4>1. "waiting" \in TaskStatus /\ why \in Whys
        BY DEF TaskStatus, Whys
      <4> QED
        BY <2>3, <3>2, <4>1, GoesKept DEF Kept, Wait
    <3>3. CASE g = LaunchStage(f, t, j)
      BY <2>3, <3>3, LaunchStageKept DEF Kept, Calmly
    <3>4. CASE g = RunCoordinatorStage(f, t, j)
      BY <2>3, <3>4, RunCoordinatorStageKept DEF Kept, Calmly
    <3> QED
      BY <1>4, <3>1, <3>2, <3>3, <3>4 DEF AdvanceGoes
  <2>5. Kept(e, g, t)
    BY <2>3, <2>4, KeptTrans
  <2> QED
    BY <1>4, <2>5 DEF Calmly, Calm
<1> QED
  <2>1. CASE k.status = "running" /\ AdvanceEnds(e, g, t)
    BY <2>1, <1>3 DEF AdvanceEnds
  <2>2. CASE k.status = "running" /\ AdvanceMoves(e, g, t)
    BY <2>2, <1>4 DEF AdvanceMoves
  <2> QED
    BY <1>1, <1>2, <2>1, <2>2, AdvanceIs

\* A stage checked: nothing to be done, a stage that failed, or one that is over.
CheckStageGoes(e, g, t) ==
    LET k == e.tasks[t]
        j == k.at
        s == k.stages[j]
    IN  /\ k.status = "running" /\ e.launches[t] = NoLaunch
        /\ j \in Stages /\ IsMemberStage(j) /\ s.status = "running" /\ ~StillGoing(s, j)
        /\ \/ \E f : /\ Retask(e, f, t, Marked(k, j, "failed")) /\ g = Wait(f, t, "failed")
                     /\ \A m \in Plan[j].who : s.pieces[m].status = "failed"
           \/ g = Wait(e, t, "failed")
           \/ \E over \in {"done", "skipped"} : \E f :
                 /\ Retask(e, f, t, Sent(Marked(k, j, over), j + 1))
                 /\ g = Advance(f, t)

LEMMA SendMarkRetasks ==
    ASSUME NEW e \in Team, NEW t \in Tasks, NEW j \in Stages, NEW status \in StageStatus
    PROVE  Retask(e, [e EXCEPT !.tasks[t].stages[j].status = status, !.tasks[t].at = j + 1], t,
                  Sent(Marked(e.tasks[t], j, status), j + 1))
<1> DEFINE f == [e EXCEPT !.tasks[t].stages[j].status = status]
           g == [f EXCEPT !.tasks[t].at = j + 1]
<1>1. Retask(e, f, t, Marked(e.tasks[t], j, status))
  BY MarkRetasks
<1>2. j + 1 \in 1..(Len(Plan) + 1)
  BY Sizes
<1>3. g = [e EXCEPT !.tasks[t].stages[j].status = status, !.tasks[t].at = j + 1]
  OBVIOUS
<1>4. Retask(f, g, t, Sent(f.tasks[t], j + 1))
  <2> HIDE DEF f
  <2> QED
    BY <1>1, <1>2, SendRetasks DEF Retask
<1>5. Retask(e, g, t, Sent(f.tasks[t], j + 1))
  <2> HIDE DEF f, g
  <2> QED
    BY <1>1, <1>4, RetaskTrans
<1> QED
  BY <1>1, <1>3, <1>5 DEF Retask

LEMMA CheckStageIs ==
    ASSUME NEW e \in Team, NEW t \in Tasks
    PROVE  LET k == e.tasks[t]
               g == CheckStage(e, t)
           IN  \/ /\ g = e
                  /\ \/ k.status # "running" \/ e.launches[t] # NoLaunch \/ k.at \notin Stages
                     \/ ~IsMemberStage(k.at) \/ k.stages[k.at].status # "running"
                     \/ StillGoing(k.stages[k.at], k.at)
               \/ CheckStageGoes(e, g, t)
<1> DEFINE k == e.tasks[t]
           j == k.at
           s == k.stages[j]
           g == CheckStage(e, t)
           failed == {m \in Plan[j].who : s.pieces[m].status = "failed"}
           clashed == {m \in Plan[j].who : s.pieces[m].clash}
           over == IF SomeDone(s) THEN "done" ELSE "skipped"
           no == \/ k.status # "running" \/ e.launches[t] # NoLaunch
                 \/ j > Len(Plan) \/ ~IsMemberStage(j) \/ s.status # "running"
                 \/ StillGoing(s, j)
<1>1. k \in Task /\ j \in 1..(Len(Plan) + 1) /\ (j \in Stages <=> ~(j > Len(Plan)))
  <2>1. k \in Task
    BY DEF Team
  <2>2. j \in 1..(Len(Plan) + 1)
    BY <2>1 DEF Task
  <2> HIDE DEF j, k
  <2>3. j \in Stages <=> ~(j > Len(Plan))
    BY <2>2, Sizes
  <2> QED
    BY <2>1, <2>2, <2>3
<1>2. CASE no
  <2>1. g = e
    BY <1>2 DEF CheckStage
  <2> QED
    BY <1>1, <1>2, <2>1
<1>3. CASE ~no /\ failed = Plan[j].who
  <2> DEFINE f == [e EXCEPT !.tasks[t].stages[j].status = "failed"]
  <2>1. g = Wait(f, t, "failed")
    BY <1>3 DEF CheckStage
  <2>2. Retask(e, f, t, Marked(k, j, "failed"))
    BY <1>1, <1>3, MarkRetasks DEF StageStatus
  <2>3. \A m \in Plan[j].who : s.pieces[m].status = "failed"
    BY <1>3
  <2> HIDE DEF f
  <2> QED
    BY <1>1, <1>3, <2>1, <2>2, <2>3 DEF CheckStageGoes
<1>4. CASE ~no /\ failed # Plan[j].who /\ failed \cup clashed # {}
  <2>1. g = Wait(e, t, "failed")
    BY <1>4 DEF CheckStage
  <2> QED
    BY <1>1, <1>4, <2>1 DEF CheckStageGoes
<1>5. CASE ~no /\ failed # Plan[j].who /\ failed \cup clashed = {}
  <2> DEFINE h == [e EXCEPT !.tasks[t].stages[j].status = over, !.tasks[t].at = j + 1]
             f == Persist(h, t)
  <2>1. g = Advance(f, t)
    BY <1>5 DEF CheckStage
  <2>2. over \in {"done", "skipped"} /\ over \in StageStatus
    BY DEF StageStatus
  <2>3. Retask(e, h, t, Sent(Marked(k, j, over), j + 1))
    <3>1. j \in Stages
      BY <1>1, <1>5
    <3> HIDE DEF over, j
    <3> QED
      BY <2>2, <3>1, SendMarkRetasks
  <2>4. Retask(e, f, t, Sent(Marked(k, j, over), j + 1))
    <3> HIDE DEF h, over, j
    <3> QED
      BY <2>3, RetaskPersist
  <2> HIDE DEF f, over
  <2> QED
    BY <1>1, <1>5, <2>1, <2>2, <2>4 DEF CheckStageGoes
<1> QED
  BY <1>2, <1>3, <1>4, <1>5

LEMMA CheckStageKept ==
    ASSUME NEW e, NEW t \in Tasks, Fine(e, t)
    PROVE  Calmly(e, CheckStage(e, t), t)
<1> DEFINE k == e.tasks[t]
           g == CheckStage(e, t)
           j == k.at
<1>1. e \in Team /\ k \in Task
  BY DEF Fine, Team
<1>2. CASE g = e
  BY <1>2, CalmlySame
<1>3. CASE CheckStageGoes(e, g, t)
  <2>1. k.status = "running" /\ j \in Stages
    BY <1>3 DEF CheckStageGoes
  <2>2. "waiting" \in TaskStatus /\ "failed" \in Whys /\ {"done", "skipped", "failed"} \subseteq StageStatus
    BY DEF TaskStatus, Whys, StageStatus
  <2>3. Kept(e, g, t)
    <3>1. ASSUME NEW f, Retask(e, f, t, Marked(k, j, "failed")), g = Wait(f, t, "failed")
          PROVE  Kept(e, g, t)
      <4>1. Marked(k, j, "failed").status = k.status /\ Marked(k, j, "failed").at = j
        BY <1>1, <2>1, <2>2, MarkedIs
      <4>2. Kept(e, f, t) /\ f.tasks[t].at = j
        BY <2>1, <3>1, <4>1, RetaskKept DEF Sited, Retask
      <4>3. Kept(f, g, t)
        BY <2>1, <2>2, <3>1, <4>2, GoesKept DEF Kept, Wait
      <4> QED
        BY <4>2, <4>3, KeptTrans
    <3>2. CASE g = Wait(e, t, "failed")
      BY <2>1, <2>2, <3>2, GoesKept DEF Wait
    <3>3. ASSUME NEW over \in {"done", "skipped"}, NEW f,
                 Retask(e, f, t, Sent(Marked(k, j, over), j + 1)), g = Advance(f, t)
          PROVE  Kept(e, g, t)
      <4>1. j + 1 \in 1..(Len(Plan) + 1)
        BY <2>1, Sizes
      <4>2. Marked(k, j, over) \in Task /\ Marked(k, j, over).status = k.status
        BY <1>1, <2>1, <2>2, MarkedIs
      <4>3. Sited(Sent(Marked(k, j, over), j + 1))
        BY <2>1, <4>1, <4>2, SentIs DEF Sited
      <4>4. Kept(e, f, t)
        BY <3>3, <4>3, RetaskKept
      <4>5. Kept(f, g, t)
        BY <3>3, <4>4, AdvanceKept DEF Kept, Calmly
      <4> QED
        BY <4>4, <4>5, KeptTrans
    <3> QED
      BY <1>3, <3>1, <3>2, <3>3 DEF CheckStageGoes
  <2> QED
    BY <2>1, <2>3 DEF Calmly, Calm
<1> QED
  BY <1>1, <1>2, <1>3, CheckStageIs

-----------------------------------------------------------------------------
(* The batches.                                                            *)

Hows == {"running", "paused", "done", "clash", "failed"}

LEMMA FoldedIs ==
    ASSUME NEW p \in Piece, NEW b \in Nat, NEW how \in Hows
    PROVE  /\ Folded(p, b, how) \in Piece
           /\ how \in {"running", "paused"} =>
                /\ Folded(p, b, how).status = how /\ Folded(p, b, how).batch = b
                /\ Folded(p, b, how).clash = p.clash
           /\ how \notin {"running", "paused"} =>
                /\ Folded(p, b, how).batch = 0
                /\ Folded(p, b, how).status = IF how = "failed" THEN "failed" ELSE "done"
                /\ how = "failed" => Folded(p, b, how).clash = p.clash
<1>1. CASE how \in {"running", "paused"}
  <2>1. Folded(p, b, how) = [p EXCEPT !.status = how, !.batch = b]
    BY <1>1 DEF Folded
  <2>2. how \in PieceStatus
    BY <1>1 DEF PieceStatus, StageStatus
  <2> QED
    BY <1>1, <2>1, <2>2 DEF Piece
<1>2. CASE how \in {"done", "clash"}
  <2>1. Folded(p, b, how) = [p EXCEPT !.status = "done", !.batch = 0, !.clash = (how = "clash")]
    BY <1>2 DEF Folded
  <2>2. "done" \in PieceStatus
    BY DEF PieceStatus, StageStatus
  <2>3. \A c \in BOOLEAN : LET q == [p EXCEPT !.status = "done", !.batch = 0, !.clash = c]
                          IN  q \in Piece /\ q.batch = 0 /\ q.status = "done"
    BY <2>2 DEF Piece
  <2>4. (how = "clash") \in BOOLEAN
    OBVIOUS
  <2>5. LET q == Folded(p, b, how) IN q \in Piece /\ q.batch = 0 /\ q.status = "done"
    BY <2>1, <2>3, <2>4
  <2> QED
    BY <1>2, <2>5
<1>3. CASE how = "failed"
  <2>1. Folded(p, b, how) = [p EXCEPT !.status = "failed", !.batch = 0]
    BY <1>3 DEF Folded
  <2>2. "failed" \in PieceStatus
    BY DEF PieceStatus, StageStatus
  <2>3. LET q == Folded(p, b, how)
        IN  q \in Piece /\ q.batch = 0 /\ q.status = "failed" /\ q.clash = p.clash
    <3>1. LET q == [p EXCEPT !.status = "failed", !.batch = 0]
          IN  q \in Piece /\ q.batch = 0 /\ q.status = "failed"
      BY <2>2 DEF Piece
    <3>2. [p EXCEPT !.status = "failed", !.batch = 0].clash = p.clash
      BY DEF Piece
    <3> QED
      BY <2>1, <3>1, <3>2
  <2> QED
    BY <1>3, <2>3
<1> QED
  BY <1>1, <1>2, <1>3 DEF Hows

\* What a batch says is folded into its piece.
Fold(k, o, b, how) ==
    Pieced(k, o.stage, o.member, Folded(k.stages[o.stage].pieces[o.member], b, how))

Deaf(k, o, b) ==
    LET p == k.stages[o.stage].pieces[o.member]
    IN  p.batch \notin {0, b} \/ Settled(p) \/ ~IsTaskActive(k)

LEMMA PiecedIs ==
    ASSUME NEW k \in Task, NEW j \in Stages, NEW m \in Members, NEW p \in Piece
    PROVE  /\ Pieced(k, j, m, p) \in Task
           /\ Pieced(k, j, m, p).status = k.status /\ Pieced(k, j, m, p).why = k.why
           /\ Pieced(k, j, m, p).at = k.at /\ Pieced(k, j, m, p).resumes = k.resumes
           /\ \A i \in Stages \ {j} : Pieced(k, j, m, p).stages[i] = k.stages[i]
           /\ Pieced(k, j, m, p).stages[j].status = k.stages[j].status
           /\ Pieced(k, j, m, p).stages[j].pieces[m] = p
           /\ \A x \in Members \ {m} :
                 Pieced(k, j, m, p).stages[j].pieces[x] = k.stages[j].pieces[x]
<1>1. k.stages \in [Stages -> Stage] /\ k.stages[j] \in Stage
  BY DEF Task
<1>2. k.stages[j].pieces \in [Members -> Piece]
  BY <1>1 DEF Stage
<1> DEFINE s == [k.stages[j] EXCEPT !.pieces[m] = p]
           ss == [k.stages EXCEPT ![j] = s]
<1>3. s \in Stage /\ s.status = k.stages[j].status /\ s.pieces[m] = p
      /\ \A x \in Members \ {m} : s.pieces[x] = k.stages[j].pieces[x]
  BY <1>1, <1>2 DEF Stage
<1>4. Pieced(k, j, m, p) = [k EXCEPT !.stages = ss]
  BY DEF Pieced
<1> HIDE DEF s
<1>5. ss \in [Stages -> Stage] /\ ss[j] = s /\ \A i \in Stages \ {j} : ss[i] = k.stages[i]
  BY <1>1, <1>3
<1> HIDE DEF ss
<1>6. /\ Pieced(k, j, m, p) \in Task /\ Pieced(k, j, m, p).stages = ss
      /\ Pieced(k, j, m, p).status = k.status /\ Pieced(k, j, m, p).why = k.why
      /\ Pieced(k, j, m, p).at = k.at /\ Pieced(k, j, m, p).resumes = k.resumes
  BY <1>4, <1>5 DEF Task
<1> QED
  BY <1>3, <1>5, <1>6

LEMMA ApplyBatchIs ==
    ASSUME NEW e \in Team, NEW o \in Batch, NEW b \in Nat, NEW how \in Hows
    PROVE  \/ Deaf(e.tasks[o.task], o, b) /\ ApplyBatch(e, o, b, how) = e
           \/ /\ ~Deaf(e.tasks[o.task], o, b)
              /\ \E f : /\ Retask(e, f, o.task, Fold(e.tasks[o.task], o, b, how))
                        /\ ApplyBatch(e, o, b, how) =
                             IF o.stage = e.tasks[o.task].at THEN CheckStage(f, o.task) ELSE f
<1> DEFINE t == o.task
           k == e.tasks[t]
           p == k.stages[o.stage].pieces[o.member]
           h == SetPiece(e, t, o.stage, o.member, Folded(p, b, how))
           f == Persist(h, t)
<1>1. o.task \in Tasks /\ o.stage \in Stages /\ o.member \in Members
  BY DEF Batch
<1>2. p \in Piece
  <2>1. k \in Task
    BY <1>1 DEF Team
  <2>2. k.stages[o.stage] \in Stage
    BY <1>1, <2>1 DEF Task
  <2> QED
    BY <1>1, <2>2 DEF Stage
<1>3. Folded(p, b, how) \in Piece
  <2> HIDE DEF p
  <2> QED
    BY <1>2, FoldedIs
<1>4. Retask(e, h, t, Fold(k, o, b, how))
  BY <1>1, <1>3, SetPieceRetasks DEF Fold, Pieced
<1>5. Retask(e, f, t, Fold(k, o, b, how))
  <2> HIDE DEF h
  <2> QED
    BY <1>1, <1>4, RetaskPersist
<1>6. ApplyBatch(e, o, b, how) =
        IF Deaf(k, o, b) THEN e ELSE IF o.stage = k.at THEN CheckStage(f, t) ELSE f
  BY DEF ApplyBatch, Deaf
<1> HIDE DEF f
<1> QED
  BY <1>5, <1>6

LEMMA FoldIs ==
    ASSUME NEW k \in Task, NEW o \in Batch, NEW b \in Nat, NEW how \in Hows
    PROVE  /\ Fold(k, o, b, how) \in Task
           /\ Fold(k, o, b, how).status = k.status /\ Fold(k, o, b, how).why = k.why
           /\ Fold(k, o, b, how).at = k.at
<1>1. o.stage \in Stages /\ o.member \in Members
  BY DEF Batch
<1>2. k.stages[o.stage].pieces[o.member] \in Piece
  <2>1. k.stages[o.stage] \in Stage
    BY <1>1 DEF Task
  <2> QED
    BY <1>1, <2>1 DEF Stage
<1>3. Folded(k.stages[o.stage].pieces[o.member], b, how) \in Piece
  BY <1>2, FoldedIs
<1> QED
  BY <1>1, <1>3, PiecedIs DEF Fold

LEMMA ApplyBatchKept ==
    ASSUME NEW e, NEW o \in Batch, NEW b \in Nat, NEW how \in Hows, Fine(e, o.task)
    PROVE  Calmly(e, ApplyBatch(e, o, b, how), o.task)
<1> DEFINE t == o.task
           k == e.tasks[t]
           g == ApplyBatch(e, o, b, how)
<1>1. e \in Team /\ t \in Tasks /\ k \in Task
  BY DEF Fine, Team, Batch
<1>2. CASE g = e
  BY <1>2, CalmlySame
<1>3. ASSUME NEW f, Retask(e, f, t, Fold(k, o, b, how)),
             g = IF o.stage = k.at THEN CheckStage(f, t) ELSE f
      PROVE  Calmly(e, g, t)
  <2>1. /\ Fold(k, o, b, how).status = k.status /\ Fold(k, o, b, how).why = k.why
        /\ Fold(k, o, b, how).at = k.at
    BY <1>1, FoldIs
  <2>2. Kept(e, f, t)
    BY <1>3, <2>1, RetaskKept DEF Sited, Fine
  <2>3. Calmly(e, f, t)
    BY <1>3, <2>1, <2>2 DEF Calmly, Calm, Retask
  <2>4. CASE g = f
    BY <2>3, <2>4
  <2>5. CASE g = CheckStage(f, t)
    <3>1. Calmly(f, g, t)
      BY <1>1, <2>2, <2>5, CheckStageKept DEF Kept
    <3> QED
      BY <2>3, <3>1, CalmlyTrans
  <2> QED
    BY <1>3, <2>4, <2>5
<1> QED
  BY <1>1, <1>2, <1>3, ApplyBatchIs

Others(e, t) ==
    /\ e \in Team
    /\ \A u \in Tasks \ {t} : Held(u, e.launches[u], e.batches) /\ Sited(e.tasks[u])

All(e) == e \in Team /\ \A t \in Tasks : Held(t, e.launches[t], e.batches) /\ Sited(e.tasks[t])

LEMMA AllKept ==
    ASSUME NEW e, NEW f, NEW t \in Tasks, Others(e, t), Kept(e, f, t)
    PROVE  All(f)
<1>1. Fine(f, t)
  BY DEF Kept
<1>2. ASSUME NEW u \in Tasks \ {t} PROVE Held(u, f.launches[u], f.batches) /\ Sited(f.tasks[u])
  <2>1. Slice(f, u) = Slice(e, u)
    BY DEF Kept, Local
  <2>2. f.tasks[u] = e.tasks[u]
    BY <2>1 DEF Slice
  <2>3. Held(u, e.launches[u], e.batches) /\ Sited(e.tasks[u])
    BY DEF Others
  <2> QED
    BY <2>1, <2>2, <2>3, HeldOfSlice
<1> QED
  BY <1>1, <1>2 DEF All, Fine

LEMMA AllOthers ==
    ASSUME NEW e, NEW t, All(e)
    PROVE  Others(e, t) /\ (t \in Tasks => Fine(e, t))
  BY DEF All, Others, Fine

\* Only the batches change.
Rebatched(e, f, B) ==
    /\ f \in Team
    /\ f.tasks = e.tasks /\ f.launches = e.launches /\ f.turns = e.turns /\ f.batches = B

LEMMA RebatchIs ==
    ASSUME NEW e \in Team, NEW B \in Tables
    PROVE  Rebatched(e, [e EXCEPT !.batches = B], B)
  BY DEF Rebatched, Team

\* A batch says that it goes, or that it is paused.
Said(B, b, how) == [B EXCEPT ![b].state = how]

LEMMA SaidIs ==
    ASSUME NEW B \in Tables, NEW b \in DOMAIN B, NEW how \in {"running", "paused"}
    PROVE  /\ Said(B, b, how) \in Tables /\ DOMAIN Said(B, b, how) = DOMAIN B
           /\ \A x \in DOMAIN B \ {b} : Said(B, b, how)[x] = B[x]
           /\ Said(B, b, how)[b].state = how /\ Said(B, b, how)[b].task = B[b].task
           /\ Said(B, b, how)[b].stage = B[b].stage /\ Said(B, b, how)[b].member = B[b].member
<1>1. B \in [DOMAIN B -> Batch] /\ IsFiniteSet(DOMAIN B) /\ DOMAIN B \subseteq Nat \ {0}
  BY TableIs
<1> DEFINE o == [B[b] EXCEPT !.state = how]
<1>2. B[b] \in Batch
  BY <1>1
<1>3. o \in Batch /\ o.state = how /\ o.task = B[b].task /\ o.stage = B[b].stage
      /\ o.member = B[b].member
  BY <1>2 DEF Batch
<1>4. Said(B, b, how) = [B EXCEPT ![b] = o]
  BY DEF Said
<1> HIDE DEF o
<1>5. Said(B, b, how) \in [DOMAIN B -> Batch] /\ Said(B, b, how)[b] = o
      /\ \A x \in DOMAIN B \ {b} : Said(B, b, how)[x] = B[x]
  BY <1>1, <1>3, <1>4
<1> QED
  BY <1>1, <1>3, <1>5, TableIs

\* The table after what batch b has said.
Heard(B, b, how) == IF how \in {"running", "paused"} THEN Said(B, b, how) ELSE Without(B, {b})

LEMMA HeardIs ==
    ASSUME NEW B \in Tables, NEW b \in DOMAIN B, NEW how \in Hows
    PROVE  /\ Heard(B, b, how) \in Tables
           /\ \A x \in DOMAIN Heard(B, b, how) :
                 /\ x \in DOMAIN B
                 /\ x # b => Heard(B, b, how)[x] = B[x]
                 /\ x = b => /\ how \in {"running", "paused"} /\ Heard(B, b, how)[b].state = how
                             /\ Heard(B, b, how)[b].task = B[b].task
                             /\ Heard(B, b, how)[b].stage = B[b].stage
                             /\ Heard(B, b, how)[b].member = B[b].member
           /\ \A x \in DOMAIN B \ {b} : x \in DOMAIN Heard(B, b, how)
           /\ how \in {"running", "paused"} => b \in DOMAIN Heard(B, b, how)
<1>1. CASE how \in {"running", "paused"}
  <2> DEFINE C == Said(B, b, how)
  <2>1. Heard(B, b, how) = C
    BY <1>1 DEF Heard
  <2>2. /\ C \in Tables /\ DOMAIN C = DOMAIN B
        /\ \A x \in DOMAIN B \ {b} : C[x] = B[x]
        /\ C[b].state = how /\ C[b].task = B[b].task
        /\ C[b].stage = B[b].stage /\ C[b].member = B[b].member
    BY <1>1, SaidIs
  <2> HIDE DEF C
  <2> QED
    BY <1>1, <2>1, <2>2
<1>2. CASE how \notin {"running", "paused"}
  <2>1. Heard(B, b, how) = Without(B, {b})
    BY <1>2 DEF Heard
  <2>2. /\ Without(B, {b}) \in Tables /\ DOMAIN Without(B, {b}) = DOMAIN B \ {b}
        /\ \A x \in DOMAIN B \ {b} : Without(B, {b})[x] = B[x]
    BY WithoutIs
  <2> QED
    BY <1>2, <2>1, <2>2
<1> QED
  BY <1>1, <1>2

LEMMA HeardKeepsOthers ==
    ASSUME NEW B \in Tables, NEW b \in DOMAIN B, NEW how \in Hows, NEW u, B[b].task # u
    PROVE  Going(Heard(B, b, how), u) = Going(B, u)
<1> DEFINE C == Heard(B, b, how)
<1>1. /\ \A x \in DOMAIN C : /\ x \in DOMAIN B
                             /\ x # b => C[x] = B[x]
                             /\ x = b => C[b].task = B[b].task
      /\ \A x \in DOMAIN B \ {b} : x \in DOMAIN C
  BY HeardIs
<1> HIDE DEF C
<1>2. \A x : x \in DOMAIN C /\ C[x].task = u <=> x \in DOMAIN B /\ B[x].task = u
  BY <1>1
<1>3. \A x \in DOMAIN B : B[x].task = u => C[x] = B[x]
  BY <1>1
<1> QED
  BY <1>2, <1>3, GoingElsewhere DEF C

LEMMA ToldIs ==
    ASSUME NEW e \in Team, NEW b \in DOMAIN e.batches, NEW how \in Hows
    PROVE  \E f : /\ Rebatched(e, f, Heard(e.batches, b, how))
                  /\ Told(e, b, how) = ApplyBatch(f, e.batches[b], b, how)
<1> DEFINE f == [e EXCEPT !.batches = Heard(e.batches, b, how)]
<1>1. e.batches \in Tables
  BY DEF Team
<1>2. Rebatched(e, f, Heard(e.batches, b, how))
  BY <1>1, HeardIs, RebatchIs
<1>3. Told(e, b, how) = ApplyBatch(f, e.batches[b], b, how)
  BY DEF Told, Heard, Said
<1> QED
  BY <1>2, <1>3

\* Batch b of the task, one that has been made, speaks.
LEMMA ToldKept ==
    ASSUME NEW e, NEW t \in Tasks, Fine(e, t), NEW b \in DOMAIN e.batches, NEW how \in Hows,
           e.batches[b].task = t, e.batches[b].state # "starting"
    PROVE  Calmly(e, Told(e, b, how), t)
<1> DEFINE B == e.batches
           C == Heard(B, b, how)
           o == B[b]
<1>1. e \in Team /\ B \in Tables /\ o \in Batch /\ b \in Nat
  <2>1. e \in Team /\ B \in Tables
    BY DEF Fine, Team
  <2> QED
    BY <2>1, TableIs
<1>2. PICK f : Rebatched(e, f, C) /\ Told(e, b, how) = ApplyBatch(f, o, b, how)
  BY <1>1, ToldIs
<1>3. Fine(f, t)
  <2>1. Held(t, e.launches[t], B)
    BY DEF Fine
  <2>2. /\ \A x \in DOMAIN C : /\ x \in DOMAIN B
                               /\ x # b => C[x] = B[x]
                               /\ x = b => C[b].state # "starting"
        /\ \A x \in DOMAIN B \ {b} : x \in DOMAIN C
    BY <1>1, HeardIs
  <2> HIDE DEF C
  <2>3. Held(t, e.launches[t], C)
    BY <2>1, <2>2 DEF Held
  <2> QED
    BY <1>2, <2>3 DEF Rebatched, Fine
<1>4. Local(e, f, t)
  <2>1. \A u \in Tasks \ {t} : Going(C, u) = Going(B, u)
    BY <1>1, HeardKeepsOthers
  <2> QED
    BY <1>2, <2>1, LocalIs DEF Rebatched
<1>5. Calmly(e, f, t)
  BY <1>2, <1>3, <1>4 DEF Calmly, Kept, Calm, Rebatched
<1>6. Calmly(f, Told(e, b, how), t)
  BY <1>1, <1>2, <1>3, ApplyBatchKept
<1> QED
  BY <1>5, <1>6, CalmlyTrans

LEMMA CancelledIs ==
    ASSUME NEW e \in Team, NEW S
    PROVE  Rebatched(e, Cancelled(e, S), Without(e.batches, {b \in S : Abortable(e, b)}))
<1>1. e.batches \in Tables
  BY DEF Team
<1>2. Without(e.batches, {b \in S : Abortable(e, b)}) \in Tables
  BY <1>1, WithoutIs
<1> QED
  BY <1>2, RebatchIs DEF Cancelled

LEMMA CancelledHeld ==
    ASSUME NEW e \in Team, NEW S, NEW t, NEW l, Held(t, l, e.batches)
    PROVE  Held(t, l, Cancelled(e, S).batches)
<1> DEFINE B == e.batches
           A == {b \in S : Abortable(e, b)}
           C == Without(B, A)
<1>1. Cancelled(e, S).batches = C
  BY CancelledIs DEF Rebatched
<1>2. DOMAIN C = DOMAIN B \ A /\ \A x \in DOMAIN B \ A : C[x] = B[x]
  BY WithoutIs DEF Team
<1>3. \A b \in DOMAIN B : B[b].state = "starting" => b \notin A
  BY DEF Abortable
<1> HIDE DEF A, C
<1>4. Held(t, l, C)
  BY <1>2, <1>3 DEF Held
<1> QED
  BY <1>1, <1>4

LEMMA CancelledAll ==
    ASSUME NEW e, NEW S, All(e)
    PROVE  All(Cancelled(e, S)) /\ Cancelled(e, S).tasks = e.tasks
<1>1. e \in Team
  BY DEF All
<1>2. /\ Cancelled(e, S) \in Team /\ Cancelled(e, S).tasks = e.tasks
      /\ Cancelled(e, S).launches = e.launches
  BY <1>1, CancelledIs DEF Rebatched
<1>3. \A t \in Tasks : Held(t, e.launches[t], Cancelled(e, S).batches)
  BY <1>1, CancelledHeld DEF All
<1> QED
  BY <1>2, <1>3 DEF All

-----------------------------------------------------------------------------
(* What is done to a task.                                                 *)

LEMMA PutIs ==
    ASSUME NEW e \in Team, NEW t \in Tasks, NEW k \in Task
    PROVE  Retask(e, [e EXCEPT !.tasks[t] = k], t, k)
  BY DEF Team, Retask

Restaged(k, j, s) == [k EXCEPT !.stages[j] = s]

LEMMA RestagedIs ==
    ASSUME NEW k \in Task, NEW j \in Stages, NEW s \in Stage
    PROVE  /\ Restaged(k, j, s) \in Task
           /\ Restaged(k, j, s).stages[j] = s
           /\ \A i \in Stages \ {j} : Restaged(k, j, s).stages[i] = k.stages[i]
           /\ Restaged(k, j, s).status = k.status /\ Restaged(k, j, s).why = k.why
           /\ Restaged(k, j, s).at = k.at /\ Restaged(k, j, s).resumes = k.resumes
<1> DEFINE ss == [k.stages EXCEPT ![j] = s]
<1>1. k.stages \in [Stages -> Stage]
  BY DEF Task
<1>2. ss \in [Stages -> Stage] /\ ss[j] = s /\ \A i \in Stages \ {j} : ss[i] = k.stages[i]
  BY <1>1
<1>3. Restaged(k, j, s) = [k EXCEPT !.stages = ss]
  BY DEF Restaged
<1> HIDE DEF ss
<1> QED
  BY <1>2, <1>3 DEF Task

\* Stage j with other pieces.
Repieced(s, ps) == [s EXCEPT !.pieces = ps]

LEMMA RepiecedIs ==
    ASSUME NEW s \in Stage, NEW ps \in [Members -> Piece]
    PROVE  Repieced(s, ps) \in Stage /\ Repieced(s, ps).status = s.status
           /\ Repieced(s, ps).pieces = ps
  BY DEF Repieced, Stage

LEMMA RestageRetasks ==
    ASSUME NEW e \in Team, NEW t \in Tasks, NEW j \in Stages, NEW s \in Stage
    PROVE  Retask(e, [e EXCEPT !.tasks[t].stages[j] = s], t, Restaged(e.tasks[t], j, s))
<1> DEFINE k == Restaged(e.tasks[t], j, s)
<1>1. k \in Task
  BY RestagedIs DEF Team
<1>2. [e EXCEPT !.tasks[t].stages[j] = s] = [e EXCEPT !.tasks[t] = k]
  BY DEF Restaged
<1> SUFFICES Retask(e, [e EXCEPT !.tasks[t].stages[j] = s], t, k)
  OBVIOUS
<1> HIDE DEF k
<1> QED
  BY <1>1, <1>2, PutIs

LEMMA RepieceRetasks ==
    ASSUME NEW e \in Team, NEW t \in Tasks, NEW j \in Stages, NEW ps \in [Members -> Piece]
    PROVE  Retask(e, [e EXCEPT !.tasks[t].stages[j].pieces = ps], t,
                  Restaged(e.tasks[t], j, Repieced(e.tasks[t].stages[j], ps)))
<1> DEFINE s == Repieced(e.tasks[t].stages[j], ps)
<1>1. e.tasks[t].stages[j] \in Stage
  <2>1. e.tasks[t] \in Task
    BY DEF Team
  <2> QED
    BY <2>1 DEF Task
<1>2. s \in Stage
  BY <1>1, RepiecedIs
<1>3. [e EXCEPT !.tasks[t].stages[j].pieces = ps] = [e EXCEPT !.tasks[t].stages[j] = s]
  BY DEF Repieced
<1> SUFFICES Retask(e, [e EXCEPT !.tasks[t].stages[j].pieces = ps], t,
                    Restaged(e.tasks[t], j, s))
  OBVIOUS
<1> HIDE DEF s
<1> QED
  BY <1>2, <1>3, RestageRetasks

LEMMA Typed ==
    ASSUME NEW e \in Team, NEW t \in Tasks, NEW j \in Stages
    PROVE  /\ e.tasks[t] \in Task /\ e.tasks[t].stages \in [Stages -> Stage]
           /\ e.tasks[t].stages[j] \in Stage
           /\ e.tasks[t].stages[j].pieces \in [Members -> Piece]
           /\ \A m \in Members : e.tasks[t].stages[j].pieces[m] \in Piece
<1>1. e.tasks[t] \in Task
  BY DEF Team
<1>2. e.tasks[t].stages \in [Stages -> Stage]
  BY <1>1 DEF Task
<1>3. e.tasks[t].stages[j] \in Stage
  BY <1>2
<1>4. e.tasks[t].stages[j].pieces \in [Members -> Piece]
  BY <1>3 DEF Stage
<1> QED
  BY <1>1, <1>2, <1>3, <1>4

LEMMA AnewIs ==
    ASSUME NEW p \in Piece
    PROVE  Anew(p) \in Piece /\ Anew(p).status = "pending" /\ Anew(p).batch = 0
           /\ Anew(p).clash = p.clash
  BY DEF Anew, Piece, PieceStatus, StageStatus

\* A piece that is done with, at a status.
Over(p, status) == [p EXCEPT !.status = status, !.batch = 0]

LEMMA OverIs ==
    ASSUME NEW p \in Piece, NEW status \in {"skipped", "failed"}
    PROVE  Over(p, status) \in Piece /\ Over(p, status).status = status /\ Over(p, status).batch = 0
           /\ Over(p, status).clash = p.clash
  BY DEF Over, Piece, PieceStatus, StageStatus

-----------------------------------------------------------------------------
(* Each operation keeps the tables what they are declared to be, and       *)
(* brings a task to work only when the others do not.                      *)

AtWork(k) == k.status = "running" \/ (k.status = "waiting" /\ k.why = "away")

\* The task comes to work only when no other of the tasks is.
Alone(e, k, t) ==
    AtWork(k) /\ ~AtWork(e.tasks[t]) /\ e.tasks[t].status # "waiting"
      => \A u \in Tasks \ {t} : ~AtWork(e.tasks[u])

StartAlone(e, f) ==
    \A t \in Tasks :
        AtWork(f.tasks[t]) /\ ~AtWork(e.tasks[t]) /\ e.tasks[t].status # "waiting"
          => \A u \in Tasks \ {t} : ~AtWork(f.tasks[u])

\* d is where the step of task t begins.
Outcome(e, f) == All(f) /\ StartAlone(e, f)

LEMMA OutcomeOf ==
    ASSUME NEW e, NEW d, NEW f, NEW t \in Tasks, Others(d, t), d.tasks = e.tasks,
           Kept(d, f, t), Alone(e, f.tasks[t], t)
    PROVE  Outcome(e, f)
<1>1. All(f)
  BY AllKept
<1>2. \A u \in Tasks \ {t} : f.tasks[u] = e.tasks[u]
  BY DEF Kept, Local, Slice
<1> QED
  BY <1>1, <1>2 DEF Outcome, StartAlone, Alone

LEMMA CalmAlone ==
    ASSUME NEW e, NEW t, NEW k, Calm(e.tasks[t], k)
    PROVE  Alone(e, k, t)
  BY DEF Alone, Calm, AtWork

LEMMA OutcomeCalm ==
    ASSUME NEW e, NEW f, NEW t \in Tasks, All(e), Calmly(e, f, t)
    PROVE  Outcome(e, f)
<1>1. Others(e, t)
  BY AllOthers
<1>2. Alone(e, f.tasks[t], t)
  BY CalmAlone DEF Calmly
<1> QED
  BY <1>1, <1>2, OutcomeOf DEF Calmly

LEMMA OutcomeWaiting ==
    ASSUME NEW e, NEW f, NEW t \in Tasks, All(e), Kept(e, f, t),
           \/ AtWork(e.tasks[t]) \/ e.tasks[t].status = "waiting" \/ ~AtWork(f.tasks[t])
    PROVE  Outcome(e, f)
<1>1. Others(e, t)
  BY AllOthers
<1> QED
  BY <1>1, OutcomeOf DEF Alone

\* The step is taken: what it leads to is the next state.
LEMMA Lands ==
    ASSUME NEW f, Becomes(f), Outcome(Now, f)
    PROVE  All(Now)' /\ StartAlone(Now, Now')
<1>1. /\ tasks' = f.tasks /\ planning' = f.planning /\ turns' = f.turns
      /\ launches' = f.launches /\ batches' = f.batches /\ waking' = f.waking
      /\ away' = f.away /\ idle' = f.idle
  BY DEF Becomes
<1>2. f \in Team
  BY DEF Outcome, All
<1>3. Now' \in Team
  BY <1>1, <1>2 DEF Now, Team
<1>4. Now'.tasks = f.tasks /\ Now'.launches = f.launches /\ Now'.batches = f.batches
  BY <1>1 DEF Now
<1>5. All(Now')
  BY <1>3, <1>4 DEF Outcome, All
<1>6. StartAlone(Now, Now')
  BY <1>4 DEF Outcome, StartAlone
<1> QED
  BY <1>5, <1>6

Proceeds == All(Now)' /\ StartAlone(Now, Now')

LEMMA NowIs ==
    ASSUME All(Now)
    PROVE  /\ Now \in Team
           /\ Now.tasks = tasks /\ Now.planning = planning /\ Now.turns = turns
           /\ Now.launches = launches /\ Now.batches = batches /\ Now.idle = idle
           /\ Now.away = away /\ Now.waking = waking
           /\ \A t \in Tasks : Fine(Now, t) /\ Others(Now, t)
           /\ \A t \in Tasks : tasks[t] \in Task /\ launches[t] \in Launch
           /\ batches \in Tables /\ turns \subseteq Tasks \X Stages /\ planning \subseteq Tasks
<1>1. Now \in Team
  BY DEF All
<1>2. /\ Now.tasks = tasks /\ Now.planning = planning /\ Now.turns = turns
      /\ Now.launches = launches /\ Now.batches = batches /\ Now.idle = idle
      /\ Now.away = away /\ Now.waking = waking
  BY DEF Now
<1>3. \A t \in Tasks : Fine(Now, t) /\ Others(Now, t)
  BY AllOthers
<1>4. /\ \A t \in Tasks : tasks[t] \in Task /\ launches[t] \in Launch
      /\ batches \in Tables /\ turns \subseteq Tasks \X Stages /\ planning \subseteq Tasks
  BY <1>1, <1>2 DEF Team
<1> QED
  BY <1>1, <1>2, <1>3, <1>4

LEMMA BatchChangesProceeds ==
    ASSUME All(Now), NEW b, NEW how \in Hows, BatchChanges(b, how)
    PROVE  Proceeds
<1> DEFINE o == batches[b]
           t == o.task
<1>1. b \in DOMAIN batches /\ o.state # "starting" /\ Becomes(Told(Now, b, how))
  BY DEF BatchChanges
<1>2. o \in Batch /\ t \in Tasks
  <2>1. batches \in [DOMAIN batches -> Batch]
    BY NowIs, TableIs
  <2>2. o \in Batch
    BY <1>1, <2>1
  <2> QED
    BY <2>2 DEF Batch
<1>3. Fine(Now, t) /\ Now.batches = batches
  BY <1>2, NowIs
<1>4. Calmly(Now, Told(Now, b, how), t)
  <2> HIDE DEF t
  <2>1. Now.batches[b].task = t /\ Now.batches[b].state # "starting" /\ b \in DOMAIN Now.batches
    BY <1>1, <1>3 DEF t
  <2> QED
    BY <1>2, <1>3, <2>1, ToldKept
<1> QED
  BY <1>1, <1>2, <1>4, OutcomeCalm, Lands DEF Proceeds

\* A commission that has been answered: the batch is made or is not, the piece has heard.
\* The next one follows.
LEMMA ToldInLaunch ==
    ASSUME NEW e \in Team, NEW t \in Tasks, NEW b \in DOMAIN e.batches, NEW how \in Hows,
           e.batches[b].task = t, e.launches[t] # NoLaunch
    PROVE  \E f : /\ Rebatched(e, f, Heard(e.batches, b, how))
                  /\ \/ /\ Deaf(e.tasks[t], e.batches[b], b)
                        /\ Told(e, b, how) = f
                     \/ /\ ~Deaf(e.tasks[t], e.batches[b], b)
                        /\ Retask(f, Told(e, b, how), t, Fold(e.tasks[t], e.batches[b], b, how))
<1> DEFINE o == e.batches[b]
<1>1. o \in Batch /\ b \in Nat
  BY TableIs DEF Team
<1>2. PICK f : Rebatched(e, f, Heard(e.batches, b, how)) /\ Told(e, b, how) = ApplyBatch(f, o, b, how)
  BY ToldIs
<1>3. CASE Deaf(f.tasks[t], o, b) /\ ApplyBatch(f, o, b, how) = f
  BY <1>2, <1>3 DEF Rebatched
<1>4. ASSUME ~Deaf(f.tasks[t], o, b), NEW g, Retask(f, g, t, Fold(f.tasks[t], o, b, how)),
             ApplyBatch(f, o, b, how) = IF o.stage = f.tasks[t].at THEN CheckStage(g, t) ELSE g
      PROVE  Retask(f, Told(e, b, how), t, Fold(e.tasks[t], o, b, how))
  <2>1. g.launches[t] # NoLaunch
    BY <1>2, <1>4 DEF Rebatched, Retask
  <2>2. CheckStage(g, t) = g
    BY <2>1 DEF CheckStage
  <2> QED
    BY <1>2, <1>4, <2>2 DEF Rebatched
<1>5. f \in Team /\ f.tasks = e.tasks
  BY <1>2 DEF Rebatched
<1> QED
  <2>1. \/ Deaf(f.tasks[t], o, b) /\ ApplyBatch(f, o, b, how) = f
        \/ /\ ~Deaf(f.tasks[t], o, b)
           /\ \E g : /\ Retask(f, g, t, Fold(f.tasks[t], o, b, how))
                     /\ ApplyBatch(f, o, b, how) =
                          IF o.stage = f.tasks[t].at THEN CheckStage(g, t) ELSE g
    BY <1>1, <1>5, ApplyBatchIs
  <2> HIDE DEF o
  <2> QED
    BY <1>2, <1>3, <1>4, <1>5, <2>1 DEF o

LEMMA HeldElsewhere ==
    ASSUME NEW B \in Tables, NEW b \in DOMAIN B, NEW how \in Hows, NEW u, NEW l, Held(u, l, B),
           B[b].task # u
    PROVE  Held(u, l, Heard(B, b, how))
<1> DEFINE C == Heard(B, b, how)
<1>1. /\ \A x \in DOMAIN C : /\ x \in DOMAIN B
                             /\ x # b => C[x] = B[x]
                             /\ x = b => C[b].task = B[b].task
      /\ \A x \in DOMAIN B \ {b} : x \in DOMAIN C
  BY HeardIs
<1> HIDE DEF C
<1>2. Held(u, l, C)
  BY <1>1 DEF Held
<1> QED
  BY <1>2 DEF C

LEMMA NoneStartingHeard ==
    ASSUME NEW B \in Tables, NEW b \in DOMAIN B, NEW how \in Hows, NEW t, NEW l, Held(t, l, B),
           l.batch = b
    PROVE  NoneStarting(t, Heard(B, b, how))
<1> DEFINE C == Heard(B, b, how)
<1>1. \A x \in DOMAIN C : /\ x \in DOMAIN B
                          /\ x # b => C[x] = B[x]
                          /\ x = b => how \in {"running", "paused"} /\ C[b].state = how
  BY HeardIs
<1> HIDE DEF C
<1>2. NoneStarting(t, C)
  BY <1>1 DEF Held, NoneStarting
<1> QED
  BY <1>2 DEF C

LEMMA CommissionReturnsProceeds ==
    ASSUME All(Now), NEW t \in Tasks, NEW how \in {"running", "failed"}, CommissionReturns(t, how)
    PROVE  Proceeds
<1> DEFINE l == launches[t]
           b == l.batch
           C == Heard(batches, b, how)
           told == Told(Now, b, how)
           kept == IF Unwanted(told, t, l.stage, l.member) THEN Cancelled(told, {b})
                   ELSE Persist(told, t)
           f == Commission(kept, t, l.stage, l.member)
<1>1. l.at = "commissioning" /\ Becomes(f)
  BY DEF CommissionReturns
<1>2. /\ Now \in Team /\ Fine(Now, t) /\ Others(Now, t) /\ Now.tasks = tasks
      /\ Now.launches = launches /\ Now.batches = batches /\ batches \in Tables
      /\ tasks[t] \in Task
  BY NowIs
<1>3. /\ l.stage \in Stages /\ l.member \in Members /\ b \in DOMAIN batches
      /\ batches[b] = Starting(t, l.stage, l.member)
      /\ Held(t, l, batches) /\ l # NoLaunch
  <2>1. Held(t, l, batches)
    BY <1>2 DEF Fine
  <2>2. l # NoLaunch
    BY <1>1 DEF NoLaunch
  <2>3. l.stage \in Stages /\ l.member \in Plan[l.stage].who
    BY <1>1, <2>1 DEF Held
  <2>4. b \in DOMAIN batches /\ batches[b] = Starting(t, l.stage, l.member)
    BY <1>1, <2>1 DEF Held, Starting
  <2> QED
    BY <2>1, <2>2, <2>3, <2>4, Sizes
<1>4. batches[b].task = t /\ how \in Hows
  BY <1>3 DEF Starting, Hows
<1>5. /\ told \in Team /\ told.tasks[t].status = tasks[t].status
      /\ told.tasks[t].why = tasks[t].why /\ told.tasks[t].at = tasks[t].at
      /\ \A u \in Tasks \ {t} : told.tasks[u] = tasks[u]
      /\ told.launches = launches /\ told.batches = C
  <2>1. PICK g : /\ Rebatched(Now, g, C)
                 /\ \/ told = g
                    \/ Retask(g, told, t, Fold(tasks[t], batches[b], b, how))
    <3> HIDE DEF b, told
    <3>1. b \in DOMAIN Now.batches /\ Now.batches[b].task = t /\ Now.launches[t] # NoLaunch
      BY <1>2, <1>3, <1>4
    <3>2. \E g : /\ Rebatched(Now, g, Heard(Now.batches, b, how))
                  /\ \/ /\ Deaf(Now.tasks[t], Now.batches[b], b)
                        /\ Told(Now, b, how) = g
                     \/ /\ ~Deaf(Now.tasks[t], Now.batches[b], b)
                        /\ Retask(g, Told(Now, b, how), t, Fold(Now.tasks[t], Now.batches[b], b, how))
      BY <1>2, <1>4, <3>1, ToldInLaunch
    <3> QED
      BY <1>2, <3>2 DEF told
  <2>2. CASE told = g
    BY <1>2, <2>1, <2>2 DEF Rebatched
  <2>3. CASE Retask(g, told, t, Fold(tasks[t], batches[b], b, how))
    <3>1. batches[b] \in Batch /\ b \in Nat
      BY <1>2, <1>3, TableIs
    <3>2. LET k == Fold(tasks[t], batches[b], b, how)
          IN  k.status = tasks[t].status /\ k.why = tasks[t].why /\ k.at = tasks[t].at
      BY <1>2, <1>4, <3>1, FoldIs
    <3> HIDE DEF told
    <3> QED
      BY <1>2, <2>1, <2>3, <3>2 DEF Rebatched, Retask
  <2> QED
    BY <2>1, <2>2, <2>3
<1>6. /\ kept \in Team /\ kept.tasks = told.tasks /\ kept.launches = launches
      /\ NoneStarting(t, kept.batches)
      /\ \A u \in Tasks \ {t} : Held(u, launches[u], kept.batches)
  <2>1. NoneStarting(t, C) /\ \A u \in Tasks \ {t} : Held(u, launches[u], C)
    <3>1. \A u \in Tasks \ {t} : Held(u, launches[u], batches)
      BY <1>2 DEF Others
    <3> HIDE DEF l, b
    <3>2. NoneStarting(t, Heard(batches, b, how))
      BY <1>2, <1>3, <1>4, NoneStartingHeard DEF b
    <3>3. \A u \in Tasks \ {t} : Held(u, launches[u], Heard(batches, b, how))
      BY <1>2, <1>3, <1>4, <3>1, HeldElsewhere
    <3> QED
      BY <3>2, <3>3
  <2> HIDE DEF told, C
  <2>2. CASE kept = Cancelled(told, {b})
    <3>1. Rebatched(told, kept, Without(told.batches, {x \in {b} : Abortable(told, x)}))
      BY <1>5, <2>2, CancelledIs
    <3>2. \A u \in Tasks \ {t} : Held(u, launches[u], kept.batches)
      BY <1>5, <2>1, <2>2, CancelledHeld
    <3>3. NoneStarting(t, kept.batches)
      <4>1. Held(t, NoLaunch, C)
        BY <2>1 DEF Held, NoneStarting, NoLaunch
      <4>2. Held(t, NoLaunch, kept.batches)
        BY <1>5, <2>2, <4>1, CancelledHeld
      <4> QED
        BY <4>2, NoneStartingWithout
    <3> QED
      BY <1>5, <3>1, <3>2, <3>3 DEF Rebatched
  <2>3. CASE kept = Persist(told, t)
    <3>1. Retask(told, kept, t, told.tasks[t])
      BY <1>5, <2>3, PersistKeeps
    <3>2. kept.tasks = told.tasks
      BY <1>5, <2>3 DEF Persist, Team
    <3> QED
      BY <1>5, <2>1, <3>1, <3>2 DEF Retask
  <2> QED
    BY <2>2, <2>3
<1>7. Calmly(kept, f, t)
  <2>1. Sited(kept.tasks[t])
    BY <1>2, <1>5, <1>6 DEF Fine, Sited
  <2>2. l.member \in Nat
    BY <1>3, Sizes
  <2> HIDE DEF kept
  <2> QED
    BY <1>3, <1>6, <2>1, <2>2, CommissionKept
<1>8. Others(kept, t)
  <2>1. \A u \in Tasks \ {t} : Sited(tasks[u])
    BY <1>2 DEF Others
  <2> HIDE DEF kept, told
  <2> QED
    BY <1>5, <1>6, <2>1 DEF Others
<1>9. All(f)
  <2> HIDE DEF kept, f
  <2> QED
    BY <1>7, <1>8, AllKept DEF Calmly
<1>10. StartAlone(Now, f)
  <2>1. Calm(tasks[t], f.tasks[t])
    BY <1>5, <1>6, <1>7 DEF Calmly, Calm
  <2>2. \A u \in Tasks \ {t} : f.tasks[u] = tasks[u]
    <3> HIDE DEF kept, told, f
    <3> QED
      BY <1>5, <1>6, <1>7 DEF Calmly, Kept, Local, Slice
  <2> HIDE DEF f
  <2> QED
    BY <1>2, <2>1, <2>2 DEF StartAlone, Calm, AtWork
<1> QED
  <2> HIDE DEF f
  <2> QED
    BY <1>1, <1>9, <1>10, Lands DEF Proceeds, Outcome

LEMMA NotHolding ==
    ASSUME All(Now), NEW t \in Tasks, launches[t].at # "commissioning"
    PROVE  NoneStarting(t, batches)
<1>1. Held(t, launches[t], batches)
  BY NowIs DEF Fine
<1> QED
  BY <1>1 DEF Held, NoneStarting

LEMMA RestoreReturnsProceeds ==
    ASSUME All(Now), NEW t \in Tasks, RestoreReturns(t)
    PROVE  Proceeds
<1> DEFINE l == launches[t]
           f == Commission(Now, t, l.stage, 0)
<1>1. l.at = "restoring" /\ Becomes(f)
  BY DEF RestoreReturns
<1>2. Now \in Team /\ Fine(Now, t) /\ Now.batches = batches /\ Now.launches = launches
  BY NowIs
<1>3. NoneStarting(t, Now.batches) /\ Sited(Now.tasks[t])
  BY <1>1, <1>2, NotHolding DEF Fine
<1>4. l.stage \in Stages
  BY <1>1, <1>2 DEF Fine, Held
<1>5. Calmly(Now, f, t)
  BY <1>2, <1>3, <1>4, CommissionKept
<1> QED
  BY <1>1, <1>5, OutcomeCalm, Lands DEF Proceeds

LEMMA CommissionRefusedProceeds ==
    ASSUME All(Now), NEW t \in Tasks, CommissionRefused(t)
    PROVE  Proceeds
<1> DEFINE l == launches[t]
           p == tasks[t].stages[l.stage].pieces[l.member]
           q == [p EXCEPT !.status = "failed"]
           failed == Persist(SetPiece(Now, t, l.stage, l.member, q), t)
           kept == IF Unwanted(Now, t, l.stage, l.member) THEN Now ELSE failed
           f == Commission(kept, t, l.stage, l.member)
<1>1. l.at = "refused" /\ Becomes(f)
  BY DEF CommissionRefused
<1>2. /\ Now \in Team /\ Fine(Now, t) /\ Now.batches = batches /\ Now.launches = launches
      /\ Now.tasks = tasks
  BY NowIs
<1>3. l.stage \in Stages /\ l.member \in Members /\ l.member \in Nat
  <2>1. l.stage \in Stages /\ l.member \in Plan[l.stage].who
    BY <1>1, <1>2 DEF Fine, Held
  <2> QED
    BY <2>1, Sizes
<1>4. NoneStarting(t, batches) /\ Sited(tasks[t])
  BY <1>1, <1>2, NotHolding DEF Fine
<1>5. q \in Piece /\ p \in Piece
  <2>1. p \in Piece
    BY <1>2, <1>3, Typed
  <2> QED
    BY <2>1 DEF Piece, PieceStatus, StageStatus
<1>6. Retask(Now, failed, t, Pieced(tasks[t], l.stage, l.member, q))
  <2>1. Retask(Now, SetPiece(Now, t, l.stage, l.member, q), t, Pieced(tasks[t], l.stage, l.member, q))
    BY <1>2, <1>3, <1>5, SetPieceRetasks, ZenonT(60) DEF Pieced
  <2> HIDE DEF q
  <2> QED
    BY <2>1, RetaskPersist
<1>7. LET k == Pieced(tasks[t], l.stage, l.member, q)
      IN  k.status = tasks[t].status /\ k.why = tasks[t].why /\ k.at = tasks[t].at
  <2>1. tasks[t] \in Task
    BY NowIs
  <2> HIDE DEF q, l
  <2> QED
    BY <1>3, <1>5, <2>1, PiecedIs
<1>8. /\ kept \in Team /\ kept.batches = batches /\ Calmly(Now, kept, t)
      /\ Sited(kept.tasks[t])
  <2>1. CASE kept = Now
    BY <1>2, <1>4, <2>1, CalmlySame
  <2>2. CASE kept = failed
    <3> HIDE DEF failed, q
    <3>1. Sited(failed.tasks[t]) /\ Calm(tasks[t], failed.tasks[t])
      BY <1>4, <1>6, <1>7 DEF Sited, Calm, Retask
    <3>2. Kept(Now, failed, t)
      BY <1>2, <1>6, <3>1, RetaskKept DEF Retask
    <3> QED
      BY <1>2, <1>6, <2>2, <3>1, <3>2 DEF Retask, Calmly
  <2> QED
    BY <2>1, <2>2
<1>9. Calmly(Now, f, t)
  <2> HIDE DEF kept
  <2>1. Calmly(kept, f, t)
    BY <1>3, <1>4, <1>8, CommissionKept
  <2> QED
    BY <1>8, <2>1, CalmlyTrans
<1> QED
  <2> HIDE DEF f
  <2> QED
    BY <1>1, <1>9, OutcomeCalm, Lands DEF Proceeds

LEMMA CommissionRejectsProceeds ==
    ASSUME All(Now), NEW t \in Tasks, CommissionRejects(t)
    PROVE  Proceeds
<1> DEFINE l == launches[t]
           B == Without(batches, {l.batch})
           q == [tasks[t].stages[l.stage].pieces[l.member] EXCEPT !.batch = 0]
           lost == SetPiece(Now, t, l.stage, l.member, q)
           f == [lost EXCEPT !.launches[t] = NoLaunch, !.batches = Without(@, {l.batch})]
           k == Pieced(tasks[t], l.stage, l.member, q)
<1>1. l.at = "commissioning" /\ Becomes(f)
  BY DEF CommissionRejects
<1>2. /\ Now \in Team /\ Fine(Now, t) /\ Now.batches = batches /\ Now.launches = launches
      /\ Now.tasks = tasks /\ batches \in Tables /\ tasks[t] \in Task
  BY NowIs
<1>3. /\ l.stage \in Stages /\ l.member \in Members /\ l.batch \in DOMAIN batches
      /\ batches[l.batch].task = t
      /\ \A b \in DOMAIN batches : batches[b].task = t /\ batches[b].state = "starting" => b = l.batch
  <2>1. /\ l.stage \in Stages /\ l.member \in Plan[l.stage].who /\ l.batch \in DOMAIN batches
        /\ batches[l.batch] = Starting(t, l.stage, l.member)
        /\ \A b \in DOMAIN batches : batches[b].task = t /\ batches[b].state = "starting" => b = l.batch
    BY <1>1, <1>2 DEF Fine, Held, Starting
  <2> QED
    BY <2>1, Sizes DEF Starting
<1>4. q \in Piece
  <2>1. tasks[t].stages[l.stage].pieces[l.member] \in Piece
    BY <1>2, <1>3, Typed
  <2> QED
    BY <2>1 DEF Piece
<1>5. Retask(Now, lost, t, k)
  BY <1>2, <1>3, <1>4, SetPieceRetasks, ZenonT(60) DEF Pieced
<1>6. k.status = tasks[t].status /\ k.why = tasks[t].why /\ k.at = tasks[t].at
  <2> HIDE DEF q, l
  <2> QED
    BY <1>2, <1>3, <1>4, PiecedIs
<1>7. /\ B \in Tables /\ DOMAIN B = DOMAIN batches \ {l.batch}
      /\ \A x \in DOMAIN batches \ {l.batch} : B[x] = batches[x]
  <2> HIDE DEF l
  <2> QED
    BY <1>2, WithoutIs
<1>8. NoneStarting(t, B)
  <2> HIDE DEF B, l
  <2> QED
    BY <1>3, <1>7 DEF NoneStarting
<1>9. \A u \in Tasks \ {t} : Going(B, u) = Going(batches, u)
  <2> HIDE DEF B, l
  <2> TAKE u \in Tasks \ {t}
  <2>1. \A b : b \in DOMAIN B /\ B[b].task = u <=> b \in DOMAIN batches /\ batches[b].task = u
    BY <1>3, <1>7
  <2>2. \A b \in DOMAIN batches : batches[b].task = u => B[b] = batches[b]
    BY <1>3, <1>7
  <2> QED
    BY <2>1, <2>2, GoingElsewhere
<1>10. Moved(Now, f, t, k, NoLaunch, B)
  <2>1. NoLaunch \in Launch
    BY DEF NoLaunch, Launch
  <2>2. /\ lost \in Team /\ lost.batches = batches /\ lost.launches = launches
        /\ lost.turns = Now.turns /\ lost.tasks[t] = k
        /\ \A u \in Tasks \ {t} : lost.tasks[u] = tasks[u]
    <3> HIDE DEF lost, k
    <3> QED
      BY <1>2, <1>5 DEF Retask
  <2>3. f = [lost EXCEPT !.launches[t] = NoLaunch, !.batches = B]
    <3> HIDE DEF lost
    <3> QED
      BY <2>2
  <2> HIDE DEF lost, k, q, B, f
  <2> QED
    BY <1>2, <1>7, <2>1, <2>2, <2>3 DEF Moved, Team
<1>11. Held(t, NoLaunch, B) /\ Sited(k) /\ Calm(Now.tasks[t], k)
  <2>1. Held(t, NoLaunch, B)
    BY <1>8, HeldIdle
  <2> HIDE DEF k, q
  <2> QED
    BY <1>2, <1>6, <2>1 DEF Sited, Calm, Fine
<1>12. Calmly(Now, f, t)
  <2> HIDE DEF f, k, B
  <2> QED
    BY <1>2, <1>9, <1>10, <1>11, MovedKept
<1> QED
  <2> HIDE DEF f
  <2> QED
    BY <1>1, <1>12, OutcomeCalm, Lands DEF Proceeds

LEMMA LaunchOver ==
    ASSUME All(Now), NEW t \in Tasks, launches[t].at # "commissioning"
    PROVE  LET over == [Now EXCEPT !.launches[t] = NoLaunch]
           IN  Calmly(Now, over, t) /\ Moved(Now, over, t, tasks[t], NoLaunch, batches)
<1> DEFINE over == [Now EXCEPT !.launches[t] = NoLaunch]
<1>1. Now \in Team /\ Fine(Now, t) /\ Now.batches = batches /\ Now.tasks = tasks
  BY NowIs
<1>2. NoLaunch \in Launch
  BY DEF NoLaunch, Launch
<1>3. Moved(Now, over, t, tasks[t], NoLaunch, batches)
  BY <1>1, <1>2 DEF Moved, Team
<1>4. Held(t, NoLaunch, batches)
  BY NotHolding, HeldIdle
<1>5. Calm(tasks[t], tasks[t]) /\ Sited(tasks[t])
  BY <1>1 DEF Calm, Fine
<1>6. Calmly(Now, over, t)
  <2> HIDE DEF over
  <2> QED
    BY <1>1, <1>3, <1>4, <1>5, MovedKept
<1> QED
  BY <1>3, <1>6

LEMMA LaunchEndsProceeds ==
    ASSUME All(Now), NEW t \in Tasks, LaunchEnds(t)
    PROVE  Proceeds
<1> DEFINE over == [Now EXCEPT !.launches[t] = NoLaunch]
           f == IF tasks[t].at # launches[t].stage THEN Advance(over, t) ELSE CheckStage(over, t)
<1>1. launches[t].at = "ending" /\ Becomes(f)
  BY DEF LaunchEnds
<1>2. Calmly(Now, over, t)
  BY <1>1, LaunchOver
<1>3. Calmly(over, f, t)
  <2> HIDE DEF over
  <2> QED
    BY <1>2, AdvanceKept, CheckStageKept DEF Calmly, Kept
<1>4. Calmly(Now, f, t)
  <2> HIDE DEF over, f
  <2> QED
    BY <1>2, <1>3, CalmlyTrans
<1> QED
  <2> HIDE DEF f
  <2> QED
    BY <1>1, <1>4, OutcomeCalm, Lands DEF Proceeds

LEMMA TurnReturnsProceeds ==
    ASSUME All(Now), NEW t \in Tasks, NEW j \in Stages, NEW ok \in BOOLEAN, TurnReturns(t, j, ok)
    PROVE  Proceeds
<1> DEFINE over == [Now EXCEPT !.turns = @ \ {<<t, j>>}]
           marked == [over EXCEPT !.tasks[t].stages[j].status = "done", !.tasks[t].at = j + 1]
           done == Persist(marked, t)
           lost == [over EXCEPT !.tasks[t].stages[j].status = "failed"]
           failed == Wait(lost, t, "failed")
           f == IF tasks[t].status # "running" \/ tasks[t].at # j THEN over
                ELSE IF ok THEN Advance(done, t) ELSE failed
<1>1. Becomes(f)
  BY DEF TurnReturns
<1>2. Now \in Team /\ Fine(Now, t) /\ Now.batches = batches /\ Now.tasks = tasks /\ tasks[t] \in Task
  BY NowIs
<1>3. Turning(Now, over, t, tasks[t], Now.turns \ {<<t, j>>})
  BY <1>2 DEF Turning, Team
<1>4. Calmly(Now, over, t) /\ over \in Team /\ Fine(over, t)
  <2>1. \A u \in Tasks \ {t}, i \in Stages :
           <<u, i>> \in Now.turns \ {<<t, j>>} <=> <<u, i>> \in Now.turns
    OBVIOUS
  <2> HIDE DEF over
  <2>2. Kept(Now, over, t)
    BY <1>2, <1>3, <2>1, TurningKept DEF Fine
  <2> QED
    BY <1>2, <1>3, <2>2 DEF Calmly, Turning, Calm, Kept
<1>5. {"done", "failed"} \subseteq StageStatus
  BY DEF StageStatus
<1>6. ASSUME tasks[t].status = "running", tasks[t].at = j
      PROVE  Calmly(Now, Advance(done, t), t)
  <2>1. Retask(over, marked, t, Sent(Marked(tasks[t], j, "done"), j + 1))
    <3> HIDE DEF over
    <3> QED
      BY <1>3, <1>4, <1>5, SendMarkRetasks DEF Turning
  <2>2. Retask(over, done, t, Sent(Marked(tasks[t], j, "done"), j + 1))
    <3> HIDE DEF over, marked
    <3> QED
      BY <2>1, RetaskPersist
  <2>3. Sited(Sent(Marked(tasks[t], j, "done"), j + 1))
    <3>1. j + 1 \in 1..(Len(Plan) + 1)
      BY Sizes
    <3>2. Marked(tasks[t], j, "done") \in Task /\ Marked(tasks[t], j, "done").status = "running"
      BY <1>2, <1>5, <1>6, MarkedIs
    <3> QED
      BY <3>1, <3>2, SentIs DEF Sited
  <2>4. Kept(over, done, t)
    <3> HIDE DEF over, done
    <3> QED
      BY <1>4, <2>2, <2>3, RetaskKept
  <2>5. Kept(done, Advance(done, t), t)
    <3> HIDE DEF done
    <3> QED
      BY <2>4, AdvanceKept DEF Kept, Calmly
  <2>6. Kept(Now, Advance(done, t), t)
    <3> HIDE DEF done, over
    <3> QED
      BY <1>4, <2>4, <2>5, KeptTrans DEF Calmly
  <2> QED
    BY <1>2, <1>6, <2>6 DEF Calmly, Calm
<1>7. ASSUME tasks[t].status = "running", tasks[t].at = j
      PROVE  Calmly(Now, failed, t)
  <2>1. Retask(over, lost, t, Marked(tasks[t], j, "failed"))
    <3> HIDE DEF over
    <3> QED
      BY <1>3, <1>4, <1>5, MarkRetasks DEF Turning
  <2>2. Marked(tasks[t], j, "failed").status = "running" /\ Marked(tasks[t], j, "failed").at = j
    BY <1>2, <1>5, <1>7, MarkedIs
  <2>3. Kept(over, lost, t) /\ lost.tasks[t].at = j
    <3> HIDE DEF over, lost
    <3> QED
      BY <1>4, <2>1, <2>2, RetaskKept DEF Sited, Retask
  <2>4. Kept(lost, failed, t)
    <3>1. "waiting" \in TaskStatus /\ "failed" \in Whys
      BY DEF TaskStatus, Whys
    <3> HIDE DEF lost
    <3> QED
      BY <2>3, <3>1, GoesKept DEF Kept, Wait
  <2>5. Kept(Now, failed, t)
    <3> HIDE DEF over, failed, lost
    <3> QED
      BY <1>4, <2>3, <2>4, KeptTrans DEF Calmly
  <2> QED
    BY <1>2, <1>7, <2>5 DEF Calmly, Calm
<1>8. Calmly(Now, f, t)
  <2> HIDE DEF over, done, failed
  <2> QED
    BY <1>4, <1>6, <1>7
<1> QED
  <2> HIDE DEF f
  <2> QED
    BY <1>1, <1>8, OutcomeCalm, Lands DEF Proceeds

\* Only what no task is told by changes.
Same(e, f) ==
    /\ f \in Team
    /\ f.tasks = e.tasks /\ f.launches = e.launches /\ f.turns = e.turns /\ f.batches = e.batches

LEMMA SameKept ==
    ASSUME NEW e, NEW f, NEW t, Same(e, f), Fine(e, t)
    PROVE  Calmly(e, f, t)
<1>1. Local(e, f, t)
  BY LocalIs DEF Same
<1> QED
  BY <1>1 DEF Same, Calmly, Kept, Fine, Calm

LEMMA SameAll ==
    ASSUME NEW e, NEW f, Same(e, f), All(e)
    PROVE  All(f)
  BY DEF Same, All

LEMMA PlansSame ==
    ASSUME NEW e \in Team, NEW t \in Tasks
    PROVE  Same(e, Plans(e, t))
  BY DEF Same, Plans, Team

\* A task that goes to a status which is not work, after changes of its own.
LEMMA GoesOutcome ==
    ASSUME All(Now), NEW f, NEW t \in Tasks, NEW k, Retask(Now, f, t, k), Sited(k),
           NEW status \in TaskStatus \ {"running", "waiting"}
    PROVE  /\ Outcome(Now, Goes(f, t, status, "none"))
           /\ Outcome(Now, Plans(Goes(f, t, status, "none"), t))
<1> DEFINE g == Goes(f, t, status, "none")
           h == Plans(g, t)
<1>1. Fine(Now, t) /\ "none" \in Whys
  BY NowIs DEF Whys
<1>2. Kept(Now, f, t)
  BY <1>1, RetaskKept
<1>3. Kept(f, g, t) /\ g.tasks[t].status = status
  BY <1>1, <1>2, GoesKept DEF Kept
<1>4. Kept(Now, g, t)
  <2> HIDE DEF g
  <2> QED
    BY <1>2, <1>3, KeptTrans
<1>5. Kept(Now, h, t) /\ h.tasks[t].status = status
  <2> HIDE DEF g
  <2>1. Same(g, h)
    BY <1>3, PlansSame DEF Kept, Fine
  <2>2. Kept(g, h, t)
    BY <1>3, <2>1, SameKept DEF Kept, Calmly
  <2> QED
    BY <1>3, <1>4, <2>1, <2>2, KeptTrans DEF Same
<1> HIDE DEF g, h
<1>6. Outcome(Now, g)
  BY <1>3, <1>4, OutcomeWaiting DEF AtWork
<1>7. Outcome(Now, h)
  BY <1>5, OutcomeWaiting DEF AtWork
<1> QED
  BY <1>6, <1>7 DEF g, h

LEMMA Itself ==
    ASSUME All(Now), NEW t \in Tasks
    PROVE  Retask(Now, Now, t, tasks[t]) /\ Sited(tasks[t])
  BY NowIs DEF Retask, Fine

LEMMA NewPieces ==
    /\ NewPiece \in Piece
    /\ Planned \in [Stages -> Stage]
    /\ \A j \in Stages : /\ Planned[j].status = "pending"
                         /\ \A m \in Members : Planned[j].pieces[m] = NewPiece
<1>1. NewPiece \in Piece
  BY DEF NewPiece, Piece, PieceStatus, StageStatus
<1>2. "pending" \in StageStatus
  BY DEF StageStatus
<1> QED
  BY <1>1, <1>2 DEF Planned, Stage

Replanned(k) == [k EXCEPT !.stages = Planned, !.planned = TRUE, !.at = 1]

LEMMA ReplannedIs ==
    ASSUME NEW k \in Task
    PROVE  /\ Replanned(k) \in Task /\ Replanned(k).stages = Planned /\ Replanned(k).at = 1
           /\ Replanned(k).status = k.status /\ Replanned(k).why = k.why
           /\ Replanned(k).resumes = k.resumes
<1>1. 1 \in 1..(Len(Plan) + 1)
  BY Sizes
<1> QED
  BY <1>1, NewPieces DEF Replanned, Task

\* What a reply leads to.
Replied(e, t, reply) ==
    LET plan == [e EXCEPT !.tasks[t].stages = Planned, !.tasks[t].planned = TRUE,
                          !.tasks[t].at = 1]
    IN  IF e.tasks[t].status # "planning" THEN e
        ELSE CASE reply = "plan"      -> Goes(plan, t, "proposed", "none")
               [] reply = "questions" -> Goes(e, t, "questions", "none")
               [] reply = "answer"    -> Goes(e, t, "done", "none")
               [] reply = "error"     -> Goes(e, t, "failed", "none")

LEMMA ReplanRetasks ==
    ASSUME NEW e \in Team, NEW t \in Tasks
    PROVE  Retask(e, [e EXCEPT !.tasks[t].stages = Planned, !.tasks[t].planned = TRUE,
                               !.tasks[t].at = 1], t, Replanned(e.tasks[t]))
<1> DEFINE k == Replanned(e.tasks[t])
<1>1. k \in Task
  BY ReplannedIs DEF Team
<1>2. [e EXCEPT !.tasks[t].stages = Planned, !.tasks[t].planned = TRUE, !.tasks[t].at = 1]
        = [e EXCEPT !.tasks[t] = k]
  BY DEF Replanned, Team
<1> SUFFICES Retask(e, [e EXCEPT !.tasks[t] = k], t, k)
  BY <1>2
<1> HIDE DEF k
<1> QED
  BY <1>1, PutIs

LEMMA PlanReturnsProceeds ==
    ASSUME All(Now), NEW t \in Tasks, NEW reply \in {"plan", "questions", "answer", "error"},
           PlanReturns(t, reply)
    PROVE  Proceeds
<1> DEFINE over == [Now EXCEPT !.planning = @ \ {t}]
           f == Replied(over, t, reply)
<1>1. Becomes(f)
  <2>1. over.tasks = tasks
    BY NowIs DEF Team
  <2>2. Becomes(IF tasks[t].status # "planning" THEN over
                ELSE CASE reply = "plan"      -> Goes([over EXCEPT !.tasks[t].stages = Planned, !.tasks[t].planned = TRUE,
                             !.tasks[t].at = 1], t, "proposed", "none")
                          [] reply = "questions" -> Goes(over, t, "questions", "none")
                          [] reply = "answer"    -> Goes(over, t, "done", "none")
                          [] reply = "error"     -> Goes(over, t, "failed", "none"))
    BY DEF PlanReturns
  <2> HIDE DEF over
  <2> QED
    BY <2>1, <2>2 DEF Replied
<1>2. Same(Now, over)
  BY NowIs DEF Same, Team
<1> HIDE DEF over
<1>3. Fine(Now, t) /\ Now.tasks = tasks /\ Sited(tasks[t])
  BY NowIs DEF Fine
<1>4. Calmly(Now, over, t) /\ over \in Team /\ over.tasks = tasks
  BY <1>2, <1>3, SameKept DEF Same
<1>5. ASSUME NEW g, NEW k, Retask(over, g, t, k), Sited(k),
             NEW status \in TaskStatus \ {"running", "waiting"},
             f = Goes(g, t, status, "none")
      PROVE  Outcome(Now, f)
  <2>1. Kept(over, g, t)
    BY <1>4, <1>5, RetaskKept DEF Calmly, Kept
  <2>2. Kept(g, f, t) /\ f.tasks[t].status = status
    <3>1. "none" \in Whys
      BY DEF Whys
    <3> QED
      BY <1>5, <2>1, <3>1, GoesKept DEF Kept
  <2> HIDE DEF f
  <2>3. Kept(Now, f, t)
    BY <1>4, <2>1, <2>2, KeptTrans DEF Calmly
  <2> QED
    BY <2>2, <2>3, OutcomeWaiting DEF AtWork
<1>6. Retask(over, over, t, tasks[t])
  BY <1>4 DEF Retask
<1>7. Outcome(Now, f)
  <2>1. CASE tasks[t].status # "planning"
    <3>1. f = over
      BY <1>4, <2>1 DEF Replied
    <3> QED
      BY <1>4, <3>1, OutcomeCalm
  <2>2. CASE tasks[t].status = "planning" /\ reply = "plan"
    <3> DEFINE plan == [over EXCEPT !.tasks[t].stages = Planned, !.tasks[t].planned = TRUE,
                                    !.tasks[t].at = 1]
    <3>1. f = Goes(plan, t, "proposed", "none")
      BY <1>4, <2>2 DEF Replied
    <3>2. Retask(over, plan, t, Replanned(tasks[t]))
      BY <1>4, ReplanRetasks
    <3>3. Sited(Replanned(tasks[t]))
      BY <2>2, ReplannedIs, NowIs DEF Sited
    <3>4. "proposed" \in TaskStatus \ {"running", "waiting"}
      BY DEF TaskStatus
    <3> HIDE DEF plan, f
    <3> QED
      BY <1>5, <3>1, <3>2, <3>3, <3>4
  <2>3. CASE tasks[t].status = "planning" /\ reply = "questions"
    <3>1. f = Goes(over, t, "questions", "none") /\ "questions" \in TaskStatus \ {"running", "waiting"}
      BY <1>4, <2>3 DEF Replied, TaskStatus
    <3> HIDE DEF f
    <3> QED
      BY <1>3, <1>5, <1>6, <3>1
  <2>4. CASE tasks[t].status = "planning" /\ reply = "answer"
    <3>1. f = Goes(over, t, "done", "none") /\ "done" \in TaskStatus \ {"running", "waiting"}
      BY <1>4, <2>4 DEF Replied, TaskStatus
    <3> HIDE DEF f
    <3> QED
      BY <1>3, <1>5, <1>6, <3>1
  <2>5. CASE tasks[t].status = "planning" /\ reply = "error"
    <3>1. f = Goes(over, t, "failed", "none") /\ "failed" \in TaskStatus \ {"running", "waiting"}
      BY <1>4, <2>5 DEF Replied, TaskStatus
    <3> HIDE DEF f
    <3> QED
      BY <1>3, <1>5, <1>6, <3>1
  <2> QED
    BY <2>1, <2>2, <2>3, <2>4, <2>5
<1> QED
  BY <1>1, <1>7, Lands DEF Proceeds

LEMMA BriefProceeds ==
    ASSUME All(Now), NEW t \in Tasks, Brief(t)
    PROVE  Proceeds
<1> DEFINE f == Goes(Now, t, "queued", "none")
           g == Plans(Goes(Now, t, "planning", "none"), t)
<1>1. Becomes(f) \/ Becomes(g)
  BY DEF Brief
<1>2. {"queued", "planning"} \subseteq TaskStatus \ {"running", "waiting"}
  BY DEF TaskStatus
<1>3. Outcome(Now, f) /\ Outcome(Now, g)
  BY <1>2, Itself, GoesOutcome
<1> HIDE DEF f, g
<1> QED
  BY <1>1, <1>3, Lands DEF Proceeds

LEMMA AskAgainProceeds ==
    ASSUME All(Now), NEW t \in Tasks, NEW said \in {"answers", "feedback"},
           Becomes(AskAgain(Now, t, said)), tasks[t].status # "waiting"
    PROVE  Proceeds
<1> DEFINE k == [tasks[t] EXCEPT !.said = said]
           g == [Now EXCEPT !.tasks[t].said = said]
           f == Plans(Goes(g, t, "planning", "none"), t)
<1>1. Becomes(f)
  BY DEF AskAgain
<1>2. Now \in Team /\ tasks[t] \in Task /\ Now.tasks = tasks
  BY NowIs
<1>3. k \in Task /\ k.status = tasks[t].status
  BY <1>2 DEF Task
<1>4. Retask(Now, g, t, k)
  <2>1. g = [Now EXCEPT !.tasks[t] = k]
    BY <1>2
  <2> HIDE DEF k, g
  <2> QED
    BY <1>2, <1>3, <2>1, PutIs
<1>5. "planning" \in TaskStatus \ {"running", "waiting"}
  BY DEF TaskStatus
<1>6. Sited(k)
  BY <1>3 DEF Sited
<1> HIDE DEF g, k
<1>7. Outcome(Now, f)
  BY <1>4, <1>5, <1>6, GoesOutcome
<1> HIDE DEF f
<1> QED
  BY <1>1, <1>7, Lands DEF Proceeds

LEMMA AnswerProceeds ==
    ASSUME All(Now), NEW t \in Tasks, Answer(t) \/ Revise(t)
    PROVE  Proceeds
  BY AskAgainProceeds DEF Answer, Revise

LEMMA RetryPlanProceeds ==
    ASSUME All(Now), NEW t \in Tasks, RetryPlan(t)
    PROVE  Proceeds
<1> DEFINE f == Plans(Goes(Now, t, "planning", "none"), t)
<1>1. Becomes(f)
  BY DEF RetryPlan
<1>2. "planning" \in TaskStatus \ {"running", "waiting"}
  BY DEF TaskStatus
<1>3. Outcome(Now, f)
  BY <1>2, Itself, GoesOutcome
<1> HIDE DEF f
<1> QED
  BY <1>1, <1>3, Lands DEF Proceeds

LEMMA AcceptProceeds ==
    ASSUME All(Now), NEW t \in Tasks, Accept(t)
    PROVE  Proceeds
<1> DEFINE f == Goes(Now, t, "done", "none")
<1>1. Becomes(f)
  BY DEF Accept
<1>2. "done" \in TaskStatus \ {"running", "waiting"}
  BY DEF TaskStatus
<1>3. Outcome(Now, f)
  BY <1>2, Itself, GoesOutcome
<1> HIDE DEF f
<1> QED
  BY <1>1, <1>3, Lands DEF Proceeds

\* A task that goes to running, after changes of its own, and on.
LEMMA CarryOnKept ==
    ASSUME NEW e, NEW t \in Tasks, e \in Team, Held(t, e.launches[t], e.batches)
    PROVE  /\ Fine(Goes(e, t, "running", "none"), t)
           /\ Local(e, Goes(e, t, "running", "none"), t)
           /\ Fine(CarryOn(e, t), t) /\ Local(e, CarryOn(e, t), t)
<1> DEFINE g == Goes(e, t, "running", "none")
           k == Turned(e.tasks[t], "running", "none")
<1>1. "running" \in TaskStatus /\ "none" \in Whys /\ e.tasks[t] \in Task
  BY DEF TaskStatus, Whys, Team
<1>2. Retask(e, g, t, k)
  BY <1>1, GoesRetasks
<1>3. k.status = "running"
  BY <1>1, TurnedIs
<1> HIDE DEF k
<1>4. Fine(g, t) /\ Local(e, g, t)
  <2> HIDE DEF g
  <2> QED
    BY <1>2, <1>3, RetaskLocal DEF Fine, Retask, Sited
<1>5. Kept(g, Advance(g, t), t)
  <2> HIDE DEF g
  <2> QED
    BY <1>4, AdvanceKept DEF Calmly
<1> HIDE DEF g
<1>6. Fine(Advance(g, t), t) /\ Local(e, Advance(g, t), t)
  BY <1>4, <1>5, LocalTrans DEF Kept
<1> QED
  BY <1>4, <1>6 DEF CarryOn, g

LEMMA StartApprovedKept ==
    ASSUME NEW e, NEW t \in Tasks, e \in Team, Held(t, e.launches[t], e.batches)
    PROVE  Fine(StartApproved(e, t), t) /\ Local(e, StartApproved(e, t), t)
<1> DEFINE d == [e EXCEPT !.tasks[t].at = 1]
<1>1. Retask(e, d, t, Sent(e.tasks[t], 1))
  <2>1. 1 \in 1..(Len(Plan) + 1)
    BY Sizes
  <2> QED
    BY <2>1, SendRetasks
<1>2. StartApproved(e, t) = CarryOn(d, t)
  BY DEF StartApproved, CarryOn
<1> HIDE DEF d
<1>3. d \in Team /\ Held(t, d.launches[t], d.batches) /\ Local(e, d, t)
  BY <1>1, RetaskLocal DEF Retask
<1>4. Fine(CarryOn(d, t), t) /\ Local(d, CarryOn(d, t), t)
  BY <1>3, CarryOnKept
<1> QED
  BY <1>2, <1>3, <1>4, LocalTrans

LEMMA OutcomeAlone ==
    ASSUME All(Now), NEW f, NEW t \in Tasks, Fine(f, t), Local(Now, f, t),
           \/ tasks[t].status \in {"running", "waiting"}
           \/ \A u \in Tasks \ {t} : ~AtWork(tasks[u])
    PROVE  Outcome(Now, f)
<1>1. Kept(Now, f, t) /\ Others(Now, t) /\ Now.tasks = tasks
  BY NowIs DEF Kept
<1>2. Alone(Now, f.tasks[t], t)
  BY <1>1 DEF Alone, AtWork
<1> QED
  BY <1>1, <1>2, OutcomeOf

LEMMA QueuedKept ==
    ASSUME NEW e, NEW t \in Tasks, NEW resumes \in {"approved", "carryOn"}, e \in Team,
           Held(t, e.launches[t], e.batches)
    PROVE  /\ Fine(Queued(e, t, resumes), t) /\ Local(e, Queued(e, t, resumes), t)
           /\ Queued(e, t, resumes).tasks[t].status = "queued"
<1> DEFINE k == [e.tasks[t] EXCEPT !.resumes = resumes]
           g == [e EXCEPT !.tasks[t].resumes = resumes]
           n == Turned(k, "queued", "none")
           f == Goes(g, t, "queued", "none")
<1>1. e.tasks[t] \in Task
  BY DEF Team
<1>2. k \in Task
  BY <1>1 DEF Task
<1>3. Retask(e, g, t, k)
  <2>1. g = [e EXCEPT !.tasks[t] = k]
    OBVIOUS
  <2> HIDE DEF k, g
  <2> QED
    BY <1>2, <2>1, PutIs
<1>4. "queued" \in TaskStatus /\ "none" \in Whys
  BY DEF TaskStatus, Whys
<1> HIDE DEF g, k
<1>5. Retask(g, f, t, n)
  <2>1. g \in Team /\ g.tasks[t] = k
    BY <1>3 DEF Retask
  <2> QED
    BY <1>4, <2>1, GoesRetasks
<1>6. n.status = "queued"
  BY <1>2, <1>4, TurnedIs
<1> HIDE DEF n
<1>7. Retask(e, f, t, n)
  <2> HIDE DEF f
  <2> QED
    BY <1>3, <1>5, RetaskTrans
<1>8. Queued(e, t, resumes) = f
  BY DEF Queued, g
<1> HIDE DEF f
<1> QED
  BY <1>6, <1>7, <1>8, RetaskLocal DEF Fine, Retask, Sited

LEMMA ApproveProceeds ==
    ASSUME All(Now), NEW t \in Tasks, Approve(t)
    PROVE  Proceeds
<1>1. Now \in Team /\ Held(t, Now.launches[t], Now.batches) /\ Now.tasks = tasks
  BY NowIs DEF Fine
<1>2. tasks[t].status = "proposed"
  BY DEF Approve
<1>3. CASE TeamAtWork(Now, t)
  <2>1. Becomes(Queued(Now, t, "approved"))
    BY <1>3 DEF Approve
  <2> DEFINE f == Queued(Now, t, "approved")
  <2>2. Fine(f, t) /\ Local(Now, f, t) /\ f.tasks[t].status = "queued"
    BY <1>1, QueuedKept
  <2> HIDE DEF f
  <2>3. Outcome(Now, f)
    BY <2>2, OutcomeWaiting DEF AtWork, Kept
  <2> QED
    BY <2>1, <2>3, Lands DEF Proceeds, f
<1>4. CASE ~TeamAtWork(Now, t)
  <2>1. Becomes(StartApproved(Now, t))
    BY <1>4 DEF Approve
  <2> DEFINE f == StartApproved(Now, t)
  <2>2. Fine(f, t) /\ Local(Now, f, t)
    BY <1>1, StartApprovedKept
  <2>3. \A u \in Tasks \ {t} : ~AtWork(tasks[u])
    BY <1>1, <1>4 DEF TeamAtWork, BlocksNewTask, AtWork
  <2> HIDE DEF f
  <2>4. Outcome(Now, f)
    BY <2>2, <2>3, OutcomeAlone
  <2> QED
    BY <2>1, <2>4, Lands DEF Proceeds, f
<1> QED
  BY <1>3, <1>4

-----------------------------------------------------------------------------
(* A gate opened, a stage passed.                                          *)

Unclash(ps) == [m \in Members |-> [ps[m] EXCEPT !.clash = FALSE]]
Passed(k, j, status) == Sent(Marked(k, j, status), j + 1)

\* The stage is as it was, and so is the place.
Cleared(k, n) ==
    /\ n \in Task /\ n.stages = k.stages /\ n.at = k.at /\ n.status = k.status
    /\ n.resumes = k.resumes

OpenedTo(k, n) ==
    LET j == k.at
        s == k.stages[j]
    IN  \/ k.why \in {"checkpoint", "away", "budget"} /\ Cleared(k, n)
        \/ /\ k.why = "failed" /\ \E m \in Plan[j].who : s.pieces[m].clash
           /\ n = Passed(Restaged(k, j, Repieced(s, Unclash(s.pieces))), j, "done")
        \/ /\ k.why \notin {"checkpoint", "away", "budget"}
           /\ n = Passed(k, j, IF SomeDone(s) THEN "done" ELSE "failed")

LEMMA PastRetasks ==
    ASSUME NEW e \in Team, NEW t \in Tasks, e.tasks[t].at \in Stages, NEW status \in StageStatus
    PROVE  Retask(e, Past(e, t, status), t, Passed(e.tasks[t], e.tasks[t].at, status))
  BY SendMarkRetasks DEF Past, Passed

LEMMA UnclashIs ==
    ASSUME NEW ps \in [Members -> Piece]
    PROVE  /\ Unclash(ps) \in [Members -> Piece]
           /\ \A m \in Members : /\ Unclash(ps)[m].status = ps[m].status
                                 /\ Unclash(ps)[m].batch = ps[m].batch
                                 /\ Unclash(ps)[m].clash = FALSE
<1>1. \A m \in Members : LET q == [ps[m] EXCEPT !.clash = FALSE]
                         IN  q \in Piece /\ q.status = ps[m].status /\ q.batch = ps[m].batch
                               /\ q.clash = FALSE
  BY DEF Piece
<1> QED
  BY <1>1 DEF Unclash

LEMMA UnclashedRetasks ==
    ASSUME NEW e \in Team, NEW t \in Tasks, e.tasks[t].at \in Stages
    PROVE  Retask(e, Unclashed(e, t), t,
                  Restaged(e.tasks[t], e.tasks[t].at,
                           Repieced(e.tasks[t].stages[e.tasks[t].at],
                                    Unclash(e.tasks[t].stages[e.tasks[t].at].pieces))))
<1> DEFINE j == e.tasks[t].at
           ps == e.tasks[t].stages[j].pieces
<1>1. Unclash(ps) \in [Members -> Piece]
  BY Typed, UnclashIs
<1>2. Unclashed(e, t) = [e EXCEPT !.tasks[t].stages[j].pieces = Unclash(ps)]
  BY DEF Unclashed, Unclash
<1>3. j \in Stages
  OBVIOUS
<1> DEFINE qs == Unclash(ps)
<1> SUFFICES Retask(e, [e EXCEPT !.tasks[t].stages[j].pieces = qs], t,
                    Restaged(e.tasks[t], j, Repieced(e.tasks[t].stages[j], qs)))
  BY <1>2
<1>4. qs \in [Members -> Piece]
  BY <1>1
<1> HIDE DEF j, qs
<1> QED
  BY <1>3, <1>4, RepieceRetasks

LEMMA GateRetasks ==
    ASSUME NEW e \in Team, NEW t \in Tasks, NEW j \in Stages
    PROVE  /\ \E n : Retask(e, [e EXCEPT !.tasks[t].cleared = j], t, n) /\ Cleared(e.tasks[t], n)
           /\ \E n : Retask(e, [e EXCEPT !.tasks[t].awayCleared = j], t, n) /\ Cleared(e.tasks[t], n)
           /\ \E n : Retask(e, [e EXCEPT !.tasks[t].broke = FALSE], t, n) /\ Cleared(e.tasks[t], n)
<1> DEFINE k == e.tasks[t]
           a == [k EXCEPT !.cleared = j]
           b == [k EXCEPT !.awayCleared = j]
           c == [k EXCEPT !.broke = FALSE]
<1>1. k \in Task /\ j \in 0..Len(Plan)
  BY Sizes DEF Team
<1>2. Cleared(k, a) /\ Cleared(k, b) /\ Cleared(k, c)
  BY <1>1 DEF Cleared, Task
<1>3. /\ [e EXCEPT !.tasks[t].cleared = j] = [e EXCEPT !.tasks[t] = a]
      /\ [e EXCEPT !.tasks[t].awayCleared = j] = [e EXCEPT !.tasks[t] = b]
      /\ [e EXCEPT !.tasks[t].broke = FALSE] = [e EXCEPT !.tasks[t] = c]
  OBVIOUS
<1> HIDE DEF a, b, c
<1> QED
  BY <1>2, <1>3, PutIs DEF Cleared

LEMMA OpenedIs ==
    ASSUME All(Now), NEW t \in Tasks, tasks[t].status = "waiting"
    PROVE  \E n : Retask(Now, Opened(t), t, n) /\ OpenedTo(tasks[t], n)
<1> DEFINE k == tasks[t]
           j == k.at
           s == k.stages[j]
<1>1. Now \in Team /\ Now.tasks = tasks /\ k \in Task /\ j \in Stages
  BY NowIs DEF Fine, Sited
<1>2. k.why \in Whys /\ s.pieces \in [Members -> Piece]
  BY <1>1, Typed DEF Task
<1>3. CASE k.why = "checkpoint"
  <2>1. Opened(t) = [Now EXCEPT !.tasks[t].cleared = j]
    BY <1>3 DEF Opened
  <2> QED
    BY <1>1, <1>3, <2>1, GateRetasks, ZenonT(60) DEF OpenedTo
<1>4. CASE k.why = "away"
  <2>1. Opened(t) = [Now EXCEPT !.tasks[t].awayCleared = j]
    BY <1>4 DEF Opened
  <2> QED
    BY <1>1, <1>4, <2>1, GateRetasks, ZenonT(60) DEF OpenedTo
<1>5. CASE k.why = "budget"
  <2>1. Opened(t) = [Now EXCEPT !.tasks[t].broke = FALSE]
    BY <1>5 DEF Opened
  <2> QED
    BY <1>1, <1>5, <2>1, GateRetasks DEF OpenedTo
<1>6. CASE k.why = "failed" /\ Clashing(t) # {}
  <2> DEFINE d == Unclashed(Now, t)
             x == Restaged(k, j, Repieced(s, Unclash(s.pieces)))
  <2>1. Opened(t) = Past(d, t, "done")
    BY <1>6 DEF Opened
  <2>2. Retask(Now, d, t, x)
    BY <1>1, UnclashedRetasks
  <2>3. x.at = j
    <3>1. s \in Stage
      BY <1>1, Typed
    <3>2. Unclash(s.pieces) \in [Members -> Piece]
      BY <1>2, UnclashIs
    <3>3. Repieced(s, Unclash(s.pieces)) \in Stage
      BY <3>1, <3>2, RepiecedIs
    <3> QED
      BY <1>1, <3>3, RestagedIs
  <2>4. "done" \in StageStatus
    BY DEF StageStatus
  <2> HIDE DEF d, x
  <2>5. Retask(d, Past(d, t, "done"), t, Passed(x, j, "done"))
    BY <1>1, <2>2, <2>3, <2>4, PastRetasks DEF Retask
  <2>6. Retask(Now, Opened(t), t, Passed(x, j, "done"))
    BY <2>1, <2>2, <2>5, RetaskTrans
  <2>7. \E m \in Plan[j].who : s.pieces[m].clash
    BY <1>6 DEF Clashing, Here
  <2> QED
    BY <1>6, <2>6, <2>7 DEF OpenedTo, x
<1>7. CASE /\ k.why \notin {"checkpoint", "away", "budget"}
           /\ ~(k.why = "failed" /\ Clashing(t) # {})
  <2> DEFINE status == IF SomeDone(s) THEN "done" ELSE "failed"
  <2>1. Opened(t) = Past(Now, t, status)
    BY <1>7 DEF Opened, Here
  <2>2. status \in StageStatus
    BY DEF StageStatus
  <2>3. Retask(Now, Past(Now, t, status), t, Passed(k, j, status))
    BY <1>1, <2>2, PastRetasks
  <2> QED
    BY <1>7, <2>1, <2>3 DEF OpenedTo
<1> QED
  BY <1>3, <1>4, <1>5, <1>6, <1>7

LEMMA ContinueTaskProceeds ==
    ASSUME All(Now), NEW t \in Tasks, ContinueTask(t)
    PROVE  Proceeds
<1> DEFINE d == Opened(t)
<1>1. /\ tasks[t].status = "waiting"
      /\ Becomes(Queued(d, t, "carryOn")) \/ Becomes(CarryOn(d, t))
  BY DEF ContinueTask
<1>2. PICK n : Retask(Now, d, t, n)
  BY <1>1, OpenedIs
<1> HIDE DEF d
<1>3. d \in Team /\ Held(t, d.launches[t], d.batches) /\ Local(Now, d, t)
  <2>1. Held(t, Now.launches[t], Now.batches)
    BY NowIs DEF Fine
  <2> QED
    BY <1>2, <2>1, RetaskLocal DEF Retask
<1>4. ASSUME NEW f, Fine(f, t), Local(d, f, t) PROVE Outcome(Now, f)
  <2>1. Local(Now, f, t)
    BY <1>3, <1>4, LocalTrans
  <2> QED
    BY <1>1, <1>4, <2>1, OutcomeAlone
<1>5. Outcome(Now, Queued(d, t, "carryOn"))
  BY <1>3, <1>4, QueuedKept
<1>6. Outcome(Now, CarryOn(d, t))
  BY <1>3, <1>4, CarryOnKept
<1> QED
  BY <1>1, <1>5, <1>6, Lands DEF Proceeds

-----------------------------------------------------------------------------
(* A stage, or a piece, done again.                                        *)

AnewStage(s) ==
    [status |-> "pending",
     pieces |-> [m \in Members |-> IF s.pieces[m].status = "failed" THEN Anew(s.pieces[m])
                                     ELSE s.pieces[m]]]

LEMMA AnewStageIs ==
    ASSUME NEW s \in Stage
    PROVE  /\ AnewStage(s) \in Stage /\ AnewStage(s).status = "pending"
           /\ \A m \in Members :
                 AnewStage(s).pieces[m] =
                    IF s.pieces[m].status = "failed" THEN Anew(s.pieces[m]) ELSE s.pieces[m]
<1>1. \A m \in Members : s.pieces[m] \in Piece
  BY DEF Stage
<1>2. \A m \in Members : (IF s.pieces[m].status = "failed" THEN Anew(s.pieces[m])
                            ELSE s.pieces[m]) \in Piece
  BY <1>1, AnewIs
<1>3. "pending" \in StageStatus
  BY DEF StageStatus
<1> QED
  BY <1>2, <1>3 DEF AnewStage, Stage

LEMMA FailedAnewRetasks ==
    ASSUME NEW e \in Team, NEW t \in Tasks, e.tasks[t].at \in Stages
    PROVE  Retask(e, FailedAnew(e, t), t,
                  Restaged(e.tasks[t], e.tasks[t].at, AnewStage(e.tasks[t].stages[e.tasks[t].at])))
<1> DEFINE j == e.tasks[t].at
           s == AnewStage(e.tasks[t].stages[j])
<1>1. s \in Stage
  BY Typed, AnewStageIs
<1>2. FailedAnew(e, t) = [e EXCEPT !.tasks[t].stages[j] = s]
  BY DEF FailedAnew, AnewStage
<1>3. j \in Stages
  OBVIOUS
<1> SUFFICES Retask(e, [e EXCEPT !.tasks[t].stages[j] = s], t, Restaged(e.tasks[t], j, s))
  BY <1>2
<1> HIDE DEF j, s
<1> QED
  BY <1>1, <1>3, RestageRetasks

Reclash(ps, again) == [m \in Members |-> [ps[m] EXCEPT !.clash = m \in again]]

LEMMA ReclashIs ==
    ASSUME NEW ps \in [Members -> Piece], NEW again
    PROVE  /\ Reclash(ps, again) \in [Members -> Piece]
           /\ \A m \in Members : /\ Reclash(ps, again)[m].status = ps[m].status
                                 /\ Reclash(ps, again)[m].batch = ps[m].batch
                                 /\ Reclash(ps, again)[m].clash => m \in again
<1>1. ASSUME NEW m \in Members, NEW c \in BOOLEAN
      PROVE  LET q == [ps[m] EXCEPT !.clash = c]
             IN  q \in Piece /\ q.status = ps[m].status /\ q.batch = ps[m].batch /\ q.clash = c
  BY DEF Piece
<1>2. \A m : (m \in again) \in BOOLEAN
  OBVIOUS
<1>3. \A m \in Members : LET q == [ps[m] EXCEPT !.clash = m \in again]
                         IN  q \in Piece /\ q.status = ps[m].status /\ q.batch = ps[m].batch
                               /\ (q.clash => m \in again)
  BY <1>1, <1>2
<1> QED
  BY <1>3 DEF Reclash

LEMMA RetryProceeds ==
    ASSUME All(Now), NEW t \in Tasks, Retry(t)
    PROVE  Proceeds
<1> DEFINE k == tasks[t]
           j == k.at
           s == k.stages[j]
<1>1. k.status = "waiting"
  BY DEF Retry
<1>2. /\ Now \in Team /\ Now.tasks = tasks /\ j \in Stages /\ Fine(Now, t)
      /\ Held(t, Now.launches[t], Now.batches)
  BY <1>1, NowIs DEF Fine, Sited
<1>3. ASSUME NEW d, NEW n, Retask(Now, d, t, n), NEW f, Fine(f, t), Local(d, f, t)
      PROVE  Outcome(Now, f)
  <2>1. Local(Now, f, t)
    BY <1>3, RetaskLocal, LocalTrans
  <2> QED
    BY <1>1, <1>3, <2>1, OutcomeAlone
<1>4. CASE Clashing(t) = {}
  <2> DEFINE d == FailedAnew(Now, t)
  <2>1. Becomes(CarryOn(d, t))
    BY <1>4 DEF Retry
  <2>2. PICK n : Retask(Now, d, t, n)
    BY <1>2, FailedAnewRetasks
  <2> HIDE DEF d
  <2>3. Fine(CarryOn(d, t), t) /\ Local(d, CarryOn(d, t), t)
    BY <1>2, <2>2, CarryOnKept DEF Retask
  <2>4. Outcome(Now, CarryOn(d, t))
    BY <1>3, <2>2, <2>3
  <2> QED
    BY <2>1, <2>4, Lands DEF Proceeds
<1>5. CASE Clashing(t) # {}
  <2>1. PICK again \in SUBSET Clashing(t) :
           Becomes(CheckStage(Goes([Now EXCEPT !.tasks[t].stages[j].pieces = Reclash(s.pieces, again)],
                                   t, "running", "none"), t))
    BY <1>2, <1>5 DEF Retry, Reclash
  <2> DEFINE ps == Reclash(s.pieces, again)
             d == [Now EXCEPT !.tasks[t].stages[j].pieces = ps]
             g == Goes(d, t, "running", "none")
             f == CheckStage(g, t)
  <2>2. ps \in [Members -> Piece]
    BY <1>2, Typed, ReclashIs
  <2>3. PICK n : Retask(Now, d, t, n)
    <3> HIDE DEF ps
    <3> QED
      BY <1>2, <2>2, RepieceRetasks
  <2> HIDE DEF d
  <2>4. Fine(g, t) /\ Local(d, g, t)
    BY <1>2, <2>3, CarryOnKept DEF Retask
  <2> HIDE DEF g
  <2>5. Fine(f, t) /\ Local(d, f, t)
    <3>1. Kept(g, f, t)
      BY <2>4, CheckStageKept DEF Calmly
    <3> HIDE DEF f
    <3> QED
      BY <2>4, <3>1, LocalTrans DEF Kept
  <2>6. Outcome(Now, f)
    BY <1>3, <2>3, <2>5
  <2> QED
    BY <2>1, <2>6, Lands DEF Proceeds, f, g, d
<1> QED
  BY <1>4, <1>5

\* A piece of the stage the task is at is done again, from d.
LEMMA PieceAnewKept ==
    ASSUME NEW d \in Team, NEW t \in Tasks, NEW m \in Members, d.tasks[t].at \in Stages,
           Held(t, d.launches[t], d.batches)
    PROVE  Fine(PieceAnew(d, t, m), t) /\ Local(d, PieceAnew(d, t, m), t)
<1> DEFINE j == d.tasks[t].at
           q == Anew(d.tasks[t].stages[j].pieces[m])
           g == SetPiece(d, t, j, m, q)
           h == Goes(g, t, "running", "none")
           f == LaunchStage(h, t, j)
<1>1. q \in Piece
  BY Typed, AnewIs
<1>2. PICK n : Retask(d, g, t, n)
  BY <1>1, SetPieceRetasks, ZenonT(60)
<1> HIDE DEF g
<1>3. Fine(h, t) /\ Local(g, h, t)
  BY <1>2, CarryOnKept DEF Retask
<1> HIDE DEF h
<1>4. Kept(h, f, t)
  BY <1>3, LaunchStageKept DEF Calmly
<1>5. Local(d, g, t)
  BY <1>2, RetaskLocal
<1> HIDE DEF f
<1>6. Fine(f, t) /\ Local(d, f, t)
  BY <1>3, <1>4, <1>5, LocalTrans DEF Kept
<1> QED
  BY <1>6 DEF PieceAnew, f, h, g

LEMMA RetryPieceProceeds ==
    ASSUME All(Now), NEW t \in Tasks, NEW m \in Members, RetryPiece(t, m)
    PROVE  Proceeds
<1> DEFINE f == PieceAnew(Now, t, m)
<1>1. tasks[t].status \in {"running", "waiting"} /\ tasks[t].at \in Stages /\ Becomes(f)
  BY DEF RetryPiece, Under
<1>2. Now \in Team /\ Now.tasks = tasks /\ Held(t, Now.launches[t], Now.batches)
  BY NowIs DEF Fine
<1>3. Fine(f, t) /\ Local(Now, f, t)
  BY <1>1, <1>2, PieceAnewKept
<1> HIDE DEF f
<1>4. Outcome(Now, f)
  BY <1>1, <1>3, OutcomeAlone
<1> QED
  BY <1>1, <1>4, Lands DEF Proceeds

\* d is Now but for task t and for batches that are no longer going.
LEMMA OutcomeFrom ==
    ASSUME All(Now), NEW d, NEW t \in Tasks, All(d),
           \A u \in Tasks \ {t} : d.tasks[u] = tasks[u],
           NEW f, Fine(f, t), Local(d, f, t),
           \/ tasks[t].status \in {"running", "waiting"}
           \/ ~AtWork(f.tasks[t])
           \/ \A u \in Tasks \ {t} : ~AtWork(tasks[u])
    PROVE  Outcome(Now, f)
<1>1. Kept(d, f, t) /\ Others(d, t) /\ Now.tasks = tasks
  BY AllOthers, NowIs DEF Kept
<1>2. All(f)
  BY <1>1, AllKept
<1>3. \A u \in Tasks \ {t} : f.tasks[u] = tasks[u]
  BY DEF Local, Slice
<1>4. StartAlone(Now, f)
  BY <1>1, <1>3 DEF StartAlone, AtWork
<1> QED
  BY <1>2, <1>4 DEF Outcome

LEMMA RedoPieceProceeds ==
    ASSUME All(Now), NEW t \in Tasks, NEW m \in Members, RedoPiece(t, m)
    PROVE  Proceeds
<1> DEFINE j == tasks[t].at
           p == tasks[t].stages[j].pieces[m]
           c == [Now EXCEPT !.tasks[t].stages[j].status = "running"]
           d == IF p.status = "running" THEN Cancelled(c, {p.batch}) ELSE c
           f == PieceAnew(d, t, m)
<1>1. tasks[t].status \in {"running", "waiting"} /\ j \in Stages /\ Becomes(f)
  BY DEF RedoPiece, Under, Here
<1>2. Now \in Team /\ Now.tasks = tasks /\ Fine(Now, t) /\ Others(Now, t) /\ tasks[t] \in Task
  BY NowIs
<1>3. Retask(Now, c, t, Marked(tasks[t], j, "running"))
  BY <1>1, <1>2, MarkRetasks DEF StageStatus
<1>4. Marked(tasks[t], j, "running").at = j
  BY <1>1, <1>2, MarkedIs DEF StageStatus
<1> HIDE DEF c
<1>5. All(c)
  <2>1. Kept(Now, c, t)
    BY <1>1, <1>2, <1>3, <1>4, RetaskKept DEF Sited
  <2> QED
    BY <1>2, <2>1, AllKept
<1>6. All(d) /\ d.tasks = c.tasks
  BY <1>5, CancelledAll
<1> HIDE DEF d
<1>7. d \in Team /\ d.tasks[t].at = j /\ Held(t, d.launches[t], d.batches)
  BY <1>3, <1>4, <1>6 DEF All, Retask
<1>8. Fine(f, t) /\ Local(d, f, t)
  BY <1>1, <1>7, PieceAnewKept
<1>9. \A u \in Tasks \ {t} : d.tasks[u] = tasks[u]
  BY <1>2, <1>3, <1>6 DEF Retask
<1> HIDE DEF f
<1>10. Outcome(Now, f)
  BY <1>1, <1>6, <1>8, <1>9, OutcomeFrom
<1> QED
  BY <1>1, <1>10, Lands DEF Proceeds

-----------------------------------------------------------------------------
(* A stage, or a piece, skipped; a task cancelled.                         *)

SkippedStage(s, j) ==
    [status |-> IF SomeDone(s) THEN "done" ELSE "skipped",
     pieces |-> [m \in Members |-> IF m \in Plan[j].who THEN Skipped(s.pieces[m])
                                     ELSE s.pieces[m]]]

LEMMA SkippedStageIs ==
    ASSUME NEW s \in Stage, NEW j \in Stages
    PROVE  /\ SkippedStage(s, j) \in Stage
           /\ SkippedStage(s, j).status \in {"done", "skipped"}
           /\ \A m \in Members :
                 SkippedStage(s, j).pieces[m] =
                    IF m \in Plan[j].who THEN Skipped(s.pieces[m]) ELSE s.pieces[m]
<1> DEFINE ps == [m \in Members |-> IF m \in Plan[j].who THEN Skipped(s.pieces[m])
                                      ELSE s.pieces[m]]
<1>1. \A p \in Piece : Skipped(p) \in Piece
  BY DEF Piece, Skipped, PieceStatus, StageStatus
<1>2. ps \in [Members -> Piece]
  BY <1>1 DEF Stage
<1> HIDE DEF ps
<1>3. [status |-> IF SomeDone(s) THEN "done" ELSE "skipped", pieces |-> ps] \in Stage
  BY <1>2 DEF Stage, StageStatus
<1> QED
  BY <1>3 DEF SkippedStage, ps

\* Where skipStage begins: the pieces' runs have been stopped.
LEMMA StageSkippedIs ==
    ASSUME NEW e \in Team, NEW t \in Tasks, NEW j \in Stages
    PROVE  \E S : \E f :
              /\ Retask(Cancelled(e, S), f, t,
                        Restaged(e.tasks[t], j, SkippedStage(e.tasks[t].stages[j], j)))
              /\ S = {e.tasks[t].stages[j].pieces[m].batch : m \in Plan[j].who}
              /\ StageSkipped(e, t, j) =
                   IF j = e.tasks[t].at THEN CarryOn([f EXCEPT !.tasks[t].at = j + 1], t)
                   ELSE Persist(f, t)
<1> DEFINE s == e.tasks[t].stages[j]
           S == {s.pieces[m].batch : m \in Plan[j].who}
           c == Cancelled(e, S)
           x == SkippedStage(s, j)
           f == [c EXCEPT !.tasks[t].stages[j] = x]
<1>1. s \in Stage
  BY Typed
<1>2. x \in Stage
  BY <1>1, SkippedStageIs
<1>3. c \in Team /\ c.tasks = e.tasks
  BY CancelledIs DEF Rebatched
<1>4. StageSkipped(e, t, j) = IF j = e.tasks[t].at THEN CarryOn([f EXCEPT !.tasks[t].at = j + 1], t)
                              ELSE Persist(f, t)
  BY DEF StageSkipped, SkippedStage
<1> HIDE DEF c, x
<1>5. Retask(c, f, t, Restaged(c.tasks[t], j, x))
  BY <1>2, <1>3, RestageRetasks
<1> HIDE DEF f
<1> QED
  BY <1>3, <1>4, <1>5 DEF c, x

\* d is e but for batches that are no longer going.
LEMMA StageSkippedKept ==
    ASSUME NEW e, NEW t \in Tasks, NEW j \in Stages, All(e)
    PROVE  LET f == StageSkipped(e, t, j)
           IN  \E d : All(d) /\ d.tasks = e.tasks /\ Fine(f, t) /\ Local(d, f, t)
<1> DEFINE g == StageSkipped(e, t, j)
           k == e.tasks[t]
           n == Restaged(k, j, SkippedStage(k.stages[j], j))
<1> SUFFICES \E x : All(x) /\ x.tasks = e.tasks /\ Fine(g, t) /\ Local(x, g, t)
  OBVIOUS
<1>1. e \in Team /\ k \in Task /\ k.stages[j] \in Stage /\ Sited(k)
  <2>1. e \in Team /\ Sited(k)
    BY DEF All
  <2> QED
    BY <2>1, Typed
<1>2. PICK S, f : /\ Retask(Cancelled(e, S), f, t, n)
                  /\ g = IF j = k.at THEN CarryOn([f EXCEPT !.tasks[t].at = j + 1], t)
                         ELSE Persist(f, t)
  BY <1>1, StageSkippedIs
<1>3. n.status = k.status /\ n.at = k.at
  BY <1>1, SkippedStageIs, RestagedIs
<1> DEFINE d == Cancelled(e, S)
<1>4. All(d) /\ d.tasks = e.tasks
  BY CancelledAll
<1> HIDE DEF d, n, g
<1>5. Fine(d, t)
  BY <1>4, AllOthers
<1>6. Retask(d, f, t, n)
  BY <1>2 DEF d
<1>7. CASE j = k.at
  <2> DEFINE h == [f EXCEPT !.tasks[t].at = j + 1]
  <2>1. j + 1 \in 1..(Len(Plan) + 1)
    BY Sizes
  <2>2. PICK x : Retask(f, h, t, x)
    BY <1>6, <2>1, SendRetasks, ZenonT(60) DEF Retask
  <2> HIDE DEF h
  <2>3. Retask(d, h, t, x)
    BY <1>6, <2>2, RetaskTrans
  <2>4. h \in Team /\ Held(t, h.launches[t], h.batches)
    BY <1>5, <2>3 DEF Retask, Fine
  <2>5. Fine(CarryOn(h, t), t) /\ Local(h, CarryOn(h, t), t)
    BY <2>4, CarryOnKept
  <2>6. g = CarryOn(h, t)
    BY <1>2, <1>7 DEF h
  <2>7. Local(d, g, t)
    BY <2>3, <2>5, <2>6, RetaskLocal, LocalTrans
  <2> QED
    BY <1>4, <2>5, <2>6, <2>7
<1>8. CASE j # k.at
  <2>1. g = Persist(f, t)
    BY <1>2, <1>8
  <2>2. Retask(d, g, t, n)
    BY <1>6, <2>1, RetaskPersist
  <2>3. Kept(d, g, t)
    BY <1>1, <1>3, <1>5, <2>2, RetaskKept DEF Sited
  <2> QED
    BY <1>4, <2>3 DEF Kept
<1> QED
  BY <1>7, <1>8

LEMMA SkipStageProceeds ==
    ASSUME All(Now), NEW t \in Tasks, NEW j \in Stages, SkipStage(t, j)
    PROVE  Proceeds
<1> DEFINE f == StageSkipped(Now, t, j)
<1>1. tasks[t].status \in {"running", "waiting"} /\ Becomes(f) /\ Now.tasks = tasks
  BY NowIs DEF SkipStage, CanSkipStage
<1>2. PICK d : All(d) /\ d.tasks = tasks /\ Fine(f, t) /\ Local(d, f, t)
  BY <1>1, StageSkippedKept
<1> HIDE DEF f
<1>3. Outcome(Now, f)
  BY <1>1, <1>2, OutcomeFrom
<1> QED
  BY <1>1, <1>3, Lands DEF Proceeds

\* The other tasks kept their places, and t was under way.
LEMMA OutcomeBeside ==
    ASSUME All(Now), NEW t \in Tasks, tasks[t].status \in {"running", "waiting"},
           NEW f, All(f), \A u \in Tasks \ {t} : Calm(tasks[u], f.tasks[u])
    PROVE  Outcome(Now, f)
<1>1. Now.tasks = tasks
  BY NowIs
<1> QED
  BY <1>1 DEF Outcome, StartAlone, AtWork, Calm

\* What a batch says, whosever it is.
LEMMA ToldAll ==
    ASSUME NEW e, All(e), NEW b \in DOMAIN e.batches, e.batches[b].state # "starting",
           NEW how \in Hows
    PROVE  /\ All(Told(e, b, how))
           /\ \A u \in Tasks : Calm(e.tasks[u], Told(e, b, how).tasks[u])
<1> DEFINE u == e.batches[b].task
           f == Told(e, b, how)
<1>1. u \in Tasks
  <2>1. e.batches \in [DOMAIN e.batches -> Batch]
    BY TableIs DEF All, Team
  <2> QED
    BY <2>1 DEF Batch
<1>2. Fine(e, u) /\ Others(e, u)
  BY <1>1, AllOthers
<1>3. e.batches[b].task = u
  OBVIOUS
<1> HIDE DEF u
<1>4. Calmly(e, f, u)
  BY <1>1, <1>2, <1>3, ToldKept
<1> HIDE DEF f
<1>5. All(f)
  BY <1>1, <1>2, <1>4, AllKept DEF Calmly
<1>6. \A v \in Tasks \ {u} : f.tasks[v] = e.tasks[v]
  BY <1>4 DEF Calmly, Kept, Local, Slice
<1>7. \A v \in Tasks : Calm(e.tasks[v], f.tasks[v])
  BY <1>4, <1>6 DEF Calmly, Calm
<1> QED
  BY <1>5, <1>7 DEF f

LEMMA PiecedTwice ==
    ASSUME NEW k \in Task, NEW j \in Stages, NEW m \in Members, NEW p, NEW q
    PROVE  Pieced(Pieced(k, j, m, p), j, m, q) = Pieced(k, j, m, q)
<1> DEFINE S == k.stages
           ps == S[j].pieces
           s1 == [S[j] EXCEPT !.pieces = [ps EXCEPT ![m] = p]]
           s2 == [S[j] EXCEPT !.pieces = [ps EXCEPT ![m] = q]]
           k1 == Pieced(k, j, m, p)
<1>1. S \in [Stages -> Stage] /\ S[j] \in Stage
  BY DEF Task
<1>2. k1 = [k EXCEPT !.stages = [S EXCEPT ![j] = s1]]
  BY DEF Pieced
<1>3. k1.stages = [S EXCEPT ![j] = s1]
  BY <1>2 DEF Task
<1>4. k1.stages[j] = s1
  BY <1>1, <1>3
<1>5. s1.pieces = [ps EXCEPT ![m] = p]
  BY <1>1 DEF Stage
<1>6. [s1 EXCEPT !.pieces = [s1.pieces EXCEPT ![m] = q]] = s2
  <2>1. [[ps EXCEPT ![m] = p] EXCEPT ![m] = q] = [ps EXCEPT ![m] = q]
    OBVIOUS
  <2>2. [s1 EXCEPT !.pieces = [ps EXCEPT ![m] = q]] = s2
    OBVIOUS
  <2> HIDE DEF s1, s2
  <2> QED
    BY <1>5, <2>1, <2>2
<1> HIDE DEF s1, s2
<1>7. [k1.stages EXCEPT ![j] = s2] = [S EXCEPT ![j] = s2]
  BY <1>3
<1>8. Pieced(k1, j, m, q) = [k1 EXCEPT !.stages = [k1.stages EXCEPT ![j] = s2]]
  <2> HIDE DEF k1
  <2> QED
    BY <1>4, <1>6 DEF Pieced
<1>9. Pieced(k1, j, m, q) = [k EXCEPT !.stages = [S EXCEPT ![j] = s2]]
  <2> DEFINE T == [S EXCEPT ![j] = s2]
             U == [S EXCEPT ![j] = s1]
  <2>1. Pieced(k1, j, m, q) = [k1 EXCEPT !.stages = T] /\ k1 = [k EXCEPT !.stages = U]
    BY <1>2, <1>7, <1>8
  <2> HIDE DEF T, U, k1
  <2>2. [[k EXCEPT !.stages = U] EXCEPT !.stages = T] = [k EXCEPT !.stages = T]
    OBVIOUS
  <2> QED
    BY <2>1, <2>2 DEF T
<1>10. Pieced(k, j, m, q) = [k EXCEPT !.stages = [S EXCEPT ![j] = s2]]
  BY DEF Pieced, s2
<1> QED
  BY <1>9, <1>10

LEMMA DropIs ==
    ASSUME NEW f \in Team, NEW t \in Tasks, NEW j \in Stages, NEW m \in Members
    PROVE  Retask(f, [f EXCEPT !.tasks[t].stages[j].pieces[m].status = "skipped",
                               !.tasks[t].stages[j].pieces[m].batch = 0], t,
                  Pieced(f.tasks[t], j, m, Over(f.tasks[t].stages[j].pieces[m], "skipped")))
<1> DEFINE p == f.tasks[t].stages[j].pieces[m]
           q == Over(p, "skipped")
           x == [f EXCEPT !.tasks[t].stages[j].pieces[m].status = "skipped"]
           p1 == [p EXCEPT !.status = "skipped"]
           k == f.tasks[t]
           g == [x EXCEPT !.tasks[t].stages[j].pieces[m].batch = 0]
<1>1. p \in Piece
  BY Typed
<1>2. q \in Piece
  BY <1>1, OverIs
<1>3. x = SetPiece(f, t, j, m, p1)
  BY DEF SetPiece
<1>4. p1 \in Piece /\ q = [p1 EXCEPT !.batch = 0]
  BY <1>1 DEF Piece, PieceStatus, StageStatus, Over
<1> HIDE DEF x, p1, q
<1>5. Retask(f, x, t, Pieced(k, j, m, p1))
  BY <1>3, <1>4, SetPieceRetasks DEF Pieced
<1>6. k \in Task /\ x \in Team
  BY <1>5, Typed DEF Retask
<1>7. x.tasks[t].stages[j].pieces[m] = p1
  BY <1>4, <1>5, <1>6, PiecedIs DEF Retask
<1>8. g = SetPiece(x, t, j, m, q)
  BY <1>4, <1>7 DEF SetPiece
<1> HIDE DEF g
<1>9. Retask(x, g, t, Pieced(x.tasks[t], j, m, q))
  BY <1>2, <1>6, <1>8, SetPieceRetasks DEF Pieced
<1>10. Pieced(Pieced(k, j, m, p1), j, m, q) = Pieced(k, j, m, q)
  BY <1>6, PiecedTwice
<1>11. Retask(f, g, t, Pieced(k, j, m, q))
  <2>1. x.tasks[t] = Pieced(k, j, m, p1)
    BY <1>5 DEF Retask
  <2>2. Retask(x, g, t, Pieced(k, j, m, q))
    BY <1>9, <1>10, <2>1
  <2> QED
    BY <1>5, <2>2, RetaskTrans
<1> QED
  BY <1>11 DEF g, x, q

\* A piece dropped; what its run's end led to comes first.
LEMMA DroppedIs ==
    ASSUME NEW e, All(e), NEW t \in Tasks, NEW j \in Stages, NEW m \in Members
    PROVE  \E f : /\ All(f) /\ \A u \in Tasks : Calm(e.tasks[u], f.tasks[u])
                  /\ Retask(f, Dropped(e, t, j, m), t,
                            Pieced(f.tasks[t], j, m, Over(f.tasks[t].stages[j].pieces[m], "skipped")))
<1> DEFINE b == e.tasks[t].stages[j].pieces[m].batch
           f == IF Abortable(e, b) THEN Told(e, b, "failed") ELSE e
<1>1. All(f) /\ \A u \in Tasks : Calm(e.tasks[u], f.tasks[u])
  <2>1. CASE Abortable(e, b)
    BY <2>1, ToldAll DEF Abortable, Hows
  <2>2. CASE ~Abortable(e, b)
    BY <2>2 DEF Calm
  <2> QED
    BY <2>1, <2>2
<1>2. Dropped(e, t, j, m) = [f EXCEPT !.tasks[t].stages[j].pieces[m].status = "skipped",
                                      !.tasks[t].stages[j].pieces[m].batch = 0]
  BY DEF Dropped
<1> HIDE DEF f
<1>3. f \in Team
  BY <1>1 DEF All
<1>4. Retask(f, Dropped(e, t, j, m), t,
             Pieced(f.tasks[t], j, m, Over(f.tasks[t].stages[j].pieces[m], "skipped")))
  <2> DEFINE g == [f EXCEPT !.tasks[t].stages[j].pieces[m].status = "skipped",
                           !.tasks[t].stages[j].pieces[m].batch = 0]
  <2>1. Retask(f, g, t, Pieced(f.tasks[t], j, m, Over(f.tasks[t].stages[j].pieces[m], "skipped")))
    BY <1>3, DropIs
  <2>2. Dropped(e, t, j, m) = g
    BY <1>2
  <2> HIDE DEF g
  <2> QED
    BY <2>1, <2>2
<1> QED
  BY <1>1, <1>4

LEMMA SkipPieceProceeds ==
    ASSUME All(Now), NEW t \in Tasks, NEW j \in Stages, NEW m \in Members, SkipPiece(t, j, m)
    PROVE  Proceeds
<1> DEFINE e == Dropped(Now, t, j, m)
           k == e.tasks[t]
           f == IF j = k.at /\ k.stages[j].status = "running" THEN CheckStage(Persist(e, t), t)
                ELSE IF \E n \in Plan[j].who : k.stages[j].pieces[n].status # "skipped"
                THEN Persist(e, t)
                ELSE IF CanSkipStage(k, j) THEN StageSkipped(e, t, j) ELSE e
<1>1. tasks[t].status \in {"running", "waiting"} /\ Becomes(f)
  BY DEF SkipPiece, CanSkipStage
<1>2. Now \in Team /\ Now.tasks = tasks
  BY NowIs
<1>3. PICK d : /\ All(d) /\ \A u \in Tasks : Calm(Now.tasks[u], d.tasks[u])
               /\ Retask(d, e, t, Pieced(d.tasks[t], j, m, Over(d.tasks[t].stages[j].pieces[m], "skipped")))
  BY DroppedIs
<1> DEFINE n == Pieced(d.tasks[t], j, m, Over(d.tasks[t].stages[j].pieces[m], "skipped"))
<1>4. d \in Team /\ d.tasks[t] \in Task /\ d.tasks[t].stages[j].pieces[m] \in Piece
  BY <1>3, Typed DEF All
<1>5. n.at = d.tasks[t].at /\ n.status = d.tasks[t].status
  BY <1>4, OverIs, PiecedIs
<1>6. Retask(d, e, t, n)
  BY <1>3
<1> HIDE DEF e, n
<1>7. All(e) /\ Fine(e, t) /\ e \in Team
  <2>1. Fine(d, t) /\ Others(d, t) /\ Sited(d.tasks[t])
    BY <1>3, AllOthers DEF All
  <2>2. Kept(d, e, t)
    BY <1>5, <1>6, <2>1, RetaskKept DEF Sited
  <2> QED
    BY <2>1, <2>2, AllKept DEF Kept, Fine
<1>8. \A u \in Tasks \ {t} : Calm(tasks[u], e.tasks[u])
  BY <1>2, <1>3, <1>6 DEF Retask, Calm
<1>9. ASSUME NEW g, All(g), \A u \in Tasks \ {t} : g.tasks[u] = e.tasks[u] PROVE Outcome(Now, g)
  BY <1>1, <1>8, <1>9, OutcomeBeside
<1>10. ASSUME NEW g, NEW c, All(c), c.tasks = e.tasks, Fine(g, t), Local(c, g, t)
       PROVE Outcome(Now, g)
  <2>1. All(g)
    <3>1. Others(c, t) /\ Kept(c, g, t)
      BY <1>10, AllOthers DEF Kept
    <3> QED
      BY <3>1, AllKept
  <2>2. \A u \in Tasks \ {t} : g.tasks[u] = e.tasks[u]
    BY <1>10 DEF Local, Slice
  <2> QED
    BY <1>9, <2>1, <2>2
<1>11. Retask(e, Persist(e, t), t, k)
  BY <1>7, PersistKeeps
<1>12. Fine(Persist(e, t), t) /\ Local(e, Persist(e, t), t)
  BY <1>7, <1>11, RetaskKept DEF Kept, Fine
<1>13. Outcome(Now, e)
  BY <1>7, <1>9
<1>14. Outcome(Now, Persist(e, t))
  BY <1>7, <1>10, <1>12
<1>15. Outcome(Now, CheckStage(Persist(e, t), t))
  <2> DEFINE p == Persist(e, t)
             g == CheckStage(p, t)
  <2>1. Kept(p, g, t)
    BY <1>12, CheckStageKept DEF Calmly
  <2> HIDE DEF g
  <2>2. Fine(g, t) /\ Local(e, g, t)
    BY <1>12, <2>1, LocalTrans DEF Kept
  <2>3. Outcome(Now, g)
    BY <1>7, <1>10, <2>2
  <2> QED
    BY <2>3 DEF g
<1>16. Outcome(Now, StageSkipped(e, t, j))
  <2> DEFINE g == StageSkipped(e, t, j)
  <2>1. PICK c : All(c) /\ c.tasks = e.tasks /\ Fine(g, t) /\ Local(c, g, t)
    BY <1>7, StageSkippedKept
  <2> HIDE DEF g
  <2>2. Outcome(Now, g)
    BY <1>10, <2>1
  <2> QED
    BY <2>2 DEF g
<1>17. Outcome(Now, f)
  BY <1>13, <1>14, <1>15, <1>16
<1> HIDE DEF f
<1> QED
  BY <1>1, <1>17, Lands DEF Proceeds

LEMMA StoppedIs ==
    ASSUME NEW s \in Stage, NEW j \in Stages
    PROVE  /\ Stopped(s, j) \in Stage
           /\ Stopped(s, j).status = IF Settled(s) THEN s.status
                                     ELSE IF SomeDone(s) THEN "done" ELSE "failed"
           /\ \A m \in Members :
                 Stopped(s, j).pieces[m] =
                    IF m \notin Plan[j].who \/ Settled(s.pieces[m]) THEN s.pieces[m]
                    ELSE [s.pieces[m] EXCEPT !.status = "failed", !.batch = 0]
<1> DEFINE ps == [m \in Members |->
                    IF m \notin Plan[j].who \/ Settled(s.pieces[m]) THEN s.pieces[m]
                    ELSE [s.pieces[m] EXCEPT !.status = "failed", !.batch = 0]]
           x == IF Settled(s) THEN s.status ELSE IF SomeDone(s) THEN "done" ELSE "failed"
<1>1. \A p \in Piece : [p EXCEPT !.status = "failed", !.batch = 0] \in Piece
  BY DEF Piece, PieceStatus, StageStatus
<1>2. ps \in [Members -> Piece]
  BY <1>1 DEF Stage
<1>3. x \in StageStatus
  BY DEF Stage, StageStatus
<1> HIDE DEF ps, x
<1>4. [status |-> x, pieces |-> ps] \in Stage
  BY <1>2, <1>3 DEF Stage
<1>5. Stopped(s, j) = [status |-> x, pieces |-> ps]
  BY DEF Stopped, ps, x
<1>6. Stopped(s, j) \in Stage /\ Stopped(s, j).status = x /\ Stopped(s, j).pieces = ps
  BY <1>4, <1>5
<1>7. \A m \in Members : ps[m] = IF m \notin Plan[j].who \/ Settled(s.pieces[m]) THEN s.pieces[m]
                                 ELSE [s.pieces[m] EXCEPT !.status = "failed", !.batch = 0]
  BY DEF ps
<1> QED
  BY <1>6, <1>7 DEF x

\* The stages of a task that is cancelled.
AllStopped(S) == [j \in Stages |-> Stopped(S[j], j)]
Ended(k) == [k EXCEPT !.stages = AllStopped(k.stages)]

LEMMA EndedIs ==
    ASSUME NEW k \in Task
    PROVE  /\ Ended(k) \in Task /\ Ended(k).at = k.at /\ Ended(k).resumes = k.resumes
           /\ Ended(k).status = k.status
           /\ \A j \in Stages : k.stages[j] \in Stage /\ Ended(k).stages[j] = Stopped(k.stages[j], j)
<1>1. k.stages \in [Stages -> Stage]
  BY DEF Task
<1>2. AllStopped(k.stages) \in [Stages -> Stage]
  BY <1>1, StoppedIs DEF AllStopped
<1>3. \A j \in Stages : AllStopped(k.stages)[j] = Stopped(k.stages[j], j)
  BY DEF AllStopped
<1> QED
  BY <1>1, <1>2, <1>3 DEF Ended, Task

LEMMA CancelIs ==
    ASSUME All(Now), NEW t \in Tasks, Cancel(t)
    PROVE  \E S, f : /\ Retask(Cancelled(Now, S), f, t, Ended(tasks[t]))
                     /\ S = UNION {{tasks[t].stages[j].pieces[m].batch : m \in Plan[j].who} : j \in Stages}
                     /\ Becomes(Goes(f, t, "cancelled", "none"))
<1> DEFINE S == UNION {{tasks[t].stages[j].pieces[m].batch : m \in Plan[j].who} : j \in Stages}
           d == Cancelled(Now, S)
           f == [d EXCEPT !.tasks[t].stages = [j \in Stages |-> Stopped(@[j], j)]]
<1>1. Becomes(Goes(f, t, "cancelled", "none"))
  BY DEF Cancel
<1>2. d \in Team /\ d.tasks = tasks /\ tasks[t] \in Task
  <2>1. Now \in Team /\ Now.tasks = tasks /\ tasks[t] \in Task
    BY NowIs
  <2> QED
    BY <2>1, CancelledIs DEF Rebatched
<1> HIDE DEF d
<1>3. f = [d EXCEPT !.tasks[t] = Ended(tasks[t])]
  BY <1>2 DEF Ended, AllStopped
<1>4. Retask(d, f, t, Ended(tasks[t]))
  <2>1. Ended(tasks[t]) \in Task
    BY <1>2, EndedIs
  <2> QED
    BY <1>2, <1>3, <2>1, PutIs
<1> QED
  BY <1>1, <1>4 DEF d

LEMMA CancelProceeds ==
    ASSUME All(Now), NEW t \in Tasks, Cancel(t)
    PROVE  Proceeds
<1>1. PICK S, f : /\ Retask(Cancelled(Now, S), f, t, Ended(tasks[t]))
                  /\ Becomes(Goes(f, t, "cancelled", "none"))
  BY CancelIs
<1> DEFINE d == Cancelled(Now, S)
           g == Goes(f, t, "cancelled", "none")
<1>2. All(d) /\ d.tasks = tasks /\ tasks[t] \in Task /\ Sited(tasks[t])
  BY NowIs, CancelledAll DEF Fine
<1>3. Retask(d, f, t, Ended(tasks[t])) /\ Becomes(g)
  BY <1>1
<1> HIDE DEF d
<1>4. Kept(d, f, t)
  <2>1. Sited(Ended(tasks[t]))
    BY <1>2, EndedIs DEF Sited
  <2> QED
    BY <1>2, <1>3, <2>1, AllOthers, RetaskKept
<1>5. Kept(f, g, t) /\ g.tasks[t].status = "cancelled"
  BY <1>4, GoesKept DEF TaskStatus, Whys, Kept
<1> HIDE DEF g
<1>6. Fine(g, t) /\ Local(d, g, t) /\ ~AtWork(g.tasks[t])
  BY <1>4, <1>5, LocalTrans DEF Kept, AtWork
<1>7. Outcome(Now, g)
  BY <1>2, <1>6, OutcomeFrom
<1> QED
  BY <1>3, <1>7, Lands DEF Proceeds

\* What is left when a task is deleted.
Deleted == [NewTask EXCEPT !.status = "deleted"]

LEMMA NewTaskIs ==
    /\ NewTask \in Task /\ Deleted \in Task /\ Deleted.status = "deleted"
    /\ NewTask.status = "none" /\ NewTask.stages = Planned /\ NewTask.at = 1 /\ Deleted.at = 1
    /\ NewTask.why = "none" /\ NewTask.resumes = "no" /\ Deleted.stages = Planned
    /\ Deleted.why = "none" /\ Deleted.resumes = "no"
<1>1. Planned \in [Stages -> Stage]
  BY NewPieces
<1> HIDE DEF Planned
<1>2. 1 \in 1..(Len(Plan) + 1) /\ 0 \in 0..Len(Plan)
  BY Sizes
<1> QED
  BY <1>1, <1>2 DEF NewTask, Deleted, Task, TaskStatus, Whys

LEMMA DeleteTaskProceeds ==
    ASSUME All(Now), NEW t \in Tasks, DeleteTask(t)
    PROVE  Proceeds
<1> DEFINE f == [Now EXCEPT !.tasks[t] = Deleted]
<1>1. Now \in Team /\ Fine(Now, t) /\ Now.tasks = tasks
  BY NowIs
<1>2. Becomes(f)
  BY <1>1 DEF DeleteTask, Becomes, Now, Deleted
<1>3. Retask(Now, f, t, Deleted)
  BY <1>1, NewTaskIs, PutIs
<1>4. Kept(Now, f, t) /\ ~AtWork(f.tasks[t])
  BY <1>1, <1>3, NewTaskIs, RetaskKept DEF Sited, AtWork, Retask
<1> HIDE DEF f
<1>5. Outcome(Now, f)
  BY <1>4, OutcomeWaiting
<1> QED
  BY <1>2, <1>5, Lands DEF Proceeds

LEMMA SpendsProceeds ==
    ASSUME All(Now), NEW t \in Tasks, Spends(t)
    PROVE  Proceeds
<1> DEFINE k == [tasks[t] EXCEPT !.broke = TRUE]
           f == [Now EXCEPT !.tasks[t] = k]
<1>1. Now \in Team /\ Fine(Now, t) /\ Now.tasks = tasks /\ tasks[t] \in Task
  BY NowIs
<1>2. Becomes(f)
  BY <1>1 DEF Spends, Becomes, Now
<1>3. k \in Task /\ k.status = tasks[t].status /\ k.at = tasks[t].at /\ k.why = tasks[t].why
  BY <1>1 DEF Task
<1>4. Retask(Now, f, t, k)
  BY <1>1, <1>3, PutIs
<1>5. Kept(Now, f, t)
  BY <1>1, <1>3, <1>4, RetaskKept DEF Sited, Fine
<1>6. AtWork(Now.tasks[t])
  BY <1>1 DEF Spends, AtWork
<1> HIDE DEF f
<1>7. Outcome(Now, f)
  BY <1>5, <1>6, OutcomeWaiting
<1> QED
  BY <1>2, <1>7, Lands DEF Proceeds

\* What only concerns the crew and the members.
LEMMA CrewProceeds ==
    ASSUME All(Now), CrewLeaves \/ \E m \in Members : MemberPaused(m)
    PROVE  Proceeds
<1>1. /\ tasks' = tasks /\ planning' = planning /\ turns' = turns /\ launches' = launches
      /\ batches' = batches /\ waking' = waking /\ away' \in BOOLEAN /\ idle' \subseteq Members
  <2>1. away \in BOOLEAN /\ idle \subseteq Members
    BY DEF All, Team, Now
  <2> QED
    BY <2>1 DEF CrewLeaves, MemberPaused
<1>2. Now' \in Team
  BY <1>1 DEF All, Team, Now
<1>3. Now'.tasks = Now.tasks /\ Now'.launches = Now.launches /\ Now'.batches = Now.batches
  BY <1>1 DEF Now
<1>4. All(Now') /\ StartAlone(Now, Now')
  BY <1>2, <1>3 DEF All, StartAlone
<1> QED
  BY <1>4 DEF Proceeds

-----------------------------------------------------------------------------
(* The next in line, the crew's return and a restart.                      *)

\* A walk over the tasks stays in a set that every step of it stays in.
LEMMA AllResumedStays ==
    ASSUME NEW V, NEW e \in V, \A a \in V, t \in Tasks : Resumed(a, t) \in V
    PROVE  AllResumed(e) \in V
<1> DEFINE F == [x \in V \X (1..K) |-> Resumed(x[1], x[2])]
           Is(w) == w = [t \in 0..K |-> IF t = 0 THEN e ELSE Resumed(w[t - 1], t)]
           w == CHOOSE w : Is(w)
<1>1. K \in Nat /\ Tasks = 1..K
  BY Sizes
<1>2. F \in [V \X (1..K) -> V]
  BY <1>1
<1>3. \A a \in V, t \in 1..K : F[<<a, t>>] = Resumed(a, t)
  OBVIOUS
<1>4. AllResumed(e) = w[K]
  BY DEF AllResumed
<1> HIDE DEF F
<1>5. PICK f \in [0..K -> V] : f[0] = e /\ \A n \in 1..K : f[n] = F[<<f[n - 1], n>>]
  <2>1. \A u \in V, G \in [V \X (1..K) -> V] : \E g \in [0..K -> V] : IsWalk(g, K, u, G)
    BY <1>1, WalkExists, Zenon
  <2> QED
    BY <1>2, <2>1 DEF IsWalk
<1>6. \A n \in 1..K : n - 1 \in 0..K /\ f[n - 1] \in V
  BY <1>1
<1>7. \A n \in 1..K : f[n] = Resumed(f[n - 1], n)
  <2>1. \A n \in 1..K : f[n] = F[<<f[n - 1], n>>]
    BY <1>5
  <2> QED
    BY <1>3, <1>6, <2>1
<1>8. Is(f)
  <2>1. ASSUME NEW n \in 0..K PROVE f[n] = IF n = 0 THEN e ELSE Resumed(f[n - 1], n)
    <3>1. CASE n = 0
      BY <1>5, <3>1
    <3>2. CASE n # 0
      BY <3>2, <1>7, <1>1
    <3> QED
      BY <3>1, <3>2
  <2> QED
    BY <2>1, <1>5
<1>9. Is(w)
  BY <1>8
<1> HIDE DEF w
<1> DEFINE S == {n \in 0..K : w[n] \in V}
<1>10. 0 \in S
  BY <1>1, <1>9
<1>11. ASSUME NEW n \in 1..K, n - 1 \in S PROVE n \in S
  <2>1. w[n] = Resumed(w[n - 1], n)
    BY <1>9, <1>1
  <2> QED
    BY <1>11, <2>1, <1>1
<1> HIDE DEF S
<1>12. \A n \in 0..K : n \in S
  BY <1>1, <1>10, <1>11, UpTo
<1> QED
  BY <1>1, <1>4, <1>12 DEF S

LEMMA AllRecoveredWalks ==
    ASSUME NEW V, NEW e \in V, \A a \in V, t \in Tasks : Recover(a, t) \in V
    PROVE  \E w \in [0..K -> V] :
              /\ w[0] = e /\ AllRecovered(e) = w[K]
              /\ \A n \in 1..K : w[n] = Recover(w[n - 1], n)
<1> DEFINE F == [x \in V \X (1..K) |-> Recover(x[1], x[2])]
           Is(w) == w = [t \in 0..K |-> IF t = 0 THEN e ELSE Recover(w[t - 1], t)]
           w == CHOOSE w : Is(w)
<1>1. K \in Nat /\ Tasks = 1..K
  BY Sizes
<1>2. F \in [V \X (1..K) -> V]
  BY <1>1
<1>3. \A a \in V, t \in 1..K : F[<<a, t>>] = Recover(a, t)
  OBVIOUS
<1>4. AllRecovered(e) = w[K]
  BY DEF AllRecovered
<1> HIDE DEF F
<1>5. PICK f \in [0..K -> V] : f[0] = e /\ \A n \in 1..K : f[n] = F[<<f[n - 1], n>>]
  <2>1. \A u \in V, G \in [V \X (1..K) -> V] : \E g \in [0..K -> V] : IsWalk(g, K, u, G)
    BY <1>1, WalkExists, Zenon
  <2> QED
    BY <1>2, <2>1 DEF IsWalk
<1>6. \A n \in 1..K : n - 1 \in 0..K /\ f[n - 1] \in V
  BY <1>1
<1>7. \A n \in 1..K : f[n] = Recover(f[n - 1], n)
  <2>1. \A n \in 1..K : f[n] = F[<<f[n - 1], n>>]
    BY <1>5
  <2> QED
    BY <1>3, <1>6, <2>1
<1>8. Is(f)
  <2>1. ASSUME NEW n \in 0..K PROVE f[n] = IF n = 0 THEN e ELSE Recover(f[n - 1], n)
    <3>1. CASE n = 0
      BY <1>5, <3>1
    <3>2. CASE n # 0
      BY <3>2, <1>7, <1>1
    <3> QED
      BY <3>1, <3>2
  <2> QED
    BY <2>1, <1>5
<1>9. Is(w)
  BY <1>8
<1> HIDE DEF w
<1> DEFINE S == {n \in 0..K : w[n] \in V}
<1>10. 0 \in S
  BY <1>1, <1>9
<1>11. ASSUME NEW n \in 1..K, n - 1 \in S PROVE n \in S
  <2>1. w[n] = Recover(w[n - 1], n)
    BY <1>9, <1>1
  <2> QED
    BY <1>11, <2>1, <1>1
<1> HIDE DEF S
<1>12. \A n \in 0..K : n \in S
  BY <1>1, <1>10, <1>11, UpTo
<1>13. w \in [0..K -> V]
  BY <1>9, <1>12 DEF S
<1>14. w[0] = e /\ \A n \in 1..K : w[n] = Recover(w[n - 1], n)
  BY <1>1, <1>9
<1> QED
  BY <1>4, <1>13, <1>14

LEMMA AllRecoveredStays ==
    ASSUME NEW V, NEW e \in V, \A a \in V, t \in Tasks : Recover(a, t) \in V
    PROVE  AllRecovered(e) \in V
<1>1. PICK w \in [0..K -> V] : AllRecovered(e) = w[K]
  BY AllRecoveredWalks
<1> QED
  BY <1>1, Sizes

\* The one that starts was queued while no task held the team.
Next1(e, g) ==
    \E t \in Tasks : \E f, k :
       /\ e.tasks[t].status = "queued" /\ \A u \in Tasks : ~BlocksNewTask(e.tasks[u])
       /\ k = [e.tasks[t] EXCEPT !.resumes = "no"] /\ Retask(e, f, t, k)
       /\ \/ e.tasks[t].resumes = "approved" /\ g = StartApproved(f, t)
          \/ e.tasks[t].resumes = "carryOn" /\ g = CarryOn(f, t)
          \/ /\ e.tasks[t].resumes \notin {"approved", "carryOn"}
             /\ g = Plans(Goes(f, t, "planning", "none"), t)

LEMMA StartNextIs ==
    ASSUME NEW e \in Team
    PROVE  StartNext(e) = e \/ Next1(e, StartNext(e))
<1> DEFINE queued == {t \in Tasks : e.tasks[t].status = "queued"}
           cleared == {t \in queued : e.tasks[t].resumes # "no"}
           S == IF cleared # {} THEN cleared ELSE queued
           t == Smallest(S)
           f == [e EXCEPT !.tasks[t].resumes = "no"]
           k == [e.tasks[t] EXCEPT !.resumes = "no"]
           g == StartNext(e)
<1>1. CASE (\E u \in Tasks : BlocksNewTask(e.tasks[u])) \/ queued = {} \/ e.idle # {}
  BY <1>1 DEF StartNext
<1>2. CASE ~((\E u \in Tasks : BlocksNewTask(e.tasks[u])) \/ queued = {} \/ e.idle # {})
  <2>1. t \in queued
    <3>1. S \in SUBSET Nat /\ S # {} /\ S \subseteq queued
      BY <1>2, Sizes
    <3> HIDE DEF S
    <3>2. t \in S
      BY <3>1, SmallestOf
    <3> QED
      BY <3>1, <3>2
  <2>2. g = CASE e.tasks[t].resumes = "approved" -> StartApproved(f, t)
              [] e.tasks[t].resumes = "carryOn"  -> CarryOn(f, t)
              [] OTHER -> Plans(Goes(f, t, "planning", "none"), t)
    BY <1>2 DEF StartNext
  <2> HIDE DEF t
  <2>3. t \in Tasks /\ e.tasks[t].status = "queued"
    BY <2>1
  <2>4. e.tasks[t] \in Task
    BY <2>3 DEF Team
  <2>5. k \in Task
    BY <2>4 DEF Task
  <2>6. Retask(e, f, t, k)
    BY <2>3, <2>5, PutIs
  <2> HIDE DEF f, k, g
  <2>7. \/ e.tasks[t].resumes = "approved" /\ g = StartApproved(f, t)
        \/ e.tasks[t].resumes = "carryOn" /\ g = CarryOn(f, t)
        \/ /\ e.tasks[t].resumes \notin {"approved", "carryOn"}
           /\ g = Plans(Goes(f, t, "planning", "none"), t)
    BY <2>2
  <2>8. \A u \in Tasks : ~BlocksNewTask(e.tasks[u])
    BY <1>2
  <2>9. k = [e.tasks[t] EXCEPT !.resumes = "no"]
    BY DEF k
  <2>10. Next1(e, g)
    BY <2>3, <2>6, <2>7, <2>8, <2>9 DEF Next1
  <2> QED
    BY <2>10 DEF g
<1> QED
  BY <1>1, <1>2

LEMMA StartNextOutcome ==
    ASSUME NEW e, All(e)
    PROVE  Outcome(e, StartNext(e))
<1> DEFINE g == StartNext(e)
<1>1. e \in Team
  BY DEF All
<1>2. CASE g = e
  BY <1>2 DEF Outcome, StartAlone
<1>3. CASE Next1(e, g)
  <2> HIDE DEF g
  <2>0. PICK t \in Tasks : \E f, k :
          /\ e.tasks[t].status = "queued" /\ \A u \in Tasks : ~BlocksNewTask(e.tasks[u])
          /\ k = [e.tasks[t] EXCEPT !.resumes = "no"] /\ Retask(e, f, t, k)
          /\ \/ g = StartApproved(f, t) \/ g = CarryOn(f, t)
             \/ g = Plans(Goes(f, t, "planning", "none"), t)
    BY <1>3 DEF Next1
  <2>1. PICK f, k :
          /\ e.tasks[t].status = "queued" /\ \A u \in Tasks : ~BlocksNewTask(e.tasks[u])
          /\ k = [e.tasks[t] EXCEPT !.resumes = "no"] /\ Retask(e, f, t, k)
          /\ \/ g = StartApproved(f, t) \/ g = CarryOn(f, t)
             \/ g = Plans(Goes(f, t, "planning", "none"), t)
    BY <2>0
  <2>2. Fine(e, t) /\ Others(e, t) /\ e.tasks[t] \in Task
    BY <1>1, AllOthers DEF Team
  <2>3. f \in Team /\ Held(t, f.launches[t], f.batches) /\ Local(e, f, t)
    BY <2>1, <2>2, RetaskLocal DEF Retask, Fine
  <2>4. Fine(g, t) /\ Local(f, g, t)
    <3>1. CASE g = StartApproved(f, t)
      BY <2>3, <3>1, StartApprovedKept
    <3>2. CASE g = CarryOn(f, t)
      BY <2>3, <3>2, CarryOnKept
    <3>3. CASE g = Plans(Goes(f, t, "planning", "none"), t)
      <4> DEFINE h == Goes(f, t, "planning", "none")
      <4>1. k.status = "queued"
        BY <2>1, <2>2 DEF Task
      <4>2. Fine(f, t)
        BY <2>1, <2>3, <4>1 DEF Fine, Sited, Retask
      <4>3. Kept(f, h, t)
        BY <4>2, GoesKept DEF TaskStatus, Whys
      <4> HIDE DEF h
      <4>4. Same(h, g)
        BY <3>3, <4>3, PlansSame DEF Kept, Fine, h
      <4>5. Kept(h, g, t)
        BY <4>3, <4>4, SameKept DEF Kept, Calmly
      <4> QED
        BY <4>3, <4>5, LocalTrans DEF Kept
    <3> QED
      BY <2>1, <3>1, <3>2, <3>3
  <2>5. Kept(e, g, t)
    BY <2>3, <2>4, LocalTrans DEF Kept
  <2>6. Alone(e, g.tasks[t], t)
    BY <2>1 DEF Alone, AtWork, BlocksNewTask
  <2>7. Outcome(e, g)
    BY <2>2, <2>5, <2>6, OutcomeOf
  <2> QED
    BY <2>7 DEF g
<1> QED
  BY <1>1, <1>2, <1>3, StartNextIs

LEMMA WakeUpProceeds ==
    ASSUME All(Now), WakeUp
    PROVE  Proceeds
<1> DEFINE e == [Now EXCEPT !.waking = FALSE]
           f == StartNext(e)
<1>1. Becomes(f)
  BY DEF WakeUp
<1>2. Now \in Team
  BY NowIs
<1>3. Same(Now, e)
  BY <1>2 DEF Same, Team
<1> HIDE DEF e
<1>4. All(e)
  BY <1>3, SameAll
<1>5. Outcome(e, f)
  BY <1>4, StartNextOutcome
<1> HIDE DEF f
<1>6. Outcome(Now, f)
  BY <1>3, <1>5 DEF Outcome, StartAlone, Same
<1> QED
  BY <1>1, <1>6, Lands DEF Proceeds

\* What is not at work stays where it is.
Rested(e, f) == \A t \in Tasks : ~AtWork(e.tasks[t]) =>
    f.tasks[t].status = e.tasks[t].status /\ f.tasks[t].why = e.tasks[t].why

LEMMA RestedAlone ==
    ASSUME NEW e, NEW f, Rested(e, f)
    PROVE  StartAlone(e, f)
  BY DEF Rested, StartAlone, AtWork

LEMMA ResumedRests ==
    ASSUME NEW d, NEW e, NEW t \in Tasks, All(e), Rested(d, e)
    PROVE  All(Resumed(e, t)) /\ Rested(d, Resumed(e, t))
<1> DEFINE f == Resumed(e, t)
<1>1. CASE e.tasks[t].status = "waiting" /\ e.tasks[t].why = "away"
  <2>1. f = CarryOn(e, t)
    BY <1>1 DEF Resumed
  <2>2. e \in Team /\ Held(t, e.launches[t], e.batches) /\ Others(e, t)
    BY AllOthers DEF All
  <2> HIDE DEF f
  <2>3. Kept(e, f, t)
    BY <2>1, <2>2, CarryOnKept DEF Kept
  <2>4. All(f)
    BY <2>2, <2>3, AllKept
  <2>5. \A u \in Tasks \ {t} : f.tasks[u] = e.tasks[u]
    BY <2>3 DEF Kept, Local, Slice
  <2>6. AtWork(d.tasks[t])
    BY <1>1 DEF Rested, AtWork
  <2>7. Rested(d, f)
    BY <2>5, <2>6 DEF Rested
  <2> QED
    BY <2>4, <2>7 DEF f
<1>2. CASE ~(e.tasks[t].status = "waiting" /\ e.tasks[t].why = "away")
  BY <1>2 DEF Resumed
<1> QED
  BY <1>1, <1>2

LEMMA CrewReturnsProceeds ==
    ASSUME All(Now), CrewReturns
    PROVE  Proceeds
<1> DEFINE e == [Now EXCEPT !.away = FALSE]
           f == AllResumed(e)
           V == {x \in Team : All(x) /\ Rested(e, x)}
<1>1. Becomes(f)
  BY DEF CrewReturns
<1>2. Now \in Team
  BY NowIs
<1>3. Same(Now, e)
  BY <1>2 DEF Same, Team
<1> HIDE DEF e
<1>4. All(e)
  BY <1>3, SameAll
<1>5. e \in V
  BY <1>4 DEF Rested, All
<1>6. \A a \in V, t \in Tasks : Resumed(a, t) \in V
  <2> SUFFICES ASSUME NEW a \in V, NEW t \in Tasks PROVE Resumed(a, t) \in V
    OBVIOUS
  <2>1. All(Resumed(a, t)) /\ Rested(e, Resumed(a, t))
    BY ResumedRests
  <2> QED
    BY <2>1 DEF All
<1> HIDE DEF V
<1>7. f \in V
  BY <1>5, <1>6, AllResumedStays
<1> HIDE DEF f
<1>8. Outcome(e, f)
  BY <1>7, RestedAlone DEF V, Outcome
<1>9. Outcome(Now, f)
  BY <1>3, <1>8 DEF Outcome, StartAlone, Same
<1> QED
  BY <1>1, <1>9, Lands DEF Proceeds

LEMMA FoundIs ==
    ASSUME batches \in Tables, NEW p \in Piece
    PROVE  Found(p) \in Piece
<1>1. \A b : ~Lost(b) => b \in Nat
  BY TableIs DEF Lost
<1> QED
  BY <1>1 DEF Found, Piece, PieceStatus, StageStatus

LEMMA FoundInIs ==
    ASSUME batches \in Tables, NEW k \in Task
    PROVE  /\ FoundIn(k) \in Task
           /\ FoundIn(k).status = k.status /\ FoundIn(k).why = k.why /\ FoundIn(k).at = k.at
           /\ FoundIn(k).resumes = k.resumes
           /\ \A j \in Stages : /\ FoundIn(k).stages[j].status = k.stages[j].status
                                /\ \A m \in Members :
                                     FoundIn(k).stages[j].pieces[m] = Found(k.stages[j].pieces[m])
<1> DEFINE T == [j \in Stages |-> AllFound(k.stages[j])]
<1>1. FoundIn(k) = [k EXCEPT !.stages = T]
  BY DEF FoundIn
<1>2. \A j \in Stages : k.stages[j] \in Stage
  BY DEF Task
<1>3. ASSUME NEW s \in Stage
      PROVE  /\ AllFound(s) \in Stage /\ AllFound(s).status = s.status
             /\ \A m \in Members : AllFound(s).pieces[m] = Found(s.pieces[m])
  <2> DEFINE ps == [m \in Members |-> Found(s.pieces[m])]
  <2>1. \A m \in Members : s.pieces[m] \in Piece
    BY DEF Stage
  <2>2. ps \in [Members -> Piece]
    BY <2>1, FoundIs
  <2>3. AllFound(s) = [s EXCEPT !.pieces = ps]
    BY DEF AllFound
  <2>4. \A m \in Members : ps[m] = Found(s.pieces[m])
    OBVIOUS
  <2> HIDE DEF ps
  <2> QED
    BY <2>2, <2>3, <2>4 DEF Stage
<1>4. T \in [Stages -> Stage]
  BY <1>2, <1>3
<1>5. \A j \in Stages : /\ T[j].status = k.stages[j].status
                        /\ \A m \in Members : T[j].pieces[m] = Found(k.stages[j].pieces[m])
  BY <1>2, <1>3
<1> HIDE DEF T
<1> QED
  BY <1>1, <1>4, <1>5 DEF Task

LEMMA ReloadedIs ==
    ASSUME All(Now)
    PROVE  /\ Reloaded \in Team
           /\ \A t \in Tasks : Reloaded.tasks[t] = FoundIn(tasks[t])
           /\ \A t \in Tasks : Reloaded.launches[t] = NoLaunch
           /\ Reloaded.turns = {} /\ Reloaded.batches \in Tables
           /\ DOMAIN Reloaded.batches = {b \in DOMAIN batches : ~Lost(b)}
           /\ \A b \in DOMAIN Reloaded.batches :
                 Reloaded.batches[b] = [batches[b] EXCEPT !.state = "paused"]
<1> DEFINE R == [t \in Tasks |-> FoundIn(tasks[t])]
           L == [t \in Tasks |-> NoLaunch]
           D == {b \in DOMAIN batches : ~Lost(b)}
           B == [b \in D |-> [batches[b] EXCEPT !.state = "paused"]]
<1>1. /\ Now \in Team /\ Now.tasks = tasks /\ batches \in Tables
      /\ \A t \in Tasks : tasks[t] \in Task
  BY NowIs
<1>2. Reloaded = [Now EXCEPT !.planning = {}, !.turns = {}, !.waking = FALSE, !.launches = L,
                             !.batches = B, !.tasks = R]
  BY DEF Reloaded
<1>3. R \in [Tasks -> Task]
  BY <1>1, FoundInIs
<1>4. L \in [Tasks -> Launch]
  BY DEF NoLaunch, Launch
<1>5. B \in Tables
  <2>1. batches \in [DOMAIN batches -> Batch] /\ IsFiniteSet(DOMAIN batches)
        /\ DOMAIN batches \subseteq Nat \ {0}
    BY <1>1, TableIs
  <2>2. IsFiniteSet(D)
    BY <2>1, FS_Subset
  <2>3. \A b \in D : [batches[b] EXCEPT !.state = "paused"] \in Batch
    BY <2>1 DEF Batch
  <2>4. B \in [D -> Batch] /\ DOMAIN B = D /\ D \subseteq Nat \ {0}
    BY <2>1, <2>3
  <2> HIDE DEF B, D
  <2> QED
    BY <2>2, <2>4, TableIs
<1>6. \A t \in Tasks : R[t] = FoundIn(tasks[t]) /\ L[t] = NoLaunch
  OBVIOUS
<1>7. DOMAIN B = D /\ \A b \in D : B[b] = [batches[b] EXCEPT !.state = "paused"]
  OBVIOUS
<1> HIDE DEF R, L, B
<1>8. /\ Reloaded.tasks = R /\ Reloaded.launches = L /\ Reloaded.turns = {} /\ Reloaded.batches = B
      /\ Reloaded \in Team
  BY <1>1, <1>2, <1>3, <1>4, <1>5 DEF Team
<1> QED
  BY <1>5, <1>6, <1>7, <1>8

LEMMA ReloadedRests ==
    ASSUME All(Now)
    PROVE  All(Reloaded) /\ Rested(Now, Reloaded)
<1>1. /\ Reloaded \in Team
      /\ \A t \in Tasks : Reloaded.tasks[t] = FoundIn(tasks[t]) /\ Reloaded.launches[t] = NoLaunch
      /\ DOMAIN Reloaded.batches = {b \in DOMAIN batches : ~Lost(b)}
      /\ \A b \in DOMAIN Reloaded.batches :
             Reloaded.batches[b] = [batches[b] EXCEPT !.state = "paused"]
  BY ReloadedIs
<1>2. /\ batches \in Tables /\ Now.tasks = tasks
      /\ \A t \in Tasks : tasks[t] \in Task /\ Sited(tasks[t])
  BY NowIs DEF Fine
<1>3. \A t \in Tasks : /\ Reloaded.tasks[t].status = tasks[t].status
                       /\ Reloaded.tasks[t].why = tasks[t].why
                       /\ Reloaded.tasks[t].at = tasks[t].at
  BY <1>1, <1>2, FoundInIs
<1>4. \A b \in DOMAIN Reloaded.batches : Reloaded.batches[b].state = "paused"
  <2>1. batches \in [DOMAIN batches -> Batch]
    BY <1>2, TableIs
  <2> QED
    BY <1>1, <2>1 DEF Batch
<1>5. \A t \in Tasks : Held(t, Reloaded.launches[t], Reloaded.batches)
  BY <1>1, <1>4, HeldIdle DEF NoneStarting
<1>6. \A t \in Tasks : Sited(Reloaded.tasks[t])
  BY <1>2, <1>3 DEF Sited
<1> QED
  BY <1>1, <1>2, <1>3, <1>5, <1>6 DEF All, Rested

\* Where recovering a task begins.
RecoverIs(e, t, f) ==
    \/ f = e \/ f = Plans(e, t)
    \/ /\ e.tasks[t].status = "running"
       /\ \/ \E status \in {"review", "done"} : f = Goes(e, t, status, "none")
          \/ f = Advance(e, t)
          \/ \E d : /\ e.tasks[t].at \in Stages
                    /\ Retask(e, d, t, Marked(e.tasks[t], e.tasks[t].at, "pending"))
                    /\ f = Advance(d, t)
          \/ e.tasks[t].at \in Stages /\ f = LaunchStage(e, t, e.tasks[t].at)
          \/ f = CheckStage(Persist(e, t), t)

LEMMA Recovers ==
    ASSUME NEW e \in Team, NEW t \in Tasks
    PROVE  RecoverIs(e, t, Recover(e, t))
<1> DEFINE k == e.tasks[t]
           j == k.at
           d == [e EXCEPT !.tasks[t].stages[j].status = "pending"]
<1>1. j \in Stages => Retask(e, d, t, Marked(k, j, "pending"))
  BY MarkRetasks DEF StageStatus
<1>2. Finish(e, t) = Goes(e, t, "review", "none") \/ Finish(e, t) = Goes(e, t, "done", "none")
  BY DEF Finish
<1> HIDE DEF d
<1> QED
  BY <1>1, <1>2 DEF Recover, RecoverIs, d

LEMMA RecoverRests ==
    ASSUME NEW d, NEW e, NEW t \in Tasks, All(e), Rested(d, e)
    PROVE  All(Recover(e, t)) /\ Rested(d, Recover(e, t))
<1> DEFINE f == Recover(e, t)
           k == e.tasks[t]
<1>1. e \in Team /\ Fine(e, t) /\ Others(e, t) /\ k \in Task
  BY AllOthers, Typed DEF All, Team
<1>2. RecoverIs(e, t, f)
  BY <1>1, Recovers
<1> HIDE DEF f
<1>3. CASE f = e
  BY <1>3 DEF f
<1>4. CASE f = Plans(e, t)
  <2>1. Same(e, f)
    BY <1>1, <1>4, PlansSame
  <2>2. All(f)
    BY <2>1, SameAll
  <2>3. Rested(d, f)
    BY <2>1 DEF Rested, Same
  <2> QED
    BY <2>2, <2>3 DEF f
<1>5. ASSUME k.status = "running", Kept(e, f, t) PROVE All(f) /\ Rested(d, f)
  <2>1. All(f)
    BY <1>1, <1>5, AllKept
  <2>2. \A u \in Tasks \ {t} : f.tasks[u] = e.tasks[u]
    BY <1>5 DEF Kept, Local, Slice
  <2>3. AtWork(d.tasks[t])
    BY <1>5 DEF Rested, AtWork
  <2> QED
    BY <2>1, <2>2, <2>3 DEF Rested
<1>6. ASSUME NEW c, Retask(e, c, t, k) \/ (k.at \in Stages /\ Retask(e, c, t, Marked(k, k.at, "pending")))
      PROVE  Kept(e, c, t)
  <2>1. Sited(k)
    BY <1>1 DEF Fine
  <2>2. k.at \in Stages => Sited(Marked(k, k.at, "pending"))
    BY <1>1, MarkedIs DEF Sited, StageStatus
  <2> QED
    BY <1>1, <1>6, <2>1, <2>2, RetaskKept
<1>7. CASE \E status \in {"review", "done"} : k.status = "running" /\ f = Goes(e, t, status, "none")
  <2>1. Kept(e, f, t)
    BY <1>1, <1>7, GoesKept DEF TaskStatus, Whys
  <2> QED
    BY <1>5, <1>7, <2>1 DEF f
<1>8. CASE k.status = "running" /\ f = Advance(e, t)
  <2>1. Kept(e, f, t)
    BY <1>1, <1>8, AdvanceKept DEF Calmly
  <2> QED
    BY <1>5, <1>8, <2>1 DEF f
<1>9. ASSUME NEW c, k.status = "running", k.at \in Stages, Retask(e, c, t, Marked(k, k.at, "pending")),
             f = Advance(c, t)
      PROVE  All(f) /\ Rested(d, f)
  <2>1. Kept(e, c, t)
    BY <1>6, <1>9
  <2>2. Kept(c, f, t)
    BY <1>9, <2>1, AdvanceKept DEF Calmly, Kept
  <2>3. Kept(e, f, t)
    BY <2>1, <2>2, KeptTrans
  <2> QED
    BY <1>5, <1>9, <2>3
<1>10. CASE k.status = "running" /\ k.at \in Stages /\ f = LaunchStage(e, t, k.at)
  <2>1. Kept(e, f, t)
    BY <1>1, <1>10, LaunchStageKept DEF Calmly
  <2> QED
    BY <1>5, <1>10, <2>1 DEF f
<1>11. CASE k.status = "running" /\ f = CheckStage(Persist(e, t), t)
  <2> DEFINE c == Persist(e, t)
  <2>1. Retask(e, c, t, k)
    BY <1>1, PersistKeeps
  <2> HIDE DEF c
  <2>2. Kept(e, c, t)
    BY <1>6, <2>1
  <2>3. Kept(c, f, t)
    BY <1>11, <2>2, CheckStageKept DEF Calmly, Kept, c
  <2>4. Kept(e, f, t)
    BY <2>2, <2>3, KeptTrans
  <2> QED
    BY <1>5, <1>11, <2>4 DEF f
<1> QED
  BY <1>2, <1>3, <1>4, <1>7, <1>8, <1>9, <1>10, <1>11 DEF RecoverIs, f

LEMMA RestartProceeds ==
    ASSUME All(Now), Restart
    PROVE  Proceeds
<1> DEFINE V == {x \in Team : All(x) /\ Rested(Now, x)}
           e == AllRecovered(Reloaded)
           f == StartNext(e)
<1>1. Becomes(f)
  BY DEF Restart
<1>2. Reloaded \in V
  BY ReloadedRests DEF All
<1>3. \A a \in V, t \in Tasks : Recover(a, t) \in V
  <2> SUFFICES ASSUME NEW a \in V, NEW t \in Tasks PROVE Recover(a, t) \in V
    OBVIOUS
  <2>1. All(Recover(a, t)) /\ Rested(Now, Recover(a, t))
    BY RecoverRests
  <2> QED
    BY <2>1 DEF All
<1> HIDE DEF V
<1>4. e \in V
  BY <1>2, <1>3, AllRecoveredStays
<1> HIDE DEF e
<1>5. All(e) /\ Rested(Now, e)
  BY <1>4 DEF V
<1>6. Outcome(e, f)
  BY <1>5, StartNextOutcome
<1> HIDE DEF f
<1>7. StartAlone(Now, f)
  BY <1>5, <1>6 DEF Outcome, StartAlone, Rested, AtWork
<1>8. Outcome(Now, f)
  BY <1>6, <1>7 DEF Outcome
<1> QED
  BY <1>1, <1>8, Lands DEF Proceeds

-----------------------------------------------------------------------------
(* The results.                                                            *)

LEMMA AllInit ==
    ASSUME Init
    PROVE  All(Now)
<1>1. [b \in {} |-> {}] \in Tables
  <2> DEFINE B == [b \in {} |-> {}]
  <2>1. DOMAIN B = {} /\ B \in [{} -> Batch] /\ IsFiniteSet({})
    BY FS_EmptySet
  <2> HIDE DEF B
  <2>2. B \in Tables
    BY <2>1, TableIs
  <2> QED
    BY <2>2 DEF B
<1>2. [t \in Tasks |-> NewTask] \in [Tasks -> Task]
  BY NewTaskIs
<1>3. [t \in Tasks |-> NoLaunch] \in [Tasks -> Launch]
  BY DEF NoLaunch, Launch
<1>4. /\ Now.tasks = tasks /\ Now.planning = planning /\ Now.turns = turns
      /\ Now.launches = launches /\ Now.batches = batches /\ Now.idle = idle
      /\ Now.away = away /\ Now.waking = waking
  BY DEF Now
<1>5. tasks \in [Tasks -> Task] /\ launches \in [Tasks -> Launch] /\ batches \in Tables
  BY <1>1, <1>2, <1>3 DEF Init
<1>6. planning = {} /\ turns = {} /\ waking = FALSE /\ away = FALSE /\ idle = {}
  BY DEF Init
<1>7. Now \in Team
  BY <1>5, <1>6 DEF Now, Team
<1>8. \A t \in Tasks : tasks[t] = NewTask /\ launches[t] = NoLaunch /\ DOMAIN batches = {}
  BY DEF Init
<1>9. \A t \in Tasks : Sited(tasks[t]) /\ Held(t, launches[t], batches)
  BY <1>8, NewTaskIs, HeldIdle DEF Sited, NoneStarting
<1> QED
  BY <1>4, <1>7, <1>9 DEF All

LEMMA TypeIs == All(Now) => TypeOK
<1> SUFFICES ASSUME All(Now) PROVE TypeOK
  OBVIOUS
<1>1. /\ tasks \in [Tasks -> Task] /\ planning \subseteq Tasks /\ turns \subseteq Tasks \X Stages
      /\ launches \in [Tasks -> Launch] /\ batches \in Tables
      /\ waking \in BOOLEAN /\ away \in BOOLEAN /\ idle \subseteq Members
  BY DEF All, Team, Now
<1> QED
  BY <1>1, TableIs DEF TypeOK

LEMMA NextProceeds ==
    ASSUME All(Now), Next
    PROVE  Proceeds
<1>1. CASE WakeUp
  BY <1>1, WakeUpProceeds
<1>2. CASE CrewLeaves \/ \E m \in Members : MemberPaused(m)
  BY <1>2, CrewProceeds
<1>3. CASE CrewReturns
  BY <1>3, CrewReturnsProceeds
<1>4. CASE Restart
  BY <1>4, RestartProceeds
<1>5. CASE \E b \in DOMAIN batches :
             BatchEnds(b) \/ \E how \in {"running", "paused"} : BatchChanges(b, how)
  BY <1>5, BatchChangesProceeds DEF BatchEnds, Hows
<1>6. ASSUME NEW t \in Tasks,
             \/ LaunchStep(t) \/ PlanStep(t) \/ Person(t) \/ Spends(t) \/ CommissionRejects(t)
             \/ \E j \in Stages : TurnStep(t, j)
      PROVE  Proceeds
  <2>1. CASE LaunchStep(t)
    BY <2>1, RestoreReturnsProceeds, CommissionRefusedProceeds, LaunchEndsProceeds,
       CommissionReturnsProceeds DEF LaunchStep
  <2>2. CASE PlanStep(t)
    BY <2>2, PlanReturnsProceeds DEF PlanStep
  <2>3. CASE Spends(t)
    BY <2>3, SpendsProceeds
  <2>4. CASE \E j \in Stages : TurnStep(t, j)
    BY <2>4, TurnReturnsProceeds DEF TurnStep
  <2>5. CASE Person(t)
    <3>1. CASE Brief(t) \/ Answer(t) \/ Revise(t) \/ Approve(t) \/ ContinueTask(t)
      BY <3>1, BriefProceeds, AnswerProceeds, ApproveProceeds, ContinueTaskProceeds
    <3>2. CASE RetryPlan(t) \/ Retry(t) \/ Cancel(t) \/ Accept(t) \/ DeleteTask(t)
      BY <3>2, RetryPlanProceeds, RetryProceeds, CancelProceeds, AcceptProceeds, DeleteTaskProceeds
    <3>3. CASE \E m \in Members : RetryPiece(t, m) \/ RedoPiece(t, m)
      BY <3>3, RetryPieceProceeds, RedoPieceProceeds
    <3>4. CASE \E j \in Stages : SkipStage(t, j) \/ \E m \in Members : SkipPiece(t, j, m)
      BY <3>4, SkipStageProceeds, SkipPieceProceeds
    <3> QED
      BY <2>5, <3>1, <3>2, <3>3, <3>4 DEF Person
  <2>6. CASE CommissionRejects(t)
    BY <2>6, CommissionRejectsProceeds
  <2> QED
    BY <1>6, <2>1, <2>2, <2>3, <2>4, <2>5, <2>6
<1> QED
  BY <1>1, <1>2, <1>3, <1>4, <1>5, <1>6 DEF Next

LEMMA AllStep ==
    ASSUME All(Now), [Next]_vars
    PROVE  Proceeds
<1>1. CASE Next
  BY <1>1, NextProceeds
<1>2. CASE UNCHANGED vars
  <2>1. Now' = Now
    BY <1>2 DEF vars, Now
  <2>2. All(Now')
    BY <2>1
  <2>3. StartAlone(Now, Now')
    BY <2>1 DEF StartAlone
  <2> QED
    BY <2>2, <2>3 DEF Proceeds
<1> QED
  BY <1>1, <1>2

\* The tables hold what they are declared to, whatever happens; a commission in flight
\* holds the batch it started.
THEOREM AllHold == Spec => []All(Now)
<1>1. Init => All(Now)
  BY AllInit
<1>2. All(Now) /\ [Next]_vars => All(Now)'
  BY AllStep DEF Proceeds
<1> QED
  BY <1>1, <1>2, PTL DEF Spec

\* The tables hold what they are declared to, after every handler (teamEngine.ts).
THEOREM TypeHolds == Spec => []TypeOK
<1>1. All(Now) => TypeOK
  BY TypeIs
<1> QED
  BY <1>1, AllHold, PTL

\* However the approvals, the ends and the crew's return come, a task comes to work only
\* when no other does.
THEOREM TasksStartAlone == Spec => StartsAlone
<1>1. ASSUME All(Now), [Next]_vars
      PROVE  \A t \in Tasks : Working(t)' /\ ~Working(t) /\ tasks[t].status # "waiting"
                => \A u \in Tasks \ {t} : ~Working(u)'
  <2>1. StartAlone(Now, Now')
    BY <1>1, AllStep DEF Proceeds
  <2>2. Now.tasks = tasks /\ Now'.tasks = tasks'
    BY DEF Now
  <2>3. \A t \in Tasks : (Working(t) <=> AtWork(tasks[t])) /\ (Working(t)' <=> AtWork(tasks'[t]))
    BY DEF Working, AtWork
  <2> QED
    BY <2>1, <2>2, <2>3 DEF StartAlone
<1>2. All(Now) /\ [Next]_vars
        => [\A t \in Tasks : Working(t)' /\ ~Working(t) /\ tasks[t].status # "waiting"
              => \A u \in Tasks \ {t} : ~Working(u)']_vars
  BY <1>1
<1> QED
  BY <1>2, AllHold, PTL DEF Spec, StartsAlone
=============================================================================
