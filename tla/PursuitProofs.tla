--------------------------- MODULE PursuitProofs ----------------------------
(***************************************************************************)
(* What a person, the crew and a restart may do to a task, each of which   *)
(* settles it in the sense of TaskProofs; and what follows for the stages, *)
(* the runs and the tasks of a team.                                       *)
(***************************************************************************)
EXTENDS TaskProofs

(* From the brief to an approved plan.                                     *)

LEMMA CarryOnSettles ==
    ASSUME NEW e \in Team, NEW t \in Tasks, NEW k, NEW l, NEW T, NEW B, Own(e, t, k, l, T, B),
           LET n == Turned(k, "running", "none")
           IN  Fit(t, n, l, T, B) /\ Onward(n, l, T)
    PROVE  Settles(e, CarryOn(e, t), t)
<1> DEFINE n == Turned(k, "running", "none")  f == Goes(e, t, "running", "none")
<1>1. "running" \in TaskStatus /\ "none" \in Whys /\ e.tasks[t] = k
  BY OwnIs DEF TaskStatus, Whys
<1>2. Retask(e, f, t, n)
  BY <1>1, GoesRetasks
<1>3. Fit(t, n, l, T, B) /\ Onward(n, l, T)
  OBVIOUS
<1> HIDE DEF n, f
<1>4. Own(f, t, n, l, T, B) /\ f \in Team /\ Local(e, f, t)
  BY <1>2, RetaskOwn, RetaskLocal, OwnIs
<1>5. Settles(f, Advance(f, t), t)
  BY <1>3, <1>4, AdvanceSettles
<1>6. Settles(e, Advance(f, t), t)
  BY <1>4, <1>5, SettlesTrans
<1> QED
  BY <1>6 DEF CarryOn, f

LEMMA QueuedSettles ==
    ASSUME NEW e \in Team, NEW t \in Tasks, NEW k, NEW l, NEW T, NEW B, Own(e, t, k, l, T, B),
           NEW resumes \in {"approved", "carryOn"},
           LET n == Turned([k EXCEPT !.resumes = resumes], "queued", "none")
           IN  Fit(t, n, l, T, B) /\ Waits(n, l) /\ Pursued(n, l, T)
    PROVE  Settles(e, Queued(e, t, resumes), t)
<1> DEFINE x == [k EXCEPT !.resumes = resumes]
           g == [e EXCEPT !.tasks[t].resumes = resumes]
           f == Goes(g, t, "queued", "none")
<1>1. e.tasks[t] = k /\ k \in Task
  BY OwnIs, OwnTypes
<1>2. x \in Task
  BY <1>1 DEF Task
<1>3. Retask(e, g, t, x)
  <2>1. g = [e EXCEPT !.tasks[t] = x]
    BY <1>1
  <2> HIDE DEF x, g
  <2> QED
    BY <1>2, <2>1, PutIs
<1>4. "queued" \in TaskStatus /\ "none" \in Whys
  BY DEF TaskStatus, Whys
<1>5. /\ Fit(t, Turned(x, "queued", "none"), l, T, B) /\ Waits(Turned(x, "queued", "none"), l)
      /\ Pursued(Turned(x, "queued", "none"), l, T)
  OBVIOUS
<1>6. Queued(e, t, resumes) = f
  BY DEF Queued
<1> HIDE DEF g, x
<1>7. Own(g, t, x, l, T, B) /\ g \in Team /\ Local(e, g, t)
  BY <1>3, RetaskOwn, RetaskLocal, OwnIs
<1> HIDE DEF f
<1>8. Settles(g, f, t)
  BY <1>4, <1>5, <1>7, GoesSettles DEF f
<1> QED
  BY <1>6, <1>7, <1>8, SettlesTrans

\* A task not yet begun that goes to a status which is not work, after changes of its own.
LEMMA EarlyGoes ==
    ASSUME NEW e \in Team, NEW t \in Tasks, NEW k, NEW B, Own(e, t, k, NoLaunch, {}, B), NoneOf(t, B),
           NEW f, NEW x \in Task, Retask(e, f, t, x), Unbegun(x), x.at = 1, x.resumes # "carryOn",
           NEW status \in TaskStatus \ {"running", "waiting"}
    PROVE  /\ Settles(e, Goes(f, t, status, "none"), t)
           /\ Settles(e, Plans(Goes(f, t, status, "none"), t), t)
<1> DEFINE n == Turned(x, status, "none")  g == Goes(f, t, status, "none")
<1>1. "none" \in Whys
  BY DEF Whys
<1>2. n \in Task /\ n.status = status /\ n.why = "none" /\ n.at = 1 /\ n.stages = x.stages
      /\ n.resumes = x.resumes
  BY <1>1, TurnedIs
<1>3. Own(f, t, x, NoLaunch, {}, B) /\ f \in Team /\ Local(e, f, t)
  BY RetaskOwn, RetaskLocal, OwnIs
<1> HIDE DEF n
<1>4. Unbegun(n) /\ (Early(n) => n.resumes # "carryOn")
  BY <1>2 DEF Unbegun
<1>5. Fit(t, n, NoLaunch, {}, B)
  BY <1>2, <1>4, UnbegunFit
<1>6. Waits(n, NoLaunch) /\ Pursued(n, NoLaunch, {})
  BY <1>2 DEF Waits, Pursued
<1>7. Settles(f, g, t)
  BY <1>1, <1>3, <1>5, <1>6, GoesSettles DEF n
<1> HIDE DEF g
<1>8. Settles(e, g, t)
  BY <1>3, <1>7, SettlesTrans
<1>9. Same(g, Plans(g, t))
  BY <1>8, PlansSame DEF Settles
<1>10. Settles(e, Plans(g, t), t)
  BY <1>8, <1>9, SettlesSame
<1> QED
  BY <1>8, <1>10 DEF g

LEMMA EarlyNow ==
    ASSUME AllFull(Now), NEW t \in Tasks, Early(tasks[t])
    PROVE  /\ Now \in Team /\ Own(Now, t, tasks[t], NoLaunch, {}, batches) /\ NoneOf(t, batches)
           /\ tasks[t] \in Task /\ Now.tasks = tasks /\ Retask(Now, Now, t, tasks[t])
           /\ Unbegun(tasks[t]) /\ tasks[t].at = 1 /\ tasks[t].resumes # "carryOn"
<1> DEFINE k == tasks[t]  l == launches[t]  T == TurnsOf(Now, t)  B == batches
<1>1. /\ Now \in Team /\ Own(Now, t, k, l, T, B) /\ Fit(t, k, l, T, B) /\ k \in Task /\ B \in Tables
      /\ Now.tasks = tasks
  BY FullNow DEF Begins
<1>2. Retask(Now, Now, t, k)
  BY <1>1 DEF Retask
<1> SUFFICES /\ Own(Now, t, k, NoLaunch, {}, B) /\ NoneOf(t, B)
             /\ Unbegun(k) /\ k.at = 1 /\ k.resumes # "carryOn"
  BY <1>1, <1>2
<1>3. Early(k)
  OBVIOUS
<1> HIDE DEF k, l, T, B
<1>4. /\ l = NoLaunch /\ T = {} /\ k.at = 1 /\ k.resumes # "carryOn"
      /\ Unbegun(k) /\ NoneOf(t, B)
  BY <1>1, <1>3, EarlyUnbegun
<1> QED
  BY <1>1, <1>4

LEMMA BriefFull ==
    ASSUME AllFull(Now), NEW t \in Tasks, Brief(t)
    PROVE  AllFull(Now)'
<1> DEFINE f == Goes(Now, t, "queued", "none")
           g == Plans(Goes(Now, t, "planning", "none"), t)
<1>1. (Becomes(f) \/ Becomes(g)) /\ tasks[t].status = "none"
  BY DEF Brief
<1>2. {"queued", "planning"} \subseteq TaskStatus \ {"running", "waiting"}
  BY DEF TaskStatus
<1>3. Early(tasks[t])
  BY <1>1 DEF Early
<1>4. Settles(Now, f, t) /\ Settles(Now, g, t)
  BY <1>2, <1>3, EarlyNow, EarlyGoes
<1> HIDE DEF f, g
<1> QED
  BY <1>1, <1>4, FullLands

LEMMA AskAgainFull ==
    ASSUME AllFull(Now), NEW t \in Tasks, NEW said \in {"answers", "feedback"},
           Becomes(AskAgain(Now, t, said)), Early(tasks[t])
    PROVE  AllFull(Now)'
<1> DEFINE k == [tasks[t] EXCEPT !.said = said]
           g == [Now EXCEPT !.tasks[t].said = said]
           f == Plans(Goes(g, t, "planning", "none"), t)
<1>1. Becomes(f)
  BY DEF AskAgain
<1>2. Now \in Team /\ tasks[t] \in Task /\ Now.tasks = tasks
  BY EarlyNow
<1>3. k \in Task /\ k.stages = tasks[t].stages /\ k.at = tasks[t].at /\ k.resumes = tasks[t].resumes
  BY <1>2 DEF Task
<1>4. Retask(Now, g, t, k)
  <2>1. g = [Now EXCEPT !.tasks[t] = k]
    BY <1>2
  <2> HIDE DEF k, g
  <2> QED
    BY <1>2, <1>3, <2>1, PutIs
<1>5. "planning" \in TaskStatus \ {"running", "waiting"}
  BY DEF TaskStatus
<1> HIDE DEF g, k
<1>6. Unbegun(k) /\ k.at = 1 /\ k.resumes # "carryOn"
  BY <1>3, EarlyNow DEF Unbegun
<1>7. Settles(Now, f, t)
  BY <1>3, <1>4, <1>5, <1>6, EarlyNow, EarlyGoes
<1> HIDE DEF f
<1> QED
  BY <1>1, <1>7, FullLands

LEMMA AnswerFull ==
    ASSUME AllFull(Now), NEW t \in Tasks, Answer(t) \/ Revise(t)
    PROVE  AllFull(Now)'
<1>1. Early(tasks[t])
  BY DEF Answer, Revise, Early
<1> QED
  BY <1>1, AskAgainFull DEF Answer, Revise

LEMMA RetryPlanFull ==
    ASSUME AllFull(Now), NEW t \in Tasks, RetryPlan(t)
    PROVE  AllFull(Now)'
<1> DEFINE f == Plans(Goes(Now, t, "planning", "none"), t)
<1>1. Becomes(f) /\ Early(tasks[t])
  BY DEF RetryPlan, Early
<1>2. "planning" \in TaskStatus \ {"running", "waiting"}
  BY DEF TaskStatus
<1>3. Settles(Now, f, t)
  BY <1>1, <1>2, EarlyNow, EarlyGoes
<1> HIDE DEF f
<1> QED
  BY <1>1, <1>3, FullLands

LEMMA PlanReturnsFull ==
    ASSUME AllFull(Now), NEW t \in Tasks, NEW reply \in {"plan", "questions", "answer", "error"},
           PlanReturns(t, reply)
    PROVE  AllFull(Now)'
<1> DEFINE over == [Now EXCEPT !.planning = @ \ {t}]
           f == Replied(over, t, reply)
           k == tasks[t]  l == launches[t]  T == TurnsOf(Now, t)  B == batches
<1>1. Becomes(f)
  <2>1. over.tasks = tasks
    BY FullNow DEF Team
  <2>2. Becomes(IF tasks[t].status # "planning" THEN over
                ELSE CASE reply = "plan"      -> Goes([over EXCEPT !.tasks[t].stages = Planned, !.tasks[t].planned = TRUE,
                             !.tasks[t].at = 1], t, "proposed", "none")
                          [] reply = "questions" -> Goes(over, t, "questions", "none")
                          [] reply = "answer"    -> Goes(over, t, "done", "none")
                          [] reply = "error"     -> Goes(over, t, "failed", "none"))
    BY DEF PlanReturns
  <2> HIDE DEF over
  <2> QED
    BY <2>1, <2>2 DEF Replied
<1>2. Same(Now, over)
  BY FullNow DEF Same, Team
<1>3. /\ Now \in Team /\ Own(Now, t, k, l, T, B) /\ Fit(t, k, l, T, B) /\ Waits(k, l) /\ Pursued(k, l, T)
      /\ k \in Task
  BY FullNow DEF Begins
<1> HIDE DEF over
<1>4. Own(over, t, k, l, T, B) /\ over \in Team /\ Local(Now, over, t)
  BY <1>2, <1>3, SameOwn
<1>5. over.tasks[t] = k
  BY <1>4, OwnIs
<1>6. Early(k) => Own(Now, t, k, NoLaunch, {}, B) /\ NoneOf(t, B) /\ Unbegun(k) /\ k.at = 1
                    /\ k.resumes # "carryOn"
  BY EarlyNow
<1>7. f = IF k.status # "planning" THEN over
          ELSE CASE reply = "plan"      -> Goes([over EXCEPT !.tasks[t].stages = Planned, !.tasks[t].planned = TRUE,
                       !.tasks[t].at = 1], t, "proposed", "none")
                 [] reply = "questions" -> Goes(over, t, "questions", "none")
                 [] reply = "answer"    -> Goes(over, t, "done", "none")
                 [] reply = "error"     -> Goes(over, t, "failed", "none")
  BY <1>5 DEF Replied
<1> HIDE DEF f, k, l, T, B
<1>8. CASE k.status # "planning"
  <2>1. f = over
    BY <1>7, <1>8
  <2>2. Settles(Now, f, t)
    BY <1>3, <1>4, <2>1, StaysSettled
  <2> QED
    BY <1>1, <2>2, FullLands
<1>9. CASE k.status = "planning"
  <2>1. Early(k)
    BY <1>9 DEF Early
  <2>2. Own(over, t, k, NoLaunch, {}, B) /\ NoneOf(t, B) /\ Unbegun(k) /\ k.at = 1
          /\ k.resumes # "carryOn"
    BY <1>2, <1>6, <2>1, SameOwn
  <2>3. Retask(over, over, t, k)
    BY <1>3, <1>4, <1>5 DEF Retask
  <2>4. {"proposed", "questions", "done", "failed"} \subseteq TaskStatus \ {"running", "waiting"}
    BY DEF TaskStatus
  <2>5. CASE reply = "plan"
    <3> DEFINE g == [over EXCEPT !.tasks[t].stages = Planned, !.tasks[t].planned = TRUE,
                                 !.tasks[t].at = 1]
               x == Replanned(k)
    <3>1. Retask(over, g, t, x)
      BY <1>4, <1>5, ReplanRetasks
    <3>2. x \in Task /\ x.stages = Planned /\ x.at = 1 /\ x.resumes # "carryOn"
      BY <1>3, <2>2, ReplannedIs
    <3>3. f = Goes(g, t, "proposed", "none")
      BY <1>7, <1>9, <2>5
    <3> HIDE DEF g, x
    <3>4. PieceFit(NewPiece) /\ Idle(NewPiece)
      BY DEF PieceFit, Idle, NewPiece
    <3>5. Unbegun(x)
      BY <3>2, <3>4, NewPieces DEF Unbegun
    <3>6. Settles(over, f, t)
      BY <1>4, <2>2, <2>4, <3>1, <3>2, <3>3, <3>5, EarlyGoes
    <3>7. Settles(Now, f, t)
      BY <1>4, <3>6, SettlesTrans
    <3> QED
      BY <1>1, <3>7, FullLands
  <2>6. CASE reply # "plan"
    <3>1. PICK status \in {"questions", "done", "failed"} : f = Goes(over, t, status, "none")
      BY <1>7, <1>9, <2>6
    <3>2. Settles(over, f, t)
      BY <1>3, <1>4, <2>2, <2>3, <2>4, <3>1, EarlyGoes
    <3>3. Settles(Now, f, t)
      BY <1>4, <3>2, SettlesTrans
    <3> QED
      BY <1>1, <3>3, FullLands
  <2> QED
    BY <2>5, <2>6
<1> QED
  BY <1>8, <1>9

LEMMA StartApprovedSettles ==
    ASSUME NEW e \in Team, NEW t \in Tasks, NEW k, NEW B, Own(e, t, k, NoLaunch, {}, B), NoneOf(t, B),
           Unbegun(k)
    PROVE  Settles(e, StartApproved(e, t), t)
<1> DEFINE d == [e EXCEPT !.tasks[t].at = 1]  x == Sent(k, 1)  n == Turned(x, "running", "none")
<1>1. e.tasks[t] = k /\ k \in Task /\ 1 \in 1..(Len(Plan) + 1) /\ 1 \in Stages
  BY OwnIs, OwnTypes, Sizes
<1>2. Retask(e, d, t, x)
  BY <1>1, SendRetasks
<1>3. x \in Task /\ x.at = 1 /\ x.stages = k.stages
  BY <1>1, SentIs
<1>4. StartApproved(e, t) = CarryOn(d, t)
  BY DEF StartApproved, CarryOn
<1> HIDE DEF d, x
<1>5. Own(d, t, x, NoLaunch, {}, B) /\ d \in Team /\ Local(e, d, t)
  BY <1>2, RetaskOwn, RetaskLocal, OwnIs
<1>6. "running" \in TaskStatus /\ "none" \in Whys
  BY DEF TaskStatus, Whys
<1>7. n \in Task /\ n.status = "running" /\ n.why = "none" /\ n.at = 1 /\ n.stages = x.stages
  BY <1>3, <1>6, TurnedIs
<1> HIDE DEF n
<1>8. Unbegun(n) /\ ~Early(n)
  BY <1>3, <1>7 DEF Unbegun, Early
<1>9. Fit(t, n, NoLaunch, {}, B)
  BY <1>7, <1>8, UnbegunFit
<1>10. Onward(n, NoLaunch, {})
  BY <1>1, <1>7, <1>8 DEF Onward, Unbegun
<1>11. Settles(d, CarryOn(d, t), t)
  BY <1>5, <1>9, <1>10, CarryOnSettles DEF n
<1> QED
  BY <1>4, <1>5, <1>11, SettlesTrans

LEMMA ApproveFull ==
    ASSUME AllFull(Now), NEW t \in Tasks, Approve(t)
    PROVE  AllFull(Now)'
<1> DEFINE k == tasks[t]  B == batches
<1>1. k.status = "proposed" /\ (Becomes(Queued(Now, t, "approved")) \/ Becomes(StartApproved(Now, t)))
  BY DEF Approve
<1>2. /\ Now \in Team /\ Own(Now, t, k, NoLaunch, {}, B) /\ NoneOf(t, B) /\ k \in Task
      /\ Unbegun(k) /\ k.at = 1
  BY <1>1, EarlyNow DEF Early
<1> HIDE DEF k, B
<1>3. Settles(Now, StartApproved(Now, t), t)
  BY <1>2, StartApprovedSettles
<1>4. Settles(Now, Queued(Now, t, "approved"), t)
  <2> DEFINE x == [k EXCEPT !.resumes = "approved"]  n == Turned(x, "queued", "none")
  <2>1. x \in Task /\ x.stages = k.stages /\ x.at = 1 /\ x.resumes = "approved"
    BY <1>2 DEF Task
  <2> HIDE DEF x
  <2>2. "queued" \in TaskStatus /\ "none" \in Whys
    BY DEF TaskStatus, Whys
  <2>3. n \in Task /\ n.status = "queued" /\ n.why = "none" /\ n.at = 1 /\ n.stages = k.stages
        /\ n.resumes = "approved"
    BY <2>1, <2>2, TurnedIs
  <2> HIDE DEF n
  <2>4. Unbegun(n)
    BY <1>2, <2>3 DEF Unbegun
  <2>5. Fit(t, n, NoLaunch, {}, B)
    BY <1>2, <2>3, <2>4, UnbegunFit
  <2>6. Waits(n, NoLaunch) /\ Pursued(n, NoLaunch, {})
    BY <2>3 DEF Waits, Pursued
  <2> QED
    BY <1>2, <2>5, <2>6, QueuedSettles DEF n, x
<1> QED
  BY <1>1, <1>3, <1>4, FullLands

\* A task that is over, and has nothing under way but what its launch holds.
LEMMA EndsSettles ==
    ASSUME NEW e \in Team, NEW t \in Tasks, NEW k, NEW l, NEW T, NEW B, Own(e, t, k, l, T, B),
           Fit(t, k, l, T, B), Resting(k), NEW status \in {"done", "cancelled"}
    PROVE  Settles(e, Goes(e, t, status, "none"), t)
<1> DEFINE n == Turned(k, status, "none")
<1>1. k \in Task /\ l \in Launch /\ T \in SUBSET Stages /\ B \in Tables
  BY OwnTypes
<1>2. status \in TaskStatus /\ "none" \in Whys
  BY DEF TaskStatus, Whys
<1>3. n \in Task /\ n.status = status /\ n.why = "none" /\ n.at = k.at /\ n.stages = k.stages
  BY <1>1, <1>2, TurnedIs
<1> HIDE DEF n
<1>4. ~Active(n) /\ ~Early(n)
  BY <1>3 DEF Active, IsTaskActive, Early
<1>5. Resting(n)
  BY <1>3 DEF Resting
<1>6. StagesFit(n)
  BY <1>3 DEF Fit, StagesFit, Resting
<1>7. OnlyHeld(t, l, B)
  BY <1>1, RestingUnbatched, RestingHeld
<1>8. /\ l.at # "none" => IsMemberStage(l.stage)
      /\ l.at # "commissioning" => l.batch = 0
      /\ \A j \in T : ~IsMemberStage(j)
      /\ Held(t, l, B)
  BY DEF Fit, LaunchFit, TurnsFit
<1>9. Fit(t, n, l, T, B)
  BY <1>3, <1>4, <1>5, <1>6, <1>7, <1>8, EndedFit
<1>10. Waits(n, l) /\ Pursued(n, l, T)
  BY <1>3 DEF Waits, Pursued
<1> QED
  BY <1>2, <1>9, <1>10, GoesSettles DEF n

LEMMA AcceptFull ==
    ASSUME AllFull(Now), NEW t \in Tasks, Accept(t)
    PROVE  AllFull(Now)'
<1> DEFINE k == tasks[t]  l == launches[t]  T == TurnsOf(Now, t)  B == batches
<1>1. /\ Now \in Team /\ Own(Now, t, k, l, T, B) /\ Fit(t, k, l, T, B)
  BY FullNow DEF Begins
<1>2. Becomes(Goes(Now, t, "done", "none")) /\ k.status = "review"
  BY DEF Accept
<1> HIDE DEF k, l, T, B
<1>3. Resting(k)
  BY <1>1, <1>2, NotRunning
<1>4. Settles(Now, Goes(Now, t, "done", "none"), t)
  BY <1>1, <1>3, EndsSettles
<1> QED
  BY <1>2, <1>4, FullLands

-----------------------------------------------------------------------------
(* A gate opened, a stage passed.                                          *)

\* The stage the task is at is over, as its pieces are.
LEMMA PastFit ==
    ASSUME NEW t, NEW k \in Task, NEW l \in Launch, NEW T \in SUBSET Stages, NEW B \in Tables,
           Fit(t, k, l, T, B), Active(k), NEW j \in Stages, k.at = j,
           \A m \in Plan[j].who : Settled(k.stages[j].pieces[m]),
           NEW n \in Task, n.at = j + 1, ~Early(n), SamePieces(k, n), Settled(n.stages[j]),
           \A m \in Members : PieceFit(n.stages[j].pieces[m]),
           \A i \in Stages \ {j} : n.stages[i] = k.stages[i]
    PROVE  Fit(t, n, l, T, B) /\ Resting(n)
<1>1. StagesFit(k)
  BY DEF Fit
<1>2. \A m \in Members : Idle(k.stages[j].pieces[m])
  BY IdleAll
<1>3. Resting(n)
  BY <1>1 DEF Resting, StagesFit, Settled
<1>4. \A i \in Stages : i < n.at => i = j \/ i < k.at
  BY Sizes
<1>5. \A m \in Members : Idle(n.stages[j].pieces[m])
  BY <1>2 DEF Idle, SamePieces
<1>6. \A m \in Plan[j].who : Settled(n.stages[j].pieces[m])
  BY WhoOf DEF Settled, SamePieces
<1>7. StagesFit(n)
  <2> SUFFICES ASSUME NEW i \in Stages
               PROVE  /\ \A m \in Members : PieceFit(n.stages[i].pieces[m])
                      /\ Settled(n.stages[i]) => \A m \in Plan[i].who : Settled(n.stages[i].pieces[m])
                      /\ \A m \in Members : Idle(n.stages[i].pieces[m])
                      /\ i < n.at => Settled(n.stages[i])
    BY <1>3 DEF StagesFit, Resting
  <2>1. CASE i = j
    BY <1>5, <1>6, <2>1
  <2>2. CASE i # j
    <3>1. n.stages[i] = k.stages[i] /\ n.stages[i].status # "running" /\ (i < n.at => i < k.at)
      BY <1>3, <1>4, <2>2 DEF Resting
    <3> QED
      BY <1>1, <3>1 DEF StagesFit
  <2> QED
    BY <2>1, <2>2
<1>8. k.at <= n.at /\ n.at # k.at
  BY Sizes
<1>9. Fit(t, n, l, T, B)
  BY <1>3, <1>7, <1>8, RestFit
<1> QED
  BY <1>3, <1>9

LEMMA OpenedRests ==
    ASSUME NEW t, NEW k \in Task, NEW l \in Launch, NEW T \in SUBSET Stages, NEW B \in Tables,
           Fit(t, k, l, T, B), Waits(k, l), k.status = "waiting", NEW x, OpenedTo(k, x),
           NEW n \in Task, n.stages = x.stages, n.at = x.at, ~Early(n)
    PROVE  Fit(t, n, l, T, B) /\ Resting(n)
<1> DEFINE j == k.at  s == k.stages[j]
<1>1. Active(k) /\ j \in Stages /\ k.why \in Whys /\ k.why # "none"
  BY TaskTyped DEF Active, IsTaskActive, Waits
<1>2. CASE k.why \in {"checkpoint", "away", "budget"}
  <2>1. Cleared(k, x)
    BY <1>2 DEF OpenedTo
  <2>2. Resting(k)
    BY <1>2, NotRunning
  <2>3. n.stages = k.stages /\ n.at = k.at
    BY <2>1 DEF Cleared
  <2> QED
    BY <1>1, <2>2, <2>3, TurnFit
<1>3. CASE k.why = "failed"
  <2>1. \A m \in Plan[j].who : Settled(s.pieces[m])
    BY <1>3 DEF Waits
  <2>2. s \in Stage /\ s.pieces \in [Members -> Piece]
    BY <1>1, TaskTyped
  <2>3. \A m \in Members : PieceFit(s.pieces[m])
    BY <1>1 DEF Fit, StagesFit
  <2>4. \/ x = Passed(Restaged(k, j, Repieced(s, Unclash(s.pieces))), j, "done")
        \/ x = Passed(k, j, IF SomeDone(s) THEN "done" ELSE "failed")
    BY <1>3 DEF OpenedTo
  <2> SUFFICES /\ n.at = j + 1 /\ SamePieces(k, n) /\ Settled(n.stages[j])
               /\ \A m \in Members : PieceFit(n.stages[j].pieces[m])
               /\ \A i \in Stages \ {j} : n.stages[i] = k.stages[i]
    BY <1>1, <2>1, PastFit
  <2>5. CASE x = Passed(k, j, IF SomeDone(s) THEN "done" ELSE "failed")
    <3> DEFINE status == IF SomeDone(s) THEN "done" ELSE "failed"
    <3>1. status \in {"done", "failed"} /\ status \in StageStatus
      BY DEF StageStatus
    <3>2. x = Passed(k, j, status)
      BY <2>5
    <3> HIDE DEF status
    <3>3. /\ n.at = j + 1 /\ n.stages[j].status = status /\ n.stages[j].pieces = s.pieces
          /\ \A i \in Stages \ {j} : n.stages[i] = k.stages[i]
      BY <1>1, <3>1, <3>2, PassedIs
    <3>4. SamePieces(k, n)
      BY <3>3 DEF SamePieces
    <3> QED
      BY <2>3, <3>1, <3>3, <3>4 DEF Settled
  <2>6. CASE x = Passed(Restaged(k, j, Repieced(s, Unclash(s.pieces))), j, "done")
    <3> DEFINE us == Unclash(s.pieces)  r == Repieced(s, us)  y == Restaged(k, j, r)
    <3>1. us \in [Members -> Piece]
          /\ \A m \in Members : /\ us[m].status = s.pieces[m].status /\ us[m].batch = s.pieces[m].batch
                                /\ us[m].clash = FALSE
      BY <2>2, UnclashIs
    <3> HIDE DEF us
    <3>2. r \in Stage /\ r.pieces = us
      BY <2>2, <3>1, RepiecedIs
    <3> HIDE DEF r
    <3>3. y \in Task /\ y.stages[j] = r /\ \A i \in Stages \ {j} : y.stages[i] = k.stages[i]
      BY <1>1, <3>2, RestagedIs
    <3> HIDE DEF y
    <3>4. "done" \in StageStatus
      BY DEF StageStatus
    <3>5. x = Passed(y, j, "done")
      BY <2>6 DEF y, r, us
    <3>6. /\ n.at = j + 1 /\ n.stages[j].status = "done" /\ n.stages[j].pieces = us
          /\ \A i \in Stages \ {j} : n.stages[i] = k.stages[i]
      BY <1>1, <3>2, <3>3, <3>4, <3>5, PassedIs
    <3>7. SamePieces(k, n)
      BY <3>1, <3>6 DEF SamePieces
    <3>8. \A m \in Members : PieceFit(us[m])
      BY <2>3, <3>1 DEF PieceFit
    <3> QED
      BY <3>6, <3>7, <3>8 DEF Settled
  <2> QED
    BY <2>4, <2>5, <2>6
<1> QED
  BY <1>1, <1>2, <1>3 DEF Whys

LEMMA ContinueTaskFull ==
    ASSUME AllFull(Now), NEW t \in Tasks, ContinueTask(t)
    PROVE  AllFull(Now)'
<1> DEFINE d == Opened(t)  k == tasks[t]  l == launches[t]  T == TurnsOf(Now, t)  B == batches
<1>1. /\ k.status = "waiting"
      /\ Becomes(Queued(d, t, "carryOn")) \/ Becomes(CarryOn(d, t))
  BY DEF ContinueTask
<1>2. PICK x : Retask(Now, d, t, x) /\ OpenedTo(k, x)
  BY <1>1, FullAll, OpenedIs
<1>3. /\ Now \in Team /\ Own(Now, t, k, l, T, B) /\ Fit(t, k, l, T, B) /\ Waits(k, l)
      /\ k \in Task /\ l \in Launch /\ T \in SUBSET Stages /\ B \in Tables
  BY FullNow DEF Begins
<1> HIDE DEF d, k, l, T, B
<1>4. d \in Team /\ Own(d, t, x, l, T, B) /\ Local(Now, d, t) /\ x \in Task
  <2>1. d \in Team /\ Own(d, t, x, l, T, B) /\ Local(Now, d, t)
    BY <1>2, <1>3, RetaskOwn, RetaskLocal, OwnIs
  <2> QED
    BY <2>1, OwnTypes
<1>5. {"queued", "running"} \subseteq TaskStatus /\ "none" \in Whys
  BY DEF TaskStatus, Whys
<1>6. Settles(d, CarryOn(d, t), t)
  <2> DEFINE n == Turned(x, "running", "none")
  <2>1. n \in Task /\ n.status = "running" /\ n.why = "none" /\ n.at = x.at /\ n.stages = x.stages
    BY <1>4, <1>5, TurnedIs
  <2> HIDE DEF n
  <2>2. ~Early(n)
    BY <2>1 DEF Early
  <2>3. Fit(t, n, l, T, B) /\ Resting(n)
    BY <1>1, <1>2, <1>3, <2>1, <2>2, OpenedRests
  <2>4. Onward(n, l, T)
    BY <2>1, <2>3 DEF Onward, Resting
  <2> QED
    BY <1>4, <2>3, <2>4, CarryOnSettles DEF n
<1>7. Settles(d, Queued(d, t, "carryOn"), t)
  <2> DEFINE y == [x EXCEPT !.resumes = "carryOn"]  n == Turned(y, "queued", "none")
  <2>1. y \in Task /\ y.at = x.at /\ y.stages = x.stages /\ y.resumes = "carryOn"
    BY <1>4 DEF Task
  <2> HIDE DEF y
  <2>2. n \in Task /\ n.status = "queued" /\ n.why = "none" /\ n.at = x.at /\ n.stages = x.stages
        /\ n.resumes = "carryOn"
    BY <1>5, <2>1, TurnedIs
  <2> HIDE DEF n
  <2>3. ~Early(n)
    BY <2>2 DEF Early
  <2>4. Fit(t, n, l, T, B)
    BY <1>1, <1>2, <1>3, <2>2, <2>3, OpenedRests
  <2>5. Waits(n, l) /\ Pursued(n, l, T)
    BY <2>2 DEF Waits, Pursued
  <2> QED
    BY <1>4, <2>4, <2>5, QueuedSettles DEF n, y
<1>8. Settles(Now, CarryOn(d, t), t) /\ Settles(Now, Queued(d, t, "carryOn"), t)
  BY <1>4, <1>6, <1>7, SettlesTrans
<1> QED
  BY <1>1, <1>8, FullLands

LEMMA SettledFull ==
    ASSUME NEW e, AllFull(e), NEW f, NEW t \in Tasks, Settles(e, f, t)
    PROVE  AllFull(f)
  BY FullElsewhere DEF Settles, AllFull

LEMMA SameFull ==
    ASSUME NEW e, NEW f, Same(e, f), AllFull(e)
    PROVE  AllFull(f)
<1>1. f \in Team
  BY DEF Same
<1> SUFFICES ASSUME NEW t \in Tasks PROVE FullAt(f, t)
  BY <1>1 DEF AllFull
<1> DEFINE k == e.tasks[t]  l == e.launches[t]  T == TurnsOf(e, t)  B == e.batches
<1>2. Own(e, t, k, l, T, B) /\ FullAt(e, t)
  BY DEF Own, AllFull
<1> HIDE DEF k, l, T, B
<1>3. Own(f, t, k, l, T, B)
  BY <1>2, SameOwn
<1> QED
  BY <1>2, <1>3, OwnFull

LEMMA StartNextFull ==
    ASSUME NEW e, AllFull(e)
    PROVE  AllFull(StartNext(e))
<1> DEFINE g == StartNext(e)
<1>1. e \in Team
  BY DEF AllFull
<1>2. CASE g = e
  BY <1>2
<1>3. CASE Next1(e, g)
  <2> HIDE DEF g
  <2>0. PICK t \in Tasks : \E f, k :
          /\ e.tasks[t].status = "queued"
          /\ k = [e.tasks[t] EXCEPT !.resumes = "no"] /\ Retask(e, f, t, k)
          /\ \/ e.tasks[t].resumes = "approved" /\ g = StartApproved(f, t)
             \/ e.tasks[t].resumes = "carryOn" /\ g = CarryOn(f, t)
             \/ /\ e.tasks[t].resumes \notin {"approved", "carryOn"}
                /\ g = Plans(Goes(f, t, "planning", "none"), t)
    BY <1>3 DEF Next1
  <2> DEFINE x == e.tasks[t]  l == e.launches[t]  T == TurnsOf(e, t)  B == e.batches
  <2>1. PICK f, k :
          /\ x.status = "queued"
          /\ k = [x EXCEPT !.resumes = "no"] /\ Retask(e, f, t, k)
          /\ \/ x.resumes = "approved" /\ g = StartApproved(f, t)
             \/ x.resumes = "carryOn" /\ g = CarryOn(f, t)
             \/ x.resumes \notin {"approved", "carryOn"} /\ g = Plans(Goes(f, t, "planning", "none"), t)
    BY <2>0
  <2>2. /\ Own(e, t, x, l, T, B) /\ FullAt(e, t)
        /\ x \in Task /\ l \in Launch /\ T \in SUBSET Stages /\ B \in Tables
    BY <1>1, OwnTyped DEF AllFull
  <2>3. k \in Task /\ k.stages = x.stages /\ k.at = x.at /\ k.resumes = "no" /\ k.status = x.status
    BY <2>1, <2>2 DEF Task
  <2> HIDE DEF x, l, T, B
  <2>4. Fit(t, x, l, T, B)
    BY <2>2, OwnFull
  <2>5. f \in Team /\ Local(e, f, t) /\ Own(f, t, k, l, T, B)
    BY <2>1, <2>2, RetaskLocal, RetaskOwn, OwnIs
  <2>6. Early(x) => /\ l = NoLaunch /\ T = {} /\ Unbegun(k) /\ k.at = 1 /\ NoneOf(t, B)
    <3> SUFFICES ASSUME Early(x)
                 PROVE  l = NoLaunch /\ T = {} /\ Unbegun(k) /\ k.at = 1 /\ NoneOf(t, B)
      OBVIOUS
    <3>1. l = NoLaunch /\ T = {} /\ x.at = 1 /\ Unbegun(x) /\ NoneOf(t, B)
      BY <2>2, <2>4, EarlyUnbegun
    <3> QED
      BY <2>3, <3>1 DEF Unbegun
  <2>7. Settles(e, g, t)
    <3>1. CASE x.resumes = "approved" /\ g = StartApproved(f, t)
      <4>1. Early(x)
        BY <2>1, <3>1 DEF Early
      <4>2. Own(f, t, k, NoLaunch, {}, B)
        BY <2>5, <2>6, <4>1
      <4>3. Settles(f, g, t)
        BY <2>5, <2>6, <3>1, <4>1, <4>2, StartApprovedSettles
      <4> QED
        BY <2>5, <4>3, SettlesTrans
    <3>2. CASE x.resumes = "carryOn" /\ g = CarryOn(f, t)
      <4> DEFINE n == Turned(k, "running", "none")
      <4>1. "running" \in TaskStatus /\ "none" \in Whys
        BY DEF TaskStatus, Whys
      <4>2. n \in Task /\ n.status = "running" /\ n.why = "none" /\ n.at = x.at /\ n.stages = x.stages
        BY <2>3, <4>1, TurnedIs
      <4> HIDE DEF n
      <4>3. Resting(x) /\ Active(x) /\ ~Early(n)
        BY <2>1, <2>4, <4>2, NotRunning DEF Active, IsTaskActive, Early
      <4>4. Fit(t, n, l, T, B) /\ Resting(n)
        BY <2>2, <2>4, <4>2, <4>3, TurnFit
      <4>5. Onward(n, l, T)
        BY <4>2, <4>4 DEF Onward, Resting
      <4>6. Settles(f, g, t)
        BY <2>5, <3>2, <4>4, <4>5, CarryOnSettles DEF n
      <4> QED
        BY <2>5, <4>6, SettlesTrans
    <3>3. CASE x.resumes \notin {"approved", "carryOn"} /\ g = Plans(Goes(f, t, "planning", "none"), t)
      <4>1. Early(x)
        BY <2>1, <3>3 DEF Early
      <4>2. Own(e, t, x, NoLaunch, {}, B)
        BY <2>2, <2>6, <4>1
      <4>3. "planning" \in TaskStatus \ {"running", "waiting"}
        BY DEF TaskStatus
      <4>4. k.resumes # "carryOn" /\ Retask(e, f, t, k)
        BY <2>1, <2>3
      <4> QED
        BY <1>1, <2>3, <2>6, <3>3, <4>1, <4>2, <4>3, <4>4, EarlyGoes
    <3> QED
      BY <2>1, <3>1, <3>2, <3>3
  <2>8. AllFull(g)
    BY <2>7, SettledFull
  <2> QED
    BY <2>8 DEF g
<1> QED
  BY <1>1, <1>2, <1>3, StartNextIs

LEMMA WakeUpFull ==
    ASSUME AllFull(Now), WakeUp
    PROVE  AllFull(Now)'
<1> DEFINE e == [Now EXCEPT !.waking = FALSE]
           f == StartNext(e)
<1>1. Becomes(f)
  BY DEF WakeUp
<1>2. Now \in Team
  BY DEF AllFull
<1>3. Same(Now, e)
  BY <1>2 DEF Same, Team
<1> HIDE DEF e
<1>4. AllFull(e)
  BY <1>3, SameFull
<1>5. AllFull(f)
  BY <1>4, StartNextFull
<1> HIDE DEF f
<1> QED
  BY <1>1, <1>5, FullBecomes

-----------------------------------------------------------------------------
(* A stage, or a piece, done again.                                        *)

\* The stage the task is at, where nothing goes, is to begin anew.
LEMMA AfreshFit ==
    ASSUME NEW t, NEW k \in Task, NEW l \in Launch, NEW T \in SUBSET Stages, NEW B \in Tables,
           Fit(t, k, l, T, B), Active(k), NEW j \in Stages, k.at = j,
           l.at = "none" \/ l.stage # j, j \notin T,
           \A m \in Members : Idle(k.stages[j].pieces[m]),
           NEW n \in Task, n.at = j, ~Early(n), n.stages[j].status = "pending",
           \A m \in Members : PieceFit(n.stages[j].pieces[m]) /\ Idle(n.stages[j].pieces[m]),
           \A i \in Stages \ {j} : n.stages[i] = k.stages[i]
    PROVE  Fit(t, n, l, T, B) /\ Resting(n)
<1>1. StagesFit(k)
  BY DEF Fit
<1>2. Resting(n)
  BY <1>1 DEF Resting, StagesFit
<1>3. StagesFit(n)
  <2> SUFFICES ASSUME NEW i \in Stages
               PROVE  /\ \A m \in Members : PieceFit(n.stages[i].pieces[m])
                      /\ Settled(n.stages[i]) => \A m \in Plan[i].who : Settled(n.stages[i].pieces[m])
                      /\ \A m \in Members : Idle(n.stages[i].pieces[m])
                      /\ i < n.at => Settled(n.stages[i])
    BY <1>2 DEF StagesFit, Resting
  <2>1. CASE i = j
    <3>1. ~(j < n.at)
      BY Sizes
    <3> QED
      BY <2>1, <3>1 DEF Settled
  <2>2. CASE i # j
    <3>1. n.stages[i] = k.stages[i] /\ n.stages[i].status # "running" /\ n.at = k.at
      BY <1>2, <2>2 DEF Resting
    <3> QED
      BY <1>1, <3>1 DEF StagesFit
  <2> QED
    BY <2>1, <2>2
<1>4. RunsFit(t, n, l, B)
  <2> SUFFICES ASSUME NEW i \in Stages, NEW m \in Members
               PROVE  RunFit(t, i, m, n.stages[i].pieces[m], l, B)
    BY DEF RunsFit
  <2>1. Idle(n.stages[i].pieces[m])
    BY <1>2, <1>3 DEF StagesFit, Resting
  <2> QED
    BY <2>1 DEF RunFit, Idle
<1>5. BatchesFit(t, n, l, B)
  <2> SUFFICES ASSUME NEW b \in DOMAIN B, B[b].task = t
               PROVE  /\ B[b].member \in Plan[B[b].stage].who
                      /\ l.at = "commissioning" /\ l.batch = b
    BY DEF BatchesFit
  <2>1. b # 0 /\ B[b].stage \in Stages /\ B[b].member \in Members
    BY TableIs DEF Batch
  <2>2. Idle(k.stages[B[b].stage].pieces[B[b].member])
    <3>1. B[b].stage # j => k.stages[B[b].stage].status # "running"
      BY <1>1, <2>1 DEF StagesFit
    <3> QED
      BY <1>1, <2>1, <3>1 DEF StagesFit
  <2> QED
    BY <2>1, <2>2 DEF Fit, BatchesFit, Idle
<1>6. LaunchFit(n, l)
  <2>1. LaunchFit(k, l) /\ Held(t, l, B)
    BY DEF Fit
  <2>2. l.at # "none" => l.stage \in Stages \ {j}
    BY <2>1 DEF Held
  <2>3. l.at # "none" => n.stages[l.stage] = k.stages[l.stage]
    BY <2>2
  <2> QED
    BY <2>1, <2>2, <2>3 DEF LaunchFit
<1>7. TurnsFit(n, T)
  BY DEF Fit, TurnsFit
<1>8. Held(t, l, B)
  BY DEF Fit
<1> QED
  BY <1>2, <1>3, <1>4, <1>5, <1>6, <1>7, <1>8 DEF Fit, EarlyFit

LEMMA AfreshSettles ==
    ASSUME NEW e \in Team, NEW t \in Tasks, NEW k, NEW l, NEW T, NEW B, Own(e, t, k, l, T, B),
           Fit(t, k, l, T, B), Waits(k, l), k.status = "waiting", k.why = "failed",
           \A m \in Plan[k.at].who : ~k.stages[k.at].pieces[m].clash
    PROVE  Settles(e, CarryOn(FailedAnew(e, t), t), t)
<1> DEFINE j == k.at  s == k.stages[j]  a == AnewStage(s)  d == FailedAnew(e, t)
           x == Restaged(k, j, a)  n == Turned(x, "running", "none")
<1>1. /\ e.tasks[t] = k /\ k \in Task /\ l \in Launch /\ T \in SUBSET Stages /\ B \in Tables
      /\ j \in Stages /\ s \in Stage /\ \A m \in Plan[j].who : Settled(s.pieces[m])
  <2>1. /\ e.tasks[t] = k /\ k \in Task /\ l \in Launch /\ T \in SUBSET Stages /\ B \in Tables
    BY OwnIs, OwnTypes
  <2>2. j \in Stages /\ \A m \in Plan[j].who : Settled(s.pieces[m])
    BY DEF Waits
  <2>3. s \in Stage
    BY <2>1, <2>2, TaskTyped
  <2> QED
    BY <2>1, <2>2, <2>3
<1>2. a \in Stage /\ a.status = "pending"
      /\ \A m \in Members : a.pieces[m] = IF s.pieces[m].status = "failed" THEN Anew(s.pieces[m])
                                           ELSE s.pieces[m]
  BY <1>1, AnewStageIs
<1>3. Retask(e, d, t, x)
  BY <1>1, FailedAnewRetasks
<1> HIDE DEF a, d
<1>4. x \in Task /\ x.stages[j] = a /\ x.at = j /\ \A i \in Stages \ {j} : x.stages[i] = k.stages[i]
  BY <1>1, <1>2, RestagedIs
<1> HIDE DEF x
<1>5. "running" \in TaskStatus /\ "none" \in Whys
  BY DEF TaskStatus, Whys
<1>6. n \in Task /\ n.status = "running" /\ n.why = "none" /\ n.at = x.at /\ n.stages = x.stages
  BY <1>4, <1>5, TurnedIs
<1>7. Own(d, t, x, l, T, B) /\ d \in Team /\ Local(e, d, t)
  BY <1>3, RetaskOwn, RetaskLocal, OwnIs
<1> HIDE DEF n
<1>8. Active(k) /\ ~Early(n)
  BY <1>6 DEF Active, IsTaskActive, Early
<1>9. (l.at = "none" \/ l.stage # j) /\ j \notin T
  BY <1>8, NotHere DEF Fit
<1>10. \A m \in Members : Idle(s.pieces[m]) /\ PieceFit(s.pieces[m])
  BY <1>1, IdleAll DEF Fit, StagesFit
<1>11. \A m \in Members : PieceFit(a.pieces[m]) /\ Idle(a.pieces[m])
  <2> SUFFICES ASSUME NEW m \in Members PROVE PieceFit(a.pieces[m]) /\ Idle(a.pieces[m])
    OBVIOUS
  <2> DEFINE p == s.pieces[m]
  <2>1. p \in Piece /\ Idle(p) /\ PieceFit(p)
    BY <1>1, <1>10, TaskTyped
  <2>2. a.pieces[m] = IF p.status = "failed" THEN Anew(p) ELSE p
    BY <1>2
  <2> HIDE DEF p
  <2>3. CASE p.status = "failed"
    <3>1. Anew(p).status = "pending" /\ Anew(p).batch = 0 /\ Anew(p).clash = p.clash /\ ~p.clash
      BY <2>1, <2>3, AnewIs DEF PieceFit
    <3> QED
      BY <2>2, <2>3, <3>1 DEF PieceFit, Idle
  <2>4. CASE p.status # "failed"
    BY <2>1, <2>2, <2>4
  <2> QED
    BY <2>3, <2>4
<1>12. n.at = j /\ n.stages[j] = a /\ \A i \in Stages \ {j} : n.stages[i] = k.stages[i]
  BY <1>4, <1>6
<1>13. k.at = j /\ \A m \in Members : Idle(k.stages[j].pieces[m])
  BY <1>10
<1> HIDE DEF j
<1>14. Fit(t, n, l, T, B) /\ Resting(n)
  BY <1>1, <1>2, <1>6, <1>8, <1>9, <1>11, <1>12, <1>13, AfreshFit
<1>15. Onward(n, l, T)
  BY <1>6, <1>14 DEF Onward, Resting
<1>16. Settles(d, CarryOn(d, t), t)
  BY <1>7, <1>14, <1>15, CarryOnSettles DEF n
<1>17. Settles(e, CarryOn(d, t), t)
  BY <1>7, <1>16, SettlesTrans
<1> QED
  BY <1>17 DEF d

\* A piece that would not merge is merged again, and the stage looked at.
LEMMA ReclashSettles ==
    ASSUME NEW e \in Team, NEW t \in Tasks, NEW k, NEW l, NEW T, NEW B, Own(e, t, k, l, T, B),
           Fit(t, k, l, T, B), Waits(k, l), k.status = "waiting", k.why = "failed",
           \E m \in Plan[k.at].who : k.stages[k.at].pieces[m].clash,
           NEW again, \A m \in again : k.stages[k.at].pieces[m].clash,
           NEW d, d = [e EXCEPT !.tasks[t].stages[k.at].pieces = Reclash(k.stages[k.at].pieces, again)]
    PROVE  Settles(e, CheckStage(Goes(d, t, "running", "none"), t), t)
<1> DEFINE j == k.at  s == k.stages[j]  ps == Reclash(s.pieces, again)  r == Repieced(s, ps)
           x == Restaged(k, j, r)  n == Turned(x, "running", "none")  g == Goes(d, t, "running", "none")
<1>1. /\ e.tasks[t] = k /\ k \in Task /\ l \in Launch /\ T \in SUBSET Stages /\ B \in Tables
      /\ j \in Stages /\ s \in Stage /\ s.pieces \in [Members -> Piece]
      /\ \A m \in Plan[j].who : Settled(s.pieces[m])
  <2>1. /\ e.tasks[t] = k /\ k \in Task /\ l \in Launch /\ T \in SUBSET Stages /\ B \in Tables
    BY OwnIs, OwnTypes
  <2>2. j \in Stages /\ \A m \in Plan[j].who : Settled(s.pieces[m])
    BY DEF Waits
  <2>3. s \in Stage /\ s.pieces \in [Members -> Piece]
    BY <2>1, <2>2, TaskTyped
  <2> QED
    BY <2>1, <2>2, <2>3
<1>2. s.status = "running" /\ IsMemberStage(j) /\ l = NoLaunch
  BY DEF Waits
<1>3. ps \in [Members -> Piece]
      /\ \A m \in Members : /\ ps[m].status = s.pieces[m].status /\ ps[m].batch = s.pieces[m].batch
                            /\ ps[m].clash => m \in again
  BY <1>1, ReclashIs
<1>4. Retask(e, d, t, x)
  <2>1. d = [e EXCEPT !.tasks[t].stages[j].pieces = ps]
    OBVIOUS
  <2>2. s = e.tasks[t].stages[j] /\ x = Restaged(e.tasks[t], j, Repieced(e.tasks[t].stages[j], ps))
    BY <1>1
  <2>3. e \in Team /\ t \in Tasks /\ j \in Stages /\ ps \in [Members -> Piece]
    BY <1>1, <1>3, OwnIs
  <2> HIDE DEF ps, x, j, s
  <2> DEFINE d0 == [e EXCEPT !.tasks[t].stages[j].pieces = ps]
             x0 == Restaged(e.tasks[t], j, Repieced(e.tasks[t].stages[j], ps))
  <2>4. Retask(e, d0, t, x0)
    BY ONLY <2>3, RepieceRetasks
  <2> QED
    BY ONLY <2>1, <2>2, <2>4
<1> HIDE DEF ps
<1>5. r \in Stage /\ r.status = s.status /\ r.pieces = ps
  BY <1>1, <1>3, RepiecedIs
<1> HIDE DEF r
<1>6. x \in Task /\ x.stages[j] = r /\ x.at = j /\ \A i \in Stages \ {j} : x.stages[i] = k.stages[i]
  BY <1>1, <1>5, RestagedIs
<1> HIDE DEF x
<1>7. "running" \in TaskStatus /\ "none" \in Whys
  BY DEF TaskStatus, Whys
<1>8. n \in Task /\ n.status = "running" /\ n.why = "none" /\ n.at = j /\ n.stages = x.stages
  BY <1>6, <1>7, TurnedIs
<1>9. Own(d, t, x, l, T, B) /\ d \in Team /\ Local(e, d, t)
  BY <1>4, RetaskOwn, RetaskLocal, OwnIs
<1>10. Retask(d, g, t, n)
  <2>1. d.tasks[t] = x
    BY <1>9, OwnIs
  <2> QED
    BY <1>7, <1>9, <2>1, GoesRetasks
<1> HIDE DEF n, g
<1>11. Own(g, t, n, l, T, B) /\ g \in Team /\ Local(d, g, t)
  <2>1. d.launches[t] = l /\ TurnsOf(d, t) = T /\ d.batches = B
    BY <1>9 DEF Own
  <2>2. Own(g, t, n, d.launches[t], TurnsOf(d, t), d.batches) /\ g \in Team
    BY <1>10, RetaskOwn
  <2>3. Local(d, g, t)
    BY <1>10, RetaskLocal
  <2> QED
    BY <2>1, <2>2, <2>3
<1>12. n.stages[j].status = "running" /\ n.stages[j].pieces = ps
       /\ \A i \in Stages \ {j} : n.stages[i] = k.stages[i]
  BY <1>2, <1>5, <1>6, <1>8
<1>13. Active(k) /\ ~Early(n)
  BY <1>8 DEF Active, IsTaskActive, Early
<1>14. j \notin T /\ TurnsFit(k, T) /\ StagesFit(k)
  BY <1>13, NotHere DEF Fit
<1>15. SamePieces(k, n)
  BY <1>3, <1>12 DEF SamePieces
<1>16. RunsFit(t, n, l, B) /\ BatchesFit(t, n, l, B)
  BY <1>1, <1>15, SameRuns DEF Fit
<1>17. StagesFit(n)
  <2> SUFFICES ASSUME NEW i \in Stages
               PROVE  /\ \A m \in Members : PieceFit(n.stages[i].pieces[m])
                      /\ Settled(n.stages[i]) => \A m \in Plan[i].who : Settled(n.stages[i].pieces[m])
                      /\ n.stages[i].status # "running" => \A m \in Members : Idle(n.stages[i].pieces[m])
                      /\ n.stages[i].status = "running" => i = n.at
                      /\ i < n.at => Settled(n.stages[i])
    BY <1>8 DEF StagesFit
  <2>1. CASE i = j
    <3>1. ~(j < n.at)
      BY <1>1, <1>8, Sizes
    <3>2. \A m \in Members : PieceFit(n.stages[j].pieces[m])
      <4> SUFFICES ASSUME NEW m \in Members PROVE PieceFit(ps[m])
        BY <1>12
      <4>1. PieceFit(s.pieces[m])
        BY <1>1, <1>14 DEF StagesFit
      <4>2. ps[m].clash => s.pieces[m].clash
        BY <1>3
      <4> QED
        BY <1>3, <4>1, <4>2 DEF PieceFit
    <3>3. n.stages[j].status = "running" /\ ~Settled(n.stages[j]) /\ n.at = j
      BY <1>8, <1>12 DEF Settled
    <3> HIDE DEF j
    <3> QED
      BY <2>1, <3>1, <3>2, <3>3
  <2>2. CASE i # j
    <3>1. n.stages[i] = k.stages[i] /\ n.at = k.at
      BY <1>8, <1>12, <2>2
    <3> QED
      BY <1>14, <3>1 DEF StagesFit
  <2> QED
    BY <2>1, <2>2
<1>18. LaunchFit(n, l)
  BY <1>2 DEF LaunchFit, NoLaunch
<1>19. TurnsFit(n, T)
  BY <1>8, <1>13, <1>14 DEF TurnsFit
<1>20. Fit(t, n, l, T, B)
  BY <1>13, <1>16, <1>17, <1>18, <1>19 DEF Fit, EarlyFit
<1>21. Waits(n, l)
  BY <1>1, <1>8, <1>12 DEF Waits, Settled
<1>22. Landed(n, l)
  <2>1. \A m \in Plan[j].who : Settled(ps[m])
    BY <1>1, <1>3, WhoOf DEF Settled
  <2>2. ~StillGoing(n.stages[j], j)
    BY <1>12, <2>1 DEF StillGoing
  <2> HIDE DEF j
  <2> QED
    BY <1>1, <1>2, <1>8, <1>12, <2>2 DEF Landed
<1>23. Settles(g, CheckStage(g, t), t)
  BY <1>11, <1>20, <1>21, <1>22, CheckStageSettles
<1>24. Settles(e, CheckStage(g, t), t)
  BY <1>9, <1>11, <1>23, SettlesTrans
<1> QED
  BY <1>24 DEF g

LEMMA RetryFull ==
    ASSUME AllFull(Now), NEW t \in Tasks, Retry(t)
    PROVE  AllFull(Now)'
<1> DEFINE k == tasks[t]  l == launches[t]  T == TurnsOf(Now, t)  B == batches  j == k.at
<1>1. /\ Now \in Team /\ Own(Now, t, k, l, T, B) /\ Fit(t, k, l, T, B) /\ Waits(k, l)
      /\ k \in Task /\ Now.tasks = tasks
  BY FullNow DEF Begins
<1>2. k.status = "waiting" /\ k.why = "failed"
  BY DEF Retry
<1>3. CASE Clashing(t) = {}
  <2>1. Becomes(CarryOn(FailedAnew(Now, t), t))
    BY <1>3 DEF Retry
  <2>2. \A m \in Plan[k.at].who : ~k.stages[k.at].pieces[m].clash
    BY <1>3 DEF Clashing, Here
  <2> HIDE DEF k, l, T, B
  <2>3. Settles(Now, CarryOn(FailedAnew(Now, t), t), t)
    BY <1>1, <1>2, <2>2, AfreshSettles
  <2> QED
    BY <2>1, <2>3, FullLands
<1>4. CASE Clashing(t) # {}
  <2>1. PICK again \in SUBSET Clashing(t) :
           Becomes(CheckStage(Goes([Now EXCEPT !.tasks[t].stages[j].pieces = Reclash(k.stages[j].pieces, again)],
                                   t, "running", "none"), t))
    BY <1>1, <1>4 DEF Retry, Reclash
  <2> DEFINE d == [Now EXCEPT !.tasks[t].stages[k.at].pieces = Reclash(k.stages[k.at].pieces, again)]
             f == CheckStage(Goes(d, t, "running", "none"), t)
  <2>2. (\E m \in Plan[k.at].who : k.stages[k.at].pieces[m].clash)
        /\ \A m \in again : k.stages[k.at].pieces[m].clash
    BY <1>4 DEF Clashing, Here
  <2>3. Becomes(f)
    BY <2>1
  <2>4. d = [Now EXCEPT !.tasks[t].stages[k.at].pieces = Reclash(k.stages[k.at].pieces, again)]
    OBVIOUS
  <2> HIDE DEF k, l, T, B, d
  <2>5. Settles(Now, f, t)
    BY <1>1, <1>2, <2>2, <2>4, ReclashSettles
  <2> HIDE DEF f
  <2> QED
    BY <2>3, <2>5, FullLands
<1> QED
  BY <1>3, <1>4

\* A piece of the stage the task is at is to be done again, its run stopped if it had one.
LEMMA RelaunchFit ==
    ASSUME NEW t, NEW k \in Task, NEW T \in SUBSET Stages, NEW B \in Tables, NEW C \in Tables,
           Fit(t, k, NoLaunch, T, B), Active(k), NEW j \in Stages, k.at = j, IsMemberStage(j),
           NEW m \in Members, NEW q \in Piece, q.status = "pending", q.batch = 0, ~q.clash,
           Tabled(B, C, k.stages[j].pieces[m], q), Held(t, NoLaunch, C),
           NEW z, z.status = "running", z.at = j, z.stages[j].status = "running",
           z.stages[j].pieces[m] = q,
           \A y \in Members \ {m} : z.stages[j].pieces[y] = k.stages[j].pieces[y],
           \A i \in Stages \ {j} : z.stages[i] = k.stages[i]
    PROVE  Fit(t, z, NoLaunch, T, C)
<1> DEFINE p == k.stages[j].pieces[m]
<1>1. /\ \A x \in DOMAIN C : /\ x \in DOMAIN B /\ C[x].task = B[x].task
                             /\ C[x].stage = B[x].stage /\ C[x].member = B[x].member
      /\ \A x \in DOMAIN B : x = p.batch \/ x \in DOMAIN C
      /\ p.batch \notin DOMAIN C
  BY TableIs DEF Tabled
<1>2. StagesFit(k) /\ RunsFit(t, k, NoLaunch, B) /\ BatchesFit(t, k, NoLaunch, B) /\ TurnsFit(k, T)
  BY DEF Fit
<1>3. \A i \in Stages, y \in Members :
         (i # j \/ y # m) => z.stages[i].pieces[y] = k.stages[i].pieces[y]
  OBVIOUS
<1>4. NoLaunch.at = "none" /\ NoLaunch.batch = 0
  BY DEF NoLaunch
<1>5. RunFit(t, j, m, p, NoLaunch, B)
  BY <1>2 DEF RunsFit
<1>6. StagesFit(z)
  <2> SUFFICES ASSUME NEW i \in Stages
               PROVE  /\ \A y \in Members : PieceFit(z.stages[i].pieces[y])
                      /\ Settled(z.stages[i]) => \A y \in Plan[i].who : Settled(z.stages[i].pieces[y])
                      /\ z.stages[i].status # "running" => \A y \in Members : Idle(z.stages[i].pieces[y])
                      /\ z.stages[i].status = "running" => i = z.at
                      /\ i < z.at => Settled(z.stages[i])
    BY DEF StagesFit
  <2>1. CASE i = j
    <3>1. ~(j < z.at) /\ ~Settled(z.stages[j])
      BY Sizes DEF Settled
    <3>2. \A y \in Members : PieceFit(z.stages[j].pieces[y])
      <4>1. PieceFit(q)
        BY DEF PieceFit
      <4>2. \A y \in Members : PieceFit(k.stages[j].pieces[y])
        BY <1>2 DEF StagesFit
      <4> QED
        BY <1>3, <4>1, <4>2
    <3> QED
      BY <2>1, <3>1, <3>2
  <2>2. CASE i # j
    <3>1. z.stages[i] = k.stages[i]
      BY <2>2
    <3>2. /\ \A y \in Members : PieceFit(k.stages[i].pieces[y])
          /\ Settled(k.stages[i]) => \A y \in Plan[i].who : Settled(k.stages[i].pieces[y])
          /\ k.stages[i].status # "running" => \A y \in Members : Idle(k.stages[i].pieces[y])
          /\ k.stages[i].status # "running"
          /\ i < k.at => Settled(k.stages[i])
      BY <1>2, <2>2 DEF StagesFit
    <3> QED
      BY <2>2, <3>1, <3>2
  <2> QED
    BY <2>1, <2>2
<1>7. RunsFit(t, z, NoLaunch, C)
  <2> SUFFICES ASSUME NEW i \in Stages, NEW y \in Members
               PROVE  RunFit(t, i, y, z.stages[i].pieces[y], NoLaunch, C)
    BY DEF RunsFit
  <2>1. CASE i = j /\ y = m
    BY <2>1 DEF RunFit
  <2>2. CASE ~(i = j /\ y = m)
    <3> DEFINE x == k.stages[i].pieces[y]
    <3>1. z.stages[i].pieces[y] = x
      BY <1>3, <2>2
    <3>2. RunFit(t, i, y, x, NoLaunch, B)
      BY <1>2 DEF RunsFit
    <3> HIDE DEF x, p
    <3>3. x.batch # 0 => x.batch # p.batch
      BY <1>5, <2>2, <3>2 DEF RunFit
    <3>4. RunFit(t, i, y, x, NoLaunch, C)
      BY <1>1, <3>2, <3>3 DEF RunFit
    <3> QED
      BY <3>1, <3>4
  <2> QED
    BY <2>1, <2>2
<1>8. BatchesFit(t, z, NoLaunch, C)
  <2> SUFFICES ASSUME NEW b \in DOMAIN C, C[b].task = t
               PROVE  /\ C[b].member \in Plan[C[b].stage].who
                      /\ z.stages[C[b].stage].pieces[C[b].member].batch = b
    BY DEF BatchesFit
  <2> DEFINE i == C[b].stage  y == C[b].member
  <2>1. b \in DOMAIN B /\ B[b].task = t /\ i = B[b].stage /\ y = B[b].member
    BY <1>1
  <2>2. i \in Stages /\ y \in Members
    BY TableIs DEF Batch
  <2>3. y \in Plan[i].who /\ k.stages[i].pieces[y].batch = b
    BY <1>2, <1>4, <2>1 DEF BatchesFit
  <2> HIDE DEF i, y
  <2>4. ~(i = j /\ y = m)
    BY <1>1, <2>3
  <2>5. z.stages[i].pieces[y].batch = b
    BY <1>3, <2>2, <2>3, <2>4
  <2> QED
    BY <2>3, <2>5 DEF i, y
<1>9. LaunchFit(z, NoLaunch)
  BY <1>4 DEF LaunchFit
<1>10. TurnsFit(z, T)
  <2>1. \A i \in T : ~IsMemberStage(i) /\ i <= k.at
    BY <1>2 DEF TurnsFit
  <2>2. j \notin T
    BY <2>1
  <2> QED
    BY <2>1, <2>2 DEF TurnsFit
<1>11. ~Early(z)
  BY DEF Early
<1> QED
  BY <1>6, <1>7, <1>8, <1>9, <1>10, <1>11 DEF Fit, EarlyFit

LEMMA PieceAnewSettles ==
    ASSUME NEW d \in Team, NEW t \in Tasks, NEW y, NEW T, NEW C, Own(d, t, y, NoLaunch, T, C),
           NEW B \in Tables, NEW k \in Task, Fit(t, k, NoLaunch, T, B), Active(k),
           NEW j \in Stages, k.at = j, IsMemberStage(j), NEW m \in Members,
           y.at = j, y.stages[j].pieces = k.stages[j].pieces,
           \A i \in Stages \ {j} : y.stages[i] = k.stages[i],
           ~k.stages[j].pieces[m].clash, Held(t, NoLaunch, C),
           Tabled(B, C, k.stages[j].pieces[m], Anew(k.stages[j].pieces[m]))
    PROVE  Settles(d, PieceAnew(d, t, m), t)
<1> DEFINE q == Anew(k.stages[j].pieces[m])
           x == Pieced(y, j, m, q)
           n == Turned(x, "running", "none")
           z == Marked(n, j, "running")
           g == SetPiece(d, t, j, m, q)
           h == Goes(g, t, "running", "none")
           f == LaunchStage(h, t, j)
<1>1. d.tasks[t] = y /\ y \in Task /\ C \in Tables /\ T \in SUBSET Stages
  BY OwnIs, OwnTypes
<1>2. q \in Piece /\ q.status = "pending" /\ q.batch = 0 /\ ~q.clash
  <2>1. k.stages[j].pieces[m] \in Piece
    BY TaskTyped
  <2> QED
    BY <2>1, AnewIs
<1>3. PieceAnew(d, t, m) = f
  BY <1>1 DEF PieceAnew
<1>4. Retask(d, g, t, x)
  BY <1>1, <1>2, SetPieceRetasks DEF Pieced
<1>5. Tabled(B, C, k.stages[j].pieces[m], q)
  OBVIOUS
<1> HIDE DEF q, g
<1>6. /\ x \in Task /\ x.at = j /\ \A i \in Stages \ {j} : x.stages[i] = y.stages[i]
      /\ x.stages[j].pieces[m] = q
      /\ \A i \in Members \ {m} : x.stages[j].pieces[i] = y.stages[j].pieces[i]
  BY <1>1, <1>2, PiecedIs
<1>7. "running" \in TaskStatus /\ "none" \in Whys /\ "running" \in StageStatus
  BY DEF TaskStatus, Whys, StageStatus
<1> HIDE DEF x
<1>8. n \in Task /\ n.status = "running" /\ n.why = "none" /\ n.at = j /\ n.stages = x.stages
  BY <1>6, <1>7, TurnedIs
<1>9. Own(g, t, x, NoLaunch, T, C) /\ g \in Team /\ Local(d, g, t)
  BY <1>4, RetaskOwn, RetaskLocal, OwnIs
<1>10. Retask(g, h, t, n)
  <2>1. g.tasks[t] = x
    BY <1>9, OwnIs
  <2> QED
    BY <1>7, <1>9, <2>1, GoesRetasks
<1> HIDE DEF n, h
<1>11. Own(h, t, n, NoLaunch, T, C) /\ h \in Team /\ Local(g, h, t)
  BY <1>9, <1>10, RetaskOwn, RetaskLocal, OwnIs
<1>12. MarkedAs(n, z, j, "running")
  BY <1>7, <1>8, MarkedStages
<1> HIDE DEF z
<1>13. /\ z.status = "running" /\ z.at = j /\ z.stages[j].status = "running"
       /\ z.stages[j].pieces[m] = q
       /\ \A i \in Members \ {m} : z.stages[j].pieces[i] = k.stages[j].pieces[i]
       /\ \A i \in Stages \ {j} : z.stages[i] = k.stages[i]
  BY <1>6, <1>8, <1>12 DEF MarkedAs
<1>14. Fit(t, z, NoLaunch, T, C)
  BY <1>1, <1>2, <1>5, <1>13, RelaunchFit
<1>15. Settles(h, f, t)
  BY <1>8, <1>11, <1>14, LaunchStageSettles DEF z
<1> HIDE DEF f
<1>16. Local(d, h, t)
  BY <1>9, <1>11, LocalTrans
<1> QED
  BY <1>3, <1>15, <1>16, SettlesTrans

\* Nobody runs a piece again while its stage is being launched, nor one that is paused or
\* whose changes would not merge, and no commission throws.
Careful == {"early", "redoPaused", "redoClash", "rejects"} \cap Happens = {}

LEMMA RetryPieceFull ==
    ASSUME Careful, AllFull(Now), NEW t \in Tasks, NEW m \in Members, RetryPiece(t, m)
    PROVE  AllFull(Now)'
<1> DEFINE k == tasks[t]  l == launches[t]  T == TurnsOf(Now, t)  B == batches  j == k.at
           p == k.stages[j].pieces[m]
<1>1. /\ Now \in Team /\ Own(Now, t, k, l, T, B) /\ Fit(t, k, l, T, B)
      /\ k \in Task /\ T \in SUBSET Stages /\ B \in Tables
  BY FullNow DEF Begins
<1>2. /\ k.status \in {"running", "waiting"} /\ j \in Stages /\ m \in Plan[j].who
      /\ p.status = "failed" /\ l = NoLaunch /\ Becomes(PieceAnew(Now, t, m))
  BY DEF RetryPiece, Under, Here, MayLaunch, Careful
<1> HIDE DEF k, l, T, B
<1>3. IsMemberStage(j)
  BY <1>2, WhoOf
<1>4. p \in Piece /\ PieceFit(p)
  BY <1>1, <1>2, TaskTyped DEF Fit, StagesFit
<1>5. p.batch = 0 /\ ~p.clash
  BY <1>2, <1>4 DEF PieceFit
<1>6. Anew(p).batch = 0
  BY <1>4, AnewIs
<1>7. Tabled(B, B, p, Anew(p))
  BY <1>1, <1>5, <1>6, TableIs DEF Tabled
<1>8. Active(k) /\ Held(t, NoLaunch, B)
  BY <1>1, <1>2 DEF Active, IsTaskActive, Fit
<1>9. Settles(Now, PieceAnew(Now, t, m), t)
  BY <1>1, <1>2, <1>3, <1>5, <1>7, <1>8, PieceAnewSettles
<1> QED
  BY <1>2, <1>9, FullLands

LEMMA RedoPieceFull ==
    ASSUME Careful, AllFull(Now), NEW t \in Tasks, NEW m \in Members, RedoPiece(t, m)
    PROVE  AllFull(Now)'
<1> DEFINE k == tasks[t]  l == launches[t]  T == TurnsOf(Now, t)  B == batches  j == k.at
           p == k.stages[j].pieces[m]
           c == [Now EXCEPT !.tasks[t].stages[j].status = "running"]
           y == Marked(k, j, "running")
           d == IF p.status = "running" THEN Cancelled(c, {p.batch}) ELSE c
           f == PieceAnew(d, t, m)
<1>1. /\ Now \in Team /\ Own(Now, t, k, l, T, B) /\ Fit(t, k, l, T, B)
      /\ k \in Task /\ T \in SUBSET Stages /\ B \in Tables /\ Now.tasks = tasks
  BY FullNow DEF Begins
<1>2. /\ k.status \in {"running", "waiting"} /\ j \in Stages /\ m \in Plan[j].who /\ m \in Members
      /\ p.status # "paused" /\ ~p.clash /\ l = NoLaunch /\ Becomes(f)
  BY DEF RedoPiece, Under, Here, MayLaunch, Careful
<1>3. Retask(Now, c, t, y)
  BY <1>1, <1>2, MarkRetasks DEF StageStatus
<1> HIDE DEF k, l, T, B, c, f
<1>4. MarkedAs(k, y, j, "running")
  BY <1>1, <1>2, MarkedStages DEF StageStatus
<1> HIDE DEF y
<1>5. Own(c, t, y, NoLaunch, T, B) /\ c \in Team /\ Local(Now, c, t)
  BY <1>1, <1>2, <1>3, RetaskOwn, RetaskLocal, OwnIs
<1>6. IsMemberStage(j)
  BY <1>2, WhoOf
<1>7. p \in Piece /\ PieceFit(p) /\ RunFit(t, j, m, p, NoLaunch, B)
  BY <1>1, <1>2, TaskTyped DEF Fit, StagesFit, RunsFit
<1>8. Anew(p).batch = 0
  BY <1>7, AnewIs
<1>9. Active(k) /\ Held(t, NoLaunch, B)
  BY <1>1, <1>2 DEF Active, IsTaskActive, Fit
<1>10. \E C : Own(d, t, y, NoLaunch, T, C) /\ d \in Team /\ Local(c, d, t)
              /\ Held(t, NoLaunch, C) /\ Tabled(B, C, p, Anew(p))
  <2>1. CASE p.status = "running"
    <3> DEFINE C == Without(B, {b \in {p.batch} : Abortable(c, b)})
    <3>1. Rebatched(c, d, C)
      BY <1>5, <2>1, CancelledIs, OwnIs DEF d
    <3>2. p.batch # 0
      BY <1>7, <2>1 DEF RunFit, NoLaunch
    <3>3. p.batch \in DOMAIN B /\ B[p.batch].task = t
      BY <1>7, <3>2 DEF RunFit
    <3>4. B[p.batch].state # "starting"
      BY <1>9, <3>3, NoneStartingWithout DEF NoneStarting
    <3>5. Abortable(c, p.batch)
      <4>1. c.batches = B
        BY <1>5, OwnIs
      <4>2. B[p.batch].state \in {"starting", "running", "paused"}
        BY <1>1, <3>3, TableIs DEF Batch
      <4> QED
        BY <3>3, <3>4, <4>1, <4>2 DEF Abortable
    <3>6. DOMAIN C = DOMAIN B \ {p.batch} /\ \A x \in DOMAIN B \ {p.batch} : C[x] = B[x]
      <4>1. {b \in {p.batch} : Abortable(c, b)} = {p.batch}
        BY <3>5
      <4>2. C = Without(B, {p.batch})
        BY <4>1
      <4> HIDE DEF C, p
      <4> QED
        BY <1>1, <4>2, WithoutIs, ZenonT(60)
    <3> HIDE DEF C, d
    <3>7. Tabled(B, C, p, Anew(p))
      BY <1>8, <3>6 DEF Tabled
    <3>8. Held(t, NoLaunch, C)
      BY <1>9, <3>6 DEF Held, NoLaunch
    <3>9. \A u \in Tasks \ {t} : Going(C, u) = Going(B, u)
      <4> SUFFICES ASSUME NEW u \in Tasks \ {t} PROVE Going(C, u) = Going(B, u)
        OBVIOUS
      <4>1. \A x : x \in DOMAIN C /\ C[x].task = u <=> x \in DOMAIN B /\ B[x].task = u
        BY <3>3, <3>6
      <4>2. \A x \in DOMAIN B : B[x].task = u => C[x] = B[x]
        BY <3>3, <3>6
      <4> QED
        BY <4>1, <4>2, GoingElsewhere
    <3>10. Own(d, t, y, NoLaunch, T, C) /\ d \in Team /\ Local(c, d, t)
      <4>1. c.batches = B /\ c.tasks[t] = y /\ c.launches[t] = NoLaunch /\ TurnsOf(c, t) = T
        BY <1>5, OwnIs
      <4> QED
        BY <3>1, <3>9, <4>1, RebatchLocal
    <3> QED
      BY <3>7, <3>8, <3>10
  <2>2. CASE p.status # "running"
    <3>1. p.batch = 0
      BY <1>2, <1>7, <2>2 DEF PieceFit
    <3>2. Tabled(B, B, p, Anew(p))
      BY <1>1, <1>8, <3>1, TableIs DEF Tabled
    <3>3. d = c /\ Local(c, c, t)
      BY <2>2 DEF Local
    <3> QED
      BY <1>5, <1>9, <3>2, <3>3
  <2> QED
    BY <2>1, <2>2
<1> HIDE DEF d
<1>11. PICK C : Own(d, t, y, NoLaunch, T, C) /\ d \in Team /\ Local(c, d, t)
                /\ Held(t, NoLaunch, C) /\ Tabled(B, C, p, Anew(p))
  BY <1>10
<1>12. y.at = j /\ y.stages[j].pieces = k.stages[j].pieces /\ \A i \in Stages \ {j} : y.stages[i] = k.stages[i]
  BY <1>4 DEF MarkedAs
<1>13. Settles(d, f, t)
  BY <1>1, <1>2, <1>6, <1>9, <1>11, <1>12, PieceAnewSettles DEF f
<1>14. Local(Now, d, t)
  BY <1>5, <1>11, LocalTrans
<1>15. Settles(Now, f, t)
  BY <1>13, <1>14, SettlesTrans
<1> QED
  BY <1>2, <1>15, FullLands

-----------------------------------------------------------------------------
(* A stage, or a piece, skipped; a task cancelled.                         *)

LEMMA SkippedIs ==
    ASSUME NEW p \in Piece, PieceFit(p)
    PROVE  /\ Skipped(p) \in Piece /\ Settled(Skipped(p)) /\ Idle(Skipped(p)) /\ PieceFit(Skipped(p))
           /\ p.status \in {"running", "skipped"} => Skipped(p).status = "skipped"
<1>1. CASE Settled(p)
  BY <1>1 DEF Skipped, Settled, PieceFit, Idle
<1>2. CASE ~Settled(p)
  <2>1. Skipped(p) = Over(p, "skipped")
    BY <1>2 DEF Skipped, Over
  <2>2. Over(p, "skipped") \in Piece /\ Over(p, "skipped").status = "skipped"
        /\ Over(p, "skipped").batch = 0 /\ Over(p, "skipped").clash = p.clash
    BY OverIs
  <2>3. ~p.clash
    BY <1>2 DEF Settled, PieceFit
  <2> QED
    BY <2>1, <2>2, <2>3 DEF Settled, PieceFit, Idle
<1> QED
  BY <1>1, <1>2

\* A member without a piece in the stage has nothing going.
LEMMA OutsideIdle ==
    ASSUME NEW t, NEW k, NEW l, NEW T, NEW B, Fit(t, k, l, T, B), NEW j \in Stages, NEW m \in Members,
           m \notin Plan[j].who
    PROVE  Idle(k.stages[j].pieces[m])
<1>1. RunFit(t, j, m, k.stages[j].pieces[m], l, B) /\ Held(t, l, B)
  BY DEF Fit, RunsFit
<1> QED
  BY <1>1 DEF RunFit, Held, Idle

\* The pieces of a stage that is skipped.
LEMMA SkippedOut ==
    ASSUME NEW t, NEW k \in Task, NEW l, NEW T, NEW B, Fit(t, k, l, T, B), NEW j \in Stages
    PROVE  LET x == SkippedStage(k.stages[j], j)
           IN  /\ x \in Stage /\ Settled(x)
               /\ \A m \in Members : Idle(x.pieces[m]) /\ PieceFit(x.pieces[m])
               /\ \A m \in Plan[j].who : Settled(x.pieces[m])
               /\ \A m \in Plan[j].who : k.stages[j].pieces[m].status \in {"running", "skipped"} =>
                     x.pieces[m].status = "skipped"
<1> DEFINE s == k.stages[j]  x == SkippedStage(s, j)
<1>1. s \in Stage /\ \A m \in Members : s.pieces[m] \in Piece
  BY TaskTyped
<1>2. /\ x \in Stage /\ x.status \in {"done", "skipped"}
      /\ \A m \in Members : x.pieces[m] = IF m \in Plan[j].who THEN Skipped(s.pieces[m])
                                          ELSE s.pieces[m]
  BY <1>1, SkippedStageIs
<1>3. \A m \in Members : PieceFit(s.pieces[m])
  BY DEF Fit, StagesFit
<1>4. \A m \in Members \ Plan[j].who : Idle(s.pieces[m])
  BY OutsideIdle
<1> HIDE DEF s, x
<1>5. \A m \in Members : Idle(x.pieces[m]) /\ PieceFit(x.pieces[m])
  <2> SUFFICES ASSUME NEW m \in Members PROVE Idle(x.pieces[m]) /\ PieceFit(x.pieces[m])
    OBVIOUS
  <2>1. CASE m \in Plan[j].who
    BY <1>1, <1>2, <1>3, <2>1, SkippedIs
  <2>2. CASE m \notin Plan[j].who
    BY <1>2, <1>3, <1>4, <2>2
  <2> QED
    BY <2>1, <2>2
<1>6. \A m \in Plan[j].who : /\ Settled(x.pieces[m])
                             /\ s.pieces[m].status \in {"running", "skipped"} =>
                                   x.pieces[m].status = "skipped"
  <2> SUFFICES ASSUME NEW m \in Plan[j].who
               PROVE  /\ Settled(x.pieces[m])
                      /\ s.pieces[m].status \in {"running", "skipped"} =>
                            x.pieces[m].status = "skipped"
    OBVIOUS
  <2>1. m \in Members
    BY WhoOf
  <2> QED
    BY <1>1, <1>2, <1>3, <2>1, SkippedIs
<1>7. Settled(x)
  BY <1>2 DEF Settled
<1> QED
  BY <1>2, <1>5, <1>6, <1>7 DEF x, s

\* The stage the task is at is over, with the runs of its pieces; the table is C.
LEMMA SkipFit ==
    ASSUME NEW t, NEW k \in Task, NEW l, NEW T \in SUBSET Stages, NEW B \in Tables, NEW C \in Tables,
           Fit(t, k, l, T, B), k.status \in {"running", "waiting"}, NEW j \in Stages, k.at = j,
           Held(t, l, C), \A b \in DOMAIN C : b \in DOMAIN B /\ C[b] = B[b],
           \A b \in DOMAIN C : B[b].state # "starting" =>
              \A m \in Plan[j].who : k.stages[j].pieces[m].batch # b,
           NEW z, z.status = "running", z.at = j + 1, Settled(z.stages[j]),
           \A m \in Members : Idle(z.stages[j].pieces[m]) /\ PieceFit(z.stages[j].pieces[m]),
           \A m \in Plan[j].who : Settled(z.stages[j].pieces[m]),
           \A m \in Plan[j].who : k.stages[j].pieces[m].status \in {"running", "skipped"} =>
              z.stages[j].pieces[m].status = "skipped",
           \A i \in Stages \ {j} : z.stages[i] = k.stages[i]
    PROVE  Fit(t, z, l, T, C) /\ Resting(z)
<1>1. /\ Held(t, l, B) /\ StagesFit(k) /\ LaunchFit(k, l) /\ BatchesFit(t, k, l, B) /\ TurnsFit(k, T)
      /\ Active(k) /\ Active(z) /\ ~Early(z)
  BY DEF Fit, Active, IsTaskActive, Early
<1>2. \A i \in Stages \ {j} : /\ k.stages[i].status # "running"
                              /\ \A m \in Members : Idle(k.stages[i].pieces[m])
  BY <1>1 DEF StagesFit
<1>3. Resting(z)
  BY <1>2 DEF Resting, Settled
<1>4. \A i \in Stages, m \in Members : Idle(z.stages[i].pieces[m])
  BY <1>2
<1>5. \A i \in Stages : i < z.at => i = j \/ i < k.at
  BY Sizes
<1>6. StagesFit(z)
  <2> SUFFICES ASSUME NEW i \in Stages
               PROVE  /\ \A m \in Members : PieceFit(z.stages[i].pieces[m])
                      /\ Settled(z.stages[i]) => \A m \in Plan[i].who : Settled(z.stages[i].pieces[m])
                      /\ i < z.at => Settled(z.stages[i])
    BY <1>3, <1>4 DEF StagesFit, Resting
  <2>1. CASE i = j
    BY <2>1
  <2>2. CASE i # j
    <3>1. z.stages[i] = k.stages[i] /\ (i < z.at => i < k.at)
      BY <1>5, <2>2
    <3> QED
      BY <1>1, <3>1 DEF StagesFit
  <2> QED
    BY <2>1, <2>2
<1>7. RunsFit(t, z, l, C)
  BY <1>4 DEF RunsFit, RunFit, Idle
<1>8. BatchesFit(t, z, l, C)
  <2> SUFFICES ASSUME NEW b \in DOMAIN C, C[b].task = t
               PROVE  C[b].member \in Plan[C[b].stage].who /\ l.at = "commissioning" /\ l.batch = b
    BY DEF BatchesFit
  <2> DEFINE i == C[b].stage  m == C[b].member
  <2>1. b \in DOMAIN B /\ B[b].task = t /\ i = B[b].stage /\ m = B[b].member /\ b # 0
    BY TableIs
  <2>2. i \in Stages /\ m \in Members
    BY TableIs DEF Batch
  <2>3. /\ m \in Plan[i].who
        /\ \/ l.at = "commissioning" /\ l.batch = b
           \/ k.stages[i].pieces[m].batch = b
    BY <1>1, <2>1 DEF BatchesFit
  <2> HIDE DEF i, m
  <2> SUFFICES ASSUME k.stages[i].pieces[m].batch = b PROVE l.at = "commissioning" /\ l.batch = b
    BY <2>3 DEF i, m
  <2>4. i = j
    BY <1>2, <2>1, <2>2 DEF Idle
  <2>5. B[b].state = "starting"
    BY <2>3, <2>4
  <2> QED
    BY <1>1, <2>1, <2>5 DEF Held
<1>9. LaunchFit(z, l)
  <2>1. l.at # "none" => IsMemberStage(l.stage) /\ l.stage \in Stages /\ l.stage <= k.at
    BY <1>1 DEF LaunchFit, Held
  <2>2. l.at # "none" => l.stage < z.at
    BY <2>1, Sizes
  <2>3. l.at # "none" => l.stage # z.at /\ l.stage <= z.at
    BY <2>1, Sizes
  <2>4. l.at \in {"commissioning", "refused"} =>
           LET p == z.stages[l.stage].pieces[l.member]
           IN  p.status = "skipped" \/ (p.status = "running" /\ p.batch = l.batch)
    <3> SUFFICES ASSUME l.at \in {"commissioning", "refused"}
                 PROVE  LET p == z.stages[l.stage].pieces[l.member]
                        IN  p.status = "skipped" \/ (p.status = "running" /\ p.batch = l.batch)
      OBVIOUS
    <3>1. LET p == k.stages[l.stage].pieces[l.member]
          IN  p.status = "skipped" \/ (p.status = "running" /\ p.batch = l.batch)
      BY <1>1 DEF LaunchFit
    <3>2. l.stage \in Stages /\ l.member \in Plan[l.stage].who
      BY <1>1 DEF Held
    <3>3. CASE l.stage = j
      BY <3>1, <3>2, <3>3
    <3>4. CASE l.stage # j
      BY <3>1, <3>2, <3>4
    <3> QED
      BY <3>3, <3>4
  <2>5. l.at # "commissioning" => l.batch = 0
    BY <1>1 DEF LaunchFit
  <2>6. z.at \in Stages => z.stages[z.at].status # "running"
    BY <1>3 DEF Resting
  <2> QED
    BY <2>1, <2>3, <2>4, <2>5, <2>6 DEF LaunchFit
<1>10. TurnsFit(z, T)
  <2>1. \A i \in T : ~IsMemberStage(i) /\ i <= k.at /\ i \in Stages
    BY <1>1 DEF TurnsFit
  <2>2. \A i \in T : i <= z.at /\ i # z.at
    BY <2>1, Sizes
  <2> QED
    BY <2>1, <2>2 DEF TurnsFit
<1> QED
  BY <1>1, <1>3, <1>6, <1>7, <1>8, <1>9, <1>10 DEF Fit, EarlyFit

\* A stage the task has yet to come to is skipped.
LEMMA AheadFit ==
    ASSUME NEW t, NEW k \in Task, NEW l, NEW T \in SUBSET Stages, NEW B \in Tables,
           Fit(t, k, l, T, B), Waits(k, l), Pursued(k, l, T), k.status \in {"running", "waiting"},
           NEW j \in Stages, k.at < j,
           NEW n, n.status = k.status, n.why = k.why, n.at = k.at, n.resumes = k.resumes,
           Settled(n.stages[j]), \A m \in Plan[j].who : Settled(n.stages[j].pieces[m]),
           \A m \in Members : Idle(n.stages[j].pieces[m]) /\ PieceFit(n.stages[j].pieces[m]),
           \A i \in Stages \ {j} : n.stages[i] = k.stages[i]
    PROVE  Fit(t, n, l, T, B) /\ Waits(n, l) /\ Pursued(n, l, T)
<1>1. /\ Held(t, l, B) /\ StagesFit(k) /\ LaunchFit(k, l) /\ RunsFit(t, k, l, B)
      /\ BatchesFit(t, k, l, B) /\ TurnsFit(k, T)
      /\ Active(k) /\ Active(n) /\ ~Early(n)
  BY DEF Fit, Active, IsTaskActive, Early
<1>2. k.at \in Stages /\ k.at # j /\ ~(j < k.at)
  <2>1. k.at \in Stages
    BY DEF Waits
  <2> QED
    BY <2>1, Sizes
<1>3. n.stages[k.at] = k.stages[k.at]
  BY <1>2
<1>4. StagesFit(n)
  <2> SUFFICES ASSUME NEW i \in Stages
               PROVE  /\ \A m \in Members : PieceFit(n.stages[i].pieces[m])
                      /\ Settled(n.stages[i]) => \A m \in Plan[i].who : Settled(n.stages[i].pieces[m])
                      /\ n.stages[i].status # "running" => \A m \in Members : Idle(n.stages[i].pieces[m])
                      /\ n.stages[i].status = "running" =>
                            i = n.at /\ (n.status = "running" \/ (n.status = "waiting" /\ n.why = "failed"))
                      /\ i < n.at => Settled(n.stages[i])
    BY DEF StagesFit
  <2>1. CASE i = j
    BY <2>1 DEF Settled
  <2>2. CASE i # j
    <3>1. n.stages[i] = k.stages[i]
      BY <2>2
    <3> QED
      BY <1>1, <3>1 DEF StagesFit
  <2> QED
    BY <2>1, <2>2
<1>5. \A m \in Members : Idle(k.stages[j].pieces[m])
  BY <1>1, <1>2 DEF StagesFit
<1>6. RunsFit(t, n, l, B)
  <2> SUFFICES ASSUME NEW i \in Stages, NEW m \in Members
               PROVE  RunFit(t, i, m, n.stages[i].pieces[m], l, B)
    BY DEF RunsFit
  <2>1. CASE i = j
    BY <2>1 DEF RunFit, Idle
  <2>2. CASE i # j
    <3>1. n.stages[i] = k.stages[i]
      BY <2>2
    <3> QED
      BY <1>1, <3>1 DEF RunsFit
  <2> QED
    BY <2>1, <2>2
<1>7. BatchesFit(t, n, l, B)
  <2> SUFFICES ASSUME NEW b \in DOMAIN B, B[b].task = t
               PROVE  /\ B[b].member \in Plan[B[b].stage].who
                      /\ \/ l.at = "commissioning" /\ l.batch = b
                         \/ n.stages[B[b].stage].pieces[B[b].member].batch = b
    BY DEF BatchesFit
  <2> DEFINE i == B[b].stage  m == B[b].member
  <2>1. i \in Stages /\ m \in Members /\ b # 0
    BY TableIs DEF Batch
  <2>2. /\ m \in Plan[i].who
        /\ \/ l.at = "commissioning" /\ l.batch = b
           \/ k.stages[i].pieces[m].batch = b
    BY <1>1 DEF BatchesFit
  <2> HIDE DEF i, m
  <2>3. k.stages[i].pieces[m].batch = b => n.stages[i].pieces[m].batch = b
    BY <1>5, <2>1 DEF Idle
  <2> QED
    BY <2>2, <2>3 DEF i, m
<1>8. LaunchFit(n, l)
  <2>1. l.at # "none" => l.stage <= k.at /\ l.stage \in Stages
    BY <1>1 DEF LaunchFit, Held
  <2>2. l.at # "none" => n.stages[l.stage] = k.stages[l.stage]
    <3>1. \A i \in Stages : i <= k.at => i # j
      BY <1>2, Sizes
    <3> QED
      BY <2>1, <3>1
  <2> QED
    BY <1>1, <1>3, <2>2 DEF LaunchFit
<1>9. TurnsFit(n, T)
  BY <1>1, <1>3 DEF TurnsFit
<1>10. Waits(n, l)
  BY <1>2, <1>3 DEF Waits
<1>11. Pursued(n, l, T)
  BY <1>2, <1>3 DEF Pursued
<1> QED
  BY <1>1, <1>4, <1>6, <1>7, <1>8, <1>9, <1>10, <1>11 DEF Fit, EarlyFit

LEMMA WithoutNone ==
    ASSUME NEW B \in Tables
    PROVE  Without(B, {}) = B
<1>1. B = [x \in DOMAIN B |-> B[x]]
  BY TableIs
<1>2. DOMAIN B \ {} = DOMAIN B
  OBVIOUS
<1> QED
  BY <1>1, <1>2 DEF Without

\* The runs that belong to the task are stopped.
LEMMA CancelledOwn ==
    ASSUME NEW e \in Team, NEW t \in Tasks, NEW k, NEW l, NEW T, NEW B, Own(e, t, k, l, T, B), NEW S,
           \A b \in S : b \in DOMAIN B => B[b].task = t
    PROVE  LET c == Cancelled(e, S)
               C == Without(B, {b \in S : Abortable(e, b)})
           IN  Own(c, t, k, l, T, C) /\ c \in Team /\ Local(e, c, t)
<1> DEFINE c == Cancelled(e, S)  R == {b \in S : Abortable(e, b)}  C == Without(B, R)
<1>1. e.tasks[t] = k /\ e.launches[t] = l /\ TurnsOf(e, t) = T /\ e.batches = B /\ B \in Tables
  BY OwnIs, OwnTypes
<1>2. Rebatched(e, c, C)
  BY <1>1, CancelledIs
<1>3. DOMAIN C = DOMAIN B \ R /\ \A x \in DOMAIN B \ R : C[x] = B[x]
  BY <1>1, WithoutIs
<1>4. \A b \in R : b \in DOMAIN B => B[b].task = t
  OBVIOUS
<1> HIDE DEF R, C, c
<1>5. \A u \in Tasks \ {t} : Going(C, u) = Going(B, u)
  <2> SUFFICES ASSUME NEW u \in Tasks \ {t} PROVE Going(C, u) = Going(B, u)
    OBVIOUS
  <2>1. \A x : x \in DOMAIN C /\ C[x].task = u <=> x \in DOMAIN B /\ B[x].task = u
    BY <1>3, <1>4
  <2>2. \A x \in DOMAIN B : B[x].task = u => C[x] = B[x]
    BY <1>3, <1>4
  <2> QED
    BY <2>1, <2>2, GoingElsewhere
<1>6. Own(c, t, k, l, T, C) /\ c \in Team /\ Local(e, c, t)
  BY <1>1, <1>2, <1>5, RebatchLocal
<1> QED
  BY <1>6 DEF c, C, R

LEMMA StageSkippedSettles ==
    ASSUME NEW e \in Team, NEW t \in Tasks, NEW k, NEW l, NEW T, NEW B, Own(e, t, k, l, T, B),
           Fit(t, k, l, T, B), Waits(k, l), Pursued(k, l, T), NEW j \in Stages, CanSkipStage(k, j)
    PROVE  Settles(e, StageSkipped(e, t, j), t)
<1> DEFINE x == SkippedStage(k.stages[j], j)
           n == Restaged(k, j, x)
           S == {k.stages[j].pieces[m].batch : m \in Plan[j].who}
           c == Cancelled(e, S)
           R == {b \in S : Abortable(e, b)}
           C == Without(B, R)
           g == StageSkipped(e, t, j)
<1>1. /\ e.tasks[t] = k /\ e.batches = B /\ k \in Task /\ l \in Launch /\ T \in SUBSET Stages
      /\ B \in Tables
  BY OwnIs, OwnTypes
<1>2. k.status \in {"running", "waiting"} /\ k.at <= j /\ j \in Stages /\ ~Early(k)
  BY DEF CanSkipStage, Early
<1>3. PICK f : /\ Retask(c, f, t, n)
               /\ g = IF j = k.at THEN CarryOn([f EXCEPT !.tasks[t].at = j + 1], t) ELSE Persist(f, t)
  <2> DEFINE a == e.tasks[t]
  <2>1. PICK V, f : /\ Retask(Cancelled(e, V), f, t, Restaged(a, j, SkippedStage(a.stages[j], j)))
                    /\ V = {a.stages[j].pieces[m].batch : m \in Plan[j].who}
                    /\ g = IF j = a.at THEN CarryOn([f EXCEPT !.tasks[t].at = j + 1], t)
                           ELSE Persist(f, t)
    BY <1>1, StageSkippedIs
  <2>2. a = k
    BY <1>1
  <2> HIDE DEF a, g
  <2>3. V = S
    BY <2>1, <2>2
  <2> QED
    BY <2>1, <2>2, <2>3
<1>4. /\ x \in Stage /\ Settled(x)
      /\ \A m \in Members : Idle(x.pieces[m]) /\ PieceFit(x.pieces[m])
      /\ \A m \in Plan[j].who : Settled(x.pieces[m])
      /\ \A m \in Plan[j].who : k.stages[j].pieces[m].status \in {"running", "skipped"} =>
            x.pieces[m].status = "skipped"
  BY <1>1, SkippedOut
<1>5. /\ n \in Task /\ n.stages[j] = x /\ \A i \in Stages \ {j} : n.stages[i] = k.stages[i]
      /\ n.status = k.status /\ n.why = k.why /\ n.at = k.at /\ n.resumes = k.resumes
  BY <1>1, <1>4, RestagedIs
<1>6. \A b \in S : b # 0 => b \in DOMAIN B /\ B[b].task = t
  <2> SUFFICES ASSUME NEW m \in Plan[j].who, k.stages[j].pieces[m].batch # 0
               PROVE  k.stages[j].pieces[m].batch \in DOMAIN B /\ B[k.stages[j].pieces[m].batch].task = t
    OBVIOUS
  <2>1. m \in Members
    BY WhoOf
  <2>2. RunFit(t, j, m, k.stages[j].pieces[m], l, B)
    BY <2>1 DEF Fit, RunsFit
  <2> QED
    BY <2>2 DEF RunFit
<1>7. 0 \notin DOMAIN B
  BY <1>1, TableIs
<1>8. Own(c, t, k, l, T, C) /\ c \in Team /\ Local(e, c, t)
  <2>1. \A b \in S : b \in DOMAIN B => B[b].task = t
    BY <1>6, <1>7
  <2> HIDE DEF S
  <2> QED
    BY <2>1, CancelledOwn
<1>9. Held(t, l, C)
  <2>1. Held(t, l, B)
    BY DEF Fit
  <2>2. c.batches = C
    BY <1>8, OwnIs
  <2> HIDE DEF C, S
  <2> QED
    BY <1>1, <2>1, <2>2, CancelledHeld
<1>10. DOMAIN C = DOMAIN B \ R /\ \A b \in DOMAIN B \ R : C[b] = B[b]
  <2> HIDE DEF R
  <2> QED
    BY <1>1, WithoutIs
<1> HIDE DEF x, n, c, C, g
<1>11. Own(f, t, n, l, T, C) /\ f \in Team /\ Local(c, f, t)
  BY <1>3, <1>8, RetaskOwn, RetaskLocal, OwnIs
<1>12. Local(e, f, t)
  BY <1>8, <1>11, LocalTrans
<1>13. CASE j = k.at
  <2> DEFINE h == [f EXCEPT !.tasks[t].at = j + 1]
             y == Sent(n, j + 1)
             z == Turned(y, "running", "none")
  <2>1. j + 1 \in 1..(Len(Plan) + 1)
    BY Sizes
  <2>2. f.tasks[t] = n
    BY <1>11, OwnIs
  <2>3. Retask(f, h, t, y)
    BY <1>11, <2>1, <2>2, SendRetasks
  <2>4. y \in Task /\ y.at = j + 1 /\ y.stages = n.stages
    BY <1>5, <2>1, SentIs
  <2> HIDE DEF h, y
  <2>5. Own(h, t, y, l, T, C) /\ h \in Team /\ Local(f, h, t)
    BY <1>11, <2>3, RetaskOwn, RetaskLocal, OwnIs
  <2>6. "running" \in TaskStatus /\ "none" \in Whys
    BY DEF TaskStatus, Whys
  <2>7. z.status = "running" /\ z.why = "none" /\ z.at = j + 1 /\ z.stages = n.stages
    BY <2>4, <2>6, TurnedIs
  <2>8. \A b \in DOMAIN C : B[b].state # "starting" =>
           \A m \in Plan[j].who : k.stages[j].pieces[m].batch # b
    <3> SUFFICES ASSUME NEW b \in DOMAIN C, B[b].state # "starting", NEW m \in Plan[j].who,
                        k.stages[j].pieces[m].batch = b
                 PROVE  FALSE
      OBVIOUS
    <3>1. b \in S /\ b \in DOMAIN B /\ b \notin R
      BY <1>10
    <3>2. B[b].state \in {"starting", "running", "paused"}
      BY <1>1, <3>1, TableIs DEF Batch
    <3>3. Abortable(e, b)
      BY <1>1, <3>1, <3>2 DEF Abortable
    <3> QED
      BY <3>1, <3>3
  <2>9. \A b \in DOMAIN C : b \in DOMAIN B /\ C[b] = B[b]
    BY <1>10
  <2>10. C \in Tables
    BY <1>8, OwnTypes
  <2> HIDE DEF z
  <2>11. /\ z.status = "running" /\ z.at = j + 1 /\ Settled(z.stages[j])
         /\ \A m \in Members : Idle(z.stages[j].pieces[m]) /\ PieceFit(z.stages[j].pieces[m])
         /\ \A m \in Plan[j].who : Settled(z.stages[j].pieces[m])
         /\ \A m \in Plan[j].who : k.stages[j].pieces[m].status \in {"running", "skipped"} =>
               z.stages[j].pieces[m].status = "skipped"
         /\ \A i \in Stages \ {j} : z.stages[i] = k.stages[i]
    BY <1>4, <1>5, <2>7
  <2>12. k.at = j
    BY <1>13
  <2> HIDE DEF R, S
  <2>13. Fit(t, z, l, T, C) /\ Resting(z)
    <3>1. /\ k \in Task /\ T \in SUBSET Stages /\ B \in Tables /\ C \in Tables /\ Fit(t, k, l, T, B)
          /\ k.status \in {"running", "waiting"} /\ j \in Stages /\ k.at = j /\ Held(t, l, C)
      BY <1>1, <1>2, <1>9, <2>10, <2>12
    <3> QED
      BY ONLY <3>1, <2>8, <2>9, <2>11, SkipFit
  <2>14. Onward(z, l, T)
    BY <2>7, <2>13 DEF Onward, Resting
  <2>15. Settles(h, CarryOn(h, t), t)
    BY <2>5, <2>13, <2>14, CarryOnSettles DEF z
  <2>16. g = CarryOn(h, t)
    BY <1>3, <1>13 DEF h
  <2> QED
    <3>1. Local(e, h, t)
      BY <1>12, <2>5, LocalTrans
    <3> QED
      BY <2>15, <2>16, <3>1, SettlesTrans DEF g
<1>14. CASE j # k.at
  <2>1. k.at < j
    <3>1. k.at \in Nat /\ j \in Nat
      BY <1>1, TaskTyped, Sizes
    <3> QED
      BY <1>2, <1>14, <3>1
  <2>2. \A m \in Plan[j].who : k.stages[j].pieces[m].batch = 0
    BY <1>14, WhoOf DEF Fit, StagesFit, Idle
  <2>3. R = {}
    BY <1>1, <1>7, <2>2 DEF Abortable
  <2>4. C = B
    BY <1>1, <2>3, WithoutNone DEF C
  <2>5. Fit(t, n, l, T, B) /\ Waits(n, l) /\ Pursued(n, l, T)
    BY <1>1, <1>2, <1>4, <1>5, <2>1, AheadFit
  <2>6. Retask(c, g, t, n)
    BY <1>3, <1>14, RetaskPersist
  <2>7. Own(g, t, n, l, T, B) /\ g \in Team /\ Local(c, g, t)
    BY <1>8, <2>4, <2>6, RetaskOwn, RetaskLocal, OwnIs
  <2>8. Local(e, g, t)
    BY <1>8, <2>7, LocalTrans
  <2> QED
    BY <2>5, <2>7, <2>8, StaysSettled DEF g
<1> QED
  BY <1>13, <1>14 DEF g

LEMMA SkipStageFull ==
    ASSUME AllFull(Now), NEW t \in Tasks, NEW j \in Stages, SkipStage(t, j)
    PROVE  AllFull(Now)'
<1> DEFINE k == tasks[t]  l == launches[t]  T == TurnsOf(Now, t)  B == batches
<1>1. /\ Now \in Team /\ Own(Now, t, k, l, T, B) /\ Fit(t, k, l, T, B) /\ Waits(k, l)
      /\ Pursued(k, l, T)
  BY FullNow DEF Begins
<1>2. CanSkipStage(k, j) /\ Becomes(StageSkipped(Now, t, j))
  BY DEF SkipStage
<1> HIDE DEF k, l, T, B
<1>3. Settles(Now, StageSkipped(Now, t, j), t)
  BY <1>1, <1>2, StageSkippedSettles
<1> QED
  BY <1>2, <1>3, FullLands

\* Stage i of the task has the pieces it had.
Behind(e, f, t, i) == f.tasks[t].stages[i].pieces = e.tasks[t].stages[i].pieces

LEMMA CommissionBehind ==
    ASSUME NEW e \in Team, NEW t \in Tasks, NEW j \in Stages, NEW m \in Nat, NEW i \in Stages, i # j
    PROVE  Behind(e, Commission(e, t, j, m), t, i)
<1> DEFINE f == Commission(e, t, j, m)  k == e.tasks[t]
<1> SUFFICES Behind(e, f, t, i)
  OBVIOUS
<1>1. \/ CommissionEnds(e, f, t, j, m) \/ CommissionRefuses(e, f, t, j, m)
      \/ CommissionStarts(e, f, t, j, m)
  BY CommissionIs
<1>2. k \in Task
  BY Typed
<1> HIDE DEF f
<1>3. CASE CommissionEnds(e, f, t, j, m)
  BY <1>3 DEF CommissionEnds, Moved, Behind
<1>4. CASE f.tasks[t] = k \/ \E n \in Members, p \in Piece : f.tasks[t] = Pieced(k, j, n, p)
  BY <1>2, <1>4, PiecedIs DEF Behind
<1>5. \A n \in Members : \A b \in Nat :
         /\ [k.stages[j].pieces[n] EXCEPT !.status = "running"] \in Piece
         /\ [k.stages[j].pieces[n] EXCEPT !.status = "running", !.batch = b] \in Piece
  <2> SUFFICES ASSUME NEW n \in Members, NEW b \in Nat
               PROVE  /\ [k.stages[j].pieces[n] EXCEPT !.status = "running"] \in Piece
                      /\ [k.stages[j].pieces[n] EXCEPT !.status = "running", !.batch = b] \in Piece
    OBVIOUS
  <2>1. k.stages[j].pieces[n] \in Piece
    BY Typed
  <2> QED
    BY <2>1 DEF Piece, PieceStatus, StageStatus
<1>6. CASE CommissionRefuses(e, f, t, j, m)
  BY <1>4, <1>5, <1>6 DEF CommissionRefuses, Moved
<1>7. CASE CommissionStarts(e, f, t, j, m)
  BY <1>4, <1>5, <1>7 DEF CommissionStarts, Moved
<1> QED
  BY <1>1, <1>3, <1>6, <1>7

LEMMA RetaskBehind ==
    ASSUME NEW e, NEW f, NEW t, NEW n, Retask(e, f, t, n), NEW i,
           n.stages[i].pieces = e.tasks[t].stages[i].pieces
    PROVE  Behind(e, f, t, i)
  BY DEF Retask, Behind

LEMMA BehindTrans ==
    ASSUME NEW e, NEW f, NEW g, NEW t, NEW i, Behind(e, f, t, i), Behind(f, g, t, i)
    PROVE  Behind(e, g, t, i)
  BY DEF Behind

LEMMA GoesBehind ==
    ASSUME NEW e \in Team, NEW t \in Tasks, NEW i, NEW status \in TaskStatus, NEW why \in Whys
    PROVE  Behind(e, Goes(e, t, status, why), t, i)
<1>1. Turned(e.tasks[t], status, why).stages = e.tasks[t].stages
  <2>1. e.tasks[t] \in Task
    BY DEF Team
  <2> QED
    BY <2>1, TurnedIs
<1>2. Retask(e, Goes(e, t, status, why), t, Turned(e.tasks[t], status, why))
  BY GoesRetasks
<1> QED
  BY <1>1, <1>2, RetaskBehind

LEMMA MarkBehind ==
    ASSUME NEW k \in Task, NEW j \in Stages, NEW status \in StageStatus, NEW i \in Stages
    PROVE  Marked(k, j, status).stages[i].pieces = k.stages[i].pieces
<1>1. MarkedAs(k, Marked(k, j, status), j, status)
  BY MarkedStages
<1> QED
  BY <1>1 DEF MarkedAs

LEMMA LaunchStageBehind ==
    ASSUME NEW e \in Team, NEW t \in Tasks, NEW j \in Stages, NEW i \in Stages, i # j
    PROVE  Behind(e, LaunchStage(e, t, j), t, i)
<1> DEFINE g == LaunchStage(e, t, j)  k == e.tasks[t]
<1>1. k \in Task /\ "running" \in StageStatus
  BY Typed DEF StageStatus
<1>2. CASE g = e
  BY <1>2 DEF Behind
<1>3. CASE \E f : /\ Retask(e, f, t, Marked(k, j, "running"))
                  /\ \/ Moved(f, g, t, f.tasks[t], Restoring(j), f.batches)
                     \/ g = Commission(f, t, j, 0)
  <2>1. PICK f : /\ Retask(e, f, t, Marked(k, j, "running"))
                 /\ \/ Moved(f, g, t, f.tasks[t], Restoring(j), f.batches)
                    \/ g = Commission(f, t, j, 0)
    BY <1>3
  <2>2. Behind(e, f, t, i) /\ f \in Team
    <3>1. Marked(k, j, "running").stages[i].pieces = k.stages[i].pieces
      BY <1>1, MarkBehind
    <3> QED
      BY <2>1, <3>1, RetaskBehind DEF Retask
  <2>3. Behind(f, g, t, i)
    <3>1. CASE Moved(f, g, t, f.tasks[t], Restoring(j), f.batches)
      BY <3>1 DEF Moved, Behind
    <3>2. CASE g = Commission(f, t, j, 0)
      BY <2>2, <3>2, CommissionBehind
    <3> QED
      BY <2>1, <3>1, <3>2
  <2> HIDE DEF g
  <2> QED
    BY <2>2, <2>3, BehindTrans DEF g
<1> QED
  BY <1>2, <1>3, LaunchStageIs

\* Moving on does nothing to the pieces of the stages the task has been through.
LEMMA AdvanceBehind ==
    ASSUME NEW e \in Team, NEW t \in Tasks, NEW i \in Stages, i < e.tasks[t].at
    PROVE  Behind(e, Advance(e, t), t, i)
<1> DEFINE g == Advance(e, t)  k == e.tasks[t]
<1>1. k \in Task /\ k.at \in Nat
  <2>1. k \in Task
    BY DEF Team
  <2> QED
    BY <2>1, TaskTyped
<1>2. "waiting" \in TaskStatus /\ {"review", "done"} \subseteq TaskStatus
      /\ {"none", "checkpoint", "budget", "away"} \subseteq Whys /\ "running" \in StageStatus
  BY DEF TaskStatus, Whys, StageStatus
<1>3. Len(Plan) + 1 \in 1..(Len(Plan) + 1) /\ Stages \subseteq 1..(Len(Plan) + 1)
  BY Sizes
<1>4. CASE g = e
  BY <1>4 DEF Behind
<1>5. CASE AdvanceEnds(e, g, t)
  <2>1. PICK status \in {"review", "done"}, f \in Team :
           Retask(e, f, t, Sent(k, Len(Plan) + 1)) /\ g = Goes(f, t, status, "none")
    BY <1>5 DEF AdvanceEnds, Retask
  <2>2. Behind(e, f, t, i)
    <3>1. Sent(k, Len(Plan) + 1).stages = k.stages
      BY <1>1, <1>3, SentIs
    <3> QED
      BY <2>1, <3>1, RetaskBehind
  <2>3. Behind(f, g, t, i)
    BY <1>2, <2>1, GoesBehind
  <2> HIDE DEF g
  <2> QED
    BY <2>2, <2>3, BehindTrans DEF g
<1>6. CASE AdvanceMoves(e, g, t)
  <2>1. PICK j \in Stages, f \in Team :
           NextStage(k, j) /\ Retask(e, f, t, Sent(k, j)) /\ AdvanceGoes(e, f, g, t, j)
    BY <1>6 DEF AdvanceMoves, Retask
  <2>2. Behind(e, f, t, i)
    BY <1>1, <1>3, <2>1, SentIs, RetaskBehind
  <2>3. i # j
    BY <1>1, <2>1, Sizes DEF NextStage, Open
  <2> HIDE DEF g
  <2>4. Behind(f, g, t, i)
    <3>1. CASE g = f
      BY <3>1 DEF Behind
    <3>2. CASE \E why \in {"checkpoint", "budget", "away"} : g = Wait(f, t, why)
      BY <1>2, <3>2, GoesBehind DEF Wait
    <3>3. CASE g = LaunchStage(f, t, j)
      BY <2>3, <3>3, LaunchStageBehind
    <3>4. CASE g = RunCoordinatorStage(f, t, j)
      <4>1. CASE g = f
        BY <4>1 DEF Behind
      <4>2. CASE Turning(f, g, t, Marked(f.tasks[t], j, "running"), f.turns \cup {<<t, j>>})
        <5>1. f.tasks[t] \in Task
          BY DEF Team
        <5>2. Marked(f.tasks[t], j, "running").stages[i].pieces = f.tasks[t].stages[i].pieces
          BY <1>2, <5>1, MarkBehind
        <5> QED
          BY <4>2, <5>2 DEF Turning, Behind
      <4> QED
        BY <3>4, <4>1, <4>2, RunCoordinatorStageIs
    <3> QED
      BY <2>1, <3>1, <3>2, <3>3, <3>4 DEF AdvanceGoes
  <2> QED
    BY <2>2, <2>4, BehindTrans DEF g
<1> QED
  BY <1>4, <1>5, <1>6, AdvanceIs

LEMMA CheckStageBehind ==
    ASSUME NEW e \in Team, NEW t \in Tasks, e.tasks[t].at \in Stages
    PROVE  Behind(e, CheckStage(e, t), t, e.tasks[t].at)
<1> DEFINE g == CheckStage(e, t)  k == e.tasks[t]  j == k.at
<1> SUFFICES Behind(e, g, t, j)
  OBVIOUS
<1>1. k \in Task
  BY DEF Team
<1>2. "waiting" \in TaskStatus /\ "failed" \in Whys /\ {"failed", "done", "skipped"} \subseteq StageStatus
  BY DEF TaskStatus, Whys, StageStatus
<1>3. g = e \/ CheckStageGoes(e, g, t)
  BY CheckStageIs
<1> HIDE DEF g
<1>4. CASE g = e
  BY <1>4 DEF Behind
<1>5. CASE g = Wait(e, t, "failed")
  BY <1>2, <1>5, GoesBehind DEF Wait
<1>6. CASE \E f : Retask(e, f, t, Marked(k, j, "failed")) /\ g = Wait(f, t, "failed")
  <2>1. PICK f : Retask(e, f, t, Marked(k, j, "failed")) /\ g = Wait(f, t, "failed")
    BY <1>6
  <2>2. Behind(e, f, t, j) /\ f \in Team
    BY <1>1, <1>2, <2>1, MarkBehind, RetaskBehind, ZenonT(60) DEF Retask
  <2>3. Behind(f, g, t, j)
    BY <1>2, <2>1, <2>2, GoesBehind DEF Wait
  <2> QED
    BY <2>2, <2>3, BehindTrans
<1>7. CASE \E over \in {"done", "skipped"} : \E f :
              Retask(e, f, t, Sent(Marked(k, j, over), j + 1)) /\ g = Advance(f, t)
  <2>1. PICK over \in {"done", "skipped"}, f \in Team :
           Retask(e, f, t, Sent(Marked(k, j, over), j + 1)) /\ g = Advance(f, t)
    BY <1>7 DEF Retask
  <2> DEFINE n == Marked(k, j, over)
  <2>2. n \in Task /\ n.stages[j].pieces = k.stages[j].pieces
    <3>1. k \in Task /\ j \in Stages /\ over \in StageStatus
      BY <1>1, <1>2
    <3> HIDE DEF k, j
    <3> QED
      BY <3>1, MarkedIs, MarkBehind
  <2>3. j + 1 \in 1..(Len(Plan) + 1) /\ j < j + 1
    <3>1. j \in Stages
      BY <1>1
    <3> HIDE DEF j
    <3> QED
      BY <3>1, Sizes
  <2>4. Sent(n, j + 1).at = j + 1 /\ Sent(n, j + 1).stages = n.stages
    BY <2>2, <2>3, SentIs
  <2> HIDE DEF n, j
  <2>5. Behind(e, f, t, j)
    <3>1. Retask(e, f, t, Sent(n, j + 1)) /\ Sent(n, j + 1).stages[j].pieces = e.tasks[t].stages[j].pieces
      BY <2>1, <2>2, <2>4 DEF n, j
    <3> QED
      BY <3>1, RetaskBehind
  <2>6. j < f.tasks[t].at /\ j \in Stages
    BY <2>1, <2>3, <2>4 DEF Retask, n, j
  <2>7. Behind(f, g, t, j)
    BY <2>1, <2>6, AdvanceBehind
  <2> QED
    BY <2>5, <2>7, BehindTrans
<1> QED
  BY <1>3, <1>4, <1>5, <1>6, <1>7 DEF CheckStageGoes

\* The piece whose run has failed has heard, whatever that led to.
LEMMA ToldLeaves ==
    ASSUME NEW e \in Team, NEW t \in Tasks, NEW k, NEW l, NEW T, NEW B, Own(e, t, k, l, T, B),
           Fit(t, k, l, T, B), Waits(k, l), NEW j \in Stages, NEW m \in Members,
           NEW b \in DOMAIN B, B[b].task = t, B[b].stage = j, B[b].member = m,
           B[b].state # "starting"
    PROVE  LET q == Told(e, b, "failed").tasks[t].stages[j].pieces[m]
           IN  q.status = "failed" /\ q.batch = 0
<1> DEFINE g == Told(e, b, "failed")  o == B[b]  p == k.stages[j].pieces[m]
           q == Folded(p, b, "failed")  n == Pieced(k, j, m, q)
<1>1. /\ k \in Task /\ l \in Launch /\ T \in SUBSET Stages /\ B \in Tables
      /\ e.tasks[t] = k /\ e.batches = B
  BY OwnIs, OwnTypes
<1>2. j = k.at /\ k.status = "running" /\ p.batch = b /\ p.status \in {"running", "paused"}
  <2>1. /\ k \in Task /\ B \in Tables /\ Fit(t, k, l, T, B) /\ Waits(k, l)
        /\ b \in DOMAIN B /\ B[b].task = t /\ B[b].state # "starting"
    BY <1>1
  <2>2. /\ B[b].stage = k.at /\ k.status = "running"
        /\ k.stages[k.at].pieces[B[b].member].batch = b
        /\ k.stages[k.at].pieces[B[b].member].status \in {"running", "paused"}
    BY ONLY <2>1, Speaks
  <2> QED
    BY <2>2
<1>3. p \in Piece /\ o \in Batch /\ b \in Nat /\ "failed" \in Hows
  BY <1>1, TaskTyped, TableIs DEF Hows
<1>4. PICK f : Rebatched(e, f, Heard(B, b, "failed")) /\ g = ApplyBatch(f, o, b, "failed")
  BY <1>1, <1>3, ToldIs
<1>5. q \in Piece /\ q.status = "failed" /\ q.batch = 0
  BY <1>3, FoldedIs
<1>6. ~Deaf(k, o, b) /\ o.task = t /\ o.stage = k.at
  BY <1>2 DEF Deaf, Settled, IsTaskActive
<1>7. n = Fold(k, o, b, "failed")
  BY DEF Fold
<1>8. f \in Team /\ f.tasks[t] = k
  BY <1>1, <1>4 DEF Rebatched
<1> HIDE DEF g, o, n, q, p
<1>9. PICK d : Retask(f, d, t, n) /\ g = CheckStage(d, t)
  <2>1. \/ Deaf(f.tasks[o.task], o, b) /\ ApplyBatch(f, o, b, "failed") = f
        \/ /\ ~Deaf(f.tasks[o.task], o, b)
           /\ \E d : /\ Retask(f, d, o.task, Fold(f.tasks[o.task], o, b, "failed"))
                     /\ ApplyBatch(f, o, b, "failed") =
                          IF o.stage = f.tasks[o.task].at THEN CheckStage(d, o.task) ELSE d
    BY <1>3, <1>8, ApplyBatchIs
  <2> QED
    BY <1>4, <1>6, <1>7, <1>8, <2>1
<1>10. n.at = j /\ n.stages[j].pieces[m] = q
  BY <1>1, <1>2, <1>5, PiecedIs DEF n
<1>11. d \in Team /\ d.tasks[t] = n
  BY <1>9 DEF Retask
<1>12. Behind(d, g, t, j)
  BY <1>9, <1>10, <1>11, CheckStageBehind
<1>13. g.tasks[t].stages[j].pieces[m] = q
  BY <1>10, <1>11, <1>12 DEF Behind
<1> QED
  BY <1>5, <1>13 DEF g

\* A piece is dropped that has no run, or whose commission is in flight.
LEMMA DropFit ==
    ASSUME NEW t, NEW k \in Task, NEW l, NEW T \in SUBSET Stages, NEW B \in Tables,
           Fit(t, k, l, T, B), Waits(k, l), Pursued(k, l, T),
           NEW j \in Stages, NEW m \in Plan[j].who, NEW p, p = k.stages[j].pieces[m],
           p.batch = 0 \/ (l.at = "commissioning" /\ l.batch = p.batch),
           p.status # "done"
    PROVE  LET n == Pieced(k, j, m, Over(p, "skipped"))
           IN  Fit(t, n, l, T, B) /\ Waits(n, l) /\ Pursued(n, l, T)
<1> DEFINE q == Over(p, "skipped")  n == Pieced(k, j, m, q)
<1>1. m \in Members /\ p \in Piece
  BY WhoOf, TaskTyped
<1>2. q \in Piece /\ q.status = "skipped" /\ q.batch = 0 /\ q.clash = p.clash
  BY <1>1, OverIs
<1>3. /\ Held(t, l, B) /\ StagesFit(k) /\ EarlyFit(k, l, T) /\ LaunchFit(k, l) /\ RunsFit(t, k, l, B)
      /\ BatchesFit(t, k, l, B) /\ TurnsFit(k, T)
  BY DEF Fit
<1> HIDE DEF q
<1>4. /\ n \in Task /\ n.status = k.status /\ n.why = k.why /\ n.at = k.at /\ n.resumes = k.resumes
      /\ \A i \in Stages \ {j} : n.stages[i] = k.stages[i]
      /\ n.stages[j].status = k.stages[j].status /\ n.stages[j].pieces[m] = q
      /\ \A y \in Members \ {m} : n.stages[j].pieces[y] = k.stages[j].pieces[y]
  BY <1>1, <1>2, PiecedIs
<1> HIDE DEF n
<1>5. PieceFit(q) /\ Idle(q) /\ Settled(q) /\ ~q.clash
  <2>1. PieceFit(p)
    BY <1>1, <1>3 DEF StagesFit
  <2> QED
    BY <1>2, <2>1 DEF PieceFit, Idle, Settled
<1>6. \A i \in Stages, y \in Members :
         (i # j \/ y # m) => n.stages[i].pieces[y] = k.stages[i].pieces[y]
  BY <1>4
<1>7. \A i \in Stages : n.stages[i].status = k.stages[i].status
  BY <1>4
<1>8. StagesFit(n)
  <2> SUFFICES ASSUME NEW i \in Stages
               PROVE  /\ \A y \in Members : PieceFit(n.stages[i].pieces[y])
                      /\ Settled(n.stages[i]) => \A y \in Plan[i].who : Settled(n.stages[i].pieces[y])
                      /\ n.stages[i].status # "running" => \A y \in Members : Idle(n.stages[i].pieces[y])
                      /\ n.stages[i].status = "running" =>
                            i = n.at /\ (n.status = "running" \/ (n.status = "waiting" /\ n.why = "failed"))
                      /\ i < n.at => Settled(n.stages[i])
    BY DEF StagesFit
  <2>1. /\ \A y \in Members : PieceFit(k.stages[i].pieces[y])
        /\ Settled(k.stages[i]) => \A y \in Plan[i].who : Settled(k.stages[i].pieces[y])
        /\ k.stages[i].status # "running" => \A y \in Members : Idle(k.stages[i].pieces[y])
        /\ k.stages[i].status = "running" =>
              i = k.at /\ (k.status = "running" \/ (k.status = "waiting" /\ k.why = "failed"))
        /\ i < k.at => Settled(k.stages[i])
    BY <1>3 DEF StagesFit
  <2>2. Settled(n.stages[i]) <=> Settled(k.stages[i])
    BY <1>7 DEF Settled
  <2>3. \A y \in Members : \/ n.stages[i].pieces[y] = k.stages[i].pieces[y]
                           \/ n.stages[i].pieces[y] = q
    BY <1>4, <1>6
  <2>4. Plan[i].who \subseteq Members
    BY WhoOf
  <2> QED
    BY <1>4, <1>5, <1>7, <2>1, <2>2, <2>3, <2>4
<1>9. EarlyFit(n, l, T)
  BY <1>3, <1>4, <1>7 DEF EarlyFit, Early
<1>10. RunsFit(t, n, l, B)
  <2> SUFFICES ASSUME NEW i \in Stages, NEW y \in Members
               PROVE  RunFit(t, i, y, n.stages[i].pieces[y], l, B)
    BY DEF RunsFit
  <2>1. CASE i = j /\ y = m
    BY <1>2, <1>4, <2>1 DEF RunFit
  <2>2. CASE ~(i = j /\ y = m)
    BY <1>3, <1>6, <2>2 DEF RunsFit
  <2> QED
    BY <2>1, <2>2
<1>11. BatchesFit(t, n, l, B)
  <2> SUFFICES ASSUME NEW b \in DOMAIN B, B[b].task = t
               PROVE  /\ B[b].member \in Plan[B[b].stage].who
                      /\ \/ l.at = "commissioning" /\ l.batch = b
                         \/ n.stages[B[b].stage].pieces[B[b].member].batch = b
    BY DEF BatchesFit
  <2> DEFINE i == B[b].stage  y == B[b].member
  <2>1. i \in Stages /\ y \in Members /\ b # 0
    BY TableIs DEF Batch
  <2>2. /\ y \in Plan[i].who
        /\ \/ l.at = "commissioning" /\ l.batch = b
           \/ k.stages[i].pieces[y].batch = b
    BY <1>3 DEF BatchesFit
  <2> HIDE DEF i, y
  <2>3. CASE i = j /\ y = m
    BY <2>1, <2>2, <2>3 DEF i, y
  <2>4. CASE ~(i = j /\ y = m)
    BY <1>6, <2>1, <2>2, <2>4 DEF i, y
  <2> QED
    BY <2>3, <2>4
<1>12. LaunchFit(n, l)
  <2>1. \A i \in Stages, y \in Members :
           \/ n.stages[i].pieces[y] = k.stages[i].pieces[y]
           \/ n.stages[i].pieces[y].status = "skipped"
    BY <1>2, <1>4, <1>6
  <2>2. k.at \in Stages => n.stages[k.at].status = k.stages[k.at].status
    BY <1>7
  <2>3. Active(n) <=> Active(k)
    BY <1>4 DEF Active, IsTaskActive
  <2>4. l.at # "none" => l.stage \in Stages
    BY <1>3 DEF Held
  <2>5. l.at \in {"commissioning", "refused"} => l.member \in Plan[l.stage].who /\ l.member \in Members
    BY <1>3, <2>4, WhoOf DEF Held
  <2>6. \A i \in Stages : Plan[i].who \subseteq Members
    BY WhoOf
  <2>7. l.at # "commissioning" => l.batch = 0
    BY <1>3 DEF LaunchFit
  <2>8. ASSUME l.at # "none", Active(k)
        PROVE  /\ l.stage <= n.at
               /\ l.stage # n.at /\ n.at \in Stages /\ IsMemberStage(n.at) => n.stages[n.at].status # "running"
               /\ l.stage = n.at =>
                     /\ n.status = "running" /\ n.stages[n.at].status = "running"
                     /\ \A y \in Plan[n.at].who :
                           l.at = "ending" \/ (l.at \in {"commissioning", "refused"} /\ y <= l.member)
                           => n.stages[n.at].pieces[y].status # "pending"
               /\ l.at \in {"commissioning", "refused"} =>
                     LET r == n.stages[l.stage].pieces[l.member]
                     IN  r.status = "skipped" \/ (r.status = "running" /\ r.batch = l.batch)
    <3>1. /\ l.stage <= k.at
          /\ l.stage # k.at /\ k.at \in Stages /\ IsMemberStage(k.at) => k.stages[k.at].status # "running"
          /\ l.stage = k.at => k.status = "running" /\ k.stages[k.at].status = "running"
          /\ l.stage = k.at =>
                \A y \in Plan[k.at].who :
                   l.at = "ending" \/ (l.at \in {"commissioning", "refused"} /\ y <= l.member)
                   => k.stages[k.at].pieces[y].status # "pending"
          /\ l.at \in {"commissioning", "refused"} =>
                LET r == k.stages[l.stage].pieces[l.member]
                IN  r.status = "skipped" \/ (r.status = "running" /\ r.batch = l.batch)
      BY <1>3, <2>8 DEF LaunchFit
    <3>2. l.stage = k.at =>
            \A y \in Plan[k.at].who :
               l.at = "ending" \/ (l.at \in {"commissioning", "refused"} /\ y <= l.member)
               => n.stages[k.at].pieces[y].status # "pending"
      BY <2>1, <2>4, <2>6, <2>8, <3>1
    <3>3. l.at \in {"commissioning", "refused"} =>
            LET r == n.stages[l.stage].pieces[l.member]
            IN  r.status = "skipped" \/ (r.status = "running" /\ r.batch = l.batch)
      BY <2>1, <2>4, <2>5, <3>1
    <3>4. l.stage = k.at => k.at \in Stages
      BY <2>4, <2>8
    <3> QED
      BY <1>4, <2>2, <3>1, <3>2, <3>3, <3>4
  <2> QED
    BY <1>3, <2>3, <2>7, <2>8 DEF LaunchFit
<1>13. TurnsFit(n, T)
  BY <1>3, <1>4, <1>7 DEF TurnsFit, Active, IsTaskActive
<1>14. Waits(n, l)
  <2>1. \A y \in Plan[k.at].who : k.at \in Stages =>
           /\ Settled(k.stages[k.at].pieces[y]) => Settled(n.stages[k.at].pieces[y])
           /\ ~k.stages[k.at].pieces[y].clash => ~n.stages[k.at].pieces[y].clash
    BY <1>4, <1>5, <1>6, WhoOf
  <2>2. k.at \in Stages =>
           /\ n.stages[k.at].status = k.stages[k.at].status
           /\ Settled(n.stages[k.at]) <=> Settled(k.stages[k.at])
    BY <1>7 DEF Settled
  <2> QED
    BY <1>4, <2>1, <2>2 DEF Waits
<1>15. Pursued(n, l, T)
  <2> SUFFICES ASSUME k.status = "running"
               PROVE  \/ l # NoLaunch /\ (l.stage # k.at /\ n.stages[k.at].status = "running" => k.at \in T)
                      \/ k.at \in T
                      \/ /\ IsMemberStage(k.at) /\ n.stages[k.at].status = "running"
                         /\ \A y \in Plan[k.at].who : n.stages[k.at].pieces[y].status # "pending"
                         /\ \E y \in Plan[k.at].who : n.stages[k.at].pieces[y].batch # 0
    BY <1>4 DEF Pursued
  <2>1. k.at \in Stages /\ n.stages[k.at].status = k.stages[k.at].status
    BY <1>7 DEF Waits
  <2>2. CASE \/ l # NoLaunch /\ (l.stage # k.at /\ k.stages[k.at].status = "running" => k.at \in T)
             \/ k.at \in T
    BY <2>1, <2>2
  <2>3. CASE /\ IsMemberStage(k.at) /\ k.stages[k.at].status = "running"
             /\ \A y \in Plan[k.at].who : k.stages[k.at].pieces[y].status # "pending"
             /\ \E y \in Plan[k.at].who : k.stages[k.at].pieces[y].batch # 0
    <3>1. PICK y \in Plan[k.at].who : k.stages[k.at].pieces[y].batch # 0
      BY <2>3
    <3>2. y \in Members /\ Plan[k.at].who \subseteq Members
      BY <2>1, WhoOf
    <3>3. CASE k.at = j /\ y = m
      <4>1. l.at = "commissioning" /\ l # NoLaunch
        BY <3>1, <3>3 DEF NoLaunch
      <4>2. Active(k)
        BY DEF Active, IsTaskActive
      <4>3. ~(l.stage # k.at)
        BY <1>3, <2>1, <2>3, <4>1, <4>2 DEF LaunchFit
      <4> QED
        BY <4>1, <4>3
    <3>4. CASE ~(k.at = j /\ y = m)
      <4>1. n.stages[k.at].pieces[y].batch # 0
        BY <1>6, <2>1, <3>1, <3>2, <3>4
      <4>2. \A x \in Plan[k.at].who : n.stages[k.at].pieces[x].status # "pending"
        BY <1>2, <1>4, <1>6, <2>1, <2>3, <3>2, ZenonT(60)
      <4> QED
        BY <2>1, <2>3, <4>1, <4>2
    <3> QED
      BY <3>3, <3>4
  <2> QED
    BY <2>2, <2>3 DEF Pursued
<1>16. Fit(t, n, l, T, B)
  BY <1>3, <1>8, <1>9, <1>10, <1>11, <1>12, <1>13 DEF Fit
<1> QED
  BY <1>14, <1>15, <1>16 DEF n, q

LEMMA DroppedSettles ==
    ASSUME NEW e \in Team, NEW t \in Tasks, NEW k, NEW l, NEW T, NEW B, Own(e, t, k, l, T, B),
           Fit(t, k, l, T, B), Waits(k, l), Pursued(k, l, T),
           NEW j \in Stages, NEW m \in Plan[j].who, ~Settled(k.stages[j].pieces[m])
    PROVE  Settles(e, Dropped(e, t, j, m), t)
<1> DEFINE b == k.stages[j].pieces[m].batch
           f == IF Abortable(e, b) THEN Told(e, b, "failed") ELSE e
           g == [f EXCEPT !.tasks[t].stages[j].pieces[m].status = "skipped",
                          !.tasks[t].stages[j].pieces[m].batch = 0]
           h == f.launches[t]
           p == f.tasks[t].stages[j].pieces[m]
<1>1. /\ e.tasks[t] = k /\ e.launches[t] = l /\ e.batches = B /\ k \in Task /\ B \in Tables
      /\ m \in Members
  BY OwnIs, OwnTypes, WhoOf
<1>2. Dropped(e, t, j, m) = g
  BY <1>1 DEF Dropped
<1>3. b # 0 => /\ b \in DOMAIN B /\ B[b].task = t /\ B[b].stage = j /\ B[b].member = m
  <2>1. RunFit(t, j, m, k.stages[j].pieces[m], l, B)
    BY <1>1 DEF Fit, RunsFit
  <2> QED
    BY <2>1 DEF RunFit
<1>4. 0 \notin DOMAIN B
  BY <1>1, TableIs
<1>5. /\ Local(e, f, t) /\ f \in Team /\ FullAt(f, t)
      /\ p.batch = 0 \/ (h.at = "commissioning" /\ h.batch = p.batch)
      /\ p.status # "done"
  <2>1. CASE Abortable(e, b)
    <3>1. b \in DOMAIN B /\ B[b].state # "starting" /\ b # 0
      BY <1>1, <1>4, <2>1 DEF Abortable
    <3>2. f = Told(e, b, "failed") /\ "failed" \in Hows
      BY <2>1 DEF Hows
    <3> HIDE DEF b, f
    <3>3. Settles(e, f, t)
      BY <1>3, <3>1, <3>2, ToldSettles
    <3>4. p.status = "failed" /\ p.batch = 0
      <4>1. /\ e \in Team /\ t \in Tasks /\ Own(e, t, k, l, T, B) /\ Fit(t, k, l, T, B) /\ Waits(k, l)
            /\ j \in Stages /\ m \in Members /\ b \in DOMAIN B /\ B[b].task = t /\ B[b].stage = j
            /\ B[b].member = m /\ B[b].state # "starting"
        BY <1>1, <1>3, <3>1
      <4>2. LET q == Told(e, b, "failed").tasks[t].stages[j].pieces[m]
            IN  q.status = "failed" /\ q.batch = 0
        BY ONLY <4>1, ToldLeaves
      <4> QED
        BY <3>2, <4>2
    <3> QED
      BY <3>3, <3>4 DEF Settles
  <2>2. CASE ~Abortable(e, b)
    <3>1. f = e
      BY <2>2
    <3>2. b = 0 \/ (l.at = "commissioning" /\ l.batch = b)
      <4> SUFFICES ASSUME b # 0 PROVE l.at = "commissioning" /\ l.batch = b
        OBVIOUS
      <4>1. b \in DOMAIN B /\ B[b].task = t
        BY <1>3
      <4>2. B[b].state \in {"starting", "running", "paused"}
        BY <1>1, <4>1, TableIs DEF Batch
      <4>3. B[b].state = "starting"
        BY <1>1, <2>2, <4>1, <4>2 DEF Abortable
      <4> QED
        BY <4>1, <4>3 DEF Fit, Held
    <3>3. k.stages[j].pieces[m].status # "done"
      BY DEF Settled
    <3>4. FullAt(e, t)
      BY OwnFull
    <3> QED
      BY <1>1, <3>1, <3>2, <3>3, <3>4 DEF Local
  <2> QED
    BY <2>1, <2>2
<1> HIDE DEF f, b
<1> DEFINE x == f.tasks[t]  U == TurnsOf(f, t)  C == f.batches
           q == Over(p, "skipped")  n == Pieced(x, j, m, q)
<1>6. Own(f, t, x, h, U, C) /\ x \in Task /\ h \in Launch /\ U \in SUBSET Stages /\ C \in Tables
  BY <1>5, OwnTyped
<1>7. Retask(f, g, t, n)
  BY <1>1, <1>5, DropIs
<1>8. p = x.stages[j].pieces[m]
  OBVIOUS
<1> HIDE DEF x, h, U, C, p
<1>9. Fit(t, x, h, U, C) /\ Waits(x, h) /\ Pursued(x, h, U)
  BY <1>5, <1>6, OwnFull
<1>10. Fit(t, n, h, U, C) /\ Waits(n, h) /\ Pursued(n, h, U)
  BY <1>5, <1>6, <1>8, <1>9, DropFit
<1> HIDE DEF n, g
<1>11. Own(g, t, n, h, U, C) /\ g \in Team /\ Local(f, g, t)
  BY <1>6, <1>7, RetaskOwn, RetaskLocal, OwnIs
<1>12. Local(e, g, t)
  BY <1>5, <1>11, LocalTrans
<1> QED
  BY <1>2, <1>10, <1>11, <1>12, StaysSettled

LEMMA SkipPieceFull ==
    ASSUME AllFull(Now), NEW t \in Tasks, NEW j \in Stages, NEW m \in Members, SkipPiece(t, j, m)
    PROVE  AllFull(Now)'
<1> DEFINE e == Dropped(Now, t, j, m)  k == e.tasks[t]  l == e.launches[t]  T == TurnsOf(e, t)
           B == e.batches  d == Persist(e, t)
           g == IF j = k.at /\ k.stages[j].status = "running" THEN CheckStage(d, t)
                ELSE IF \E n \in Plan[j].who : k.stages[j].pieces[n].status # "skipped" THEN d
                ELSE IF CanSkipStage(k, j) THEN StageSkipped(e, t, j) ELSE e
<1>1. m \in Plan[j].who /\ ~Settled(tasks[t].stages[j].pieces[m]) /\ Becomes(g)
  BY DEF SkipPiece
<1>2. Settles(Now, e, t)
  <2> DEFINE x == tasks[t]  h == launches[t]  U == TurnsOf(Now, t)  C == batches
  <2>1. /\ Now \in Team /\ Own(Now, t, x, h, U, C) /\ Fit(t, x, h, U, C) /\ Waits(x, h)
        /\ Pursued(x, h, U) /\ ~Settled(x.stages[j].pieces[m])
    BY <1>1, FullNow DEF Begins
  <2> HIDE DEF x, h, U, C
  <2> QED
    BY <1>1, <2>1, DroppedSettles
<1> HIDE DEF e
<1>3. e \in Team /\ Local(Now, e, t) /\ FullAt(e, t)
  BY <1>2 DEF Settles
<1>4. Own(e, t, k, l, T, B)
  BY <1>3, OwnTyped
<1>5. Fit(t, k, l, T, B) /\ Waits(k, l) /\ Pursued(k, l, T)
  BY <1>3, <1>4, OwnFull
<1>6. Retask(e, d, t, k)
  BY <1>3, PersistKeeps
<1> HIDE DEF k, l, T, B, d
<1>7. Own(d, t, k, l, T, B) /\ d \in Team /\ Local(e, d, t)
  BY <1>4, <1>6, RetaskOwn, RetaskLocal, OwnIs
<1>8. Settles(e, g, t)
  <2>1. CASE j = k.at /\ k.stages[j].status = "running"
    <3>1. Settles(d, CheckStage(d, t), t)
      BY <1>5, <1>7, CheckStageSettles
    <3> QED
      BY <1>7, <2>1, <3>1, SettlesTrans
  <2>2. Settles(e, d, t)
    BY <1>5, <1>7, StaysSettled
  <2>3. CanSkipStage(k, j) => Settles(e, StageSkipped(e, t, j), t)
    BY <1>3, <1>4, <1>5, StageSkippedSettles
  <2>4. Settles(e, e, t)
    BY <1>3 DEF Settles, Local
  <2> QED
    BY <2>1, <2>2, <2>3, <2>4
<1> HIDE DEF g
<1>9. Settles(Now, g, t)
  BY <1>3, <1>8, SettlesTrans
<1> QED
  BY <1>1, <1>9, FullLands

LEMMA CancelFull ==
    ASSUME AllFull(Now), NEW t \in Tasks, Cancel(t)
    PROVE  AllFull(Now)'
<1> DEFINE k == tasks[t]  l == launches[t]  T == TurnsOf(Now, t)  B == batches
           V == UNION {{k.stages[j].pieces[m].batch : m \in Plan[j].who} : j \in Stages}
           d == Cancelled(Now, V)  R == {b \in V : Abortable(Now, b)}  C == Without(B, R)
           x == Ended(k)  n == Turned(x, "cancelled", "none")
<1>1. /\ Now \in Team /\ Own(Now, t, k, l, T, B) /\ Fit(t, k, l, T, B)
      /\ k \in Task /\ l \in Launch /\ T \in SUBSET Stages /\ B \in Tables /\ Now.batches = B
  BY FullNow DEF Begins
<1>2. PICK f : Retask(d, f, t, x) /\ Becomes(Goes(f, t, "cancelled", "none"))
  BY FullAll, CancelIs
<1>3. \A b \in V : b \in DOMAIN B => B[b].task = t
  <2> SUFFICES ASSUME NEW j \in Stages, NEW m \in Plan[j].who, k.stages[j].pieces[m].batch \in DOMAIN B
               PROVE  B[k.stages[j].pieces[m].batch].task = t
    OBVIOUS
  <2>1. m \in Members /\ 0 \notin DOMAIN B
    BY <1>1, WhoOf, TableIs
  <2>2. RunFit(t, j, m, k.stages[j].pieces[m], l, B)
    BY <1>1, <2>1 DEF Fit, RunsFit
  <2> QED
    BY <2>1, <2>2 DEF RunFit
<1>4. \A j \in Stages : \A m \in Plan[j].who : k.stages[j].pieces[m].batch \in V
  <2> SUFFICES ASSUME NEW j \in Stages, NEW m \in Plan[j].who PROVE k.stages[j].pieces[m].batch \in V
    OBVIOUS
  <2>1. k.stages[j].pieces[m].batch \in {k.stages[j].pieces[y].batch : y \in Plan[j].who}
    OBVIOUS
  <2> QED
    BY <2>1
<1> HIDE DEF k, l, T, B, V
<1>5. Own(d, t, k, l, T, C) /\ d \in Team /\ Local(Now, d, t)
  BY <1>1, <1>3, CancelledOwn
<1>6. Held(t, l, C)
  <2>1. Held(t, l, B) /\ d.batches = C
    BY <1>1, <1>5, OwnIs DEF Fit
  <2> HIDE DEF C
  <2> QED
    BY <1>1, <2>1, CancelledHeld
<1>7. DOMAIN C = DOMAIN B \ R /\ \A b \in DOMAIN B \ R : C[b] = B[b]
  <2> HIDE DEF R
  <2> QED
    BY <1>1, WithoutIs
<1> HIDE DEF C, d
<1>8. OnlyHeld(t, l, C)
  <2> SUFFICES ASSUME NEW b \in DOMAIN C, C[b].task = t
               PROVE  C[b].member \in Plan[C[b].stage].who /\ l.at = "commissioning" /\ l.batch = b
    BY DEF OnlyHeld
  <2>1. b \in DOMAIN B /\ b \notin R /\ C[b] = B[b]
    BY <1>7
  <2>2. B[b].stage \in Stages /\ B[b].state \in {"starting", "running", "paused"}
    BY <1>1, <2>1, TableIs DEF Batch
  <2>3. /\ B[b].member \in Plan[B[b].stage].who
        /\ \/ l.at = "commissioning" /\ l.batch = b
           \/ k.stages[B[b].stage].pieces[B[b].member].batch = b
    BY <1>1, <2>1 DEF Fit, BatchesFit
  <2>4. CASE k.stages[B[b].stage].pieces[B[b].member].batch = b
    <3>1. b \in V
      BY <1>4, <2>2, <2>3, <2>4
    <3>2. B[b].state = "starting"
      BY <1>1, <2>1, <2>2, <3>1 DEF Abortable
    <3> QED
      BY <1>1, <2>1, <2>3, <3>2 DEF Fit, Held
  <2> QED
    BY <2>1, <2>3, <2>4
<1>9. x \in Task /\ \A j \in Stages : k.stages[j] \in Stage /\ x.stages[j] = Stopped(k.stages[j], j)
  BY <1>1, EndedIs
<1>10. "cancelled" \in TaskStatus /\ "none" \in Whys
  BY DEF TaskStatus, Whys
<1> HIDE DEF x
<1>11. n \in Task /\ n.status = "cancelled" /\ n.why = "none" /\ n.stages = x.stages
  BY <1>9, <1>10, TurnedIs
<1> HIDE DEF n
<1>12. \A j \in Stages :
          /\ Settled(n.stages[j]) /\ \A m \in Plan[j].who : Settled(n.stages[j].pieces[m])
          /\ \A m \in Members : PieceFit(n.stages[j].pieces[m]) /\ Idle(n.stages[j].pieces[m])
  <2> SUFFICES ASSUME NEW j \in Stages
               PROVE  /\ Settled(n.stages[j]) /\ \A m \in Plan[j].who : Settled(n.stages[j].pieces[m])
                      /\ \A m \in Members : PieceFit(n.stages[j].pieces[m]) /\ Idle(n.stages[j].pieces[m])
    OBVIOUS
  <2> DEFINE s == k.stages[j]  y == n.stages[j]
  <2>1. /\ y.status = IF Settled(s) THEN s.status ELSE IF SomeDone(s) THEN "done" ELSE "failed"
        /\ \A m \in Members : y.pieces[m] = IF m \notin Plan[j].who \/ Settled(s.pieces[m])
                                            THEN s.pieces[m] ELSE Over(s.pieces[m], "failed")
    <3>1. y = Stopped(s, j) /\ s \in Stage
      BY <1>9, <1>11
    <3> HIDE DEF s, y
    <3>2. /\ y.status = IF Settled(s) THEN s.status ELSE IF SomeDone(s) THEN "done" ELSE "failed"
          /\ \A m \in Members : y.pieces[m] = IF m \notin Plan[j].who \/ Settled(s.pieces[m])
                                              THEN s.pieces[m]
                                              ELSE [s.pieces[m] EXCEPT !.status = "failed", !.batch = 0]
      <4>1. /\ Stopped(s, j).status = IF Settled(s) THEN s.status
                                      ELSE IF SomeDone(s) THEN "done" ELSE "failed"
            /\ \A m \in Members :
                  Stopped(s, j).pieces[m] = IF m \notin Plan[j].who \/ Settled(s.pieces[m])
                                            THEN s.pieces[m]
                                            ELSE [s.pieces[m] EXCEPT !.status = "failed", !.batch = 0]
        BY ONLY <3>1, j \in Stages, StoppedIs, Zenon
      <4> QED
        BY ONLY <3>1, <4>1, Zenon
    <3>3. \A p : Over(p, "failed") = [p EXCEPT !.status = "failed", !.batch = 0]
      BY DEF Over
    <3> QED
      BY <3>2, <3>3
  <2>2. Settled(y)
    BY <2>1 DEF Settled
  <2>3. Plan[j].who \subseteq Members
    BY WhoOf
  <2>4. \A m \in Members : /\ PieceFit(y.pieces[m]) /\ Idle(y.pieces[m])
                           /\ m \in Plan[j].who => Settled(y.pieces[m])
    <3> SUFFICES ASSUME NEW m \in Members
                 PROVE  /\ PieceFit(y.pieces[m]) /\ Idle(y.pieces[m])
                        /\ m \in Plan[j].who => Settled(y.pieces[m])
      OBVIOUS
    <3> DEFINE p == s.pieces[m]
    <3>1. p \in Piece /\ PieceFit(p) /\ (m \notin Plan[j].who => Idle(p))
      BY <1>1, TaskTyped, OutsideIdle DEF Fit, StagesFit
    <3>2. Over(p, "failed").status = "failed" /\ Over(p, "failed").batch = 0
          /\ Over(p, "failed").clash = p.clash
      BY <3>1, OverIs
    <3> HIDE DEF p, y
    <3>3. CASE m \notin Plan[j].who
      BY <2>1, <3>1, <3>3 DEF p
    <3>4. CASE m \in Plan[j].who /\ Settled(p)
      <4>1. y.pieces[m] = p
        BY <2>1, <3>4 DEF p
      <4> QED
        BY <3>1, <3>4, <4>1 DEF PieceFit, Idle, Settled
    <3>5. CASE m \in Plan[j].who /\ ~Settled(p)
      <4>1. y.pieces[m] = Over(p, "failed")
        BY <2>1, <3>5 DEF p
      <4> QED
        BY <3>1, <3>2, <3>5, <4>1 DEF PieceFit, Idle, Settled
    <3> QED
      BY <3>3, <3>4, <3>5
  <2> QED
    BY <2>2, <2>3, <2>4
<1>13. StagesFit(n) /\ Resting(n)
  BY <1>12, WhoOf DEF StagesFit, Resting, Settled
<1>14. Fit(t, n, l, T, C)
  <2>1. /\ l.at # "none" => IsMemberStage(l.stage)
        /\ l.at # "commissioning" => l.batch = 0
        /\ \A j \in T : ~IsMemberStage(j)
    BY <1>1 DEF Fit, LaunchFit, TurnsFit
  <2>2. ~Active(n) /\ ~Early(n)
    BY <1>11 DEF Active, IsTaskActive, Early
  <2> QED
    BY <1>6, <1>8, <1>11, <1>13, <2>1, <2>2, EndedFit
<1>15. Waits(n, l) /\ Pursued(n, l, T)
  BY <1>11 DEF Waits, Pursued
<1>16. Own(f, t, x, l, T, C) /\ f \in Team /\ Local(d, f, t)
  BY <1>2, <1>5, RetaskOwn, RetaskLocal, OwnIs
<1> DEFINE g == Goes(f, t, "cancelled", "none")
<1>17. Settles(f, g, t)
  BY <1>10, <1>14, <1>15, <1>16, GoesSettles DEF n
<1>18. Becomes(g)
  BY <1>2
<1> HIDE DEF g
<1>19. Local(Now, f, t)
  BY <1>5, <1>16, LocalTrans
<1>20. Settles(Now, g, t)
  BY <1>17, <1>19, SettlesTrans
<1> QED
  BY <1>18, <1>20, FullLands

LEMMA DeleteTaskFull ==
    ASSUME AllFull(Now), NEW t \in Tasks, DeleteTask(t)
    PROVE  AllFull(Now)'
<1> DEFINE k == tasks[t]  l == launches[t]  T == TurnsOf(Now, t)  B == batches
           f == [Now EXCEPT !.tasks[t] = Deleted]
<1>1. /\ Now \in Team /\ Own(Now, t, k, l, T, B) /\ Fit(t, k, l, T, B) /\ Waits(k, l)
      /\ k \in Task /\ B \in Tables /\ Now.tasks = tasks
  BY FullNow DEF Begins
<1>2. k.status # "running" /\ Becomes(f)
  BY <1>1 DEF DeleteTask, Becomes, Now, Deleted
<1>3. Retask(Now, f, t, Deleted)
  BY <1>1, NewTaskIs, PutIs
<1> HIDE DEF k, l, T, B, f
<1>4. \A j \in Stages, m \in Members : k.stages[j].pieces[m].batch = 0
  <2>1. CASE k.status = "waiting" /\ k.why = "failed"
    <3>1. k.at \in Stages /\ \A m \in Plan[k.at].who : Settled(k.stages[k.at].pieces[m])
      BY <1>1, <2>1 DEF Waits
    <3>2. \A m \in Members : Idle(k.stages[k.at].pieces[m])
      BY <1>1, <3>1, IdleAll
    <3>3. \A j \in Stages : j # k.at => \A m \in Members : Idle(k.stages[j].pieces[m])
      BY <1>1 DEF Fit, StagesFit
    <3> QED
      BY <3>2, <3>3 DEF Idle
  <2>2. CASE ~(k.status = "waiting" /\ k.why = "failed")
    BY <1>1, <1>2, <2>2, NotRunning, RestingUnbatched
  <2> QED
    BY <2>1, <2>2
<1>5. OnlyHeld(t, l, B)
  BY <1>1, <1>4, RestingHeld
<1>6. /\ Deleted \in Task /\ Deleted.status = "deleted" /\ Deleted.why = "none"
      /\ Deleted.stages = Planned
  BY NewTaskIs
<1>7. ~Active(Deleted) /\ ~Early(Deleted)
  BY <1>6 DEF Active, IsTaskActive, Early
<1>8. Unbegun(Deleted)
  BY <1>6, NewPieces DEF Unbegun, NewPiece, PieceFit, Idle
<1>9. Resting(Deleted)
  BY <1>8 DEF Resting, Unbegun
<1>10. StagesFit(Deleted)
  <2>1. \A j \in Stages : ~(j < Deleted.at)
    BY NewTaskIs, Sizes
  <2> QED
    BY <1>8, <2>1 DEF StagesFit, Unbegun, Settled
<1>11. /\ Held(t, l, B)
       /\ l.at # "none" => IsMemberStage(l.stage)
       /\ l.at # "commissioning" => l.batch = 0
       /\ \A j \in T : ~IsMemberStage(j)
  BY <1>1 DEF Fit, LaunchFit, TurnsFit
<1>12. Fit(t, Deleted, l, T, B)
  BY <1>5, <1>6, <1>7, <1>9, <1>10, <1>11, EndedFit
<1>13. Waits(Deleted, l) /\ Pursued(Deleted, l, T)
  BY <1>6 DEF Waits, Pursued
<1>14. Own(f, t, Deleted, l, T, B) /\ f \in Team /\ Local(Now, f, t)
  BY <1>1, <1>3, RetaskOwn, RetaskLocal, OwnIs
<1>15. Settles(Now, f, t)
  BY <1>12, <1>13, <1>14, StaysSettled
<1> QED
  BY <1>2, <1>15, FullLands

-----------------------------------------------------------------------------
(* The crew, the members and the budget.                                   *)

LEMMA SpendsFull ==
    ASSUME AllFull(Now), NEW t \in Tasks, Spends(t)
    PROVE  AllFull(Now)'
<1> DEFINE x == tasks[t]  l == launches[t]  T == TurnsOf(Now, t)  B == batches
           k == [x EXCEPT !.broke = TRUE]
           f == [Now EXCEPT !.tasks[t] = k]
<1>1. /\ Now \in Team /\ Own(Now, t, x, l, T, B) /\ Fit(t, x, l, T, B) /\ Waits(x, l)
      /\ Pursued(x, l, T) /\ x \in Task /\ T \in SUBSET Stages /\ B \in Tables /\ Now.tasks = tasks
  BY FullNow DEF Begins
<1>2. Becomes(f)
  BY <1>1 DEF Spends, Becomes, Now
<1>3. /\ k \in Task /\ k.status = x.status /\ k.at = x.at /\ k.why = x.why
      /\ k.stages = x.stages /\ k.resumes = x.resumes
  BY <1>1 DEF Task
<1>4. Retask(Now, f, t, k)
  BY <1>1, <1>3, PutIs
<1> HIDE DEF x, l, T, B, k, f
<1>5. Fit(t, k, l, T, B)
  <2>1. Alike(x, k)
    BY <1>3 DEF Alike
  <2> QED
    BY <1>1, <2>1, AlikeFit
<1>6. Waits(k, l) /\ Pursued(k, l, T)
  BY <1>1, <1>3 DEF Waits, Pursued
<1>7. Own(f, t, k, l, T, B) /\ f \in Team /\ Local(Now, f, t)
  BY <1>1, <1>4, RetaskOwn, RetaskLocal, OwnIs
<1>8. Settles(Now, f, t)
  BY <1>5, <1>6, <1>7, StaysSettled
<1> QED
  BY <1>2, <1>8, FullLands

\* What only concerns the crew and the members.
LEMMA CrewFull ==
    ASSUME AllFull(Now), CrewLeaves \/ \E m \in Members : MemberPaused(m)
    PROVE  AllFull(Now)'
<1>1. PICK a \in BOOLEAN, i \in SUBSET Members :
        /\ tasks' = tasks /\ planning' = planning /\ turns' = turns /\ launches' = launches
        /\ batches' = batches /\ waking' = waking /\ away' = a /\ idle' = i
  <2>1. away \in BOOLEAN /\ idle \subseteq Members
    BY DEF AllFull, Team, Now
  <2>2. CASE CrewLeaves
    BY <2>1, <2>2 DEF CrewLeaves
  <2>3. CASE \E m \in Members : MemberPaused(m)
    BY <2>1, <2>3 DEF MemberPaused
  <2> QED
    BY <2>2, <2>3
<1> DEFINE f == [Now EXCEPT !.away = a, !.idle = i]
<1>2. Becomes(f)
  BY <1>1 DEF Becomes, Now
<1>3. Same(Now, f)
  BY DEF AllFull, Team, Same
<1> HIDE DEF f
<1>4. AllFull(f)
  BY <1>3, SameFull
<1> QED
  BY <1>2, <1>4, FullBecomes

LEMMA ResumedFull ==
    ASSUME NEW e, NEW t \in Tasks, AllFull(e)
    PROVE  AllFull(Resumed(e, t))
<1> DEFINE k == e.tasks[t]  l == e.launches[t]  T == TurnsOf(e, t)  B == e.batches
           n == Turned(k, "running", "none")
           f == Resumed(e, t)
<1>1. /\ e \in Team /\ Own(e, t, k, l, T, B) /\ FullAt(e, t)
      /\ k \in Task /\ l \in Launch /\ T \in SUBSET Stages /\ B \in Tables
  BY OwnTyped DEF AllFull
<1>2. CASE ~(k.status = "waiting" /\ k.why = "away")
  BY <1>2 DEF Resumed
<1>3. CASE k.status = "waiting" /\ k.why = "away"
  <2>1. f = CarryOn(e, t)
    BY <1>3 DEF Resumed
  <2> HIDE DEF k, l, T, B, f
  <2>2. Fit(t, k, l, T, B)
    BY <1>1, OwnFull
  <2>3. "running" \in TaskStatus /\ "none" \in Whys
    BY DEF TaskStatus, Whys
  <2>4. n \in Task /\ n.status = "running" /\ n.why = "none" /\ n.at = k.at /\ n.stages = k.stages
    BY <1>1, <2>3, TurnedIs
  <2> HIDE DEF n
  <2>5. Resting(k) /\ Active(k) /\ ~Early(n)
    BY <1>3, <2>2, <2>4, NotRunning DEF Active, IsTaskActive, Early
  <2>6. Fit(t, n, l, T, B) /\ Resting(n)
    BY <1>1, <2>2, <2>4, <2>5, TurnFit
  <2>7. Onward(n, l, T)
    BY <2>4, <2>6 DEF Onward, Resting
  <2>8. Settles(e, f, t)
    BY <1>1, <2>1, <2>6, <2>7, CarryOnSettles DEF n
  <2>9. AllFull(f)
    BY <2>8, SettledFull
  <2> QED
    BY <2>9 DEF f
<1> QED
  BY <1>2, <1>3 DEF k

LEMMA CrewReturnsFull ==
    ASSUME AllFull(Now), CrewReturns
    PROVE  AllFull(Now)'
<1> DEFINE e == [Now EXCEPT !.away = FALSE]
           f == AllResumed(e)
           V == {x \in Team : AllFull(x)}
<1>1. Becomes(f)
  BY DEF CrewReturns
<1>2. Now \in Team
  BY DEF AllFull
<1>3. Same(Now, e)
  BY <1>2 DEF Same, Team
<1> HIDE DEF e
<1>4. AllFull(e)
  BY <1>3, SameFull
<1>5. e \in V
  BY <1>4 DEF AllFull
<1>6. \A a \in V, t \in Tasks : Resumed(a, t) \in V
  <2> SUFFICES ASSUME NEW a \in V, NEW t \in Tasks PROVE Resumed(a, t) \in V
    OBVIOUS
  <2>1. AllFull(Resumed(a, t))
    BY ResumedFull
  <2> QED
    BY <2>1 DEF AllFull
<1> HIDE DEF V
<1>7. f \in V
  BY <1>5, <1>6, AllResumedStays
<1> HIDE DEF f
<1>8. AllFull(f)
  BY <1>7 DEF V
<1> QED
  BY <1>1, <1>8, FullBecomes

-----------------------------------------------------------------------------
(* A restart.                                                              *)

\* A task as the process finds it again: no call of it is in flight.
Shelved(e, t) ==
    FitAt(e, t) /\ WaitsAt(e, t) /\ e.launches[t] = NoLaunch /\ TurnsOf(e, t) = {}

\* What a piece is found as.
FoundAs(t, j, m, p, q) ==
    /\ PieceFit(q) /\ q.clash = p.clash /\ q.batch \in {0, p.batch}
    /\ Settled(p) => q = p
    /\ Idle(p) => Idle(q)
    /\ p.batch # 0 /\ ~Lost(p.batch) => q.batch = p.batch
    /\ q.batch # 0 => /\ ~Lost(q.batch) /\ m \in Plan[j].who /\ batches[q.batch].task = t
                      /\ batches[q.batch].stage = j /\ batches[q.batch].member = m
    /\ q.batch = 0 => q.status \notin {"running", "paused"}

LEMMA FoundFit ==
    ASSUME NEW t, NEW k \in Task, NEW l, NEW T, l.at \notin {"refused", "ending"},
           batches \in Tables, Fit(t, k, l, T, batches), NEW j \in Stages, NEW m \in Members
    PROVE  FoundAs(t, j, m, k.stages[j].pieces[m], Found(k.stages[j].pieces[m]))
<1> DEFINE p == k.stages[j].pieces[m]  q == Found(p)
<1>1. p \in Piece
  BY TaskTyped
<1>2. PieceFit(p) /\ RunFit(t, j, m, p, l, batches)
  BY DEF Fit, StagesFit, RunsFit
<1> HIDE DEF p
<1>3. CASE p.batch = 0
  <2>1. q = p
    BY <1>3 DEF Found
  <2>2. p.status \notin {"running", "paused"}
    BY <1>2, <1>3 DEF RunFit
  <2> HIDE DEF q
  <2> QED
    BY <1>2, <1>3, <2>1, <2>2 DEF FoundAs, q, p
<1>4. CASE p.batch # 0
  <2>1. ~Settled(p) /\ ~p.clash /\ ~Idle(p)
    BY <1>2, <1>4 DEF PieceFit, Settled, Idle
  <2>2. /\ m \in Plan[j].who /\ batches[p.batch].task = t
        /\ batches[p.batch].stage = j /\ batches[p.batch].member = m
    BY <1>2, <1>4 DEF RunFit
  <2>3. CASE Lost(p.batch)
    <3>1. q.status = "failed" /\ q.batch = 0 /\ q.clash = p.clash
      BY <1>1, <1>4, <2>3 DEF Found, Piece
    <3> HIDE DEF q
    <3>2. PieceFit(q)
      BY <2>1, <3>1 DEF PieceFit
    <3> QED
      BY <1>4, <2>1, <2>3, <3>1, <3>2 DEF FoundAs, q, p
  <2>4. CASE ~Lost(p.batch)
    <3>1. q.status = "paused" /\ q.batch = p.batch /\ q.clash = p.clash
      BY <1>1, <1>4, <2>4 DEF Found, Piece
    <3> HIDE DEF q
    <3>2. PieceFit(q)
      BY <2>1, <3>1 DEF PieceFit
    <3> QED
      BY <1>4, <2>1, <2>2, <2>4, <3>1, <3>2 DEF FoundAs, q, p
  <2> QED
    BY <2>3, <2>4
<1> QED
  BY <1>3, <1>4

LEMMA FoundTaskFit ==
    ASSUME NEW t, NEW k \in Task, NEW l, NEW T, l.at \notin {"refused", "ending"},
           batches \in Tables, Fit(t, k, l, T, batches), Waits(k, l),
           NEW n \in Task, NEW C \in Tables,
           n.status = k.status /\ n.why = k.why /\ n.at = k.at /\ n.resumes = k.resumes,
           \A j \in Stages : /\ n.stages[j].status = k.stages[j].status
                             /\ \A m \in Members :
                                  n.stages[j].pieces[m] = Found(k.stages[j].pieces[m]),
           DOMAIN C = {b \in DOMAIN batches : ~Lost(b)},
           \A b \in DOMAIN C : /\ C[b].state = "paused" /\ C[b].task = batches[b].task
                               /\ C[b].stage = batches[b].stage /\ C[b].member = batches[b].member
    PROVE  Fit(t, n, NoLaunch, {}, C) /\ Waits(n, NoLaunch)
<1>1. \A j \in Stages, m \in Members :
         FoundAs(t, j, m, k.stages[j].pieces[m], n.stages[j].pieces[m])
  BY FoundFit
<1>2. Held(t, NoLaunch, C)
  BY HeldIdle DEF NoneStarting
<1>3. StagesFit(n)
  <2> SUFFICES ASSUME NEW j \in Stages
               PROVE  LET s == n.stages[j]
                      IN  /\ \A m \in Members : PieceFit(s.pieces[m])
                          /\ Settled(s) => \A m \in Plan[j].who : Settled(s.pieces[m])
                          /\ s.status # "running" => \A m \in Members : Idle(s.pieces[m])
                          /\ s.status = "running" =>
                                j = n.at /\ (n.status = "running"
                                               \/ (n.status = "waiting" /\ n.why = "failed"))
                          /\ j < n.at => Settled(s)
    BY DEF StagesFit
  <2> DEFINE s == k.stages[j]  y == n.stages[j]
  <2>1. /\ Settled(s) => \A m \in Plan[j].who : Settled(s.pieces[m])
        /\ s.status # "running" => \A m \in Members : Idle(s.pieces[m])
        /\ s.status = "running" =>
              j = k.at /\ (k.status = "running" \/ (k.status = "waiting" /\ k.why = "failed"))
        /\ j < k.at => Settled(s)
    BY DEF Fit, StagesFit
  <2>2. y.status = s.status /\ (Settled(y) <=> Settled(s))
    BY DEF Settled
  <2>3. \A m \in Members : /\ PieceFit(y.pieces[m])
                           /\ Settled(s.pieces[m]) => Settled(y.pieces[m])
                           /\ Idle(s.pieces[m]) => Idle(y.pieces[m])
    BY <1>1, ZenonT(60) DEF FoundAs
  <2>4. Plan[j].who \subseteq Members
    BY WhoOf
  <2> HIDE DEF s, y
  <2> QED
    BY <2>1, <2>2, <2>3, <2>4 DEF y
<1>4. EarlyFit(n, NoLaunch, {})
  <2>1. EarlyFit(k, l, T) /\ (Early(n) <=> Early(k))
    BY DEF Fit, Early
  <2> QED
    BY <2>1 DEF EarlyFit
<1>5. LaunchFit(n, NoLaunch)
  BY DEF LaunchFit, NoLaunch
<1>6. RunsFit(t, n, NoLaunch, C)
  <2> SUFFICES ASSUME NEW j \in Stages, NEW m \in Members
               PROVE  RunFit(t, j, m, n.stages[j].pieces[m], NoLaunch, C)
    BY DEF RunsFit
  <2> DEFINE q == n.stages[j].pieces[m]
  <2>1. /\ q.batch # 0 => /\ ~Lost(q.batch) /\ m \in Plan[j].who
                          /\ batches[q.batch].task = t
                          /\ batches[q.batch].stage = j /\ batches[q.batch].member = m
        /\ q.batch = 0 => q.status \notin {"running", "paused"}
    <3>1. FoundAs(t, j, m, k.stages[j].pieces[m], q)
      BY <1>1
    <3> HIDE DEF q
    <3> QED
      BY <3>1 DEF FoundAs
  <2> HIDE DEF q
  <2>2. q.batch # 0 => q.batch \in DOMAIN C
    BY <2>1 DEF Lost
  <2> QED
    BY <2>1, <2>2 DEF RunFit, q
<1>7. BatchesFit(t, n, NoLaunch, C)
  <2> SUFFICES ASSUME NEW b \in DOMAIN C, C[b].task = t
               PROVE  C[b].member \in Plan[C[b].stage].who
                      /\ n.stages[C[b].stage].pieces[C[b].member].batch = b
    BY DEF BatchesFit
  <2>1. /\ b \in DOMAIN batches /\ ~Lost(b) /\ batches[b].state # "starting" /\ batches[b].task = t
        /\ C[b].stage = batches[b].stage /\ C[b].member = batches[b].member
    BY DEF Lost
  <2>2. b # 0 /\ batches[b].stage \in Stages /\ batches[b].member \in Members
    BY <2>1, TableIs DEF Batch
  <2>3. batches[b].member \in Plan[batches[b].stage].who
        /\ \/ l.at = "commissioning" /\ l.batch = b
           \/ k.stages[batches[b].stage].pieces[batches[b].member].batch = b
    BY <2>1 DEF Fit, BatchesFit
  <2>4. ~(l.at = "commissioning" /\ l.batch = b)
    BY <2>1 DEF Fit, Held
  <2>5. n.stages[batches[b].stage].pieces[batches[b].member].batch = b
    <3> DEFINE i == batches[b].stage  m == batches[b].member
    <3>1. i \in Stages /\ m \in Members /\ k.stages[i].pieces[m].batch = b
      BY <2>2, <2>3, <2>4
    <3> HIDE DEF i, m
    <3>2. FoundAs(t, i, m, k.stages[i].pieces[m], n.stages[i].pieces[m])
      BY <1>1, <3>1
    <3>3. n.stages[i].pieces[m].batch = b
      BY <2>1, <2>2, <3>1, <3>2 DEF FoundAs
    <3> QED
      BY <3>3 DEF i, m
  <2> QED
    BY <2>1, <2>3, <2>5
<1>8. TurnsFit(n, {})
  BY DEF TurnsFit
<1>9. Waits(n, NoLaunch)
  <2>1. k.at \in Stages =>
          /\ n.stages[k.at].status = k.stages[k.at].status
          /\ \A m \in Plan[k.at].who :
                /\ Settled(k.stages[k.at].pieces[m]) => Settled(n.stages[k.at].pieces[m])
                /\ n.stages[k.at].pieces[m].clash = k.stages[k.at].pieces[m].clash
    <3> SUFFICES ASSUME k.at \in Stages, NEW m \in Plan[k.at].who
                 PROVE  /\ Settled(k.stages[k.at].pieces[m]) => Settled(n.stages[k.at].pieces[m])
                        /\ n.stages[k.at].pieces[m].clash = k.stages[k.at].pieces[m].clash
      OBVIOUS
    <3>1. FoundAs(t, k.at, m, k.stages[k.at].pieces[m], n.stages[k.at].pieces[m])
      BY <1>1, WhoOf
    <3> QED
      BY <3>1 DEF FoundAs
  <2> QED
    <3>1. k.at \in Stages => (Settled(n.stages[k.at]) <=> Settled(k.stages[k.at]))
      BY DEF Settled
    <3> QED
      BY <2>1, <3>1 DEF Waits
<1> QED
  BY <1>2, <1>3, <1>4, <1>5, <1>6, <1>7, <1>8, <1>9 DEF Fit

LEMMA ReloadedShelved ==
    ASSUME AllFull(Now), Quiet, NEW t \in Tasks
    PROVE  Reloaded \in Team /\ Shelved(Reloaded, t)
<1> DEFINE k == tasks[t]  l == launches[t]  T == TurnsOf(Now, t)
           n == Reloaded.tasks[t]  C == Reloaded.batches
<1>1. All(Now)
  BY FullAll
<1>2. /\ Reloaded \in Team /\ n = FoundIn(k) /\ Reloaded.launches[t] = NoLaunch
      /\ Reloaded.turns = {} /\ C \in Tables
      /\ DOMAIN C = {b \in DOMAIN batches : ~Lost(b)}
      /\ \A b \in DOMAIN C : C[b] = [batches[b] EXCEPT !.state = "paused"]
  BY <1>1, ReloadedIs
<1>3. /\ Fit(t, k, l, T, batches) /\ Waits(k, l) /\ k \in Task /\ batches \in Tables
  BY FullNow
<1>4. l.at \notin {"refused", "ending"}
  BY DEF Quiet
<1>5. /\ n \in Task /\ n.status = k.status /\ n.why = k.why /\ n.at = k.at /\ n.resumes = k.resumes
      /\ \A j \in Stages : /\ n.stages[j].status = k.stages[j].status
                           /\ \A m \in Members :
                                n.stages[j].pieces[m] = Found(k.stages[j].pieces[m])
  BY <1>2, <1>3, FoundInIs
<1>6. \A b \in DOMAIN C : /\ C[b].state = "paused" /\ C[b].task = batches[b].task
                          /\ C[b].stage = batches[b].stage /\ C[b].member = batches[b].member
  <2>1. \A b \in DOMAIN batches : batches[b] \in Batch
    BY <1>3, TableIs
  <2> QED
    BY <1>2, <2>1 DEF Batch
<1> HIDE DEF k, l, T, n, C
<1>7. Fit(t, n, NoLaunch, {}, C) /\ Waits(n, NoLaunch)
  BY <1>2, <1>3, <1>4, <1>5, <1>6, FoundTaskFit
<1>8. TurnsOf(Reloaded, t) = {}
  BY <1>2 DEF TurnsOf
<1> QED
  BY <1>2, <1>7, <1>8 DEF Shelved, FitAt, WaitsAt, n, C

LEMMA RecoverSettles ==
    ASSUME NEW e \in Team, NEW t \in Tasks, Shelved(e, t)
    PROVE  Settles(e, Recover(e, t), t)
<1> DEFINE k == e.tasks[t]  B == e.batches  j == k.at  s == k.stages[j]  f == Recover(e, t)
<1>1. Own(e, t, k, NoLaunch, {}, B) /\ k \in Task /\ B \in Tables
  BY OwnTyped DEF Shelved
<1>2. Fit(t, k, NoLaunch, {}, B) /\ Waits(k, NoLaunch)
  <2> HIDE DEF k, B
  <2> QED
    BY <1>1, OwnFull DEF Shelved
<1>3. NoLaunch \in Launch /\ NoLaunch.at = "none" /\ {} \in SUBSET Stages
  BY DEF Launch, NoLaunch
<1>4. CASE k.status # "running"
  <2>1. f = e \/ f = Plans(e, t)
    BY <1>4 DEF Recover
  <2>2. Same(e, f)
    BY <2>1, PlansSame DEF Same
  <2> HIDE DEF k, B, f
  <2>3. Own(f, t, k, NoLaunch, {}, B) /\ f \in Team /\ Local(e, f, t)
    BY <1>1, <2>2, SameOwn
  <2>4. Pursued(k, NoLaunch, {})
    BY <1>4 DEF Pursued
  <2>5. Settles(e, f, t)
    BY <1>2, <2>3, <2>4, StaysSettled
  <2> QED
    BY <2>5 DEF f
<1>5. CASE k.status = "running"
  <2>1. j \in Stages /\ ~Settled(s) /\ k.why = "none"
    BY <1>2, <1>5 DEF Waits
  <2>2. Active(k) /\ ~Early(k)
    BY <1>5 DEF Active, IsTaskActive, Early
  <2>3. CASE s.status # "running"
    <3>1. f = Advance(e, t)
      BY <1>5, <2>1, <2>3 DEF Recover
    <3>2. Onward(k, NoLaunch, {})
      BY <1>5, <2>1, <2>3 DEF Onward
    <3> HIDE DEF k, B, j, s, f
    <3>3. Settles(e, f, t)
      BY <1>1, <1>2, <3>1, <3>2, AdvanceSettles
    <3> QED
      BY <3>3 DEF f
  <2>4. CASE s.status = "running" /\ ~IsMemberStage(j)
    <3> DEFINE d == [e EXCEPT !.tasks[t].stages[j].status = "pending"]  n == Marked(k, j, "pending")
    <3>1. f = Advance(d, t)
      BY <1>5, <2>1, <2>4 DEF Recover
    <3>2. Retask(e, d, t, n)
      BY <2>1, MarkRetasks DEF StageStatus
    <3> HIDE DEF k, B, j, s, f, d
    <3>3. MarkedAs(k, n, j, "pending") /\ SamePieces(k, n)
      BY <1>1, <2>1, MarkedStages DEF StageStatus
    <3> HIDE DEF n
    <3>4. /\ n \in Task /\ n.status = "running" /\ n.why = "none" /\ n.at = j
          /\ n.stages[j].status = "pending" /\ n.stages[j].pieces = k.stages[j].pieces
          /\ \A i \in Stages \ {j} : n.stages[i] = k.stages[i]
          /\ ~Early(n)
      BY <1>5, <2>1, <3>3 DEF MarkedAs, Early, j
    <3>5. \A i \in Stages : k.stages[i].status = "running" => i = j
      BY <1>2 DEF Fit, StagesFit, j
    <3>6. \A m \in Members : Idle(k.stages[j].pieces[m])
      BY <1>2, <2>1, <2>4, WhoOf, OutsideIdle
    <3>7. StagesFit(n)
      <4> SUFFICES ASSUME NEW i \in Stages
                   PROVE  LET x == n.stages[i]
                          IN  /\ \A m \in Members : PieceFit(x.pieces[m])
                              /\ Settled(x) => \A m \in Plan[i].who : Settled(x.pieces[m])
                              /\ x.status # "running" => \A m \in Members : Idle(x.pieces[m])
                              /\ x.status = "running" =>
                                    i = n.at /\ (n.status = "running"
                                                   \/ (n.status = "waiting" /\ n.why = "failed"))
                              /\ i < n.at => Settled(x)
        BY DEF StagesFit
      <4>1. /\ \A m \in Members : PieceFit(k.stages[i].pieces[m])
            /\ Settled(k.stages[i]) => \A m \in Plan[i].who : Settled(k.stages[i].pieces[m])
            /\ k.stages[i].status # "running" => \A m \in Members : Idle(k.stages[i].pieces[m])
            /\ i < j => Settled(k.stages[i])
        BY <1>2 DEF Fit, StagesFit, j
      <4>2. CASE i = j
        <5>1. ~Settled(n.stages[i]) /\ n.stages[i].status = "pending" /\ ~(i < n.at)
          BY <3>4, <4>2, Sizes DEF Settled
        <5> QED
          BY <3>4, <3>6, <4>1, <4>2, <5>1
      <4>3. CASE i # j
        BY <3>4, <3>5, <4>1, <4>3
      <4> QED
        BY <4>2, <4>3
    <3>8. Resting(n)
      BY <3>4, <3>5 DEF Resting
    <3>9. j = k.at /\ k.at \in Nat
      BY <2>1, Sizes DEF j
    <3>10. k.at <= n.at
      BY <3>4, <3>9
    <3>11. Fit(t, n, NoLaunch, {}, B)
      BY <1>1, <1>2, <1>3, <2>2, <3>3, <3>4, <3>7, <3>8, <3>10, RestFit
    <3>12. Onward(n, NoLaunch, {})
      BY <3>4, <3>8 DEF Onward, Resting
    <3>13. Own(d, t, n, NoLaunch, {}, B) /\ d \in Team /\ Local(e, d, t)
      BY <1>1, <3>2, RetaskOwn, RetaskLocal, OwnIs
    <3>14. Settles(d, f, t)
      BY <3>1, <3>11, <3>12, <3>13, AdvanceSettles
    <3>15. Settles(e, f, t)
      BY <3>13, <3>14, SettlesTrans
    <3> QED
      BY <3>15 DEF f
  <2>5. CASE s.status = "running" /\ IsMemberStage(j) /\ \E m \in Plan[j].who : s.pieces[m].status = "pending"
    <3> DEFINE n == Marked(k, j, "running")
    <3>1. f = LaunchStage(e, t, j)
      BY <1>5, <2>1, <2>5 DEF Recover
    <3>0. k.at = j /\ s = k.stages[j]
      OBVIOUS
    <3> HIDE DEF k, B, j, s, f
    <3>2. MarkedAs(k, n, j, "running")
      BY <1>1, <2>1, MarkedStages DEF StageStatus
    <3> HIDE DEF n
    <3>3. Alike(k, n)
      BY <2>1, <2>5, <3>0, <3>2 DEF Alike, MarkedAs
    <3>4. Fit(t, n, NoLaunch, {}, B)
      BY <1>1, <1>2, <1>3, <3>3, AlikeFit
    <3>5. Settles(e, f, t)
      BY <1>1, <1>5, <2>1, <2>5, <3>0, <3>1, <3>4, LaunchStageSettles DEF n
    <3> QED
      BY <3>5 DEF f
  <2>6. CASE /\ s.status = "running" /\ IsMemberStage(j)
             /\ ~\E m \in Plan[j].who : s.pieces[m].status = "pending"
    <3> DEFINE d == Persist(e, t)
    <3>1. f = CheckStage(d, t)
      BY <1>5, <2>1, <2>6 DEF Recover
    <3>2. Retask(e, d, t, k)
      BY PersistKeeps
    <3>0. k.at = j /\ s = k.stages[j]
      OBVIOUS
    <3> HIDE DEF k, B, j, s, f, d
    <3>3. Own(d, t, k, NoLaunch, {}, B) /\ d \in Team /\ Local(e, d, t)
      BY <1>1, <3>2, RetaskOwn, RetaskLocal, OwnIs
    <3>4. Pursued(k, NoLaunch, {}) \/ Landed(k, NoLaunch)
      <4>1. CASE \E m \in Plan[j].who : s.pieces[m].batch # 0
        BY <1>5, <2>6, <3>0, <4>1 DEF Pursued
      <4>2. CASE \A m \in Plan[j].who : s.pieces[m].batch = 0
        <5>1. \A m \in Plan[j].who : Settled(s.pieces[m])
          <6> SUFFICES ASSUME NEW m \in Plan[j].who PROVE Settled(s.pieces[m])
            OBVIOUS
          <6>1. m \in Members
            BY <2>1, WhoOf
          <6>2. RunFit(t, j, m, s.pieces[m], NoLaunch, B) /\ s.pieces[m].status \in PieceStatus
            BY <1>1, <1>2, <2>1, <3>0, <6>1, TaskTyped DEF Fit, RunsFit
          <6>3. s.pieces[m].status \notin {"running", "paused"}
            BY <1>3, <4>2, <6>2 DEF RunFit
          <6> QED
            BY <2>6, <6>2, <6>3 DEF PieceStatus, StageStatus, Settled
        <5> QED
          BY <1>5, <2>1, <2>6, <3>0, <5>1 DEF Landed, StillGoing
      <4> QED
        BY <4>1, <4>2
    <3>5. Settles(d, f, t)
      BY <1>2, <3>1, <3>3, <3>4, CheckStageSettles
    <3>6. Settles(e, f, t)
      BY <3>3, <3>5, SettlesTrans
    <3> QED
      BY <3>6 DEF f
  <2> QED
    BY <2>3, <2>4, <2>5, <2>6
<1> QED
  BY <1>4, <1>5

\* The tasks up to n have been taken up.
Halfway(x, n) ==
    x \in Team /\ (\A u \in 1..n : FullAt(x, u)) /\ \A u \in Tasks : u > n => Shelved(x, u)

LEMMA RecoverHalfway ==
    ASSUME NEW x, NEW n \in Tasks, Halfway(x, n - 1)
    PROVE  Halfway(Recover(x, n), n)
<1> DEFINE f == Recover(x, n)
<1>1. Tasks = 1..K /\ K \in Nat /\ n \in Nat /\ n > n - 1
  BY Sizes
<1>2. x \in Team /\ Shelved(x, n)
  BY <1>1 DEF Halfway
<1>3. f \in Team /\ Local(x, f, n) /\ FullAt(f, n)
  BY <1>2, RecoverSettles DEF Settles
<1> HIDE DEF f
<1>4. ASSUME NEW u \in 1..n PROVE FullAt(f, u)
  <2>1. CASE u = n
    BY <1>3, <2>1
  <2>2. CASE u # n
    <3>1. u \in Tasks \ {n} /\ u \in 1..(n - 1)
      BY <1>1, <2>2
    <3> QED
      BY <1>3, <3>1, FullOfSlice DEF Halfway, Local
  <2> QED
    BY <2>1, <2>2
<1>5. ASSUME NEW u \in Tasks, u > n PROVE Shelved(f, u)
  <2>1. u \in Tasks \ {n} /\ u > n - 1
    BY <1>1, <1>5
  <2>2. Shelved(x, u) /\ Slice(f, u) = Slice(x, u)
    BY <1>3, <2>1 DEF Halfway, Local
  <2>3. f.launches[u] = x.launches[u] /\ TurnsOf(f, u) = TurnsOf(x, u)
    BY <2>2 DEF Slice, TurnsOf
  <2> QED
    BY <2>2, <2>3, FullOfSlice DEF Shelved
<1>6. Halfway(f, n)
  BY <1>3, <1>4, <1>5 DEF Halfway
<1> QED
  BY <1>6 DEF f

LEMMA RestartFull ==
    ASSUME AllFull(Now), Restart
    PROVE  AllFull(Now)'
<1> DEFINE V == {x \in Team : All(x)}
           e == AllRecovered(Reloaded)
           f == StartNext(e)
<1>1. Becomes(f) /\ Quiet
  BY DEF Restart
<1>2. Tasks = 1..K /\ K \in Nat
  BY Sizes
<1>3. Reloaded \in V
  BY FullAll, ReloadedRests DEF All
<1>4. \A a \in V, t \in Tasks : Recover(a, t) \in V
  <2> SUFFICES ASSUME NEW a \in V, NEW t \in Tasks PROVE Recover(a, t) \in V
    OBVIOUS
  <2>1. Rested(a, a)
    BY DEF Rested
  <2>2. All(Recover(a, t))
    BY <2>1, RecoverRests
  <2> QED
    BY <2>2 DEF All
<1> HIDE DEF V
<1>5. PICK w \in [0..K -> V] :
         /\ w[0] = Reloaded /\ e = w[K]
         /\ \A n \in 1..K : w[n] = Recover(w[n - 1], n)
  BY <1>3, <1>4, AllRecoveredWalks
<1> HIDE DEF e
<1> DEFINE S == {n \in 0..K : Halfway(w[n], n)}
<1>6. 0 \in S
  <2>1. Reloaded \in Team
    BY <1>3 DEF V
  <2>2. \A u \in Tasks : Shelved(Reloaded, u)
    BY <1>1, ReloadedShelved
  <2>3. Halfway(Reloaded, 0)
    BY <2>1, <2>2 DEF Halfway
  <2> QED
    BY <1>2, <1>5, <2>3
<1>7. ASSUME NEW n \in 1..K, n - 1 \in S PROVE n \in S
  <2>1. Halfway(w[n - 1], n - 1) /\ w[n] = Recover(w[n - 1], n) /\ n \in Tasks /\ n \in 0..K
    BY <1>2, <1>5, <1>7
  <2>2. Halfway(w[n], n)
    BY <2>1, RecoverHalfway
  <2> QED
    BY <2>1, <2>2
<1> HIDE DEF S
<1>8. \A n \in 0..K : n \in S
  BY <1>2, <1>6, <1>7, UpTo
<1>9. Halfway(e, K)
  BY <1>2, <1>5, <1>8 DEF S
<1>10. AllFull(e)
  BY <1>2, <1>9 DEF Halfway, AllFull
<1>11. AllFull(f)
  BY <1>10, StartNextFull
<1> HIDE DEF f
<1> QED
  BY <1>1, <1>11, FullBecomes

-----------------------------------------------------------------------------
(* The results, where no piece is run again during a launch and none that  *)
(* is paused, or would not merge, is redone.                               *)

LEMMA FullInit ==
    ASSUME Init
    PROVE  AllFull(Now)
<1>1. Now \in Team
  BY AllInit DEF All
<1>2. \A t \in Tasks : /\ Now.tasks[t] = NewTask /\ Now.launches[t] = NoLaunch
                       /\ TurnsOf(Now, t) = {} /\ DOMAIN Now.batches = {}
  BY DEF Init, Now, TurnsOf
<1> SUFFICES ASSUME NEW t \in Tasks PROVE FullAt(Now, t)
  BY <1>1 DEF AllFull
<1> DEFINE k == NewTask  B == Now.batches
<1>3. Own(Now, t, k, NoLaunch, {}, B)
  BY <1>2 DEF Own
<1>4. /\ k \in Task /\ k.status = "none" /\ k.at = 1 /\ k.why = "none" /\ k.resumes = "no"
      /\ k.stages = Planned
  BY NewTaskIs
<1>5. NoneOf(t, B)
  BY <1>2 DEF NoneOf
<1> HIDE DEF k, B
<1>6. Unbegun(k)
  BY <1>4, NewPieces DEF Unbegun, NewPiece, PieceFit, Idle
<1>7. Fit(t, k, NoLaunch, {}, B)
  BY <1>4, <1>5, <1>6, UnbegunFit
<1>8. Waits(k, NoLaunch) /\ Pursued(k, NoLaunch, {})
  BY <1>4 DEF Waits, Pursued
<1> QED
  BY <1>3, <1>7, <1>8, OwnFull

LEMMA NextFull ==
    ASSUME Careful, AllFull(Now), Next
    PROVE  AllFull(Now)'
<1>1. CASE WakeUp
  BY <1>1, WakeUpFull
<1>2. CASE CrewLeaves \/ \E m \in Members : MemberPaused(m)
  BY <1>2, CrewFull
<1>3. CASE CrewReturns
  BY <1>3, CrewReturnsFull
<1>4. CASE Restart
  BY <1>4, RestartFull
<1>5. CASE \E b \in DOMAIN batches :
             BatchEnds(b) \/ \E how \in {"running", "paused"} : BatchChanges(b, how)
  BY <1>5, BatchChangesFull DEF BatchEnds, Hows
<1>6. ASSUME NEW t \in Tasks,
             \/ LaunchStep(t) \/ PlanStep(t) \/ Person(t) \/ Spends(t) \/ CommissionRejects(t)
             \/ \E j \in Stages : TurnStep(t, j)
      PROVE  AllFull(Now)'
  <2>1. CASE LaunchStep(t)
    BY <2>1, RestoreReturnsFull, CommissionRefusedFull, LaunchEndsFull, CommissionReturnsFull
       DEF LaunchStep
  <2>2. CASE PlanStep(t)
    BY <2>2, PlanReturnsFull DEF PlanStep
  <2>3. CASE Spends(t)
    BY <2>3, SpendsFull
  <2>4. CASE \E j \in Stages : TurnStep(t, j)
    BY <2>4, TurnReturnsFull DEF TurnStep
  <2>5. CASE Person(t)
    <3>1. CASE Brief(t) \/ Answer(t) \/ Revise(t) \/ Approve(t) \/ ContinueTask(t)
      BY <3>1, BriefFull, AnswerFull, ApproveFull, ContinueTaskFull
    <3>2. CASE RetryPlan(t) \/ Retry(t) \/ Cancel(t) \/ Accept(t) \/ DeleteTask(t)
      BY <3>2, RetryPlanFull, RetryFull, CancelFull, AcceptFull, DeleteTaskFull
    <3>3. CASE \E m \in Members : RetryPiece(t, m) \/ RedoPiece(t, m)
      BY <3>3, RetryPieceFull, RedoPieceFull
    <3>4. CASE \E j \in Stages : SkipStage(t, j) \/ \E m \in Members : SkipPiece(t, j, m)
      BY <3>4, SkipStageFull, SkipPieceFull
    <3> QED
      BY <2>5, <3>1, <3>2, <3>3, <3>4 DEF Person
  <2>6. ~CommissionRejects(t)
    BY DEF CommissionRejects, Careful
  <2> QED
    BY <1>6, <2>1, <2>2, <2>3, <2>4, <2>5, <2>6
<1> QED
  BY <1>1, <1>2, <1>3, <1>4, <1>5, <1>6 DEF Next

LEMMA FullStep ==
    ASSUME Careful, AllFull(Now), [Next]_vars
    PROVE  AllFull(Now)'
<1>1. CASE Next
  BY <1>1, NextFull
<1>2. CASE UNCHANGED vars
  <2>1. Now' = Now
    BY <1>2 DEF vars, Now
  <2>2. AllFull(Now')
    BY <2>1
  <2> QED
    BY <2>2
<1> QED
  BY <1>1, <1>2

\* Every piece, stage, launch, turn and batch of every task fits the others.
THEOREM AllFits == Careful /\ Spec => []AllFull(Now)
<1> SUFFICES ASSUME Careful PROVE Spec => []AllFull(Now)
  OBVIOUS
<1>1. Init => AllFull(Now)
  BY FullInit
<1>2. AllFull(Now) /\ [Next]_vars => AllFull(Now)'
  BY FullStep
<1> QED
  BY <1>1, <1>2, PTL DEF Spec

LEMMA FullOrders == AllFull(Now) => StageOrder
<1> SUFFICES ASSUME AllFull(Now), NEW t \in Tasks, NEW i \in Stages, NEW j \in Stages, i < j,
                    \/ tasks[t].stages[j].status = "running"
                    \/ \E m \in Plan[j].who : tasks[t].stages[j].pieces[m].batch # 0
             PROVE  /\ Settled(tasks[t].stages[i])
                    /\ \A m \in Plan[i].who : Settled(tasks[t].stages[i].pieces[m])
  BY DEF StageOrder
<1> DEFINE k == tasks[t]
<1>1. StagesFit(k)
  BY FullNow DEF Fit
<1>2. k.stages[j].status = "running"
  BY <1>1, WhoOf DEF StagesFit, Idle
<1>3. i < k.at
  BY <1>1, <1>2 DEF StagesFit
<1> QED
  BY <1>1, <1>3 DEF StagesFit

\* A stage is begun only once every piece of every stage before it is in, has failed or
\* was dropped - whatever was skipped, retried, cancelled or recovered on the way
\* (teamEngine.ts, advance and checkStage).
THEOREM StagesInOrder == Careful /\ Spec => []StageOrder
  BY AllFits, FullOrders, PTL

LEMMA FullWatched == AllFull(Now) => NothingRunsOn
<1> SUFFICES ASSUME AllFull(Now), NEW b \in DOMAIN batches
             PROVE  LET o == batches[b]
                        p == tasks[o.task].stages[o.stage].pieces[o.member]
                    IN  \/ launches[o.task].batch = b
                        \/ p.batch = b /\ ~Settled(p) /\ IsTaskActive(tasks[o.task])
  BY DEF NothingRunsOn
<1> DEFINE t == batches[b].task  j == batches[b].stage  m == batches[b].member
           k == tasks[t]  p == k.stages[j].pieces[m]
<1>1. b # 0 /\ t \in Tasks /\ j \in Stages /\ m \in Members
  <2>1. batches \in Tables
    BY DEF AllFull, Team, Now
  <2> QED
    BY <2>1, TableIs DEF Batch
<1>2. Fit(t, k, launches[t], TurnsOf(Now, t), batches)
  BY <1>1, FullNow
<1>3. (launches[t].at = "commissioning" /\ launches[t].batch = b) \/ p.batch = b
  BY <1>2 DEF Fit, BatchesFit
<1>4. ASSUME p.batch = b PROVE ~Settled(p) /\ IsTaskActive(k)
  <2>1. /\ PieceFit(p)
        /\ k.stages[j].status # "running" => Idle(p)
        /\ k.stages[j].status = "running" => k.status \in {"running", "waiting"}
    BY <1>1, <1>2 DEF Fit, StagesFit
  <2> HIDE DEF p
  <2> QED
    BY <1>1, <1>4, <2>1 DEF PieceFit, Idle, Settled, IsTaskActive
<1> QED
  BY <1>3, <1>4

\* No run of a piece goes on once the piece is settled or its task has ended: it was
\* stopped, or the commission that is still in flight will stop it (teamEngine.ts,
\* launchMemberStage, dropPiece and cancel).
THEOREM NoRunIsLeft == Careful /\ Spec => []NothingRunsOn
  BY AllFits, FullWatched, PTL

LEMMA FullPursued == AllFull(Now) => RunningIsPursued
<1> SUFFICES ASSUME AllFull(Now), NEW t \in Tasks, tasks[t].status = "running"
             PROVE  \/ launches[t] # NoLaunch
                    \/ <<t, tasks[t].at>> \in turns
                    \/ \E m \in Plan[tasks[t].at].who : Here(t).pieces[m].batch # 0
  BY DEF RunningIsPursued
<1>1. Pursued(tasks[t], launches[t], TurnsOf(Now, t)) /\ Now.turns = turns
  BY FullNow
<1> QED
  BY <1>1 DEF Pursued, TurnsOf, Here

\* A task that reads as running is always being moved on: by a launch, by a turn of its
\* stage or by a batch (teamEngine.ts, advance, checkStage, retryPiece and recover).
THEOREM TasksArePursued == Careful /\ Spec => []RunningIsPursued
  BY AllFits, FullPursued, PTL
=============================================================================
