--------------------------- MODULE SchedulerProofs ---------------------------
(***************************************************************************)
(* What is proved of the scheduler, for every number of schedules, runs    *)
(* and edits and however far the clock goes: its types, that no ended run  *)
(* is told as going, that a wakeup is set, that runs do not overlap and    *)
(* that the cadence fires once a period.                                   *)
(*                                                                         *)
(* The invariant has two layers.  Sound needs nothing.  Kept relates the   *)
(* objects, the files, the launches in flight and the history, and holds   *)
(* while no edit replaces an object that a launch still holds (Calm).      *)
(***************************************************************************)
EXTENDS Scheduler, Walks

Calm == "editMidLaunch" \notin Happens

-----------------------------------------------------------------------------
(* The invariant.                                                          *)

\* Objects are numbered: nobody holds a number that no object has.
Counted(e, n) == \A s \in Sched :
    /\ e.cur[s] <= Len(e.objs[s]) /\ Len(e.objs[s]) <= n + 1
    /\ Firing(e, s) => /\ e.firing[s].obj <= Len(e.objs[s])
                       /\ \A t \in Sched : e.firing[s].listed[t] <= Len(e.objs[t])

\* An object's run was launched for its schedule, by this process.
Mine(e) == \A s \in Sched : \A v \in 1..Len(e.objs[s]) : \A r \in Runs :
    e.objs[s][v].active = r =>
        e.runs[r].by = s /\ e.runs[r].state \notin {"none", "parked"}

\* A run told as launched is going, or has been deleted, and is its schedule's;
\* or its end is not for the process that launched it.
Reported(e) == \A r \in Runs : e.history[r] = "launched" =>
    /\ e.runs[r].state # "none"
    /\ e.runs[r].by \in Listed(e) =>
         \/ e.runs[r].state = "gone" \/ r \in unseen
         \/ e.runs[r].state = "live" /\ e.owner[r] = e.runs[r].by

Sound(e, n) == e \in Engine /\ Counted(e, n) /\ Mine(e) /\ Reported(e)

\* A file holds the object that is in the map.
Filed(e) == \A s \in Sched :
    e.file[s] = IF e.cur[s] = 0 THEN NoFile ELSE Loaded(Object(e, s))

\* A launch in flight holds what is in the map, and so does who waits for it.
Held(e) == \A s \in Sched : Firing(e, s) =>
    /\ e.cur[s] # 0 /\ e.firing[s].obj = e.cur[s] /\ e.firing[s].listed = e.cur
    /\ e.firing[s].by = "chain" => e.firing[s].depth > 0 /\ Object(e, s).trigger = "chain"

\* A chain started a run of s after r.
Beside(e, s, r) == \E q \in Runs : q > r /\ e.runs[q].by = s /\ e.runs[q].depth > 0

LiveOf(e, s, r) == e.runs[r].by = s /\ e.runs[r].state = "live"

NoneStarts(e, f) == \A t \in Sched, q \in Runs : LiveOf(f, t, q) => LiveOf(e, t, q)

\* The map knows every run that goes, but for one that a chain overtook; and a
\* launch is in flight only where no run goes that it would have to wait for.
Tracked(e) == \A s \in Sched, r \in Runs : e.cur[s] # 0 /\ LiveOf(e, s, r) =>
    Object(e, s).active = r \/ (Object(e, s).overlap = "queue" /\ Beside(e, s, r))
Clear(e) == \A s \in Sched, r \in Runs : Firing(e, s) /\ LiveOf(e, s, r) =>
    /\ Object(e, s).overlap = "queue"
    /\ e.firing[s].by = "chain" \/ Beside(e, s, r)

\* Runs are numbered as they are launched.
Numbered(e) == \A x \in Runs : e.runs[x].state = "none" =>
    e.runs[x].by = Nobody /\ \A y \in Runs : x < y => e.runs[y].state = "none"

\* A run that goes tells the schedule whose object names it.
Owned(e) == \A s \in Sched, r \in Runs :
    e.cur[s] # 0 /\ Object(e, s).active = r /\ e.runs[r].state = "live" => e.owner[r] = s

\* The cadence of s, whose object is o, has moved on from its last firing; what
\* it is owed came due a period after that.  F: launches counted as firings.
Paced(e, s, o, fired, c, F) ==
    /\ fired[s] # Never =>
         /\ fired[s] \in 0..c
         /\ e.cur[s] # 0 => Anchor(o) >= fired[s] /\ (o.pending => c >= fired[s] + Period)
    /\ Firing(e, s) /\ e.firing[s].by = "tick" =>
         /\ e.firing[s].now <= c
         /\ s \notin F => /\ Anchor(o) >= c /\ ~o.pending
                          /\ fired[s] # Never => c >= fired[s] + Period

Cadence(e, fired, c, F) == \A s \in Sched : Paced(e, s, Object(e, s), fired, c, F)

Kept(e, fired, c, F) ==
    /\ Filed(e) /\ Held(e) /\ Tracked(e) /\ Clear(e) /\ Numbered(e) /\ Owned(e)
    /\ Cadence(e, fired, c, F)

SoundKept(e, n, F) == Sound(e, n) /\ (Calm => Kept(e, firedAt, clock, F))

-----------------------------------------------------------------------------
(* Walks.                                                                  *)

\* The tick's walk stays in a set that every step of it stays in.
LEMMA TickWalkStays ==
    ASSUME NEW e, NEW now, NEW listed, NEW from \in Nat \ {0}, NEW V,
           [e |-> e, at |-> Nobody] \in V,
           \A a \in V, s \in Sched : s >= from => TickOne(now, listed, a, s) \in V
    PROVE  TickWalk(e, now, listed, from) \in V
<1> DEFINE v == [e |-> e, at |-> Nobody]
           Step(a, s) == IF s < from THEN v ELSE TickOne(now, listed, a, s)
           F == [x \in V \X (1..M) |-> Step(x[1], x[2])]
           Is(w) == w = [s \in 0..M |-> IF s < from THEN v ELSE TickOne(now, listed, w[s - 1], s)]
           w == CHOOSE w : Is(w)
<1>1. M \in Nat /\ Sched = 1..M
  BY SizeAssumption DEF Sched
<1>2. \A a \in V, s \in 1..M : Step(a, s) \in V
  BY <1>1
<1>3. v \in V /\ F \in [V \X (1..M) -> V]
  BY <1>2
<1>4. \A a \in V, s \in 1..M : F[<<a, s>>] = Step(a, s)
  OBVIOUS
<1>5. TickWalk(e, now, listed, from) = w[M]
  BY DEF TickWalk
<1> HIDE DEF F, v
<1>6. PICK f \in [0..M -> V] : f[0] = v /\ \A n \in 1..M : f[n] = F[<<f[n - 1], n>>]
  <2>1. M \in Nat
    BY <1>1
  <2>2. \A u \in V, G \in [V \X (1..M) -> V] :
          \E g \in [0..M -> V] : IsWalk(g, M, u, G)
    BY <2>1, WalkExists, Zenon
  <2> QED
    BY <1>3, <2>2 DEF IsWalk
<1>7. \A n \in 1..M : n - 1 \in 0..M /\ f[n - 1] \in V
  <2>1. \A n \in 1..M : n - 1 \in 0..M
    BY <1>1
  <2>2. \A n \in 0..M : f[n] \in V
    OBVIOUS
  <2> QED
    BY <2>1, <2>2
<1>8. \A n \in 1..M : f[n] = Step(f[n - 1], n)
  <2>1. \A n \in 1..M : f[n] = F[<<f[n - 1], n>>]
    BY <1>6
  <2> QED
    BY <1>4, <1>7, <2>1
<1>9. Is(f)
  <2>1. ASSUME NEW s \in 0..M PROVE f[s] = IF s < from THEN v ELSE TickOne(now, listed, f[s - 1], s)
    <3>1. CASE s = 0
      <4>1. f[0] = v
        BY <1>6
      <4>2. 0 < from
        OBVIOUS
      <4> QED
        BY <3>1, <4>1, <4>2
    <3>2. CASE s # 0
      BY <3>2, <1>8, <1>1
    <3> QED
      BY <3>1, <3>2
  <2> QED
    BY <2>1, <1>6
<1>10. Is(w)
  BY <1>9
<1> HIDE DEF w
<1>11. \A n \in 0..M : n \in {k \in 0..M : w[k] \in V}
  <2> DEFINE S == {k \in 0..M : w[k] \in V}
  <2>1. 0 \in S
    BY <1>1, <1>3, <1>10
  <2>2. ASSUME NEW n \in 1..M, n - 1 \in S PROVE n \in S
    <3>1. w[n] = Step(w[n - 1], n)
      BY <1>10, <1>1
    <3> QED
      BY <2>2, <3>1, <1>2, <1>1
  <2> HIDE DEF S
  <2>3. \A n \in 0..M : n \in S
    BY <2>1, <2>2, <1>1, UpTo
  <2> QED
    BY <2>3 DEF S
<1> QED
  BY <1>1, <1>5, <1>11

\* So does a chain's.
LEMMA ChainWalkStays ==
    ASSUME NEW e, NEW depth, NEW up, NEW flow, NEW listed, NEW from \in Nat \ {0}, NEW V,
           [e |-> e, at |-> Nobody] \in V,
           \A a \in V, s \in Sched : s >= from => ChainOne(depth, up, flow, listed, a, s) \in V
    PROVE  \E a \in V : ChainOn(e, depth, up, flow, listed, from) = a.e
<1> DEFINE v == [e |-> e, at |-> Nobody]
           Step(a, s) == IF s < from THEN v ELSE ChainOne(depth, up, flow, listed, a, s)
           F == [x \in V \X (1..M) |-> Step(x[1], x[2])]
           Is(w) == w = [s \in 0..M |-> IF s < from THEN v ELSE ChainOne(depth, up, flow, listed, w[s - 1], s)]
           w == CHOOSE w : Is(w)
<1>1. M \in Nat /\ Sched = 1..M
  BY SizeAssumption DEF Sched
<1>2. \A a \in V, s \in 1..M : Step(a, s) \in V
  BY <1>1
<1>3. v \in V /\ F \in [V \X (1..M) -> V]
  BY <1>2
<1>4. \A a \in V, s \in 1..M : F[<<a, s>>] = Step(a, s)
  OBVIOUS
<1>5. ChainOn(e, depth, up, flow, listed, from) = w[M].e
  BY DEF ChainOn
<1> HIDE DEF F, v
<1>6. PICK f \in [0..M -> V] : f[0] = v /\ \A n \in 1..M : f[n] = F[<<f[n - 1], n>>]
  <2>1. M \in Nat
    BY <1>1
  <2>2. \A u \in V, G \in [V \X (1..M) -> V] :
          \E g \in [0..M -> V] : IsWalk(g, M, u, G)
    BY <2>1, WalkExists, Zenon
  <2> QED
    BY <1>3, <2>2 DEF IsWalk
<1>7. \A n \in 1..M : n - 1 \in 0..M /\ f[n - 1] \in V
  <2>1. \A n \in 1..M : n - 1 \in 0..M
    BY <1>1
  <2>2. \A n \in 0..M : f[n] \in V
    OBVIOUS
  <2> QED
    BY <2>1, <2>2
<1>8. \A n \in 1..M : f[n] = Step(f[n - 1], n)
  <2>1. \A n \in 1..M : f[n] = F[<<f[n - 1], n>>]
    BY <1>6
  <2> QED
    BY <1>4, <1>7, <2>1
<1>9. Is(f)
  <2>1. ASSUME NEW s \in 0..M PROVE f[s] = IF s < from THEN v ELSE ChainOne(depth, up, flow, listed, f[s - 1], s)
    <3>1. CASE s = 0
      <4>1. f[0] = v
        BY <1>6
      <4>2. 0 < from
        OBVIOUS
      <4> QED
        BY <3>1, <4>1, <4>2
    <3>2. CASE s # 0
      BY <3>2, <1>8, <1>1
    <3> QED
      BY <3>1, <3>2
  <2> QED
    BY <2>1, <1>6
<1>10. Is(w)
  BY <1>9
<1> HIDE DEF w
<1>11. \A n \in 0..M : n \in {k \in 0..M : w[k] \in V}
  <2> DEFINE S == {k \in 0..M : w[k] \in V}
  <2>1. 0 \in S
    BY <1>1, <1>3, <1>10
  <2>2. ASSUME NEW n \in 1..M, n - 1 \in S PROVE n \in S
    <3>1. w[n] = Step(w[n - 1], n)
      BY <1>10, <1>1
    <3> QED
      BY <2>2, <3>1, <1>2, <1>1
  <2> HIDE DEF S
  <2>3. \A n \in 0..M : n \in S
    BY <2>1, <2>2, <1>1, UpTo
  <2> QED
    BY <2>3 DEF S
<1> QED
  BY <1>1, <1>5, <1>11


-----------------------------------------------------------------------------
(* One field at a time.                                                    *)

\* The ranges the constants span.
LEMMA Ranges ==
    /\ M \in Nat \ {0} /\ Sched = 1..M /\ Nobody = 0 /\ Nobody \notin Sched
    /\ MaxRuns \in Nat /\ Runs = 1..MaxRuns /\ NoRun = 0 /\ NoRun \notin Runs
    /\ Period \in Nat \ {0} /\ Grace \in Nat /\ Never = -1 /\ NoTimer = -1
    /\ MaxChain \in Nat /\ MaxTime \in Nat /\ MaxUpsets \in Nat
BY SizeAssumption, BoundAssumption
DEF Sched, Runs, Nobody, NoRun, Never, NoTimer

\* An engine is the record of its fields.
LEMMA Fields ==
    ASSUME NEW e \in Engine
    PROVE  /\ e = [objs |-> e.objs, cur |-> e.cur, file |-> e.file, firing |-> e.firing,
                   timer |-> e.timer, openSince |-> e.openSince, owner |-> e.owner,
                   history |-> e.history, runs |-> e.runs]
           /\ e.objs \in [Sched -> Seq(Objects)] /\ e.cur \in Lists
           /\ e.file \in [Sched -> Files \cup {NoFile}]
           /\ e.firing \in [Sched -> Fires \cup {NoFire}]
           /\ e.timer \in {NoTimer} \cup 0..(MaxTime + MaxSleep) /\ e.openSince \in 0..MaxTime
           /\ e.owner \in [Runs -> {Nobody} \cup Sched]
           /\ e.history \in [Runs -> {"none", "launched", "done", "failed"}]
           /\ e.runs \in [Runs -> RunRecords]
BY DEF Engine

\* An object of an engine.
LEMMA ObjectType ==
    ASSUME NEW e \in Engine, NEW s \in Sched, NEW v \in 1..Len(e.objs[s])
    PROVE  e.objs[s][v] \in Objects
<1>1. e.objs[s] \in Seq(Objects)
  BY Fields
<1> QED
  BY <1>1

\* Writing an object changes that object and the file.
WroteOver(e, f, s, v, o) ==
    /\ f \in Engine
    /\ f.objs = [e.objs EXCEPT ![s] = [@ EXCEPT ![v] = o]]
    /\ \A t \in Sched : Len(f.objs[t]) = Len(e.objs[t])
    /\ f.objs[s][v] = o
    /\ \A t \in Sched : \A u \in 1..Len(e.objs[t]) :
         t # s \/ u # v => f.objs[t][u] = e.objs[t][u]
    /\ f.file = [e.file EXCEPT ![s] = Loaded(o)]
    /\ f.cur = e.cur /\ f.firing = e.firing /\ f.timer = e.timer
    /\ f.openSince = e.openSince /\ f.owner = e.owner /\ f.history = e.history
    /\ f.runs = e.runs

LEMMA Written ==
    ASSUME NEW e \in Engine, NEW s \in Sched, NEW v \in 1..Len(e.objs[s]), NEW o \in Objects
    PROVE  WroteOver(e, Write(e, s, v, o), s, v, o)
<1> DEFINE f == Write(e, s, v, o)
<1>1. e.objs \in [Sched -> Seq(Objects)] /\ e.file \in [Sched -> Files \cup {NoFile}]
  BY Fields
<1>2. Loaded(o) \in Files
  BY DEF Loaded, Objects, Files
<1> DEFINE q == [e.objs[s] EXCEPT ![v] = o]
<1>3. q \in Seq(Objects) /\ Len(q) = Len(e.objs[s]) /\ q[v] = o
      /\ \A u \in 1..Len(e.objs[s]) : u # v => q[u] = e.objs[s][u]
  <2>1. e.objs[s] \in Seq(Objects)
    BY <1>1
  <2> QED
    BY <2>1
<1>4. f = [e EXCEPT !.objs = [@ EXCEPT ![s] = q], !.file = [@ EXCEPT ![s] = Loaded(o)]]
  BY DEF Write
<1> HIDE DEF q, f
<1>5. /\ [e.objs EXCEPT ![s] = q] \in [Sched -> Seq(Objects)]
      /\ [e.file EXCEPT ![s] = Loaded(o)] \in [Sched -> Files \cup {NoFile}]
  BY <1>1, <1>2, <1>3
<1>6. /\ f.objs = [e.objs EXCEPT ![s] = q] /\ f.file = [e.file EXCEPT ![s] = Loaded(o)]
      /\ f.cur = e.cur /\ f.firing = e.firing /\ f.timer = e.timer
      /\ f.openSince = e.openSince /\ f.owner = e.owner /\ f.history = e.history
      /\ f.runs = e.runs
  BY <1>4 DEF Engine
<1>7. f \in Engine
  BY <1>4, <1>5 DEF Engine
<1>8. f.objs[s] = q /\ \A t \in Sched : t # s => f.objs[t] = e.objs[t]
  BY <1>1, <1>6
<1>9. \A t \in Sched : Len(f.objs[t]) = Len(e.objs[t])
  BY <1>3, <1>8
<1>10. f.objs[s][v] = o
  BY <1>3, <1>8
<1>11. \A t \in Sched : \A u \in 1..Len(e.objs[t]) :
                t # s \/ u # v => f.objs[t][u] = e.objs[t][u]
  BY <1>3, <1>8
<1>12. WroteOver(e, f, s, v, o)
  BY <1>6, <1>7, <1>9, <1>10, <1>11 DEF WroteOver, q
<1> QED
  BY <1>12 DEF f

\* A launch is put in flight, or taken out.
FiringChanged(e, f, s, x) ==
    /\ f \in Engine
    /\ f.firing = [e.firing EXCEPT ![s] = x]
    /\ f.objs = e.objs /\ f.file = e.file /\ f.cur = e.cur /\ f.timer = e.timer
    /\ f.openSince = e.openSince /\ f.owner = e.owner /\ f.history = e.history
    /\ f.runs = e.runs

LEMMA FiringSet ==
    ASSUME NEW e \in Engine, NEW s \in Sched, NEW x \in Fires \cup {NoFire}
    PROVE  FiringChanged(e, [e EXCEPT !.firing[s] = x], s, x)
<1>1. [e.firing EXCEPT ![s] = x] \in [Sched -> Fires \cup {NoFire}]
  BY Fields
<1> QED
  BY <1>1 DEF Engine, FiringChanged

\* The record of a run changes, and what is told and who is told of it.
RunChanged(e, f, r, x, p, h) ==
    /\ f \in Engine
    /\ f.runs = [e.runs EXCEPT ![r] = x]
    /\ f.owner = [e.owner EXCEPT ![r] = p]
    /\ f.history = [e.history EXCEPT ![r] = h]
    /\ f.objs = e.objs /\ f.file = e.file /\ f.cur = e.cur /\ f.timer = e.timer
    /\ f.openSince = e.openSince /\ f.firing = e.firing

LEMMA RunSet ==
    ASSUME NEW e \in Engine, NEW r \in Runs, NEW x \in RunRecords,
           NEW p \in {Nobody} \cup Sched, NEW h \in {"none", "launched", "done", "failed"}
    PROVE  RunChanged(e, [e EXCEPT !.runs[r] = x, !.owner[r] = p, !.history[r] = h], r, x, p, h)
<1>1. /\ [e.runs EXCEPT ![r] = x] \in [Runs -> RunRecords]
      /\ [e.owner EXCEPT ![r] = p] \in [Runs -> {Nobody} \cup Sched]
      /\ [e.history EXCEPT ![r] = h] \in [Runs -> {"none", "launched", "done", "failed"}]
  BY Fields
<1> QED
  BY <1>1 DEF Engine, RunChanged

-----------------------------------------------------------------------------
(* What keeps the invariant.                                               *)

\* An object may be rewritten, with a run of its own or none, as long as it
\* names the run that goes and its cadence does not fall back.
LEMMA WriteKeeps ==
    ASSUME NEW e, NEW n \in Nat, NEW F, SoundKept(e, n, F),
           NEW s \in Sched, NEW v \in 1..Len(e.objs[s]), NEW o \in Objects,
           NEW f, f = Write(e, s, v, o),
           \A r \in Runs : o.active = r =>
              e.runs[r].by = s /\ e.runs[r].state \notin {"none", "parked"},
           Calm => /\ v = e.cur[s]
                   /\ o.trigger = e.objs[s][v].trigger /\ o.overlap = e.objs[s][v].overlap
                   /\ \A r \in Runs : LiveOf(e, s, r) =>
                        o.active = r \/ (o.overlap = "queue" /\ Beside(e, s, r))
                   /\ \A r \in Runs : o.active = r /\ e.runs[r].state = "live" => e.owner[r] = s
                   /\ Paced(e, s, o, firedAt, clock, F)
    PROVE  SoundKept(f, n, F)
<1>1. e \in Engine /\ Counted(e, n) /\ Mine(e) /\ Reported(e)
  BY DEF SoundKept, Sound
<1>2. /\ f \in Engine
      /\ \A t \in Sched : Len(f.objs[t]) = Len(e.objs[t])
      /\ f.objs[s][v] = o
      /\ \A t \in Sched : \A u \in 1..Len(e.objs[t]) :
           t # s \/ u # v => f.objs[t][u] = e.objs[t][u]
      /\ f.file = [e.file EXCEPT ![s] = Loaded(o)]
      /\ f.cur = e.cur /\ f.firing = e.firing /\ f.timer = e.timer
      /\ f.openSince = e.openSince /\ f.owner = e.owner /\ f.history = e.history
      /\ f.runs = e.runs
  <2>1. e \in Engine
    BY <1>1
  <2>2. WroteOver(e, Write(e, s, v, o), s, v, o)
    BY <2>1, Written
  <2> QED
    BY <2>2 DEF WroteOver
<1>3. Counted(f, n)
  BY <1>1, <1>2 DEF Counted, Firing
<1>4. Mine(f)
  <2> SUFFICES ASSUME NEW t \in Sched, NEW u \in 1..Len(e.objs[t]), NEW r \in Runs,
                      f.objs[t][u].active = r
               PROVE  e.runs[r].by = t /\ e.runs[r].state \notin {"none", "parked"}
    BY <1>2 DEF Mine
  <2>1. CASE t = s /\ u = v
    BY <2>1, <1>2
  <2>2. CASE t # s \/ u # v
    <3>1. e.objs[t][u].active = r
      BY <2>2, <1>2
    <3> QED
      BY <3>1, <1>1 DEF Mine
  <2> QED
    BY <2>1, <2>2
<1>5. Reported(f)
  BY <1>1, <1>2 DEF Reported, Listed
<1>6. ASSUME Calm PROVE Kept(f, firedAt, clock, F)
  <2>1. Kept(e, firedAt, clock, F)
    BY <1>6 DEF SoundKept
  <2>2. v = e.cur[s] /\ Object(f, s) = o
    BY <1>2, <1>6 DEF Object
  <2>3. ASSUME NEW t \in Sched, t # s, e.cur[t] # 0 PROVE Object(f, t) = Object(e, t)
    <3>1. e.cur[t] \in 1..Len(e.objs[t])
      <4>1. e.cur \in Lists /\ e.objs \in [Sched -> Seq(Objects)]
        BY <1>1, Fields
      <4>2. e.cur[t] \in 0..(MaxUpsets + 1) /\ e.objs[t] \in Seq(Objects)
        BY <4>1 DEF Lists
      <4>3. e.cur[t] <= Len(e.objs[t])
        BY <1>1 DEF Counted
      <4> QED
        BY <4>2, <4>3, <2>3, Ranges
    <3> QED
      BY <3>1, <2>3, <1>2, SMTT(30) DEF Object
  <2>4. \A t \in Sched : Firing(f, t) <=> Firing(e, t)
    BY <1>2 DEF Firing
  <2>5. \A t \in Sched, r \in Runs : LiveOf(f, t, r) <=> LiveOf(e, t, r)
    BY <1>2 DEF LiveOf
  <2>6. \A t \in Sched, r \in Runs : Beside(f, t, r) <=> Beside(e, t, r)
    BY <1>2 DEF Beside
  <2>7. Filed(f)
    <3> SUFFICES ASSUME NEW t \in Sched
                 PROVE  f.file[t] = IF e.cur[t] = 0 THEN NoFile ELSE Loaded(Object(f, t))
      BY <1>2 DEF Filed
    <3>0. e.file \in [Sched -> Files \cup {NoFile}]
      BY <1>1, Fields
    <3>1. CASE t = s
      BY <3>0, <3>1, <2>2, <1>2, Ranges
    <3>2. CASE t # s
      BY <3>0, <3>2, <2>1, <2>3, <1>2 DEF Kept, Filed
    <3> QED
      BY <3>1, <3>2
  <2>8. Held(f)
    <3> SUFFICES ASSUME NEW t \in Sched, Firing(e, t)
                 PROVE  /\ e.cur[t] # 0 /\ e.firing[t].obj = e.cur[t] /\ e.firing[t].listed = e.cur
                        /\ e.firing[t].by = "chain" =>
                             e.firing[t].depth > 0 /\ Object(f, t).trigger = "chain"
      BY <1>2, <2>4 DEF Held
    <3>1. /\ e.cur[t] # 0 /\ e.firing[t].obj = e.cur[t] /\ e.firing[t].listed = e.cur
          /\ e.firing[t].by = "chain" =>
               e.firing[t].depth > 0 /\ Object(e, t).trigger = "chain"
      BY <2>1 DEF Kept, Held
    <3>2. Object(f, t).trigger = Object(e, t).trigger
      BY <3>1, <2>2, <2>3, <1>6 DEF Object
    <3> QED
      BY <3>1, <3>2
  <2>9. Tracked(f)
    <3> SUFFICES ASSUME NEW t \in Sched, NEW r \in Runs, e.cur[t] # 0, LiveOf(e, t, r)
                 PROVE  \/ Object(f, t).active = r
                        \/ Object(f, t).overlap = "queue" /\ Beside(e, t, r)
      BY <1>2, <2>5, <2>6 DEF Tracked
    <3>1. CASE t = s
      BY <3>1, <2>2, <1>6
    <3>2. CASE t # s
      BY <3>2, <2>1, <2>3 DEF Kept, Tracked
    <3> QED
      BY <3>1, <3>2
  <2>10. Clear(f)
    <3> SUFFICES ASSUME NEW t \in Sched, NEW r \in Runs, Firing(e, t), LiveOf(e, t, r)
                 PROVE  /\ Object(f, t).overlap = "queue"
                        /\ e.firing[t].by = "chain" \/ Beside(e, t, r)
      BY <1>2, <2>4, <2>5, <2>6 DEF Clear
    <3>1. /\ Object(e, t).overlap = "queue"
          /\ e.firing[t].by = "chain" \/ Beside(e, t, r)
      BY <2>1 DEF Kept, Clear
    <3>2. Object(f, t).overlap = Object(e, t).overlap
      <4>1. e.cur[t] # 0
        BY <2>1 DEF Kept, Held
      <4> QED
        BY <4>1, <2>2, <2>3, <1>6 DEF Object
    <3> QED
      BY <3>1, <3>2
  <2>11. Numbered(f)
    BY <2>1, <1>2 DEF Kept, Numbered
  <2>12. Owned(f)
    <3> SUFFICES ASSUME NEW t \in Sched, NEW r \in Runs, e.cur[t] # 0, Object(f, t).active = r,
                        e.runs[r].state = "live"
                 PROVE  e.owner[r] = t
      BY <1>2 DEF Owned
    <3>1. CASE t = s
      BY <3>1, <2>2, <1>6
    <3>2. CASE t # s
      BY <3>2, <2>1, <2>3 DEF Kept, Owned
    <3> QED
      BY <3>1, <3>2
  <2>13. Cadence(f, firedAt, clock, F)
    <3> SUFFICES ASSUME NEW t \in Sched PROVE Paced(f, t, Object(f, t), firedAt, clock, F)
      BY DEF Cadence
    <3>1. Paced(f, t, Object(f, t), firedAt, clock, F)
            <=> Paced(e, t, Object(f, t), firedAt, clock, F)
      BY <1>2, <2>4 DEF Paced
    <3>2. CASE t = s
      BY <3>1, <3>2, <2>2, <1>6
    <3>3. CASE t # s /\ e.cur[t] # 0
      BY <3>1, <3>3, <2>1, <2>3 DEF Kept, Cadence
    <3>4. CASE t # s /\ e.cur[t] = 0
      <4>1. Paced(e, t, Object(e, t), firedAt, clock, F) /\ ~Firing(e, t)
        BY <3>4, <2>1 DEF Kept, Cadence, Held
      <4> QED
        BY <4>1, <3>1, <3>4 DEF Paced
    <3> QED
      BY <3>2, <3>3, <3>4
  <2> QED
    BY <2>7, <2>8, <2>9, <2>10, <2>11, <2>12, <2>13 DEF Kept
<1> QED
  BY <1>2, <1>3, <1>4, <1>5, <1>6 DEF SoundKept, Sound

\* A run may end, be deleted, or lose who is told of it once it is over.
LEMMA RunKeeps ==
    ASSUME NEW e, NEW n \in Nat, NEW F, SoundKept(e, n, F),
           NEW r \in Runs, NEW x \in RunRecords, NEW p \in {Nobody} \cup Sched,
           NEW h \in {"none", "launched", "done", "failed"},
           NEW f, RunChanged(e, f, r, x, p, h),
           e.runs[r].state # "none" /\ x.state # "none",
           x.by = e.runs[r].by /\ x.depth = e.runs[r].depth,
           x.state = "parked" => e.runs[r].state = "parked",
           x.state = "live" => e.runs[r].state = "live" /\ p = e.owner[r],
           h = "launched" =>
              /\ e.history[r] = "launched"
              /\ x.by \in Listed(e) => x.state \in {"gone", "live"} \/ r \in unseen
    PROVE  SoundKept(f, n, F)
<1>1. e \in Engine /\ Counted(e, n) /\ Mine(e) /\ Reported(e)
  BY DEF SoundKept, Sound
<1>2. /\ f \in Engine /\ f.objs = e.objs /\ f.file = e.file /\ f.cur = e.cur
      /\ f.firing = e.firing
  BY DEF RunChanged
<1>3. /\ e.runs \in [Runs -> RunRecords] /\ e.owner \in [Runs -> {Nobody} \cup Sched]
      /\ e.history \in [Runs -> {"none", "launched", "done", "failed"}]
  BY <1>1, Fields
<1>4. /\ f.runs[r] = x /\ f.owner[r] = p /\ f.history[r] = h
      /\ \A q \in Runs : q # r =>
           f.runs[q] = e.runs[q] /\ f.owner[q] = e.owner[q] /\ f.history[q] = e.history[q]
  BY <1>3 DEF RunChanged
<1>5. Counted(f, n)
  BY <1>1, <1>2 DEF Counted, Firing
<1>6. Mine(f)
  <2> SUFFICES ASSUME NEW t \in Sched, NEW u \in 1..Len(e.objs[t]), NEW q \in Runs,
                      e.objs[t][u].active = q
               PROVE  f.runs[q].by = t /\ f.runs[q].state \notin {"none", "parked"}
    BY <1>2 DEF Mine
  <2>1. e.runs[q].by = t /\ e.runs[q].state \notin {"none", "parked"}
    BY <1>1 DEF Mine
  <2> QED
    BY <2>1, <1>4
<1>7. Reported(f)
  <2> SUFFICES ASSUME NEW q \in Runs, f.history[q] = "launched"
               PROVE  /\ f.runs[q].state # "none"
                      /\ f.runs[q].by \in Listed(e) =>
                           \/ f.runs[q].state = "gone" \/ q \in unseen
                           \/ f.runs[q].state = "live" /\ f.owner[q] = f.runs[q].by
    BY <1>2 DEF Reported, Listed
  <2>1. e.history[q] = "launched"
    BY <1>4
  <2>2. /\ e.runs[q].state # "none"
        /\ e.runs[q].by \in Listed(e) =>
             \/ e.runs[q].state = "gone" \/ q \in unseen
             \/ e.runs[q].state = "live" /\ e.owner[q] = e.runs[q].by
    BY <2>1, <1>1 DEF Reported
  <2> QED
    BY <2>2, <1>4
<1>8. ASSUME Calm PROVE Kept(f, firedAt, clock, F)
  <2>1. Kept(e, firedAt, clock, F)
    BY <1>8 DEF SoundKept
  <2>2. \A t \in Sched : Object(f, t) = Object(e, t)
    BY <1>2 DEF Object
  <2>3. \A t \in Sched : Firing(f, t) <=> Firing(e, t)
    BY <1>2 DEF Firing
  <2>4. \A t \in Sched, q \in Runs : LiveOf(f, t, q) => LiveOf(e, t, q)
    BY <1>4 DEF LiveOf
  <2>5. \A t \in Sched, q \in Runs : Beside(e, t, q) => Beside(f, t, q)
    <3>1. \A q \in Runs : f.runs[q].by = e.runs[q].by /\ f.runs[q].depth = e.runs[q].depth
      BY <1>4
    <3> QED
      BY <3>1 DEF Beside
  <2>6. Filed(f)
    BY <2>1, <2>2, <1>2 DEF Kept, Filed
  <2>7. Held(f)
    BY <2>1, <2>2, <2>3, <1>2 DEF Kept, Held
  <2>8. Tracked(f)
    BY <2>1, <2>2, <2>4, <2>5, <1>2 DEF Kept, Tracked
  <2>9. Clear(f)
    BY <2>1, <2>2, <2>3, <2>4, <2>5, <1>2 DEF Kept, Clear
  <2>10. Numbered(f)
    <3>1. \A q \in Runs : /\ f.runs[q].state = "none" <=> e.runs[q].state = "none"
                          /\ f.runs[q].by = e.runs[q].by
      BY <1>4
    <3> QED
      BY <3>1, <2>1 DEF Kept, Numbered
  <2>11. Owned(f)
    <3>1. \A q \in Runs : f.runs[q].state = "live" =>
            e.runs[q].state = "live" /\ f.owner[q] = e.owner[q]
      BY <1>4
    <3> QED
      BY <3>1, <2>1, <2>2, <1>2 DEF Kept, Owned
  <2>12. Cadence(f, firedAt, clock, F)
    <3>1. \A t \in Sched : Paced(f, t, Object(e, t), firedAt, clock, F)
            <=> Paced(e, t, Object(e, t), firedAt, clock, F)
      BY <2>3, <1>2 DEF Paced
    <3> QED
      BY <3>1, <2>1, <2>2 DEF Kept, Cadence
  <2> QED
    BY <2>6, <2>7, <2>8, <2>9, <2>10, <2>11, <2>12 DEF Kept
<1> QED
  BY <1>2, <1>5, <1>6, <1>7, <1>8 DEF SoundKept, Sound

\* No launch looks like no launch.
LEMMA NoFireIsNone == NoFire \notin Fires
BY DEF NoFire, Fires

\* A launch may be put in flight where nothing goes that it has to wait for.
LEMMA FireKeeps ==
    ASSUME NEW e, NEW n \in Nat, NEW F, SoundKept(e, n, F),
           NEW s \in Sched, NEW x \in Fires, NEW f, FiringChanged(e, f, s, x),
           x.obj <= Len(e.objs[s]), \A t \in Sched : x.listed[t] <= Len(e.objs[t]),
           Calm => /\ e.cur[s] # 0 /\ x.obj = e.cur[s] /\ x.listed = e.cur
                   /\ x.by = "chain" => x.depth > 0 /\ Object(e, s).trigger = "chain"
                   /\ \A r \in Runs : LiveOf(e, s, r) =>
                        /\ Object(e, s).overlap = "queue"
                        /\ x.by = "chain" \/ Beside(e, s, r)
                   /\ x.by = "tick" =>
                        /\ x.now <= clock
                        /\ s \notin F => /\ Anchor(Object(e, s)) >= clock
                                         /\ ~Object(e, s).pending
                                         /\ firedAt[s] # Never => clock >= firedAt[s] + Period
    PROVE  SoundKept(f, n, F)
<1>1. e \in Engine /\ Counted(e, n) /\ Mine(e) /\ Reported(e)
  BY DEF SoundKept, Sound
<1>2. /\ f \in Engine /\ f.objs = e.objs /\ f.file = e.file /\ f.cur = e.cur
      /\ f.runs = e.runs /\ f.owner = e.owner /\ f.history = e.history
  BY DEF FiringChanged
<1>3. f.firing[s] = x /\ \A t \in Sched : t # s => f.firing[t] = e.firing[t]
  <2>1. e.firing \in [Sched -> Fires \cup {NoFire}]
    BY <1>1, Fields
  <2> QED
    BY <2>1 DEF FiringChanged
<1>4. \A t \in Sched : t # s => (Firing(f, t) <=> Firing(e, t))
  BY <1>3 DEF Firing
<1>5. Counted(f, n)
  <2> SUFFICES ASSUME NEW t \in Sched, Firing(f, t)
               PROVE  /\ f.firing[t].obj <= Len(e.objs[t])
                      /\ \A u \in Sched : f.firing[t].listed[u] <= Len(e.objs[u])
    BY <1>1, <1>2 DEF Counted
  <2>1. CASE t = s
    BY <2>1, <1>3
  <2>2. CASE t # s
    BY <2>2, <1>1, <1>3, <1>4 DEF Counted
  <2> QED
    BY <2>1, <2>2
<1>6. Mine(f)
  BY <1>1, <1>2 DEF Mine
<1>7. Reported(f)
  BY <1>1, <1>2 DEF Reported, Listed
<1>8. ASSUME Calm PROVE Kept(f, firedAt, clock, F)
  <2>1. Kept(e, firedAt, clock, F)
    BY <1>8 DEF SoundKept
  <2>2. \A t \in Sched : Object(f, t) = Object(e, t)
    BY <1>2 DEF Object
  <2>3. \A t \in Sched, q \in Runs : /\ LiveOf(f, t, q) <=> LiveOf(e, t, q)
                                     /\ Beside(f, t, q) <=> Beside(e, t, q)
    BY <1>2 DEF LiveOf, Beside
  <2>4. Filed(f)
    BY <2>1, <2>2, <1>2 DEF Kept, Filed
  <2>5. Held(f)
    <3> SUFFICES ASSUME NEW t \in Sched, Firing(f, t)
                 PROVE  /\ e.cur[t] # 0 /\ f.firing[t].obj = e.cur[t]
                        /\ f.firing[t].listed = e.cur
                        /\ f.firing[t].by = "chain" =>
                             f.firing[t].depth > 0 /\ Object(e, t).trigger = "chain"
      BY <1>2, <2>2 DEF Held
    <3>1. CASE t = s
      BY <3>1, <1>3, <1>8
    <3>2. CASE t # s
      BY <3>2, <1>3, <1>4, <2>1 DEF Kept, Held
    <3> QED
      BY <3>1, <3>2
  <2>6. Tracked(f)
    BY <2>1, <2>2, <2>3, <1>2 DEF Kept, Tracked
  <2>7. Clear(f)
    <3> SUFFICES ASSUME NEW t \in Sched, NEW r \in Runs, Firing(f, t), LiveOf(e, t, r)
                 PROVE  /\ Object(e, t).overlap = "queue"
                        /\ f.firing[t].by = "chain" \/ Beside(e, t, r)
      BY <2>2, <2>3 DEF Clear
    <3>1. CASE t = s
      BY <3>1, <1>3, <1>8
    <3>2. CASE t # s
      BY <3>2, <1>3, <1>4, <2>1 DEF Kept, Clear
    <3> QED
      BY <3>1, <3>2
  <2>8. Numbered(f)
    BY <2>1, <1>2 DEF Kept, Numbered
  <2>9. Owned(f)
    BY <2>1, <2>2, <1>2 DEF Kept, Owned
  <2>10. Cadence(f, firedAt, clock, F)
    <3> SUFFICES ASSUME NEW t \in Sched PROVE Paced(f, t, Object(e, t), firedAt, clock, F)
      BY <2>2 DEF Cadence
    <3>1. Paced(e, t, Object(e, t), firedAt, clock, F)
      BY <2>1 DEF Kept, Cadence
    <3>2. CASE t = s
      BY <3>1, <3>2, <1>2, <1>3, <1>8 DEF Paced
    <3>3. CASE t # s
      BY <3>1, <3>3, <1>2, <1>3, <1>4 DEF Paced
    <3> QED
      BY <3>2, <3>3
  <2> QED
    BY <2>4, <2>5, <2>6, <2>7, <2>8, <2>9, <2>10 DEF Kept
<1> QED
  BY <1>2, <1>5, <1>6, <1>7, <1>8 DEF SoundKept, Sound

\* A launch that is over leaves nothing to keep.
LEMMA FreeKeeps ==
    ASSUME NEW e, NEW n \in Nat, NEW F, SoundKept(e, n, F),
           NEW s \in Sched, NEW f, FiringChanged(e, f, s, NoFire)
    PROVE  SoundKept(f, n, F)
<1>1. e \in Engine /\ Counted(e, n) /\ Mine(e) /\ Reported(e)
  BY DEF SoundKept, Sound
<1>2. /\ f \in Engine /\ f.objs = e.objs /\ f.file = e.file /\ f.cur = e.cur
      /\ f.runs = e.runs /\ f.owner = e.owner /\ f.history = e.history
  BY DEF FiringChanged
<1>3. \A t \in Sched : Firing(f, t) => Firing(e, t) /\ f.firing[t] = e.firing[t]
  <2>1. e.firing \in [Sched -> Fires \cup {NoFire}]
    BY <1>1, Fields
  <2> QED
    BY <2>1 DEF FiringChanged, Firing
<1>4. Counted(f, n)
  BY <1>1, <1>2, <1>3 DEF Counted
<1>5. Mine(f)
  BY <1>1, <1>2 DEF Mine
<1>6. Reported(f)
  BY <1>1, <1>2 DEF Reported, Listed
<1>7. ASSUME Calm PROVE Kept(f, firedAt, clock, F)
  <2>1. Kept(e, firedAt, clock, F)
    BY <1>7 DEF SoundKept
  <2>2. \A t \in Sched : Object(f, t) = Object(e, t)
    BY <1>2 DEF Object
  <2>3. \A t \in Sched, q \in Runs : /\ LiveOf(f, t, q) <=> LiveOf(e, t, q)
                                     /\ Beside(f, t, q) <=> Beside(e, t, q)
    BY <1>2 DEF LiveOf, Beside
  <2>4. Filed(f) /\ Tracked(f)
    BY <2>1, <2>2, <2>3, <1>2 DEF Kept, Filed, Tracked
  <2>5. Held(f)
    BY <2>1, <2>2, <1>2, <1>3 DEF Kept, Held
  <2>6. Clear(f)
    BY <2>1, <2>2, <2>3, <1>3 DEF Kept, Clear
  <2>7. Numbered(f)
    BY <2>1, <1>2 DEF Kept, Numbered
  <2>8. Owned(f)
    BY <2>1, <2>2, <1>2 DEF Kept, Owned
  <2>9. Cadence(f, firedAt, clock, F)
    <3> SUFFICES ASSUME NEW t \in Sched PROVE Paced(f, t, Object(e, t), firedAt, clock, F)
      BY <2>2 DEF Cadence
    <3>1. Paced(e, t, Object(e, t), firedAt, clock, F)
      BY <2>1 DEF Kept, Cadence
    <3> QED
      BY <3>1, <1>2, <1>3 DEF Paced
  <2> QED
    BY <2>4, <2>5, <2>6, <2>7, <2>8, <2>9 DEF Kept
<1> QED
  BY <1>2, <1>4, <1>5, <1>6, <1>7 DEF SoundKept, Sound

-----------------------------------------------------------------------------
(* The timer.                                                              *)

\* Only the timer changes.
TimerChanged(e, f) ==
    /\ f \in Engine
    /\ f.objs = e.objs /\ f.file = e.file /\ f.cur = e.cur /\ f.firing = e.firing
    /\ f.openSince = e.openSince /\ f.owner = e.owner /\ f.history = e.history
    /\ f.runs = e.runs

LEMMA TimerSet ==
    ASSUME NEW e \in Engine, NEW x \in {NoTimer} \cup 0..(MaxTime + MaxSleep)
    PROVE  TimerChanged(e, [e EXCEPT !.timer = x]) /\ [e EXCEPT !.timer = x].timer = x
BY DEF Engine, TimerChanged

\* A timer tells nothing: what is kept stays kept.
LEMMA TimerStaysKept ==
    ASSUME NEW e, NEW F, Kept(e, firedAt, clock, F), NEW f, TimerChanged(e, f)
    PROVE  Kept(f, firedAt, clock, F)
<1>1. Kept(e, firedAt, clock, F)
  OBVIOUS
<1>2. \A t \in Sched : /\ Object(f, t) = Object(e, t)
                       /\ Firing(f, t) <=> Firing(e, t)
  BY DEF Object, Firing, TimerChanged
<1>3. \A t \in Sched, q \in Runs : /\ LiveOf(f, t, q) <=> LiveOf(e, t, q)
                                   /\ Beside(f, t, q) <=> Beside(e, t, q)
  BY DEF LiveOf, Beside, TimerChanged
<1>4. Filed(f) /\ Held(f)
  BY <1>1, <1>2 DEF Kept, Filed, Held, TimerChanged
<1>5. Tracked(f) /\ Clear(f)
  BY <1>1, <1>2, <1>3 DEF Kept, Tracked, Clear, TimerChanged
<1>6. Numbered(f) /\ Owned(f)
  BY <1>1, <1>2 DEF Kept, Numbered, Owned, TimerChanged
<1>7. Cadence(f, firedAt, clock, F)
  <2> SUFFICES ASSUME NEW t \in Sched PROVE Paced(f, t, Object(e, t), firedAt, clock, F)
    BY <1>2 DEF Cadence
  <2>1. Paced(e, t, Object(e, t), firedAt, clock, F)
    BY <1>1 DEF Kept, Cadence
  <2> QED
    BY <2>1, <1>2 DEF Paced, TimerChanged
<1> QED
  BY <1>4, <1>5, <1>6, <1>7 DEF Kept

\* And what is sound stays sound.
LEMMA TimerKeeps ==
    ASSUME NEW e, NEW n \in Nat, NEW F, SoundKept(e, n, F), NEW f, TimerChanged(e, f)
    PROVE  SoundKept(f, n, F)
<1>1. Sound(f, n)
  BY DEF SoundKept, Sound, Counted, Mine, Reported, TimerChanged, Firing, Listed
<1>2. ASSUME Calm PROVE Kept(f, firedAt, clock, F)
  BY <1>2, TimerStaysKept DEF SoundKept
<1> QED
  BY <1>1, <1>2 DEF SoundKept

\* A timer is set for every schedule on the clock, at once for one that is owed a
\* firing and whose run is over.
Over(e, o)  == o.active = NoRun \/ e.runs[o.active].state \in {"done", "aborted"}
Timed(o)    == o.enabled /\ o.trigger = "timer"
Woken(e, c) == Ticking(e) \/ \A s \in Listed(e) : Timed(Object(e, s)) =>
    /\ e.timer \in 0..(c + MaxSleep)
    /\ Object(e, s).pending /\ Over(e, Object(e, s)) /\ ~Firing(e, s) => e.timer <= c

\* arm sets it.
LEMMA Armed ==
    ASSUME NEW e \in Engine, clock \in 0..MaxTime
    PROVE  TimerChanged(e, Arm(e)) /\ Woken(Arm(e), clock)
<1> DEFINE timed == {s \in Listed(e) : Object(e, s).enabled /\ Object(e, s).trigger = "timer"}
           look(s) == LET o == Object(e, s)  d == Decision(e, o, clock)
                      IN  IF d = "fire" THEN clock
                          ELSE IF d = "skip" THEN clock + Period ELSE DueAt(o)
           due == \E s \in timed : look(s) <= clock
           x == IF timed = {} THEN NoTimer ELSE IF due THEN clock ELSE clock + MaxSleep
<1>1. Arm(e) = [e EXCEPT !.timer = x]
  BY DEF Arm
<1>2. x \in {NoTimer} \cup 0..(MaxTime + MaxSleep)
  BY Ranges DEF MaxSleep
<1>3. TimerChanged(e, Arm(e)) /\ Arm(e).timer = x
  BY <1>1, <1>2, TimerSet
<1>4. ASSUME NEW s \in Listed(e), Timed(Object(e, s))
      PROVE  /\ x \in 0..(clock + MaxSleep)
             /\ Object(e, s).pending /\ Over(e, Object(e, s)) => x <= clock
  <2>1. s \in timed
    BY <1>4 DEF Timed
  <2>2. x \in {clock, clock + MaxSleep}
    BY <2>1
  <2>3. x \in 0..(clock + MaxSleep)
    BY <2>2, Ranges DEF MaxSleep
  <2>4. ASSUME Object(e, s).pending, Over(e, Object(e, s)) PROVE x <= clock
    <3>1. ~Busy(e, Object(e, s))
      BY <2>4 DEF Over, Busy
    <3>2. Decision(e, Object(e, s), clock) = "fire"
      BY <3>1, <2>4, <1>4 DEF Decision, Timed
    <3>3. look(s) = clock
      BY <3>2
    <3>4. due
      BY <3>3, <2>1
    <3> QED
      BY <3>4, <2>1
  <2> QED
    BY <2>3, <2>4
<1> HIDE DEF x
<1>5. Woken(Arm(e), clock)
  <2> SUFFICES ASSUME NEW s \in Listed(e), Timed(Object(e, s))
               PROVE  /\ x \in 0..(clock + MaxSleep)
                      /\ Object(e, s).pending /\ Over(e, Object(e, s)) => x <= clock
    <3>1. Listed(Arm(e)) = Listed(e)
      BY <1>3 DEF TimerChanged, Listed
    <3>2. \A s \in Sched : /\ Object(Arm(e), s) = Object(e, s)
                           /\ Over(Arm(e), Object(e, s)) <=> Over(e, Object(e, s))
      BY <1>3 DEF TimerChanged, Object, Over
    <3> QED
      BY <3>1, <3>2, <1>3 DEF Woken, Listed
  <2> QED
    BY <1>4
<1> QED
  BY <1>3, <1>5

-----------------------------------------------------------------------------
(* Firing.                                                                 *)

\* A run is alone when no run of s goes: the one that made way has.
MadeWay(e, f, s, v) ==
    /\ f \in Engine /\ f.cur = e.cur /\ f.firing = e.firing /\ f.timer = e.timer
    /\ \A t \in Sched : Len(f.objs[t]) = Len(e.objs[t])
    /\ f.objs[s][v] = [e.objs[s][v] EXCEPT !.active = NoRun]
    /\ \A t \in Sched : t # s => f.objs[t] = e.objs[t]
    /\ \A q \in Runs : q # e.objs[s][v].active => f.runs[q] = e.runs[q]
    /\ NoneStarts(e, f)
    /\ Calm => \A q \in Runs : ~LiveOf(f, s, q)

\* Only the object of s may differ.
LEMMA WrittenElsewhere ==
    ASSUME NEW e \in Engine, NEW s \in Sched, NEW v, NEW o, NEW f, WroteOver(e, f, s, v, o)
    PROVE  \A t \in Sched : t # s => f.objs[t] = e.objs[t]
<1>1. e.objs \in [Sched -> Seq(Objects)]
  BY Fields
<1> QED
  BY <1>1 DEF WroteOver

LEMMA ReplacedKeeps ==
    ASSUME NEW e, NEW n \in Nat, NEW F, SoundKept(e, n, F),
           NEW s \in Sched, NEW v \in 1..Len(e.objs[s]),
           NEW r \in Runs, e.objs[s][v].active = r,
           Calm => v = e.cur[s] /\ e.objs[s][v].overlap = "replace"
    PROVE  SoundKept(Replaced(e, s, v), n, F) /\ MadeWay(e, Replaced(e, s, v), s, v)
<1> DEFINE o == e.objs[s][v]
           over(h) == [e EXCEPT !.runs[r].state = "aborted", !.owner[r] = Nobody, !.history[r] = h]
           told == IF ~Busy(e, o) THEN [e EXCEPT !.owner[r] = Nobody]
                   ELSE IF e.owner[r] # s \/ s \notin Listed(e) THEN over(e.history[r])
                   ELSE Write(over("failed"), s, e.cur[s], Unlinked(Object(e, s), r))
           u == [told.objs[s][v] EXCEPT !.active = NoRun]
           f == Write(told, s, v, u)
<1>1. e \in Engine /\ Counted(e, n) /\ Mine(e) /\ Reported(e)
  BY DEF SoundKept, Sound
<1>2. f = Replaced(e, s, v)
  BY DEF Replaced
<1>3. o \in Objects /\ o.active = r /\ r # NoRun
  BY <1>1, ObjectType, Ranges
<1>4. e.runs[r].by = s /\ e.runs[r].state \notin {"none", "parked"}
  BY <1>1, <1>3 DEF Mine
<1>5. /\ e.runs \in [Runs -> RunRecords] /\ e.owner \in [Runs -> {Nobody} \cup Sched]
      /\ e.history \in [Runs -> {"none", "launched", "done", "failed"}]
      /\ e.runs[r] \in RunRecords
      /\ e.history[r] \in {"none", "launched", "done", "failed"}
  BY <1>1, <1>3, Fields
<1> DEFINE x == [e.runs[r] EXCEPT !.state = "aborted"]
<1>6. /\ x \in RunRecords /\ x.state = "aborted"
      /\ x.by = e.runs[r].by /\ x.depth = e.runs[r].depth
  BY <1>5 DEF RunRecords
<1>7. Busy(e, o) <=> e.runs[r].state = "live"
  BY <1>3 DEF Busy
\* What is told keeps the invariant, and the run is over.
<1> DEFINE Told2(g) ==
             /\ SoundKept(g, n, F) /\ g.cur = e.cur /\ g.firing = e.firing /\ g.timer = e.timer
             /\ \A t \in Sched : Len(g.objs[t]) = Len(e.objs[t])
             /\ [g.objs[s][v] EXCEPT !.active = NoRun] = [e.objs[s][v] EXCEPT !.active = NoRun]
             /\ g.objs[s][v].active \in {r, NoRun}
             /\ \A t \in Sched : t # s => g.objs[t] = e.objs[t]
             /\ \A q \in Runs : q # r => g.runs[q] = e.runs[q]
             /\ g.runs[r].state # "live"
<1>8. ASSUME NEW g, NEW y \in RunRecords, NEW h \in {"none", "launched", "done", "failed"},
             RunChanged(e, g, r, y, Nobody, h), y.state \in {e.runs[r].state, "aborted"},
             y.state # "live", y.by = s, y.depth = e.runs[r].depth,
             h = "launched" => /\ e.history[r] = "launched"
                               /\ s \in Listed(e) => y.state = "gone" \/ r \in unseen
      PROVE  Told2(g)
  <2>1. SoundKept(g, n, F)
    <3>1. Nobody \in {Nobody} \cup Sched
      OBVIOUS
    <3>2. e.runs[r].state # "none" /\ y.state # "none"
      BY <1>4, <1>8
    <3>3. y.by = e.runs[r].by /\ y.depth = e.runs[r].depth
      BY <1>4, <1>8
    <3>4. /\ y.state = "parked" => e.runs[r].state = "parked"
          /\ y.state = "live" => e.runs[r].state = "live" /\ Nobody = e.owner[r]
      BY <1>4, <1>8
    <3>5. h = "launched" => /\ e.history[r] = "launched"
                            /\ y.by \in Listed(e) => y.state \in {"gone", "live"} \/ r \in unseen
      BY <1>8
    <3>6. RunChanged(e, g, r, y, Nobody, h)
      BY <1>8
    <3> HIDE DEF Told2, over, x, told, o, u, f
    <3>7. \A p \in {Nobody} \cup Sched : RunChanged(e, g, r, y, p, h) /\ p = Nobody =>
            SoundKept(g, n, F)
      BY <3>2, <3>3, <3>4, <3>5, RunKeeps, ZenonT(30)
    <3> QED
      BY <3>1, <3>6, <3>7
  <2>2. /\ g.objs = e.objs /\ g.cur = e.cur /\ g.firing = e.firing /\ g.timer = e.timer
        /\ g.runs = [e.runs EXCEPT ![r] = y]
    BY <1>8 DEF RunChanged
  <2> QED
    BY <2>1, <2>2, <1>3, <1>5, <1>8
<1>9. Told2(told)
  <2>1. CASE ~Busy(e, o)
    <3>1. told = [e EXCEPT !.owner[r] = Nobody]
      BY <2>1
    <3>2. RunChanged(e, told, r, e.runs[r], Nobody, e.history[r])
      <4>1. [e.owner EXCEPT ![r] = Nobody] \in [Runs -> {Nobody} \cup Sched]
        BY <1>5
      <4>2. /\ e.runs = [e.runs EXCEPT ![r] = e.runs[r]]
            /\ e.history = [e.history EXCEPT ![r] = e.history[r]]
        BY <1>5
      <4> HIDE DEF told
      <4>3. told \in Engine
        BY <3>1, <4>1, <1>1 DEF Engine
      <4>4. /\ told.owner = [e.owner EXCEPT ![r] = Nobody] /\ told.runs = e.runs
            /\ told.history = e.history /\ told.objs = e.objs /\ told.file = e.file
            /\ told.cur = e.cur /\ told.timer = e.timer /\ told.openSince = e.openSince
            /\ told.firing = e.firing
        BY <3>1, <1>1 DEF Engine
      <4> QED
        BY <4>2, <4>3, <4>4 DEF RunChanged
    <3>3. e.history[r] = "launched" /\ s \in Listed(e) =>
            e.runs[r].state = "gone" \/ r \in unseen
      BY <2>1, <1>1, <1>3, <1>4, <1>7 DEF Reported
    <3> HIDE DEF told, Told2
    <3> QED
      BY <3>2, <3>3, <2>1, <1>4, <1>5, <1>7, <1>8
  <2>2. CASE Busy(e, o) /\ (e.owner[r] # s \/ s \notin Listed(e))
    <3>1. told = [e EXCEPT !.runs[r] = x, !.owner[r] = Nobody, !.history[r] = e.history[r]]
      BY <2>2
    <3> HIDE DEF told, Told2, x
    <3>2. RunChanged(e, told, r, x, Nobody, e.history[r])
      <4>1. Nobody \in {Nobody} \cup Sched /\ e \in Engine
        BY <1>1
      <4>2. x \in RunRecords /\ e.history[r] \in {"none", "launched", "done", "failed"}
        BY <1>5, <1>6
      <4>3. \A h \in {"none", "launched", "done", "failed"} :
              RunChanged(e, [e EXCEPT !.runs[r] = x, !.owner[r] = Nobody, !.history[r] = h],
                         r, x, Nobody, h)
        BY <4>1, <4>2, RunSet
      <4> QED
        BY <3>1, <4>2, <4>3
    <3>3. e.history[r] = "launched" => s \notin Listed(e) \/ r \in unseen
      BY <2>2, <1>1, <1>3, <1>4, <1>7 DEF Reported
    <3> QED
      BY <3>2, <3>3, <1>4, <1>5, <1>6, <1>8
  <2>3. CASE Busy(e, o) /\ e.owner[r] = s /\ s \in Listed(e)
    <3> DEFINE g == [e EXCEPT !.runs[r] = x, !.owner[r] = Nobody, !.history[r] = "failed"]
               c == e.cur[s]
               w == Unlinked(Object(e, s), r)
    <3>1. told = Write(g, s, c, w)
      BY <2>3
    <3> HIDE DEF told, Told2, x, g
    <3>2. RunChanged(e, g, r, x, Nobody, "failed")
      <4>1. Nobody \in {Nobody} \cup Sched
        OBVIOUS
      <4> QED
        BY <4>1, <1>1, <1>3, <1>6, RunSet DEF g
    <3>3. Told2(g)
      BY <3>2, <1>4, <1>6, <1>8
    <3>4. SoundKept(g, n, F) /\ g.cur = e.cur /\ g.objs = e.objs /\ g.firing = e.firing
          /\ g.timer = e.timer
      BY <3>2, <3>3 DEF RunChanged, Told2
    <3>5. c \in 1..Len(e.objs[s]) /\ c # 0 /\ Object(e, s) = e.objs[s][c]
      <4>1. e.cur \in Lists /\ e.objs \in [Sched -> Seq(Objects)]
        BY <1>1, Fields
      <4>2. c \in 0..(MaxUpsets + 1) /\ e.objs[s] \in Seq(Objects) /\ c # 0
        BY <2>3, <4>1 DEF Lists, Listed
      <4>3. c <= Len(e.objs[s])
        BY <1>1 DEF Counted
      <4> QED
        BY <4>2, <4>3, Ranges DEF Object
    <3> HIDE DEF c
    <3>6. /\ w \in Objects /\ w.active \in {NoRun, Object(e, s).active} /\ w.active # r
          /\ w.trigger = Object(e, s).trigger /\ w.overlap = Object(e, s).overlap
          /\ w.anchor = Object(e, s).anchor /\ w.lastFired = Object(e, s).lastFired
          /\ w.pending = Object(e, s).pending
          /\ Object(e, s).active # r => w.active = Object(e, s).active
          /\ [w EXCEPT !.active = NoRun] = [Object(e, s) EXCEPT !.active = NoRun]
      <4>1. Object(e, s) \in Objects
        BY <1>1, <3>5, ObjectType
      <4> QED
        BY <4>1, <1>3, Ranges DEF Objects, Unlinked
    <3> HIDE DEF w
    <3>7. g.runs = [e.runs EXCEPT ![r] = x] /\ g.owner = [e.owner EXCEPT ![r] = Nobody]
      BY <3>2 DEF RunChanged
    <3>8. SoundKept(told, n, F)
      <4>1. \A q \in Runs : w.active = q => g.runs[q].by = s /\ g.runs[q].state \notin {"none", "parked"}
        <5>1. \A q \in Runs : Object(e, s).active = q =>
                e.runs[q].by = s /\ e.runs[q].state \notin {"none", "parked"}
          BY <1>1, <3>5 DEF Mine
        <5>2. \A q \in Runs : w.active = q => q # r /\ Object(e, s).active = q
          BY <3>6, Ranges
        <5>3. \A q \in Runs : q # r => g.runs[q] = e.runs[q]
          BY <3>7, <1>5
        <5> QED
          BY <5>1, <5>2, <5>3
      <4>2. ASSUME Calm
            PROVE  /\ c = g.cur[s]
                   /\ w.trigger = g.objs[s][c].trigger /\ w.overlap = g.objs[s][c].overlap
                   /\ \A q \in Runs : LiveOf(g, s, q) =>
                        w.active = q \/ (w.overlap = "queue" /\ Beside(g, s, q))
                   /\ \A q \in Runs : w.active = q /\ g.runs[q].state = "live" => g.owner[q] = s
                   /\ Paced(g, s, w, firedAt, clock, F)
        <5>1. Kept(g, firedAt, clock, F)
          BY <4>2, <3>4 DEF SoundKept
        <5>2. c = g.cur[s] /\ Object(g, s) = Object(e, s) /\ g.cur[s] # 0
          BY <3>4, <3>5 DEF Object, c
        <5>3. \A q \in Runs : LiveOf(g, s, q) => q # r
          BY <3>3 DEF LiveOf, Told2
        <5>4. \A q \in Runs : LiveOf(g, s, q) =>
                w.active = q \/ (w.overlap = "queue" /\ Beside(g, s, q))
          BY <5>1, <5>2, <5>3, <3>6 DEF Kept, Tracked
        <5>5. \A q \in Runs : w.active = q /\ g.runs[q].state = "live" => g.owner[q] = s
          BY <5>1, <5>2, <3>6, Ranges, SMTT(30) DEF Kept, Owned
        <5>6. Paced(g, s, w, firedAt, clock, F)
          BY <5>1, <5>2, <3>6 DEF Kept, Cadence, Paced, Anchor
        <5> QED
          BY <5>2, <5>4, <5>5, <5>6, <3>4, <3>5, <3>6
      <4>3. c \in 1..Len(g.objs[s])
        BY <3>4, <3>5
      <4> QED
        BY <3>1, <3>4, <3>6, <4>1, <4>2, <4>3, WriteKeeps
    <3>9. WroteOver(g, told, s, c, w)
      <4>1. g \in Engine /\ c \in 1..Len(g.objs[s])
        BY <3>2, <3>4, <3>5 DEF RunChanged
      <4> QED
        BY <4>1, <3>1, <3>6, Written
    <3>10. \A t \in Sched : t # s => told.objs[t] = e.objs[t]
      <4>1. g \in Engine
        BY <3>2 DEF RunChanged
      <4> QED
        BY <4>1, <3>4, <3>9, WrittenElsewhere
    <3>11. /\ [told.objs[s][v] EXCEPT !.active = NoRun] = [e.objs[s][v] EXCEPT !.active = NoRun]
           /\ told.objs[s][v].active \in {r, NoRun}
      <4>1. CASE v = c
        <5>1. told.objs[s][v] = w /\ Object(e, s) = e.objs[s][v]
          BY <4>1, <3>5, <3>9 DEF WroteOver
        <5> QED
          BY <5>1, <3>6
      <4>2. CASE v # c
        <5>1. told.objs[s][v] = e.objs[s][v]
          BY <4>2, <3>4, <3>9 DEF WroteOver
        <5> QED
          BY <5>1
      <4> QED
        BY <4>1, <4>2
    <3>12. Told2(told)
      BY <3>3, <3>4, <3>8, <3>9, <3>10, <3>11 DEF Told2, WroteOver
    <3> QED
      BY <3>12
  <2> QED
    BY <2>1, <2>2, <2>3
<1> HIDE DEF told
<1>10. told \in Engine
  BY <1>9 DEF SoundKept, Sound
<1>11. u \in Objects /\ u = [o EXCEPT !.active = NoRun]
  BY <1>3, <1>9 DEF Objects
<1> HIDE DEF u
<1>12. v \in 1..Len(told.objs[s])
  BY <1>9
<1>13. WroteOver(told, f, s, v, u)
  BY <1>10, <1>11, <1>12, Written
<1>14. ASSUME Calm PROVE \A q \in Runs : ~LiveOf(told, s, q)
  <2>1. Kept(told, firedAt, clock, F)
    BY <1>9, <1>14 DEF SoundKept
  <2>2. /\ told.cur[s] = v /\ v # 0 /\ Object(told, s) = told.objs[s][v]
        /\ told.objs[s][v].overlap = "replace"
    <3>1. told.objs[s][v].overlap = o.overlap
      <4>1. told.objs[s][v] \in Objects
        BY <1>10, <1>12, ObjectType
      <4> QED
        BY <4>1, <1>3, <1>9 DEF Objects
    <3> QED
      BY <3>1, <1>9, <1>14 DEF Object
  <2>3. \A q \in Runs : LiveOf(told, s, q) => told.objs[s][v].active = q
    BY <2>1, <2>2 DEF Kept, Tracked
  <2>4. /\ told.objs[s][v].active \in {r, NoRun}
        /\ \A q \in Runs : told.objs[s][v].active = q => q = r
    BY <1>9, Ranges
  <2>5. told.runs[r].state # "live"
    BY <1>9
  <2> HIDE DEF told, Told2
  <2> QED
    BY <2>3, <2>4, <2>5 DEF LiveOf
<1>15. SoundKept(f, n, F)
  <2>1. \A q \in Runs : u.active # q
    BY <1>3, <1>11, Ranges DEF Objects
  <2>2. ASSUME Calm
        PROVE  /\ v = told.cur[s]
               /\ u.trigger = told.objs[s][v].trigger /\ u.overlap = told.objs[s][v].overlap
               /\ \A q \in Runs : LiveOf(told, s, q) =>
                    u.active = q \/ (u.overlap = "queue" /\ Beside(told, s, q))
               /\ \A q \in Runs : u.active = q /\ told.runs[q].state = "live" => told.owner[q] = s
               /\ Paced(told, s, u, firedAt, clock, F)
    <3>1. v = told.cur[s] /\ Object(told, s) = told.objs[s][v]
      BY <2>2, <1>9 DEF Object
    <3>2. told.objs[s][v] \in Objects
      BY <1>10, <1>12, ObjectType
    <3>3. /\ u.trigger = told.objs[s][v].trigger /\ u.overlap = told.objs[s][v].overlap
          /\ u.anchor = told.objs[s][v].anchor /\ u.lastFired = told.objs[s][v].lastFired
          /\ u.pending = told.objs[s][v].pending
      BY <3>2 DEF Objects, u
    <3>4. Paced(told, s, told.objs[s][v], firedAt, clock, F)
      BY <2>2, <3>1, <1>9 DEF SoundKept, Kept, Cadence
    <3>5. Paced(told, s, u, firedAt, clock, F)
      BY <3>3, <3>4 DEF Paced, Anchor
    <3> QED
      BY <2>1, <2>2, <3>1, <3>3, <3>5, <1>14
  <2>3. SoundKept(told, n, F)
    BY <1>9
  <2> HIDE DEF Told2
  <2> QED
    BY <2>1, <2>2, <2>3, <1>11, <1>12, WriteKeeps, ZenonT(40)
<1>16. MadeWay(e, f, s, v)
  <2>1. \A t \in Sched : t # s => f.objs[t] = e.objs[t]
    BY <1>9, <1>10, <1>13, WrittenElsewhere
  <2>2. f.runs = told.runs
    BY <1>13 DEF WroteOver
  <2>3. Calm => \A q \in Runs : ~LiveOf(f, s, q)
    BY <2>2, <1>14 DEF LiveOf
  <2>4. /\ f \in Engine /\ f.cur = e.cur /\ f.firing = e.firing /\ f.timer = e.timer
        /\ \A t \in Sched : Len(f.objs[t]) = Len(e.objs[t])
        /\ f.objs[s][v] = u
    BY <1>9, <1>13 DEF WroteOver
  <2>5. \A q \in Runs : q # r => f.runs[q] = e.runs[q]
    BY <2>2, <1>9
  <2>6. f.runs[r].state # "live"
    BY <2>2, <1>9
  <2>7. NoneStarts(e, f)
    <3> HIDE DEF f
    <3> QED
      BY <2>5, <2>6 DEF NoneStarts, LiveOf
  <2> QED
    BY <2>1, <2>3, <2>4, <2>5, <2>7, <1>11 DEF MadeWay
<1> QED
  BY <1>2, <1>15, <1>16

\* What a firing leaves of the engine.
Fired(e, f, s, by) ==
    /\ f \in Engine /\ f.cur = e.cur /\ f.timer = e.timer
    /\ \A t \in Sched : Len(f.objs[t]) = Len(e.objs[t])
    /\ Firing(f, s) /\ f.firing[s].by = by
    /\ \A t \in Sched : t # s => f.objs[t] = e.objs[t] /\ f.firing[t] = e.firing[t]
    /\ \A q \in Runs : e.runs[q].by # s => f.runs[q] = e.runs[q]
    /\ NoneStarts(e, f)

\* A schedule may fire where it need not wait, and by the tick once it is due.
LEMMA FiringKeeps ==
    ASSUME NEW e, NEW n \in 0..MaxUpsets, NEW F, SoundKept(e, n, F), clock \in 0..MaxTime,
           NEW s \in Sched, NEW v \in 1..Len(e.objs[s]), ~Firing(e, s), e.cur[s] # 0,
           NEW by \in {"tick", "chain", "manual"}, NEW now \in 0..MaxTime,
           NEW depth \in 0..MaxChain, NEW up \in {Nobody} \cup Sched,
           NEW flow \in {Nobody} \cup Sched, NEW listed \in Lists,
           \A t \in Sched : listed[t] <= Len(e.objs[t]),
           Calm => /\ v = e.cur[s] /\ listed = e.cur
                   /\ by = "manual" => ~Busy(e, e.objs[s][v])
                   /\ by = "chain" =>
                        /\ depth > 0 /\ e.objs[s][v].trigger = "chain"
                        /\ Busy(e, e.objs[s][v]) => e.objs[s][v].overlap # "skip"
                   /\ by = "tick" =>
                        /\ now <= clock /\ (e.objs[s][v].pending \/ DueAt(e.objs[s][v]) <= now)
                        /\ Busy(e, e.objs[s][v]) => e.objs[s][v].overlap = "replace"
    PROVE  /\ SoundKept(Fire(e, s, v, by, now, depth, up, flow, listed), n, F)
           /\ Fired(e, Fire(e, s, v, by, now, depth, up, flow, listed), s, by)
<1> DEFINE o == e.objs[s][v]
           making == by # "manual" /\ o.overlap = "replace" /\ o.active # NoRun
           free == IF making THEN Replaced(e, s, v) ELSE e
           p == free.objs[s][v]
           w == Write(free, s, v, Stamp(p, by))
           x == [obj |-> v, by |-> by, now |-> now, depth |-> depth,
                 up |-> up, flow |-> flow, listed |-> listed]
           f == [w EXCEPT !.firing[s] = x]
<1>1. e \in Engine /\ Counted(e, n) /\ Mine(e)
  BY DEF SoundKept, Sound
<1>2. f = Fire(e, s, v, by, now, depth, up, flow, listed)
  BY DEF Fire
<1>3. o \in Objects
  BY <1>1, ObjectType
\* Room is made.
<1>4. /\ SoundKept(free, n, F)
      /\ free \in Engine /\ free.cur = e.cur /\ free.firing = e.firing /\ free.timer = e.timer
      /\ \A t \in Sched : Len(free.objs[t]) = Len(e.objs[t])
      /\ \A t \in Sched : t # s => free.objs[t] = e.objs[t]
      /\ \A q \in Runs : e.runs[q].by # s => free.runs[q] = e.runs[q]
      /\ NoneStarts(e, free)
      /\ p = o \/ p = [o EXCEPT !.active = NoRun]
      /\ Calm => \A q \in Runs : LiveOf(free, s, q) =>
           o.overlap = "queue" /\ (by = "chain" \/ Beside(free, s, q))
  <2>1. CASE making
    <3>1. PICK r \in Runs : o.active = r
      BY <2>1, <1>3 DEF Objects
    <3>2. o.overlap = "replace" /\ free = Replaced(e, s, v)
      BY <2>1
    <3>3. Calm => v = e.cur[s] /\ o.overlap = "replace"
      BY <3>2
    <3>4. n \in Nat
      BY Ranges
    <3>5. SoundKept(Replaced(e, s, v), n, F) /\ MadeWay(e, Replaced(e, s, v), s, v)
      BY <3>1, <3>3, <3>4, ReplacedKeeps
    <3>6. e.runs[r].by = s
      BY <3>1, <1>1 DEF Mine
    <3>7. \A q \in Runs : e.runs[q].by # s => q # o.active
      BY <3>1, <3>6
    <3> QED
      BY <3>2, <3>5, <3>7 DEF MadeWay
  <2>2. CASE ~making
    <3>1. ASSUME Calm, NEW q \in Runs, LiveOf(e, s, q)
          PROVE  o.overlap = "queue" /\ (by = "chain" \/ Beside(e, s, q))
      <4>1. Object(e, s) = o /\ e.cur[s] # 0
        BY <3>1 DEF Object
      <4>2. o.active = q \/ (o.overlap = "queue" /\ Beside(e, s, q))
        BY <3>1, <4>1 DEF SoundKept, Kept, Tracked
      <4>3. CASE o.active = q
        <5>1. Busy(e, o) /\ o.active # NoRun
          BY <3>1, <4>3, Ranges DEF Busy, LiveOf
        <5> QED
          BY <5>1, <3>1, <2>2, <1>3 DEF Objects
      <4> QED
        BY <4>2, <4>3
    <3> QED
      BY <2>2, <3>1, <1>1 DEF NoneStarts
  <2> QED
    BY <2>1, <2>2
<1>5. v \in 1..Len(free.objs[s])
  BY <1>4
<1>6. p \in Objects
  BY <1>4, <1>5, ObjectType
<1> HIDE DEF free, making
<1>7. /\ Stamp(p, by) \in Objects /\ Stamp(p, by).active = p.active
      /\ Stamp(p, by).trigger = o.trigger /\ Stamp(p, by).overlap = o.overlap
      /\ by = "manual" => /\ Stamp(p, by).lastFired = o.lastFired
                          /\ Stamp(p, by).pending = o.pending
      /\ by # "manual" => Stamp(p, by).lastFired = clock /\ ~Stamp(p, by).pending
      /\ Stamp(p, by).anchor = o.anchor
  <2>1. /\ p.trigger = o.trigger /\ p.overlap = o.overlap /\ p.lastFired = o.lastFired
        /\ p.pending = o.pending /\ p.anchor = o.anchor
    BY <1>3, <1>4 DEF Objects
  <2> HIDE DEF p, o
  <2>2. p.runCount + 1 \in Nat /\ clock \in {Never} \cup 0..MaxTime
    BY <1>6 DEF Objects
  <2>3. CASE by = "manual"
    <3>1. Stamp(p, by) = [p EXCEPT !.runCount = p.runCount + 1]
      BY <2>3, <1>6 DEF Objects, Stamp
    <3> QED
      BY <3>1, <2>1, <2>2, <2>3, <1>6 DEF Objects
  <2>4. CASE by # "manual"
    <3>1. Stamp(p, by) = [p EXCEPT !.runCount = p.runCount + 1, !.lastFired = clock,
                                   !.pending = FALSE]
      BY <2>4, <1>6 DEF Objects, Stamp
    <3> QED
      BY <3>1, <2>1, <2>2, <2>4, <1>6 DEF Objects
  <2> QED
    BY <2>3, <2>4
<1> DEFINE z == Stamp(p, by)
\* The occurrence is stamped.
<1>8. ASSUME Calm
      PROVE  /\ Paced(e, s, o, firedAt, clock, F) /\ Object(e, s) = o
             /\ Paced(free, s, p, firedAt, clock, F) /\ Object(free, s) = p
             /\ \A q \in Runs : p.active = q /\ free.runs[q].state = "live" => free.owner[q] = s
  <2>1. Object(e, s) = o /\ Object(free, s) = p
    BY <1>4, <1>8 DEF Object
  <2>2. Kept(e, firedAt, clock, F) /\ Kept(free, firedAt, clock, F)
    BY <1>4, <1>8 DEF SoundKept
  <2> HIDE DEF p, o
  <2>3. Paced(e, s, o, firedAt, clock, F)
    BY <2>1, <2>2 DEF Kept, Cadence
  <2>4. Paced(free, s, p, firedAt, clock, F)
    BY <2>1, <2>2 DEF Kept, Cadence
  <2>5. \A q \in Runs : p.active = q /\ free.runs[q].state = "live" => free.owner[q] = s
    BY <2>1, <2>2, <1>4 DEF Kept, Owned
  <2> QED
    BY <2>1, <2>3, <2>4, <2>5
<1>9. ASSUME Calm
      PROVE  /\ Paced(free, s, z, firedAt, clock, F)
             /\ by # "manual" => Anchor(z) = clock
  <2>1. Anchor(o) \in Int /\ clock \in Nat /\ clock # Never
    <3>1. o.lastFired \in Int /\ o.anchor \in Int
      <4> HIDE DEF o
      <4> QED
        BY <1>3, Ranges DEF Objects
    <3> HIDE DEF o
    <3> QED
      BY <3>1, Ranges DEF Anchor
  <2> HIDE DEF p, o, z
  <2>2. by = "manual" => Anchor(z) = Anchor(o) /\ z.pending = o.pending
    BY <1>7 DEF Anchor, z
  <2>3. by # "manual" => Anchor(z) = clock /\ ~z.pending
    BY <1>7, <2>1 DEF Anchor, z
  <2>4. ~Firing(free, s)
    BY <1>4 DEF Firing
  <2>5. firedAt[s] # Never =>
          firedAt[s] \in 0..clock /\ Anchor(o) >= firedAt[s]
            /\ (o.pending => clock >= firedAt[s] + Period)
    BY <1>8, <1>9 DEF Paced
  <2> QED
    <3>1. CASE by = "manual"
      BY <3>1, <2>1, <2>2, <2>4, <2>5 DEF Paced
    <3>2. CASE by # "manual"
      BY <3>2, <2>1, <2>3, <2>4, <2>5 DEF Paced
    <3> QED
      BY <3>1, <3>2
<1>10. SoundKept(w, n, F)
  <2>1. \A q \in Runs : z.active = q =>
          free.runs[q].by = s /\ free.runs[q].state \notin {"none", "parked"}
    <3>1. Mine(free) /\ z.active = p.active
      BY <1>4, <1>7 DEF SoundKept, Sound
    <3>2. \A q \in Runs : free.objs[s][v].active = q =>
            free.runs[q].by = s /\ free.runs[q].state \notin {"none", "parked"}
      BY <3>1, <1>5 DEF Mine
    <3> HIDE DEF z
    <3> QED
      BY <3>1, <3>2
  <2>2. ASSUME Calm
        PROVE  /\ v = free.cur[s]
               /\ z.trigger = free.objs[s][v].trigger /\ z.overlap = free.objs[s][v].overlap
               /\ \A q \in Runs : LiveOf(free, s, q) =>
                    z.active = q \/ (z.overlap = "queue" /\ Beside(free, s, q))
               /\ \A q \in Runs : z.active = q /\ free.runs[q].state = "live" => free.owner[q] = s
               /\ Paced(free, s, z, firedAt, clock, F)
    <3>1. v = free.cur[s]
      BY <2>2, <1>4
    <3>2. z.trigger = p.trigger /\ z.overlap = p.overlap
      BY <1>3, <1>4, <1>7 DEF Objects
    <3>3. \A q \in Runs : LiveOf(free, s, q) =>
            p.active = q \/ (p.overlap = "queue" /\ Beside(free, s, q))
      <4>1. free.cur[s] # 0 /\ Object(free, s) = p
        BY <1>4, <1>8, <2>2
      <4>2. Tracked(free)
        BY <1>4, <2>2 DEF SoundKept, Kept
      <4> HIDE DEF p, o, z
      <4> QED
        BY <4>1, <4>2 DEF Tracked
    <3>4. Paced(free, s, z, firedAt, clock, F)
      BY <2>2, <1>9
    <3>5. \A q \in Runs : z.active = q /\ free.runs[q].state = "live" => free.owner[q] = s
      BY <2>2, <1>7, <1>8
    <3>6. \A q \in Runs : LiveOf(free, s, q) =>
            z.active = q \/ (z.overlap = "queue" /\ Beside(free, s, q))
      BY <3>2, <3>3, <1>7
    <3> QED
      BY <3>1, <3>2, <3>4, <3>5, <3>6
  <2>3. z \in Objects /\ n \in Nat /\ SoundKept(free, n, F)
    BY <1>4, <1>7, Ranges
  <2> HIDE DEF z
  <2>4. w = Write(free, s, v, z)
    BY DEF z
  <2> HIDE DEF w
  <2> QED
    BY <2>1, <2>2, <2>3, <2>4, <1>5, WriteKeeps
<1>11. WroteOver(free, w, s, v, z)
  BY <1>4, <1>5, <1>7, Written
<1> HIDE DEF w, z
\* The launch is in flight.
<1>12. x \in Fires /\ x.obj = v /\ x.by = by /\ x.now = now /\ x.depth = depth /\ x.listed = listed
  <2>1. v \in 1..(MaxUpsets + 1)
    <3>1. Len(e.objs[s]) <= n + 1 /\ e.objs \in [Sched -> Seq(Objects)]
      BY <1>1, Fields DEF Counted
    <3> QED
      BY <3>1, Ranges
  <2> QED
    BY <2>1 DEF Fires
<1>13. FiringChanged(w, f, s, x)
  <2>1. x \in Fires \cup {NoFire} /\ w \in Engine
    BY <1>11, <1>12 DEF WroteOver
  <2> HIDE DEF x
  <2> QED
    BY <2>1, FiringSet
<1> HIDE DEF x, f
<1>14. SoundKept(f, n, F)
  <2>1. /\ v <= Len(w.objs[s]) /\ w.cur = e.cur /\ w.firing = e.firing
        /\ \A t \in Sched : Len(w.objs[t]) = Len(e.objs[t])
    BY <1>4, <1>5, <1>11 DEF WroteOver
  <2>2. x.obj <= Len(w.objs[s]) /\ \A t \in Sched : x.listed[t] <= Len(w.objs[t])
    BY <2>1, <1>12
  <2>3. ASSUME Calm
        PROVE  /\ w.cur[s] # 0 /\ x.obj = w.cur[s] /\ x.listed = w.cur
               /\ x.by = "chain" => x.depth > 0 /\ Object(w, s).trigger = "chain"
               /\ \A r \in Runs : LiveOf(w, s, r) =>
                    /\ Object(w, s).overlap = "queue"
                    /\ x.by = "chain" \/ Beside(w, s, r)
               /\ x.by = "tick" =>
                    /\ x.now <= clock
                    /\ s \notin F => /\ Anchor(Object(w, s)) >= clock
                                     /\ ~Object(w, s).pending
                                     /\ firedAt[s] # Never => clock >= firedAt[s] + Period
    <3>1. Object(w, s) = z
      BY <2>1, <2>3, <1>11 DEF Object, WroteOver
    <3>2. \A r \in Runs : LiveOf(w, s, r) => z.overlap = "queue" /\ (by = "chain" \/ Beside(w, s, r))
      <4>1. w.runs = free.runs
        BY <1>11 DEF WroteOver
      <4> QED
        BY <4>1, <2>3, <1>4, <1>7 DEF LiveOf, Beside, z
    <3>3. x.by = "tick" =>
            /\ x.now <= clock
            /\ Anchor(z) >= clock /\ ~z.pending
            /\ firedAt[s] # Never => clock >= firedAt[s] + Period
      <4> SUFFICES ASSUME by = "tick"
                   PROVE  /\ now <= clock
                          /\ Anchor(z) >= clock /\ ~z.pending
                          /\ firedAt[s] # Never => clock >= firedAt[s] + Period
        BY <1>12
      <4>1. now <= clock /\ (o.pending \/ DueAt(o) <= now)
        BY <2>3
      <4>2. Anchor(z) = clock /\ ~z.pending
        BY <2>3, <1>7, <1>9 DEF z
      <4>3. ASSUME firedAt[s] # Never PROVE clock >= firedAt[s] + Period
        <5>1. Anchor(o) >= firedAt[s] /\ (o.pending => clock >= firedAt[s] + Period)
              /\ firedAt[s] \in 0..clock
          BY <2>3, <4>3, <1>8 DEF Paced
        <5>2. Anchor(o) \in Int
          BY <1>3, Ranges DEF Anchor, Objects
        <5> HIDE DEF o
        <5> QED
          BY <4>1, <5>1, <5>2, Ranges DEF DueAt
      <4> QED
        BY <4>1, <4>2, <4>3, Ranges
    <3>4. x.by = "chain" => x.depth > 0 /\ z.trigger = "chain"
      BY <2>3, <1>7, <1>12 DEF z
    <3> QED
      BY <2>1, <2>3, <3>1, <3>2, <3>3, <3>4, <1>12
  <2>4. n \in Nat
    BY Ranges
  <2>5. x \in Fires
    BY <1>12
  <2> HIDE DEF o, p
  <2> QED
    BY <2>2, <2>3, <2>4, <2>5, <1>10, <1>13, FireKeeps
<1>15. Fired(e, f, s, by)
  <2>1. \A t \in Sched : t # s => w.objs[t] = e.objs[t]
    <3>1. \A t \in Sched : t # s => w.objs[t] = free.objs[t]
      BY <1>4, <1>11, WrittenElsewhere
    <3> QED
      BY <3>1, <1>4
  <2>2. f.firing[s] = x /\ \A t \in Sched : t # s => f.firing[t] = e.firing[t]
    <3>1. e.firing \in [Sched -> Fires \cup {NoFire}]
      BY <1>1, Fields
    <3>2. w.firing = e.firing
      BY <1>4, <1>11 DEF WroteOver
    <3> QED
      BY <3>1, <3>2, <1>13 DEF FiringChanged
  <2>3. Firing(f, s)
    BY <2>2, <1>12, NoFireIsNone DEF Firing
  <2>4. /\ f \in Engine /\ f.cur = e.cur /\ f.timer = e.timer /\ f.runs = free.runs /\ f.objs = w.objs
        /\ \A t \in Sched : Len(w.objs[t]) = Len(e.objs[t])
    BY <1>4, <1>11, <1>13 DEF WroteOver, FiringChanged
  <2>5. NoneStarts(e, f)
    BY <2>4, <1>4 DEF NoneStarts, LiveOf
  <2> QED
    BY <2>1, <2>2, <2>3, <2>4, <2>5, <1>4, <1>12 DEF Fired
<1> QED
  BY <1>2, <1>14, <1>15 DEF f

-----------------------------------------------------------------------------
(* The tick.                                                               *)

\* What a walk leaves alone: the list, how many objects there are, and the
\* launches that are in flight.
Around(e, f) ==
    /\ f.cur = e.cur
    /\ \A t \in Sched : Len(f.objs[t]) = Len(e.objs[t])
    /\ \A t \in Sched : Firing(e, t) => f.firing[t] = e.firing[t]
    /\ NoneStarts(e, f)

LEMMA AroundFires ==
    ASSUME NEW e, NEW f, NEW g, NEW s \in Sched, NEW by,
           Around(e, f), Fired(f, g, s, by), ~Firing(f, s)
    PROVE  Around(e, g)
BY DEF Around, Fired, Firing, NoneStarts

LEMMA AroundWrites ==
    ASSUME NEW e, NEW f, NEW g, NEW s, NEW v, NEW o, Around(e, f), WroteOver(f, g, s, v, o)
    PROVE  Around(e, g)
BY DEF Around, WroteOver, NoneStarts, LiveOf

\* What a decision says of what is due.
LEMMA DecisionMeans ==
    ASSUME NEW e, NEW o \in Objects, NEW now
    PROVE  /\ Decision(e, o, now) \in {"wait", "skip", "fire"}
           /\ Decision(e, o, now) = "skip" => ~(DueAt(o) > now)
           /\ Decision(e, o, now) = "fire" => (o.pending /\ ~Busy(e, o)) \/ ~(DueAt(o) > now)
           /\ Decision(e, o, now) = "fire" /\ Busy(e, o) => o.overlap # "skip"
BY DEF Decision, Objects

\* The states a tick's walk may be in.
TickWalks(e, n, F) == {a \in [e : Engine, at : {Nobody} \cup Sched] :
    /\ SoundKept(a.e, n, F) /\ Around(e, a.e)
    /\ a.at # Nobody => Firing(a.e, a.at) /\ a.e.firing[a.at].by = "tick"}

LEMMA TickOneKeeps ==
    ASSUME NEW e \in Engine, NEW n \in 0..MaxUpsets, NEW F, clock \in 0..MaxTime,
           NEW now \in 0..MaxTime, NEW listed \in Lists,
           \A t \in Sched : listed[t] <= Len(e.objs[t]),
           Calm => listed = e.cur /\ now <= clock,
           NEW a \in TickWalks(e, n, F), NEW s \in Sched
    PROVE  TickOne(now, listed, a, s) \in TickWalks(e, n, F)
<1> DEFINE f == a.e
           v == listed[s]
           o == f.objs[s][v]
           d == Decision(f, o, now)
           passed == [o EXCEPT !.anchor = now, !.lastFired = Never]
           owed == [passed EXCEPT !.pending = TRUE]
           Good(b) == b \in TickWalks(e, n, F)
<1>1. /\ a = [e |-> f, at |-> a.at] /\ f \in Engine /\ a.at \in {Nobody} \cup Sched
      /\ SoundKept(f, n, F) /\ Around(e, f)
      /\ a.at # Nobody => Firing(f, a.at) /\ f.firing[a.at].by = "tick"
  BY DEF TickWalks
<1>2. TickOne(now, listed, a, s) =
        IF a.at # Nobody \/ v = 0 THEN a
        ELSE IF f.cur[s] = 0 \/ Firing(f, s) \/ d = "wait" THEN a
        ELSE IF d = "skip" THEN [a EXCEPT !.e = Write(f, s, v, passed)]
        ELSE IF Busy(f, o) /\ o.overlap = "queue"
             THEN IF o.pending THEN a ELSE [a EXCEPT !.e = Write(f, s, v, owed)]
        ELSE [e |-> Fire(f, s, v, "tick", now, 0, Nobody, Nobody, listed), at |-> s]
  BY DEF TickOne
<1>3. CASE a.at # Nobody \/ v = 0 \/ f.cur[s] = 0 \/ Firing(f, s) \/ d = "wait"
  BY <1>2, <1>3
<1>4. CASE ~(a.at # Nobody \/ v = 0 \/ f.cur[s] = 0 \/ Firing(f, s) \/ d = "wait")
  <2>1. v \in 1..Len(f.objs[s]) /\ \A t \in Sched : listed[t] <= Len(f.objs[t])
    <3>1. v \in 0..(MaxUpsets + 1) /\ v # 0
      BY <1>4 DEF Lists
    <3>2. \A t \in Sched : Len(f.objs[t]) = Len(e.objs[t])
      BY <1>1 DEF Around, NoneStarts, LiveOf
    <3>3. f.objs \in [Sched -> Seq(Objects)]
      BY <1>1, Fields
    <3>4. \A t \in Sched : listed[t] <= Len(f.objs[t])
      BY <3>2
    <3>5. v <= Len(f.objs[s]) /\ Len(f.objs[s]) \in Nat
      BY <3>3, <3>4
    <3> QED
      BY <3>1, <3>4, <3>5, Ranges
  <2>2. o \in Objects
    BY <2>1, <1>1, ObjectType
  <2>3. /\ Anchor(o) \in Int /\ now \in Nat /\ now \in Int /\ now # Never
        /\ clock \in Int /\ now \in 0..MaxTime
    BY <2>2, Ranges DEF Anchor, Objects
  <2>4. /\ passed \in Objects /\ Anchor(passed) = now /\ passed.active = o.active
        /\ passed.trigger = o.trigger /\ passed.overlap = o.overlap /\ passed.pending = o.pending
        /\ owed \in Objects /\ Anchor(owed) = now /\ owed.active = o.active
        /\ owed.trigger = o.trigger /\ owed.overlap = o.overlap /\ owed.pending = TRUE
    BY <2>2, <2>3, Ranges DEF Objects, Anchor
  <2>5. d \in {"skip", "fire"}
    BY <2>2, <1>4, DecisionMeans
  <2>6. Calm => /\ v = f.cur[s] /\ listed = f.cur /\ now <= clock /\ Object(f, s) = o
                /\ Kept(f, firedAt, clock, F)
    <3>1. Calm => listed = f.cur /\ now <= clock
      BY <1>1 DEF Around, NoneStarts, LiveOf
    <3>2. Calm => Kept(f, firedAt, clock, F)
      BY <1>1 DEF SoundKept
    <3> HIDE DEF d, passed, owed
    <3> QED
      BY <3>1, <3>2 DEF Object
  <2>7. ASSUME Calm PROVE Paced(f, s, o, firedAt, clock, F)
    <3> HIDE DEF o
    <3> QED
      BY <2>6, <2>7 DEF Kept, Cadence
  <2>8. ASSUME NEW z \in Objects, z \in {passed, owed}, ~(DueAt(o) > now)
        PROVE  Good([a EXCEPT !.e = Write(f, s, v, z)])
    <3>1. /\ Anchor(z) = now /\ z.active = o.active /\ z.trigger = o.trigger
          /\ z.overlap = o.overlap
      BY <2>4, <2>8
    <3>2. \A r \in Runs : z.active = r =>
            f.runs[r].by = s /\ f.runs[r].state \notin {"none", "parked"}
      <4>1. Mine(f)
        BY <1>1 DEF SoundKept, Sound
      <4>2. \A r \in Runs : f.objs[s][v].active = r =>
              f.runs[r].by = s /\ f.runs[r].state \notin {"none", "parked"}
        BY <4>1, <2>1 DEF Mine
      <4> QED
        BY <3>1, <4>2
    <3>3. ASSUME Calm
          PROVE  /\ v = f.cur[s]
                 /\ z.trigger = f.objs[s][v].trigger /\ z.overlap = f.objs[s][v].overlap
                 /\ \A r \in Runs : LiveOf(f, s, r) =>
                      z.active = r \/ (z.overlap = "queue" /\ Beside(f, s, r))
                 /\ \A r \in Runs : z.active = r /\ f.runs[r].state = "live" => f.owner[r] = s
                 /\ Paced(f, s, z, firedAt, clock, F)
      <4>1. /\ v = f.cur[s] /\ f.cur[s] # 0 /\ Object(f, s) = o /\ Tracked(f) /\ Owned(f)
            /\ ~Firing(f, s)
        BY <2>6, <3>3, <1>4 DEF Kept
      <4>2. \A r \in Runs : LiveOf(f, s, r) =>
              o.active = r \/ (o.overlap = "queue" /\ Beside(f, s, r))
        <5> HIDE DEF o
        <5> QED
          BY <4>1 DEF Tracked
      <4>3. \A r \in Runs : o.active = r /\ f.runs[r].state = "live" => f.owner[r] = s
        <5> HIDE DEF o
        <5> QED
          BY <4>1 DEF Owned
      <4>4. Paced(f, s, z, firedAt, clock, F)
        <5>1. Paced(f, s, o, firedAt, clock, F) /\ now <= clock
          BY <2>6, <2>7, <3>3
        <5>2. ASSUME firedAt[s] # Never
              PROVE  /\ firedAt[s] \in 0..clock /\ Anchor(o) >= firedAt[s]
                     /\ o.pending => clock >= firedAt[s] + Period
          BY <5>1, <5>2, <4>1 DEF Paced
        <5>3. Anchor(o) + Period <= now
          BY <2>3, <2>8, Ranges DEF DueAt
        <5>4. firedAt[s] # Never => now >= firedAt[s] /\ clock >= firedAt[s] + Period
          <6> HIDE DEF o
          <6> QED
            BY <5>1, <5>2, <5>3, <2>3, Ranges
        <5> HIDE DEF o
        <5> QED
          BY <5>1, <5>2, <5>4, <3>1, <4>1 DEF Paced
      <4> QED
        BY <3>1, <4>1, <4>2, <4>3, <4>4
    <3>4. n \in Nat /\ SoundKept(f, n, F)
      BY <1>1, Ranges
    <3>5. SoundKept(Write(f, s, v, z), n, F)
      <4> HIDE DEF o, d, passed, owed, Good
      <4> QED
        BY <2>1, <3>2, <3>3, <3>4, WriteKeeps
    <3>6. WroteOver(f, Write(f, s, v, z), s, v, z)
      <4> HIDE DEF o, d, passed, owed, Good
      <4> QED
        BY <2>1, <1>1, Written
    <3>7. Around(e, Write(f, s, v, z)) /\ Write(f, s, v, z) \in Engine
      <4> HIDE DEF o, d, passed, owed, Good, f
      <4>1. Around(e, Write(f, s, v, z))
        BY <3>6, <1>1, AroundWrites
      <4> QED
        BY <3>6, <4>1 DEF WroteOver
    <3>8. [a EXCEPT !.e = Write(f, s, v, z)] = [e |-> Write(f, s, v, z), at |-> a.at]
      BY <1>1
    <3>9. a.at = Nobody
      BY <1>4
    <3> QED
      BY <3>5, <3>7, <3>8, <3>9 DEF TickWalks
  <2>9. CASE d = "skip"
    <3>1. ~(DueAt(o) > now)
      BY <2>2, <2>9, DecisionMeans
    <3>2. TickOne(now, listed, a, s) = [a EXCEPT !.e = Write(f, s, v, passed)]
      BY <1>2, <1>4, <2>9
    <3> HIDE DEF o, d, passed, owed, f
    <3> QED
      BY <3>1, <3>2, <2>4, <2>8
  <2>10. CASE d = "fire" /\ Busy(f, o) /\ o.overlap = "queue"
    <3>1. ~(DueAt(o) > now)
      BY <2>2, <2>10, DecisionMeans
    <3>2. TickOne(now, listed, a, s) = IF o.pending THEN a ELSE [a EXCEPT !.e = Write(f, s, v, owed)]
      BY <1>2, <1>4, <2>10
    <3> HIDE DEF o, d, passed, owed, f
    <3> QED
      BY <3>1, <3>2, <2>4, <2>8
  <2>11. CASE d = "fire" /\ ~(Busy(f, o) /\ o.overlap = "queue")
    <3> DEFINE g == Fire(f, s, v, "tick", now, 0, Nobody, Nobody, listed)
    <3>1. TickOne(now, listed, a, s) = [e |-> g, at |-> s]
      BY <1>2, <1>4, <2>11
    <3>2. (o.pending \/ DueAt(o) <= now) /\ (Busy(f, o) => o.overlap = "replace")
      <4>1. DueAt(o) \in Int
        BY <2>3, Ranges DEF DueAt
      <4>2. o.overlap \in {"skip", "queue", "replace"}
        BY <2>2 DEF Objects
      <4>3. /\ (o.pending /\ ~Busy(f, o)) \/ ~(DueAt(o) > now)
            /\ Busy(f, o) => o.overlap # "skip"
        BY <2>2, <2>11, DecisionMeans
      <4> HIDE DEF o, d, passed, owed, f
      <4> QED
        BY <4>1, <4>2, <4>3, <2>3, <2>11
    <3>3. Calm => v = f.cur[s] /\ listed = f.cur /\ now <= clock
      BY <2>6
    <3>4. /\ "tick" \in {"tick", "chain", "manual"} /\ 0 \in 0..MaxChain
          /\ Nobody \in {Nobody} \cup Sched
      BY Ranges
    <3>5. ~Firing(f, s) /\ f.cur[s] # 0
      BY <1>4
    <3>6. SoundKept(g, n, F) /\ Fired(f, g, s, "tick")
      <4> HIDE DEF d, passed, owed, Good
      <4> QED
        BY <1>1, <2>1, <3>2, <3>3, <3>4, <3>5, FiringKeeps
    <3> HIDE DEF g, o, d, passed, owed
    <3>7. Around(e, g)
      BY <3>5, <3>6, <1>1, AroundFires
    <3> QED
      BY <3>1, <3>6, <3>7 DEF TickWalks, Fired
  <2> HIDE DEF d
  <2> QED
    BY <2>5, <2>9, <2>10, <2>11
<1> QED
  BY <1>3, <1>4

LEMMA TickOnKeeps ==
    ASSUME NEW e, NEW n \in 0..MaxUpsets, NEW F, SoundKept(e, n, F), clock \in 0..MaxTime,
           NEW now \in 0..MaxTime, NEW listed \in Lists, NEW from \in Nat \ {0},
           \A t \in Sched : listed[t] <= Len(e.objs[t]),
           Calm => listed = e.cur /\ now <= clock
    PROVE  /\ SoundKept(TickOn(e, now, listed, from), n, F)
           /\ Around(e, TickOn(e, now, listed, from))
           /\ Woken(TickOn(e, now, listed, from), clock)
<1> DEFINE V == TickWalks(e, n, F)
           w == TickWalk(e, now, listed, from)
<1>1. e \in Engine
  BY DEF SoundKept, Sound
<1>2. [e |-> e, at |-> Nobody] \in V
  BY <1>1 DEF TickWalks, Around, NoneStarts, LiveOf
<1>3. \A a \in V, s \in Sched : s >= from => TickOne(now, listed, a, s) \in V
  BY <1>1, TickOneKeeps
<1> HIDE DEF V
<1>4. w \in V
  BY <1>2, <1>3, TickWalkStays
<1> HIDE DEF w
<1>5. /\ w.e \in Engine /\ SoundKept(w.e, n, F) /\ Around(e, w.e)
      /\ w.at # Nobody => w.at \in Sched /\ Firing(w.e, w.at) /\ w.e.firing[w.at].by = "tick"
  BY <1>4 DEF V, TickWalks
<1>6. TickOn(e, now, listed, from) = IF w.at = Nobody THEN Arm(w.e) ELSE w.e
  BY DEF TickOn, w
<1>7. CASE w.at = Nobody
  <2>1. TimerChanged(w.e, Arm(w.e)) /\ Woken(Arm(w.e), clock)
    BY <1>5, Armed
  <2>2. SoundKept(Arm(w.e), n, F)
    BY <2>1, <1>5, TimerKeeps, Ranges
  <2>3. Around(e, Arm(w.e))
    BY <2>1, <1>5 DEF Around, TimerChanged, NoneStarts, LiveOf
  <2> QED
    BY <2>1, <2>2, <2>3, <1>6, <1>7
<1>8. CASE w.at # Nobody
  <2>1. Woken(w.e, clock)
    BY <1>5, <1>8 DEF Woken, Ticking, Launching
  <2> QED
    BY <2>1, <1>5, <1>6, <1>8
<1> QED
  BY <1>7, <1>8

\* What is in the map is an object.
LEMMA CurCounts ==
    ASSUME NEW e, NEW n, Sound(e, n)
    PROVE  /\ e \in Engine /\ e.cur \in Lists
           /\ \A t \in Sched : e.cur[t] <= Len(e.objs[t])
           /\ \A t \in Sched : e.cur[t] # 0 => e.cur[t] \in 1..Len(e.objs[t])
<1>1. e \in Engine /\ \A t \in Sched : e.cur[t] <= Len(e.objs[t])
  BY DEF Sound, Counted
<1>2. e.cur \in Lists /\ e.objs \in [Sched -> Seq(Objects)]
  BY <1>1, Fields
<1>3. \A t \in Sched : e.cur[t] \in 0..(MaxUpsets + 1) /\ e.objs[t] \in Seq(Objects)
  BY <1>2 DEF Lists
<1>4. \A t \in Sched : e.cur[t] # 0 => e.cur[t] \in 1..Len(e.objs[t])
  BY <1>1, <1>3, Ranges
<1> QED
  BY <1>1, <1>2, <1>4

LEMMA TickKeeps ==
    ASSUME NEW e, NEW n \in 0..MaxUpsets, NEW F, SoundKept(e, n, F), clock \in 0..MaxTime
    PROVE  SoundKept(Tick(e), n, F) /\ Around(e, Tick(e)) /\ Woken(Tick(e), clock)
<1>1. e.cur \in Lists /\ \A t \in Sched : e.cur[t] <= Len(e.objs[t])
  BY CurCounts DEF SoundKept
<1>2. 1 \in Nat \ {0} /\ clock <= clock
  BY Ranges
<1>3. CASE Ticking(e)
  BY <1>3 DEF Tick, Around, Woken, NoneStarts, LiveOf
<1>4. CASE ~Ticking(e)
  <2>1. Tick(e) = TickOn(e, clock, e.cur, 1)
    BY <1>4 DEF Tick
  <2> QED
    BY <2>1, <1>1, <1>2, TickOnKeeps
<1> QED
  BY <1>3, <1>4

-----------------------------------------------------------------------------
(* Chains.                                                                 *)

\* A wakeup stays set when a chain fires: what it fires is not on the clock.
LEMMA ChainWakes ==
    ASSUME NEW e, NEW f, NEW n, NEW F, NEW s \in Sched, Calm, SoundKept(e, n, F), SoundKept(f, n, F),
           Fired(e, f, s, "chain"), ~Firing(e, s), Woken(e, clock)
    PROVE  Woken(f, clock)
<1>1. Listed(f) = Listed(e) /\ f.timer = e.timer
  BY DEF Fired, Listed
<1>2. CASE Ticking(e)
  <2>1. PICK t \in Sched : Firing(e, t) /\ e.firing[t].by = "tick"
    BY <1>2 DEF Ticking, Launching
  <2>2. t # s /\ f.firing[t] = e.firing[t]
    BY <2>1 DEF Fired
  <2>3. Ticking(f)
    BY <2>1, <2>2 DEF Ticking, Launching, Firing
  <2> QED
    BY <2>3 DEF Woken
<1>3. CASE ~Ticking(e)
  <2> SUFFICES ASSUME NEW t \in Sched, f.cur[t] # 0, Timed(Object(f, t))
               PROVE  /\ f.timer \in 0..(clock + MaxSleep)
                      /\ Object(f, t).pending /\ Over(f, Object(f, t)) /\ ~Firing(f, t)
                           => f.timer <= clock
    BY DEF Woken, Listed
  <2>1. t # s
    <3>1. Firing(f, s) /\ f.firing[s].by = "chain"
      BY DEF Fired
    <3>2. Object(f, s).trigger = "chain"
      BY <3>1 DEF SoundKept, Kept, Held
    <3> QED
      BY <3>2 DEF Timed
  <2>2. Object(f, t) = Object(e, t) /\ e.cur[t] # 0 /\ (Firing(f, t) <=> Firing(e, t))
    BY <2>1 DEF Fired, Object, Firing
  <2> DEFINE o == Object(e, t)
  <2>3. Over(f, o) => Over(e, o)
    <3>1. e.cur[t] \in 1..Len(e.objs[t]) /\ e \in Engine
      BY <2>2, CurCounts DEF SoundKept
    <3>2. o = e.objs[t][e.cur[t]]
      BY DEF Object
    <3>3. o \in Objects
      BY <3>1, <3>2, ObjectType
    <3>4. CASE o.active = NoRun
      BY <3>4 DEF Over
    <3>5. CASE o.active # NoRun
      <4>1. o.active \in Runs
        BY <3>3, <3>5 DEF Objects
      <4>2. e.runs[o.active].by = t
        BY <3>1, <3>2, <4>1, SMTT(30) DEF SoundKept, Sound, Mine
      <4>3. f.runs[o.active] = e.runs[o.active]
        BY <4>1, <4>2, <2>1 DEF Fired
      <4> HIDE DEF o
      <4> QED
        BY <4>3 DEF Over
    <3> QED
      BY <3>4, <3>5
  <2>4. /\ e.timer \in 0..(clock + MaxSleep)
        /\ o.pending /\ Over(e, o) /\ ~Firing(e, t) => e.timer <= clock
    BY <1>3, <2>2 DEF Woken, Listed
  <2> HIDE DEF o
  <2> QED
    BY <1>1, <2>2, <2>3, <2>4 DEF o
<1> QED
  BY <1>2, <1>3

\* Nor does a declined one change anything.
LEMMA SameWakes ==
    ASSUME NEW e, NEW f, NEW n, NEW s \in Sched, NEW v \in 1..Len(e.objs[s]), Sound(e, n),
           WroteOver(e, f, s, v, e.objs[s][v]), Woken(e, clock)
    PROVE  Woken(f, clock)
<1>1. \A t \in Sched : \A u \in 1..Len(e.objs[t]) : f.objs[t][u] = e.objs[t][u]
  BY DEF WroteOver
<1>2. /\ f.cur = e.cur /\ f.firing = e.firing /\ f.timer = e.timer /\ f.runs = e.runs
  BY DEF WroteOver
<1>3. \A t \in Listed(e) : Object(f, t) = Object(e, t)
  BY <1>1, <1>2, CurCounts DEF Listed, Object
<1>4. (Ticking(f) <=> Ticking(e)) /\ Listed(f) = Listed(e)
  BY <1>2 DEF Ticking, Launching, Firing, Listed
<1> QED
  BY <1>2, <1>3, <1>4 DEF Woken, Over, Firing

\* The states a chain's walk may be in.
ChainWalks(e, n, F) == {a \in [e : Engine, at : {Nobody} \cup Sched] :
    /\ SoundKept(a.e, n, F) /\ Around(e, a.e)
    /\ Calm /\ Woken(e, clock) => Woken(a.e, clock)}

LEMMA ChainOneKeeps ==
    ASSUME NEW e \in Engine, NEW n \in 0..MaxUpsets, NEW F, clock \in 0..MaxTime,
           NEW depth \in Nat, Calm => depth > 0, NEW up \in {Nobody} \cup Sched,
           NEW flow \in {Nobody} \cup Sched, NEW listed \in Lists,
           \A t \in Sched : listed[t] <= Len(e.objs[t]),
           Calm => listed = e.cur,
           NEW a \in ChainWalks(e, n, F), NEW s \in Sched
    PROVE  ChainOne(depth, up, flow, listed, a, s) \in ChainWalks(e, n, F)
<1> DEFINE f == a.e
           v == listed[s]
           o == f.objs[s][v]
           declined == depth > MaxChain \/ (Busy(f, o) /\ o.overlap = "skip")
           g == Fire(f, s, v, "chain", 0, depth, up, flow, listed)
<1>1. /\ a = [e |-> f, at |-> a.at] /\ f \in Engine /\ a.at \in {Nobody} \cup Sched
      /\ SoundKept(f, n, F) /\ Around(e, f)
      /\ Calm /\ Woken(e, clock) => Woken(f, clock)
  BY DEF ChainWalks
<1>2. ChainOne(depth, up, flow, listed, a, s) =
        IF a.at # Nobody \/ v = 0 THEN a
        ELSE IF ~Chains(f, s, v, up, flow) \/ (depth <= MaxChain /\ Firing(f, s)) THEN a
        ELSE IF declined THEN [a EXCEPT !.e = Write(f, s, v, o)]
        ELSE [e |-> g, at |-> s]
  BY DEF ChainOne
<1> DEFINE idle == \/ a.at # Nobody \/ v = 0 \/ ~Chains(f, s, v, up, flow)
                   \/ depth <= MaxChain /\ Firing(f, s)
<1>3. CASE idle
  BY <1>2, <1>3
<1>4. CASE ~idle
  <2>1. v \in 1..Len(f.objs[s]) /\ \A t \in Sched : listed[t] <= Len(f.objs[t])
    <3>1. v \in 0..(MaxUpsets + 1) /\ v # 0
      BY <1>4 DEF Lists
    <3>2. \A t \in Sched : Len(f.objs[t]) = Len(e.objs[t])
      BY <1>1 DEF Around, NoneStarts, LiveOf
    <3>3. f.objs \in [Sched -> Seq(Objects)]
      BY <1>1, Fields
    <3>4. \A t \in Sched : listed[t] <= Len(f.objs[t])
      BY <3>2
    <3>5. v <= Len(f.objs[s]) /\ Len(f.objs[s]) \in Nat
      BY <3>3, <3>4
    <3>6. v <= Len(f.objs[s]) /\ v \in Int /\ v >= 1
      BY <3>1, <3>5, Ranges
    <3> HIDE DEF v, f
    <3> QED
      BY <3>4, <3>5, <3>6
  <2>2. o \in Objects
    BY <2>1, <1>1, ObjectType
  <2>3. f.cur[s] # 0 /\ o.trigger = "chain"
    BY <1>4 DEF Chains
  <2>4. Calm => /\ v = f.cur[s] /\ listed = f.cur /\ Object(f, s) = o
                /\ Kept(f, firedAt, clock, F)
    <3>1. Calm => listed = f.cur
      BY <1>1 DEF Around, NoneStarts, LiveOf
    <3>2. Calm => Kept(f, firedAt, clock, F)
      BY <1>1 DEF SoundKept
    <3> QED
      BY <3>1, <3>2 DEF Object
  <2>5. n \in Nat /\ SoundKept(f, n, F)
    BY <1>1, Ranges
  <2>6. CASE declined
    <3> DEFINE w == Write(f, s, v, o)
    <3>1. ChainOne(depth, up, flow, listed, a, s) = [e |-> w, at |-> a.at]
      BY <1>1, <1>2, <1>4, <2>6
    <3>2. WroteOver(f, w, s, v, o)
      BY <1>1, <2>1, <2>2, Written
    <3>3. SoundKept(w, n, F)
      <4>1. \A r \in Runs : o.active = r =>
              f.runs[r].by = s /\ f.runs[r].state \notin {"none", "parked"}
        BY <2>1, <2>5 DEF SoundKept, Sound, Mine
      <4>2. ASSUME Calm
            PROVE  /\ v = f.cur[s]
                   /\ \A r \in Runs : LiveOf(f, s, r) =>
                        o.active = r \/ (o.overlap = "queue" /\ Beside(f, s, r))
                   /\ \A r \in Runs : o.active = r /\ f.runs[r].state = "live" => f.owner[r] = s
                   /\ Paced(f, s, o, firedAt, clock, F)
        <5> HIDE DEF o, declined, idle
        <5> QED
          BY <4>2, <2>3, <2>4 DEF Kept, Tracked, Owned, Cadence
      <4>3. Calm => o.trigger = f.objs[s][v].trigger /\ o.overlap = f.objs[s][v].overlap
        OBVIOUS
      <4> DEFINE z == o
      <4>4. z = f.objs[s][v] /\ z \in Objects /\ w = Write(f, s, v, z)
        BY <2>2
      <4> HIDE DEF z, w, f, v, declined, idle, g
      <4> QED
        BY <2>1, <2>5, <4>1, <4>2, <4>3, <4>4, WriteKeeps
    <3> HIDE DEF w, f, declined, idle
    <3>4. Around(e, w) /\ w \in Engine
      <4> HIDE DEF o
      <4>1. Around(e, w)
        BY <3>2, <1>1, AroundWrites
      <4> QED
        BY <3>2, <4>1 DEF WroteOver
    <3>5. Calm /\ Woken(e, clock) => Woken(w, clock)
      <4>1. Sound(f, n)
        BY <2>5 DEF SoundKept
      <4> QED
        BY <1>1, <2>1, <3>2, <4>1, SameWakes
    <3> QED
      BY <3>1, <3>3, <3>4, <3>5, <1>1 DEF ChainWalks
  <2>7. CASE ~declined
    <3>1. ChainOne(depth, up, flow, listed, a, s) = [e |-> g, at |-> s]
      BY <1>2, <1>4, <2>7
    <3>2. depth \in 0..MaxChain /\ (Calm => depth > 0) /\ ~Firing(f, s)
          /\ (Busy(f, o) => o.overlap # "skip")
      BY <1>4, <2>7, Ranges
    <3>3. 0 \in 0..MaxTime /\ "chain" \in {"tick", "chain", "manual"} /\ "chain" # "manual"
          /\ "chain" # "tick"
      BY Ranges
    <3>4. SoundKept(g, n, F) /\ Fired(f, g, s, "chain")
      <4> HIDE DEF declined, idle, f
      <4> QED
        BY <2>1, <2>3, <2>4, <2>5, <3>2, <3>3, FiringKeeps
    <3> HIDE DEF g, o, declined, idle, f
    <3>5. Around(e, g)
      BY <3>2, <3>4, <1>1, AroundFires
    <3>6. Calm /\ Woken(e, clock) => Woken(g, clock)
      BY <3>2, <3>4, <2>5, <1>1, ChainWakes
    <3> QED
      BY <3>1, <3>4, <3>5, <3>6 DEF ChainWalks, Fired
  <2> QED
    BY <2>6, <2>7
<1> QED
  BY <1>3, <1>4

LEMMA ChainOnKeeps ==
    ASSUME NEW e, NEW n \in 0..MaxUpsets, NEW F, SoundKept(e, n, F), clock \in 0..MaxTime,
           NEW depth \in Nat, Calm => depth > 0, NEW up \in {Nobody} \cup Sched,
           NEW flow \in {Nobody} \cup Sched, NEW listed \in Lists, NEW from \in Nat \ {0},
           \A t \in Sched : listed[t] <= Len(e.objs[t]),
           Calm => listed = e.cur
    PROVE  /\ SoundKept(ChainOn(e, depth, up, flow, listed, from), n, F)
           /\ Around(e, ChainOn(e, depth, up, flow, listed, from))
           /\ Calm /\ Woken(e, clock) => Woken(ChainOn(e, depth, up, flow, listed, from), clock)
<1> DEFINE V == ChainWalks(e, n, F)
<1>1. e \in Engine
  BY DEF SoundKept, Sound
<1>2. [e |-> e, at |-> Nobody] \in V
  BY <1>1 DEF ChainWalks, Around, NoneStarts, LiveOf
<1>3. \A a \in V, s \in Sched : s >= from => ChainOne(depth, up, flow, listed, a, s) \in V
  BY <1>1, ChainOneKeeps
<1> HIDE DEF V
<1>4. PICK a \in V : ChainOn(e, depth, up, flow, listed, from) = a.e
  BY <1>2, <1>3, ChainWalkStays
<1> QED
  BY <1>4 DEF V, ChainWalks

-----------------------------------------------------------------------------
(* The end of a run.                                                       *)

\* The schedule lets go of a run that is over.
LEMMA UnlinkKeeps ==
    ASSUME NEW e, NEW n \in Nat, NEW F, SoundKept(e, n, F),
           NEW s \in Sched, e.cur[s] # 0, NEW r \in Runs, e.runs[r].state # "live"
    PROVE  LET w == Unlinked(Object(e, s), r)
           IN  /\ SoundKept(Write(e, s, e.cur[s], w), n, F)
               /\ WroteOver(e, Write(e, s, e.cur[s], w), s, e.cur[s], w)
<1> DEFINE o == Object(e, s)
           w == Unlinked(o, r)
<1>1. e \in Engine /\ Mine(e)
  BY DEF SoundKept, Sound
<1>2. PICK v \in 1..Len(e.objs[s]) : v = e.cur[s]
  BY CurCounts DEF SoundKept
<1>3. o = e.objs[s][v] /\ o \in Objects
  BY <1>1, <1>2, ObjectType DEF Object
<1>4. /\ w \in Objects /\ w.trigger = o.trigger /\ w.overlap = o.overlap
      /\ w.anchor = o.anchor /\ w.lastFired = o.lastFired /\ w.pending = o.pending
      /\ o.active # r => w.active = o.active
      /\ o.active = r => w.active = NoRun
  BY <1>3 DEF Objects, Unlinked
<1> HIDE DEF w, o
<1>5. \A q \in Runs : w.active = q => e.runs[q].by = s /\ e.runs[q].state \notin {"none", "parked"}
  <2>1. \A q \in Runs : o.active = q => e.runs[q].by = s /\ e.runs[q].state \notin {"none", "parked"}
    BY <1>1, <1>3 DEF Mine
  <2> QED
    BY <2>1, <1>4, Ranges
<1>6. ASSUME Calm
      PROVE  /\ v = e.cur[s] /\ w.trigger = e.objs[s][v].trigger /\ w.overlap = e.objs[s][v].overlap
             /\ \A q \in Runs : LiveOf(e, s, q) =>
                  w.active = q \/ (w.overlap = "queue" /\ Beside(e, s, q))
             /\ \A q \in Runs : w.active = q /\ e.runs[q].state = "live" => e.owner[q] = s
             /\ Paced(e, s, w, firedAt, clock, F)
  <2>1. Tracked(e) /\ Owned(e) /\ Cadence(e, firedAt, clock, F)
    BY <1>6 DEF SoundKept, Kept
  <2>2. \A q \in Runs : LiveOf(e, s, q) => q # r
    BY DEF LiveOf
  <2>3. \A q \in Runs : LiveOf(e, s, q) =>
          o.active = q \/ (o.overlap = "queue" /\ Beside(e, s, q))
    BY <2>1 DEF Tracked, o
  <2>4. \A q \in Runs : o.active = q /\ e.runs[q].state = "live" => e.owner[q] = s
    BY <2>1 DEF Owned, o
  <2>5. Paced(e, s, w, firedAt, clock, F)
    <3>1. Paced(e, s, o, firedAt, clock, F)
      BY <2>1 DEF Cadence, o
    <3> QED
      BY <3>1, <1>4 DEF Paced, Anchor
  <2> QED
    BY <2>2, <2>3, <2>4, <2>5, <1>2, <1>3, <1>4, Ranges, ZenonT(40)
<1>7. SoundKept(Write(e, s, v, w), n, F)
  BY <1>4, <1>5, <1>6, WriteKeeps
<1>8. WroteOver(e, Write(e, s, v, w), s, v, w)
  BY <1>1, <1>4, Written
<1> QED
  BY <1>2, <1>7, <1>8 DEF w, o

\* A run ends, or is disowned: the settling of it keeps the invariant.
LEMMA OnRunEndKeeps ==
    ASSUME NEW g, NEW n \in 0..MaxUpsets, NEW F, SoundKept(g, n, F), clock \in 0..MaxTime,
           NEW r \in Runs, NEW st \in {"done", "aborted"},
           g.runs[r].state \in {"live", "parked", "gone"},
           g.runs[r].state = "gone" => g.owner[r] = g.runs[r].by /\ g.owner[r] \in Sched,
           NEW e, e = [g EXCEPT !.runs[r].state = st]
    PROVE  /\ SoundKept(OnRunEnd(e, r), n, F) /\ Around(g, OnRunEnd(e, r))
           /\ Calm /\ Woken(g, clock) => Woken(OnRunEnd(e, r), clock)
<1> DEFINE x == [g.runs[r] EXCEPT !.state = st]
           s == e.owner[r]
           disowned == [e EXCEPT !.owner[r] = Nobody]
           done == SettledWith(disowned, s, r)
           settled == IF s = Nobody THEN e
                      ELSE IF s \notin Listed(e) THEN disowned
                      ELSE IF Object(e, s).pending THEN Tick(done) ELSE Arm(done)
           Fine(f) == /\ SoundKept(f, n, F) /\ Around(g, f)
                      /\ Calm /\ Woken(g, clock) => Woken(f, clock)
<1>1. g \in Engine /\ Mine(g) /\ Reported(g) /\ n \in Nat
  BY Ranges DEF SoundKept, Sound
<1>2. /\ g.runs \in [Runs -> RunRecords] /\ g.owner \in [Runs -> {Nobody} \cup Sched]
      /\ g.history \in [Runs -> {"none", "launched", "done", "failed"}]
      /\ g.runs[r] \in RunRecords /\ g.owner[r] \in {Nobody} \cup Sched
      /\ g.history[r] \in {"none", "launched", "done", "failed"}
  BY <1>1, Fields
<1>3. /\ x \in RunRecords /\ x.state = st /\ x.by = g.runs[r].by /\ x.depth = g.runs[r].depth
  BY <1>2 DEF RunRecords
<1>4. /\ e.runs = [g.runs EXCEPT ![r] = x] /\ e.owner = g.owner /\ e.history = g.history
      /\ e.objs = g.objs /\ e.file = g.file /\ e.cur = g.cur /\ e.firing = g.firing
      /\ e.timer = g.timer /\ e.openSince = g.openSince /\ e \in Engine
  <2>1. [g.runs EXCEPT ![r] = x] \in [Runs -> RunRecords]
    BY <1>2, <1>3
  <2>2. e = [g EXCEPT !.runs = [@ EXCEPT ![r] = x]]
    OBVIOUS
  <2> HIDE DEF x
  <2> QED
    BY <2>1, <2>2, <1>1 DEF Engine
<1>5. e.runs[r] = x /\ s = g.owner[r] /\ s \in {Nobody} \cup Sched
  BY <1>2, <1>4
<1>6. OnRunEnd(e, r) = IF st = "done"
                       THEN ChainOn(settled, x.depth + 1, x.by, x.by, settled.cur, 1)
                       ELSE settled
  <2>1. e.runs[r].state = st /\ e.runs[r].by = x.by /\ e.runs[r].depth = x.depth
    BY <1>3, <1>5
  <2> HIDE DEF x
  <2>2. OnRunEnd(e, r) =
          IF e.runs[r].state = "done"
          THEN ChainOn(settled, e.runs[r].depth + 1, e.runs[r].by, e.runs[r].by, settled.cur, 1)
          ELSE settled
    BY DEF OnRunEnd
  <2> HIDE DEF settled, done, disowned, s
  <2> QED
    BY <2>1, <2>2
<1> HIDE DEF x, s
\* The run is over; what is told of it is up to the case.
<1>7. ASSUME NEW f, NEW h \in {"none", "launched", "done", "failed"},
             RunChanged(g, f, r, x, Nobody, h),
             h = "launched" =>
                g.history[r] = "launched" /\ (x.by \notin Listed(g) \/ r \in unseen)
      PROVE  SoundKept(f, n, F) /\ Around(g, f)
  <2>1. Nobody \in {Nobody} \cup Sched
    OBVIOUS
  <2>2. g.runs[r].state # "none" /\ x.state # "none" /\ x.state # "parked" /\ x.state # "live"
    BY <1>3
  <2>3. x.by = g.runs[r].by /\ x.depth = g.runs[r].depth /\ x \in RunRecords
    BY <1>3
  <2>4. h = "launched" => /\ g.history[r] = "launched"
                          /\ x.by \in Listed(g) => x.state \in {"gone", "live"} \/ r \in unseen
    BY <1>7
  <2> HIDE DEF settled, done, disowned, Fine
  <2>5. SoundKept(f, n, F)
    BY <1>1, <1>7, <2>1, <2>2, <2>3, <2>4, RunKeeps
  <2>6. Around(g, f)
    <3>1. \A q \in Runs : f.runs[q].state = "live" => f.runs[q] = g.runs[q]
      BY <1>2, <1>3, <1>7 DEF RunChanged
    <3> QED
      BY <1>7, <3>1 DEF RunChanged, Around, NoneStarts, LiveOf
  <2> QED
    BY <2>5, <2>6
\* Nobody listed is told: then the run was not one that a listed schedule names,
\* or an earlier process launched it.
<1>8. ASSUME s \notin Listed(g)
      PROVE  x.by \notin Listed(g) \/ g.history[r] # "launched" \/ r \in unseen
  <2>1. g.history[r] = "launched" /\ g.runs[r].by \in Listed(g) =>
          g.owner[r] = g.runs[r].by \/ r \in unseen
    BY <1>1 DEF Reported
  <2> QED
    BY <2>1, <1>3, <1>5, <1>8
<1>9. ASSUME s \notin Listed(g), Calm, NEW f, RunChanged(g, f, r, x, Nobody, g.history[r]),
             Woken(g, clock)
      PROVE  Woken(f, clock)
  <2>1. /\ f.objs = g.objs /\ f.cur = g.cur /\ f.firing = g.firing /\ f.timer = g.timer
        /\ \A q \in Runs : q # r => f.runs[q] = g.runs[q]
    BY <1>2, <1>9 DEF RunChanged
  <2>2. ASSUME NEW t \in Listed(g) PROVE Object(g, t).active # r
    <3> SUFFICES ASSUME Object(g, t).active = r PROVE FALSE
      OBVIOUS
    <3>1. g.cur[t] \in 1..Len(g.objs[t]) /\ t \in Sched
      BY CurCounts DEF SoundKept, Listed
    <3>2. g.runs[r].by = t /\ g.runs[r].state \notin {"none", "parked"}
      BY <3>1, <1>1 DEF Mine, Object
    <3>3. g.runs[r].state = "live" => g.owner[r] = t
      <4>1. Owned(g) /\ g.cur[t] # 0
        BY <3>1, <1>9, Ranges DEF SoundKept, Kept
      <4> QED
        BY <3>1, <4>1 DEF Owned
    <3>4. g.owner[r] = t
      BY <3>2, <3>3
    <3> QED
      BY <3>4, <1>5, <1>9
  <2>3. ASSUME NEW t \in Listed(g) PROVE Over(f, Object(g, t)) => Over(g, Object(g, t))
    <3>1. g.cur[t] \in 1..Len(g.objs[t]) /\ t \in Sched
      BY CurCounts DEF SoundKept, Listed
    <3>2. Object(g, t) \in Objects
      BY <3>1, <1>1, ObjectType DEF Object
    <3>3. Object(g, t).active \in {NoRun} \cup Runs
      BY <3>2 DEF Objects
    <3> QED
      BY <3>3, <2>1, <2>2 DEF Over
  <2>4. /\ Listed(f) = Listed(g) /\ (Ticking(f) <=> Ticking(g))
        /\ \A t \in Sched : Object(f, t) = Object(g, t) /\ (Firing(f, t) <=> Firing(g, t))
    BY <2>1 DEF Listed, Ticking, Launching, Firing, Object
  <2> QED
    BY <2>1, <2>3, <2>4, <1>9 DEF Woken, Listed
<1>10. Listed(e) = Listed(g) /\ Object(e, s) = Object(g, s)
  BY <1>4 DEF Listed, Object
<1>11. Fine(settled)
  <2>1. CASE s = Nobody
    <3>1. RunChanged(g, e, r, x, Nobody, g.history[r])
      <4>1. /\ g.owner = [g.owner EXCEPT ![r] = Nobody]
            /\ g.history = [g.history EXCEPT ![r] = g.history[r]]
        BY <2>1, <1>2, <1>5
      <4> QED
        BY <4>1, <1>4 DEF RunChanged
    <3>2. s \notin Listed(g)
      BY <2>1, Ranges DEF Listed
    <3>3. settled = e
      BY <2>1
    <3> HIDE DEF settled, done, disowned
    <3>4. g.history[r] = "launched" => x.by \notin Listed(g) \/ r \in unseen
      BY <3>2, <1>8
    <3>5. SoundKept(e, n, F) /\ Around(g, e)
      BY <3>1, <3>4, <1>2, <1>7
    <3>6. Calm /\ Woken(g, clock) => Woken(e, clock)
      BY <3>1, <3>2, <1>9
    <3> QED
      BY <3>3, <3>5, <3>6
  <2>2. CASE s # Nobody /\ s \notin Listed(g)
    <3>1. RunChanged(g, disowned, r, x, Nobody, g.history[r])
      <4>1. [g.owner EXCEPT ![r] = Nobody] \in [Runs -> {Nobody} \cup Sched]
        BY <1>2
      <4>2. g.history = [g.history EXCEPT ![r] = g.history[r]]
        BY <1>2
      <4>3. disowned = [e EXCEPT !.owner = [g.owner EXCEPT ![r] = Nobody]]
        BY <1>4
      <4> HIDE DEF disowned
      <4> QED
        BY <4>1, <4>2, <4>3, <1>4 DEF RunChanged, Engine
    <3>2. settled = disowned
      BY <2>2, <1>10
    <3> HIDE DEF settled, done, disowned
    <3>3. g.history[r] = "launched" => x.by \notin Listed(g) \/ r \in unseen
      BY <2>2, <1>8
    <3>4. SoundKept(disowned, n, F) /\ Around(g, disowned)
      BY <3>1, <3>3, <1>2, <1>7
    <3>5. Calm /\ Woken(g, clock) => Woken(disowned, clock)
      BY <2>2, <3>1, <1>9
    <3> QED
      BY <3>2, <3>4, <3>5
  <2>3. CASE s \in Listed(g)
    <3> DEFINE h == IF st = "done" THEN "done" ELSE "failed"
               d == [disowned EXCEPT !.history[r] = h]
    <3>1. /\ disowned.runs = e.runs /\ disowned.cur = g.cur /\ disowned.objs = g.objs
      BY <1>4 DEF Engine
    <3>2. RunChanged(g, d, r, x, Nobody, h)
      <4>1. /\ [g.owner EXCEPT ![r] = Nobody] \in [Runs -> {Nobody} \cup Sched]
            /\ [g.history EXCEPT ![r] = h] \in [Runs -> {"none", "launched", "done", "failed"}]
        BY <1>2
      <4>2. d = [e EXCEPT !.owner = [g.owner EXCEPT ![r] = Nobody],
                          !.history = [g.history EXCEPT ![r] = h]]
        BY <1>4 DEF Engine
      <4> HIDE DEF d, disowned, h
      <4> QED
        BY <4>1, <4>2, <1>4 DEF RunChanged, Engine
    <3>3. SoundKept(d, n, F) /\ Around(g, d)
      <4>1. h \in {"none", "launched", "done", "failed"} /\ h # "launched"
        OBVIOUS
      <4> HIDE DEF h, d, disowned, settled, done, Fine
      <4> QED
        BY <3>2, <4>1, <1>7
    <3>4. s \in Sched /\ d.cur[s] # 0 /\ d.runs[r].state # "live"
          /\ d.cur = g.cur /\ d.objs = g.objs
      <4>1. s \in Sched /\ g.cur[s] # 0
        BY <2>3 DEF Listed
      <4> HIDE DEF d
      <4> QED
        BY <3>2, <4>1, <1>2, <1>3 DEF RunChanged
    <3> DEFINE w == Unlinked(Object(d, s), r)
    <3>5. done = Write(d, s, d.cur[s], w)
      <4>1. Object(disowned, s) = Object(d, s) /\ disowned.cur = d.cur
        BY <3>1, <3>4 DEF Object
      <4>2. disowned.runs[r].state = st
        BY <3>1, <1>3, <1>5
      <4> QED
        BY <4>1, <4>2 DEF SettledWith
    <3> HIDE DEF d, h, disowned
    <3>6. SoundKept(done, n, F) /\ WroteOver(d, done, s, d.cur[s], w)
      <4> HIDE DEF done, settled
      <4>1. SoundKept(d, n, F) /\ n \in Nat
        BY <3>3, <1>1
      <4> QED
        BY <3>4, <3>5, <4>1, UnlinkKeeps
    <3>7. Around(g, done)
      <4> HIDE DEF done, w, settled
      <4> QED
        BY <3>3, <3>6, AroundWrites
    <3>8. settled = IF Object(e, s).pending THEN Tick(done) ELSE Arm(done)
      BY <2>3, <1>10, Ranges DEF Listed
    <3> HIDE DEF done, settled, w
    <3>9. CASE settled = Tick(done)
      <4>1. SoundKept(Tick(done), n, F) /\ Around(done, Tick(done)) /\ Woken(Tick(done), clock)
        BY <3>6, TickKeeps
      <4>2. Around(g, Tick(done))
        BY <3>7, <4>1 DEF Around, Firing, NoneStarts, LiveOf
      <4> QED
        BY <3>9, <4>1, <4>2
    <3>10. CASE settled = Arm(done)
      <4>1. done \in Engine
        BY <3>6 DEF SoundKept, Sound
      <4>2. TimerChanged(done, Arm(done)) /\ Woken(Arm(done), clock)
        BY <4>1, Armed
      <4>3. SoundKept(Arm(done), n, F)
        BY <3>6, <4>2, <1>1, TimerKeeps
      <4>4. Around(g, Arm(done))
        BY <3>7, <4>2 DEF Around, TimerChanged, NoneStarts, LiveOf
      <4> QED
        BY <3>10, <4>2, <4>3, <4>4
    <3> QED
      BY <3>8, <3>9, <3>10
  <2> HIDE DEF settled, done, disowned, Fine
  <2> QED
    BY <2>1, <2>2, <2>3
<1> HIDE DEF settled, done, disowned
\* A success fires the chains.
<1>12. CASE st = "done"
  <2> DEFINE f == ChainOn(settled, x.depth + 1, x.by, x.by, settled.cur, 1)
  <2>1. /\ x.depth + 1 \in Nat /\ x.depth + 1 > 0 /\ x.by \in {Nobody} \cup Sched
        /\ 1 \in Nat \ {0}
    <3>1. x.depth \in 0..MaxChain /\ x.by \in {Nobody} \cup Sched
      BY <1>3 DEF RunRecords
    <3>2. x.depth \in Nat
      BY <3>1, Ranges
    <3> QED
      BY <3>1, <3>2
  <2>2. settled.cur \in Lists /\ \A t \in Sched : settled.cur[t] <= Len(settled.objs[t])
    BY <1>11, CurCounts DEF SoundKept
  <2>3. /\ SoundKept(f, n, F) /\ Around(settled, f)
        /\ Calm /\ Woken(settled, clock) => Woken(f, clock)
    BY <1>11, <2>1, <2>2, ChainOnKeeps
  <2>4. OnRunEnd(e, r) = f
    BY <1>6, <1>12
  <2> HIDE DEF f
  <2>5. Around(g, f)
    BY <1>11, <2>3 DEF Around, Firing, NoneStarts, LiveOf
  <2> QED
    BY <1>11, <2>3, <2>4, <2>5
<1>13. CASE st = "aborted"
  BY <1>6, <1>11, <1>13
<1> QED
  BY <1>12, <1>13


-----------------------------------------------------------------------------
(* The return of a launch.                                                 *)

\* The least run not yet launched is: gone before anything is made of it, or
\* failed.
LEMMA MintKeeps ==
    ASSUME NEW e, NEW n, NEW F, SoundKept(e, n, F), NEW s \in Sched, Firing(e, s),
           NEW r \in Runs, e.runs[r].state = "none",
           \A q \in Runs : e.runs[q].state = "none" => r <= q,
           NEW x \in RunRecords, NEW p \in {Nobody} \cup Sched,
           NEW h \in {"none", "launched", "done", "failed"},
           x.by = s, x.state \in {"gone", "failed"},
           h = "launched" => x.state = "gone" \/ e.history[r] = "launched",
           NEW f, RunChanged(e, f, r, x, p, h)
    PROVE  SoundKept(f, n, F)
<1>1. e \in Engine /\ Counted(e, n) /\ Mine(e) /\ Reported(e)
  BY DEF SoundKept, Sound
<1>2. /\ f \in Engine /\ f.objs = e.objs /\ f.file = e.file /\ f.cur = e.cur
      /\ f.firing = e.firing
  BY DEF RunChanged
<1>3. /\ e.runs \in [Runs -> RunRecords] /\ e.owner \in [Runs -> {Nobody} \cup Sched]
      /\ e.history \in [Runs -> {"none", "launched", "done", "failed"}]
  BY <1>1, Fields
<1>4. /\ f.runs[r] = x /\ f.owner[r] = p /\ f.history[r] = h
      /\ \A q \in Runs : q # r =>
           f.runs[q] = e.runs[q] /\ f.owner[q] = e.owner[q] /\ f.history[q] = e.history[q]
  BY <1>3 DEF RunChanged
<1>5. Counted(f, n)
  BY <1>1, <1>2 DEF Counted, Firing
<1>6. Mine(f)
  <2> SUFFICES ASSUME NEW t \in Sched, NEW u \in 1..Len(e.objs[t]), NEW q \in Runs,
                      e.objs[t][u].active = q
               PROVE  f.runs[q].by = t /\ f.runs[q].state \notin {"none", "parked"}
    BY <1>2 DEF Mine
  <2>1. e.runs[q].by = t /\ e.runs[q].state \notin {"none", "parked"}
    BY <1>1 DEF Mine
  <2> QED
    BY <2>1, <1>4
<1>7. Reported(f)
  <2>1. e.history[r] # "launched"
    BY <1>1 DEF Reported
  <2> SUFFICES ASSUME NEW q \in Runs, f.history[q] = "launched"
               PROVE  /\ f.runs[q].state # "none"
                      /\ f.runs[q].by \in Listed(e) =>
                           \/ f.runs[q].state = "gone" \/ q \in unseen
                           \/ f.runs[q].state = "live" /\ f.owner[q] = f.runs[q].by
    BY <1>2 DEF Reported, Listed
  <2>2. CASE q = r
    BY <2>1, <2>2, <1>4
  <2>3. CASE q # r
    BY <2>3, <1>1, <1>4 DEF Reported
  <2> QED
    BY <2>2, <2>3
<1>8. ASSUME Calm PROVE Kept(f, firedAt, clock, F)
  <2>1. Kept(e, firedAt, clock, F)
    BY <1>8 DEF SoundKept
  <2>2. \A t \in Sched : Object(f, t) = Object(e, t) /\ (Firing(f, t) <=> Firing(e, t))
    BY <1>2 DEF Object, Firing
  <2>3. \A t \in Sched, q \in Runs : LiveOf(f, t, q) => LiveOf(e, t, q)
    BY <1>4 DEF LiveOf
  <2>4. Numbered(e)
    BY <2>1 DEF Kept
  <2>5. \A t \in Sched, q \in Runs : Beside(e, t, q) => Beside(f, t, q)
    <3>1. e.runs[r].by = Nobody
      BY <2>4 DEF Numbered
    <3>2. \A t \in Sched, q \in Runs : e.runs[q].by = t => q # r
      BY <3>1, Ranges
    <3> QED
      BY <3>2, <1>4 DEF Beside
  <2>6. Filed(f) /\ Held(f)
    BY <2>1, <2>2, <1>2 DEF Kept, Filed, Held
  <2>7. Tracked(f)
    BY <2>1, <2>2, <2>3, <2>5, <1>2 DEF Kept, Tracked
  <2>8. Clear(f)
    BY <2>1, <2>2, <2>3, <2>5, <1>2 DEF Kept, Clear
  <2>9. Numbered(f)
    <3> SUFFICES ASSUME NEW q \in Runs, f.runs[q].state = "none"
                 PROVE  /\ f.runs[q].by = Nobody
                        /\ \A y \in Runs : q < y => f.runs[y].state = "none"
      BY DEF Numbered
    <3>1. q # r /\ e.runs[q].state = "none"
      BY <1>4
    <3>2. r < q
      BY <3>1, Ranges
    <3>3. \A y \in Runs : q < y => y # r
      BY <3>2, Ranges
    <3> QED
      BY <3>1, <3>3, <2>4, <1>4 DEF Numbered
  <2>10. Owned(f)
    <3>1. \A q \in Runs : f.runs[q].state = "live" =>
            e.runs[q].state = "live" /\ f.owner[q] = e.owner[q]
      BY <1>4
    <3> QED
      BY <3>1, <2>1, <2>2, <1>2 DEF Kept, Owned
  <2>11. Cadence(f, firedAt, clock, F)
    <3>1. \A t \in Sched : Paced(f, t, Object(e, t), firedAt, clock, F)
            <=> Paced(e, t, Object(e, t), firedAt, clock, F)
      BY <2>2, <1>2 DEF Paced
    <3> QED
      BY <3>1, <2>1, <2>2 DEF Kept, Cadence
  <2> QED
    BY <2>6, <2>7, <2>8, <2>9, <2>10, <2>11 DEF Kept
<1> QED
  BY <1>2, <1>5, <1>6, <1>7, <1>8 DEF SoundKept, Sound

\* The object a launch holds.
LEMMA HeldObject ==
    ASSUME NEW e, NEW n, NEW F, SoundKept(e, n, F), NEW s \in Sched, Firing(e, s)
    PROVE  /\ e.firing[s] \in Fires /\ e.firing[s].obj \in 1..Len(e.objs[s])
           /\ \A t \in Sched : e.firing[s].listed[t] <= Len(e.objs[t])
           /\ Calm => e.firing[s].obj = e.cur[s] /\ e.firing[s].listed = e.cur
<1>1. e \in Engine /\ Counted(e, n)
  BY DEF SoundKept, Sound
<1>2. e.firing \in [Sched -> Fires \cup {NoFire}] /\ e.objs \in [Sched -> Seq(Objects)]
  BY <1>1, Fields
<1>3. e.firing[s] \in Fires
  BY <1>2 DEF Firing
<1>4. e.firing[s].obj \in 1..(MaxUpsets + 1) /\ e.firing[s].obj <= Len(e.objs[s])
      /\ Len(e.objs[s]) \in Nat
  BY <1>1, <1>2, <1>3 DEF Fires, Counted
<1>5. e.firing[s].obj \in 1..Len(e.objs[s])
  BY <1>4, Ranges
<1>6. \A t \in Sched : e.firing[s].listed[t] <= Len(e.objs[t])
  BY <1>1 DEF Counted
<1>7. Calm => e.firing[s].obj = e.cur[s] /\ e.firing[s].listed = e.cur
  BY DEF SoundKept, Kept, Held
<1> QED
  BY <1>3, <1>5, <1>6, <1>7

\* What was launched becomes the run of its object.
LEMMA LinkKeeps ==
    ASSUME NEW e, NEW n \in Nat, NEW F, SoundKept(e, n, F), NEW s \in Sched, Firing(e, s),
           NEW r \in Runs, e.runs[r].state = "gone", e.runs[r].by = s,
           e.runs[r].depth = e.firing[s].depth,
           Calm => \A q \in Runs : e.runs[q].state = "live" => q < r,
           NEW o, o = [e.objs[s][e.firing[s].obj] EXCEPT !.active = r]
    PROVE  /\ o \in Objects
           /\ WroteOver(e, Write(e, s, e.firing[s].obj, o), s, e.firing[s].obj, o)
           /\ SoundKept(Write(e, s, e.firing[s].obj, o), n, F)
<1>1. PICK v \in 1..Len(e.objs[s]) : v = e.firing[s].obj
  BY HeldObject
<1>2. e \in Engine
  BY DEF SoundKept, Sound
<1>3. e.objs[s][v] \in Objects
  BY <1>1, <1>2, ObjectType
<1> DEFINE b == e.objs[s][v]
<1>4. /\ o \in Objects /\ o.active = r /\ o.trigger = b.trigger /\ o.overlap = b.overlap
      /\ o.anchor = b.anchor /\ o.lastFired = b.lastFired /\ o.pending = b.pending
  BY <1>1, <1>3 DEF Objects
<1>5. ASSUME Calm
      PROVE  /\ v = e.cur[s]
             /\ \A q \in Runs : LiveOf(e, s, q) =>
                  o.active = q \/ (o.overlap = "queue" /\ Beside(e, s, q))
             /\ Paced(e, s, o, firedAt, clock, F)
  <2>1. Kept(e, firedAt, clock, F)
    BY <1>5 DEF SoundKept
  <2>2. v = e.cur[s] /\ Object(e, s) = b
    BY <1>1, <1>5, HeldObject DEF Object
  <2> HIDE DEF b
  <2>3. ASSUME NEW q \in Runs, LiveOf(e, s, q) PROVE o.overlap = "queue" /\ Beside(e, s, q)
    <3>1. b.overlap = "queue" /\ (e.firing[s].by = "chain" \/ Beside(e, s, q))
      BY <2>1, <2>2, <2>3 DEF Kept, Clear
    <3>2. CASE e.firing[s].by = "chain"
      <4>1. e.firing[s].depth > 0
        BY <3>2, <2>1 DEF Kept, Held
      <4>2. r > q
        BY <2>3, <1>5, Ranges DEF LiveOf
      <4> QED
        BY <3>1, <4>1, <4>2, <1>4 DEF Beside
    <3> QED
      BY <3>1, <3>2, <1>4
  <2>4. Paced(e, s, o, firedAt, clock, F)
    <3>1. Paced(e, s, b, firedAt, clock, F)
      BY <2>1, <2>2 DEF Kept, Cadence
    <3> QED
      BY <3>1, <1>4 DEF Paced, Anchor
  <2> QED
    BY <2>2, <2>3, <2>4
<1>6. \A q \in Runs : o.active = q =>
        e.runs[q].by = s /\ e.runs[q].state = "gone"
  BY <1>4
<1>7. SoundKept(Write(e, s, v, o), n, F)
  <2>1. o \in Objects
    BY <1>4
  <2>2. \A q \in Runs : o.active = q =>
          e.runs[q].by = s /\ e.runs[q].state \notin {"none", "parked"}
    BY <1>6
  <2>3. Calm => /\ v = e.cur[s]
                /\ o.trigger = e.objs[s][v].trigger /\ o.overlap = e.objs[s][v].overlap
                /\ \A q \in Runs : LiveOf(e, s, q) =>
                     o.active = q \/ (o.overlap = "queue" /\ Beside(e, s, q))
                /\ \A q \in Runs : o.active = q /\ e.runs[q].state = "live" => e.owner[q] = s
                /\ Paced(e, s, o, firedAt, clock, F)
    BY <1>4, <1>5, <1>6
  <2> QED
    BY <2>1, <2>2, <2>3, WriteKeeps, ZenonT(40)
<1>8. WroteOver(e, Write(e, s, v, o), s, v, o)
  BY <1>2, <1>4, Written
<1> QED
  BY <1>1, <1>4, <1>7, <1>8

\* A run goes once its launch is over.
LEMMA GoesKeeps ==
    ASSUME NEW e, NEW n \in Nat, NEW F, SoundKept(e, n, F), NEW s \in Sched, ~Firing(e, s),
           NEW r \in Runs, e.runs[r].state = "gone", e.runs[r].by = s, e.owner[r] = s,
           NEW x \in RunRecords, x.by = s, x.depth = e.runs[r].depth, x.state = "live",
           Calm => Object(e, s).active = r,
           NEW f, RunChanged(e, f, r, x, s, "launched")
    PROVE  SoundKept(f, n, F)
<1>1. e \in Engine /\ Counted(e, n) /\ Mine(e) /\ Reported(e)
  BY DEF SoundKept, Sound
<1>2. /\ f \in Engine /\ f.objs = e.objs /\ f.file = e.file /\ f.cur = e.cur
      /\ f.firing = e.firing
  BY DEF RunChanged
<1>3. /\ e.runs \in [Runs -> RunRecords] /\ e.owner \in [Runs -> {Nobody} \cup Sched]
      /\ e.history \in [Runs -> {"none", "launched", "done", "failed"}]
  BY <1>1, Fields
<1>4. /\ f.runs[r] = x /\ f.owner[r] = s
      /\ \A q \in Runs : q # r =>
           f.runs[q] = e.runs[q] /\ f.owner[q] = e.owner[q] /\ f.history[q] = e.history[q]
  BY <1>3 DEF RunChanged
<1>5. Counted(f, n)
  BY <1>1, <1>2 DEF Counted, Firing
<1>6. Mine(f)
  <2> SUFFICES ASSUME NEW t \in Sched, NEW u \in 1..Len(e.objs[t]), NEW q \in Runs,
                      e.objs[t][u].active = q
               PROVE  f.runs[q].by = t /\ f.runs[q].state \notin {"none", "parked"}
    BY <1>2 DEF Mine
  <2>1. e.runs[q].by = t /\ e.runs[q].state \notin {"none", "parked"}
    BY <1>1 DEF Mine
  <2> QED
    BY <2>1, <1>4
<1>7. Reported(f)
  <2> SUFFICES ASSUME NEW q \in Runs, f.history[q] = "launched"
               PROVE  /\ f.runs[q].state # "none"
                      /\ f.runs[q].by \in Listed(e) =>
                           \/ f.runs[q].state = "gone" \/ q \in unseen
                           \/ f.runs[q].state = "live" /\ f.owner[q] = f.runs[q].by
    BY <1>2 DEF Reported, Listed
  <2>1. CASE q = r
    BY <2>1, <1>4
  <2>2. CASE q # r
    BY <2>2, <1>1, <1>4 DEF Reported
  <2> QED
    BY <2>1, <2>2
<1>8. ASSUME Calm PROVE Kept(f, firedAt, clock, F)
  <2>1. Kept(e, firedAt, clock, F)
    BY <1>8 DEF SoundKept
  <2>2. \A t \in Sched : Object(f, t) = Object(e, t) /\ (Firing(f, t) <=> Firing(e, t))
    BY <1>2 DEF Object, Firing
  <2>3. \A t \in Sched, q \in Runs : LiveOf(f, t, q) => LiveOf(e, t, q) \/ (t = s /\ q = r)
    BY <1>4 DEF LiveOf
  <2>4. \A t \in Sched, q \in Runs : Beside(e, t, q) => Beside(f, t, q)
    <3>1. \A q \in Runs : f.runs[q].by = e.runs[q].by /\ f.runs[q].depth = e.runs[q].depth
      BY <1>4
    <3> QED
      BY <3>1 DEF Beside
  <2>5. Filed(f) /\ Held(f)
    BY <2>1, <2>2, <1>2 DEF Kept, Filed, Held
  <2>6. Tracked(f)
    <3> SUFFICES ASSUME NEW t \in Sched, NEW q \in Runs, e.cur[t] # 0, LiveOf(f, t, q)
                 PROVE  \/ Object(e, t).active = q
                        \/ Object(e, t).overlap = "queue" /\ Beside(f, t, q)
      BY <2>2, <1>2 DEF Tracked
    <3>1. CASE LiveOf(e, t, q)
      BY <3>1, <2>1, <2>4 DEF Kept, Tracked
    <3>2. CASE t = s /\ q = r
      BY <3>2, <1>8
    <3> QED
      BY <3>1, <3>2, <2>3
  <2>7. Clear(f)
    <3> SUFFICES ASSUME NEW t \in Sched, NEW q \in Runs, Firing(e, t), LiveOf(f, t, q)
                 PROVE  /\ Object(e, t).overlap = "queue"
                        /\ e.firing[t].by = "chain" \/ Beside(f, t, q)
      BY <2>2, <1>2 DEF Clear
    <3>1. LiveOf(e, t, q)
      BY <2>3
    <3> QED
      BY <3>1, <2>1, <2>4 DEF Kept, Clear
  <2>8. Numbered(f)
    <3>1. \A q \in Runs : /\ f.runs[q].state = "none" <=> e.runs[q].state = "none"
                          /\ f.runs[q].by = e.runs[q].by
      BY <1>4
    <3> QED
      BY <3>1, <2>1 DEF Kept, Numbered
  <2>9. Owned(f)
    <3> SUFFICES ASSUME NEW t \in Sched, NEW q \in Runs, e.cur[t] # 0, Object(e, t).active = q,
                        f.runs[q].state = "live"
                 PROVE  f.owner[q] = t
      BY <2>2, <1>2 DEF Owned
    <3>1. CASE q = r
      <4>1. e.cur[t] \in 1..Len(e.objs[t])
        BY CurCounts DEF SoundKept
      <4>2. e.runs[r].by = t
        BY <3>1, <4>1, <1>1 DEF Mine, Object
      <4> QED
        BY <3>1, <4>2, <1>4
    <3>2. CASE q # r
      BY <3>2, <2>1, <1>4 DEF Kept, Owned
    <3> QED
      BY <3>1, <3>2
  <2>10. Cadence(f, firedAt, clock, F)
    <3>1. \A t \in Sched : Paced(f, t, Object(e, t), firedAt, clock, F)
            <=> Paced(e, t, Object(e, t), firedAt, clock, F)
      BY <2>2, <1>2 DEF Paced
    <3> QED
      BY <3>1, <2>1, <2>2 DEF Kept, Cadence
  <2> QED
    BY <2>5, <2>6, <2>7, <2>8, <2>9, <2>10 DEF Kept
<1> QED
  BY <1>2, <1>5, <1>6, <1>7, <1>8 DEF SoundKept, Sound

\* No run is over for being launched, for going or for being deleted.
LEMMA RunWakes ==
    ASSUME NEW e, NEW n, Sound(e, n), NEW r \in Runs, NEW x, x.state \notin {"done", "aborted"},
           NEW p, NEW h, NEW f, RunChanged(e, f, r, x, p, h), Woken(e, clock)
    PROVE  Woken(f, clock)
<1>1. /\ f.objs = e.objs /\ f.cur = e.cur /\ f.firing = e.firing /\ f.timer = e.timer
      /\ f.runs[r] = x /\ \A q \in Runs : q # r => f.runs[q] = e.runs[q]
  <2>1. e.runs \in [Runs -> RunRecords]
    BY Fields DEF Sound
  <2> QED
    BY <2>1 DEF RunChanged
<1>2. /\ Listed(f) = Listed(e) /\ (Ticking(f) <=> Ticking(e))
      /\ \A t \in Sched : Object(f, t) = Object(e, t) /\ (Firing(f, t) <=> Firing(e, t))
  BY <1>1 DEF Listed, Ticking, Launching, Firing, Object
<1>3. ASSUME NEW t \in Listed(e), Over(f, Object(e, t)) PROVE Over(e, Object(e, t))
  <2>1. e.cur[t] \in 1..Len(e.objs[t]) /\ t \in Sched /\ e \in Engine
    BY CurCounts DEF Listed
  <2>2. Object(e, t) \in Objects
    BY <2>1, ObjectType DEF Object
  <2>3. Object(e, t).active \in {NoRun} \cup Runs
    BY <2>2 DEF Objects
  <2> QED
    BY <2>3, <1>1, <1>3 DEF Over
<1> QED
  BY <1>1, <1>2, <1>3 DEF Woken, Listed

\* The object of a chain may change: it is not on the clock.
LEMMA LinkWakes ==
    ASSUME NEW e, NEW n, Sound(e, n), NEW s \in Sched, NEW v, v = e.cur[s],
           NEW o, o.trigger = "chain", NEW f, WroteOver(e, f, s, v, o), Woken(e, clock)
    PROVE  Woken(f, clock)
<1>1. /\ f.cur = e.cur /\ f.firing = e.firing /\ f.timer = e.timer /\ f.runs = e.runs
      /\ f.objs[s][v] = o
  BY DEF WroteOver
<1>2. Listed(f) = Listed(e) /\ (Ticking(f) <=> Ticking(e))
  BY <1>1 DEF Listed, Ticking, Launching, Firing
<1>3. ASSUME NEW t \in Listed(e), t # s PROVE Object(f, t) = Object(e, t)
  <2>1. e.cur[t] \in 1..Len(e.objs[t]) /\ t \in Sched
    BY CurCounts DEF Listed
  <2> QED
    BY <2>1, <1>1, <1>3 DEF Object, WroteOver
<1>4. ~Timed(Object(f, s))
  BY <1>1 DEF Timed, Object
<1>5. ASSUME ~Ticking(e), NEW t \in Listed(e), Timed(Object(f, t))
      PROVE  /\ f.timer \in 0..(clock + MaxSleep)
             /\ Object(f, t).pending /\ Over(f, Object(f, t)) /\ ~Firing(f, t) => f.timer <= clock
  <2>1. t # s
    BY <1>4, <1>5
  <2>2. Object(f, t) = Object(e, t)
    BY <2>1, <1>3
  <2> QED
    BY <2>2, <1>1, <1>5 DEF Woken, Over, Firing
<1> QED
  BY <1>2, <1>5 DEF Woken

\* Nor does its launch keep anything waiting.
LEMMA FreeWakes ==
    ASSUME NEW e, NEW n, NEW F, SoundKept(e, n, F), Calm, NEW s \in Sched,
           Firing(e, s), e.firing[s].by = "chain", NEW f, FiringChanged(e, f, s, NoFire),
           Woken(e, clock)
    PROVE  Woken(f, clock)
<1>1. e.firing \in [Sched -> Fires \cup {NoFire}]
  BY Fields DEF SoundKept, Sound
<1>2. /\ f.objs = e.objs /\ f.cur = e.cur /\ f.timer = e.timer /\ f.runs = e.runs
      /\ \A t \in Sched : t # s => f.firing[t] = e.firing[t]
  BY <1>1 DEF FiringChanged
<1>3. Listed(f) = Listed(e) /\ \A t \in Sched : Object(f, t) = Object(e, t)
  BY <1>2 DEF Listed, Object
<1>4. ASSUME Ticking(e) PROVE Ticking(f)
  <2>1. PICK t \in Sched : Firing(e, t) /\ e.firing[t].by = "tick"
    BY <1>4 DEF Ticking, Launching
  <2>2. t # s
    BY <2>1
  <2> QED
    BY <2>1, <2>2, <1>2 DEF Ticking, Launching, Firing
<1>5. ~Timed(Object(e, s))
  BY DEF SoundKept, Kept, Held, Timed
<1>6. ASSUME ~Ticking(e), NEW t \in Listed(e), Timed(Object(e, t))
      PROVE  /\ f.timer \in 0..(clock + MaxSleep)
             /\ Object(e, t).pending /\ Over(f, Object(e, t)) /\ ~Firing(f, t) => f.timer <= clock
  <2>1. t # s /\ t \in Sched
    BY <1>5, <1>6 DEF Listed
  <2> QED
    BY <2>1, <1>2, <1>6 DEF Woken, Over, Firing
<1> QED
  BY <1>3, <1>4, <1>6 DEF Woken, Listed

\* Two engines with the same fields are one.
LEMMA SameEngine ==
    ASSUME NEW e \in Engine, NEW f \in Engine, e.objs = f.objs, e.cur = f.cur, e.file = f.file,
           e.firing = f.firing, e.timer = f.timer, e.openSince = f.openSince,
           e.owner = f.owner, e.history = f.history, e.runs = f.runs
    PROVE  e = f
<1>1. e = [objs |-> e.objs, cur |-> e.cur, file |-> e.file, firing |-> e.firing,
           timer |-> e.timer, openSince |-> e.openSince, owner |-> e.owner,
           history |-> e.history, runs |-> e.runs]
  BY Fields
<1>2. f = [objs |-> f.objs, cur |-> f.cur, file |-> f.file, firing |-> f.firing,
           timer |-> f.timer, openSince |-> f.openSince, owner |-> f.owner,
           history |-> f.history, runs |-> f.runs]
  BY Fields
<1> QED
  BY <1>1, <1>2

\* A returned launch, before its caller goes on.
Freed(e, s, r, st) ==
    LET f == e.firing[s]
        minted == [e EXCEPT !.runs[r] = [by |-> s, depth |-> f.depth, state |-> st]]
        started == Write([minted EXCEPT !.owner[r] = s, !.history[r] = "launched"],
                         s, f.obj, LinkTo(e, s, r))
        returned == IF st = "failed" THEN Write(minted, s, f.obj, e.objs[s][f.obj])
                    ELSE IF st = "aborted" THEN OnRunEnd(started, r) ELSE started
    IN  [returned EXCEPT !.firing[s] = NoFire]

Lands(e, g, n, F, s, r) ==
    /\ SoundKept(g, n, F) /\ g.cur = e.cur
    /\ \A t \in Sched, q \in Runs : LiveOf(g, t, q) => LiveOf(e, t, q) \/ (t = s /\ q = r)
    /\ \A t \in Sched : Len(g.objs[t]) = Len(e.objs[t])
    /\ Calm /\ Woken(e, clock) /\ e.firing[s].by = "chain" => Woken(g, clock)

\* A launch that is taken out of flight.
LEMMA FreeLands ==
    ASSUME NEW e, NEW n \in Nat, NEW F, NEW s \in Sched, NEW g, Around(e, g), Firing(e, s),
           SoundKept(g, n, F),
           Calm /\ Woken(e, clock) /\ e.firing[s].by = "chain" => Woken(g, clock)
    PROVE  Lands(e, [g EXCEPT !.firing[s] = NoFire], n, F, s, NoRun)
<1> DEFINE f == [g EXCEPT !.firing[s] = NoFire]
<1>1. FiringChanged(g, f, s, NoFire)
  BY FiringSet DEF SoundKept, Sound
<1> HIDE DEF f
<1>2. Firing(g, s) /\ g.firing[s] = e.firing[s]
  BY DEF Around, Firing, NoneStarts, LiveOf
<1>3. SoundKept(f, n, F)
  BY <1>1, FreeKeeps
<1>4. Calm /\ Woken(e, clock) /\ e.firing[s].by = "chain" => Woken(f, clock)
  BY <1>1, <1>2, FreeWakes
<1>5. /\ f.cur = e.cur /\ \A t \in Sched : Len(f.objs[t]) = Len(e.objs[t])
      /\ \A t \in Sched, q \in Runs : LiveOf(f, t, q) => LiveOf(e, t, q)
  BY <1>1 DEF FiringChanged, Around, NoneStarts, LiveOf
<1> QED
  BY <1>3, <1>4, <1>5 DEF Lands, f

LEMMA FreedKeeps ==
    ASSUME NEW e, NEW n \in 0..MaxUpsets, NEW F, SoundKept(e, n, F), clock \in 0..MaxTime,
           NEW s \in Sched, Firing(e, s), NEW r \in Runs, e.runs[r].state = "none",
           \A q \in Runs : e.runs[q].state = "none" => r <= q,
           NEW st \in {"live", "aborted", "failed"}
    PROVE  Lands(e, Freed(e, s, r, st), n, F, s, IF st = "live" THEN r ELSE NoRun)
<1> DEFINE f == e.firing[s]
           Rec(x) == [by |-> s, depth |-> f.depth, state |-> x]
           m(x) == [e EXCEPT !.runs[r] = Rec(x), !.owner[r] = s, !.history[r] = "launched"]
           o == [e.objs[s][f.obj] EXCEPT !.active = r]
           w(x) == Write(m(x), s, f.obj, o)
           All == {"live", "aborted", "gone", "failed"}
<1>1. e \in Engine /\ Mine(e) /\ Reported(e) /\ Sound(e, n) /\ n \in Nat
  BY Ranges DEF SoundKept, Sound
<1>2. f \in Fires /\ f.obj \in 1..Len(e.objs[s]) /\ (Calm => f.obj = e.cur[s])
  BY HeldObject
<1>3. \A x \in All : Rec(x) \in RunRecords
  <2>1. f.depth \in 0..MaxChain
    BY <1>2 DEF Fires
  <2> HIDE DEF f
  <2> QED
    BY <2>1 DEF RunRecords
<1>4. /\ \A x \in All : Rec(x).by = s /\ Rec(x).depth = f.depth /\ Rec(x).state = x
  OBVIOUS
<1> HIDE DEF f, Rec
<1>5. ASSUME NEW x \in All PROVE RunChanged(e, m(x), r, Rec(x), s, "launched")
  <2>1. s \in {Nobody} \cup Sched /\ "launched" \in {"none", "launched", "done", "failed"}
    OBVIOUS
  <2> QED
    BY <2>1, <1>1, <1>3, RunSet
<1>6. e.runs \in [Runs -> RunRecords] /\ e.objs \in [Sched -> Seq(Objects)]
      /\ e.owner \in [Runs -> {Nobody} \cup Sched]
      /\ e.history \in [Runs -> {"none", "launched", "done", "failed"}]
  BY <1>1, Fields
<1>7. ASSUME Calm, f.by = "chain"
      PROVE  e.objs[s][f.obj].trigger = "chain"
  BY <1>2, <1>7 DEF SoundKept, Kept, Held, Object, f
<1>8. e.objs[s][f.obj] \in Objects
  BY <1>1, <1>2, ObjectType
<1>9. CASE st = "failed"
  <2> DEFINE k == [e EXCEPT !.runs[r] = Rec("failed")]
             b == e.objs[s][f.obj]
             g == Write(k, s, f.obj, b)
  <2>1. RunChanged(e, k, r, Rec("failed"), e.owner[r], e.history[r])
    <3>1. [e.runs EXCEPT ![r] = Rec("failed")] \in [Runs -> RunRecords]
      BY <1>3, <1>6
    <3>2. /\ e.owner = [e.owner EXCEPT ![r] = e.owner[r]]
          /\ e.history = [e.history EXCEPT ![r] = e.history[r]]
      BY <1>6
    <3> QED
      BY <3>1, <3>2, <1>1 DEF RunChanged, Engine
  <2> HIDE DEF k
  <2>2. SoundKept(k, n, F)
    <3>1. e.owner[r] \in {Nobody} \cup Sched /\ e.history[r] \in {"none", "launched", "done", "failed"}
      BY <1>6
    <3>2. Rec("failed") \in RunRecords /\ Rec("failed").by = s
          /\ Rec("failed").state \in {"gone", "failed"}
      BY <1>3, <1>4
    <3> QED
      BY <2>1, <3>1, <3>2, MintKeeps
  <2>3. /\ k \in Engine /\ k.objs = e.objs /\ k.cur = e.cur /\ k.firing = e.firing /\ Mine(k)
        /\ Firing(k, s)
    BY <2>1, <2>2 DEF RunChanged, SoundKept, Sound, Firing
  <2>4. WroteOver(k, g, s, f.obj, b)
    <3> HIDE DEF g
    <3> QED
      BY <2>3, <1>2, <1>8, Written DEF g
  <2>5. SoundKept(g, n, F)
    <3>1. \A q \in Runs : b.active = q => k.runs[q].by = s /\ k.runs[q].state \notin {"none", "parked"}
      BY <2>3, <1>2 DEF Mine
    <3>2. ASSUME Calm
          PROVE  /\ f.obj = k.cur[s]
                 /\ b.trigger = k.objs[s][f.obj].trigger /\ b.overlap = k.objs[s][f.obj].overlap
                 /\ \A q \in Runs : LiveOf(k, s, q) =>
                      b.active = q \/ (b.overlap = "queue" /\ Beside(k, s, q))
                 /\ \A q \in Runs : b.active = q /\ k.runs[q].state = "live" => k.owner[q] = s
                 /\ Paced(k, s, b, firedAt, clock, F)
      <4>1. f.obj = k.cur[s] /\ k.cur[s] # 0 /\ Object(k, s) = b
        BY <3>2, <2>3, <1>2 DEF Object
      <4>2. Tracked(k) /\ Owned(k) /\ Cadence(k, firedAt, clock, F)
        BY <3>2, <2>2 DEF SoundKept, Kept
      <4>3. \A q \in Runs : LiveOf(k, s, q) =>
              b.active = q \/ (b.overlap = "queue" /\ Beside(k, s, q))
        <5> HIDE DEF b
        <5> QED
          BY <4>1, <4>2 DEF Tracked
      <4>4. \A q \in Runs : b.active = q /\ k.runs[q].state = "live" => k.owner[q] = s
        <5> HIDE DEF b
        <5> QED
          BY <4>1, <4>2 DEF Owned
      <4>5. Paced(k, s, b, firedAt, clock, F)
        <5> HIDE DEF b
        <5> QED
          BY <4>1, <4>2 DEF Cadence
      <4> QED
        BY <4>1, <4>3, <4>4, <4>5, <2>3
    <3>3. f.obj \in 1..Len(k.objs[s]) /\ b \in Objects
      BY <2>3, <1>2, <1>8
    <3> HIDE DEF b
    <3>4. g = Write(k, s, f.obj, b)
      OBVIOUS
    <3> HIDE DEF g
    <3> QED
      BY <3>1, <3>2, <3>3, <3>4, <2>2, <1>1, WriteKeeps
  <2>6. Around(e, g)
    <3>1. \A q \in Runs : k.runs[q].state = "live" => e.runs[q] = k.runs[q]
      BY <2>1, <1>4, <1>6 DEF RunChanged
    <3> HIDE DEF g
    <3> QED
      BY <2>3, <2>4, <3>1 DEF Around, WroteOver, NoneStarts, LiveOf
  <2>7. Woken(e, clock) => Woken(g, clock)
    <3>1. Rec("failed").state \notin {"done", "aborted"}
      BY <1>4
    <3>2. Woken(e, clock) => Woken(k, clock)
      BY <2>1, <3>1, <1>1, RunWakes
    <3>3. f.obj \in 1..Len(k.objs[s]) /\ b = k.objs[s][f.obj] /\ Sound(k, n)
      BY <2>2, <2>3, <1>2 DEF SoundKept
    <3> HIDE DEF b, g
    <3>4. Woken(k, clock) => Woken(g, clock)
      BY <3>3, <2>4, SameWakes
    <3> QED
      BY <3>2, <3>4
  <2>8. Freed(e, s, r, st) = [g EXCEPT !.firing[s] = NoFire]
    BY <1>9 DEF Freed, f, Rec, k
  <2> HIDE DEF g
  <2>9. Lands(e, Freed(e, s, r, st), n, F, s, NoRun)
    BY <2>5, <2>6, <2>7, <2>8, <1>1, FreeLands
  <2> QED
    BY <2>9, <1>9
<1>10. CASE st # "failed"
  <2> DEFINE g == w("gone")
  \* Nothing is made of the run yet.
  <2>1. SoundKept(m("gone"), n, F) /\ RunChanged(e, m("gone"), r, Rec("gone"), s, "launched")
    <3>1. "launched" \in {"none", "launched", "done", "failed"} /\ s \in {Nobody} \cup Sched
      OBVIOUS
    <3>2. Rec("gone") \in RunRecords /\ Rec("gone").by = s /\ Rec("gone").state = "gone"
          /\ Rec("gone").state \in {"gone", "failed"}
      BY <1>3, <1>4
    <3>3. RunChanged(e, m("gone"), r, Rec("gone"), s, "launched")
      BY <1>5
    <3> HIDE DEF m
    <3> QED
      BY <3>1, <3>2, <3>3, MintKeeps
  <2>2. \A x \in All : /\ m(x) \in Engine /\ m(x).objs = e.objs /\ m(x).cur = e.cur
                       /\ m(x).firing = e.firing /\ m(x).file = e.file /\ m(x).timer = e.timer
                       /\ m(x).openSince = e.openSince
                       /\ m(x).runs = [e.runs EXCEPT ![r] = Rec(x)]
                       /\ m(x).owner = [e.owner EXCEPT ![r] = s]
                       /\ m(x).history = [e.history EXCEPT ![r] = "launched"]
    BY <1>5 DEF RunChanged
  <2> HIDE DEF m
  <2>3. /\ m("gone").runs[r] = Rec("gone") /\ m("gone").owner[r] = s
        /\ \A q \in Runs : q # r => m("gone").runs[q] = e.runs[q]
    BY <2>2, <1>6
  <2>4. o \in Objects /\ SoundKept(g, n, F)
    <3>1. Firing(m("gone"), s) /\ m("gone").firing[s] = f /\ m("gone").objs[s] = e.objs[s]
      BY <2>2 DEF Firing, f
    <3>2. ASSUME Calm, NEW q \in Runs, m("gone").runs[q].state = "live" PROVE q < r
      <4>1. q # r /\ e.runs[q].state = "live"
        BY <2>3, <3>2, <1>4
      <4>2. ~(r < q)
        BY <3>2, <4>1 DEF SoundKept, Kept, Numbered
      <4> QED
        BY <4>1, <4>2, Ranges
    <3> QED
      BY <3>1, <3>2, <2>1, <2>3, <1>1, <1>4, LinkKeeps, SMTT(30)
  <2>5. WroteOver(m("gone"), g, s, f.obj, o) /\ WroteOver(m(st), w(st), s, f.obj, o)
    <3>1. \A x \in All : f.obj \in 1..Len(m(x).objs[s])
      BY <2>2, <1>2
    <3>2. ASSUME NEW x \in All PROVE WroteOver(m(x), w(x), s, f.obj, o)
      BY <3>1, <2>2, <2>4, Written
    <3> HIDE DEF w
    <3> QED
      BY <3>2
  <2>6. st \in All /\ st \in {"live", "aborted"}
    BY <1>10
  <2> DEFINE h == w(st)
  <2> HIDE DEF w
  <2>7. /\ g \in Engine /\ h \in Engine /\ h.objs = g.objs /\ h.cur = g.cur /\ h.file = g.file
        /\ h.firing = g.firing /\ h.timer = g.timer /\ h.openSince = g.openSince
        /\ h.owner = g.owner /\ h.history = g.history
        /\ g.runs = [e.runs EXCEPT ![r] = Rec("gone")] /\ h.runs = [e.runs EXCEPT ![r] = Rec(st)]
        /\ g.cur = e.cur /\ g.firing = e.firing /\ g.owner = [e.owner EXCEPT ![r] = s]
        /\ g.history = [e.history EXCEPT ![r] = "launched"]
        /\ \A t \in Sched : Len(g.objs[t]) = Len(e.objs[t])
    <3>1. "gone" \in All
      OBVIOUS
    <3> HIDE DEF All, o
    <3>2. /\ g \in Engine /\ g.objs = [e.objs EXCEPT ![s] = [@ EXCEPT ![f.obj] = o]]
          /\ g.file = [e.file EXCEPT ![s] = Loaded(o)] /\ g.cur = e.cur /\ g.firing = e.firing
          /\ g.timer = e.timer /\ g.openSince = e.openSince
          /\ g.runs = [e.runs EXCEPT ![r] = Rec("gone")]
          /\ g.owner = [e.owner EXCEPT ![r] = s] /\ g.history = [e.history EXCEPT ![r] = "launched"]
          /\ \A t \in Sched : Len(g.objs[t]) = Len(m("gone").objs[t])
      BY <3>1, <2>2, <2>5 DEF WroteOver
    <3>3. /\ h \in Engine /\ h.objs = [e.objs EXCEPT ![s] = [@ EXCEPT ![f.obj] = o]]
          /\ h.file = [e.file EXCEPT ![s] = Loaded(o)] /\ h.cur = e.cur /\ h.firing = e.firing
          /\ h.timer = e.timer /\ h.openSince = e.openSince
          /\ h.runs = [e.runs EXCEPT ![r] = Rec(st)]
          /\ h.owner = [e.owner EXCEPT ![r] = s] /\ h.history = [e.history EXCEPT ![r] = "launched"]
      BY <2>2, <2>5, <2>6 DEF WroteOver
    <3>4. \A t \in Sched : Len(g.objs[t]) = Len(e.objs[t])
      BY <3>1, <3>2, <2>2
    <3> HIDE DEF g, h
    <3> QED
      BY <3>2, <3>3, <3>4
  <2>8. Around(e, g) /\ Firing(g, s) /\ g.firing[s] = f
    <3>1. \A q \in Runs : g.runs[q].state = "live" => e.runs[q] = g.runs[q]
      BY <2>7, <1>4, <1>6
    <3> HIDE DEF g
    <3> QED
      BY <2>7, <3>1 DEF Around, Firing, f, NoneStarts, LiveOf
  <2>9. Calm /\ Woken(e, clock) /\ f.by = "chain" => Woken(g, clock)
    <3> SUFFICES ASSUME Calm, Woken(e, clock), f.by = "chain" PROVE Woken(g, clock)
      OBVIOUS
    <3>1. Rec("gone").state \notin {"done", "aborted"}
      BY <1>4
    <3>2. Woken(m("gone"), clock)
      BY <2>1, <3>1, <1>1, RunWakes
    <3>3. o.trigger = "chain"
      BY <1>7, <1>8 DEF Objects
    <3>4. f.obj = m("gone").cur[s] /\ Sound(m("gone"), n)
      BY <2>1, <2>2, <1>2 DEF SoundKept
    <3> HIDE DEF o, g
    <3> QED
      BY <3>2, <3>3, <3>4, <2>5, LinkWakes
  <2>10. LinkTo(e, s, r) = o
    BY DEF LinkTo, f
  <2>11. g.runs[r] = Rec("gone") /\ g.owner[r] = s /\ s \in Sched
    BY <2>7, <1>6
  \* A run that has gone down already is settled first.
  <2>12. CASE st = "aborted"
    <3> DEFINE a == OnRunEnd(h, r)
    <3>1. Freed(e, s, r, st) = [a EXCEPT !.firing[s] = NoFire]
      BY <2>10, <2>12 DEF Freed, f, Rec, m, w
    <3> HIDE DEF h, g, o
    <3>2. h = [g EXCEPT !.runs[r].state = "aborted"]
      <4> DEFINE b == [g EXCEPT !.runs[r].state = "aborted"]
      <4>1. [Rec("gone") EXCEPT !.state = "aborted"] = Rec("aborted")
        BY DEF Rec
      <4>2. [g.runs EXCEPT ![r].state = "aborted"] = [e.runs EXCEPT ![r] = Rec("aborted")]
        BY <4>1, <2>7, <2>11, <1>6
      <4>3. [e.runs EXCEPT ![r] = Rec("aborted")] \in [Runs -> RunRecords]
        BY <1>3, <1>6
      <4>4. b = [g EXCEPT !.runs = [e.runs EXCEPT ![r] = Rec("aborted")]]
        BY <4>2
      <4> HIDE DEF b
      <4>5. /\ b \in Engine /\ b.runs = h.runs /\ b.objs = g.objs /\ b.cur = g.cur
            /\ b.file = g.file /\ b.firing = g.firing /\ b.timer = g.timer
            /\ b.openSince = g.openSince /\ b.owner = g.owner /\ b.history = g.history
        BY <4>3, <4>4, <2>7, <2>12 DEF Engine
      <4>6. h = b
        BY <4>5, <2>7, SameEngine
      <4> QED
        BY <4>6 DEF b
    <3>3. g.runs[r].state = "gone" /\ g.runs[r].by = s
      BY <2>11, <1>4
    <3>4. /\ SoundKept(a, n, F) /\ Around(g, a)
          /\ Calm /\ Woken(g, clock) => Woken(a, clock)
      <4>1. "aborted" \in {"done", "aborted"} /\ g.runs[r].state \in {"live", "parked", "gone"}
        BY <3>3
      <4>2. g.runs[r].state = "gone" => g.owner[r] = g.runs[r].by /\ g.owner[r] \in Sched
        BY <2>11, <3>3
      <4> QED
        BY <2>4, <3>2, <4>1, <4>2, OnRunEndKeeps
    <3> HIDE DEF a
    <3>5. Around(e, a)
      BY <2>8, <3>4 DEF Around, Firing, NoneStarts, LiveOf
    <3>6. Lands(e, Freed(e, s, r, st), n, F, s, NoRun)
      BY <2>9, <3>1, <3>4, <3>5, <1>1, FreeLands DEF f
    <3> QED
      BY <3>6, <2>12
  \* A run that goes starts once the launch is out of flight.
  <2>13. CASE st = "live"
    <3> DEFINE b == [g EXCEPT !.firing[s] = NoFire]
               k == [h EXCEPT !.firing[s] = NoFire]
    <3>1. Freed(e, s, r, st) = k
      BY <2>10, <2>13 DEF Freed, f, Rec, m, w
    <3> HIDE DEF h, g
    <3>2. Lands(e, b, n, F, s, NoRun)
      BY <2>4, <2>8, <2>9, <1>1, FreeLands DEF f
    <3>3. FiringChanged(g, b, s, NoFire) /\ FiringChanged(h, k, s, NoFire)
      BY <2>7, FiringSet
    <3> HIDE DEF b, k
    <3>4. RunChanged(b, k, r, Rec("live"), s, "launched")
      <4>1. /\ b.runs = g.runs /\ b.owner = g.owner /\ b.history = g.history
            /\ k.runs = h.runs /\ k.owner = h.owner /\ k.history = h.history
            /\ k.objs = b.objs /\ k.file = b.file /\ k.cur = b.cur /\ k.timer = b.timer
            /\ k.openSince = b.openSince /\ k.firing = b.firing /\ k \in Engine
        BY <3>3, <2>7 DEF FiringChanged
      <4>2. h.runs = [g.runs EXCEPT ![r] = Rec("live")]
        BY <2>7, <2>13, <1>6
      <4>3. g.owner = [g.owner EXCEPT ![r] = s] /\ g.history = [g.history EXCEPT ![r] = "launched"]
        BY <2>7, <1>6
      <4> QED
        BY <4>1, <4>2, <4>3, <2>7 DEF RunChanged
    <3>5. b.runs[r] = Rec("gone") /\ b.owner[r] = s /\ ~Firing(b, s)
      <4>1. g.firing \in [Sched -> Fires \cup {NoFire}]
        BY <2>7, Fields
      <4> QED
        BY <4>1, <3>3, <2>11 DEF FiringChanged, Firing
    <3>6. Calm => Object(b, s).active = r
      <4>1. b.objs = g.objs /\ b.cur = e.cur /\ g.objs[s][f.obj] = o
        BY <3>3, <2>5, <2>7 DEF FiringChanged, WroteOver
      <4>2. o.active = r
        BY <1>8 DEF Objects
      <4> HIDE DEF o
      <4> QED
        BY <4>1, <4>2, <1>2 DEF Object
    <3>7. /\ Rec("live") \in RunRecords /\ Rec("live").by = s /\ Rec("live").state = "live"
          /\ b.runs[r].state = "gone" /\ b.runs[r].by = s /\ Rec("live").depth = b.runs[r].depth
      BY <3>5, <1>3, <1>4
    <3>8. SoundKept(k, n, F)
      BY <3>2, <3>4, <3>5, <3>6, <3>7, <1>1, GoesKeeps DEF Lands
    <3>9. Woken(b, clock) => Woken(k, clock)
      <4>1. Sound(b, n) /\ Rec("live").state \notin {"done", "aborted"}
        BY <3>2, <3>7 DEF Lands, SoundKept
      <4> QED
        BY <3>4, <4>1, RunWakes
    <3>10. k.cur = b.cur /\ k.objs = b.objs
      BY <3>4 DEF RunChanged
    <3>11. \A t \in Sched, q \in Runs : LiveOf(k, t, q) => LiveOf(b, t, q) \/ (t = s /\ q = r)
      <4>1. b.runs \in [Runs -> RunRecords]
        BY <3>2, Fields DEF Lands, SoundKept, Sound
      <4>2. k.runs[r] = Rec("live") /\ \A q \in Runs : q # r => k.runs[q] = b.runs[q]
        BY <4>1, <3>4 DEF RunChanged
      <4> QED
        BY <4>2, <1>4 DEF LiveOf
    <3>12. \A t \in Sched, q \in Runs : LiveOf(b, t, q) => LiveOf(e, t, q)
      BY <3>2, Ranges DEF Lands
    <3> HIDE DEF f
    <3> QED
      BY <3>1, <3>2, <3>8, <3>9, <3>10, <3>11, <3>12, <2>13 DEF Lands, f
  <2> QED
    BY <2>6, <2>12, <2>13
<1> QED
  BY <1>9, <1>10

-----------------------------------------------------------------------------
(* The steps.                                                              *)

Typed == clock \in 0..MaxTime /\ upsets \in 0..MaxUpsets
            /\ firedAt \in [Sched -> {Never} \cup 0..MaxTime] /\ unseen \subseteq Runs

IInv == /\ Typed /\ SoundKept(engine, upsets, Launching(engine))
        /\ Calm => Woken(engine, clock)

\* What a step may leave.
Leaves(g, n) ==
    SoundKept(g, n, Launching(engine)) /\ (Calm => Woken(g, clock))

\* What a step may do.
Cadenced == \A s \in Sched : firedAt'[s] # firedAt[s] /\ firedAt[s] # Never
                => clock >= firedAt[s] + Period
Waits == \A s \in Sched : ~(Going(s)' \subseteq Going(s)) =>
             \A r \in Going(s) : /\ engine.objs[s][engine.firing[s].obj].overlap = "queue"
                                  /\ Overtaken(s, r)
Fine == IInv' /\ (Calm => Cadenced /\ Waits)

\* Nothing told is forgotten where the process goes on.
LEMMA SoundNow ==
    ASSUME NEW g, NEW n, Sound(g, n), engine' = g, upsets' = n, unseen' = unseen
    PROVE  Sound(engine, upsets)'
<1>1. Reported(engine)'
  BY DEF Sound, Reported
<1> QED
  BY <1>1 DEF Sound

\* More edits may be counted.
LEMMA MoreUpsets ==
    ASSUME NEW e, NEW n \in Nat, NEW F, SoundKept(e, n, F)
    PROVE  SoundKept(e, n + 1, F)
<1>1. Counted(e, n) /\ e \in Engine
  BY DEF SoundKept, Sound
<1>2. e.objs \in [Sched -> Seq(Objects)]
  BY <1>1, Fields
<1>3. \A s \in Sched : Len(e.objs[s]) \in Nat /\ Len(e.objs[s]) <= n + 1
  BY <1>1, <1>2 DEF Counted
<1>4. \A s \in Sched : Len(e.objs[s]) <= (n + 1) + 1
  BY <1>3
<1>5. Counted(e, n + 1)
  BY <1>1, <1>4 DEF Counted
<1> QED
  BY <1>5 DEF SoundKept, Sound

\* arm comes last in most steps.
LEMMA ArmLeaves ==
    ASSUME NEW e, NEW n \in Nat, SoundKept(e, n, Launching(engine)), clock \in 0..MaxTime
    PROVE  Leaves(Arm(e), n) /\ NoneStarts(e, Arm(e))
<1>1. e \in Engine
  BY DEF SoundKept, Sound
<1>2. TimerChanged(e, Arm(e)) /\ Woken(Arm(e), clock)
  BY <1>1, Armed
<1>3. SoundKept(Arm(e), n, Launching(engine))
  BY <1>2, TimerKeeps
<1>4. NoneStarts(e, Arm(e))
  BY <1>2 DEF TimerChanged, NoneStarts, LiveOf
<1> QED
  BY <1>2, <1>3, <1>4 DEF Leaves

\* A firing of the tick is noted; the cadence allows it.
LEMMA BecameKeeps ==
    ASSUME IInv, NEW g, Became(g), upsets' \in 0..MaxUpsets, Leaves(g, upsets')
    PROVE  /\ IInv'
           /\ Calm => Cadenced
<1> DEFINE F == Launching(engine)
           G == Launching(g)
           new(s) == Firing(g, s) /\ ~Firing(engine, s) /\ g.firing[s].by = "tick"
<1>1. engine' = g /\ clock' = clock /\ unseen' = unseen
      /\ firedAt' = [s \in Sched |-> IF new(s) THEN clock ELSE firedAt[s]]
  BY DEF Became
<1>2. /\ Typed /\ clock \in 0..MaxTime /\ firedAt \in [Sched -> {Never} \cup 0..MaxTime]
      /\ unseen \subseteq Runs
  BY DEF IInv, Typed
<1>3. Typed'
  BY <1>1, <1>2 DEF Typed
<1>4. \A s \in Sched : (s \in F <=> Firing(engine, s)) /\ (s \in G <=> Firing(g, s))
  BY DEF Launching
<1>5. ASSUME Calm, NEW s \in Sched
      PROVE  /\ Paced(g, s, Object(g, s), firedAt', clock, G)
             /\ firedAt'[s] # firedAt[s] /\ firedAt[s] # Never => clock >= firedAt[s] + Period
  <2>1. Paced(g, s, Object(g, s), firedAt, clock, F)
    BY <1>5 DEF Leaves, SoundKept, Kept, Cadence
  <2>2. CASE new(s)
    <3>1. firedAt'[s] = clock
      BY <1>1, <2>2
    <3>2. /\ g.firing[s].now <= clock /\ Anchor(Object(g, s)) >= clock /\ ~Object(g, s).pending
          /\ firedAt[s] # Never => clock >= firedAt[s] + Period
      BY <2>1, <2>2, <1>4 DEF Paced
    <3>3. s \in G
      BY <2>2, <1>4
    <3>4. clock \in 0..clock
      BY <1>2, Ranges
    <3> HIDE DEF new, G
    <3> QED
      BY <3>1, <3>2, <3>3, <3>4 DEF Paced
  <2>3. CASE ~new(s)
    <3>1. firedAt'[s] = firedAt[s]
      BY <1>1, <2>3
    <3>2. Firing(g, s) /\ g.firing[s].by = "tick" => s \in G
      BY <1>4
    <3> HIDE DEF new, G, F
    <3> QED
      BY <2>1, <3>1, <3>2 DEF Paced
  <2> QED
    BY <2>2, <2>3
<1> HIDE DEF F, G, new
<1>6. ASSUME Calm PROVE Kept(g, firedAt', clock', G)
  <2>1. Kept(g, firedAt, clock, F)
    BY <1>6 DEF Leaves, SoundKept, F
  <2>2. Cadence(g, firedAt', clock', G)
    BY <1>1, <1>5, <1>6 DEF Cadence
  <2> QED
    BY <2>1, <2>2 DEF Kept
<1>7. SoundKept(engine, upsets, Launching(engine))'
  <2>1. Sound(g, upsets')
    BY DEF Leaves, SoundKept
  <2>2. Sound(engine, upsets)' /\ (Calm => Kept(engine', firedAt', clock', Launching(engine')))
    BY <2>1, <1>1, <1>6, SoundNow DEF G
  <2> QED
    BY <2>2 DEF SoundKept
<1>8. (Calm => Woken(engine, clock))'
  <2>1. Calm => Woken(g, clock)
    BY DEF Leaves
  <2> QED
    BY <2>1, <1>1
<1> QED
  BY <1>3, <1>5, <1>7, <1>8 DEF IInv, Cadenced

\* No run starts where no launch returns.
LEMMA StillWaits ==
    ASSUME NEW g, engine' = g, NoneStarts(engine, g)
    PROVE  Waits
<1>1. \A s \in Sched, q \in Runs : LiveOf(g, s, q) => LiveOf(engine, s, q)
  BY DEF NoneStarts
<1>2. \A s \in Sched : Going(s)' \subseteq Going(s)
  BY <1>1 DEF Going, LiveOf
<1> QED
  BY <1>2 DEF Waits

LEMMA Quiet ==
    ASSUME IInv, NEW g, Became(g), upsets' \in 0..MaxUpsets, Leaves(g, upsets'),
           NoneStarts(engine, g)
    PROVE  Fine
<1>1. engine' = g
  BY DEF Became
<1> QED
  BY <1>1, BecameKeeps, StillWaits DEF Fine

\* What the invariant says, said once.
LEMMA Known ==
    ASSUME IInv
    PROVE  /\ engine \in Engine /\ clock \in 0..MaxTime /\ upsets \in 0..MaxUpsets
           /\ upsets \in Nat
           /\ SoundKept(engine, upsets, Launching(engine))
           /\ Calm => Woken(engine, clock)
           /\ Sound(engine, upsets) /\ engine.cur \in Lists
           /\ \A t \in Sched : engine.cur[t] <= Len(engine.objs[t])
           /\ \A t \in Sched : engine.cur[t] # 0 =>
                engine.cur[t] \in 1..Len(engine.objs[t]) /\ Object(engine, t) \in Objects
<1>1. SoundKept(engine, upsets, Launching(engine)) /\ Sound(engine, upsets)
  BY DEF IInv, SoundKept
<1>2. clock \in 0..MaxTime /\ upsets \in 0..MaxUpsets /\ upsets \in Nat
  BY Ranges DEF IInv, Typed
<1>3. /\ engine \in Engine /\ engine.cur \in Lists
      /\ \A t \in Sched : engine.cur[t] <= Len(engine.objs[t])
      /\ \A t \in Sched : engine.cur[t] # 0 => engine.cur[t] \in 1..Len(engine.objs[t])
  BY <1>1, CurCounts
<1>4. \A t \in Sched : engine.cur[t] # 0 => Object(engine, t) \in Objects
  BY <1>3, ObjectType DEF Object
<1> QED
  BY <1>1, <1>2, <1>3, <1>4 DEF IInv

LEMMA TimePassesKeeps == ASSUME IInv, TimePasses PROVE Fine
<1> DEFINE F == Launching(engine)
<1>1. /\ clock' = clock + 1 /\ clock' \in 0..MaxTime /\ engine' = engine /\ upsets' = upsets
      /\ firedAt' = firedAt /\ unseen' = unseen /\ clock \in 0..MaxTime /\ Typed
  BY Ranges DEF TimePasses, IInv, Typed
<1>2. Typed'
  BY <1>1 DEF Typed
<1>3. ASSUME Calm PROVE Cadence(engine, firedAt, clock + 1, F)
  <2> SUFFICES ASSUME NEW s \in Sched
               PROVE  Paced(engine, s, Object(engine, s), firedAt, clock + 1, F)
    BY DEF Cadence
  <2>1. Paced(engine, s, Object(engine, s), firedAt, clock, F)
    BY <1>3 DEF IInv, SoundKept, Kept, Cadence
  <2>2. Firing(engine, s) => s \in F
    BY DEF Launching
  <2>3. firedAt[s] # Never => /\ firedAt[s] \in 0..(clock + 1)
                              /\ clock >= firedAt[s] + Period => clock + 1 >= firedAt[s] + Period
    BY <2>1, <1>1, Ranges DEF Paced
  <2>4. Firing(engine, s) /\ engine.firing[s].by = "tick" => engine.firing[s].now <= clock + 1
    <3>1. engine.firing[s] \in Fires => engine.firing[s].now \in Nat
      BY Ranges DEF Fires
    <3>2. Firing(engine, s) => engine.firing[s] \in Fires
      BY HeldObject DEF IInv
    <3> QED
      BY <2>1, <3>1, <3>2, <1>1, Ranges DEF Paced
  <2> HIDE DEF F
  <2> QED
    BY <2>1, <2>2, <2>3, <2>4 DEF Paced
<1>4. SoundKept(engine, upsets, F)'
  <2>1. Sound(engine, upsets) /\ (Calm => Kept(engine, firedAt, clock, F))
    BY DEF IInv, SoundKept
  <2>2. Calm => Kept(engine, firedAt, clock + 1, F)
    BY <2>1, <1>3 DEF Kept
  <2>3. F' = F
    BY <1>1
  <2> HIDE DEF F
  <2>4. Sound(engine, upsets)' /\ (Calm => Kept(engine', firedAt', clock', F'))
    BY <2>1, <2>2, <2>3, <1>1, SoundNow
  <2> QED
    BY <2>4 DEF SoundKept
<1>5. (Calm => Woken(engine, clock))'
  <2>1. Calm => Woken(engine, clock)
    BY DEF IInv
  <2>2. Woken(engine, clock) => Woken(engine, clock + 1)
    <3>1. engine.timer \in 0..(clock + MaxSleep) => engine.timer \in 0..(clock + 1 + MaxSleep)
      BY <1>1, Ranges DEF MaxSleep
    <3>2. engine.timer \in 0..(clock + MaxSleep) /\ engine.timer <= clock => engine.timer <= clock + 1
      BY <1>1, Ranges
    <3> QED
      BY <3>1, <3>2 DEF Woken
  <2> QED
    BY <1>1, <2>1, <2>2
<1>6. Cadenced
  BY <1>1 DEF Cadenced
<1>7. Waits
  BY <1>1, StillWaits DEF NoneStarts
<1> QED
  BY <1>2, <1>4, <1>5, <1>6, <1>7 DEF IInv, Fine

LEMMA TimerFiresKeeps == ASSUME IInv, TimerFires PROVE Fine
<1> DEFINE e == [engine EXCEPT !.timer = NoTimer]
<1>1. Became(Tick(e)) /\ upsets' = upsets
  BY DEF TimerFires, Goes
<1>2. TimerChanged(engine, e)
  BY Known, TimerSet
<1> HIDE DEF e
<1>3. SoundKept(e, upsets, Launching(engine))
  BY <1>2, Known, TimerKeeps
<1>4. SoundKept(Tick(e), upsets, Launching(engine)) /\ Around(e, Tick(e)) /\ Woken(Tick(e), clock)
  BY <1>3, Known, TickKeeps
<1>5. NoneStarts(engine, Tick(e))
  BY <1>2, <1>4 DEF Around, NoneStarts, LiveOf, TimerChanged
<1> QED
  BY <1>1, <1>4, <1>5, Known, Quiet DEF Leaves

LEMMA HostResumesKeeps == ASSUME IInv, HostResumes PROVE Fine
<1>1. Became(Tick(engine)) /\ upsets' = upsets
  BY DEF HostResumes, Goes
<1>2. SoundKept(Tick(engine), upsets, Launching(engine)) /\ Around(engine, Tick(engine))
      /\ Woken(Tick(engine), clock)
  BY Known, TickKeeps
<1> QED
  BY <1>1, <1>2, Known, Quiet DEF Leaves, Around

LEMMA RunNowKeeps == ASSUME IInv, NEW s \in Sched, RunNow(s) PROVE Fine
<1> DEFINE v == engine.cur[s]
           o == engine.objs[s][v]
           g == Fire(engine, s, v, "manual", 0, 0, Nobody, Nobody, engine.cur)
<1>1. /\ Became(g) /\ upsets' = upsets /\ v # 0 /\ ~Firing(engine, s)
      /\ ~Busy(engine, o)
  BY DEF RunNow, Goes, Listed, Object
<1>2. v \in 1..Len(engine.objs[s]) /\ o \in Objects
  BY <1>1, Known DEF Object
<1>3. /\ "manual" \in {"tick", "chain", "manual"} /\ 0 \in 0..MaxTime /\ 0 \in 0..MaxChain
      /\ Nobody \in {Nobody} \cup Sched /\ "manual" # "chain" /\ "manual" # "tick"
  BY Ranges
<1>4. SoundKept(g, upsets, Launching(engine)) /\ Fired(engine, g, s, "manual")
  <2> HIDE DEF o
  <2>1. ~Busy(engine, engine.objs[s][v])
    BY <1>1 DEF o
  <2> HIDE DEF v
  <2>2. v = engine.cur[s] /\ engine.cur[s] # 0
    BY <1>1 DEF v
  <2> QED
    BY <1>1, <1>2, <1>3, <2>1, <2>2, Known, FiringKeeps
<1>5. g = [Write(engine, s, v, Stamp(o, "manual")) EXCEPT !.firing[s] =
             [obj |-> v, by |-> "manual", now |-> 0, depth |-> 0, up |-> Nobody,
              flow |-> Nobody, listed |-> engine.cur]]
  BY DEF Fire
<1> DEFINE z == Stamp(o, "manual")
<1>6. z \in Objects /\ z.enabled = o.enabled /\ z.trigger = o.trigger
  <2> HIDE DEF o
  <2>1. z = [o EXCEPT !.runCount = o.runCount + 1] /\ o.runCount + 1 \in Nat
    <3>1. o.runCount + 1 \in Nat
      BY <1>2 DEF Objects
    <3>2. o = [o EXCEPT !.lastFired = o.lastFired, !.pending = o.pending]
      BY <1>2 DEF Objects
    <3> QED
      BY <1>2, <3>1, <3>2 DEF Stamp, Objects
  <2> HIDE DEF z
  <2> QED
    BY <2>1, <1>2 DEF Objects
<1>7. g.objs[s][v] = z
  <2>1. WroteOver(engine, Write(engine, s, v, z), s, v, z)
    <3> HIDE DEF z
    <3> QED
      BY <1>2, <1>6, Known, Written
  <2>2. Write(engine, s, v, z).objs[s][v] = z /\ Write(engine, s, v, z) \in Engine
    BY <2>1 DEF WroteOver
  <2>3. g.objs = Write(engine, s, v, z).objs
    <3> HIDE DEF z, g
    <3> QED
      BY <1>5, <2>2 DEF z, Engine
  <2> QED
    BY <2>2, <2>3
<1> HIDE DEF g, z, o
<1>8. ASSUME Calm PROVE Woken(g, clock)
  <2>1. Woken(engine, clock) /\ g.timer = engine.timer /\ Listed(g) = Listed(engine)
    BY <1>4, <1>8 DEF IInv, Fired, Listed
  <2>2. CASE Ticking(engine)
    <3>1. PICK t \in Sched : Firing(engine, t) /\ engine.firing[t].by = "tick"
      BY <2>2 DEF Ticking, Launching
    <3>2. t # s /\ g.firing[t] = engine.firing[t]
      BY <1>1, <1>4, <3>1 DEF Fired
    <3>3. Ticking(g)
      BY <3>1, <3>2 DEF Ticking, Launching, Firing
    <3> QED
      BY <3>3 DEF Woken
  <2>3. CASE ~Ticking(engine)
    <3> SUFFICES ASSUME NEW t \in Listed(engine), Timed(Object(g, t))
                 PROVE  /\ g.timer \in 0..(clock + MaxSleep)
                        /\ Object(g, t).pending /\ Over(g, Object(g, t)) /\ ~Firing(g, t)
                             => g.timer <= clock
      BY <2>1 DEF Woken
    <3>1. CASE t = s
      <4>1. Object(engine, s) = o /\ Object(g, s) = z /\ Firing(g, s)
        BY <1>4, <1>7 DEF Object, Fired, o
      <4>2. Timed(o)
        BY <4>1, <3>1, <1>6 DEF Timed
      <4> QED
        BY <4>1, <4>2, <3>1, <2>1, <2>3 DEF Woken
    <3>2. CASE t # s
      <4>0. t \in Sched /\ engine.cur[t] # 0
        BY DEF Listed
      <4>1. Object(g, t) = Object(engine, t) /\ (Firing(g, t) <=> Firing(engine, t))
        BY <1>4, <3>2, <4>0 DEF Fired, Object, Firing
      <4>2. Over(g, Object(engine, t)) => Over(engine, Object(engine, t))
        <5>1. Object(engine, t).active \in {NoRun} \cup Runs
          BY <4>0, Known DEF Objects
        <5>2. \A q \in Runs : Object(engine, t).active = q => engine.runs[q].by = t
          BY <4>0, Known DEF Sound, Mine, Object
        <5>3. \A q \in Runs : Object(engine, t).active = q => g.runs[q] = engine.runs[q]
          BY <5>2, <3>2, <1>4 DEF Fired
        <5> QED
          BY <5>1, <5>3 DEF Over
      <4> QED
        BY <4>1, <4>2, <2>1, <2>3 DEF Woken
    <3> QED
      BY <3>1, <3>2
  <2> QED
    BY <2>2, <2>3
<1>9. NoneStarts(engine, g)
  BY <1>4 DEF Fired
<1> QED
  BY <1>1, <1>4, <1>8, <1>9, Known, Quiet DEF Leaves

LEMMA RunEndsKeeps ==
    ASSUME IInv, NEW r \in Runs, NEW st \in {"done", "aborted"}, RunEnds(r, st)
    PROVE  Fine
<1> DEFINE e == [engine EXCEPT !.runs[r].state = st]
           g == OnRunEnd(e, r)
<1>1. Became(g) /\ upsets' = upsets /\ engine.runs[r].state \in {"live", "parked"}
  BY DEF RunEnds, Goes
<1>2. /\ engine.runs[r].state \in {"live", "parked", "gone"} /\ engine.runs[r].state # "gone"
  BY <1>1
<1>3. /\ SoundKept(g, upsets, Launching(engine)) /\ Around(engine, g)
      /\ Calm /\ Woken(engine, clock) => Woken(g, clock)
  <2>1. e = [engine EXCEPT !.runs[r].state = st]
    OBVIOUS
  <2> HIDE DEF e
  <2> QED
    BY <1>2, <2>1, Known, OnRunEndKeeps
<1> HIDE DEF g
<1> QED
  BY <1>1, <1>3, Known, Quiet DEF Leaves, Around

LEMMA ForeignRunEndsKeeps == ASSUME IInv, NEW flow \in Sched, ForeignRunEnds(flow) PROVE Fine
<1> DEFINE g == ChainOn(engine, 1, Nobody, flow, engine.cur, 1)
<1>1. Became(g) /\ upsets' = upsets + 1 /\ upsets < MaxUpsets
  BY DEF ForeignRunEnds, Upset
<1>2. upsets' \in 0..MaxUpsets /\ upsets + 1 \in 0..MaxUpsets
  BY <1>1, Known, Ranges
<1>3. 1 \in Nat /\ 1 > 0 /\ 1 \in Nat \ {0} /\ Nobody \in {Nobody} \cup Sched /\ flow \in {Nobody} \cup Sched
  OBVIOUS
<1>4. SoundKept(engine, upsets + 1, Launching(engine))
  BY Known, MoreUpsets
<1>5. /\ SoundKept(g, upsets + 1, Launching(engine)) /\ Around(engine, g)
      /\ Calm /\ Woken(engine, clock) => Woken(g, clock)
  BY <1>2, <1>3, <1>4, Known, ChainOnKeeps
<1> HIDE DEF g
<1> QED
  BY <1>1, <1>2, <1>5, Known, Quiet DEF Leaves, Around

LEMMA RunDeletedKeeps == ASSUME IInv, NEW r \in Runs, RunDeleted(r) PROVE Fine
<1> DEFINE g == [engine EXCEPT !.runs[r].state = "gone"]
           x == [engine.runs[r] EXCEPT !.state = "gone"]
           p == engine.owner[r]
           h == engine.history[r]
<1>1. /\ Became(g) /\ upsets' = upsets + 1 /\ upsets < MaxUpsets
      /\ engine.runs[r].state \in {"live", "parked"}
  BY DEF RunDeleted, Upset
<1>2. upsets' \in 0..MaxUpsets
  BY <1>1, Known, Ranges
<1>3. /\ engine \in Engine /\ engine.runs \in [Runs -> RunRecords]
      /\ engine.owner \in [Runs -> {Nobody} \cup Sched]
      /\ engine.history \in [Runs -> {"none", "launched", "done", "failed"}]
  BY Known, Fields
<1>4. x \in RunRecords /\ x.state = "gone" /\ x.by = engine.runs[r].by
      /\ x.depth = engine.runs[r].depth
  <2>1. engine.runs[r] \in RunRecords
    BY <1>3
  <2> QED
    BY <2>1 DEF RunRecords
<1>5. RunChanged(engine, g, r, x, p, h)
  <2>1. [engine.runs EXCEPT ![r] = x] \in [Runs -> RunRecords]
    BY <1>3, <1>4
  <2>2. engine.owner = [engine.owner EXCEPT ![r] = p] /\ engine.history = [engine.history EXCEPT ![r] = h]
    BY <1>3
  <2>3. g = [engine EXCEPT !.runs = [@ EXCEPT ![r] = x]]
    OBVIOUS
  <2> HIDE DEF x, g
  <2> QED
    BY <2>1, <2>2, <2>3, <1>3 DEF RunChanged, Engine
<1>6. p \in {Nobody} \cup Sched /\ h \in {"none", "launched", "done", "failed"}
  BY <1>3
<1> HIDE DEF g, x, p, h
<1>7. SoundKept(g, upsets, Launching(engine))
  <2>1. engine.runs[r].state # "none" /\ x.state # "none" /\ x.state # "parked" /\ x.state # "live"
    BY <1>1, <1>4
  <2>2. h = "launched" => /\ engine.history[r] = "launched"
                          /\ x.by \in Listed(engine) => x.state \in {"gone", "live"}
    BY <1>4 DEF h
  <2> QED
    BY <2>1, <2>2, <1>4, <1>5, <1>6, Known, RunKeeps
<1>8. SoundKept(g, upsets', Launching(engine))
  BY <1>1, <1>7, Known, MoreUpsets
<1>9. Calm => Woken(g, clock)
  BY <1>4, <1>5, Known, RunWakes
<1>10. NoneStarts(engine, g)
  <2>1. g.runs[r] = x /\ \A q \in Runs : q # r => g.runs[q] = engine.runs[q]
    BY <1>3, <1>5 DEF RunChanged
  <2> QED
    BY <2>1, <1>4 DEF NoneStarts, LiveOf
<1> QED
  BY <1>1, <1>2, <1>8, <1>9, <1>10, Quiet DEF Leaves

LEMMA SetEnabledKeeps ==
    ASSUME IInv, NEW s \in Sched, NEW enabled \in BOOLEAN, SetEnabled(s, enabled)
    PROVE  Fine
<1> DEFINE o == Object(engine, s)
           set == [o EXCEPT !.enabled = enabled,
                            !.anchor  = IF enabled THEN clock ELSE @,
                            !.pending = IF enabled THEN FALSE ELSE @]
           v == engine.cur[s]
           e == Write(engine, s, v, set)
           F == Launching(engine)
<1>1. /\ Became(Arm(e)) /\ upsets' = upsets + 1 /\ upsets < MaxUpsets /\ v # 0
  BY DEF SetEnabled, Upset, Listed
<1>2. upsets' \in 0..MaxUpsets
  BY <1>1, Known, Ranges
<1>3. v \in 1..Len(engine.objs[s]) /\ o \in Objects /\ o = engine.objs[s][v]
  BY <1>1, Known DEF Object
<1>4. /\ set \in Objects /\ set.trigger = o.trigger /\ set.overlap = o.overlap
      /\ set.active = o.active /\ set.lastFired = o.lastFired
      /\ set.anchor \in {o.anchor, clock} /\ (set.pending => o.pending)
  <2> HIDE DEF o, v
  <2>1. CASE enabled
    <3>1. set = [o EXCEPT !.enabled = enabled, !.anchor = clock, !.pending = FALSE]
      BY <2>1, <1>3 DEF Objects
    <3> HIDE DEF set
    <3> QED
      BY <3>1, <1>3, Known DEF Objects
  <2>2. CASE ~enabled
    <3>1. set = [o EXCEPT !.enabled = enabled]
      BY <2>2, <1>3 DEF Objects
    <3> HIDE DEF set
    <3> QED
      BY <3>1, <1>3 DEF Objects
  <2> QED
    BY <2>1, <2>2
<1> HIDE DEF set
<1>5. SoundKept(e, upsets, F) /\ WroteOver(engine, e, s, v, set)
  <2>1. \A q \in Runs : o.active = q =>
          engine.runs[q].by = s /\ engine.runs[q].state \notin {"none", "parked"}
    BY <1>3, Known DEF Sound, Mine
  <2>2. ASSUME Calm
        PROVE  /\ \A q \in Runs : LiveOf(engine, s, q) =>
                    o.active = q \/ (o.overlap = "queue" /\ Beside(engine, s, q))
               /\ \A q \in Runs : o.active = q /\ engine.runs[q].state = "live" => engine.owner[q] = s
               /\ Paced(engine, s, set, firedAt, clock, F)
    <3>1. Tracked(engine) /\ Owned(engine) /\ Cadence(engine, firedAt, clock, F) /\ Held(engine)
      BY <2>2, Known DEF SoundKept, Kept
    <3>2. \A q \in Runs : LiveOf(engine, s, q) =>
            o.active = q \/ (o.overlap = "queue" /\ Beside(engine, s, q))
      BY <3>1, <1>1 DEF Tracked
    <3>3. \A q \in Runs : o.active = q /\ engine.runs[q].state = "live" => engine.owner[q] = s
      BY <3>1, <1>1 DEF Owned
    <3>4. Paced(engine, s, o, firedAt, clock, F)
      BY <3>1 DEF Cadence
    <3>5. Firing(engine, s) => s \in F
      BY DEF Launching
    <3>6. /\ o.anchor \in 0..MaxTime /\ o.lastFired \in {Never} \cup 0..MaxTime
          /\ clock \in 0..MaxTime
      BY <1>3, Known DEF Objects
    <3>7. firedAt[s] # Never =>
            /\ firedAt[s] \in 0..clock /\ Anchor(o) >= firedAt[s]
            /\ o.pending => clock >= firedAt[s] + Period
      BY <3>4, <1>1 DEF Paced
    <3> HIDE DEF o, F
    <3>8. firedAt[s] # Never => Anchor(set) >= firedAt[s]
      <4>1. Anchor(set) \in {Anchor(o), clock}
        BY <1>4 DEF Anchor
      <4> QED
        BY <4>1, <3>7, Known, Ranges
    <3>9. Paced(engine, s, set, firedAt, clock, F)
      BY <3>4, <3>5, <3>7, <3>8, <1>4 DEF Paced
    <3> QED
      BY <3>2, <3>3, <3>9
  <2> HIDE DEF o, F
  <2>3. SoundKept(engine, upsets, F) /\ upsets \in Nat /\ engine \in Engine
    BY Known DEF F
  <2>4. e = Write(engine, s, v, set)
    OBVIOUS
  <2> HIDE DEF e
  <2>5. WroteOver(engine, e, s, v, set)
    BY <2>3, <2>4, <1>3, <1>4, Written
  <2>6. \A q \in Runs : set.active = q =>
          engine.runs[q].by = s /\ engine.runs[q].state \notin {"none", "parked"}
    BY <2>1, <1>4
  <2>7. Calm => /\ v = engine.cur[s]
                /\ set.trigger = engine.objs[s][v].trigger /\ set.overlap = engine.objs[s][v].overlap
                /\ \A q \in Runs : LiveOf(engine, s, q) =>
                     set.active = q \/ (set.overlap = "queue" /\ Beside(engine, s, q))
                /\ \A q \in Runs : set.active = q /\ engine.runs[q].state = "live" =>
                     engine.owner[q] = s
                /\ Paced(engine, s, set, firedAt, clock, F)
    BY <2>2, <1>3, <1>4
  <2>8. v \in 1..Len(engine.objs[s]) /\ set \in Objects
    BY <1>3, <1>4
  <2> HIDE DEF v
  <2>9. SoundKept(e, upsets, F)
    BY <2>3, <2>4, <2>6, <2>7, <2>8, WriteKeeps
  <2> QED
    BY <2>5, <2>9 DEF v
<1> HIDE DEF e
<1>6. SoundKept(e, upsets + 1, F)
  BY <1>5, Known, MoreUpsets
<1>7. Leaves(Arm(e), upsets + 1) /\ NoneStarts(e, Arm(e))
  BY <1>6, <1>2, <1>1, Known, Ranges, ArmLeaves
<1>8. NoneStarts(engine, Arm(e))
  BY <1>5, <1>7 DEF NoneStarts, LiveOf, WroteOver
<1> QED
  BY <1>1, <1>2, <1>7, <1>8, Quiet

\* What saving makes of an object.
Edited(o, w) ==
    /\ w \in Objects /\ w.overlap = o.overlap /\ w.active = o.active
    /\ w.lastFired = o.lastFired /\ w.anchor \in {o.anchor, clock}
    /\ w.pending => o.pending

LEMMA RevisedMeans ==
    ASSUME NEW o \in Objects, clock \in 0..MaxTime, NEW trigger \in {"timer", "chain"},
           NEW enabled \in BOOLEAN
    PROVE  Edited(o, Revised(o, New(trigger, o.overlap, o.catchUp, enabled)))
<1> DEFINE new == New(trigger, o.overlap, o.catchUp, enabled)
           a == IF o.trigger # new.trigger \/ (~o.enabled /\ new.enabled) THEN clock ELSE o.anchor
           p == o.trigger = new.trigger /\ o.pending
           w == Revised(o, new)
<1>1. new = [enabled |-> enabled, trigger |-> trigger, overlap |-> o.overlap,
             catchUp |-> o.catchUp, anchor |-> clock, lastFired |-> Never,
             pending |-> FALSE, active |-> NoRun, runCount |-> 0]
  BY DEF New
<1>2. a \in {o.anchor, clock} /\ p \in BOOLEAN /\ (p => o.pending)
  OBVIOUS
<1>3. w = [new EXCEPT !.anchor = a, !.pending = p, !.lastFired = o.lastFired,
                      !.active = o.active, !.runCount = o.runCount]
  BY DEF Revised
<1> HIDE DEF new, a, p, w
<1>4. w = [enabled |-> enabled, trigger |-> trigger, overlap |-> o.overlap,
           catchUp |-> o.catchUp, anchor |-> a, lastFired |-> o.lastFired,
           pending |-> p, active |-> o.active, runCount |-> o.runCount]
  BY <1>1, <1>3
<1>5. a \in 0..MaxTime
  BY <1>2 DEF Objects
<1>6. /\ w.overlap = o.overlap /\ w.active = o.active /\ w.lastFired = o.lastFired
      /\ w.anchor = a /\ w.pending = p
  BY <1>4
<1>7. w \in Objects
  BY <1>2, <1>4, <1>5 DEF Objects
<1> QED
  BY <1>2, <1>6, <1>7 DEF Edited, w, new

LEMMA SaveKeeps ==
    ASSUME IInv, NEW s \in Sched, NEW trigger \in {"timer", "chain"}, NEW enabled \in BOOLEAN,
           Save(s, trigger, enabled)
    PROVE  Fine
<1> DEFINE F == Launching(engine)
           held == IF F = {} THEN <<>> ELSE engine.objs[s]
           v == Len(held) + 1
           old == Object(engine, s)
           o == Revised(old, New(trigger, old.overlap, old.catchUp, enabled))
           e == [engine EXCEPT !.objs[s] = Append(held, o), !.cur[s] = v, !.file[s] = Loaded(o)]
<1>1. /\ Became(Arm(e)) /\ upsets' = upsets + 1 /\ upsets < MaxUpsets /\ engine.cur[s] # 0
      /\ Calm => F = {}
  BY DEF Save, Upset, Listed, Editable, Calm
<1>2. upsets' \in 0..MaxUpsets
  BY <1>1, Known, Ranges
<1>3. engine.cur[s] \in 1..Len(engine.objs[s]) /\ old \in Objects
      /\ old = engine.objs[s][engine.cur[s]]
  BY <1>1, Known DEF Object
<1>4. /\ o \in Objects /\ o.overlap = old.overlap /\ o.active = old.active
      /\ o.lastFired = old.lastFired /\ o.anchor \in {old.anchor, clock}
      /\ o.pending => old.pending
  <2>1. old \in Objects /\ clock \in 0..MaxTime
    BY <1>3, Known
  <2> HIDE DEF old
  <2>2. Edited(old, o)
    BY <2>1, RevisedMeans
  <2> HIDE DEF o
  <2> QED
    BY <2>2 DEF Edited
<1> HIDE DEF o
<1>5. /\ engine \in Engine /\ engine.objs \in [Sched -> Seq(Objects)] /\ engine.cur \in Lists
      /\ engine.file \in [Sched -> Files \cup {NoFile}] /\ Counted(engine, upsets)
      /\ Mine(engine) /\ Reported(engine) /\ upsets \in Nat
  BY Known, Fields DEF Sound
<1>6. /\ held \in Seq(Objects) /\ Len(held) \in Nat /\ Len(held) <= upsets + 1
      /\ F # {} => held = engine.objs[s]
      /\ \A u \in 1..Len(held) : held[u] = engine.objs[s][u] /\ u \in 1..Len(engine.objs[s])
  <2>1. <<>> \in Seq(Objects) /\ Len(<<>>) = 0
    OBVIOUS
  <2>2. CASE F = {}
    BY <2>1, <2>2, <1>5
  <2>3. CASE F # {}
    BY <2>3, <1>5 DEF Counted
  <2> QED
    BY <2>2, <2>3
<1> HIDE DEF held, F
<1> DEFINE q == Append(held, o)
<1>7. /\ q \in Seq(Objects) /\ Len(q) = v /\ q[v] = o /\ v \in 1..(MaxUpsets + 1)
      /\ v <= (upsets + 1) + 1
      /\ \A u \in 1..v : u # v => u \in 1..Len(engine.objs[s]) /\ q[u] = engine.objs[s][u]
  <2>1. v \in 1..(MaxUpsets + 1) /\ v <= (upsets + 1) + 1 /\ v \in Nat /\ v # 0
    <3>1. ASSUME NEW k \in Nat, k <= upsets + 1
          PROVE  k + 1 \in 1..(MaxUpsets + 1) /\ k + 1 <= (upsets + 1) + 1
      <4>1. upsets \in Nat /\ MaxUpsets \in Nat /\ upsets < MaxUpsets
        BY <1>1, <1>5, BoundAssumption
      <4> QED
        BY <3>1, <4>1
    <3>2. v = Len(held) + 1 /\ Len(held) \in Nat /\ Len(held) <= upsets + 1
      BY <1>6
    <3> QED
      BY <3>1, <3>2
  <2>2. q \in Seq(Objects) /\ Len(q) = v /\ q[v] = o
    BY <1>4, <1>6
  <2>3. \A u \in 1..v : u # v => u \in 1..Len(held) /\ q[u] = held[u]
    BY <1>4, <1>6
  <2> QED
    BY <2>1, <2>2, <2>3, <1>6
<1> HIDE DEF q, v
<1>8. Loaded(o) \in Files
  BY <1>4 DEF Loaded, Files, Objects
<1>9. /\ e \in Engine /\ e.objs = [engine.objs EXCEPT ![s] = q]
      /\ e.cur = [engine.cur EXCEPT ![s] = v] /\ e.file = [engine.file EXCEPT ![s] = Loaded(o)]
      /\ e.firing = engine.firing /\ e.timer = engine.timer /\ e.openSince = engine.openSince
      /\ e.owner = engine.owner /\ e.history = engine.history /\ e.runs = engine.runs
  <2>1. /\ [engine.objs EXCEPT ![s] = q] \in [Sched -> Seq(Objects)]
        /\ [engine.file EXCEPT ![s] = Loaded(o)] \in [Sched -> Files \cup {NoFile}]
    BY <1>5, <1>7, <1>8
  <2>2. [engine.cur EXCEPT ![s] = v] \in Lists
    BY <1>5, <1>7, Ranges, SMTT(30) DEF Lists
  <2>3. e = [engine EXCEPT !.objs = [@ EXCEPT ![s] = q], !.cur = [@ EXCEPT ![s] = v],
                           !.file = [@ EXCEPT ![s] = Loaded(o)]]
    BY DEF q, v
  <2> HIDE DEF e
  <2> QED
    BY <2>1, <2>2, <2>3, <1>5 DEF Engine
<1> HIDE DEF e, old
<1>10. /\ e.objs[s] = q /\ e.cur[s] = v /\ e.file[s] = Loaded(o)
       /\ \A t \in Sched : t # s =>
            e.objs[t] = engine.objs[t] /\ e.cur[t] = engine.cur[t] /\ e.file[t] = engine.file[t]
  BY <1>5, <1>9 DEF Lists
<1>11. \A t \in Sched : /\ Firing(e, t) <=> Firing(engine, t)
                        /\ Firing(e, t) => t \in F
  BY <1>9 DEF Firing, F, Launching
<1>12. \A t \in Sched : F # {} => Len(e.objs[t]) >= Len(engine.objs[t])
  <2>1. ASSUME F # {} PROVE Len(q) >= Len(engine.objs[s])
    <3>1. v = Len(engine.objs[s]) + 1
      BY <2>1, <1>6 DEF v
    <3>2. Len(engine.objs[s]) \in Nat
      BY <1>5
    <3> QED
      BY <3>1, <3>2, <1>7
  <2>2. \A t \in Sched : Len(engine.objs[t]) \in Nat
    BY <1>5
  <2> QED
    BY <2>1, <2>2, <1>10
<1>13. Counted(e, upsets + 1)
  <2>1. \A t \in Sched : /\ Len(engine.objs[t]) \in Nat /\ Len(engine.objs[t]) <= upsets + 1
                         /\ engine.cur[t] <= Len(engine.objs[t])
    BY <1>5 DEF Counted
  <2>2. ASSUME NEW t \in Sched
        PROVE  e.cur[t] <= Len(e.objs[t]) /\ Len(e.objs[t]) <= (upsets + 1) + 1
    <3>1. CASE t = s
      BY <3>1, <1>7, <1>10, Ranges
    <3>2. CASE t # s
      BY <3>2, <2>1, <1>5, <1>10
    <3> QED
      BY <3>1, <3>2
  <2>3. ASSUME NEW t \in Sched, Firing(e, t)
        PROVE  /\ e.firing[t].obj <= Len(e.objs[t])
               /\ \A u \in Sched : e.firing[t].listed[u] <= Len(e.objs[u])
    <3>1. F # {} /\ Firing(engine, t) /\ e.firing[t] = engine.firing[t]
      BY <2>3, <1>9, <1>11
    <3>2. /\ engine.firing[t] \in Fires /\ engine.firing[t].obj \in 1..Len(engine.objs[t])
          /\ \A u \in Sched : engine.firing[t].listed[u] <= Len(engine.objs[u])
      BY <3>1, Known, HeldObject
    <3>3. engine.firing[t].listed \in Lists
      BY <3>2 DEF Fires
    <3>4. \A u \in Sched : engine.firing[t].listed[u] \in Int
      <4>1. \A l \in Lists : \A u \in Sched : l[u] \in 0..(MaxUpsets + 1)
        BY DEF Lists
      <4>2. \A u \in Sched : engine.firing[t].listed[u] \in 0..(MaxUpsets + 1)
        BY <3>3, <4>1
      <4> QED
        BY <4>2, Ranges
    <3>5. \A u \in Sched : Len(e.objs[u]) \in Nat
      BY <1>9, Fields
    <3>6. \A u \in Sched : Len(engine.objs[u]) <= Len(e.objs[u])
      BY <3>1, <3>5, <2>1, <1>12
    <3>7. engine.firing[t].obj \in Int /\ engine.firing[t].obj <= Len(engine.objs[t])
      BY <3>2, <2>1
    <3>8. engine.firing[t].obj <= Len(e.objs[t])
      BY <3>5, <3>6, <3>7, <2>1
    <3>9. \A u \in Sched : engine.firing[t].listed[u] <= Len(e.objs[u])
      BY <3>2, <3>4, <3>5, <3>6, <2>1
    <3> QED
      BY <3>1, <3>8, <3>9
  <2> QED
    BY <2>2, <2>3 DEF Counted
<1>14. Mine(e)
  <2>1. \A u \in 1..Len(engine.objs[s]) : \A r \in Runs : engine.objs[s][u].active = r =>
          engine.runs[r].by = s /\ engine.runs[r].state \notin {"none", "parked"}
    BY <1>5 DEF Mine
  <2>2. \A u \in 1..v : \A r \in Runs : q[u].active = r =>
          engine.runs[r].by = s /\ engine.runs[r].state \notin {"none", "parked"}
    BY <2>1, <1>3, <1>4, <1>7, SMTT(30)
  <2>3. Len(e.objs[s]) = v /\ e.objs[s] = q
    BY <1>7, <1>10
  <2> QED
    <3> SUFFICES ASSUME NEW t \in Sched, NEW u \in 1..Len(e.objs[t]), NEW r \in Runs,
                        e.objs[t][u].active = r
                 PROVE  engine.runs[r].by = t /\ engine.runs[r].state \notin {"none", "parked"}
      BY <1>9 DEF Mine
    <3>1. CASE t = s
      BY <3>1, <2>2, <2>3
    <3>2. CASE t # s
      <4>1. e.objs[t] = engine.objs[t]
        BY <3>2, <1>10
      <4>2. u \in 1..Len(engine.objs[t]) /\ engine.objs[t][u].active = r
        BY <4>1
      <4> QED
        BY <4>2, <1>5 DEF Mine
    <3> QED
      BY <3>1, <3>2
<1>15. Reported(e)
  <2>1. Listed(e) = Listed(engine)
    <3>1. v # 0
      BY <1>7, Ranges
    <3> QED
      BY <3>1, <1>1, <1>10 DEF Listed
  <2> QED
    BY <2>1, <1>5, <1>9 DEF Reported
<1>16. ASSUME Calm PROVE Kept(e, firedAt, clock, F)
  <2>1. Kept(engine, firedAt, clock, F)
    BY <1>16, Known DEF SoundKept, F
  <2>2. v # 0 /\ Object(e, s) = o
    BY <1>7, <1>10, Ranges DEF Object
  <2>3. \A t \in Sched : t # s => Object(e, t) = Object(engine, t)
    BY <1>10 DEF Object
  <2>4. \A t \in Sched : ~Firing(e, t) /\ ~Firing(engine, t)
    BY <1>1, <1>11, <1>16
  <2>5. \A t \in Sched, r \in Runs : /\ LiveOf(e, t, r) <=> LiveOf(engine, t, r)
                                     /\ Beside(e, t, r) <=> Beside(engine, t, r)
    BY <1>9 DEF LiveOf, Beside
  <2>6. Object(engine, s) = old
    BY DEF old
  <2>7. Filed(e)
    BY <2>1, <2>2, <2>3, <1>10 DEF Kept, Filed
  <2>8. Held(e) /\ Clear(e)
    BY <2>4 DEF Held, Clear
  <2>9. Tracked(e)
    <3> SUFFICES ASSUME NEW t \in Sched, NEW r \in Runs, e.cur[t] # 0, LiveOf(engine, t, r)
                 PROVE  \/ Object(e, t).active = r
                        \/ Object(e, t).overlap = "queue" /\ Beside(engine, t, r)
      BY <2>5 DEF Tracked
    <3>1. CASE t = s
      BY <3>1, <2>1, <2>2, <2>6, <1>1, <1>4 DEF Kept, Tracked
    <3>2. CASE t # s
      BY <3>2, <2>1, <2>3, <1>10 DEF Kept, Tracked
    <3> QED
      BY <3>1, <3>2
  <2>10. Numbered(e)
    BY <2>1, <1>9 DEF Kept, Numbered
  <2>11. Owned(e)
    <3> SUFFICES ASSUME NEW t \in Sched, NEW r \in Runs, e.cur[t] # 0, Object(e, t).active = r,
                        engine.runs[r].state = "live"
                 PROVE  engine.owner[r] = t
      BY <1>9 DEF Owned
    <3>1. CASE t = s
      BY <3>1, <2>1, <2>2, <2>6, <1>1, <1>4 DEF Kept, Owned
    <3>2. CASE t # s
      BY <3>2, <2>1, <2>3, <1>10 DEF Kept, Owned
    <3> QED
      BY <3>1, <3>2
  <2>12. Cadence(e, firedAt, clock, F)
    <3> SUFFICES ASSUME NEW t \in Sched PROVE Paced(e, t, Object(e, t), firedAt, clock, F)
      BY DEF Cadence
    <3>1. Paced(engine, t, Object(engine, t), firedAt, clock, F)
      BY <2>1 DEF Kept, Cadence
    <3>2. CASE t = s
      <4>1. firedAt[s] # Never =>
              /\ firedAt[s] \in 0..clock /\ Anchor(old) >= firedAt[s]
              /\ old.pending => clock >= firedAt[s] + Period
        BY <3>1, <3>2, <2>6, <1>1 DEF Paced
      <4>2. Anchor(o) \in {Anchor(old), clock}
        BY <1>4 DEF Anchor
      <4>3. firedAt[s] # Never => Anchor(o) >= firedAt[s]
        BY <4>1, <4>2, Known, Ranges
      <4> QED
        BY <4>1, <4>3, <3>2, <2>2, <2>4, <1>4 DEF Paced
    <3>3. CASE t # s
      BY <3>1, <3>3, <2>3, <2>4, <1>10 DEF Paced
    <3> QED
      BY <3>2, <3>3
  <2> QED
    BY <2>7, <2>8, <2>9, <2>10, <2>11, <2>12 DEF Kept
<1>17. SoundKept(e, upsets + 1, F)
  BY <1>9, <1>13, <1>14, <1>15, <1>16 DEF SoundKept, Sound
<1>18. Leaves(Arm(e), upsets + 1) /\ NoneStarts(e, Arm(e))
  BY <1>17, <1>2, <1>1, Known, Ranges, ArmLeaves DEF F
<1>19. NoneStarts(engine, Arm(e))
  BY <1>9, <1>18 DEF NoneStarts, LiveOf
<1> QED
  BY <1>1, <1>2, <1>18, <1>19, Quiet DEF e, old, v, held, o, F

LEMMA RemoveScheduleKeeps == ASSUME IInv, NEW s \in Sched, RemoveSchedule(s) PROVE Fine
<1> DEFINE F == Launching(engine)
           r == Object(engine, s).active
           gone == [engine EXCEPT !.cur[s] = 0, !.file[s] = NoFile]
           e == IF r = NoRun THEN gone ELSE [gone EXCEPT !.owner[r] = Nobody]
           p == IF r = NoRun THEN engine.owner ELSE [engine.owner EXCEPT ![r] = Nobody]
<1>1. /\ Became(Arm(e)) /\ upsets' = upsets + 1 /\ upsets < MaxUpsets /\ engine.cur[s] # 0
      /\ Calm => F = {}
  BY DEF RemoveSchedule, Upset, Listed, Editable, Calm
<1>2. upsets' \in 0..MaxUpsets /\ upsets \in Nat
  BY <1>1, Known, Ranges
<1>3. /\ engine \in Engine /\ engine.cur \in Lists
      /\ engine.file \in [Sched -> Files \cup {NoFile}]
      /\ engine.owner \in [Runs -> {Nobody} \cup Sched] /\ Counted(engine, upsets)
      /\ Mine(engine) /\ Reported(engine) /\ engine.objs \in [Sched -> Seq(Objects)]
  BY Known, Fields DEF Sound
<1>4. /\ r \in {NoRun} \cup Runs
      /\ r \in Runs => engine.runs[r].by = s
  <2>1. Object(engine, s) \in Objects /\ engine.cur[s] \in 1..Len(engine.objs[s])
    BY <1>1, Known
  <2>2. r \in {NoRun} \cup Runs
    BY <2>1 DEF Objects
  <2>3. \A q \in Runs : engine.objs[s][engine.cur[s]].active = q => engine.runs[q].by = s
    BY <2>1, <1>3 DEF Mine
  <2> QED
    BY <2>2, <2>3 DEF Object
<1>5. /\ e \in Engine /\ e.cur = [engine.cur EXCEPT ![s] = 0]
      /\ e.file = [engine.file EXCEPT ![s] = NoFile] /\ e.owner = p
      /\ e.objs = engine.objs /\ e.firing = engine.firing /\ e.timer = engine.timer
      /\ e.openSince = engine.openSince /\ e.history = engine.history /\ e.runs = engine.runs
  <2>1. [engine.cur EXCEPT ![s] = 0] \in Lists
    BY <1>3, Ranges DEF Lists
  <2>2. [engine.file EXCEPT ![s] = NoFile] \in [Sched -> Files \cup {NoFile}]
    BY <1>3
  <2>3. p \in [Runs -> {Nobody} \cup Sched]
    BY <1>3
  <2>4. e = [engine EXCEPT !.cur = [@ EXCEPT ![s] = 0], !.file = [@ EXCEPT ![s] = NoFile],
                           !.owner = p]
    <3>1. CASE r = NoRun
      <4>1. e = gone /\ p = engine.owner
        BY <3>1
      <4> HIDE DEF e, p
      <4> QED
        BY <4>1, <1>3 DEF Engine
    <3>2. CASE r # NoRun
      <4>1. e = [gone EXCEPT !.owner[r] = Nobody] /\ p = [engine.owner EXCEPT ![r] = Nobody]
        BY <3>2
      <4> HIDE DEF e, p
      <4> QED
        BY <4>1, <1>3 DEF Engine
    <3> QED
      BY <3>1, <3>2
  <2> HIDE DEF e, p
  <2> QED
    BY <2>1, <2>2, <2>3, <2>4, <1>3 DEF Engine
<1>6. \A q \in Runs : p[q] # engine.owner[q] => engine.runs[q].by = s
  BY <1>3, <1>4
<1> HIDE DEF e, p, r, F
<1>7. e.cur[s] = 0 /\ \A t \in Sched : t # s => e.cur[t] = engine.cur[t] /\ e.file[t] = engine.file[t]
  BY <1>3, <1>5 DEF Lists
<1>8. e.file[s] = NoFile
  BY <1>3, <1>5
<1>9. \A t \in Sched : t # s => Object(e, t) = Object(engine, t)
  BY <1>5, <1>7 DEF Object
<1>10. \A t \in Sched : Firing(e, t) <=> Firing(engine, t)
  BY <1>5 DEF Firing
<1>11. Counted(e, upsets)
  <2>1. \A t \in Sched : e.cur[t] <= Len(engine.objs[t])
    <3>1. Len(engine.objs[s]) \in Nat
      BY <1>3
    <3>2. 0 <= Len(engine.objs[s])
      BY <3>1
    <3> QED
      BY <3>2, <1>3, <1>7 DEF Counted
  <2> QED
    BY <2>1, <1>3, <1>5, <1>10 DEF Counted
<1>12. Mine(e)
  <2>1. e.objs = engine.objs /\ e.runs = engine.runs /\ Mine(engine)
    BY <1>3, <1>5
  <2> QED
    BY <2>1 DEF Mine
<1>13. Reported(e)
  <2> SUFFICES ASSUME NEW q \in Runs, engine.history[q] = "launched"
               PROVE  /\ engine.runs[q].state # "none"
                      /\ engine.runs[q].by \in Listed(e) =>
                           \/ engine.runs[q].state = "gone" \/ q \in unseen
                           \/ engine.runs[q].state = "live" /\ p[q] = engine.runs[q].by
    BY <1>5 DEF Reported
  <2>1. engine.runs[q].by \in Listed(e) => engine.runs[q].by # s /\ engine.runs[q].by \in Listed(engine)
    BY <1>7 DEF Listed
  <2> QED
    BY <2>1, <1>3, <1>6 DEF Reported
<1>14. ASSUME Calm PROVE Kept(e, firedAt, clock, F)
  <2>1. Kept(engine, firedAt, clock, F)
    BY <1>14, Known DEF SoundKept, F
  <2>2. \A t \in Sched : ~Firing(e, t) /\ ~Firing(engine, t)
    BY <1>1, <1>10, <1>14 DEF F, Launching
  <2>3. \A t \in Sched, q \in Runs : /\ LiveOf(e, t, q) <=> LiveOf(engine, t, q)
                                     /\ Beside(e, t, q) <=> Beside(engine, t, q)
    BY <1>5 DEF LiveOf, Beside
  <2>4. Filed(e)
    BY <2>1, <1>7, <1>8, <1>9 DEF Kept, Filed
  <2>5. Held(e) /\ Clear(e)
    BY <2>2 DEF Held, Clear
  <2>6. Tracked(e)
    BY <2>1, <2>3, <1>7, <1>9 DEF Kept, Tracked
  <2>7. Numbered(e)
    BY <2>1, <1>5 DEF Kept, Numbered
  <2>8. Owned(e)
    <3> SUFFICES ASSUME NEW t \in Sched, NEW q \in Runs, e.cur[t] # 0, Object(e, t).active = q,
                        engine.runs[q].state = "live"
                 PROVE  p[q] = t
      BY <1>5 DEF Owned
    <3>1. t # s /\ engine.cur[t] # 0 /\ Object(engine, t).active = q
      BY <1>7, <1>9
    <3>2. engine.owner[q] = t
      BY <3>1, <2>1 DEF Kept, Owned
    <3>3. engine.runs[q].by = t
      <4>1. engine.cur[t] \in 1..Len(engine.objs[t])
        BY <3>1, Known
      <4> QED
        BY <3>1, <4>1, <1>3 DEF Mine, Object
    <3> QED
      BY <3>1, <3>2, <3>3, <1>6
  <2>9. Cadence(e, firedAt, clock, F)
    <3> SUFFICES ASSUME NEW t \in Sched PROVE Paced(e, t, Object(e, t), firedAt, clock, F)
      BY DEF Cadence
    <3>1. Paced(engine, t, Object(engine, t), firedAt, clock, F)
      BY <2>1 DEF Kept, Cadence
    <3>2. CASE t = s
      BY <3>1, <3>2, <2>2, <1>7 DEF Paced
    <3>3. CASE t # s
      BY <3>1, <3>3, <2>2, <1>7, <1>9 DEF Paced
    <3> QED
      BY <3>2, <3>3
  <2> QED
    BY <2>4, <2>5, <2>6, <2>7, <2>8, <2>9 DEF Kept
<1>15. SoundKept(e, upsets + 1, F)
  <2>1. SoundKept(e, upsets, F)
    BY <1>5, <1>11, <1>12, <1>13, <1>14 DEF SoundKept, Sound
  <2> QED
    BY <2>1, <1>2, MoreUpsets
<1>16. Leaves(Arm(e), upsets + 1) /\ NoneStarts(e, Arm(e))
  BY <1>15, <1>2, <1>1, Known, Ranges, ArmLeaves DEF F
<1>17. NoneStarts(engine, Arm(e))
  BY <1>5, <1>16 DEF NoneStarts, LiveOf
<1> QED
  BY <1>1, <1>2, <1>16, <1>17, Quiet DEF e, r

\* The caller goes on; a run that starts found nothing it had to wait for.
LEMMA LaunchReturnsKeeps ==
    ASSUME IInv, NEW s \in Sched, NEW st \in {"live", "aborted", "failed"}, LaunchReturns(s, st)
    PROVE  Fine
<1> DEFINE F == Launching(engine)
           f == engine.firing[s]
           Least(x) == engine.runs[x].state = "none"
                         /\ \A y \in Runs : engine.runs[y].state = "none" => x <= y
           r == CHOOSE x \in Runs : Least(x)
           h == Freed(engine, s, r, st)
           g == IF f.by = "tick" THEN TickOn(h, f.now, f.listed, s + 1)
                ELSE IF f.by = "chain" THEN ChainOn(h, f.depth, f.up, f.flow, f.listed, s + 1)
                ELSE Arm(h)
<1>1. /\ Became(g) /\ upsets' = upsets /\ Firing(engine, s)
      /\ \E x \in Runs : engine.runs[x].state = "none"
  BY DEF LaunchReturns, Goes, Freed
<1>2. r \in Runs /\ Least(r)
  <2> DEFINE T == {x \in Runs : engine.runs[x].state = "none"}
  <2>1. T \in SUBSET Nat /\ T # {}
    BY <1>1, Ranges
  <2> HIDE DEF T
  <2>2. PICK x \in T : \A y \in T : ~(y < x)
    BY <2>1, LeastNumber
  <2>3. x \in Runs /\ Least(x)
    BY <2>2, Ranges DEF T
  <2> QED
    BY <2>3
<1> HIDE DEF r
<1>3. Lands(engine, h, upsets, F, s, IF st = "live" THEN r ELSE NoRun)
  <2>1. /\ engine.runs[r].state = "none"
        /\ \A q \in Runs : engine.runs[q].state = "none" => r <= q
    BY <1>2
  <2> QED
    BY <1>1, <1>2, <2>1, Known, FreedKeeps
<1> HIDE DEF h
<1>4. /\ f \in Fires /\ (Calm => f.listed = engine.cur)
      /\ \A t \in Sched : f.listed[t] <= Len(engine.objs[t])
  BY <1>1, Known, HeldObject
<1>5. /\ f.now \in 0..MaxTime /\ f.listed \in Lists /\ f.depth \in Nat
      /\ f.up \in {Nobody} \cup Sched /\ f.flow \in {Nobody} \cup Sched
      /\ f.by \in {"tick", "chain", "manual"}
  <2> HIDE DEF f
  <2> QED
    BY <1>4, Ranges DEF Fires
<1>6. s + 1 \in Nat \ {0}
  BY Ranges
<1>7. /\ SoundKept(h, upsets, F) /\ (Calm => f.listed = h.cur)
      /\ \A t \in Sched : f.listed[t] <= Len(h.objs[t])
      /\ Calm /\ f.by = "chain" => Woken(h, clock)
  BY <1>3, <1>4, Known DEF Lands
<1>8. Calm => /\ f.by = "tick" => f.now <= clock
              /\ f.by = "chain" => f.depth > 0
  BY <1>1, Known DEF SoundKept, Kept, Cadence, Paced, Held
<1> HIDE DEF f, F
<1>9. Leaves(g, upsets) /\ NoneStarts(h, g)
  <2>1. CASE f.by = "tick"
    <3>1. g = TickOn(h, f.now, f.listed, s + 1)
      BY <2>1
    <3> HIDE DEF g
    <3>2. SoundKept(g, upsets, F) /\ Around(h, g) /\ Woken(g, clock)
      BY <2>1, <3>1, <1>5, <1>6, <1>7, <1>8, Known, TickOnKeeps
    <3> QED
      BY <3>2 DEF Leaves, Around, F
  <2>2. CASE f.by = "chain"
    <3>1. g = ChainOn(h, f.depth, f.up, f.flow, f.listed, s + 1)
      BY <2>2
    <3> HIDE DEF g
    <3>2. /\ SoundKept(g, upsets, F) /\ Around(h, g)
          /\ Calm /\ Woken(h, clock) => Woken(g, clock)
      BY <2>2, <3>1, <1>5, <1>6, <1>7, <1>8, Known, ChainOnKeeps
    <3> QED
      BY <2>2, <3>2, <1>7 DEF Leaves, Around, F
  <2>3. CASE f.by = "manual"
    <3>1. g = Arm(h)
      BY <2>3
    <3> HIDE DEF g
    <3> QED
      BY <3>1, <1>7, Known, ArmLeaves DEF F
  <2> QED
    BY <2>1, <2>2, <2>3, <1>5
<1> HIDE DEF g
<1>10. ASSUME Calm PROVE Waits
  <2>1. engine' = g
    BY <1>1 DEF Became
  <2>2. \A t \in Sched, q \in Runs : LiveOf(g, t, q) => LiveOf(engine, t, q) \/ t = s
    BY <1>3, <1>9 DEF Lands, NoneStarts
  <2>3. \A t \in Sched : t # s => Going(t)' \subseteq Going(t)
    BY <2>1, <2>2 DEF Going, LiveOf
  <2>4. ASSUME NEW q \in Going(s)
        PROVE  /\ engine.objs[s][engine.firing[s].obj].overlap = "queue"
               /\ Overtaken(s, q)
    <3>1. q \in Runs /\ LiveOf(engine, s, q)
      BY DEF Going, LiveOf
    <3>2. Held(engine) /\ Clear(engine)
      BY <1>10, Known DEF SoundKept, Kept
    <3>3. /\ Object(engine, s).overlap = "queue"
          /\ engine.firing[s].by = "chain" \/ Beside(engine, s, q)
      BY <3>1, <3>2, <1>1 DEF Clear
    <3>4. engine.objs[s][engine.firing[s].obj] = Object(engine, s)
      BY <3>2, <1>1 DEF Held, Object
    <3> QED
      BY <3>3, <3>4 DEF Overtaken, Beside
  <2> QED
    BY <2>3, <2>4 DEF Waits
<1>11. IInv' /\ (Calm => Cadenced)
  <2>1. upsets' \in 0..MaxUpsets /\ Leaves(g, upsets')
    BY <1>1, <1>9, Known
  <2>2. Became(g)
    BY <1>1
  <2> QED
    BY <2>1, <2>2, BecameKeeps
<1> QED
  BY <1>10, <1>11 DEF Fine

\* A restart reads the files; no launch and no run survives it.
LEMMA RestartKeeps == ASSUME IInv, Restart PROVE Fine
<1> DEFINE loaded == [s \in Sched |-> IF engine.file[s] = NoFile THEN <<>>
                                      ELSE <<engine.file[s]>>]
           runs == [r \in Runs |-> IF engine.runs[r].state = "live"
                         THEN [engine.runs[r] EXCEPT !.state = "parked"] ELSE engine.runs[r]]
           cur == [s \in Sched |-> Len(loaded[s])]
           e == [engine EXCEPT
                   !.objs = loaded, !.cur = cur,
                   !.firing = [s \in Sched |-> NoFire], !.openSince = clock,
                   !.owner = [r \in Runs |-> Nobody], !.runs = runs]
<1>1. /\ engine' = Arm(e) /\ upsets' = upsets + 1 /\ upsets < MaxUpsets
      /\ clock' = clock /\ firedAt' = firedAt /\ unseen' = unseen \cup Untold
  BY DEF Restart
<1>2. upsets' \in 0..MaxUpsets /\ upsets \in Nat /\ clock \in 0..MaxTime
  BY <1>1, Known, Ranges
<1>3. /\ engine \in Engine /\ engine.file \in [Sched -> Files \cup {NoFile}]
      /\ engine.runs \in [Runs -> RunRecords]
  BY Known, Fields
<1>4. \A s \in Sched : engine.file[s] # NoFile => engine.file[s] \in Files
  BY <1>3
<1>5. ASSUME NEW s \in Sched
      PROVE  /\ loaded[s] \in Seq(Objects) /\ cur[s] = Len(loaded[s])
             /\ engine.file[s] = NoFile => cur[s] = 0
             /\ engine.file[s] # NoFile =>
                  cur[s] = 1 /\ loaded[s][1] = engine.file[s] /\ engine.file[s] \in Files
             /\ cur[s] \in {0, 1}
  <2>1. CASE engine.file[s] = NoFile
    <3>1. loaded[s] = <<>> /\ cur[s] = Len(loaded[s])
      BY <2>1
    <3> HIDE DEF loaded, cur
    <3> QED
      BY <2>1, <3>1
  <2>2. CASE engine.file[s] # NoFile
    <3>1. loaded[s] = <<engine.file[s]>> /\ cur[s] = Len(loaded[s])
      BY <2>2
    <3>2. engine.file[s] \in Objects
      BY <2>2, <1>4 DEF Files
    <3> HIDE DEF loaded, cur
    <3> QED
      BY <2>2, <3>1, <3>2, <1>4
  <2> QED
    BY <2>1, <2>2
<1>6. ASSUME NEW r \in Runs
      PROVE  /\ runs[r] \in RunRecords /\ runs[r].by = engine.runs[r].by
             /\ runs[r].state # "live"
             /\ runs[r].state = "none" <=> engine.runs[r].state = "none"
             /\ engine.runs[r].state = "gone" => runs[r].state = "gone"
  <2>1. engine.runs[r] \in RunRecords
    BY <1>3
  <2>2. runs[r] = IF engine.runs[r].state = "live"
                  THEN [engine.runs[r] EXCEPT !.state = "parked"] ELSE engine.runs[r]
    OBVIOUS
  <2> HIDE DEF runs
  <2> QED
    BY <2>1, <2>2 DEF RunRecords
<1>7. /\ e \in Engine /\ e.objs = loaded /\ e.cur = cur /\ e.firing = [s \in Sched |-> NoFire]
      /\ e.history = engine.history /\ e.runs = runs /\ e.file = engine.file
  <2>1. loaded \in [Sched -> Seq(Objects)]
    <3>1. \A s \in Sched : loaded[s] \in Seq(Objects)
      BY <1>5
    <3> QED
      BY <3>1
  <2>2. cur \in Lists
    <3>1. \A s \in Sched : cur[s] \in 0..(MaxUpsets + 1)
      BY <1>5, Ranges
    <3> QED
      BY <3>1 DEF Lists
  <2>3. runs \in [Runs -> RunRecords]
    <3>1. \A r \in Runs : runs[r] \in RunRecords
      BY <1>6
    <3> QED
      BY <3>1
  <2>4. /\ [s \in Sched |-> NoFire] \in [Sched -> Fires \cup {NoFire}]
        /\ [r \in Runs |-> Nobody] \in [Runs -> {Nobody} \cup Sched]
    OBVIOUS
  <2> HIDE DEF loaded, cur, runs
  <2> QED
    BY <2>1, <2>2, <2>3, <2>4, <1>2, <1>3 DEF Engine
<1> HIDE DEF loaded, cur, runs, e
<1>8. \A s \in Sched : ~Firing(e, s)
  BY <1>7 DEF Firing
<1>9. Counted(e, upsets + 1)
  <2>1. \A s \in Sched : Len(loaded[s]) <= (upsets + 1) + 1
    BY <1>2, <1>5
  <2>2. \A s \in Sched : cur[s] <= Len(loaded[s])
    BY <1>5
  <2> QED
    BY <2>1, <2>2, <1>7, <1>8 DEF Counted
<1>10. Mine(e)
  <2> SUFFICES ASSUME NEW s \in Sched, NEW v \in 1..Len(loaded[s]), NEW r \in Runs,
                      loaded[s][v].active = r
               PROVE  FALSE
    BY <1>7 DEF Mine
  <2>1. engine.file[s] # NoFile /\ v = 1
    BY <1>5
  <2>2. loaded[s][v].active = NoRun
    BY <2>1, <1>5 DEF Files
  <2> QED
    BY <2>2, Ranges
<1>12. ASSUME Calm PROVE Kept(e, firedAt, clock, {})
  <2>1. Kept(engine, firedAt, clock, Launching(engine))
    BY <1>12, Known DEF SoundKept
  <2>2. \A s \in Sched, r \in Runs : ~LiveOf(e, s, r)
    BY <1>6, <1>7 DEF LiveOf
  <2>3. ASSUME NEW s \in Sched
        PROVE  /\ cur[s] = 0 <=> engine.cur[s] = 0
               /\ cur[s] # 0 => /\ Object(e, s) = engine.file[s] /\ engine.file[s] \in Files
                                /\ engine.file[s] = Loaded(Object(engine, s))
    <3>1. engine.file[s] = IF engine.cur[s] = 0 THEN NoFile ELSE Loaded(Object(engine, s))
      BY <2>1 DEF Kept, Filed
    <3>2. engine.cur[s] # 0 => Object(engine, s) \in Objects
      BY Known
    <3>3. engine.cur[s] # 0 => engine.file[s] # NoFile
      <4> SUFFICES ASSUME engine.cur[s] # 0 PROVE engine.file[s] # NoFile
        OBVIOUS
      <4>1. engine.file[s] \in Objects
        BY <3>1, <3>2 DEF Loaded, Objects
      <4>2. NoFile \notin Objects
        BY DEF NoFile, Objects
      <4> QED
        BY <4>1, <4>2
    <3> QED
      BY <3>1, <3>3, <1>5, <1>7 DEF Object
  <2>4. Filed(e)
    <3> SUFFICES ASSUME NEW s \in Sched
                 PROVE  engine.file[s] = IF cur[s] = 0 THEN NoFile ELSE Loaded(Object(e, s))
      BY <1>7 DEF Filed
    <3>1. CASE cur[s] = 0
      BY <3>1, <1>5
    <3>2. CASE cur[s] # 0
      <4>1. Object(e, s) = engine.file[s] /\ engine.file[s] \in Files
        BY <3>2, <2>3
      <4>2. \A o \in Files : Loaded(o) = o
        BY DEF Files, Objects, Loaded
      <4> QED
        BY <3>2, <4>1, <4>2
    <3> QED
      BY <3>1, <3>2
  <2>5. Held(e) /\ Clear(e) /\ Tracked(e)
    BY <2>2, <1>8 DEF Held, Clear, Tracked
  <2>6. Numbered(e)
    BY <2>1, <1>6, <1>7 DEF Kept, Numbered
  <2>7. Owned(e)
    BY <1>6, <1>7 DEF Owned
  <2>8. Cadence(e, firedAt, clock, {})
    <3> SUFFICES ASSUME NEW s \in Sched PROVE Paced(e, s, Object(e, s), firedAt, clock, {})
      BY DEF Cadence
    <3>1. Paced(engine, s, Object(engine, s), firedAt, clock, Launching(engine))
      BY <2>1 DEF Kept, Cadence
    <3>2. CASE cur[s] = 0
      BY <3>1, <3>2, <1>7, <1>8 DEF Paced
    <3>3. CASE cur[s] # 0
      <4>1. engine.cur[s] # 0 /\ Object(engine, s) \in Objects
        BY <3>3, <2>3, Known
      <4>2. Object(e, s) = Loaded(Object(engine, s))
        BY <3>3, <2>3
      <4>3. /\ Object(e, s).lastFired = Object(engine, s).lastFired
            /\ Object(e, s).anchor = Object(engine, s).anchor
            /\ Object(e, s).pending = Object(engine, s).pending
        BY <4>1, <4>2 DEF Loaded, Objects
      <4> QED
        BY <3>1, <4>1, <4>3, <1>8 DEF Paced, Anchor
    <3> QED
      BY <3>2, <3>3
  <2> QED
    BY <2>4, <2>5, <2>6, <2>7, <2>8 DEF Kept
<1>14. TimerChanged(e, Arm(e)) /\ Woken(Arm(e), clock)
  BY <1>2, <1>7, Armed
\* Whatever was told as launched is over, and told no further, or is noted.
<1>15. Reported(engine)'
  <2> SUFFICES ASSUME NEW r \in Runs, engine.history[r] = "launched"
               PROVE  /\ runs[r].state # "none"
                      /\ runs[r].state = "gone" \/ r \in unseen'
    BY <1>1, <1>7, <1>14 DEF Reported, TimerChanged
  <2>1. /\ engine.runs[r].state # "none"
        /\ engine.runs[r].by \in Listed(engine) =>
             \/ engine.runs[r].state = "gone" \/ r \in unseen
             \/ engine.runs[r].state = "live"
    BY Known DEF Sound, Reported
  <2>2. r \in unseen \/ r \in Untold \/ engine.runs[r].state = "gone"
    BY <2>1 DEF Untold
  <2> QED
    BY <2>1, <2>2, <1>1, <1>6
<1>11. Sound(engine, upsets)'
  <2>1. Arm(e) \in Engine /\ Counted(Arm(e), upsets + 1) /\ Mine(Arm(e))
    BY <1>9, <1>10, <1>14 DEF Counted, Mine, TimerChanged, Firing
  <2> QED
    BY <2>1, <1>1, <1>15 DEF Sound
<1>13. Calm => Kept(Arm(e), firedAt, clock, {})
  BY <1>12, <1>14, TimerStaysKept
<1>16. Launching(Arm(e)) = {}
  BY <1>8, <1>14 DEF TimerChanged, Launching, Firing
<1>17. SoundKept(engine, upsets, Launching(engine))'
  <2>1. Sound(engine, upsets)' /\ (Calm => Kept(engine', firedAt', clock', Launching(engine')))
    BY <1>1, <1>11, <1>13, <1>16
  <2> QED
    BY <2>1 DEF SoundKept
<1>18. Typed'
  BY <1>1, <1>2 DEF IInv, Typed, Untold
<1>19. (Calm => Woken(engine, clock))'
  BY <1>1, <1>14
<1>20. Cadenced /\ Waits
  <2>1. \A s \in Sched, q \in Runs : ~LiveOf(Arm(e), s, q)
    BY <1>6, <1>7, <1>14 DEF LiveOf, TimerChanged
  <2>2. NoneStarts(engine, Arm(e))
    BY <2>1 DEF NoneStarts
  <2> QED
    BY <2>2, <1>1, StillWaits DEF Cadenced
<1> QED
  BY <1>17, <1>18, <1>19, <1>20 DEF Fine, IInv

LEMMA InitKept == Init => IInv
<1> SUFFICES ASSUME Init PROVE IInv
  OBVIOUS
<1>1. PICK overlap \in Overlaps, catchUp \in CatchUps :
        LET trigger(s) == IF s \in Chained THEN "chain" ELSE "timer"
            o == [s \in Sched |-> New(trigger(s), overlap, catchUp, TRUE)]
        IN  engine = Arm([objs    |-> [s \in Sched |-> <<o[s]>>],
                          cur     |-> [s \in Sched |-> 1],
                          file    |-> o,
                          firing  |-> [s \in Sched |-> NoFire],
                          timer   |-> NoTimer, openSince |-> 0,
                          owner   |-> [r \in Runs |-> Nobody],
                          history |-> [r \in Runs |-> "none"],
                          runs    |-> [r \in Runs |->
                                         [by |-> Nobody, depth |-> 0, state |-> "none"]]])
  BY DEF Init
<1> DEFINE trigger(s) == IF s \in Chained THEN "chain" ELSE "timer"
           o == [s \in Sched |-> New(trigger(s), overlap, catchUp, TRUE)]
           objs == [s \in Sched |-> <<o[s]>>]
           idle == [by |-> Nobody, depth |-> 0, state |-> "none"]
           e == [objs    |-> objs,
                 cur     |-> [s \in Sched |-> 1],
                 file    |-> o,
                 firing  |-> [s \in Sched |-> NoFire],
                 timer   |-> NoTimer, openSince |-> 0,
                 owner   |-> [r \in Runs |-> Nobody],
                 history |-> [r \in Runs |-> "none"],
                 runs    |-> [r \in Runs |-> idle]]
<1>2. engine = Arm(e)
  BY <1>1
<1>3. clock = 0 /\ upsets = 0 /\ firedAt = [s \in Sched |-> Never]
  BY DEF Init
<1>4. clock \in 0..MaxTime /\ upsets \in 0..MaxUpsets /\ 0 \in 0..MaxTime
  BY <1>3, Ranges
<1>5. ASSUME NEW s \in Sched PROVE o[s] \in Files
  <2>1. overlap \in {"skip", "queue", "replace"} /\ catchUp \in {"skip", "once"}
    BY KindAssumption
  <2>2. \A x \in {"timer", "chain"} : New(x, overlap, catchUp, TRUE) \in Files
    BY <2>1, <1>4 DEF New, Files, Objects
  <2>3. trigger(s) \in {"timer", "chain"} /\ o[s] = New(trigger(s), overlap, catchUp, TRUE)
    OBVIOUS
  <2> HIDE DEF o, trigger
  <2> QED
    BY <2>2, <2>3
<1>6. \A s \in Sched : objs[s] = <<o[s]>>
  OBVIOUS
<1>7. o \in [Sched -> Files]
  <2> DEFINE w == o
  <2>1. \A s \in Sched : w[s] \in Files
    BY <1>5
  <2>2. w = [s \in Sched |-> w[s]]
    OBVIOUS
  <2> HIDE DEF w
  <2>3. w \in [Sched -> Files]
    BY <2>1, <2>2
  <2> QED
    BY <2>3 DEF w
<1> HIDE DEF o
<1>8. ASSUME NEW s \in Sched
      PROVE  objs[s] \in Seq(Objects) /\ Len(objs[s]) = 1 /\ objs[s][1] = o[s]
  <2>1. o[s] \in Objects
    BY <1>5 DEF Files
  <2>2. objs[s] = <<o[s]>>
    BY <1>6
  <2> HIDE DEF objs
  <2>3. ASSUME NEW z \in Objects, NEW q, q = <<z>>
        PROVE  q \in Seq(Objects) /\ Len(q) = 1 /\ q[1] = z
    BY <2>3
  <2> QED
    BY <2>1, <2>2, <2>3
<1>9. objs \in [Sched -> Seq(Objects)]
  BY <1>8
<1> HIDE DEF objs
<1>10. e \in Engine
  <2>1. [s \in Sched |-> 1] \in Lists
    BY Ranges DEF Lists
  <2>2. idle \in RunRecords
    <3>1. 0 \in 0..MaxChain
      BY Ranges
    <3> QED
      BY <3>1 DEF RunRecords
  <2> HIDE DEF idle
  <2>3. /\ [s \in Sched |-> NoFire] \in [Sched -> Fires \cup {NoFire}]
        /\ [r \in Runs |-> Nobody] \in [Runs -> {Nobody} \cup Sched]
        /\ [r \in Runs |-> "none"] \in [Runs -> {"none", "launched", "done", "failed"}]
        /\ [r \in Runs |-> idle] \in [Runs -> RunRecords]
        /\ o \in [Sched -> Files \cup {NoFile}]
    BY <2>2, <1>7
  <2> QED
    BY <2>1, <2>3, <1>4, <1>9 DEF Engine
<1>11. /\ e.objs = objs /\ e.cur = [s \in Sched |-> 1] /\ e.file = o
       /\ e.firing = [s \in Sched |-> NoFire] /\ e.history = [r \in Runs |-> "none"]
       /\ e.runs = [r \in Runs |-> idle]
  OBVIOUS
<1> HIDE DEF e
<1>12. /\ \A s \in Sched : ~Firing(e, s) /\ Object(e, s) = o[s] /\ e.cur[s] = 1
       /\ \A r \in Runs : e.runs[r].state = "none" /\ e.runs[r].by = Nobody
  BY <1>8, <1>11 DEF Firing, Object
<1>13. Sound(e, upsets)
  <2>1. Counted(e, upsets)
    <3>1. \A s \in Sched : e.cur[s] = 1 /\ Len(e.objs[s]) = 1
      BY <1>8, <1>11, <1>12
    <3>2. upsets + 1 = 1 /\ 1 <= 1
      BY <1>3
    <3>3. \A s \in Sched : e.cur[s] <= Len(e.objs[s]) /\ Len(e.objs[s]) <= upsets + 1
      BY <3>1, <3>2
    <3>4. \A s \in Sched : ~Firing(e, s)
      BY <1>12
    <3> QED
      BY <3>3, <3>4 DEF Counted
  <2>2. Mine(e)
    <3> SUFFICES ASSUME NEW s \in Sched, NEW v \in 1..Len(objs[s]), NEW r \in Runs,
                        objs[s][v].active = r
                 PROVE  FALSE
      BY <1>11 DEF Mine
    <3>1. objs[s][v] = o[s]
      BY <1>8
    <3>2. o[s].active = NoRun
      BY <1>5 DEF Files
    <3> QED
      BY <3>1, <3>2, Ranges
  <2>3. Reported(e)
    BY <1>11 DEF Reported
  <2> QED
    BY <2>1, <2>2, <2>3, <1>10 DEF Sound
<1>14. Kept(e, firedAt, clock, {})
  <2>1. Filed(e)
    <3>1. \A x \in Files : Loaded(x) = x
      BY DEF Files, Objects, Loaded
    <3>2. ASSUME NEW s \in Sched PROVE e.file[s] = Loaded(Object(e, s)) /\ e.cur[s] # 0
      <4>1. e.file[s] = o[s] /\ Object(e, s) = o[s] /\ o[s] \in Files /\ e.cur[s] = 1
        BY <1>5, <1>11, <1>12
      <4> QED
        BY <3>1, <4>1
    <3> QED
      BY <3>2 DEF Filed
  <2>2. Held(e) /\ Clear(e) /\ Tracked(e) /\ Owned(e) /\ Numbered(e)
    BY <1>12 DEF Held, Clear, Tracked, Owned, Numbered, LiveOf
  <2>3. Cadence(e, firedAt, clock, {})
    BY <1>3, <1>12 DEF Cadence, Paced
  <2> QED
    BY <2>1, <2>2, <2>3 DEF Kept
<1>15. SoundKept(e, upsets, {})
  BY <1>13, <1>14 DEF SoundKept
<1>16. TimerChanged(e, engine) /\ Woken(engine, clock)
  BY <1>2, <1>4, <1>10, Armed
<1>17. SoundKept(engine, upsets, {})
  <2>1. upsets \in Nat
    BY <1>3
  <2> QED
    BY <2>1, <1>15, <1>16, TimerKeeps
<1>18. Launching(engine) = {}
  BY <1>12, <1>16 DEF TimerChanged, Launching, Firing
<1>19. Typed
  BY <1>3, <1>4 DEF Typed, Init
<1> QED
  BY <1>16, <1>17, <1>18, <1>19 DEF IInv

\* Every step keeps the invariant, and does what a step may.
LEMMA StepKeeps == ASSUME IInv, Next PROVE Fine
<1>1. CASE TimePasses
  BY <1>1, TimePassesKeeps
<1>2. CASE TimerFires
  BY <1>2, TimerFiresKeeps
<1>3. CASE HostResumes
  BY <1>3, HostResumesKeeps
<1>4. CASE Restart
  BY <1>4, RestartKeeps
<1>5. CASE \E s \in Sched : RunNow(s)
  BY <1>5, RunNowKeeps
<1>6. CASE \E s \in Sched : RemoveSchedule(s)
  BY <1>6, RemoveScheduleKeeps
<1>7. CASE \E s \in Sched : ForeignRunEnds(s)
  BY <1>7, ForeignRunEndsKeeps
<1>8. CASE \E s \in Sched : \E enabled \in BOOLEAN : SetEnabled(s, enabled)
  BY <1>8, SetEnabledKeeps
<1>9. CASE \E s \in Sched : \E trigger \in {"timer", "chain"}, enabled \in BOOLEAN :
             Save(s, trigger, enabled)
  BY <1>9, SaveKeeps
<1>10. CASE \E s \in Sched : \E st \in {"live", "aborted", "failed"} : LaunchReturns(s, st)
  BY <1>10, LaunchReturnsKeeps
<1>11. CASE \E r \in Runs : RunDeleted(r)
  BY <1>11, RunDeletedKeeps
<1>12. CASE \E r \in Runs : \E st \in {"done", "aborted"} : RunEnds(r, st)
  BY <1>12, RunEndsKeeps
<1> QED
  BY <1>1, <1>2, <1>3, <1>4, <1>5, <1>6, <1>7, <1>8, <1>9, <1>10, <1>11, <1>12 DEF Next

-----------------------------------------------------------------------------
(* The theorems.                                                           *)

\* The invariant holds throughout, with edits at any moment: the part that needs
\* Calm is stated under it.
THEOREM Invariant == Spec => []IInv
<1>1. IInv /\ [Next]_vars => IInv'
  <2> SUFFICES ASSUME IInv, [Next]_vars PROVE IInv'
    OBVIOUS
  <2>1. CASE Next
    BY <2>1, StepKeeps DEF Fine
  <2>2. CASE UNCHANGED vars
    <3>1. Sound(engine, upsets)'
      BY <2>2, Known, SoundNow DEF vars
    <3> QED
      BY <2>2, <3>1 DEF vars, IInv, Typed, SoundKept
  <2> QED
    BY <2>1, <2>2
<1> QED
  BY <1>1, InitKept, PTL DEF Spec

\* The variables keep their types: a walk over the schedules, however far it
\* gets, leaves an engine, and a file never names a run.
THEOREM TypeCorrect == Spec => []TypeOK
<1>1. IInv => TypeOK
  BY DEF IInv, Typed, SoundKept, Sound, TypeOK
<1> QED
  BY <1>1, Invariant, PTL

\* Whenever edits, restarts and launches meet, a run that ended in the process
\* that launched it is not told as still going in the list of its schedule, then
\* or in any later process.
THEOREM ToldHolds == Spec => []Told
<1>1. IInv => Told
  <2> SUFFICES ASSUME IInv, NEW r \in Runs, engine.runs[r].by \in Listed(engine),
                      engine.history[r] = "launched"
               PROVE  engine.runs[r].state \notin {"done", "aborted"} \/ r \in unseen
    BY DEF Told
  <2> QED
    BY DEF IInv, SoundKept, Sound, Reported
<1> QED
  BY <1>1, Invariant, PTL

\* While no edit replaces what a launch holds: a schedule on the clock has a
\* timer set or a tick that will set one, and an owed firing is due at once when
\* its run is over.
THEOREM WakeUpHolds == ASSUME Calm PROVE Spec => []WakeUpIsSet
<1>1. IInv => WakeUpIsSet
  BY DEF IInv, Woken, WakeUpIsSet, Timed, Over
<1> QED
  BY <1>1, Invariant, PTL

\* While no edit replaces what a launch holds, a schedule's run starts only when
\* no earlier one goes, but for what a chain overtakes under "queue".
THEOREM Overlap == ASSUME Calm PROVE Spec => NoOverlap
<1>1. IInv /\ [Next]_vars =>
        [\A s \in Sched : ~(Going(s)' \subseteq Going(s)) =>
            \A r \in Going(s) : /\ engine.objs[s][engine.firing[s].obj].overlap = "queue"
                                 /\ Overtaken(s, r)]_vars
  BY StepKeeps DEF Fine, Waits
<1> QED
  BY <1>1, Invariant, PTL DEF Spec, NoOverlap

\* While no edit replaces what a launch holds, a schedule fires at most once a
\* period on its cadence.
THEOREM OncePerPeriodHolds == ASSUME Calm PROVE Spec => OncePerPeriod
<1>1. IInv /\ [Next]_vars =>
        [\A s \in Sched : firedAt'[s] # firedAt[s] /\ firedAt[s] # Never
           => clock >= firedAt[s] + Period]_vars
  BY StepKeeps DEF Fine, Cadenced
<1> QED
  BY <1>1, Invariant, PTL DEF Spec, OncePerPeriod
=============================================================================
