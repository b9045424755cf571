------------------------- MODULE OrchestratorProofs -------------------------
(***************************************************************************)
(* What holds of Orchestrator for every number of items and runs, every    *)
(* cap, every way to run a batch and every set of hazards.                 *)
(*                                                                         *)
(* The handlers of the code are functions from engine state to engine      *)
(* state, called from inside each other, so the argument is about those    *)
(* functions: each of Persist, MaybeComplete, LaunchNext, PumpLoop, Pump   *)
(* and OnRunUpdate takes an engine that satisfies EngineOK to one that     *)
(* does.  An action is then a few changes of status between such calls.    *)
(***************************************************************************)
EXTENDS Orchestrator, Walks, TLAPS, FiniteSetTheorems

\* The runs the runtime has ever minted.
Minted == {r \in Runs : runState[r] # "none"}

\* A ledger whose runs are all in M: nothing waits with a run, no run is linked
\* twice, the commits are those of the linked runs, and a complete ledger has
\* nothing to launch.  It holds of the batch in memory and of the saved one.
LedgerOK(o, M) ==
    /\ \A i \in Items : o.status[i] \in {"proposed", "queued"} => o.runId[i] = NoRun
    /\ \A i \in Items : o.runId[i] # NoRun => o.runId[i] \in M
    /\ \A i, j \in Items : o.runId[i] # NoRun /\ o.runId[i] = o.runId[j] => i = j
    /\ \A i \in Items : o.headSha[i] \in {NoRun, o.runId[i]}
    /\ o.completed => \A i \in Items : /\ o.status[i] \notin {"proposed", "queued"}
                                       /\ o.status[i] = "running" => o.runId[i] # NoRun

\* The pumps that wait for a launch are those of the running, unlinked items.
Tracked(e) ==
    /\ e.forking \cap e.starting = {}
    /\ \A i \in Items : i \in e.forking \cup e.starting
                          <=> e.o.status[i] = "running" /\ e.o.runId[i] = NoRun

EngineOK(e, M) ==
    /\ e \in Engine
    /\ LedgerOK(e.o, M)
    /\ e.file # NoFile => LedgerOK(e.file, M)
    /\ Tracked(e)

\* The inductive invariant.  The three properties it implies are not inductive
\* alone: a launch in flight links a run (so the item had none before), and a
\* restart brings back the saved ledger (so that one must satisfy them too).
IInv == TypeOK /\ EngineOK(engine, Minted)

-----------------------------------------------------------------------------
\* A nonempty set of naturals has a least element.
LEMMA SmallestExists == ASSUME NEW S \in SUBSET Nat, S # {}
                        PROVE  \E i \in S : \A j \in S : i <= j
<1>1. PICK m \in S : \A y \in S : ~(y < m)
  BY LeastNumber
<1> QED  BY <1>1

\* `o.items.find` finds an item of the set it is asked about.
LEMMA FirstIn == ASSUME NEW S \in SUBSET Nat, S # {}  PROVE First(S) \in S
  BY SmallestExists DEF First

\* Items and runs are naturals, and so are different from NoRun where that matters.
LEMMA ItemsNat == Items \in SUBSET Nat /\ Runs \in SUBSET Nat
  BY SizeAssumption DEF Items, Runs

\* An assignment to item.status changes nothing else.
LEMMA StatusSet ==
    ASSUME NEW e \in Engine, NEW S \in SUBSET Items, NEW st \in ItemStatus
    PROVE  /\ SetStatus(e, S, st) \in Engine
           /\ \A i \in Items : SetStatus(e, S, st).o.status[i]
                                = IF i \in S THEN st ELSE e.o.status[i]
           /\ SetStatus(e, S, st).o.runId = e.o.runId
           /\ SetStatus(e, S, st).o.headSha = e.o.headSha
           /\ SetStatus(e, S, st).o.completed = e.o.completed
           /\ SetStatus(e, S, st).file = e.file
           /\ SetStatus(e, S, st).forking = e.forking
           /\ SetStatus(e, S, st).starting = e.starting
<1> DEFINE f == [i \in Items |-> IF i \in S THEN st ELSE e.o.status[i]]
<1>1. f \in [Items -> ItemStatus]
  BY DEF Engine, Ledger
<1>2. SetStatus(e, S, st) = [e EXCEPT !.o = [e.o EXCEPT !.status = f]]
  BY DEF SetStatus, Engine, Ledger
<1>3. [e.o EXCEPT !.status = f] \in Ledger
  BY <1>1 DEF Engine, Ledger
<1> QED  BY <1>2, <1>3 DEF Engine, Ledger

\* The part of StatusSet the multi-step handlers need, from EngineOK.
LEMMA StatusFrame ==
    ASSUME NEW M, NEW e, EngineOK(e, M), NEW S \in SUBSET Items, NEW st \in ItemStatus
    PROVE  /\ SetStatus(e, S, st) \in Engine
           /\ SetStatus(e, S, st).forking = e.forking
           /\ SetStatus(e, S, st).starting = e.starting
           /\ SetStatus(e, S, st).o.runId = e.o.runId
<1>1. e \in Engine  BY DEF EngineOK
<1> DEFINE f == SetStatus(e, S, st)
<1>2. /\ f \in Engine /\ f.o.runId = e.o.runId
      /\ f.forking = e.forking /\ f.starting = e.starting
  BY <1>1, StatusSet
<1> QED  BY <1>2

\* persistAndEmit keeps EngineOK: it saves a good ledger.
LEMMA PersistOK ==
    ASSUME NEW M, NEW e, EngineOK(e, M)  PROVE EngineOK(Persist(e), M)
  BY DEF EngineOK, Persist, Engine, Ledger, Tracked

\* maybeComplete changes at most completedAt, pausedAt and that it is halfway.
LEMMA MaybeCompleteFrame ==
    ASSUME NEW e \in Engine
    PROVE  LET g == MaybeComplete(e)
           IN  /\ g \in Engine
               /\ g.o.status = e.o.status /\ g.o.runId = e.o.runId
               /\ g.o.headSha = e.o.headSha
               /\ g.live = e.live /\ g.file = e.file
               /\ g.forking = e.forking /\ g.starting = e.starting
               /\ g.reclaiming = e.reclaiming /\ g.capturing = e.capturing
               /\ \/ g = e /\ ~(~e.o.completed /\ IsComplete(e.o))
                  \/ ~e.o.completed /\ IsComplete(e.o) /\ g.o.completed /\ ~g.o.paused
                       /\ g.closing
<1> DEFINE o == [e.o EXCEPT !.completed = TRUE, !.paused = FALSE]
           g == [e EXCEPT !.o = o, !.closing = TRUE]
<1>1. CASE ~(~e.o.completed /\ IsComplete(e.o))
  BY <1>1 DEF MaybeComplete
<1>2. CASE ~e.o.completed /\ IsComplete(e.o)
  <2>1. [e EXCEPT !.o.completed = TRUE, !.o.paused = FALSE, !.closing = TRUE] = g
    BY DEF Engine, Ledger
  <2>2. /\ o \in Ledger /\ o.status = e.o.status /\ o.runId = e.o.runId
        /\ o.headSha = e.o.headSha /\ o.completed = TRUE /\ o.paused = FALSE
    BY DEF Engine, Ledger
  <2> HIDE DEF o
  <2>3. /\ g \in Engine /\ g.o = o /\ g.closing = TRUE
        /\ g.live = e.live /\ g.file = e.file
        /\ g.forking = e.forking /\ g.starting = e.starting
        /\ g.reclaiming = e.reclaiming /\ g.capturing = e.capturing
    BY <2>2 DEF Engine
  <2> HIDE DEF g
  <2> QED  BY <1>2, <2>1, <2>2, <2>3 DEF MaybeComplete
<1> QED  BY <1>1, <1>2

\* maybeComplete keeps EngineOK: it completes only a settled ledger.
LEMMA MaybeCompleteOK ==
    ASSUME NEW M, NEW e, EngineOK(e, M)  PROVE EngineOK(MaybeComplete(e), M)
<1> DEFINE g == MaybeComplete(e)
<1>0. e \in Engine  BY DEF EngineOK
<1>1. /\ g \in Engine
      /\ g.o.status = e.o.status /\ g.o.runId = e.o.runId /\ g.o.headSha = e.o.headSha
      /\ g.file = e.file /\ g.forking = e.forking /\ g.starting = e.starting
      /\ g = e \/ IsComplete(e.o)
  BY <1>0, MaybeCompleteFrame
<1> HIDE DEF g
<1>2. LedgerOK(g.o, M)
  BY <1>1 DEF EngineOK, LedgerOK, IsComplete, Settled
<1>3. EngineOK(g, M)
  BY <1>1, <1>2 DEF EngineOK, Tracked
<1> QED  BY <1>3 DEF g

\* A status assigned to items without a launch in flight keeps EngineOK, if it
\* queues only what has no run and runs only what has one.
LEMMA StatusOK ==
    ASSUME NEW M, NEW e, EngineOK(e, M), NEW S \in SUBSET Items, NEW st \in ItemStatus,
           S \cap (e.forking \cup e.starting) = {},
           st \in {"proposed", "queued"} =>
               \A i \in S : e.o.status[i] \in {"proposed", "queued"},
           st = "running" => \A i \in S : e.o.runId[i] # NoRun
    PROVE  EngineOK(SetStatus(e, S, st), M)
<1> DEFINE f == SetStatus(e, S, st)
<1>0. e \in Engine  BY DEF EngineOK
<1>1. /\ f \in Engine
      /\ \A i \in Items : f.o.status[i] = IF i \in S THEN st ELSE e.o.status[i]
      /\ f.o.runId = e.o.runId /\ f.o.headSha = e.o.headSha
      /\ f.o.completed = e.o.completed /\ f.file = e.file
      /\ f.forking = e.forking /\ f.starting = e.starting
  BY <1>0, StatusSet
<1> HIDE DEF f
<1>2. LedgerOK(f.o, M)
  BY <1>1 DEF EngineOK, LedgerOK
<1>3. Tracked(f)
  BY <1>1 DEF EngineOK, Tracked
<1> QED  BY <1>1, <1>2, <1>3 DEF EngineOK, f

\* pump marks a queued item running together with the launch it waits for.
LEMMA LaunchNextOK ==
    ASSUME NEW M, NEW e, EngineOK(e, M), With(e, {"queued"}) # {}
    PROVE  EngineOK(LaunchNext(e), M)
<1> DEFINE next == First(With(e, {"queued"}))
           f    == SetStatus(e, {next}, "running")
           g    == [f EXCEPT !.forking = @ \cup {next}]
           h    == [f EXCEPT !.starting = @ \cup {next}]
<1>1. next \in Items /\ e.o.status[next] = "queued"
  <2>1. With(e, {"queued"}) \in SUBSET Nat
    BY ItemsNat DEF With
  <2> QED  BY <2>1, FirstIn DEF With
<1>2. "running" \in ItemStatus  BY DEF ItemStatus
<1>0. e \in Engine /\ {next} \in SUBSET Items  BY <1>1 DEF EngineOK
<1>3. /\ f \in Engine
      /\ \A i \in Items : f.o.status[i] = IF i \in {next} THEN "running" ELSE e.o.status[i]
      /\ f.o.runId = e.o.runId /\ f.o.headSha = e.o.headSha
      /\ f.o.completed = e.o.completed /\ f.file = e.file
      /\ f.forking = e.forking /\ f.starting = e.starting
  BY <1>0, <1>2, StatusSet
<1>4. LaunchNext(e) = g \/ LaunchNext(e) = h
  BY DEF LaunchNext
<1> HIDE DEF next, f
<1>5. e.o.runId[next] = NoRun /\ ~e.o.completed
  BY <1>1 DEF EngineOK, LedgerOK
<1>6. LedgerOK(f.o, M)
  BY <1>1, <1>3, <1>5 DEF EngineOK, LedgerOK
<1>7. /\ g \in Engine /\ g.o = f.o /\ g.file = f.file
      /\ g.forking = f.forking \cup {next} /\ g.starting = f.starting
      /\ h \in Engine /\ h.o = f.o /\ h.file = f.file
      /\ h.starting = f.starting \cup {next} /\ h.forking = f.forking
  BY <1>1, <1>3 DEF Engine
<1> HIDE DEF g, h
<1>8. next \notin e.forking \cup e.starting
  BY <1>1 DEF EngineOK, Tracked
<1>9. Tracked(g) /\ Tracked(h)
  BY <1>1, <1>3, <1>5, <1>7, <1>8 DEF EngineOK, Tracked
<1> QED  BY <1>3, <1>4, <1>6, <1>7, <1>9 DEF EngineOK

\* The loop of pump keeps EngineOK from one await to the next.
LEMMA PumpLoopOK ==
    ASSUME NEW M, NEW e, EngineOK(e, M), NEW b \in BOOLEAN
    PROVE  EngineOK(PumpLoop(e, b), M)
  BY LaunchNextOK, PersistOK, MaybeCompleteOK DEF PumpLoop, SlotFree

\* pump keeps EngineOK, whether it returns, reclaims or launches.
LEMMA PumpOnDutyOK ==
    ASSUME NEW M, NEW e, EngineOK(e, M)  PROVE EngineOK(PumpOnDuty(e), M)
<1>1. EngineOK([e EXCEPT !.reclaiming = @ + 1], M)
  BY DEF EngineOK, Engine, Tracked
<1> QED  BY <1>1, PumpLoopOK DEF PumpOnDuty

\* pump keeps EngineOK with the crew away too.
LEMMA PumpOK ==
    ASSUME NEW M, NEW e, EngineOK(e, M)  PROVE EngineOK(Pump(e), M)
  BY PumpOnDutyOK DEF Pump

\* The observer keeps EngineOK for any update of any run, re-entrant or not.
LEMMA OnRunUpdateOK ==
    ASSUME NEW M, NEW e, EngineOK(e, M), NEW r \in Runs, NEW kind
    PROVE  EngineOK(OnRunUpdate(e, r, kind), M)
<1> DEFINE i     == CHOOSE j \in Items : e.o.runId[j] = r
           again == SetStatus(e, {i}, "running")
           ended == IF kind = "done" THEN "done" ELSE "failed"
<1> CASE \A j \in Items : e.o.runId[j] # r
  BY DEF OnRunUpdate
<1> CASE \E j \in Items : e.o.runId[j] = r
  <2>1. i \in Items /\ e.o.runId[i] = r  OBVIOUS
  <2> HIDE DEF i
  <2>2. r # NoRun  BY ItemsNat, SizeAssumption DEF Runs, NoRun
  <2>3. i \notin e.forking \cup e.starting
    BY <2>1, <2>2 DEF EngineOK, Tracked
  <2>4. {"paused", "running", "done", "failed"} \subseteq ItemStatus
    BY DEF ItemStatus, Settled
  <2>5. EngineOK(Park(e, i), M)
    BY <2>1, <2>3, <2>4, StatusOK, PersistOK, PumpOK DEF Park
  <2>6. EngineOK(again, M)
    BY <2>1, <2>2, <2>3, <2>4, StatusOK
  <2>7. EngineOK(Settle(e, i, r, ended), M)
    <3> DEFINE p == Persist(SetStatus(e, {i}, ended))
    <3>1. EngineOK(p, M)
      BY <2>1, <2>3, <2>4, StatusOK, PersistOK
    <3> HIDE DEF p, ended
    <3>2. EngineOK([p EXCEPT !.capturing = @ \cup {<<i, r>>}], M)
      BY <3>1, <2>1 DEF EngineOK, Engine, Tracked
    <3> QED  BY <3>2, PumpOK DEF Settle, p
  <2>8. \/ OnRunUpdate(e, r, kind) = e
        \/ OnRunUpdate(e, r, kind) = Park(e, i)
        \/ OnRunUpdate(e, r, kind) = Persist(again)
        \/ OnRunUpdate(e, r, kind) = Settle(e, i, r, ended)
    BY Zenon DEF OnRunUpdate, i
  <2> QED  BY <2>5, <2>6, <2>7, <2>8, PersistOK
<1> QED  OBVIOUS

-----------------------------------------------------------------------------
(* The initial states and the steps. *)

\* A new batch is saved with a ledger that has no runs.
LEMMA CreatedOK ==
    ASSUME NEW auto \in 0..N  PROVE EngineOK(Persist(Created(auto)), Minted)
<1> DEFINE e == Created(auto)
<1>1. e \in Engine
  BY DEF Created, Engine, Ledger, ItemStatus
<1>2. /\ \A i \in Items : e.o.status[i] \in {"proposed", "queued"}
      /\ \A i \in Items : e.o.runId[i] = NoRun /\ e.o.headSha[i] = NoRun
      /\ e.o.completed = FALSE /\ e.file = NoFile
      /\ e.forking = {} /\ e.starting = {}
  BY DEF Created
<1> HIDE DEF e
<1>3. EngineOK(e, Minted)
  BY <1>1, <1>2 DEF EngineOK, LedgerOK, Tracked
<1> QED  BY <1>3, PersistOK DEF e

\* The invariant holds when a batch is created, launched or parked.
LEMMA InitIInv == Init => IInv
<1> SUFFICES ASSUME Init PROVE IInv  OBVIOUS
<1>1. EngineOK(engine, Minted)
  BY CreatedOK, PumpOK DEF Init
<1>2. TypeOK
  BY <1>1 DEF Init, TypeOK, EngineOK, RunStates
<1> QED  BY <1>1, <1>2 DEF IInv

\* A ledger of minted runs stays one when more runs are minted.
LEMMA MintedGrows ==
    ASSUME NEW M, NEW M2, M \subseteq M2, NEW e, EngineOK(e, M)  PROVE EngineOK(e, M2)
  BY DEF EngineOK, LedgerOK

\* approveBatch queues and declines only proposals.
LEMMA ApproveBatchOK ==
    ASSUME IInv, NEW picks \in SUBSET Items, NEW keep \in BOOLEAN, ApproveBatch(picks, keep)
    PROVE  EngineOK(engine', Minted)
<1> DEFINE proposed == With(engine, {"proposed"})
           declined == IF keep THEN {} ELSE proposed \ picks
           f == SetStatus(engine, picks, "queued")
           g == SetStatus(f, declined, "cancelled")
<1>1. EngineOK(engine, Minted)  BY DEF IInv
<1>2. "queued" \in ItemStatus /\ "cancelled" \in ItemStatus  BY DEF ItemStatus, Settled
<1>3. picks \subseteq proposed /\ declined \subseteq proposed
  BY DEF ApproveBatch
<1>4. \A i \in proposed : i \in Items /\ engine.o.status[i] = "proposed"
  BY DEF With
<1>5. proposed \cap (engine.forking \cup engine.starting) = {}
  BY <1>1, <1>4 DEF EngineOK, Tracked
<1> HIDE DEF proposed, declined
<1>6. EngineOK(f, Minted)
  BY <1>1, <1>2, <1>3, <1>4, <1>5, StatusOK
<1>7. f.forking = engine.forking /\ f.starting = engine.starting
  BY <1>1, <1>2, <1>3, <1>4, StatusFrame
<1> HIDE DEF f
<1>8. EngineOK(g, Minted)
  BY <1>2, <1>3, <1>4, <1>5, <1>6, <1>7, StatusOK
<1>9. \/ engine' = Pump(Persist(g)) \/ engine' = Persist(g)
      \/ engine' = MaybeComplete(Persist(g))
  BY Zenon DEF ApproveBatch, f, declined, proposed
<1> QED  BY <1>8, <1>9, PersistOK, PumpOK, MaybeCompleteOK

\* rejectItem settles an item that no pump is launching.
LEMMA RejectedOK ==
    ASSUME NEW M, EngineOK(engine, M), NEW i \in Items,
           engine.o.status[i] \in {"proposed", "paused"}
    PROVE  EngineOK(Rejected(i), M)
<1>1. "cancelled" \in ItemStatus  BY DEF ItemStatus, Settled
<1>2. {i} \cap (engine.forking \cup engine.starting) = {}
  BY DEF EngineOK, Tracked
<1>3. EngineOK(SetStatus(engine, {i}, "cancelled"), M)
  BY <1>1, <1>2, StatusOK
<1> QED  BY <1>3, PersistOK, MaybeCompleteOK DEF Rejected

\* pausedAt is no part of the invariant.
LEMMA SetPausedOK ==
    ASSUME NEW M, NEW e, EngineOK(e, M), NEW b \in BOOLEAN
    PROVE  EngineOK([e EXCEPT !.o.paused = b], M)
<1> DEFINE o == [e.o EXCEPT !.paused = b]
<1>1. e \in Engine /\ e.o \in Ledger  BY DEF EngineOK, Engine
<1>2. [e EXCEPT !.o.paused = b] = [e EXCEPT !.o = o]
  BY <1>1 DEF Engine
<1>3. /\ o \in Ledger /\ o.status = e.o.status /\ o.runId = e.o.runId
      /\ o.headSha = e.o.headSha /\ o.completed = e.o.completed
  BY <1>1 DEF Ledger
<1> HIDE DEF o
<1>4. EngineOK([e EXCEPT !.o = o], M)
  BY <1>3 DEF EngineOK, Engine, Tracked, LedgerOK
<1> QED  BY <1>2, <1>4

\* abort settles queued, proposed and linked items, and leaves launches in
\* flight to their pumps.
LEMMA AbortBatchOK ==
    ASSUME IInv, AbortBatch  PROVE EngineOK(engine', Minted)
<1> DEFINE waiting == {i \in With(engine, {"queued", "proposed", "paused"}) :
                         engine.o.status[i] = "paused" => ~Linked(engine, i)}
           killed  == Killed(engine)
           running == With(engine, {"running"})
           f == SetStatus(engine, waiting, "cancelled")
           g == SetStatus(f, killed \cap running, "failed")
           h == SetStatus(g, killed \ running, "cancelled")
           k == [h EXCEPT !.o.paused = FALSE]
<1>1. EngineOK(engine, Minted)  BY DEF IInv
<1>2. "failed" \in ItemStatus /\ "cancelled" \in ItemStatus  BY DEF ItemStatus, Settled
<1>3. waiting \in SUBSET Items /\ killed \in SUBSET Items
  BY DEF With, Killed
<1>4. /\ waiting \cap (engine.forking \cup engine.starting) = {}
      /\ killed \cap (engine.forking \cup engine.starting) = {}
  BY <1>1 DEF EngineOK, Tracked, With, Linked, Killed
<1> HIDE DEF waiting, killed, running
<1>5. EngineOK(f, Minted) /\ f.forking = engine.forking /\ f.starting = engine.starting
  BY <1>1, <1>2, <1>3, <1>4, StatusOK, StatusFrame
<1> HIDE DEF f
<1>6. EngineOK(g, Minted)
  BY <1>2, <1>3, <1>4, <1>5, StatusOK
<1>7. g.forking = engine.forking /\ g.starting = engine.starting
  BY <1>2, <1>3, <1>5, StatusFrame
<1> HIDE DEF g
<1>8. EngineOK(h, Minted)
  BY <1>2, <1>3, <1>4, <1>6, <1>7, StatusOK
<1> HIDE DEF h
<1>9. EngineOK(k, Minted)
  BY <1>8, SetPausedOK
<1>10. engine' = MaybeComplete(Persist(k))
  BY Zenon DEF AbortBatch, waiting, killed, running, f, g, h
<1> QED  BY <1>9, <1>10, PersistOK, MaybeCompleteOK

\* resume marks running only items whose held run it continues.
LEMMA ResumeBatchOK ==
    ASSUME IInv, ResumeBatch  PROVE EngineOK(engine', Minted)
<1> DEFINE awake(S) == {i \in With(engine, {"paused"}) : engine.o.runId[i] \in S}
           p    == Persist([engine EXCEPT !.o.paused = FALSE])
           e(S) == SetStatus(p, awake(S), "running")
<1>1. EngineOK(engine, Minted) /\ EngineOK(p, Minted)
  BY SetPausedOK, PersistOK DEF IInv
<1>2. /\ p.forking = engine.forking /\ p.starting = engine.starting
      /\ p.o.runId = engine.o.runId
  BY <1>1 DEF EngineOK, Engine, Ledger, Persist
<1> HIDE DEF p
<1>3. ASSUME NEW S \in SUBSET Runs  PROVE EngineOK(e(S), Minted)
  <2>1. awake(S) \in SUBSET Items /\ \A i \in awake(S) : engine.o.runId[i] # NoRun
    BY ItemsNat, SizeAssumption DEF With, Runs, NoRun
  <2>2. awake(S) \cap (engine.forking \cup engine.starting) = {}
    BY <1>1, <2>1 DEF EngineOK, Tracked
  <2>3. "running" \in ItemStatus  BY DEF ItemStatus
  <2> HIDE DEF awake
  <2> QED  BY <1>1, <1>2, <2>1, <2>2, <2>3, StatusOK
<1>4. PICK S \in SUBSET Runs :
        engine' = Pump(IF S = {} THEN e({}) ELSE Persist(e(S)))
  BY Zenon DEF ResumeBatch, p
<1> HIDE DEF e
<1>5. EngineOK(IF S = {} THEN e({}) ELSE Persist(e(S)), Minted)
  BY <1>3, PersistOK
<1> QED  BY <1>4, <1>5, PumpOK

\* retry clears the links of what it queues again.
LEMMA RetryOK ==
    ASSUME IInv, NEW targets \in SUBSET With(engine, {"failed", "cancelled"}), Retry(targets)
    PROVE  EngineOK(engine', Minted)
<1> DEFINE e        == SetStatus(engine, targets, "queued")
           clear(f) == Cleared(f, targets)
           o == [e.o EXCEPT !.runId = clear(e.o.runId), !.headSha = clear(e.o.headSha),
                            !.completed = FALSE]
           g == [e EXCEPT !.o = o]
<1>1. EngineOK(engine, Minted)  BY DEF IInv
<1>2. targets \in SUBSET Items /\ "queued" \in ItemStatus  BY DEF With, ItemStatus
<1>3. /\ e \in Engine
      /\ \A i \in Items : e.o.status[i] = IF i \in targets THEN "queued" ELSE engine.o.status[i]
      /\ e.o.runId = engine.o.runId /\ e.o.headSha = engine.o.headSha
      /\ e.file = engine.file
      /\ e.forking = engine.forking /\ e.starting = engine.starting
  <2>1. engine \in Engine  BY <1>1 DEF EngineOK
  <2>2. targets \in SUBSET Items  BY <1>2
  <2>3. "queued" \in ItemStatus  BY <1>2
  <2> QED  BY <2>1, <2>2, <2>3, StatusSet
<1> HIDE DEF e
<1>4. /\ o \in Ledger /\ o.status = e.o.status /\ o.completed = FALSE
      /\ \A i \in Items : o.runId[i] = IF i \in targets THEN NoRun ELSE engine.o.runId[i]
      /\ \A i \in Items : o.headSha[i] = IF i \in targets THEN NoRun ELSE engine.o.headSha[i]
  BY <1>3 DEF Engine, Ledger, Cleared
<1>5. engine' = Pump(Persist(g))
  <2>1. [e EXCEPT !.o.runId = clear(@), !.o.headSha = clear(@), !.o.completed = FALSE] = g
    BY <1>3 DEF Engine, Ledger
  <2> QED  BY <2>1, Zenon DEF Retry, Requeued, e
<1> HIDE DEF o
<1>6. \A i \in targets : engine.o.status[i] \in {"failed", "cancelled"}  BY DEF With
<1>7. LedgerOK(o, Minted)
  BY <1>1, <1>3, <1>4, <1>6 DEF EngineOK, LedgerOK
<1>8. /\ g \in Engine /\ g.o = o /\ g.file = engine.file
      /\ g.forking = engine.forking /\ g.starting = engine.starting
  BY <1>3, <1>4 DEF Engine
<1> HIDE DEF g
<1>9. Tracked(g)
  BY <1>1, <1>2, <1>3, <1>4, <1>6, <1>8 DEF EngineOK, Tracked
<1>10. EngineOK(g, Minted)
  BY <1>1, <1>7, <1>8, <1>9 DEF EngineOK
<1> QED  BY <1>5, <1>10, PersistOK, PumpOK

\* The loop of delete ends in any set of engines that its steps do not leave.
LEMMA DeleteLoopStays ==
    ASSUME NEW V, engine \in V, \A e \in V, i \in Items : AbortChild(e, i) \in V
    PROVE  DeleteLoop[N] \in V
<1> DEFINE F == [x \in V \X (1..N) |-> AbortChild(x[1], x[2])]
           Is(w) == w = [i \in 0..N |-> IF i = 0 THEN engine ELSE AbortChild(w[i - 1], i)]
<1>1. N \in Nat /\ Items = 1..N
  BY SizeAssumption DEF Items
<1>2. engine \in V /\ F \in [V \X (1..N) -> V]
  BY <1>1
<1>3. \A e \in V, i \in 1..N : F[<<e, i>>] = AbortChild(e, i)
  OBVIOUS
<1>4. DeleteLoop = CHOOSE w : Is(w)
  BY DEF DeleteLoop
<1> HIDE DEF F
<1>5. PICK f \in [0..N -> V] : f[0] = engine /\ \A n \in 1..N : f[n] = F[<<f[n - 1], n>>]
  <2>1. \A u \in V, G \in [V \X (1..N) -> V] : \E g \in [0..N -> V] : IsWalk(g, N, u, G)
    BY <1>1, WalkExists, Zenon
  <2> QED  BY <1>2, <2>1 DEF IsWalk
<1>6. \A n \in 1..N : n - 1 \in 0..N /\ f[n - 1] \in V
  <2>1. \A n \in 1..N : n - 1 \in 0..N  BY <1>1
  <2>2. \A n \in 0..N : f[n] \in V  OBVIOUS
  <2> QED  BY <2>1, <2>2
<1>7. \A n \in 1..N : f[n] = AbortChild(f[n - 1], n)
  BY <1>3, <1>5, <1>6
<1>8. Is(f)
  <2>1. ASSUME NEW i \in 0..N
        PROVE  f[i] = IF i = 0 THEN engine ELSE AbortChild(f[i - 1], i)
    <3>1. CASE i = 0  BY <3>1, <1>5
    <3>2. CASE i # 0
      <4>1. i \in 1..N  BY <1>1, <3>2
      <4> QED  BY <4>1, <3>2, <1>7
    <3> QED  BY <3>1, <3>2
  <2> QED  BY <2>1
<1> DEFINE w == CHOOSE w : Is(w)
<1>9. Is(w)
  BY <1>8
<1> HIDE DEF w
<1> DEFINE S == {n \in 0..N : w[n] \in V}
<1>10. 0 \in S
  BY <1>1, <1>9
<1>11. ASSUME NEW n \in 1..N, n - 1 \in S PROVE n \in S
  <2>1. n \in 0..N /\ n # 0 /\ n \in Items  BY <1>1
  <2>2. w[n] = AbortChild(w[n - 1], n)  BY <2>1, <1>9
  <2>3. w[n - 1] \in V  BY <1>11
  <2> QED  BY <2>1, <2>2, <2>3
<1> HIDE DEF S
<1>12. N \in S
  <2>1. \A n \in 0..N : n \in S
    BY <1>1, <1>10, <1>11, UpTo
  <2> QED  BY <1>1, <2>1
<1> QED  BY <1>4, <1>12 DEF S, w

\* What delete leaves of a good engine is one.
LEMMA ForgottenOK ==
    ASSUME NEW M, NEW e, EngineOK(e, M)
    PROVE  EngineOK(Forgotten(e), M)
<1>1. /\ Forgotten(e) \in Engine /\ Forgotten(e).o = e.o /\ Forgotten(e).file = NoFile
      /\ Forgotten(e).forking = e.forking /\ Forgotten(e).starting = e.starting
  BY DEF EngineOK, Engine, Forgotten
<1> HIDE DEF Forgotten
<1> QED  BY <1>1 DEF EngineOK, Tracked

\* delete fails linked items one by one, and the pumps it re-enters launch
\* queued ones.
LEMMA DeleteBatchOK ==
    ASSUME IInv, DeleteBatch  PROVE EngineOK(engine', Minted)
<1> DEFINE V == {e \in Engine : EngineOK(e, Minted)}
<1>1. engine \in V
  BY DEF IInv, EngineOK
<1>2. ASSUME NEW e \in V, NEW i \in Items  PROVE AbortChild(e, i) \in V
  <2>1. e \in Engine /\ EngineOK(e, Minted)  OBVIOUS
  <2>2. CASE Linked(e, i)
    <3>1. e.o.runId[i] \in Runs
      BY <2>1, <2>2 DEF Linked, EngineOK, LedgerOK, Minted
    <3> HIDE DEF V
    <3>2. EngineOK(OnRunUpdate(e, e.o.runId[i], "aborted"), Minted)
      BY <2>1, <3>1, OnRunUpdateOK
    <3> QED  BY <2>1, <3>2 DEF V, AbortChild, EngineOK
  <2>3. CASE ~Linked(e, i)
    BY <2>3 DEF AbortChild
  <2> QED  BY <2>2, <2>3
<1>3. DeleteLoop[N] \in V
  <2> HIDE DEF V
  <2> QED  BY <1>1, <1>2, DeleteLoopStays
<1>4. EngineOK(Forgotten(DeleteLoop[N]), Minted)
  BY <1>3, ForgottenOK
<1> QED  BY <1>4 DEF DeleteBatch

\* The reclaim's return enters the loop of pump.
LEMMA ReclaimReturnsOK ==
    ASSUME IInv, ReclaimReturns  PROVE EngineOK(engine', Minted)
<1>1. EngineOK([engine EXCEPT !.reclaiming = @ - 1], Minted)
  BY DEF IInv, ReclaimReturns, EngineOK, Engine, Tracked
<1> QED  BY <1>1, PumpLoopOK DEF ReclaimReturns

\* A worktree fork hands its item on to startRun.
LEMMA ForkReturnsOK ==
    ASSUME IInv, NEW i \in Items, ForkReturns(i)  PROVE EngineOK(engine', Minted)
<1> DEFINE o == [engine.o EXCEPT !.adopted = TRUE]
           g == [engine EXCEPT !.o = o, !.forking = @ \ {i}, !.starting = @ \cup {i}]
<1>1. EngineOK(engine, Minted) /\ engine \in Engine /\ engine.o \in Ledger
  BY DEF IInv, EngineOK, Engine
<1>2. engine' = g
  BY <1>1 DEF ForkReturns, Engine, Ledger
<1>3. /\ o \in Ledger /\ o.status = engine.o.status /\ o.runId = engine.o.runId
      /\ o.headSha = engine.o.headSha /\ o.completed = engine.o.completed
  BY <1>1 DEF Ledger
<1> HIDE DEF o
<1>4. /\ g \in Engine /\ g.o = o /\ g.file = engine.file
      /\ g.forking = engine.forking \ {i} /\ g.starting = engine.starting \cup {i}
  BY <1>1, <1>3 DEF Engine
<1> HIDE DEF g
<1>5. i \in engine.forking  BY DEF ForkReturns
<1>6. LedgerOK(g.o, Minted) /\ Tracked(g)
  BY <1>1, <1>3, <1>4, <1>5 DEF EngineOK, LedgerOK, Tracked
<1> QED  BY <1>1, <1>2, <1>4, <1>6 DEF EngineOK

\* A pump that gives up settles the item it was launching, with others or alone.
LEMMA GiveUpOK ==
    ASSUME NEW M, EngineOK(engine, M), NEW i \in Items, NEW S \in SUBSET Items,
           S \cap (engine.forking \cup engine.starting) = {i}
    PROVE  EngineOK([SetStatus(engine, S, "failed") EXCEPT
                        !.forking = engine.forking \ {i},
                        !.starting = engine.starting \ {i}], M)
<1> DEFINE f == SetStatus(engine, S, "failed")
           g == [f EXCEPT !.forking = engine.forking \ {i}, !.starting = engine.starting \ {i}]
<1>0. engine \in Engine  BY DEF EngineOK
<1>1. "failed" \in ItemStatus  BY DEF ItemStatus, Settled
<1>2. /\ f \in Engine
      /\ \A j \in Items : f.o.status[j] = IF j \in S THEN "failed"
                                          ELSE engine.o.status[j]
      /\ f.o.runId = engine.o.runId /\ f.o.headSha = engine.o.headSha
      /\ f.o.completed = engine.o.completed /\ f.file = engine.file
  BY <1>0, <1>1, StatusSet
<1> HIDE DEF f
<1>3. /\ g \in Engine /\ g.o = f.o /\ g.file = f.file
      /\ g.forking = engine.forking \ {i} /\ g.starting = engine.starting \ {i}
  BY <1>0, <1>2 DEF Engine
<1> HIDE DEF g
<1>4. LedgerOK(f.o, M)
  BY <1>2 DEF EngineOK, LedgerOK
<1>5. Tracked(g)
  BY <1>0, <1>2, <1>3 DEF EngineOK, Tracked
<1>6. EngineOK(g, M)
  BY <1>2, <1>3, <1>4, <1>5 DEF EngineOK
<1> QED  BY <1>6 DEF g, f

\* A fork that fails settles its item with the rest of the queue.
LEMMA ForkFailsOK ==
    ASSUME IInv, NEW i \in Items, ForkFails(i)  PROVE EngineOK(engine', Minted)
<1> DEFINE f == SetStatus(engine, {i} \cup With(engine, {"queued"}), "failed")
           g == [f EXCEPT !.forking = engine.forking \ {i}, !.starting = engine.starting \ {i}]
<1>1. EngineOK(engine, Minted) /\ engine \in Engine  BY DEF IInv, EngineOK
<1>2. i \in engine.forking  BY DEF ForkFails
<1>3. /\ {i} \cup With(engine, {"queued"}) \in SUBSET Items
      /\ ({i} \cup With(engine, {"queued"})) \cap (engine.forking \cup engine.starting) = {i}
  BY <1>1, <1>2 DEF With, EngineOK, Tracked
<1>4. EngineOK(g, Minted)
  BY <1>1, <1>2, <1>3, GiveUpOK
<1>5. f \in Engine /\ f.forking = engine.forking /\ f.starting = engine.starting
  <2>1. "failed" \in ItemStatus /\ {i} \cup With(engine, {"queued"}) \in SUBSET Items
    BY <1>3 DEF ItemStatus, Settled
  <2>2. "failed" \in ItemStatus  BY <2>1
  <2>3. {i} \cup With(engine, {"queued"}) \in SUBSET Items  BY <2>1
  <2> QED  BY <1>1, <2>2, <2>3, StatusFrame
<1>6. engine' = PumpLoop([f EXCEPT !.forking = @ \ {i}], TRUE)
  BY Zenon DEF ForkFails, FailedFork
<1> HIDE DEF f
<1>7. engine.starting \ {i} = engine.starting
  BY <1>1, <1>2 DEF EngineOK, Tracked
<1>8. [f EXCEPT !.forking = @ \ {i}] = g
  BY <1>5, <1>7 DEF Engine
<1> QED  BY <1>4, <1>6, <1>8, PumpLoopOK

\* A launch that fails settles its item.
LEMMA StartRunFailsOK ==
    ASSUME IInv, NEW i \in Items, StartRunFails(i)  PROVE EngineOK(engine', Minted)
<1> DEFINE f == SetStatus(engine, {i}, "failed")
           g == [f EXCEPT !.forking = engine.forking \ {i}, !.starting = engine.starting \ {i}]
<1>1. EngineOK(engine, Minted) /\ engine \in Engine  BY DEF IInv, EngineOK
<1>2. i \in engine.starting  BY DEF StartRunFails
<1>4. EngineOK(g, Minted)
  <2>1. {i} \in SUBSET Items /\ {i} \cap (engine.forking \cup engine.starting) = {i}
    BY <1>2
  <2> QED  BY <1>1, <2>1, GiveUpOK
<1>5. f \in Engine /\ f.forking = engine.forking /\ f.starting = engine.starting
  <2>1. "failed" \in ItemStatus
    BY DEF ItemStatus, Settled
  <2>2. {i} \in SUBSET Items  OBVIOUS
  <2> QED  BY <1>1, <2>1, <2>2, StatusFrame
<1>6. engine' = PumpLoop([f EXCEPT !.starting = @ \ {i}], TRUE)
  BY Zenon DEF StartRunFails, FailedLaunch
<1> HIDE DEF f
<1>7. engine.forking \ {i} = engine.forking
  BY <1>1, <1>2 DEF EngineOK, Tracked
<1>8. [f EXCEPT !.starting = @ \ {i}] = g
  BY <1>5, <1>7 DEF Engine
<1> QED  BY <1>4, <1>6, <1>8, PumpLoopOK

\* captureLandingCommit writes a commit of the linked run or nothing.
LEMMA CaptureReturnsOK ==
    ASSUME IInv, NEW i \in Items, NEW r \in Runs, CaptureReturns(i, r)
    PROVE  EngineOK(engine', Minted)
<1> DEFINE e == [engine EXCEPT !.capturing = @ \ {<<i, r>>}]
           o == [e.o EXCEPT !.headSha = [e.o.headSha EXCEPT ![i] = r]]
           g == [e EXCEPT !.o = o]
<1>1. EngineOK(engine, Minted)  BY DEF IInv
<1>2. EngineOK(e, Minted) /\ e.o = engine.o
  BY <1>1 DEF EngineOK, Engine, Tracked
<1> CASE engine' = e
  BY <1>2
<1> CASE engine.o.runId[i] = r /\ engine' = Persist([e EXCEPT !.o.headSha[i] = r])
  <2> HIDE DEF e
  <2>1. e \in Engine /\ e.o \in Ledger  BY <1>2 DEF EngineOK, Engine
  <2>2. [e EXCEPT !.o.headSha[i] = r] = g
    BY <2>1 DEF Engine, Ledger
  <2>3. /\ o \in Ledger /\ o.status = e.o.status /\ o.runId = e.o.runId
        /\ o.completed = e.o.completed
        /\ \A j \in Items : o.headSha[j] = IF j = i THEN r ELSE e.o.headSha[j]
    BY <2>1 DEF Ledger
  <2> HIDE DEF o
  <2>4. /\ g \in Engine /\ g.o = o /\ g.file = e.file
        /\ g.forking = e.forking /\ g.starting = e.starting
    BY <2>1, <2>3 DEF Engine
  <2> HIDE DEF g
  <2>5. LedgerOK(g.o, Minted) /\ Tracked(g)
    BY <1>2, <2>3, <2>4 DEF EngineOK, LedgerOK, Tracked
  <2>6. EngineOK(g, Minted)
    BY <1>2, <2>4, <2>5 DEF EngineOK
  <2> QED  BY <2>2, <2>6, PersistOK
<1> QED  BY Zenon DEF CaptureReturns, OfThisAttempt, e

\* startRun's fresh run is linked to the one item that waited for it.
LEMMA StartRunReturnsOK ==
    ASSUME IInv, NEW i \in Items, NEW st \in {"running", "paused", "aborted"},
           StartRunReturns(i, st)
    PROVE  EngineOK(engine', Minted')
<1> DEFINE r == First({s \in Runs : runState[s] = "none"})
           o == [engine.o EXCEPT !.runId = [engine.o.runId EXCEPT ![i] = r]]
           g == [engine EXCEPT !.o = o, !.starting = @ \ {i}]
<1>1. EngineOK(engine, Minted) /\ engine \in Engine /\ engine.o \in Ledger
        /\ runState \in [Runs -> RunStates]
  BY DEF IInv, EngineOK, Engine, TypeOK
<1>2. r \in Runs /\ runState[r] = "none"
  <2>1. {s \in Runs : runState[s] = "none"} \in SUBSET Nat  BY ItemsNat
  <2>2. {s \in Runs : runState[s] = "none"} # {}  BY DEF StartRunReturns
  <2>3. r \in {s \in Runs : runState[s] = "none"}  BY <2>1, <2>2, FirstIn
  <2> QED  BY <2>3
<1>3. LET linked == [engine EXCEPT !.o.runId[i] = r, !.starting = @ \ {i}]
          k == IF st = "running" THEN linked ELSE OnRunUpdate(linked, r, st)
      IN  engine' = k \/ engine' = PumpLoop(k, TRUE)
  BY Zenon DEF StartRunReturns
<1>4. runState' = [runState EXCEPT ![r] = st]
  BY Zenon DEF StartRunReturns
<1> HIDE DEF r
<1>5. [engine EXCEPT !.o.runId[i] = r, !.starting = @ \ {i}] = g
  BY <1>1 DEF Engine, Ledger
<1>6. /\ o \in Ledger /\ o.status = engine.o.status /\ o.headSha = engine.o.headSha
      /\ o.completed = engine.o.completed
      /\ \A j \in Items : o.runId[j] = IF j = i THEN r ELSE engine.o.runId[j]
  BY <1>1, <1>2 DEF Ledger
<1> HIDE DEF o
<1>7. /\ g \in Engine /\ g.o = o /\ g.file = engine.file
      /\ g.forking = engine.forking /\ g.starting = engine.starting \ {i}
  BY <1>1, <1>6 DEF Engine
<1> HIDE DEF g
<1>8. Minted' = Minted \cup {r} /\ r \notin Minted
  BY <1>1, <1>2, <1>4 DEF Minted
<1>9. /\ engine.o.status[i] = "running" /\ engine.o.runId[i] = NoRun
      /\ engine.o.headSha[i] = NoRun /\ i \in engine.starting /\ r # NoRun
  BY <1>1, <1>2, ItemsNat, SizeAssumption
     DEF StartRunReturns, EngineOK, Tracked, LedgerOK, NoRun, Runs
<1>10. \A j \in Items : engine.o.runId[j] # r
  BY <1>1, <1>8, <1>9 DEF EngineOK, LedgerOK
<1>11. LedgerOK(o, Minted')
  BY <1>1, <1>6, <1>8, <1>9, <1>10 DEF EngineOK, LedgerOK
<1>12. g.file # NoFile => LedgerOK(g.file, Minted')
  BY <1>1, <1>7, <1>8 DEF EngineOK, LedgerOK
<1>13. Tracked(g)
  BY <1>1, <1>6, <1>7, <1>9 DEF EngineOK, Tracked
<1>14. EngineOK(g, Minted')
  BY <1>7, <1>11, <1>12, <1>13 DEF EngineOK
<1>15. \E k \in {g, OnRunUpdate(g, r, st)} : engine' = k \/ engine' = PumpLoop(k, TRUE)
  BY <1>3, <1>5, Zenon
<1>16. \A k \in {g, OnRunUpdate(g, r, st)} : EngineOK(k, Minted')
  BY <1>2, <1>14, OnRunUpdateOK
<1> QED  BY <1>15, <1>16, PumpLoopOK

\* What settleItemOnLoad makes of a saved ledger has nothing in flight.
LEMMA RestartOK ==
    ASSUME IInv, Restart  PROVE EngineOK(engine', Minted)
<1> DEFINE f == engine.file
           o == IF f = NoFile THEN Created(0).o ELSE Loaded(f)
           g == [Created(0) EXCEPT !.o = o, !.live = f # NoFile, !.file = f]
<1>1. EngineOK(engine, Minted) /\ f \in Ledger \cup {NoFile}
  BY DEF IInv, EngineOK, Engine
<1>2. engine' = g
  BY DEF Restart, Created
<1>3. /\ o \in Ledger /\ LedgerOK(o, Minted)
      /\ \A i \in Items : ~(o.status[i] = "running" /\ o.runId[i] = NoRun)
  <2> CASE f = NoFile
    <3>1. o = Created(0).o  OBVIOUS
    <3>2. /\ o \in Ledger /\ o.completed = FALSE
          /\ \A i \in Items : /\ o.status[i] = "proposed"
                              /\ o.runId[i] = NoRun /\ o.headSha[i] = NoRun
      BY <3>1, ItemsNat, SizeAssumption DEF Created, Ledger, ItemStatus, Items
    <3> HIDE DEF o
    <3> QED  BY <3>2 DEF LedgerOK
  <2> CASE f # NoFile
    <3> DEFINE p == [f EXCEPT !.status = [i \in Items |-> SettledOnLoad(f, i)]]
               q == [p EXCEPT !.completed = TRUE]
    <3>1. f \in Ledger /\ LedgerOK(f, Minted)
      BY <1>1 DEF EngineOK
    <3>2. \A i \in Items : SettledOnLoad(f, i) \in ItemStatus
      BY <3>1 DEF SettledOnLoad, ItemStatus, Settled, Ledger
    <3>3. /\ p \in Ledger /\ \A i \in Items : p.status[i] = SettledOnLoad(f, i)
          /\ p.runId = f.runId /\ p.headSha = f.headSha /\ p.completed = f.completed
      BY <3>1, <3>2 DEF Ledger
    <3>4. /\ q \in Ledger /\ q.status = p.status /\ q.runId = f.runId
          /\ q.headSha = f.headSha /\ q.completed = TRUE
      BY <3>3 DEF Ledger
    <3>5. o = p \/ (o = q /\ IsComplete(p))
      BY Zenon DEF Loaded
    <3> HIDE DEF o, p, q
    <3>6. \A i \in Items :
             /\ p.status[i] # "running"
             /\ p.status[i] \in {"proposed", "queued"} => p.status[i] = f.status[i]
      BY <3>1, <3>3 DEF SettledOnLoad
    <3>7. LedgerOK(p, Minted)
      BY <3>1, <3>3, <3>6 DEF LedgerOK
    <3>8. IsComplete(p) => LedgerOK(q, Minted)
      BY <3>3, <3>4, <3>7 DEF LedgerOK, IsComplete, Settled
    <3> QED  BY <3>3, <3>4, <3>5, <3>6, <3>7, <3>8
  <2> QED  OBVIOUS
<1> HIDE DEF o
<1>4. /\ g \in Engine /\ g.o = o /\ g.file = f /\ g.forking = {} /\ g.starting = {}
  BY <1>1, <1>3 DEF Engine, Created
<1> HIDE DEF g
<1>5. Tracked(g)
  BY <1>3, <1>4 DEF Tracked
<1> QED  BY <1>1, <1>2, <1>3, <1>4, <1>5 DEF EngineOK

\* What the actions do to the runs: no run is ever unminted, and every set
\* keeps its type.
Rest == /\ runState \in [Runs -> RunStates]
        /\ hold \subseteq Runs /\ onDisk \subseteq Runs
        /\ treesGone \in BOOLEAN /\ away \in BOOLEAN /\ torn \in BOOLEAN

\* An action keeps IInv if it keeps EngineOK and the types of the rest.
LEMMA Combine ==
    ASSUME EngineOK(engine', Minted'), Rest'  PROVE IInv'
  BY DEF IInv, TypeOK, EngineOK, Rest

\* The types of the runtime's variables, from the invariant.
LEMMA RestOfType == IInv => Rest
  BY DEF IInv, TypeOK, Rest

\* An action that leaves the runs alone.
LEMMA IdleOK ==
    ASSUME IInv, Idle, EngineOK(engine', Minted)  PROVE IInv'
<1>1. Rest' /\ Minted' = Minted
  BY RestOfType DEF Rest, Idle, Minted
<1> QED  BY <1>1, Combine

\* A step of the runs alone, or of the runs and the engine, that unmints none.
LEMMA RunsMoveOK ==
    ASSUME IInv, EngineOK(engine', Minted),
           runState' \in [Runs -> RunStates],
           \A s \in Minted : runState'[s] # "none",
           hold' \subseteq Runs, onDisk' \subseteq Runs,
           treesGone' \in BOOLEAN, away' \in BOOLEAN, torn' \in BOOLEAN
    PROVE  IInv'
<1>1. Rest'  BY DEF Rest
<1>2. Minted \subseteq Minted'  BY DEF Minted
<1>3. EngineOK(engine', Minted')  BY <1>2, MintedGrows
<1> QED  BY <1>1, <1>3, Combine

\* A run's own step and the observer call in it.
LEMMA RunGoesOK ==
    ASSUME IInv, NEW r \in Runs, NEW from, NEW to \in RunStates \ {"none"},
           RunGoes(r, from, to), hold' \subseteq Runs
    PROVE  IInv'
<1>1. EngineOK(engine', Minted)
  BY OnRunUpdateOK DEF IInv, RunGoes
<1>2. runState' \in [Runs -> RunStates] /\ \A s \in Minted : runState'[s] # "none"
  BY RestOfType DEF Rest, RunGoes, Minted
<1>3. /\ onDisk' \subseteq Runs /\ treesGone' \in BOOLEAN /\ away' \in BOOLEAN
      /\ torn' \in BOOLEAN
  BY RestOfType DEF Rest, RunGoes
<1> QED  BY <1>1, <1>2, <1>3, RunsMoveOK

\* delete of a batch that only its file remembers.
LEMMA DeleteForgottenOK ==
    ASSUME IInv, DeleteForgotten  PROVE IInv'
<1>1. EngineOK(engine', Minted)
  BY DEF IInv, DeleteForgotten, EngineOK, Engine, Tracked
<1> QED  BY <1>1, IdleOK DEF DeleteForgotten

\* The save that maybeComplete ends with.
LEMMA SaveCompletionOK ==
    ASSUME IInv, SaveCompletion  PROVE IInv'
<1>1. EngineOK(Persist(engine), Minted)
  BY PersistOK DEF IInv
<1>2. EngineOK([Persist(engine) EXCEPT !.closing = FALSE], Minted)
  BY <1>1 DEF EngineOK, Engine, Tracked
<1> QED  BY <1>2, IdleOK DEF SaveCompletion

\* Every step of the batch, its runs, its people and the process keeps IInv.
THEOREM Inductive == IInv /\ [Next]_vars => IInv'
<1> SUFFICES ASSUME IInv, [Next]_vars PROVE IInv'
  OBVIOUS
<1> USE RestOfType
<1>0. EngineOK(engine, Minted)  BY DEF IInv
<1>1. ASSUME NEW picks \in SUBSET Items, NEW keep \in BOOLEAN, ApproveBatch(picks, keep)
      PROVE  IInv'
  <2>1. EngineOK(engine', Minted)  BY <1>1, ApproveBatchOK
  <2> QED  BY <1>1, <2>1, IdleOK DEF ApproveBatch
<1>2. ASSUME NEW i \in Items, RejectItem(i)  PROVE IInv'
  <2>1. EngineOK(engine', Minted)  BY <1>0, <1>2, RejectedOK DEF RejectItem
  <2> QED  BY <1>2, <2>1, IdleOK DEF RejectItem
<1>3. ASSUME NEW i \in Items, RejectRun(i)  PROVE IInv'
  <2> DEFINE r == engine.o.runId[i]
  <2>1. EngineOK(Rejected(i), Minted)
    BY <1>0, <1>3, RejectedOK DEF RejectRun
  <2>2. r \in Runs
    BY <1>0, <1>3 DEF RejectRun, Linked, EngineOK, LedgerOK, Minted
  <2>3. engine' = OnRunUpdate(Rejected(i), r, "aborted")
    BY <1>3 DEF RejectRun
  <2> HIDE DEF r
  <2>4. EngineOK(engine', Minted)
    BY <2>1, <2>2, <2>3, OnRunUpdateOK
  <2>5. /\ runState' \in [Runs -> RunStates] /\ \A s \in Minted : runState'[s] # "none"
        /\ hold' \subseteq Runs
    BY <1>3, <2>2 DEF RejectRun, Rest, RunStates, Minted
  <2> QED  BY <1>3, <2>4, <2>5, RunsMoveOK DEF RejectRun, Rest
<1>4. ASSUME AbortBatch  PROVE IInv'
  <2>1. EngineOK(engine', Minted)  BY <1>4, AbortBatchOK
  <2>2. /\ runState' \in [Runs -> RunStates] /\ \A s \in Minted : runState'[s] # "none"
        /\ hold' \subseteq Runs
    BY <1>4 DEF AbortBatch, Rest, RunStates, Minted
  <2> QED  BY <1>4, <2>1, <2>2, RunsMoveOK DEF AbortBatch, Rest
<1>5. ASSUME PauseBatch  PROVE IInv'
  <2>1. EngineOK(engine', Minted)
    BY <1>0, <1>5, SetPausedOK, PersistOK DEF PauseBatch
  <2>2. hold' \subseteq Runs  BY <1>5 DEF PauseBatch, Rest
  <2> QED  BY <1>5, <2>1, <2>2, Combine DEF PauseBatch, Rest, Minted
<1>6. ASSUME ResumeBatch  PROVE IInv'
  <2>1. EngineOK(engine', Minted)  BY <1>6, ResumeBatchOK
  <2>2. /\ runState' \in [Runs -> RunStates] /\ \A s \in Minted : runState'[s] # "none"
        /\ hold' \subseteq Runs
    BY <1>6 DEF ResumeBatch, Rest, RunStates, Minted
  <2> QED  BY <1>6, <2>1, <2>2, RunsMoveOK DEF ResumeBatch, Rest
<1>7. ASSUME RetryAny  PROVE IInv'
  <2>1. PICK targets \in SUBSET With(engine, {"failed", "cancelled"}) : Retry(targets)
    BY <1>7 DEF RetryAny, Retriable
  <2>2. EngineOK(engine', Minted)  BY <2>1, RetryOK
  <2> QED  BY <2>1, <2>2, IdleOK DEF Retry
<1>8. ASSUME DeleteBatch  PROVE IInv'
  <2>1. EngineOK(engine', Minted)  BY <1>8, DeleteBatchOK
  <2>2. /\ runState' \in [Runs -> RunStates] /\ \A s \in Minted : runState'[s] # "none"
        /\ hold' \subseteq Runs
    BY <1>8 DEF DeleteBatch, Rest, RunStates, Minted
  <2> QED  BY <1>8, <2>1, <2>2, RunsMoveOK DEF DeleteBatch, Rest
<1>9. ASSUME ReclaimReturns  PROVE IInv'
  BY <1>9, ReclaimReturnsOK, IdleOK DEF ReclaimReturns
<1>10. ASSUME NEW i \in Items, ForkReturns(i)  PROVE IInv'
  <2>1. EngineOK(engine', Minted)  BY <1>10, ForkReturnsOK
  <2> QED  BY <1>10, <2>1, Combine DEF ForkReturns, Rest, Minted
<1>11. ASSUME NEW i \in Items, ForkFails(i)  PROVE IInv'
  BY <1>11, ForkFailsOK, IdleOK DEF ForkFails
<1>12. ASSUME NEW i \in Items, StartRunFails(i)  PROVE IInv'
  BY <1>12, StartRunFailsOK, IdleOK DEF StartRunFails
<1>13. ASSUME NEW i \in Items, NEW st \in {"running", "paused", "aborted"}, StartRunReturns(i, st)
       PROVE  IInv'
  <2>1. EngineOK(engine', Minted')  BY <1>13, StartRunReturnsOK
  <2>2. runState' \in [Runs -> RunStates]
    BY <1>13 DEF StartRunReturns, Rest, RunStates
  <2> QED  BY <1>13, <2>1, <2>2, Combine DEF StartRunReturns, Rest
<1>14. ASSUME NEW i \in Items, NEW r \in Runs, CaptureReturns(i, r)  PROVE IInv'
  BY <1>14, CaptureReturnsOK, IdleOK DEF CaptureReturns
<1>15. ASSUME NEW r \in Runs, RunLeavesStep(r) \/ RunResumes(r) \/ RunReruns(r)  PROVE IInv'
  <2>1. hold' \subseteq Runs
    BY <1>15 DEF RunLeavesStep, RunPauses, RunHeld, RunFinishes, RunAborts, RunResumes,
                 RunReruns, Rest
  <2>2. {"running", "paused", "held", "done", "aborted"} \subseteq RunStates \ {"none"}
    BY DEF RunStates
  <2>3. PICK from \in {{"running"}, {"running", "paused", "held"}, {"paused", "held"}, {"held"},
                       {"paused", "done", "aborted"}},
             to \in {"running", "paused", "held", "done", "aborted"} : RunGoes(r, from, to)
    BY <1>15 DEF RunLeavesStep, RunPauses, RunHeld, RunFinishes, RunAborts, RunResumes,
                 RunReruns
  <2> QED  BY <2>1, <2>2, <2>3, RunGoesOK
<1>16. ASSUME NEW r \in Runs, RunDeleted(r) \/ Checkpointed(r)  PROVE IInv'
  <2>1. EngineOK(engine', Minted)
    BY <1>0, <1>16 DEF RunDeleted, Checkpointed
  <2>2. /\ runState' \in [Runs -> RunStates] /\ \A s \in Minted : runState'[s] # "none"
        /\ hold' \subseteq Runs /\ onDisk' \subseteq Runs
    BY <1>16 DEF RunDeleted, Checkpointed, Rest, RunStates, Minted
  <2> QED  BY <1>16, <2>1, <2>2, RunsMoveOK DEF RunDeleted, Checkpointed, Rest
<1>17. ASSUME CrewLeaves \/ TreesVanish  PROVE IInv'
  BY <1>0, <1>17, Combine DEF CrewLeaves, TreesVanish, Rest, Minted
<1>18. ASSUME CrewReturns  PROVE IInv'
  <2>1. EngineOK(engine', Minted)  BY <1>0, <1>18, PumpOnDutyOK DEF CrewReturns
  <2> QED  BY <1>18, <2>1, Combine DEF CrewReturns, Rest, Minted
<1>19. ASSUME Restart  PROVE IInv'
  <2>1. EngineOK(engine', Minted)  BY <1>19, RestartOK
  <2>2. /\ runState' \in [Runs -> RunStates] /\ \A s \in Minted : runState'[s] # "none"
        /\ hold' \subseteq Runs
    BY <1>19 DEF Restart, Known, Rest, RunStates, Minted
  <2> QED  BY <1>19, <2>1, <2>2, RunsMoveOK DEF Restart, Rest
<1>20. ASSUME NEW i \in Items, LandingUpdated(i)  PROVE IInv'
  BY <1>0, <1>20, PersistOK, IdleOK DEF LandingUpdated
<1>21. ASSUME UNCHANGED vars  PROVE IInv'
  BY <1>0, <1>21, Combine DEF vars, Rest, Minted
<1> QED  BY <1>1, <1>2, <1>3, <1>4, <1>5, <1>6, <1>7, <1>8, <1>9, <1>10, <1>11, <1>12,
            <1>13, <1>14, <1>15, <1>16, <1>17, <1>18, <1>19, <1>20,
            <1>21, DeleteForgottenOK, SaveCompletionOK
         DEF Next, PumpStep

\* IInv holds in every reachable state.
THEOREM Invariant == Spec => []IInv
  BY InitIInv, Inductive, PTL DEF Spec

\* Every variable keeps its type.
THEOREM TypeCorrect == Spec => []TypeOK
  BY Invariant, PTL DEF IInv

\* An item reads running without a run exactly while one pump waits for its
\* launch, whatever was aborted, deleted, retried or restarted meanwhile.
THEOREM LaunchesAreTracked == Spec => []LaunchesTracked
<1>1. IInv => LaunchesTracked
  BY DEF IInv, EngineOK, Engine, Tracked, LaunchesTracked, InFlight, With, Linked
<1> QED  BY <1>1, Invariant, PTL

\* No run belongs to two items and no item to a run that was never minted, so
\* an update settles the work it is about.
THEOREM RunsAreLinkedOnce == Spec => []RunsLinkedOnce
<1>1. IInv => RunsLinkedOnce
  BY DEF IInv, EngineOK, LedgerOK, RunsLinkedOnce, Linked, Minted
<1> QED  BY <1>1, Invariant, PTL

\* A completed batch has nothing proposed, queued or being launched.
THEOREM CompletedIsFinal == Spec => []CompletedHasNoQueue
<1>1. IInv => CompletedHasNoQueue
  BY DEF IInv, EngineOK, Engine, LedgerOK, Tracked, CompletedHasNoQueue, InFlight, With
<1> QED  BY <1>1, Invariant, PTL

\* However late git answers, the commit of an item is that of its linked run.
THEOREM HeadIsOfThisAttempt == Spec => []HeadOfThisAttempt
<1>1. IInv => HeadOfThisAttempt
  BY DEF IInv, EngineOK, LedgerOK, HeadOfThisAttempt
<1> QED  BY <1>1, Invariant, PTL

-----------------------------------------------------------------------------
(***************************************************************************)
(* That Orchestrator keeps its cap and, while the process lives and no     *)
(* ended run is run anew, that its ledger mirrors the runs and implements  *)
(* BatchLedger, for every number of items and every cap.                   *)
(*                                                                         *)
(* A step of the engine is a few changes of status, after which pumps are  *)
(* re-entered.  What pumps do to the ledger is the relation Follows; an    *)
(* action is then described by the engine its pumps start from.            *)
(***************************************************************************)

\* What pumps make of the engine they find: items of the queue are launched, if
\* any then within the cap, and a ledger with nothing to do is completed.
Follows(e, f) ==
    /\ f \in Engine
    /\ f.o.runId = e.o.runId /\ f.live = e.live
    /\ f.o.completed = e.o.completed \/ (f.o.completed /\ IsComplete(f.o))
    /\ \E L \in SUBSET With(e, {"queued"}) :
          /\ \A i \in Items : f.o.status[i] = IF i \in L THEN "running" ELSE e.o.status[i]
          /\ InFlight(f) = InFlight(e) \cup L
          /\ L # {} => RunningCount(f) <= Cap

-----------------------------------------------------------------------------
\* The items of some status are finitely many.
LEMMA WithFinite == ASSUME NEW e, NEW S
                    PROVE  IsFiniteSet(With(e, S)) /\ Cardinality(With(e, S)) \in Nat
<1>1. IsFiniteSet(Items)
  BY FS_Interval, SizeAssumption DEF Items
<1>2. With(e, S) \in SUBSET Items
  BY DEF With
<1> QED  BY <1>1, <1>2, FS_Subset, FS_CardinalityType

\* Nothing done is a way to follow.
LEMMA FollowsItself == ASSUME NEW e \in Engine  PROVE Follows(e, e)
<1>1. {} \in SUBSET With(e, {"queued"})  OBVIOUS
<1>2. InFlight(e) = InFlight(e) \cup {}  OBVIOUS
<1> QED  BY <1>1, <1>2 DEF Follows

\* So is a change of what the ledger does not tell.
LEMMA FollowsSame ==
    ASSUME NEW e, NEW f \in Engine, f.o.runId = e.o.runId, f.live = e.live,
           f.o.completed = e.o.completed, f.o.status = e.o.status, InFlight(f) = InFlight(e)
    PROVE  Follows(e, f)
<1>1. {} \in SUBSET With(e, {"queued"})  OBVIOUS
<1>2. InFlight(f) = InFlight(e) \cup {}  OBVIOUS
<1> QED  BY <1>1, <1>2 DEF Follows

\* Pumps that follow each other.
LEMMA FollowsOn ==
    ASSUME NEW e, NEW f, NEW g, Follows(e, f), Follows(f, g)  PROVE Follows(e, g)
<1>1. PICK K \in SUBSET With(e, {"queued"}) :
          /\ \A i \in Items : f.o.status[i] = IF i \in K THEN "running" ELSE e.o.status[i]
          /\ InFlight(f) = InFlight(e) \cup K
          /\ K # {} => RunningCount(f) <= Cap
  BY DEF Follows
<1>2. PICK L \in SUBSET With(f, {"queued"}) :
          /\ \A i \in Items : g.o.status[i] = IF i \in L THEN "running" ELSE f.o.status[i]
          /\ InFlight(g) = InFlight(f) \cup L
          /\ L # {} => RunningCount(g) <= Cap
  BY DEF Follows
<1>3. L \subseteq With(e, {"queued"})
  BY <1>1, <1>2 DEF With
<1>4. \A i \in Items : g.o.status[i] = IF i \in K \cup L THEN "running" ELSE e.o.status[i]
  BY <1>1, <1>2
<1>5. InFlight(g) = InFlight(e) \cup (K \cup L)
  BY <1>1, <1>2
<1>6. K \cup L # {} => RunningCount(g) <= Cap
  <2>1. CASE L # {}  BY <2>1, <1>2
  <2>2. CASE L = {}
    <3>1. With(g, {"running"}) = With(f, {"running"})
      BY <2>2, <1>2 DEF With
    <3> QED  BY <2>2, <3>1, <1>1 DEF RunningCount
  <2> QED  BY <2>1, <2>2
<1>7. g.o.completed = e.o.completed \/ (g.o.completed /\ IsComplete(g.o))
  <2>1. CASE g.o.completed /\ IsComplete(g.o)  BY <2>1
  <2>2. CASE g.o.completed = f.o.completed /\ f.o.completed = e.o.completed  BY <2>2
  <2>3. CASE g.o.completed = f.o.completed /\ f.o.completed /\ IsComplete(f.o)
    <3>1. L = {}
      BY <2>3, <1>2 DEF IsComplete, With, Settled
    <3>2. IsComplete(g.o)
      BY <2>3, <3>1, <1>2 DEF IsComplete
    <3> QED  BY <2>3, <3>2
  <2> QED  BY <2>1, <2>2, <2>3 DEF Follows
<1> QED
  <2>1. K \cup L \in SUBSET With(e, {"queued"})  BY <1>3
  <2>2. g \in Engine /\ g.o.runId = e.o.runId /\ g.live = e.live  BY DEF Follows
  <2> QED  BY <1>4, <1>5, <1>6, <1>7, <2>1, <2>2 DEF Follows

\* A save changes nothing.
LEMMA PersistFollows ==
    ASSUME NEW e \in Engine
    PROVE  /\ Persist(e) \in Engine /\ Follows(e, Persist(e))
           /\ Persist(e).o = e.o /\ InFlight(Persist(e)) = InFlight(e)
           /\ Persist(e).live = e.live
<1>1. /\ Persist(e) \in Engine /\ Persist(e).o = e.o /\ Persist(e).live = e.live
      /\ InFlight(Persist(e)) = InFlight(e)
  BY DEF Persist, Engine, InFlight
<1> HIDE DEF Persist
<1> QED  BY <1>1, FollowsSame

\* maybeComplete completes a ledger of settled items.
LEMMA MaybeCompleteFollows ==
    ASSUME NEW e \in Engine
    PROVE  MaybeComplete(e) \in Engine /\ Follows(e, MaybeComplete(e))
<1> DEFINE g == MaybeComplete(e)
<1>1. /\ g \in Engine /\ g.o.status = e.o.status /\ g.o.runId = e.o.runId /\ g.live = e.live
      /\ g.forking = e.forking /\ g.starting = e.starting
      /\ g = e \/ (IsComplete(e.o) /\ g.o.completed)
  BY MaybeCompleteFrame
<1> HIDE DEF g
<1>2. g.o.completed = e.o.completed \/ (g.o.completed /\ IsComplete(g.o))
  BY <1>1 DEF IsComplete
<1>3. {} \in SUBSET With(e, {"queued"})  OBVIOUS
<1>4. InFlight(g) = InFlight(e) \cup {}  BY <1>1 DEF InFlight
<1>5. Follows(e, g)
  BY <1>1, <1>2, <1>3, <1>4 DEF Follows
<1> QED  BY <1>1, <1>5 DEF g

\* A launch takes the slot it found free.
LEMMA LaunchNextFollows ==
    ASSUME NEW e \in Engine, SlotFree(e), With(e, {"queued"}) # {}
    PROVE  LaunchNext(e) \in Engine /\ Follows(e, LaunchNext(e))
<1> DEFINE next == First(With(e, {"queued"}))
           f    == SetStatus(e, {next}, "running")
           g    == [f EXCEPT !.forking = @ \cup {next}]
           h    == [f EXCEPT !.starting = @ \cup {next}]
<1>1. next \in With(e, {"queued"})
  <2>1. With(e, {"queued"}) \in SUBSET Nat
    BY ItemsNat DEF With
  <2> QED  BY <2>1, FirstIn
<1>2. next \in Items /\ e.o.status[next] = "queued"  BY <1>1 DEF With
<1>3. LaunchNext(e) = g \/ LaunchNext(e) = h
  BY DEF LaunchNext
<1> HIDE DEF next
<1>4. /\ f \in Engine
      /\ \A i \in Items : f.o.status[i] = IF i \in {next} THEN "running" ELSE e.o.status[i]
      /\ f.o.runId = e.o.runId /\ f.o.completed = e.o.completed
      /\ f.forking = e.forking /\ f.starting = e.starting
  <2>1. {next} \in SUBSET Items /\ "running" \in ItemStatus  BY <1>2 DEF ItemStatus
  <2> QED  BY <2>1, StatusSet
<1>5. f.live = e.live
  BY DEF SetStatus, Engine
<1> HIDE DEF f
<1>6. /\ g \in Engine /\ g.o = f.o /\ g.live = f.live /\ InFlight(g) = InFlight(e) \cup {next}
      /\ h \in Engine /\ h.o = f.o /\ h.live = f.live /\ InFlight(h) = InFlight(e) \cup {next}
  BY <1>2, <1>4 DEF Engine, InFlight
<1> HIDE DEF g, h
<1>7. ASSUME NEW k, k \in {g, h}  PROVE Follows(e, k)
  <2>1. k.o = f.o /\ k \in Engine /\ k.live = e.live /\ InFlight(k) = InFlight(e) \cup {next}
    BY <1>5, <1>6, <1>7
  <2>2. With(k, {"running"}) = With(e, {"running"}) \cup {next}
    BY <1>2, <1>4, <2>1 DEF With
  <2>3. RunningCount(k) <= Cap
    <3>1. RunningCount(k) <= RunningCount(e) + 1
      BY <2>2, WithFinite, FS_AddElement DEF RunningCount
    <3>2. RunningCount(k) \in Nat /\ RunningCount(e) \in Nat
      BY WithFinite DEF RunningCount
    <3> QED  BY <3>1, <3>2, CapAssumption DEF SlotFree
  <2>4. {next} \in SUBSET With(e, {"queued"})  BY <1>1
  <2> QED  BY <1>4, <2>1, <2>3, <2>4 DEF Follows
<1> QED  BY <1>3, <1>6, <1>7

\* The loop of pump, from one await to the next.
LEMMA PumpLoopFollows ==
    ASSUME NEW e \in Engine, NEW b \in BOOLEAN
    PROVE  PumpLoop(e, b) \in Engine /\ Follows(e, PumpLoop(e, b))
<1>1. CASE SlotFree(e) /\ With(e, {"queued"}) # {}
  BY <1>1, LaunchNextFollows DEF PumpLoop
<1>2. CASE ~(SlotFree(e) /\ With(e, {"queued"}) # {})
  <2> DEFINE k == IF b THEN Persist(e) ELSE e
  <2>1. k \in Engine /\ Follows(e, k)
    BY PersistFollows, FollowsItself
  <2>2. PumpLoop(e, b) = MaybeComplete(k)
    BY <1>2 DEF PumpLoop
  <2> HIDE DEF k
  <2> QED  BY <2>1, <2>2, MaybeCompleteFollows, FollowsOn
<1> QED  BY <1>1, <1>2

\* pump, whether it returns, reclaims or launches.
LEMMA PumpFollows ==
    ASSUME NEW e \in Engine
    PROVE  /\ PumpOnDuty(e) \in Engine /\ Follows(e, PumpOnDuty(e))
           /\ Pump(e) \in Engine /\ Follows(e, Pump(e))
<1> DEFINE g == [e EXCEPT !.reclaiming = @ + 1]
<1>1. g \in Engine /\ g.o = e.o /\ g.live = e.live /\ InFlight(g) = InFlight(e)
  BY DEF Engine, InFlight
<1>2. PumpOnDuty(e) \in {e, g, PumpLoop(e, FALSE)}
  BY Zenon DEF PumpOnDuty
<1> HIDE DEF g
<1>3. Follows(e, g)
  BY <1>1, FollowsSame
<1>4. PumpOnDuty(e) \in Engine /\ Follows(e, PumpOnDuty(e))
  BY <1>1, <1>2, <1>3, FollowsItself, PumpLoopFollows
<1>5. Pump(e) \in {e, PumpOnDuty(e)}
  BY Zenon DEF Pump
<1> QED  BY <1>4, <1>5, FollowsItself

-----------------------------------------------------------------------------
\* g is e but for the items of S, which are at st.
Assigned(e, S, st, g) ==
    /\ g \in Engine /\ g.live = e.live /\ InFlight(g) = InFlight(e)
    /\ g.forking = e.forking /\ g.starting = e.starting
    /\ g.o.runId = e.o.runId /\ g.o.completed = e.o.completed
    /\ \A i \in Items : g.o.status[i] = IF i \in S THEN st ELSE e.o.status[i]

\* What an assignment to item.status leaves, in the terms of Follows.
LEMMA StatusGives ==
    ASSUME NEW e \in Engine, NEW S \in SUBSET Items, NEW st \in ItemStatus
    PROVE  Assigned(e, S, st, SetStatus(e, S, st))
<1> DEFINE g == SetStatus(e, S, st)
<1>1. /\ g \in Engine /\ g.o.runId = e.o.runId /\ g.o.completed = e.o.completed
      /\ \A i \in Items : g.o.status[i] = IF i \in S THEN st ELSE e.o.status[i]
      /\ g.forking = e.forking /\ g.starting = e.starting
  BY StatusSet
<1>2. g.live = e.live
  BY DEF SetStatus, Engine
<1> HIDE DEF g
<1>3. InFlight(g) = InFlight(e)
  BY <1>1 DEF InFlight
<1>4. Assigned(e, S, st, g)
  BY <1>1, <1>2, <1>3 DEF Assigned
<1> QED  BY <1>4 DEF g

\* What an update of a run makes of the status of its item.
Updated(st, kind) ==
    CASE kind \in {"paused", "held"} -> "paused"
      [] kind = "running" /\ st = "paused" -> "running"
      [] kind = "done" /\ st \in {"running", "paused"} -> "done"
      [] kind = "aborted" /\ st \in {"running", "paused"} -> "failed"
      [] OTHER -> st

\* The observer changes the item of the run, then pumps.
LEMMA UpdateFollows ==
    ASSUME NEW e \in Engine, NEW r \in Runs, NEW kind \in RunStates,
           \A i, j \in Items : e.o.runId[i] = r /\ e.o.runId[j] = r => i = j
    PROVE  \E g \in Engine :
              /\ Follows(g, OnRunUpdate(e, r, kind))
              /\ g.o.runId = e.o.runId /\ g.live = e.live
              /\ g.o.completed = e.o.completed /\ InFlight(g) = InFlight(e)
              /\ \A i \in Items : g.o.status[i] =
                    IF e.live /\ e.o.runId[i] = r THEN Updated(e.o.status[i], kind)
                                                  ELSE e.o.status[i]
<1> DEFINE Told(g) ==
              /\ g \in Engine
              /\ Follows(g, OnRunUpdate(e, r, kind))
              /\ g.o.runId = e.o.runId /\ g.live = e.live
              /\ g.o.completed = e.o.completed /\ InFlight(g) = InFlight(e)
              /\ \A i \in Items : g.o.status[i] =
                    IF e.live /\ e.o.runId[i] = r THEN Updated(e.o.status[i], kind)
                                                  ELSE e.o.status[i]
<1> SUFFICES \E g : Told(g)  OBVIOUS
<1>1. CASE ~e.live \/ \A j \in Items : e.o.runId[j] # r
  <2>1. OnRunUpdate(e, r, kind) = e
    BY <1>1, Zenon DEF OnRunUpdate
  <2> QED  BY <1>1, <2>1, FollowsItself
<1>2. CASE e.live /\ \E j \in Items : e.o.runId[j] = r
  <2> DEFINE i  == CHOOSE j \in Items : e.o.runId[j] = r
             st == e.o.status[i]
  <2>1. i \in Items /\ e.o.runId[i] = r  BY <1>2
  <2>2. \A j \in Items : e.o.runId[j] = r <=> j = i  BY <2>1
  <2>3. /\ kind \in {"paused", "held"} /\ st # "paused" => OnRunUpdate(e, r, kind) = Park(e, i)
        /\ kind = "running" /\ st = "paused" =>
              OnRunUpdate(e, r, kind) = Persist(SetStatus(e, {i}, "running"))
        /\ kind = "done" /\ st \in {"running", "paused"} =>
              OnRunUpdate(e, r, kind) = Settle(e, i, r, "done")
        /\ kind = "aborted" /\ st \in {"running", "paused"} =>
              OnRunUpdate(e, r, kind) = Settle(e, i, r, "failed")
    BY <1>2 DEF OnRunUpdate
  <2>4. \/ kind \in {"paused", "held"} /\ st # "paused"
        \/ kind = "running" /\ st = "paused"
        \/ kind \in {"done", "aborted"} /\ st \in {"running", "paused"}
        \/ OnRunUpdate(e, r, kind) = e /\ Updated(st, kind) = st
    BY <1>2 DEF OnRunUpdate, Updated
  <2> HIDE DEF i
  <2>5. {"paused", "running", "done", "failed"} \subseteq ItemStatus /\ {i} \in SUBSET Items
    BY <2>1 DEF ItemStatus, Settled
  <2>6. ASSUME NEW to \in ItemStatus, to = Updated(st, kind),
               Follows(SetStatus(e, {i}, to), OnRunUpdate(e, r, kind))
        PROVE  \E g : Told(g)
    <3> DEFINE g == SetStatus(e, {i}, to)
    <3>1. /\ g \in Engine /\ g.live = e.live /\ InFlight(g) = InFlight(e)
          /\ g.o.runId = e.o.runId /\ g.o.completed = e.o.completed
          /\ \A j \in Items : g.o.status[j] = IF j \in {i} THEN to ELSE e.o.status[j]
      BY <2>5, StatusGives DEF Assigned
    <3>2. Follows(g, OnRunUpdate(e, r, kind))  BY <2>6
    <3> HIDE DEF g
    <3>3. Told(g)
      BY <1>2, <2>2, <2>6, <3>1, <3>2
    <3> QED  BY <3>3
  <2>7. ASSUME NEW to \in ItemStatus
        PROVE  /\ Follows(SetStatus(e, {i}, to), Persist(SetStatus(e, {i}, to)))
               /\ Follows(SetStatus(e, {i}, to), Pump(Persist(SetStatus(e, {i}, to))))
               /\ Follows(SetStatus(e, {i}, to), Settle(e, i, r, to))
    <3> DEFINE g == SetStatus(e, {i}, to)
               p == Persist(g)
               c == [p EXCEPT !.capturing = @ \cup {<<i, r>>}]
    <3>1. g \in Engine  BY <2>5, StatusGives DEF Assigned
    <3>2. Settle(e, i, r, to) = Pump(c)  BY DEF Settle
    <3> HIDE DEF g
    <3>3. p \in Engine /\ Follows(g, p)  BY <3>1, PersistFollows
    <3> HIDE DEF p
    <3>4. c \in Engine /\ c.o = p.o /\ c.live = p.live /\ InFlight(c) = InFlight(p)
      BY <2>1, <3>3 DEF Engine, InFlight
    <3> HIDE DEF c
    <3>5. Follows(g, c)
      BY <3>3, <3>4, FollowsSame, FollowsOn
    <3>6. Follows(g, Pump(p)) /\ Follows(g, Pump(c))
      BY <3>3, <3>4, <3>5, PumpFollows, FollowsOn
    <3> QED  BY <3>2, <3>3, <3>6 DEF g, p
  <2>8. CASE kind \in {"paused", "held"} /\ st # "paused"
    <3>1. Updated(st, kind) = "paused"  BY <2>8 DEF Updated
    <3>2. Follows(SetStatus(e, {i}, "paused"), OnRunUpdate(e, r, kind))
      BY <2>3, <2>5, <2>7, <2>8 DEF Park
    <3> QED  BY <2>5, <2>6, <3>1, <3>2
  <2>9. CASE kind = "running" /\ st = "paused"
    <3>1. Updated(st, kind) = "running"  BY <2>9 DEF Updated
    <3>2. Follows(SetStatus(e, {i}, "running"), OnRunUpdate(e, r, kind))
      BY <2>3, <2>5, <2>7, <2>9
    <3> QED  BY <2>5, <2>6, <3>1, <3>2
  <2>10. CASE kind = "done" /\ st \in {"running", "paused"}
    <3>1. Updated(st, kind) = "done"  BY <2>10 DEF Updated
    <3>2. Follows(SetStatus(e, {i}, "done"), OnRunUpdate(e, r, kind))
      BY <2>3, <2>5, <2>7, <2>10
    <3> QED  BY <2>5, <2>6, <3>1, <3>2
  <2>11. CASE kind = "aborted" /\ st \in {"running", "paused"}
    <3>1. Updated(st, kind) = "failed"  BY <2>11 DEF Updated
    <3>2. Follows(SetStatus(e, {i}, "failed"), OnRunUpdate(e, r, kind))
      BY <2>3, <2>5, <2>7, <2>11
    <3> QED  BY <2>5, <2>6, <3>1, <3>2
  <2>12. CASE OnRunUpdate(e, r, kind) = e /\ Updated(st, kind) = st
    <3>1. Told(e)
      BY <2>2, <2>12, FollowsItself
    <3> QED  BY <3>1
  <2> QED  BY <2>4, <2>8, <2>9, <2>10, <2>11, <2>12
<1> QED  BY <1>1, <1>2

-----------------------------------------------------------------------------
(* What a step does before its pumps.                                       *)

Moves == Promise!Moves

\* Each item stays or makes a move of the ledger that is no launch.
Moved(e, g) ==
    \A i \in Items : \/ g.o.status[i] = e.o.status[i]
                     \/ /\ g.o.status[i] \in Moves[e.o.status[i]]
                        /\ g.o.status[i] = "running" => e.o.status[i] = "paused"

\* Nothing settled moves, unless the batch is open again and has work.
Ends(e, g) ==
    \/ /\ g.o.completed = e.o.completed
       /\ \A i \in Items : e.o.status[i] \in Settled => g.o.status[i] = e.o.status[i]
    \/ ~g.o.completed /\ ~IsComplete(g.o)

Unlaunched(g) ==
    \A i \in Items : g.o.status[i] \in {"proposed", "queued"} => g.o.runId[i] = NoRun

\* The items tell what the runs in state rs do, and no run that can work is lost.
Mirrors(g, rs) ==
    /\ \A i \in Items : LET r == g.o.runId[i] IN
          r # NoRun /\ rs[r] \notin {"none", "deleted"} =>
            \/ g.o.status[i] = ItemOf(rs[r])
            \/ rs[r] = "aborted" /\ g.o.status[i] = "cancelled"
    /\ \A r \in Runs : rs[r] \in {"running", "paused", "held"} =>
          \E i \in Items : g.o.runId[i] = r

\* What a batch is, besides IInv, while nothing is run anew and the process lives.
Agrees ==
    /\ engine.live => Mirrors(engine, runState)
    /\ engine.o.completed => IsComplete(engine.o)

\* The pumps of this step start from g.
PumpsFrom(g) == Follows(g, engine') /\ InFlight(g) \subseteq InFlight(engine)

\* g is a legal change of the engine.
Legal(g) ==
    /\ Moved(engine, g) /\ Ends(engine, g) /\ Unlaunched(g)
    /\ g.live => Mirrors(g, runState')

StepOK == \E g \in Engine : PumpsFrom(g) /\ (Agrees => Legal(g))

-----------------------------------------------------------------------------
\* What the actions need of the invariant.
LEMMA Facts ==
    ASSUME IInv
    PROVE  /\ engine \in Engine /\ engine.o \in Ledger /\ runState \in [Runs -> RunStates]
           /\ Unlaunched(engine)
           /\ \A i, j \in Items : engine.o.runId[i] # NoRun
                                    /\ engine.o.runId[i] = engine.o.runId[j] => i = j
           /\ \A i \in Items : /\ engine.o.runId[i] \in Runs \cup {NoRun}
                               /\ engine.o.status[i] \in ItemStatus
                              
                               /\ engine.o.runId[i] # NoRun => runState[engine.o.runId[i]] # "none"
           /\ \A i \in InFlight(engine) : i \in Items /\ engine.o.status[i] = "running"
                                            /\ engine.o.runId[i] = NoRun
           /\ NoRun \notin Runs
<1>1. engine \in Engine /\ LedgerOK(engine.o, Minted) /\ Tracked(engine)
  BY DEF IInv, EngineOK
<1>2. NoRun \notin Runs
  BY SizeAssumption DEF Runs, NoRun
<1>3. engine.o \in Ledger /\ engine.forking \subseteq Items /\ engine.starting \subseteq Items
  BY <1>1 DEF Engine
<1>4. \A i \in Items : /\ engine.o.runId[i] \in Runs \cup {NoRun}
                       /\ engine.o.status[i] \in ItemStatus
  BY <1>3 DEF Ledger
<1>5. \A i \in Items : engine.o.runId[i] # NoRun => runState[engine.o.runId[i]] # "none"
  BY <1>1 DEF LedgerOK, Minted
<1>6. \A i \in InFlight(engine) : i \in Items /\ engine.o.status[i] = "running"
                                    /\ engine.o.runId[i] = NoRun
  BY <1>1, <1>3 DEF Tracked, InFlight
<1>7. runState \in [Runs -> RunStates]  BY DEF IInv, TypeOK
<1> QED  BY <1>1, <1>2, <1>3, <1>4, <1>5, <1>6, <1>7 DEF LedgerOK, Unlaunched

\* A step that changes nothing the ledger tells, and no run.
LEMMA QuietStep ==
    ASSUME IInv, Follows(engine, engine'), UNCHANGED runState
    PROVE  StepOK
<1>1. PumpsFrom(engine)  BY DEF PumpsFrom
<1>2. Agrees => Legal(engine)
  BY Facts DEF Agrees, Legal, Moved, Ends
<1> QED  BY <1>1, <1>2, Facts DEF StepOK

\* approveBatch.
LEMMA ApproveBatchStep ==
    ASSUME IInv, NEW picks \in SUBSET Items, NEW keep \in BOOLEAN, ApproveBatch(picks, keep)
    PROVE  StepOK
<1> DEFINE proposed == With(engine, {"proposed"})
           declined == IF keep THEN {} ELSE proposed \ picks
           f == SetStatus(engine, picks, "queued")
           g == SetStatus(f, declined, "cancelled")
<1>1. picks \subseteq proposed /\ declined \subseteq proposed /\ proposed # {}
  BY DEF ApproveBatch
<1>2. /\ \A i \in proposed : i \in Items /\ engine.o.status[i] = "proposed"
      /\ "queued" \in ItemStatus /\ "cancelled" \in ItemStatus
  BY DEF With, ItemStatus, Settled
<1>3. UNCHANGED runState  BY DEF ApproveBatch, Idle
<1>4. \/ engine' = Pump(Persist(g)) \/ engine' = Persist(g)
      \/ engine' = MaybeComplete(Persist(g))
  BY Zenon DEF ApproveBatch
<1> HIDE DEF proposed, declined
<1>5. Assigned(engine, picks, "queued", f)
  BY <1>1, <1>2, Facts, StatusGives
<1>6. Assigned(f, declined, "cancelled", g)
  <2>1. f \in Engine  BY <1>5 DEF Assigned
  <2>2. declined \in SUBSET Items  BY <1>1, <1>2
  <2> HIDE DEF f
  <2> QED  BY <1>2, <2>1, <2>2, StatusGives
<1> HIDE DEF f
<1> HIDE DEF g
<1>7. /\ g \in Engine /\ g.live = engine.live /\ InFlight(g) = InFlight(engine)
      /\ g.o.runId = engine.o.runId /\ g.o.completed = engine.o.completed
  BY <1>5, <1>6 DEF Assigned
<1>8. PumpsFrom(g)
  <2>1. Persist(g) \in Engine /\ Follows(g, Persist(g))  BY <1>7, PersistFollows
  <2>2. Follows(g, engine')
    BY <1>4, <2>1, PumpFollows, MaybeCompleteFollows, FollowsOn
  <2> QED  BY <1>7, <2>2 DEF PumpsFrom
<1>9. \A i \in Items : \/ g.o.status[i] = engine.o.status[i]
                       \/ /\ engine.o.status[i] = "proposed"
                          /\ g.o.status[i] \in {"queued", "cancelled"}
  BY <1>1, <1>2, <1>5, <1>6 DEF Assigned
<1>10. Moved(engine, g) /\ Unlaunched(g)
  BY <1>7, <1>9, Facts DEF Moved, Moves, Promise!Moves, Unlaunched
<1>11. Ends(engine, g)
  BY <1>7, <1>9 DEF Ends, Settled
<1>12. Agrees /\ g.live => Mirrors(g, runState')
  BY <1>3, <1>7, <1>9, Facts DEF Agrees, Mirrors, Unlaunched
<1> QED  BY <1>7, <1>8, <1>10, <1>11, <1>12 DEF StepOK, Legal

\* The cancellation of an item nobody works on.
LEMMA CancelledGives ==
    ASSUME IInv, NEW i \in Items, engine.o.status[i] \in {"proposed", "paused"},
           LET r == engine.o.runId[i]
           IN  r = NoRun \/ runState'[r] \in {"deleted", "aborted"},
           runState' \in [Runs -> RunStates],
           \A r \in Runs : r # engine.o.runId[i] => runState'[r] = runState[r]
    PROVE  LET g == SetStatus(engine, {i}, "cancelled") IN
           /\ g \in Engine /\ Follows(g, Rejected(i)) /\ Rejected(i) \in Engine
           /\ InFlight(g) = InFlight(engine) /\ (Agrees => Legal(g))
           /\ g.o.runId = engine.o.runId /\ g.o.status[i] = "cancelled"
<1> DEFINE g == SetStatus(engine, {i}, "cancelled")
<1>1. /\ g \in Engine /\ g.live = engine.live /\ InFlight(g) = InFlight(engine)
      /\ g.o.runId = engine.o.runId /\ g.o.completed = engine.o.completed
      /\ \A j \in Items : g.o.status[j] = IF j \in {i} THEN "cancelled" ELSE engine.o.status[j]
  <2>1. {i} \in SUBSET Items /\ "cancelled" \in ItemStatus  BY DEF ItemStatus, Settled
  <2>2. Assigned(engine, {i}, "cancelled", g)
    BY <2>1, Facts, StatusGives
  <2> HIDE DEF g
  <2> QED  BY <2>2 DEF Assigned
<1>2. Rejected(i) = MaybeComplete(Persist(g))  BY DEF Rejected
<1> HIDE DEF g
<1>3. Rejected(i) \in Engine /\ Follows(g, Rejected(i))
  BY <1>1, <1>2, PersistFollows, MaybeCompleteFollows, FollowsOn
<1>4. Moved(engine, g) /\ Unlaunched(g) /\ Ends(engine, g)
  BY <1>1, Facts DEF Moved, Moves, Promise!Moves, Unlaunched, Ends, Settled
<1>5. ASSUME Agrees, g.live  PROVE Mirrors(g, runState')
  <2>1. Mirrors(engine, runState)  BY <1>1, <1>5 DEF Agrees
  <2>2. ASSUME NEW r \in Runs, runState'[r] \in {"running", "paused", "held"}
        PROVE  \E j \in Items : g.o.runId[j] = r
    <3>1. r # engine.o.runId[i]
      <4>1. r # NoRun  BY Facts
      <4> QED  BY <2>2, <4>1
    <3> QED  BY <1>1, <2>1, <2>2, <3>1 DEF Mirrors
  <2>3. ASSUME NEW j \in Items, NEW r, r = g.o.runId[j], r # NoRun,
               runState'[r] \notin {"none", "deleted"}
        PROVE  \/ g.o.status[j] = ItemOf(runState'[r])
               \/ runState'[r] = "aborted" /\ g.o.status[j] = "cancelled"
    <3>1. CASE j = i
      BY <1>1, <2>3, <3>1
    <3>2. CASE j # i
      <4>1. r \in Runs /\ r # engine.o.runId[i]  BY <1>1, <2>3, <3>2, Facts
      <4>2. runState'[r] = runState[r]  BY <4>1
      <4> QED  BY <1>1, <2>1, <2>3, <3>2, <4>2 DEF Mirrors
    <3> QED  BY <3>1, <3>2
  <2> QED  BY <2>2, <2>3 DEF Mirrors
<1> QED  BY <1>1, <1>3, <1>4, <1>5 DEF g, Legal

\* rejectItem.
LEMMA RejectItemStep ==
    ASSUME IInv, NEW i \in Items, RejectItem(i)  PROVE StepOK
<1> DEFINE g == SetStatus(engine, {i}, "cancelled")
<1>1. UNCHANGED runState /\ engine' = Rejected(i)  BY DEF RejectItem, Idle
<1>2. engine.o.runId[i] = NoRun \/ runState[engine.o.runId[i]] = "deleted"
  BY Facts DEF RejectItem, Unlaunched
<1>3. engine.o.status[i] \in {"proposed", "paused"}  BY DEF RejectItem
<1>4. g \in Engine /\ Follows(g, Rejected(i)) /\ InFlight(g) = InFlight(engine)
        /\ (Agrees => Legal(g))
  BY <1>1, <1>2, <1>3, Facts, CancelledGives
<1> QED  BY <1>1, <1>4 DEF StepOK, PumpsFrom

\* rejectWorkerRun: the update of the aborted run finds its item settled.
LEMMA RejectRunStep ==
    ASSUME IInv, NEW i \in Items, RejectRun(i)  PROVE StepOK
<1> DEFINE r == engine.o.runId[i]
           g == SetStatus(engine, {i}, "cancelled")
           k == Rejected(i)
<1>1. /\ engine.o.status[i] = "paused" /\ r \in Runs
      /\ engine' = OnRunUpdate(k, r, "aborted")
      /\ runState' = [runState EXCEPT ![r] = "aborted"]
  BY Facts DEF RejectRun, Linked
<1>2. /\ runState' \in [Runs -> RunStates] /\ runState'[r] = "aborted"
      /\ \A x \in Runs : x # r => runState'[x] = runState[x]
  BY <1>1, Facts DEF RunStates
<1>3. /\ g \in Engine /\ Follows(g, k) /\ k \in Engine
      /\ InFlight(g) = InFlight(engine) /\ (Agrees => Legal(g))
      /\ g.o.runId = engine.o.runId /\ g.o.status[i] = "cancelled"
  BY <1>1, <1>2, CancelledGives
<1> HIDE DEF g, k
<1>4. k.o.runId = engine.o.runId /\ k.o.status[i] = "cancelled"
  BY <1>3 DEF Follows, With
<1>5. \A j \in Items : k.o.runId[j] = r => j = i
  BY <1>1, <1>4, Facts
<1>6. PICK h \in Engine :
         /\ Follows(h, engine')
         /\ h.o.runId = k.o.runId /\ h.live = k.live
         /\ h.o.completed = k.o.completed /\ InFlight(h) = InFlight(k)
         /\ \A j \in Items : h.o.status[j] =
               IF k.live /\ k.o.runId[j] = r THEN Updated(k.o.status[j], "aborted")
                                             ELSE k.o.status[j]
  <2>1. "aborted" \in RunStates  BY DEF RunStates
  <2> QED  BY <1>1, <1>3, <1>5, <2>1, UpdateFollows
<1>7. \A j \in Items : h.o.status[j] = k.o.status[j]
  BY <1>4, <1>5, <1>6 DEF Updated
<1>8. h.o.status = k.o.status
  BY <1>3, <1>6, <1>7 DEF Engine, Ledger
<1>9. Follows(g, engine')
  BY <1>3, <1>6, <1>8, FollowsSame, FollowsOn
<1> QED  BY <1>3, <1>9 DEF StepOK, PumpsFrom

\* abort: what was waiting is cancelled, what worked fails with its run.
LEMMA AbortBatchStep ==
    ASSUME IInv, AbortBatch  PROVE StepOK
<1> DEFINE waiting == {i \in With(engine, {"queued", "proposed", "paused"}) :
                         engine.o.status[i] = "paused" => ~Linked(engine, i)}
           killed  == Killed(engine)
           running == With(engine, {"running"})
           doomed  == {r \in Runs : Known(r) /\ \E i \in killed : engine.o.runId[i] = r}
           f == SetStatus(engine, waiting, "cancelled")
           g == SetStatus(f, killed \cap running, "failed")
           h == SetStatus(g, killed \ running, "cancelled")
<1>1. /\ \A i \in Items : i \in waiting <=>
            engine.o.status[i] \in {"queued", "proposed"}
              \/ (engine.o.status[i] = "paused" /\ engine.o.runId[i] = NoRun)
      /\ \A i \in Items : i \in killed <=>
            engine.o.status[i] \in {"running", "paused"} /\ engine.o.runId[i] # NoRun
      /\ \A i \in Items : i \in running <=> engine.o.status[i] = "running"
      /\ waiting \in SUBSET Items /\ killed \in SUBSET Items
  BY DEF With, Killed, Linked
<1>2. \A r \in Runs : r \in doomed <=>
         runState[r] \notin {"none", "deleted"} /\ \E i \in killed : engine.o.runId[i] = r
  BY DEF Known
<1>3. runState' = [r \in Runs |-> IF r \in doomed THEN "aborted" ELSE runState[r]]
  BY Zenon DEF AbortBatch
<1>4. engine' = MaybeComplete(Persist([h EXCEPT !.o.paused = FALSE]))
  BY Zenon DEF AbortBatch
<1> HIDE DEF waiting, killed, running, doomed
<1>5. "failed" \in ItemStatus /\ "cancelled" \in ItemStatus  BY DEF ItemStatus, Settled
<1>6. Assigned(engine, waiting, "cancelled", f)
  BY <1>1, <1>5, Facts, StatusGives
<1>7. Assigned(f, killed \cap running, "failed", g)
  <2>1. f \in Engine /\ killed \cap running \in SUBSET Items  BY <1>1, <1>6 DEF Assigned
  <2> HIDE DEF f
  <2> QED  BY <1>5, <2>1, StatusGives
<1> HIDE DEF f
<1>8. Assigned(g, killed \ running, "cancelled", h)
  <2>1. g \in Engine /\ killed \ running \in SUBSET Items  BY <1>1, <1>7 DEF Assigned
  <2> HIDE DEF g
  <2> QED  BY <1>5, <2>1, StatusGives
<1> HIDE DEF g, h
<1> DEFINE k == [h EXCEPT !.o = [h.o EXCEPT !.paused = FALSE]]
<1>9. [h EXCEPT !.o.paused = FALSE] = k
  BY <1>8 DEF Engine, Assigned
<1>10. /\ k \in Engine /\ k.live = h.live /\ InFlight(k) = InFlight(h)
       /\ k.o.status = h.o.status /\ k.o.runId = h.o.runId /\ k.o.completed = h.o.completed
  BY <1>8 DEF Engine, Ledger, InFlight, Assigned
<1> HIDE DEF k
<1>11. PumpsFrom(k)
  <2>1. Follows(k, engine')
    BY <1>4, <1>9, <1>10, PersistFollows, MaybeCompleteFollows, FollowsOn
  <2> QED  BY <1>6, <1>7, <1>8, <1>10, <2>1 DEF PumpsFrom, Assigned
<1>12. \A i \in Items :
         /\ i \in waiting => k.o.status[i] = "cancelled"
         /\ i \in killed => k.o.status[i] = IF i \in running THEN "failed" ELSE "cancelled"
         /\ i \notin waiting \cup killed => k.o.status[i] = engine.o.status[i]
  BY <1>1, <1>6, <1>7, <1>8, <1>10 DEF Assigned
<1>13. k.o.runId = engine.o.runId /\ k.o.completed = engine.o.completed /\ k.live = engine.live
  BY <1>6, <1>7, <1>8, <1>10 DEF Assigned
<1>14. Moved(engine, k)
  BY <1>1, <1>12 DEF Moved, Moves, Promise!Moves
<1>15. Unlaunched(k) /\ Ends(engine, k)
  BY <1>1, <1>12, <1>13, Facts DEF Unlaunched, Ends, Settled
<1>16. ASSUME Agrees, k.live  PROVE Mirrors(k, runState')
  <2>1. Mirrors(engine, runState)  BY <1>13, <1>16 DEF Agrees
  <2>2. ASSUME NEW r \in Runs, runState'[r] \in {"running", "paused", "held"}
        PROVE  \E j \in Items : k.o.runId[j] = r
    BY <1>3, <1>13, <2>1, <2>2 DEF Mirrors
  <2>3. ASSUME NEW i \in Items, NEW r, r = k.o.runId[i], r # NoRun,
               runState'[r] \notin {"none", "deleted"}
        PROVE  \/ k.o.status[i] = ItemOf(runState'[r])
               \/ runState'[r] = "aborted" /\ k.o.status[i] = "cancelled"
    <3>1. r \in Runs /\ r = engine.o.runId[i]  BY <1>13, <2>3, Facts
    <3>2. runState[r] \notin {"none", "deleted"}
      BY <1>2, <1>3, <2>3, <3>1
    <3>3. CASE i \in killed
      <4>1. runState'[r] = "aborted"  BY <1>2, <1>3, <3>1, <3>2, <3>3
      <4> QED  BY <1>12, <3>3, <4>1 DEF ItemOf
    <3>4. CASE i \notin killed
      <4>1. r \notin doomed
        BY <1>1, <1>2, <2>3, <3>1, <3>4, Facts
      <4>2. runState'[r] = runState[r]  BY <1>3, <3>1, <4>1
      <4>3. i \notin waiting
        BY <1>1, <2>3, <3>1, Facts DEF Unlaunched
      <4> QED  BY <1>12, <2>1, <2>3, <3>1, <3>4, <4>2, <4>3 DEF Mirrors
    <3> QED  BY <3>3, <3>4
  <2> QED  BY <2>2, <2>3 DEF Mirrors
<1> QED  BY <1>10, <1>11, <1>14, <1>15, <1>16 DEF StepOK, Legal

\* pause changes no status; the holds it asks for are the runs' own.
LEMMA PauseBatchStep ==
    ASSUME IInv, PauseBatch  PROVE StepOK
<1> DEFINE o == [engine.o EXCEPT !.paused = TRUE]
           g == [engine EXCEPT !.o = o]
<1>1. UNCHANGED runState  BY DEF PauseBatch
<1>2. o \in Ledger /\ o.status = engine.o.status /\ o.runId = engine.o.runId
        /\ o.completed = engine.o.completed
  BY Facts DEF Ledger
<1>3. engine' = Persist(g)
  BY Facts DEF PauseBatch, Engine
<1> HIDE DEF o
<1>4. g \in Engine /\ g.o = o /\ InFlight(g) = InFlight(engine)
  BY <1>2, Facts DEF Engine, InFlight
<1>5. g.live = engine.live  BY Facts DEF Engine
<1> HIDE DEF g
<1>6. Follows(engine, g)
  BY <1>2, <1>4, <1>5, FollowsSame
<1>7. Follows(engine, engine')
  BY <1>3, <1>4, <1>6, PersistFollows, FollowsOn
<1> QED  BY <1>1, <1>7, QuietStep

\* resume continues held runs and their items with them.
LEMMA ResumeBatchStep ==
    ASSUME IInv, ResumeBatch  PROVE StepOK
<1> DEFINE ours == {r \in Runs : \E i \in With(engine, {"running", "paused"}) :
                                    engine.o.runId[i] = r}
           heldRuns == {r \in ours : runState[r] = "held"}
           awake(S) == {i \in With(engine, {"paused"}) : engine.o.runId[i] \in S}
           o    == [engine.o EXCEPT !.paused = FALSE]
           q    == [engine EXCEPT !.o = o]
           p    == Persist(q)
           e(S) == SetStatus(p, awake(S), "running")
<1> DEFINE Resumed(gated, continued) ==
             /\ runState' = [r \in Runs |-> IF r \in gated THEN "paused"
                                            ELSE IF r \in continued THEN "running"
                                            ELSE runState[r]]
             /\ engine' = Pump(IF continued = {} THEN e({}) ELSE Persist(e(continued)))
<1>1. PICK gated \in SUBSET heldRuns :
         \E continued \in SUBSET (heldRuns \ gated) : Resumed(gated, continued)
  <2>1. [engine EXCEPT !.o.paused = FALSE] = q  BY Facts DEF Engine
  <2> QED  BY <2>1, Zenon DEF ResumeBatch
<1>2. PICK continued \in SUBSET (heldRuns \ gated) : Resumed(gated, continued)
  BY <1>1
<1> DEFINE g == e(continued)
<1>3. engine' = Pump(g) \/ engine' = Pump(Persist(g))
  BY <1>2
<1>4. o \in Ledger /\ o.status = engine.o.status /\ o.runId = engine.o.runId
        /\ o.completed = engine.o.completed
  BY Facts DEF Ledger
<1> HIDE DEF o
<1>5. q \in Engine /\ q.o = o /\ InFlight(q) = InFlight(engine)
  BY <1>4, Facts DEF Engine, InFlight
<1>6. q.live = engine.live  BY Facts DEF Engine
<1> HIDE DEF q
<1>7. p \in Engine /\ p.o = o /\ InFlight(p) = InFlight(engine) /\ p.live = engine.live
  BY <1>5, <1>6, PersistFollows
<1> HIDE DEF p
<1>8. /\ awake(continued) \in SUBSET Items
      /\ \A i \in Items : i \in awake(continued) <=>
            engine.o.status[i] = "paused" /\ engine.o.runId[i] \in continued
      /\ \A r \in continued : r \in Runs /\ r \notin gated /\ runState[r] = "held"
      /\ \A r \in gated : r \in Runs /\ runState[r] = "held"
  BY <1>2 DEF With
<1> HIDE DEF awake, heldRuns, ours
<1>9. /\ g \in Engine /\ InFlight(g) = InFlight(engine) /\ g.live = engine.live
      /\ g.o.runId = engine.o.runId /\ g.o.completed = engine.o.completed
      /\ \A i \in Items : g.o.status[i] = IF i \in awake(continued) THEN "running"
                                                                    ELSE engine.o.status[i]
  <2>1. awake(continued) \in SUBSET Items /\ "running" \in ItemStatus
    BY <1>8 DEF ItemStatus
  <2>2. Assigned(p, awake(continued), "running", g)
    BY <1>7, <2>1, StatusGives
  <2> HIDE DEF g
  <2> QED  BY <1>4, <1>7, <2>2 DEF Assigned
<1> HIDE DEF e, g
<1>10. PumpsFrom(g)
  <2>1. Persist(g) \in Engine /\ Follows(g, Persist(g))  BY <1>9, PersistFollows
  <2>2. Follows(g, engine')
    BY <1>3, <1>9, <2>1, PumpFollows, FollowsOn
  <2> QED  BY <1>9, <2>2 DEF PumpsFrom
<1>11. Moved(engine, g) /\ Unlaunched(g) /\ Ends(engine, g)
  BY <1>8, <1>9, Facts DEF Moved, Moves, Promise!Moves, Unlaunched, Ends, Settled
<1>12. ASSUME Agrees, g.live  PROVE Mirrors(g, runState')
  <2>1. Mirrors(engine, runState)  BY <1>9, <1>12 DEF Agrees
  <2>2. ASSUME NEW r \in Runs, runState'[r] \in {"running", "paused", "held"}
        PROVE  \E j \in Items : g.o.runId[j] = r
    <3>1. runState[r] \in {"running", "paused", "held"}  BY <1>2, <1>8, <2>2
    <3> QED  BY <1>9, <2>1, <3>1 DEF Mirrors
  <2>3. ASSUME NEW i \in Items, NEW r, r = g.o.runId[i], r # NoRun,
               runState'[r] \notin {"none", "deleted"}
        PROVE  \/ g.o.status[i] = ItemOf(runState'[r])
               \/ runState'[r] = "aborted" /\ g.o.status[i] = "cancelled"
    <3>1. r \in Runs /\ r = engine.o.runId[i]  BY <1>9, <2>3, Facts
    <3>2. CASE r \in continued
      <4>1. runState'[r] = "running" /\ runState[r] = "held"  BY <1>2, <1>8, <3>1, <3>2
      <4>2. engine.o.status[i] = "paused"
        BY <2>1, <2>3, <3>1, <4>1 DEF Mirrors, ItemOf
      <4> QED  BY <1>8, <1>9, <3>1, <3>2, <4>1, <4>2 DEF ItemOf
    <3>3. CASE r \in gated
      <4>1. runState'[r] = "paused" /\ runState[r] = "held" /\ r \notin continued
        BY <1>2, <1>8, <3>1, <3>3
      <4>2. engine.o.status[i] = "paused"
        BY <2>1, <2>3, <3>1, <4>1 DEF Mirrors, ItemOf
      <4> QED  BY <1>8, <1>9, <3>1, <4>1, <4>2 DEF ItemOf
    <3>4. CASE r \notin continued \cup gated
      <4>1. runState'[r] = runState[r]  BY <1>2, <3>1, <3>4
      <4>2. g.o.status[i] = engine.o.status[i]  BY <1>8, <1>9, <3>1, <3>4
      <4> QED  BY <2>1, <2>3, <3>1, <4>1, <4>2 DEF Mirrors
    <3> QED  BY <3>2, <3>3, <3>4
  <2> QED  BY <2>2, <2>3 DEF Mirrors
<1> QED  BY <1>9, <1>10, <1>11, <1>12 DEF StepOK, Legal

\* retry opens the batch again; the runs of what it clears have ended.
LEMMA RetryStep ==
    ASSUME IInv, NEW targets \in SUBSET With(engine, {"failed", "cancelled"}), targets # {},
           Retry(targets)
    PROVE  StepOK
<1> DEFINE e        == SetStatus(engine, targets, "queued")
           clear(f) == Cleared(f, targets)
           o == [e.o EXCEPT !.runId = clear(e.o.runId), !.headSha = clear(e.o.headSha),
                            !.completed = FALSE]
           g == [e EXCEPT !.o = o]
<1>1. UNCHANGED runState  BY DEF Retry, Idle
<1>2. /\ targets \in SUBSET Items
      /\ \A i \in targets : engine.o.status[i] \in {"failed", "cancelled"}
  BY DEF With
<1>3. /\ e \in Engine /\ e.live = engine.live /\ InFlight(e) = InFlight(engine)
      /\ \A i \in Items : e.o.status[i] = IF i \in targets THEN "queued" ELSE engine.o.status[i]
      /\ e.o.runId = engine.o.runId
  <2>1. Assigned(engine, targets, "queued", e)
    BY <1>2, Facts, StatusGives DEF ItemStatus
  <2> HIDE DEF e
  <2> QED  BY <2>1 DEF Assigned
<1> HIDE DEF e
<1>4. /\ o \in Ledger /\ o.status = e.o.status /\ o.completed = FALSE
      /\ \A i \in Items : o.runId[i] = IF i \in targets THEN NoRun ELSE engine.o.runId[i]
  BY <1>3 DEF Engine, Ledger, Cleared
<1>5. engine' = Pump(Persist(g))
  <2>1. [e EXCEPT !.o.runId = clear(@), !.o.headSha = clear(@), !.o.completed = FALSE] = g
    BY <1>3 DEF Engine, Ledger
  <2> QED  BY <2>1, Zenon DEF Retry, Requeued, e
<1> HIDE DEF o
<1>6. g \in Engine /\ g.o = o /\ InFlight(g) = InFlight(e)
  BY <1>3, <1>4 DEF Engine, InFlight
<1>7. g.live = e.live  BY <1>3 DEF Engine
<1> HIDE DEF g
<1>8. PumpsFrom(g)
  <2>1. Persist(g) \in Engine /\ Follows(g, Persist(g))  BY <1>6, PersistFollows
  <2>2. Follows(g, engine')  BY <1>5, <2>1, PumpFollows, FollowsOn
  <2> QED  BY <1>3, <1>6, <2>2 DEF PumpsFrom
<1>9. \A i \in Items : g.o.status[i] = IF i \in targets THEN "queued" ELSE engine.o.status[i]
  BY <1>3, <1>4, <1>6
<1>10. \A i \in Items : g.o.runId[i] = IF i \in targets THEN NoRun ELSE engine.o.runId[i]
  BY <1>4, <1>6
<1>11. Moved(engine, g)
  BY <1>2, <1>9 DEF Moved, Moves, Promise!Moves
<1>12. Unlaunched(g)
  BY <1>9, <1>10, Facts DEF Unlaunched
<1>13. Ends(engine, g)
  <2>1. ~IsComplete(g.o)  BY <1>2, <1>9 DEF IsComplete, Settled
  <2> QED  BY <1>4, <1>6, <2>1 DEF Ends
<1>14. ASSUME Agrees, g.live  PROVE Mirrors(g, runState')
  <2>1. Mirrors(engine, runState)  BY <1>3, <1>7, <1>14 DEF Agrees
  <2>2. ASSUME NEW r \in Runs, runState'[r] \in {"running", "paused", "held"}
        PROVE  \E j \in Items : g.o.runId[j] = r
    <3>1. PICK j \in Items : engine.o.runId[j] = r  BY <1>1, <2>1, <2>2 DEF Mirrors
    <3>2. engine.o.status[j] \in {"running", "paused"}
      <4>1. r # NoRun  BY Facts
      <4> QED  BY <1>1, <2>1, <2>2, <3>1, <4>1 DEF Mirrors, ItemOf
    <3> QED  BY <1>2, <1>10, <3>1, <3>2
  <2>3. ASSUME NEW i \in Items, NEW r, r = g.o.runId[i], r # NoRun,
               runState'[r] \notin {"none", "deleted"}
        PROVE  \/ g.o.status[i] = ItemOf(runState'[r])
               \/ runState'[r] = "aborted" /\ g.o.status[i] = "cancelled"
    BY <1>1, <1>9, <1>10, <2>1, <2>3 DEF Mirrors
  <2> QED  BY <2>2, <2>3 DEF Mirrors
<1> QED  BY <1>6, <1>8, <1>11, <1>12, <1>13, <1>14 DEF StepOK, Legal

\* Steps that leave the ledger as it is, and what pumps make of it.
LEMMA EventStep ==
    ASSUME IInv, \/ CrewLeaves \/ TreesVanish \/ CrewReturns
                 \/ \E r \in Runs : Checkpointed(r)
                 \/ \E i \in Items : LandingUpdated(i)
    PROVE  StepOK
<1>1. engine \in Engine  BY Facts
<1>2. UNCHANGED runState
  BY DEF CrewLeaves, TreesVanish, CrewReturns, Checkpointed, LandingUpdated, Idle
<1>3. engine' \in {engine, PumpOnDuty(engine), Persist(engine)}
  BY DEF CrewLeaves, TreesVanish, CrewReturns, Checkpointed, LandingUpdated
<1>4. Follows(engine, engine')
  BY <1>1, <1>3, FollowsItself, PumpFollows, PersistFollows
<1> QED  BY <1>2, <1>4, QuietStep

\* delete of a batch that is only on disk.
LEMMA DeleteForgottenStep ==
    ASSUME IInv, DeleteForgotten  PROVE StepOK
<1>1. UNCHANGED runState  BY DEF DeleteForgotten, Idle
<1>2. /\ engine' \in Engine /\ engine'.o = engine.o /\ engine'.live = engine.live
      /\ InFlight(engine') = InFlight(engine)
  BY Facts DEF DeleteForgotten, Engine, InFlight
<1>3. Follows(engine, engine')
  BY <1>2, FollowsSame
<1> QED  BY <1>1, <1>3, QuietStep

\* A reclaim that returns goes on with its pump.
LEMMA ReclaimReturnsStep ==
    ASSUME IInv, ReclaimReturns  PROVE StepOK
<1> DEFINE g == [engine EXCEPT !.reclaiming = @ - 1]
<1>1. UNCHANGED runState  BY DEF ReclaimReturns, Idle
<1>2. engine' = PumpLoop(g, FALSE)  BY DEF ReclaimReturns
<1>3. g \in Engine /\ g.o = engine.o /\ g.live = engine.live /\ InFlight(g) = InFlight(engine)
  BY Facts DEF ReclaimReturns, Engine, InFlight
<1> HIDE DEF g
<1>4. Follows(engine, g)
  BY <1>3, FollowsSame
<1>5. Follows(engine, engine')
  BY <1>2, <1>3, <1>4, PumpLoopFollows, FollowsOn
<1> QED  BY <1>1, <1>5, QuietStep

\* A fork that returns hands its item on to startRun.
LEMMA ForkReturnsStep ==
    ASSUME IInv, NEW i \in Items, ForkReturns(i)  PROVE StepOK
<1> DEFINE o == [engine.o EXCEPT !.adopted = TRUE]
           g == [engine EXCEPT !.o = o, !.forking = @ \ {i}, !.starting = @ \cup {i}]
<1>1. UNCHANGED runState /\ i \in engine.forking  BY DEF ForkReturns
<1>2. engine' = g
  BY Facts DEF ForkReturns, Engine
<1>3. o \in Ledger /\ o.status = engine.o.status /\ o.runId = engine.o.runId
        /\ o.completed = engine.o.completed
  BY Facts DEF Ledger
<1> HIDE DEF o
<1>4. g \in Engine /\ g.o = o /\ g.live = engine.live /\ InFlight(g) = InFlight(engine)
  BY <1>1, <1>3, Facts DEF Engine, InFlight
<1> HIDE DEF g
<1>5. Follows(engine, engine')
  BY <1>2, <1>3, <1>4, FollowsSame
<1> QED  BY <1>1, <1>5, QuietStep

\* A commit that arrives is no news of the ledger.
LEMMA CaptureReturnsStep ==
    ASSUME IInv, NEW i \in Items, NEW r \in Runs, CaptureReturns(i, r)  PROVE StepOK
<1> DEFINE e == [engine EXCEPT !.capturing = @ \ {<<i, r>>}]
           o == [e.o EXCEPT !.headSha = [e.o.headSha EXCEPT ![i] = r]]
           g == [e EXCEPT !.o = o]
<1>1. UNCHANGED runState  BY DEF CaptureReturns, Idle
<1>2. e \in Engine /\ e.o = engine.o /\ e.live = engine.live /\ InFlight(e) = InFlight(engine)
  BY Facts DEF Engine, InFlight
<1>3. engine' = e \/ engine' = Persist(g)
  BY <1>2 DEF CaptureReturns, Engine, Ledger
<1> HIDE DEF e
<1>4. o \in Ledger /\ o.status = engine.o.status /\ o.runId = engine.o.runId
        /\ o.completed = engine.o.completed
  BY <1>2, Facts DEF Ledger
<1> HIDE DEF o
<1>5. g \in Engine /\ g.o = o /\ g.live = engine.live /\ InFlight(g) = InFlight(engine)
  BY <1>2, <1>4 DEF Engine, InFlight
<1> HIDE DEF g
<1>6. Follows(engine, e) /\ Follows(engine, g)
  BY <1>2, <1>4, <1>5, FollowsSame
<1>7. Follows(engine, engine')
  BY <1>3, <1>5, <1>6, PersistFollows, FollowsOn
<1> QED  BY <1>1, <1>7, QuietStep

\* Items without a run that fail, and pumps that go on.
LEMMA GivenUpStep ==
    ASSUME IInv, NEW S \in SUBSET Items,
           \A j \in S : engine.o.status[j] \in {"queued", "running"} /\ engine.o.runId[j] = NoRun,
           NEW g \in Engine, g.o = SetStatus(engine, S, "failed").o, g.live = engine.live,
           InFlight(g) \subseteq InFlight(engine),
           UNCHANGED runState, engine' = PumpLoop(g, TRUE)
    PROVE  StepOK
<1>1. /\ g.o.runId = engine.o.runId /\ g.o.completed = engine.o.completed
      /\ \A i \in Items : g.o.status[i] = IF i \in S THEN "failed" ELSE engine.o.status[i]
  <2>1. "failed" \in ItemStatus  BY DEF ItemStatus, Settled
  <2>2. Assigned(engine, S, "failed", SetStatus(engine, S, "failed"))
    BY <2>1, Facts, StatusGives
  <2> QED  BY <2>2 DEF Assigned
<1>2. PumpsFrom(g)
  BY PumpLoopFollows DEF PumpsFrom
<1>3. Moved(engine, g) /\ Unlaunched(g) /\ Ends(engine, g)
  BY <1>1, Facts DEF Moved, Moves, Promise!Moves, Unlaunched, Ends, Settled
<1>4. Agrees /\ g.live => Mirrors(g, runState')
  BY <1>1 DEF Agrees, Mirrors
<1> QED  BY <1>2, <1>3, <1>4 DEF StepOK, Legal

\* startRun throws: the item fails.
LEMMA StartRunFailsStep ==
    ASSUME IInv, NEW i \in Items, StartRunFails(i)  PROVE StepOK
<1> DEFINE f == SetStatus(engine, {i}, "failed")
           g == [f EXCEPT !.starting = @ \ {i}]
<1>1. /\ UNCHANGED runState /\ i \in engine.starting /\ engine' = PumpLoop(g, TRUE)
  BY DEF StartRunFails, FailedLaunch, Idle
<1>2. Assigned(engine, {i}, "failed", f)
  BY Facts, StatusGives DEF ItemStatus, Settled
<1>3. engine.o.status[i] = "running" /\ engine.o.runId[i] = NoRun
  BY <1>1, Facts DEF InFlight
<1> HIDE DEF f
<1>4. g \in Engine /\ g.o = f.o /\ g.live = engine.live /\ InFlight(g) \subseteq InFlight(engine)
  BY <1>2 DEF Assigned, Engine, InFlight
<1> HIDE DEF g
<1> QED  BY <1>1, <1>3, <1>4, GivenUpStep DEF f

\* ensureFork throws: the item and the queue behind it fail.
LEMMA ForkFailsStep ==
    ASSUME IInv, NEW i \in Items, ForkFails(i)  PROVE StepOK
<1> DEFINE S == FailedFork(i)
           f == SetStatus(engine, S, "failed")
           g == [f EXCEPT !.forking = @ \ {i}]
<1>1. /\ UNCHANGED runState /\ i \in engine.forking /\ engine' = PumpLoop(g, TRUE)
  BY DEF ForkFails, Idle
<1>2. /\ S \in SUBSET Items
      /\ \A j \in S : engine.o.status[j] \in {"queued", "running"} /\ engine.o.runId[j] = NoRun
  BY <1>1, Facts DEF FailedFork, With, InFlight, Unlaunched
<1> HIDE DEF S
<1>3. Assigned(engine, S, "failed", f)
  BY <1>2, Facts, StatusGives DEF ItemStatus, Settled
<1> HIDE DEF f
<1>4. g \in Engine /\ g.o = f.o /\ g.live = engine.live /\ InFlight(g) \subseteq InFlight(engine)
  BY <1>3 DEF Assigned, Engine, InFlight
<1> HIDE DEF g
<1> QED  BY <1>1, <1>2, <1>4, GivenUpStep DEF f

-----------------------------------------------------------------------------
(* The runs move.                                                           *)

\* An item follows its run, from any state the run can still leave.
LEMMA RunGoesStep ==
    ASSUME IInv, NEW r \in Runs, NEW to \in {"running", "paused", "held", "done", "aborted"},
           RunGoes(r, {"running", "paused", "held"}, to), to = "done" => runState[r] = "running"
    PROVE  StepOK
<1>1. /\ runState[r] \in {"running", "paused", "held"}
      /\ runState' = [runState EXCEPT ![r] = to]
      /\ engine' = OnRunUpdate(engine, r, to)
  BY DEF RunGoes
<1>2. PICK g \in Engine :
         /\ Follows(g, engine')
         /\ g.o.runId = engine.o.runId /\ g.live = engine.live
         /\ g.o.completed = engine.o.completed /\ InFlight(g) = InFlight(engine)
         /\ \A i \in Items : g.o.status[i] =
               IF engine.live /\ engine.o.runId[i] = r THEN Updated(engine.o.status[i], to)
                                                       ELSE engine.o.status[i]
  <2>1. to \in RunStates  BY DEF RunStates
  <2>2. \A i, j \in Items : engine.o.runId[i] = r /\ engine.o.runId[j] = r => i = j
    BY Facts
  <2> QED  BY <1>1, <2>1, <2>2, Facts, UpdateFollows
<1>3. PumpsFrom(g)
  BY <1>2 DEF PumpsFrom
<1>4. /\ r # NoRun /\ runState'[r] = to
      /\ \A x \in Runs : x # r => runState'[x] = runState[x]
  BY <1>1, Facts
<1>5. ASSUME Agrees  PROVE Legal(g)
  <2>1. \A i \in Items : engine.live /\ engine.o.runId[i] = r =>
           /\ engine.o.status[i] = ItemOf(runState[r])
           /\ engine.o.status[i] \in {"running", "paused"}
    BY <1>1, <1>4, <1>5 DEF Agrees, Mirrors, ItemOf
  <2>2. \A i \in Items : engine.live /\ engine.o.runId[i] = r =>
           /\ g.o.status[i] = ItemOf(to)
           /\ g.o.status[i] = engine.o.status[i] \/ g.o.status[i] \in Moves[engine.o.status[i]]
           /\ g.o.status[i] \in {"running", "paused", "done", "failed"}
           /\ g.o.status[i] = "running" => engine.o.status[i] \in {"running", "paused"}
    <3> TAKE i \in Items
    <3>1. HAVE engine.live /\ engine.o.runId[i] = r
    <3>2. g.o.status[i] = Updated(engine.o.status[i], to)  BY <1>2, <3>1
    <3>3. engine.o.status[i] \in {"running", "paused"}  BY <2>1, <3>1
    <3>4. to = "done" => engine.o.status[i] = "running"  BY <2>1, <3>1 DEF ItemOf
    <3>5. g.o.status[i] = ItemOf(to)  BY <3>2, <3>3 DEF Updated, ItemOf
    <3>6. g.o.status[i] = engine.o.status[i] \/ g.o.status[i] \in Moves[engine.o.status[i]]
      BY <3>3, <3>4, <3>5 DEF ItemOf, Moves, Promise!Moves
    <3> QED  BY <3>3, <3>5, <3>6 DEF ItemOf
  <2>3. Moved(engine, g)
    BY <1>2, <2>1, <2>2 DEF Moved
  <2>4. Ends(engine, g)
    BY <1>2, <2>1 DEF Ends, Settled
  <2>5. Unlaunched(g)
    BY <1>2, <2>2, Facts DEF Unlaunched
  <2>6. ASSUME g.live  PROVE Mirrors(g, runState')
    <3>1. Mirrors(engine, runState)  BY <1>2, <1>5, <2>6 DEF Agrees
    <3>2. ASSUME NEW x \in Runs, runState'[x] \in {"running", "paused", "held"}
          PROVE  \E j \in Items : g.o.runId[j] = x
      <4>1. runState[x] \in {"running", "paused", "held"}  BY <1>1, <1>4, <3>2
      <4> QED  BY <1>2, <3>1, <4>1 DEF Mirrors
    <3>3. ASSUME NEW i \in Items, NEW x, x = g.o.runId[i], x # NoRun,
                 runState'[x] \notin {"none", "deleted"}
          PROVE  \/ g.o.status[i] = ItemOf(runState'[x])
                 \/ runState'[x] = "aborted" /\ g.o.status[i] = "cancelled"
      <4>1. x = engine.o.runId[i] /\ x \in Runs  BY <1>2, <3>3, Facts
      <4>2. CASE x = r
        BY <1>2, <1>4, <2>2, <2>6, <4>1, <4>2
      <4>3. CASE x # r
        <5>1. runState'[x] = runState[x] /\ g.o.status[i] = engine.o.status[i]
          BY <1>2, <1>4, <4>1, <4>3
        <5> QED  BY <3>1, <3>3, <4>1, <5>1 DEF Mirrors
      <4> QED  BY <4>2, <4>3
    <3> QED  BY <3>2, <3>3 DEF Mirrors
  <2> QED  BY <2>3, <2>4, <2>5, <2>6 DEF Legal
<1> QED  BY <1>3, <1>5 DEF StepOK

\* deleteRun is not told to the ledger, which mirrors one run less.
LEMMA RunDeletedStep ==
    ASSUME IInv, NEW r \in Runs, RunDeleted(r)  PROVE StepOK
<1>1. engine' = engine /\ runState' = [runState EXCEPT ![r] = "deleted"]
  BY DEF RunDeleted
<1>2. PumpsFrom(engine)
  BY <1>1, Facts, FollowsItself DEF PumpsFrom
<1>3. Moved(engine, engine) /\ Unlaunched(engine) /\ Ends(engine, engine)
  BY Facts DEF Moved, Ends
<1>4. \A x \in Runs : runState'[x] = IF x = r THEN "deleted" ELSE runState[x]
  BY <1>1, Facts
<1>5. Agrees /\ engine.live => Mirrors(engine, runState')
  BY <1>4, Facts DEF Agrees, Mirrors
<1> QED  BY <1>2, <1>3, <1>5, Facts DEF StepOK, Legal

\* startRun returns a new run: its item is linked, then told what it missed.
LEMMA StartRunReturnsStep ==
    ASSUME IInv, NEW i \in Items, NEW st \in {"running", "paused", "aborted"},
           StartRunReturns(i, st)
    PROVE  StepOK
<1> DEFINE r == First({s \in Runs : runState[s] = "none"})
           o == [engine.o EXCEPT !.runId = [engine.o.runId EXCEPT ![i] = r]]
           g == [engine EXCEPT !.o = o, !.starting = @ \ {i}]
           k == IF st = "running" THEN g ELSE OnRunUpdate(g, r, st)
<1>1. r \in Runs /\ runState[r] = "none" /\ r # NoRun
  <2> DEFINE S == {s \in Runs : runState[s] = "none"}
  <2>1. S \in SUBSET Nat /\ S # {}  BY ItemsNat DEF StartRunReturns
  <2>2. First(S) \in S  BY <2>1, FirstIn
  <2> QED  BY <2>2, Facts
<1>2. i \in engine.starting /\ runState' = [runState EXCEPT ![r] = st]
  BY DEF StartRunReturns
<1>3. engine' = k \/ engine' = PumpLoop(k, TRUE)
  <2>1. [engine EXCEPT !.o.runId[i] = r, !.starting = @ \ {i}] = g
    BY Facts DEF Engine, Ledger
  <2> QED  BY <2>1, Zenon DEF StartRunReturns
<1> HIDE DEF r
<1>4. engine.o.status[i] = "running" /\ engine.o.runId[i] = NoRun
  BY <1>2, Facts DEF InFlight
<1>5. \A j \in Items : engine.o.runId[j] # r
  BY <1>1, Facts
<1>6. /\ o \in Ledger /\ o.status = engine.o.status /\ o.completed = engine.o.completed
      /\ \A j \in Items : o.runId[j] = IF j = i THEN r ELSE engine.o.runId[j]
  BY <1>1, Facts DEF Ledger
<1> HIDE DEF o
<1>7. /\ g \in Engine /\ g.o = o /\ g.live = engine.live
      /\ InFlight(g) \subseteq InFlight(engine)
  BY <1>6, Facts DEF Engine, InFlight
<1> HIDE DEF g
<1> DEFINE Linking(h) ==
             /\ h \in Engine /\ Follows(h, k) /\ k \in Engine
             /\ h.o.runId = g.o.runId /\ h.live = engine.live
             /\ h.o.completed = engine.o.completed /\ InFlight(h) \subseteq InFlight(engine)
             /\ \A j \in Items : h.o.status[j] =
                   IF engine.live /\ j = i THEN Updated("running", st) ELSE engine.o.status[j]
<1>8. \E h : Linking(h)
  <2>1. CASE st = "running"
    <3>1. k = g /\ Follows(g, g)  BY <1>7, <2>1, FollowsItself
    <3>2. Linking(g)
      BY <1>4, <1>6, <1>7, <2>1, <3>1 DEF Updated
    <3> QED  BY <3>2
  <2>2. CASE st # "running"
    <3>1. st \in RunStates  BY DEF RunStates
    <3>2. \A j \in Items : g.o.runId[j] = r <=> j = i
      BY <1>5, <1>6, <1>7
    <3>3. PICK h \in Engine :
             /\ Follows(h, OnRunUpdate(g, r, st))
             /\ h.o.runId = g.o.runId /\ h.live = g.live
             /\ h.o.completed = g.o.completed /\ InFlight(h) = InFlight(g)
             /\ \A j \in Items : h.o.status[j] =
                   IF g.live /\ g.o.runId[j] = r THEN Updated(g.o.status[j], st)
                                                 ELSE g.o.status[j]
      BY <1>1, <1>7, <3>1, <3>2, UpdateFollows
    <3>4. k = OnRunUpdate(g, r, st) /\ k \in Engine
      BY <2>2, <3>3 DEF Follows
    <3>5. Linking(h)
      BY <1>4, <1>6, <1>7, <3>2, <3>3, <3>4
    <3> QED  BY <3>5
  <2> QED  BY <2>1, <2>2
<1>9. PICK h : Linking(h)  BY <1>8
<1> HIDE DEF k
<1>10. PumpsFrom(h)
  <2>1. k \in Engine /\ Follows(h, k) /\ InFlight(h) \subseteq InFlight(engine)
    BY <1>9
  <2>2. Follows(k, PumpLoop(k, TRUE))
    BY <2>1, PumpLoopFollows
  <2>3. Follows(h, PumpLoop(k, TRUE))
    BY <2>1, <2>2, FollowsOn
  <2> QED  BY <1>3, <2>1, <2>3 DEF PumpsFrom
<1>11. Updated("running", st) = ItemOf(st) /\ ItemOf(st) \in {"running", "paused", "failed"}
  BY DEF Updated, ItemOf
<1>12. /\ \A j \in Items : h.o.runId[j] = IF j = i THEN r ELSE engine.o.runId[j]
       /\ \A j \in Items : h.o.status[j] =
             IF engine.live /\ j = i THEN ItemOf(st) ELSE engine.o.status[j]
  BY <1>6, <1>7, <1>9, <1>11
<1>13. Moved(engine, h)
  BY <1>4, <1>11, <1>12 DEF Moved, Moves, Promise!Moves
<1>14. Unlaunched(h)
  BY <1>4, <1>11, <1>12, Facts DEF Unlaunched
<1>15. Ends(engine, h)
  BY <1>4, <1>9, <1>12 DEF Ends, Settled
<1>16. ASSUME Agrees, h.live  PROVE Mirrors(h, runState')
  <2>1. Mirrors(engine, runState) /\ engine.live  BY <1>9, <1>16 DEF Agrees
  <2>2. \A x \in Runs : runState'[x] = IF x = r THEN st ELSE runState[x]
    BY <1>1, <1>2, Facts
  <2>3. ASSUME NEW x \in Runs, runState'[x] \in {"running", "paused", "held"}
        PROVE  \E j \in Items : h.o.runId[j] = x
    <3>1. CASE x = r  BY <1>12, <3>1
    <3>2. CASE x # r
      <4>1. PICK j \in Items : engine.o.runId[j] = x  BY <2>1, <2>2, <2>3, <3>2 DEF Mirrors
      <4>2. j # i  BY <1>4, <4>1, Facts
      <4> QED  BY <1>12, <4>1, <4>2
    <3> QED  BY <3>1, <3>2
  <2>4. ASSUME NEW j \in Items, NEW x, x = h.o.runId[j], x # NoRun,
               runState'[x] \notin {"none", "deleted"}
        PROVE  \/ h.o.status[j] = ItemOf(runState'[x])
               \/ runState'[x] = "aborted" /\ h.o.status[j] = "cancelled"
    <3>1. CASE j = i
      BY <1>1, <1>12, <2>1, <2>2, <2>4, <3>1
    <3>2. CASE j # i
      <4>1. x \in Runs /\ x = engine.o.runId[j] /\ x # r
        BY <1>5, <1>12, <2>4, <3>2, Facts
      <4>2. runState'[x] = runState[x] /\ h.o.status[j] = engine.o.status[j]
        BY <1>12, <2>2, <3>2, <4>1
      <4> QED  BY <2>1, <2>4, <4>1, <4>2 DEF Mirrors
    <3> QED  BY <3>1, <3>2
  <2> QED  BY <2>3, <2>4 DEF Mirrors
<1> QED  BY <1>9, <1>10, <1>13, <1>14, <1>15, <1>16 DEF StepOK, Legal

\* A person who runs an ended run anew: the pumps keep the cap.
LEMMA RunRerunsPumps ==
    ASSUME IInv, NEW r \in Runs, RunReruns(r)  PROVE \E g \in Engine : PumpsFrom(g)
<1>1. engine' = OnRunUpdate(engine, r, "running") /\ "running" \in RunStates
  BY DEF RunReruns, RunGoes, RunStates
<1>2. \A i, j \in Items : engine.o.runId[i] = r /\ engine.o.runId[j] = r => i = j
  BY Facts
<1>3. PICK g \in Engine : Follows(g, engine') /\ InFlight(g) = InFlight(engine)
  BY <1>1, <1>2, Facts, UpdateFollows
<1> QED  BY <1>3 DEF PumpsFrom

-----------------------------------------------------------------------------
(* delete: the children it aborts are told to the ledger one by one, and    *)
(* the pumps in between launch within the cap.                              *)

\* What Follows says does not depend on the file, and holds of a closed batch too.
LEMMA FollowsAside ==
    ASSUME NEW e, NEW f, Follows(e, f), NEW d, NEW g \in Engine, d.o = e.o, g.o = f.o,
           InFlight(d) = InFlight(e), InFlight(g) = InFlight(f), d.live = g.live
    PROVE  Follows(d, g)
<1>1. With(d, {"queued"}) = With(e, {"queued"}) /\ RunningCount(g) = RunningCount(f)
  BY DEF With, RunningCount
<1> QED  BY <1>1 DEF Follows

\* The engine in which the running items of K have failed, and nothing else.
Aborted(g, K) ==
    /\ K \subseteq With(engine, {"running"})
    /\ g \in Engine /\ g.live = engine.live /\ g.o.runId = engine.o.runId
    /\ g.o.completed = engine.o.completed /\ InFlight(g) = InFlight(engine)
    /\ \A i \in Items : g.o.status[i] = IF i \in K THEN "failed" ELSE engine.o.status[i]

\* The loop of delete has come to e: pumps follow the children aborted so far.
Halfway(e) == \E g, K : Aborted(g, K) /\ Follows(g, e)

\* An item that fails while its pumps have already launched others is as if it
\* had failed before them.
LEMMA AbortedEarlier ==
    ASSUME IInv, NEW g, NEW K, Aborted(g, K), NEW e, Follows(g, e),
           NEW i \in Items, e.o.status[i] = "running", engine.o.runId[i] # NoRun,
           NEW h \in Engine, h.o.runId = e.o.runId, h.live = e.live,
           h.o.completed = e.o.completed, InFlight(h) = InFlight(e),
           \A j \in Items : h.o.status[j] = IF j = i THEN "failed" ELSE e.o.status[j]
    PROVE  \E k, J : Aborted(k, J) /\ Follows(k, h)
<1> DEFINE k == SetStatus(g, {i}, "failed")
<1>1. PICK L \in SUBSET With(g, {"queued"}) :
          /\ \A j \in Items : e.o.status[j] = IF j \in L THEN "running" ELSE g.o.status[j]
          /\ InFlight(e) = InFlight(g) \cup L
          /\ L # {} => RunningCount(e) <= Cap
  BY DEF Follows
<1>2. i \notin L /\ g.o.status[i] = "running" /\ engine.o.status[i] = "running"
  BY <1>1, Facts DEF With, Aborted, Unlaunched
<1>3. /\ k \in Engine /\ k.live = g.live /\ InFlight(k) = InFlight(g)
      /\ k.o.runId = g.o.runId /\ k.o.completed = g.o.completed
      /\ \A j \in Items : k.o.status[j] = IF j \in {i} THEN "failed" ELSE g.o.status[j]
  BY StatusGives DEF Assigned, Aborted, ItemStatus, Settled
<1> HIDE DEF k
<1>4. Aborted(k, K \cup {i})
  BY <1>2, <1>3 DEF Aborted, With
<1>5. L \in SUBSET With(k, {"queued"})
  BY <1>1, <1>2, <1>3 DEF With
<1>6. \A j \in Items : h.o.status[j] = IF j \in L THEN "running" ELSE k.o.status[j]
  BY <1>1, <1>2, <1>3
<1>7. InFlight(h) = InFlight(k) \cup L
  BY <1>1, <1>3
<1>8. RunningCount(h) <= RunningCount(e)
  <2>1. With(h, {"running"}) \subseteq With(e, {"running"})
    BY DEF With
  <2> QED  BY <2>1, WithFinite, FS_Subset DEF RunningCount
<1>9. L # {} => RunningCount(h) <= Cap
  BY <1>1, <1>8, WithFinite, CapAssumption DEF RunningCount
<1>10. h.o.completed = k.o.completed
  BY <1>3 DEF Follows, IsComplete, Settled
<1>11. Follows(k, h)
  BY <1>3, <1>5, <1>6, <1>7, <1>9, <1>10 DEF Follows
<1> QED  BY <1>4, <1>11

\* delete closes the batch; its pumps, on the way, kept the cap.
LEMMA DeleteBatchStep ==
    ASSUME IInv, DeleteBatch  PROVE StepOK
<1> DEFINE V == {e \in Engine : Halfway(e)}
<1>1. engine.live /\ engine \in Engine
  BY Facts DEF DeleteBatch
<1>2. engine \in V
  <2>1. Aborted(engine, {})
    BY <1>1 DEF Aborted
  <2>2. Follows(engine, engine)
    BY <1>1, FollowsItself
  <2> QED  BY <1>1, <2>1, <2>2 DEF Halfway
<1>3. ASSUME NEW e \in V, NEW i \in Items  PROVE AbortChild(e, i) \in V
  <2> DEFINE r == e.o.runId[i]
             f == OnRunUpdate(e, r, "aborted")
  <2>1. PICK g, K : Aborted(g, K) /\ Follows(g, e)
    BY DEF Halfway
  <2>2. e \in Engine /\ e.live /\ e.o.runId = engine.o.runId
    BY <1>1, <2>1 DEF Aborted, Follows
  <2>3. CASE ~(e.o.status[i] = "running" /\ Linked(e, i) /\ Known(r))
    BY <2>3 DEF AbortChild
  <2>4. CASE e.o.status[i] = "running" /\ Linked(e, i) /\ Known(r)
    <3>1. r \in Runs /\ r # NoRun /\ engine.o.runId[i] # NoRun
            /\ \A j \in Items : e.o.runId[j] = r <=> j = i
      BY <2>2, <2>4, Facts DEF Linked
    <3>2. AbortChild(e, i) = f
      BY <2>4 DEF AbortChild
    <3>a. /\ "aborted" \in RunStates
          /\ \A j, k \in Items : e.o.runId[j] = r /\ e.o.runId[k] = r => j = k
      BY <3>1 DEF RunStates
    <3>b. e \in Engine /\ r \in Runs  BY <2>2, <3>1
    <3> HIDE DEF r
    <3>c. f = OnRunUpdate(e, r, "aborted")  OBVIOUS
    <3> HIDE DEF f, V
    <3>3. PICK h \in Engine :
             /\ Follows(h, f)
             /\ h.o.runId = e.o.runId /\ h.live = e.live
             /\ h.o.completed = e.o.completed /\ InFlight(h) = InFlight(e)
             /\ \A j \in Items : h.o.status[j] =
                   IF e.live /\ e.o.runId[j] = r THEN Updated(e.o.status[j], "aborted")
                                                 ELSE e.o.status[j]
      BY <3>a, <3>b, <3>c, UpdateFollows
    <3>4. Updated("running", "aborted") = "failed"
      BY DEF Updated
    <3>5. \A j \in Items : h.o.status[j] = IF j = i THEN "failed" ELSE e.o.status[j]
      BY <2>2, <2>4, <3>1, <3>3, <3>4
    <3>6. PICK k, J : Aborted(k, J) /\ Follows(k, h)
      BY <2>1, <2>4, <3>1, <3>3, <3>5, AbortedEarlier
    <3>7. Follows(k, f) /\ f \in Engine
      <4>1. Follows(k, f)  BY <3>3, <3>6, FollowsOn
      <4> QED  BY <4>1 DEF Follows
    <3> QED  BY <3>2, <3>c, <3>6, <3>7 DEF Halfway, V
  <2> QED  BY <2>3, <2>4
<1>4. DeleteLoop[N] \in V
  <2> HIDE DEF V
  <2> QED  BY <1>2, <1>3, DeleteLoopStays
<1> DEFINE d == DeleteLoop[N]
<1>5. PICK g, K : Aborted(g, K) /\ Follows(g, d)
  BY <1>4 DEF Halfway
<1>6. engine' = Forgotten(d) /\ d \in Engine /\ g \in Engine
  BY <1>4, <1>5 DEF DeleteBatch, Aborted
<1> HIDE DEF d
<1>7. ASSUME NEW e \in Engine
      PROVE  /\ Forgotten(e) \in Engine /\ Forgotten(e).o = e.o
             /\ Forgotten(e).live = FALSE /\ InFlight(Forgotten(e)) = InFlight(e)
  BY DEF Engine, InFlight, Forgotten
<1> DEFINE k == Forgotten(g)
<1>8. /\ k \in Engine /\ k.o = g.o /\ k.live = FALSE /\ InFlight(k) = InFlight(engine)
      /\ engine' \in Engine /\ engine'.o = d.o /\ engine'.live = FALSE
      /\ InFlight(engine') = InFlight(d) /\ InFlight(k) = InFlight(g)
  BY <1>5, <1>6, <1>7 DEF Aborted
<1> HIDE DEF k
<1>9. PumpsFrom(k)
  <2>1. Follows(k, engine')  BY <1>5, <1>8, FollowsAside
  <2> QED  BY <1>8, <2>1 DEF PumpsFrom
<1>10. /\ k.o.runId = engine.o.runId /\ k.o.completed = engine.o.completed
       /\ \A i \in Items : k.o.status[i] = IF i \in K THEN "failed" ELSE engine.o.status[i]
       /\ \A i \in K : engine.o.status[i] = "running"
  BY <1>5, <1>8 DEF Aborted, With
<1>11. Moved(engine, k) /\ Unlaunched(k) /\ Ends(engine, k)
  BY <1>10, Facts DEF Moved, Moves, Promise!Moves, Unlaunched, Ends, Settled
<1> QED  BY <1>8, <1>9, <1>11 DEF StepOK, Legal

-----------------------------------------------------------------------------
(* Every step.                                                              *)

\* RunGoes from some of the states a run can leave.
LEMMA RunGoesFrom ==
    ASSUME IInv, NEW r \in Runs, NEW from \in SUBSET {"running", "paused", "held"},
           NEW to \in {"running", "paused", "held", "done", "aborted"}, RunGoes(r, from, to),
           to = "done" => from = {"running"}
    PROVE  StepOK
<1>1. RunGoes(r, {"running", "paused", "held"}, to) /\ runState[r] \in from
  BY DEF RunGoes
<1>2. to = "done" => runState[r] = "running"  BY <1>1
<1> QED  BY <1>1, <1>2, RunGoesStep

\* A run moves on, by itself or by a click.
LEMMA RunLeavesOrResumes ==
    ASSUME IInv, NEW r \in Runs, RunLeavesStep(r) \/ RunResumes(r)  PROVE StepOK
<1>1. ASSUME RunPauses(r)  PROVE StepOK
  <2>1. RunGoes(r, {"running"}, "paused")  BY <1>1 DEF RunPauses
  <2> QED  BY <2>1, RunGoesFrom
<1>2. ASSUME RunHeld(r)  PROVE StepOK
  <2>1. RunGoes(r, {"running"}, "held")  BY <1>2 DEF RunHeld
  <2> QED  BY <2>1, RunGoesFrom
<1>3. ASSUME RunFinishes(r)  PROVE StepOK
  <2>1. RunGoes(r, {"running"}, "done")  BY <1>3 DEF RunFinishes
  <2> QED  BY <2>1, RunGoesFrom
<1>4. ASSUME RunAborts(r)  PROVE StepOK
  <2>1. RunGoes(r, {"running", "paused", "held"}, "aborted")  BY <1>4 DEF RunAborts
  <2> QED  BY <2>1, RunGoesFrom
<1>5. ASSUME RunResumes(r)  PROVE StepOK
  <2>1. RunGoes(r, {"paused", "held"}, "running") \/ RunGoes(r, {"held"}, "paused")
    BY <1>5 DEF RunResumes
  <2>2. CASE RunGoes(r, {"paused", "held"}, "running")  BY <2>2, RunGoesFrom
  <2>3. CASE RunGoes(r, {"held"}, "paused")  BY <2>3, RunGoesFrom
  <2> QED  BY <2>1, <2>2, <2>3
<1> QED  BY <1>1, <1>2, <1>3, <1>4, <1>5 DEF RunLeavesStep

\* The save that maybeComplete ends with changes nothing the ledger tells.
LEMMA SaveCompletionStep ==
    ASSUME IInv, SaveCompletion  PROVE StepOK
<1> DEFINE p == Persist(engine)
<1>1. p \in Engine /\ p.o = engine.o /\ p.live = engine.live /\ InFlight(p) = InFlight(engine)
  BY Facts, PersistFollows
<1>2. engine' = [p EXCEPT !.closing = FALSE] /\ UNCHANGED runState
  BY DEF SaveCompletion, Idle
<1> HIDE DEF p
<1>3. /\ engine' \in Engine /\ engine'.o = engine.o /\ engine'.live = engine.live
      /\ InFlight(engine') = InFlight(engine)
  BY <1>1, <1>2 DEF Engine, InFlight
<1> QED  BY <1>2, <1>3, FollowsSame, QuietStep

\* What a step is that neither runs an ended run anew nor ends the process.
LEMMA StepIsOK ==
    ASSUME IInv, [Next]_vars, ~Restart, \A r \in Runs : ~RunReruns(r)  PROVE StepOK
<1>1. ASSUME UNCHANGED vars  PROVE StepOK
  <2>1. UNCHANGED <<engine, runState>>  BY <1>1 DEF vars
  <2> QED  BY <2>1, Facts, FollowsItself, QuietStep
<1>2. ASSUME RetryAny  PROVE StepOK
  <2>1. PICK targets \in SUBSET With(engine, {"failed", "cancelled"}) :
           targets # {} /\ Retry(targets)
    <3>1. CASE \E i \in Retriable : Retry({i})
      BY <3>1 DEF Retriable
    <3>2. CASE Cardinality(Retriable) > 1 /\ Retry(Retriable)
      <4>1. Retriable # {}  BY <3>2, FS_EmptySet
      <4> QED  BY <3>2, <4>1 DEF Retriable
    <3> QED  BY <1>2, <3>1, <3>2 DEF RetryAny
  <2> QED  BY <2>1, RetryStep
<1>3. ASSUME NEW i \in Items, PumpStep(i)  PROVE StepOK
  BY <1>3, ForkReturnsStep, ForkFailsStep, StartRunFailsStep, StartRunReturnsStep DEF PumpStep
<1>4. ASSUME NEW r \in Runs, \/ RunLeavesStep(r) \/ RunResumes(r) \/ RunReruns(r)
                             \/ RunDeleted(r) \/ Checkpointed(r)
      PROVE  StepOK
  BY <1>4, RunLeavesOrResumes, RunDeletedStep, EventStep
<1> QED  BY <1>1, <1>2, <1>3, <1>4, ApproveBatchStep, RejectItemStep, RejectRunStep,
            AbortBatchStep, PauseBatchStep, ResumeBatchStep, DeleteBatchStep,
            DeleteForgottenStep, EventStep, ReclaimReturnsStep, CaptureReturnsStep,
            SaveCompletionStep
         DEF Next

\* Pumps keep the cap, and a process that starts has launched nothing.
LEMMA CapStep ==
    ASSUME IInv, [Next]_vars
    PROVE  InFlight(engine)' \subseteq InFlight(engine) \/ RunningCount(engine)' <= Cap
<1>1. ASSUME Restart  PROVE InFlight(engine)' \subseteq InFlight(engine)
  BY <1>1 DEF Restart, Created, InFlight
<1>2. ASSUME ~Restart  PROVE \E g \in Engine : PumpsFrom(g)
  <2>1. CASE \E r \in Runs : RunReruns(r)  BY <2>1, RunRerunsPumps
  <2>2. CASE \A r \in Runs : ~RunReruns(r)
    <3>1. StepOK  BY <1>2, <2>2, StepIsOK
    <3> QED  BY <3>1 DEF StepOK
  <2> QED  BY <2>1, <2>2
<1>3. ASSUME NEW g \in Engine, PumpsFrom(g)
      PROVE  InFlight(engine)' \subseteq InFlight(engine) \/ RunningCount(engine)' <= Cap
  <2>1. PICK L : InFlight(engine') = InFlight(g) \cup L
                   /\ (L # {} => RunningCount(engine') <= Cap)
    BY <1>3 DEF PumpsFrom, Follows
  <2>2. InFlight(engine)' = InFlight(engine') /\ RunningCount(engine)' = RunningCount(engine')
    BY DEF InFlight, RunningCount, With
  <2> QED  BY <1>3, <2>1, <2>2 DEF PumpsFrom
<1> QED  BY <1>1, <1>2, <1>3

\* No step launches past maxConcurrent, whatever is paused, retried, deleted,
\* run anew or lost with the process, and however many pumps overlap.
THEOREM CapIsKept == Spec => LaunchesUnderCap
<1>1. ASSUME IInv, [Next]_vars
      PROVE  [InFlight(engine)' \subseteq InFlight(engine) \/ RunningCount(engine)' <= Cap]_vars
  BY <1>1, CapStep
<1> QED  BY <1>1, Invariant, PTL DEF Spec, LaunchesUnderCap

-----------------------------------------------------------------------------
(* A process that lives, and ended runs that stay ended.                    *)
Steady == Happens \cap {"rerun", "restart"} = {}

\* BatchLedger counts as Orchestrator does.
LEMMA SameCardinality == \A S : Promise!Cardinality(S) = Cardinality(S)
  BY DEF Promise!Cardinality, Cardinality

\* What Follows makes of a legal change.
LEMMA AgreesStep ==
    ASSUME IInv, Agrees, StepOK  PROVE Agrees' /\ [Promise!Step]_(Promise!vars)
<1>1. PICK g \in Engine : Follows(g, engine') /\ Legal(g)
  BY DEF StepOK, PumpsFrom
<1>2. PICK L \in SUBSET With(g, {"queued"}) :
         /\ \A i \in Items : engine'.o.status[i] = IF i \in L THEN "running" ELSE g.o.status[i]
         /\ L # {} => RunningCount(engine') <= Cap
  BY <1>1 DEF Follows
<1>3. \A i \in L : i \in Items /\ g.o.status[i] = "queued" /\ g.o.runId[i] = NoRun
  BY <1>1, <1>2 DEF With, Legal, Unlaunched
<1>4. /\ engine'.o.runId = g.o.runId /\ engine'.live = g.live
      /\ engine'.o.completed = g.o.completed \/ (engine'.o.completed /\ IsComplete(engine'.o))
  BY <1>1 DEF Follows
<1>5. engine'.live => Mirrors(engine', runState')
  <2>1. SUFFICES ASSUME engine'.live  PROVE Mirrors(engine', runState')  OBVIOUS
  <2>2. Mirrors(g, runState')  BY <1>1, <1>4, <2>1 DEF Legal
  <2>3. \A i \in Items : engine'.o.runId[i] # NoRun => engine'.o.status[i] = g.o.status[i]
    BY <1>2, <1>3, <1>4
  <2> QED  BY <1>4, <2>2, <2>3 DEF Mirrors
<1>6. engine'.o.completed => IsComplete(engine'.o)
  <2>1. SUFFICES ASSUME engine'.o.completed, g.o.completed  PROVE IsComplete(engine'.o)
    BY <1>4
  <2>2. /\ engine.o.completed
        /\ \A i \in Items : engine.o.status[i] \in Settled => g.o.status[i] = engine.o.status[i]
    BY <1>1, <2>1 DEF Legal, Ends
  <2>3. \A i \in Items : engine.o.status[i] \in Settled
    BY <2>2 DEF Agrees, IsComplete
  <2>4. \A i \in Items : g.o.status[i] \in Settled /\ i \notin L
    BY <1>3, <2>2, <2>3 DEF Settled
  <2> QED  BY <1>2, <2>4 DEF IsComplete
<1>7. Agrees'  BY <1>5, <1>6 DEF Agrees
<1>8. ASSUME NEW i \in Items
      PROVE  engine'.o.status[i] = engine.o.status[i]
               \/ engine'.o.status[i] \in Moves[engine.o.status[i]]
  <2>1. \/ g.o.status[i] = engine.o.status[i]
        \/ g.o.status[i] \in Moves[engine.o.status[i]]
    BY <1>1 DEF Legal, Moved
  <2>2. CASE i \notin L  BY <1>2, <2>1, <2>2
  <2>3. CASE i \in L
    <3>1. engine'.o.status[i] = "running" /\ g.o.status[i] = "queued"  BY <1>2, <1>3, <2>3
    <3>2. engine.o.status[i] \in {"queued", "proposed", "failed", "cancelled"}
      <4>1. engine.o.status[i] \in ItemStatus  BY Facts
      <4> QED  BY <2>1, <3>1, <4>1 DEF Moves, Promise!Moves, ItemStatus, Settled
    <3> QED  BY <3>1, <3>2 DEF Moves, Promise!Moves
  <2> QED  BY <2>2, <2>3
<1>9. ASSUME NEW i \in Items, engine'.o.status[i] = "running",
             engine.o.status[i] \notin {"running", "paused"}
      PROVE  RunningCount(engine') <= Cap
  BY <1>1, <1>2, <1>9 DEF Legal, Moved
<1>10. engine.o.completed /\ ~engine'.o.completed => ~IsComplete(engine'.o)
  <2>1. SUFFICES ASSUME engine.o.completed, ~engine'.o.completed  PROVE ~IsComplete(engine'.o)
    OBVIOUS
  <2>2. ~IsComplete(g.o)
    <3>1. engine.o.completed \in BOOLEAN /\ g.o.completed \in BOOLEAN
      BY Facts DEF Engine, Ledger
    <3> QED  BY <1>1, <1>4, <2>1, <3>1 DEF Legal, Ends
  <2>3. PICK i \in Items : g.o.status[i] \notin Settled  BY <2>2 DEF IsComplete
  <2>4. engine'.o.status[i] \notin Settled  BY <1>2, <2>3 DEF Settled
  <2> QED  BY <2>4 DEF IsComplete
<1>11. Promise!Step
  <2>1. Promise!Launched # {} => Promise!Cardinality(Promise!Running') <= Cap
    <3>1. Promise!Running' = With(engine', {"running"})
      BY DEF Promise!Running, With
    <3>2. SUFFICES ASSUME NEW i \in Promise!Launched
                   PROVE  Promise!Cardinality(Promise!Running') <= Cap
      OBVIOUS
    <3>3. /\ i \in Items /\ engine'.o.status[i] = "running"
          /\ engine.o.status[i] \notin {"running", "paused"}
      BY <3>1, <3>2 DEF Promise!Launched, Promise!Waiting, With
    <3>4. RunningCount(engine') <= Cap  BY <1>9, <3>3
    <3> QED  BY <3>1, <3>4, SameCardinality DEF RunningCount
  <2>2. engine'.o.completed => Promise!AllSettled'
    BY <1>6 DEF IsComplete, Promise!AllSettled, Promise!Settled, Settled
  <2>3. engine.o.completed /\ ~engine'.o.completed => ~Promise!AllSettled'
    BY <1>10 DEF IsComplete, Promise!AllSettled, Promise!Settled, Settled
  <2> QED  BY <1>8, <2>1, <2>2, <2>3 DEF Promise!Step, Moves
<1> QED  BY <1>7, <1>11

\* A batch begins as a ledger that tells of no run.
LEMMA AgreesInit == Init => Agrees /\ Promise!Init
<1> SUFFICES ASSUME Init  PROVE Agrees /\ Promise!Init  OBVIOUS
<1>1. PICK auto \in 0..N : engine = IF auto > 0 THEN Pump(Persist(Created(auto)))
                                                ELSE Persist(Created(auto))
  BY DEF Init
<1> DEFINE e == Persist(Created(auto))
<1>2. /\ e \in Engine
      /\ \A i \in Items : e.o.status[i] \in {"proposed", "queued"} /\ e.o.runId[i] = NoRun
      /\ e.o.completed = FALSE
  <2>1. e \in Engine  BY CreatedOK DEF EngineOK
  <2>2. e.o = Created(auto).o  BY DEF Persist, Created
  <2> HIDE DEF e
  <2>3. /\ \A i \in Items : e.o.status[i] \in {"proposed", "queued"} /\ e.o.runId[i] = NoRun
        /\ e.o.completed = FALSE
    BY <2>2 DEF Created
  <2> QED  BY <2>1, <2>3
<1>3. engine = Pump(e) \/ engine = e  BY <1>1
<1> HIDE DEF e
<1>4. Follows(e, engine)  BY <1>2, <1>3, PumpFollows, FollowsItself
<1>5. PICK L \in SUBSET With(e, {"queued"}) :
         /\ \A i \in Items : engine.o.status[i] = IF i \in L THEN "running" ELSE e.o.status[i]
         /\ L # {} => RunningCount(engine) <= Cap
  BY <1>4 DEF Follows
<1>6. engine \in Engine /\ engine.o.runId = e.o.runId  BY <1>4 DEF Follows
<1>7. \E i \in Items : TRUE  BY SizeAssumption DEF Items
<1>8. engine.o.completed = FALSE
  <2>1. ~IsComplete(engine.o)  BY <1>2, <1>5, <1>7 DEF IsComplete, Settled
  <2>2. engine.o.completed = e.o.completed  BY <1>4, <2>1 DEF Follows
  <2> QED  BY <1>2, <2>2
<1>9. Agrees
  <2>1. \A r \in Runs : runState[r] = "none"  BY DEF Init
  <2>2. \A i \in Items : engine.o.runId[i] = NoRun  BY <1>2, <1>6
  <2> QED  BY <1>8, <2>1, <2>2 DEF Agrees, Mirrors
<1>10. Promise!Init
  <2>1. engine.o.status \in [Items -> Promise!Waiting \cup {"running"}]
    <3>1. engine.o.status \in [Items -> ItemStatus]  BY <1>6 DEF Engine, Ledger
    <3>2. \A i \in Items : engine.o.status[i] \in Promise!Waiting \cup {"running"}
      BY <1>2, <1>5 DEF Promise!Waiting
    <3> QED  BY <3>1, <3>2
  <2>2. Promise!Running = With(engine, {"running"})  BY DEF Promise!Running, With
  <2>3. RunningCount(engine) <= Cap
    <3>1. CASE L # {}  BY <1>5, <3>1
    <3>2. CASE L = {}
      <4>1. With(engine, {"running"}) = {}  BY <1>2, <1>5, <3>2 DEF With
      <4> QED  BY <4>1, FS_EmptySet, CapAssumption DEF RunningCount
    <3> QED  BY <3>1, <3>2
  <2>4. Promise!Cardinality(Promise!Running) <= Cap
    BY <2>2, <2>3, SameCardinality DEF RunningCount
  <2> QED  BY <1>8, <2>1, <2>4 DEF Promise!Init
<1> QED  BY <1>9, <1>10

\* While the process lives and ended runs stay ended, Agrees is kept and each
\* step is one of the ledger.
LEMMA SteadyStep ==
    ASSUME Steady, IInv, Agrees, [Next]_vars
    PROVE  Agrees' /\ [Promise!Step]_(Promise!vars)
<1>1. ~Restart /\ \A r \in Runs : ~RunReruns(r)
  BY DEF Steady, Restart, RunReruns
<1> QED  BY <1>1, StepIsOK, AgreesStep

\* Whatever the order of updates, promises and clicks, aborts, retries and
\* deletes, a linked item tells the state its run is in: the observer never
\* misses an update for long, and never writes one to the wrong item.
THEOREM LedgerMirrors == ASSUME Steady  PROVE Spec => []LedgerMirrorsRuns
<1>1. IInv /\ Agrees => LedgerMirrorsRuns
  <2>1. ASSUME IInv, Agrees  PROVE LedgerMirrorsRuns
    BY <2>1 DEF Agrees, Mirrors, LedgerMirrorsRuns, Known
  <2> QED  BY <2>1
<1>2. IInv /\ Agrees /\ [Next]_vars => Agrees'
  BY SteadyStep
<1> QED  BY <1>1, <1>2, AgreesInit, Invariant, PTL DEF Spec

\* Every run that can still work belongs to an item, so that the batch shows it
\* and Abort reaches it.
THEOREM NoRunIsOrphaned == ASSUME Steady  PROVE Spec => []NoOrphanRun
<1>1. Agrees => NoOrphanRun
  BY DEF Agrees, Mirrors, NoOrphanRun, Active
<1>2. IInv /\ Agrees /\ [Next]_vars => Agrees'
  BY SteadyStep
<1> QED  BY <1>1, <1>2, AgreesInit, Invariant, PTL DEF Spec

\* The batch with its pumps, promises and re-entrant updates implements the
\* ledger: its items move one legal step at a time, under the cap, and its end
\* is final.
THEOREM LedgerImplemented == ASSUME Steady  PROVE Spec => ImplementsLedger
<1>1. IInv /\ Agrees /\ [Next]_vars => Agrees' /\ [Promise!Step]_(Promise!vars)
  BY SteadyStep
<1> QED  BY <1>1, AgreesInit, Invariant, PTL DEF Spec, ImplementsLedger, Promise!Spec

-----------------------------------------------------------------------------
(***************************************************************************)
(* That a success the ledger shows is on disk, and the end of a batch      *)
(* is noticed.  Both relate the batch object to its saved copy.  The       *)
(* functions of the engine change the object and save it later; each has a *)
(* lemma that says what it leaves for the next one, and the actions        *)
(* compose them.                                                           *)
(***************************************************************************)

\* The successes of e are saved.
Kept(e) ==
    e.live => \A i \in Items : e.o.status[i] = "done" =>
                 e.file # NoFile /\ e.file.status[i] = "done"

\* A save saves them.
LEMMA PersistKept ==
    ASSUME NEW e \in Engine  PROVE Persist(e) \in Engine /\ Kept(Persist(e))
<1>1. /\ Persist(e) \in Engine /\ Persist(e).o = e.o /\ Persist(e).file = e.o /\ e.o \in Ledger
  BY DEF Persist, Engine
<1>2. e.o # NoFile
  BY <1>1 DEF Ledger, NoFile
<1> QED  BY <1>1, <1>2 DEF Kept

\* A change that adds no success needs no save.
LEMMA FewerKept ==
    ASSUME NEW e, Kept(e), NEW f, f.live = e.live, f.file = e.file,
           \A i \in Items : f.o.status[i] = "done" => e.o.status[i] = "done"
    PROVE  Kept(f)
  BY DEF Kept

\* Such a change is any status but "done".
LEMMA StatusKept ==
    ASSUME NEW e \in Engine, Kept(e), NEW S \in SUBSET Items, NEW st \in ItemStatus, st # "done"
    PROVE  SetStatus(e, S, st) \in Engine /\ Kept(SetStatus(e, S, st))
<1> DEFINE g == SetStatus(e, S, st)
<1>1. g \in Engine /\ \A i \in Items : g.o.status[i] = IF i \in S THEN st ELSE e.o.status[i]
  BY StatusSet
<1>2. g.live = e.live /\ g.file = e.file
  BY DEF SetStatus, Engine
<1> HIDE DEF g
<1>3. Kept(g)
  BY <1>1, <1>2, FewerKept
<1> QED  BY <1>1, <1>3 DEF g

\* maybeComplete touches neither the items nor the file.
LEMMA MaybeCompleteKept ==
    ASSUME NEW e \in Engine, Kept(e)
    PROVE  MaybeComplete(e) \in Engine /\ Kept(MaybeComplete(e))
<1> DEFINE g == MaybeComplete(e)
<1>1. g \in Engine /\ g.o.status = e.o.status /\ g.live = e.live /\ g.file = e.file
  BY MaybeCompleteFrame
<1> HIDE DEF g
<1>2. Kept(g)  BY <1>1, FewerKept
<1> QED  BY <1>1, <1>2 DEF g

\* The loop of pump launches, saves or completes.
LEMMA PumpLoopKept ==
    ASSUME NEW e \in Engine, Kept(e), NEW b \in BOOLEAN
    PROVE  PumpLoop(e, b) \in Engine /\ Kept(PumpLoop(e, b))
<1>1. CASE SlotFree(e) /\ With(e, {"queued"}) # {}
  <2> DEFINE next == First(With(e, {"queued"}))
             f    == SetStatus(e, {next}, "running")
             g    == [f EXCEPT !.forking = @ \cup {next}]
             h    == [f EXCEPT !.starting = @ \cup {next}]
  <2>1. {next} \in SUBSET Items
    <3>1. With(e, {"queued"}) \in SUBSET Nat  BY ItemsNat DEF With
    <3> QED  BY <1>1, <3>1, FirstIn DEF With
  <2>2. PumpLoop(e, b) \in {g, h}
    BY <1>1 DEF PumpLoop, LaunchNext
  <2> HIDE DEF next
  <2>3. f \in Engine /\ Kept(f)
    BY <2>1, StatusKept DEF ItemStatus
  <2> HIDE DEF f
  <2>4. /\ g \in Engine /\ g.o = f.o /\ g.live = f.live /\ g.file = f.file
        /\ h \in Engine /\ h.o = f.o /\ h.live = f.live /\ h.file = f.file
    BY <2>1, <2>3 DEF Engine
  <2> HIDE DEF g, h
  <2>5. Kept(g) /\ Kept(h)
    BY <2>3, <2>4, FewerKept
  <2> QED  BY <2>2, <2>4, <2>5
<1>2. CASE ~(SlotFree(e) /\ With(e, {"queued"}) # {})
  BY <1>2, PersistKept, MaybeCompleteKept DEF PumpLoop
<1> QED  BY <1>1, <1>2

\* pump, with the crew on duty or as it is.
LEMMA PumpKept ==
    ASSUME NEW e \in Engine, Kept(e)
    PROVE  /\ PumpOnDuty(e) \in Engine /\ Kept(PumpOnDuty(e))
           /\ Pump(e) \in Engine /\ Kept(Pump(e))
<1> DEFINE g == [e EXCEPT !.reclaiming = @ + 1]
<1>1. g \in Engine /\ g.o = e.o /\ g.live = e.live /\ g.file = e.file
  BY DEF Engine
<1>2. PumpOnDuty(e) \in {e, g, PumpLoop(e, FALSE)} /\ Pump(e) \in {e, PumpOnDuty(e)}
  BY Zenon DEF PumpOnDuty, Pump
<1> HIDE DEF g
<1>3. Kept(g)
  BY <1>1, FewerKept
<1>4. PumpOnDuty(e) \in Engine /\ Kept(PumpOnDuty(e))
  BY <1>1, <1>2, <1>3, PumpLoopKept
<1> QED  BY <1>2, <1>4

\* The observer saves every change of status before it pumps.
LEMMA OnRunUpdateKept ==
    ASSUME NEW e \in Engine, Kept(e), NEW r \in Runs, NEW kind
    PROVE  OnRunUpdate(e, r, kind) \in Engine /\ Kept(OnRunUpdate(e, r, kind))
<1>1. CASE ~e.live \/ \A j \in Items : e.o.runId[j] # r
  BY <1>1, Zenon DEF OnRunUpdate
<1>2. CASE e.live /\ \E j \in Items : e.o.runId[j] = r
  <2> DEFINE i     == CHOOSE j \in Items : e.o.runId[j] = r
             p(st) == Persist(SetStatus(e, {i}, st))
  <2>1. {i} \in SUBSET Items  BY <1>2
  <2>2. \/ OnRunUpdate(e, r, kind) = Pump(p("paused"))
        \/ OnRunUpdate(e, r, kind) = p("running")
        \/ \E st \in {"done", "failed"} :
              OnRunUpdate(e, r, kind) = Pump([p(st) EXCEPT !.capturing = @ \cup {<<i, r>>}])
        \/ OnRunUpdate(e, r, kind) = e
    BY <1>2, Zenon DEF OnRunUpdate, Park, Settle
  <2> HIDE DEF i
  <2>3. ASSUME NEW st \in {"paused", "running", "done", "failed"}
        PROVE  /\ p(st) \in Engine /\ Kept(p(st))
               /\ [p(st) EXCEPT !.capturing = @ \cup {<<i, r>>}] \in Engine
               /\ Kept([p(st) EXCEPT !.capturing = @ \cup {<<i, r>>}])
    <3> DEFINE q == p(st)
               c == [q EXCEPT !.capturing = @ \cup {<<i, r>>}]
    <3>1. SetStatus(e, {i}, st) \in Engine
      BY <2>1, StatusSet DEF ItemStatus, Settled
    <3>2. q \in Engine /\ Kept(q)
      BY <3>1, PersistKept
    <3> HIDE DEF q
    <3>3. c \in Engine /\ c.o = q.o /\ c.live = q.live /\ c.file = q.file
      BY <2>1, <3>2 DEF Engine
    <3> HIDE DEF c
    <3>4. Kept(c)  BY <3>2, <3>3, FewerKept
    <3> QED  BY <3>2, <3>3, <3>4 DEF q, c
  <2> HIDE DEF p
  <2> QED  BY <2>2, <2>3, PumpKept
<1> QED  BY <1>1, <1>2

\* What a step starts from.
LEMMA EngineFacts ==
    ASSUME IInv
    PROVE  /\ engine \in Engine /\ engine.o \in Ledger
           /\ \A i \in Items : engine.o.runId[i] \in Runs \cup {NoRun}
           /\ \A i \in engine.forking \cup engine.starting : i \in Items
                                                   /\ engine.o.status[i] = "running"
<1>1. engine \in Engine /\ engine.o \in Ledger /\ Tracked(engine)
      /\ engine.forking \subseteq Items /\ engine.starting \subseteq Items
  BY DEF IInv, EngineOK, Engine
<1> QED  BY <1>1 DEF Tracked, Ledger

\* What a person does keeps the successes saved.
LEMMA PeopleKept ==
    ASSUME IInv, Kept(engine),
           \/ \E picks \in SUBSET Items, keep \in BOOLEAN : ApproveBatch(picks, keep)
           \/ \E i \in Items : RejectItem(i) \/ RejectRun(i) \/ LandingUpdated(i)
           \/ AbortBatch \/ PauseBatch \/ ResumeBatch \/ RetryAny \/ DeleteBatch \/ DeleteForgotten
    PROVE  Kept(engine')
<1>0. engine \in Engine  BY EngineFacts
<1>a. {"queued", "cancelled", "failed", "running"} \subseteq ItemStatus /\ "done" \in ItemStatus
  BY DEF ItemStatus, Settled
<1>1. ASSUME NEW picks \in SUBSET Items, NEW keep \in BOOLEAN, ApproveBatch(picks, keep)
      PROVE  Kept(engine')
  <2> DEFINE declined == IF keep THEN {} ELSE With(engine, {"proposed"}) \ picks
             f == SetStatus(engine, picks, "queued")
             g == SetStatus(f, declined, "cancelled")
  <2>1. engine' \in {Pump(Persist(g)), Persist(g), MaybeComplete(Persist(g))}
    BY <1>1, Zenon DEF ApproveBatch
  <2>2. declined \in SUBSET Items  BY DEF With
  <2> HIDE DEF declined
  <2>3. f \in Engine  BY <1>0, <1>a, StatusSet
  <2> HIDE DEF f
  <2>4. g \in Engine  BY <1>a, <2>2, <2>3, StatusSet
  <2> HIDE DEF g
  <2> QED  BY <2>1, <2>4, PersistKept, PumpKept, MaybeCompleteKept
<1>2. ASSUME NEW i \in Items  PROVE Rejected(i) \in Engine /\ Kept(Rejected(i))
  <2>a. {i} \in SUBSET Items /\ "cancelled" \in ItemStatus  BY <1>a
  <2>1. SetStatus(engine, {i}, "cancelled") \in Engine  BY <1>0, <2>a, StatusSet
  <2> QED  BY <2>1, PersistKept, MaybeCompleteKept DEF Rejected
<1>3. ASSUME NEW i \in Items, RejectItem(i) \/ RejectRun(i)  PROVE Kept(engine')
  <2>1. CASE RejectItem(i)  BY <1>2, <2>1 DEF RejectItem
  <2>2. CASE RejectRun(i)
    <3>1. engine.o.runId[i] \in Runs  BY <2>2, EngineFacts DEF RejectRun, Linked
    <3>2. engine' = OnRunUpdate(Rejected(i), engine.o.runId[i], "aborted")
      BY <2>2 DEF RejectRun
    <3> QED  BY <1>2, <3>1, <3>2, OnRunUpdateKept
  <2> QED  BY <1>3, <2>1, <2>2
<1>4. ASSUME AbortBatch  PROVE Kept(engine')
  <2> DEFINE waiting == {i \in With(engine, {"queued", "proposed", "paused"}) :
                           engine.o.status[i] = "paused" => ~Linked(engine, i)}
             killed  == Killed(engine)
             running == With(engine, {"running"})
             f == SetStatus(engine, waiting, "cancelled")
             g == SetStatus(f, killed \cap running, "failed")
             h == SetStatus(g, killed \ running, "cancelled")
             k == [h EXCEPT !.o = [h.o EXCEPT !.paused = FALSE]]
  <2>1. engine' = MaybeComplete(Persist([h EXCEPT !.o.paused = FALSE]))
    BY <1>4, Zenon DEF AbortBatch
  <2>2. waiting \in SUBSET Items /\ killed \in SUBSET Items  BY DEF With, Killed
  <2> HIDE DEF waiting, killed, running
  <2>3. f \in Engine  BY <1>0, <1>a, <2>2, StatusSet
  <2> HIDE DEF f
  <2>4. g \in Engine
    <3>1. killed \cap running \in SUBSET Items  BY <2>2
    <3> QED  BY <1>a, <2>3, <3>1, StatusSet
  <2> HIDE DEF g
  <2>5. h \in Engine
    <3>1. killed \ running \in SUBSET Items  BY <2>2
    <3> QED  BY <1>a, <2>4, <3>1, StatusSet
  <2> HIDE DEF h
  <2>6. k \in Engine /\ [h EXCEPT !.o.paused = FALSE] = k  BY <2>5 DEF Engine, Ledger
  <2> HIDE DEF k
  <2> QED  BY <2>1, <2>6, PersistKept, MaybeCompleteKept
<1>5. ASSUME NEW b \in BOOLEAN
      PROVE  [engine EXCEPT !.o.paused = b] \in Engine
  <2> DEFINE k == [engine EXCEPT !.o = [engine.o EXCEPT !.paused = b]]
  <2>1. k \in Engine /\ [engine EXCEPT !.o.paused = b] = k  BY <1>0 DEF Engine, Ledger
  <2> QED  BY <2>1
<1>6. ASSUME PauseBatch  PROVE Kept(engine')
  BY <1>5, <1>6, PersistKept DEF PauseBatch
<1>7. ASSUME ResumeBatch  PROVE Kept(engine')
  <2> DEFINE p    == Persist([engine EXCEPT !.o.paused = FALSE])
             awake(S) == {i \in With(engine, {"paused"}) : engine.o.runId[i] \in S}
             e(S) == SetStatus(p, awake(S), "running")
             Resumed(S) == engine' = Pump(IF S = {} THEN e({}) ELSE Persist(e(S)))
  <2>1. \E S : Resumed(S)  BY <1>7, Zenon DEF ResumeBatch
  <2>2. PICK S : Resumed(S)  BY <2>1
  <2>3. p \in Engine /\ Kept(p)  BY <1>5, PersistKept
  <2> HIDE DEF p
  <2>4. \A T : awake(T) \in SUBSET Items  BY DEF With
  <2> HIDE DEF awake
  <2>5. ASSUME NEW T  PROVE e(T) \in Engine /\ Kept(e(T))
    <3>1. "running" # "done" /\ "running" \in ItemStatus  BY <1>a
    <3> QED  BY <2>3, <2>4, <3>1, StatusKept
  <2>6. engine' = Pump(e({})) \/ engine' = Pump(Persist(e(S)))  BY <2>2
  <2> HIDE DEF e, Resumed
  <2> QED  BY <2>5, <2>6, PersistKept, PumpKept
<1>8. ASSUME RetryAny  PROVE Kept(engine')
  <2>1. PICK targets \in SUBSET Items : Retry(targets)
    BY <1>8 DEF RetryAny, Retriable, With
  <2> DEFINE e        == SetStatus(engine, targets, "queued")
             clear(f) == Cleared(f, targets)
             o == [e.o EXCEPT !.runId = clear(e.o.runId), !.headSha = clear(e.o.headSha),
                              !.completed = FALSE]
             g == [e EXCEPT !.o = o]
  <2>2. e \in Engine  BY <1>0, <1>a, StatusSet
  <2>3. engine' = Pump(Persist(g))
    <3>1. [e EXCEPT !.o.runId = clear(@), !.o.headSha = clear(@), !.o.completed = FALSE] = g
      BY <2>2 DEF Engine, Ledger
    <3> QED  BY <2>1, <3>1, Zenon DEF Retry, Requeued, e
  <2> HIDE DEF e
  <2>4. g \in Engine  BY <2>2 DEF Engine, Ledger, Cleared
  <2> HIDE DEF g
  <2> QED  BY <2>3, <2>4, PersistKept, PumpKept
<1>9. ASSUME DeleteBatch  PROVE Kept(engine')
  <2> DEFINE d == DeleteLoop[N]
  <2>1. engine' \in Engine  BY <1>9, DeleteBatchOK DEF EngineOK
  <2>2. engine' = Forgotten(d)  BY <1>9 DEF DeleteBatch
  <2> HIDE DEF d
  <2>3. ~engine'.live  BY <2>1, <2>2 DEF Forgotten, Engine
  <2> QED  BY <2>3 DEF Kept
<1>10. ASSUME DeleteForgotten  PROVE Kept(engine')
  BY <1>0, <1>10 DEF DeleteForgotten, Kept, Engine
<1>11. ASSUME NEW i \in Items, LandingUpdated(i)  PROVE Kept(engine')
  BY <1>0, <1>11, PersistKept DEF LandingUpdated
<1> QED  BY <1>1, <1>3, <1>4, <1>6, <1>7, <1>8, <1>9, <1>10, <1>11

\* So does every way a promise a pump waits for may settle.
LEMMA PromisesKept ==
    ASSUME IInv, Kept(engine),
           \/ ReclaimReturns
           \/ \E i \in Items : PumpStep(i)
           \/ \E i \in Items, r \in Runs : CaptureReturns(i, r)
    PROVE  Kept(engine')
<1>0. engine \in Engine /\ \A i \in engine.forking \cup engine.starting : i \in Items
  BY EngineFacts
<1>1. CASE ReclaimReturns
  <2> DEFINE e == [engine EXCEPT !.reclaiming = @ - 1]
  <2>1. e \in Engine /\ e.o = engine.o /\ e.live = engine.live /\ e.file = engine.file
    BY <1>0, <1>1 DEF ReclaimReturns, Engine
  <2>2. engine' = PumpLoop(e, FALSE)  BY <1>1 DEF ReclaimReturns
  <2> HIDE DEF e
  <2>3. Kept(e)  BY <2>1, FewerKept
  <2> QED  BY <2>1, <2>2, <2>3, PumpLoopKept
<1>2. ASSUME NEW i \in Items, ForkReturns(i)  PROVE Kept(engine')
  <2>1. engine'.o.status = engine.o.status /\ engine'.live = engine.live
          /\ engine'.file = engine.file
    BY <1>0, <1>2 DEF ForkReturns, Engine, Ledger
  <2> QED  BY <2>1, FewerKept
<1>3. ASSUME NEW i \in Items, ForkFails(i)  PROVE Kept(engine')
  <2> DEFINE e == SetStatus(engine, FailedFork(i), "failed")
             f == [e EXCEPT !.forking = @ \ {i}]
  <2>1. FailedFork(i) \in SUBSET Items /\ "failed" \in ItemStatus /\ "failed" # "done"
    BY DEF FailedFork, With, ItemStatus, Settled
  <2>2. engine' = PumpLoop(f, TRUE)  BY <1>3 DEF ForkFails
  <2>3. e \in Engine /\ Kept(e)  BY <1>0, <2>1, StatusKept
  <2> HIDE DEF e
  <2>4. f \in Engine /\ f.o = e.o /\ f.live = e.live /\ f.file = e.file
    BY <2>3 DEF Engine
  <2> HIDE DEF f
  <2>5. Kept(f)  BY <2>3, <2>4, FewerKept
  <2> QED  BY <2>2, <2>4, <2>5, PumpLoopKept
<1>4. ASSUME NEW i \in Items, StartRunFails(i)  PROVE Kept(engine')
  <2> DEFINE e == SetStatus(engine, {i}, "failed")
             f == [e EXCEPT !.starting = @ \ {i}]
  <2>1. {i} \in SUBSET Items /\ "failed" \in ItemStatus /\ "failed" # "done"
    BY DEF ItemStatus, Settled
  <2>2. engine' = PumpLoop(f, TRUE)  BY <1>4 DEF StartRunFails, FailedLaunch
  <2>3. e \in Engine /\ Kept(e)  BY <1>0, <2>1, StatusKept
  <2> HIDE DEF e
  <2>4. f \in Engine /\ f.o = e.o /\ f.live = e.live /\ f.file = e.file
    BY <2>3 DEF Engine
  <2> HIDE DEF f
  <2>5. Kept(f)  BY <2>3, <2>4, FewerKept
  <2> QED  BY <2>2, <2>4, <2>5, PumpLoopKept
<1>5. ASSUME NEW i \in Items, NEW st \in {"running", "paused", "aborted"}, StartRunReturns(i, st)
      PROVE  Kept(engine')
  <2> DEFINE r == First({s \in Runs : runState[s] = "none"})
             o == [engine.o EXCEPT !.runId = [engine.o.runId EXCEPT ![i] = r]]
             f == [engine EXCEPT !.o = o, !.starting = @ \ {i}]
  <2>1. r \in Runs
    <3>1. {s \in Runs : runState[s] = "none"} \in SUBSET Nat  BY ItemsNat
    <3>2. {s \in Runs : runState[s] = "none"} # {}  BY <1>5 DEF StartRunReturns
    <3> QED  BY <3>1, <3>2, FirstIn
  <2>2. LET k == IF st = "running" THEN f ELSE OnRunUpdate(f, r, st)
        IN  engine' = k \/ engine' = PumpLoop(k, TRUE)
    <3>1. [engine EXCEPT !.o.runId[i] = r, !.starting = @ \ {i}] = f
      BY <1>0 DEF Engine, Ledger
    <3> QED  BY <1>5, <3>1, Zenon DEF StartRunReturns
  <2> HIDE DEF r
  <2>3. o \in Ledger /\ o.status = engine.o.status
    BY <1>0, <2>1 DEF Engine, Ledger
  <2> HIDE DEF o
  <2>4. f \in Engine /\ f.o = o /\ f.live = engine.live /\ f.file = engine.file
    BY <1>0, <2>3 DEF Engine
  <2> HIDE DEF f
  <2>5. Kept(f)  BY <2>3, <2>4, FewerKept
  <2>6. OnRunUpdate(f, r, st) \in Engine /\ Kept(OnRunUpdate(f, r, st))
    BY <2>1, <2>4, <2>5, OnRunUpdateKept
  <2>7. \E k \in {f, OnRunUpdate(f, r, st)} : engine' = k \/ engine' = PumpLoop(k, TRUE)
    BY <2>2, Zenon
  <2> QED  BY <2>4, <2>5, <2>6, <2>7, PumpLoopKept
<1>6. ASSUME NEW i \in Items, NEW r \in Runs, CaptureReturns(i, r)  PROVE Kept(engine')
  <2> DEFINE e == [engine EXCEPT !.capturing = @ \ {<<i, r>>}]
             o == [e.o EXCEPT !.headSha = [e.o.headSha EXCEPT ![i] = r]]
             f == [e EXCEPT !.o = o]
  <2>1. e \in Engine /\ e.o = engine.o /\ e.live = engine.live /\ e.file = engine.file
    BY <1>0 DEF Engine
  <2>2. engine' = e \/ engine' = Persist(f)
    <3>1. [e EXCEPT !.o.headSha[i] = r] = f  BY <2>1 DEF Engine, Ledger
    <3> QED  BY <1>6, <3>1, Zenon DEF CaptureReturns
  <2> HIDE DEF e
  <2>3. f \in Engine  BY <2>1 DEF Engine, Ledger
  <2> HIDE DEF f
  <2>4. Kept(e)  BY <2>1, FewerKept
  <2> QED  BY <2>2, <2>3, <2>4, PersistKept
<1> QED  BY <1>1, <1>2, <1>3, <1>4, <1>5, <1>6 DEF PumpStep

\* A process that starts has the successes of the file and no other.
LEMMA RestartKept ==
    ASSUME IInv, Restart  PROVE Kept(engine')
<1> DEFINE f == engine.file
           o == [f EXCEPT !.status = [i \in Items |-> SettledOnLoad(f, i)]]
<1>0. engine \in Engine  BY EngineFacts
<1>1. CASE f = NoFile
  <2>1. ~engine'.live  BY <1>1 DEF Restart, Created
  <2> QED  BY <2>1 DEF Kept
<1>2. CASE f # NoFile
  <2>1. f \in Ledger  BY <1>0, <1>2 DEF Engine
  <2>2. engine'.file = f /\ engine'.o = Loaded(f)
    BY <1>2 DEF Restart, Created
  <2> HIDE DEF f
  <2>3. \A i \in Items : SettledOnLoad(f, i) = "done" => f.status[i] = "done"
    BY DEF SettledOnLoad
  <2>4. o \in [status : [Items -> {SettledOnLoad(f, i) : i \in Items}],
               runId : [Items -> Runs \cup {NoRun}], headSha : [Items -> Runs \cup {NoRun}],
               adopted : BOOLEAN, paused : BOOLEAN, completed : BOOLEAN]
        /\ \A i \in Items : o.status[i] = SettledOnLoad(f, i)
    BY <2>1 DEF Ledger
  <2>5. Loaded(f) \in {o, [o EXCEPT !.completed = TRUE]}
    BY Zenon DEF Loaded
  <2> HIDE DEF o
  <2>6. Loaded(f).status = o.status  BY <2>4, <2>5
  <2> QED  BY <1>2, <2>2, <2>3, <2>4, <2>6 DEF Kept, f
<1> QED  BY <1>1, <1>2

\* The successes are saved in every reachable state.
LEMMA KeptInductive == IInv /\ Kept(engine) /\ [Next]_vars => Kept(engine')
<1> SUFFICES ASSUME IInv, Kept(engine), [Next]_vars PROVE Kept(engine')
  OBVIOUS
<1>0. engine \in Engine  BY EngineFacts
<1>1. ASSUME NEW r \in Runs, RunLeavesStep(r) \/ RunResumes(r) \/ RunReruns(r)
      PROVE  Kept(engine')
  <2>1. PICK kind : engine' = OnRunUpdate(engine, r, kind)
    BY <1>1 DEF RunLeavesStep, RunPauses, RunHeld, RunFinishes, RunAborts, RunResumes,
                RunReruns, RunGoes
  <2> QED  BY <1>0, <2>1, OnRunUpdateKept
<1>2. ASSUME \/ \E r \in Runs : RunDeleted(r) \/ Checkpointed(r)
             \/ CrewLeaves \/ TreesVanish \/ UNCHANGED vars
      PROVE  Kept(engine')
  BY <1>2 DEF RunDeleted, Checkpointed, CrewLeaves, TreesVanish, vars
<1>3. CASE CrewReturns
  BY <1>0, <1>3, PumpKept DEF CrewReturns
<1>4. CASE SaveCompletion
  <2> DEFINE p == Persist(engine)
  <2>1. p \in Engine /\ Kept(p) /\ engine' = [p EXCEPT !.closing = FALSE]
    BY <1>0, <1>4, PersistKept DEF SaveCompletion
  <2> HIDE DEF p
  <2>2. engine'.o = p.o /\ engine'.live = p.live /\ engine'.file = p.file
    BY <2>1 DEF Engine
  <2> QED  BY <2>1, <2>2, FewerKept
<1> QED  BY <1>1, <1>2, <1>3, <1>4, PeopleKept, PromisesKept, RestartKept DEF Next

\* A batch is saved before anyone sees it.
LEMMA KeptAtFirst == Init => Kept(engine)
<1> SUFFICES ASSUME Init PROVE Kept(engine)
  OBVIOUS
<1>1. PICK auto \in 0..N : engine = Persist(Created(auto))
                            \/ engine = Pump(Persist(Created(auto)))
  BY Zenon DEF Init
<1>2. Created(auto) \in Engine
  BY DEF Created, Engine, Ledger, ItemStatus
<1> QED  BY <1>1, <1>2, PersistKept, PumpKept

\* A success the user was shown survives a crash at any moment.
THEOREM SuccessIsDurable == Spec => []DoneIsDurable
<1>1. Kept(engine) => DoneIsDurable
  BY DEF Kept, DoneIsDurable, With
<1>2. (IInv /\ Kept(engine)) /\ [Next]_vars => (IInv /\ Kept(engine))'
  BY Inductive, KeptInductive
<1> QED  BY <1>1, <1>2, InitIInv, KeptAtFirst, PTL DEF Spec

-----------------------------------------------------------------------------
(* The end is noticed.                                                      *)

\* The batch is over, nobody holds it back and nobody has said so yet.
Open(o) == IsComplete(o) /\ ~o.paused /\ ~o.completed

\* What is saved is no more open than the batch object, unless the save of its
\* completion is still to come, and the pumps that wait belong to the kind of
\* batch the code lets wait there.
Agreed(e) ==
    /\ e.file # NoFile /\ Open(e.file) => e.closing \/ (e.live /\ Open(e.o))
    /\ e.closing => e.o.completed
    /\ e.capturing # {} => e.live
    /\ e.reclaiming > 0 => RunIn = "shared"

\* A batch that is over and open will be looked at again.
Noticed(e) == e.live /\ Open(e.o) => CrewAway \/ e.reclaiming > 0

\* An assignment to item.status leaves the rest of the engine as it is.
LEMMA StatusRest ==
    ASSUME NEW e \in Engine, NEW S \in SUBSET Items, NEW st \in ItemStatus
    PROVE  /\ SetStatus(e, S, st) \in Engine
           /\ SetStatus(e, S, st).o.paused = e.o.paused
           /\ SetStatus(e, S, st).live = e.live
           /\ SetStatus(e, S, st).reclaiming = e.reclaiming
           /\ SetStatus(e, S, st).capturing = e.capturing
           /\ SetStatus(e, S, st).closing = e.closing
           /\ SetStatus(e, S, st).o.completed = e.o.completed
<1> DEFINE f == [i \in Items |-> IF i \in S THEN st ELSE e.o.status[i]]
           o == [e.o EXCEPT !.status = f]
<1>1. SetStatus(e, S, st) = [e EXCEPT !.o = o] /\ o.paused = e.o.paused
      /\ o.completed = e.o.completed
  BY DEF SetStatus, Engine, Ledger
<1>2. SetStatus(e, S, st) \in Engine  BY StatusSet
<1> HIDE DEF o
<1> QED  BY <1>1, <1>2 DEF Engine

\* Equal statuses and flags are equally open.
LEMMA OpenSame ==
    ASSUME NEW o, NEW q, \A i \in Items : o.status[i] = q.status[i],
           o.paused = q.paused, o.completed = q.completed
    PROVE  Open(o) <=> Open(q)
  BY DEF Open, IsComplete

\* What is not saved may close the batch object only if the file is closed.
LEMMA AgreedSame ==
    ASSUME NEW e, Agreed(e), NEW f, f.live = e.live, f.file = e.file,
           Open(e.o) => Open(f.o),
           f.closing = e.closing, f.o.completed = e.o.completed,
           f.capturing # {} => e.live, f.reclaiming > 0 => RunIn = "shared"
    PROVE  Agreed(f)
  BY DEF Agreed

\* A save makes the file agree.
LEMMA PersistAgreed ==
    ASSUME NEW e \in Engine, e.live \/ ~Open(e.o), e.closing => e.o.completed,
           e.capturing # {} => e.live, e.reclaiming > 0 => RunIn = "shared"
    PROVE  /\ Persist(e) \in Engine /\ Agreed(Persist(e))
           /\ Persist(e).o = e.o /\ Persist(e).live = e.live /\ Persist(e).file = e.o
           /\ Persist(e).capturing = e.capturing /\ Persist(e).reclaiming = e.reclaiming
           /\ Persist(e).closing = e.closing
<1>1. /\ Persist(e) \in Engine /\ Persist(e).o = e.o /\ Persist(e).file = e.o
      /\ Persist(e).live = e.live /\ Persist(e).capturing = e.capturing
      /\ Persist(e).reclaiming = e.reclaiming /\ Persist(e).closing = e.closing
  BY DEF Persist, Engine
<1> QED  BY <1>1 DEF Agreed

\* maybeComplete closes what is open, and has yet to save it.
LEMMA MaybeCompleteAgreed ==
    ASSUME NEW e \in Engine, e.file = e.o \/ Agreed(e), e.closing => e.o.completed,
           e.capturing # {} => e.live, e.reclaiming > 0 => RunIn = "shared"
    PROVE  /\ MaybeComplete(e) \in Engine /\ Agreed(MaybeComplete(e))
           /\ ~Open(MaybeComplete(e).o)
           /\ MaybeComplete(e).live = e.live
           /\ MaybeComplete(e).capturing = e.capturing
           /\ MaybeComplete(e).reclaiming = e.reclaiming
<1> DEFINE g == MaybeComplete(e)
<1>1. /\ g \in Engine /\ g.live = e.live /\ g.file = e.file
      /\ g.capturing = e.capturing /\ g.reclaiming = e.reclaiming
      /\ \/ g = e /\ ~(~e.o.completed /\ IsComplete(e.o))
         \/ g.o.completed /\ g.closing
  BY MaybeCompleteFrame
<1> HIDE DEF g
<1>2. ~Open(g.o)
  BY <1>1 DEF Open
<1>3. Agreed(g)
  <2>1. CASE g.o.completed /\ g.closing  BY <1>1, <2>1 DEF Agreed
  <2>2. CASE g = e  BY <1>1, <1>2, <2>2 DEF Agreed
  <2> QED  BY <1>1, <2>1, <2>2
<1> QED  BY <1>1, <1>2, <1>3 DEF g

\* The loop of pump never leaves an end open.
LEMMA PumpLoopAgreed ==
    ASSUME NEW e \in Engine, Agreed(e), NEW b \in BOOLEAN
    PROVE  /\ PumpLoop(e, b) \in Engine /\ Agreed(PumpLoop(e, b))
           /\ ~Open(PumpLoop(e, b).o)
<1>0. /\ (e.capturing # {} => e.live) /\ (e.reclaiming > 0 => RunIn = "shared")
      /\ (e.closing => e.o.completed)
  BY DEF Agreed
<1>1. CASE SlotFree(e) /\ With(e, {"queued"}) # {}
  <2> DEFINE next == First(With(e, {"queued"}))
             f    == SetStatus(e, {next}, "running")
             g    == [f EXCEPT !.forking = @ \cup {next}]
             h    == [f EXCEPT !.starting = @ \cup {next}]
  <2>1. next \in Items /\ e.o.status[next] = "queued"
    <3>1. With(e, {"queued"}) \in SUBSET Nat  BY ItemsNat DEF With
    <3> QED  BY <1>1, <3>1, FirstIn DEF With
  <2>2. PumpLoop(e, b) \in {g, h}
    BY <1>1 DEF PumpLoop, LaunchNext
  <2> HIDE DEF next
  <2>a. {next} \in SUBSET Items /\ "running" \in ItemStatus  BY <2>1 DEF ItemStatus
  <2>3. f \in Engine /\ f.live = e.live /\ f.file = e.file /\ f.o.status[next] = "running"
          /\ f.capturing = e.capturing /\ f.reclaiming = e.reclaiming
          /\ f.closing = e.closing /\ f.o.completed = e.o.completed
    BY <2>1, <2>a, StatusSet, StatusRest
  <2> HIDE DEF f
  <2>4. ~Open(f.o) /\ ~Open(e.o)
    BY <2>1, <2>3 DEF Open, IsComplete, Settled
  <2>5. \A k \in {g, h} : /\ k \in Engine /\ k.o = f.o /\ k.live = f.live /\ k.file = f.file
                          /\ k.capturing = f.capturing /\ k.reclaiming = f.reclaiming
                          /\ k.closing = f.closing
    BY <2>a, <2>3 DEF Engine
  <2> HIDE DEF g, h
  <2>6. ASSUME NEW k \in {g, h}  PROVE k \in Engine /\ Agreed(k) /\ ~Open(k.o)
    BY <1>0, <2>3, <2>4, <2>5, AgreedSame
  <2> QED  BY <2>2, <2>6
<1>2. CASE ~(SlotFree(e) /\ With(e, {"queued"}) # {})
  <2>1. PumpLoop(e, b) = MaybeComplete(Persist(e)) \/ PumpLoop(e, b) = MaybeComplete(e)
    BY <1>2 DEF PumpLoop
  <2>2. /\ Persist(e) \in Engine /\ Persist(e).file = Persist(e).o /\ Persist(e).live = e.live
        /\ Persist(e).capturing = e.capturing /\ Persist(e).reclaiming = e.reclaiming
        /\ Persist(e).closing = e.closing /\ Persist(e).o = e.o
    BY DEF Persist, Engine
  <2> QED  BY <1>0, <2>1, <2>2, MaybeCompleteAgreed
<1> QED  BY <1>1, <1>2

\* A pump leaves an end open only to whoever will look at it again.
LEMMA PumpAgreed ==
    ASSUME NEW e \in Engine, Agreed(e)
    PROVE  /\ PumpOnDuty(e) \in Engine /\ Agreed(PumpOnDuty(e))
           /\ PumpOnDuty(e).live /\ Open(PumpOnDuty(e).o) => PumpOnDuty(e).reclaiming > 0
           /\ Pump(e) \in Engine /\ Agreed(Pump(e)) /\ Noticed(Pump(e))
<1> DEFINE g == [e EXCEPT !.reclaiming = @ + 1]
<1>1. g \in Engine /\ g.o = e.o /\ g.live = e.live /\ g.file = e.file
        /\ g.capturing = e.capturing /\ g.closing = e.closing /\ g.reclaiming > 0
  BY DEF Engine
<1> HIDE DEF g
<1>2. CASE ~e.live \/ e.o.paused
  BY <1>2 DEF PumpOnDuty, Pump, Open, Noticed
<1>3. CASE e.live /\ ~e.o.paused /\ Reclaims(e)
  <2>1. PumpOnDuty(e) = g  BY <1>3 DEF PumpOnDuty, g
  <2>2. Agreed(g)  BY <1>1, <1>3, AgreedSame DEF Reclaims
  <2> QED  BY <1>1, <2>1, <2>2 DEF Pump, Noticed
<1>4. CASE e.live /\ ~e.o.paused /\ ~Reclaims(e)
  <2>1. PumpOnDuty(e) = PumpLoop(e, FALSE)  BY <1>4 DEF PumpOnDuty
  <2> QED  BY <2>1, PumpLoopAgreed DEF Pump, Noticed
<1> QED  BY <1>2, <1>3, <1>4

\* The observer saves, then pumps, only while the batch is listed.
LEMMA OnRunUpdateAgreed ==
    ASSUME NEW e \in Engine, Agreed(e), NEW r \in Runs, NEW kind
    PROVE  /\ OnRunUpdate(e, r, kind) \in Engine /\ Agreed(OnRunUpdate(e, r, kind))
           /\ Noticed(e) => Noticed(OnRunUpdate(e, r, kind))
<1>1. CASE ~e.live \/ \A j \in Items : e.o.runId[j] # r
  BY <1>1, Zenon DEF OnRunUpdate
<1>2. CASE e.live /\ \E j \in Items : e.o.runId[j] = r
  <2> DEFINE i     == CHOOSE j \in Items : e.o.runId[j] = r
             p(st) == Persist(SetStatus(e, {i}, st))
             c(st) == [p(st) EXCEPT !.capturing = @ \cup {<<i, r>>}]
  <2>1. i \in Items /\ {i} \in SUBSET Items  BY <1>2
  <2>2. \/ OnRunUpdate(e, r, kind) = Pump(p("paused"))
        \/ OnRunUpdate(e, r, kind) = p("running")
        \/ \E st \in {"done", "failed"} : OnRunUpdate(e, r, kind) = Pump(c(st))
        \/ OnRunUpdate(e, r, kind) = e
    BY <1>2, Zenon DEF OnRunUpdate, Park, Settle
  <2> HIDE DEF i
  <2>3. ASSUME NEW st \in {"paused", "running", "done", "failed"}
        PROVE  /\ p(st) \in Engine /\ Agreed(p(st)) /\ p(st).o.status[i] = st
               /\ c(st) \in Engine /\ Agreed(c(st))
    <3> DEFINE f == SetStatus(e, {i}, st)
               q == Persist(f)
               k == [q EXCEPT !.capturing = @ \cup {<<i, r>>}]
    <3>a. st \in ItemStatus  BY DEF ItemStatus, Settled
    <3>1. /\ f \in Engine /\ f.live = e.live /\ f.reclaiming = e.reclaiming
          /\ f.capturing = e.capturing /\ f.o.status[i] = st
          /\ f.closing = e.closing /\ f.o.completed = e.o.completed
      BY <2>1, <3>a, StatusSet, StatusRest
    <3> HIDE DEF f
    <3>2. q \in Engine /\ Agreed(q) /\ q.o = f.o /\ q.live = e.live
            /\ q.reclaiming = e.reclaiming
      BY <1>2, <3>1, PersistAgreed DEF Agreed
    <3> HIDE DEF q
    <3>3. k \in Engine /\ k.o = q.o /\ k.live = q.live /\ k.file = q.file
            /\ k.reclaiming = q.reclaiming /\ k.closing = q.closing
      BY <2>1, <3>2 DEF Engine
    <3> HIDE DEF k
    <3>4. Agreed(k)  BY <1>2, <3>2, <3>3, AgreedSame DEF Agreed
    <3> QED  BY <3>1, <3>2, <3>3, <3>4 DEF k, q, f
  <2>4. Noticed(p("running"))
    <3>1. p("running").o.status[i] = "running"  BY <2>3
    <3> HIDE DEF p
    <3> QED  BY <2>1, <3>1 DEF Noticed, Open, IsComplete, Settled
  <2> HIDE DEF p, c
  <2> QED  BY <2>2, <2>3, <2>4, PumpAgreed
<1> QED  BY <1>1, <1>2

\* What a person does leaves no end unnoticed.
LEMMA PeopleAgreed ==
    ASSUME IInv, Agreed(engine), Noticed(engine),
           \/ \E picks \in SUBSET Items, keep \in BOOLEAN : ApproveBatch(picks, keep)
           \/ \E i \in Items : RejectItem(i) \/ RejectRun(i) \/ LandingUpdated(i)
           \/ AbortBatch \/ PauseBatch \/ ResumeBatch \/ RetryAny \/ DeleteBatch \/ DeleteForgotten
    PROVE  Agreed(engine') /\ Noticed(engine')
<1>0. engine \in Engine  BY EngineFacts
<1>a. {"queued", "cancelled", "failed", "running"} \subseteq ItemStatus
  BY DEF ItemStatus, Settled
<1>b. (engine.reclaiming > 0 => RunIn = "shared") /\ ~engine.closing
  BY DEF Agreed, ApproveBatch, RejectItem, RejectRun, LandingUpdated, AbortBatch, PauseBatch,
         ResumeBatch, RetryAny, Retry, DeleteBatch, DeleteForgotten, Room, LoopFree
<1>1. ASSUME NEW picks \in SUBSET Items, NEW keep \in BOOLEAN, ApproveBatch(picks, keep)
      PROVE  Agreed(engine') /\ Noticed(engine')
  <2> DEFINE declined == IF keep THEN {} ELSE With(engine, {"proposed"}) \ picks
             f == SetStatus(engine, picks, "queued")
             g == SetStatus(f, declined, "cancelled")
             p == Persist(g)
  <2>1. /\ \/ engine' = Pump(p)
           \/ picks = {} /\ keep /\ engine' = p
           \/ engine' = MaybeComplete(p)
        /\ engine.live /\ With(engine, {"proposed"}) # {}
    BY <1>1, Zenon DEF ApproveBatch
  <2>2. declined \in SUBSET Items /\ (keep => declined = {})  BY DEF With
  <2> HIDE DEF declined
  <2>3. /\ f \in Engine /\ f.live /\ f.reclaiming = engine.reclaiming
        /\ f.closing = engine.closing
        /\ \A i \in Items : f.o.status[i] = IF i \in picks THEN "queued" ELSE engine.o.status[i]
    BY <1>0, <1>a, <2>1, StatusSet, StatusRest
  <2> HIDE DEF f
  <2>4. /\ g \in Engine /\ g.live /\ g.reclaiming = engine.reclaiming
        /\ g.closing = engine.closing
        /\ \A i \in Items : g.o.status[i] = IF i \in declined THEN "cancelled" ELSE f.o.status[i]
    BY <1>a, <2>2, <2>3, StatusSet, StatusRest
  <2> HIDE DEF g
  <2>5. /\ p \in Engine /\ Agreed(p) /\ p.o = g.o /\ p.live /\ p.file = p.o
        /\ p.reclaiming = engine.reclaiming /\ p.closing = engine.closing
    BY <1>b, <2>4, PersistAgreed
  <2> HIDE DEF p
  <2>6. CASE picks = {} /\ keep /\ engine' = p
    <3>1. PICK j \in Items : engine.o.status[j] = "proposed"  BY <2>1 DEF With
    <3>2. p.o.status[j] = "proposed"  BY <2>2, <2>3, <2>4, <2>5, <2>6, <3>1
    <3>3. ~Open(p.o)  BY <3>2 DEF Open, IsComplete, Settled
    <3> QED  BY <2>5, <2>6, <3>3 DEF Noticed
  <2>7. CASE engine' = MaybeComplete(p)
    BY <1>b, <2>5, <2>7, MaybeCompleteAgreed DEF Noticed
  <2> QED  BY <2>1, <2>5, <2>6, <2>7, PumpAgreed
<1>2. ASSUME NEW i \in Items, engine.live
      PROVE  Rejected(i) \in Engine /\ Agreed(Rejected(i)) /\ Noticed(Rejected(i))
  <2> DEFINE f == SetStatus(engine, {i}, "cancelled")
             p == Persist(f)
  <2>1. {i} \in SUBSET Items /\ "cancelled" \in ItemStatus  BY <1>a
  <2>2. f \in Engine /\ f.live /\ f.reclaiming = engine.reclaiming /\ f.closing = engine.closing
    BY <1>0, <1>2, <2>1, StatusRest
  <2> HIDE DEF f
  <2>3. /\ p \in Engine /\ Agreed(p) /\ p.live /\ p.reclaiming = engine.reclaiming
        /\ p.closing = engine.closing
    BY <1>b, <2>2, PersistAgreed
  <2>4. Rejected(i) = MaybeComplete(p)  BY DEF Rejected, p, f
  <2> HIDE DEF p
  <2> QED  BY <1>b, <2>3, <2>4, MaybeCompleteAgreed DEF Noticed
<1>3. ASSUME NEW i \in Items, RejectItem(i) \/ RejectRun(i)
      PROVE  Agreed(engine') /\ Noticed(engine')
  <2>1. CASE RejectItem(i)  BY <1>2, <2>1 DEF RejectItem
  <2>2. CASE RejectRun(i)
    <3>1. engine.o.runId[i] \in Runs /\ engine.live  BY <2>2, EngineFacts DEF RejectRun, Linked
    <3>2. engine' = OnRunUpdate(Rejected(i), engine.o.runId[i], "aborted")
      BY <2>2 DEF RejectRun
    <3> QED  BY <1>2, <3>1, <3>2, OnRunUpdateAgreed
  <2> QED  BY <1>3, <2>1, <2>2
<1>4. ASSUME AbortBatch  PROVE Agreed(engine') /\ Noticed(engine')
  <2> DEFINE waiting == {i \in With(engine, {"queued", "proposed", "paused"}) :
                           engine.o.status[i] = "paused" => ~Linked(engine, i)}
             killed  == Killed(engine)
             running == With(engine, {"running"})
             f == SetStatus(engine, waiting, "cancelled")
             g == SetStatus(f, killed \cap running, "failed")
             h == SetStatus(g, killed \ running, "cancelled")
             o == [h.o EXCEPT !.paused = FALSE]
             k == [h EXCEPT !.o = o]
             p == Persist(k)
  <2>1. engine.live /\ engine' = MaybeComplete(Persist([h EXCEPT !.o.paused = FALSE]))
    BY <1>4, Zenon DEF AbortBatch
  <2>2. waiting \in SUBSET Items /\ killed \in SUBSET Items  BY DEF With, Killed
  <2> HIDE DEF waiting, killed, running
  <2>3. f \in Engine /\ f.live /\ f.reclaiming = engine.reclaiming /\ f.closing = engine.closing
    BY <1>0, <1>a, <2>1, <2>2, StatusRest
  <2> HIDE DEF f
  <2>4. g \in Engine /\ g.live /\ g.reclaiming = engine.reclaiming /\ g.closing = engine.closing
    <3>1. killed \cap running \in SUBSET Items  BY <2>2
    <3> QED  BY <1>a, <2>3, <3>1, StatusRest
  <2> HIDE DEF g
  <2>5. h \in Engine /\ h.live /\ h.reclaiming = engine.reclaiming /\ h.closing = engine.closing
    <3>1. killed \ running \in SUBSET Items  BY <2>2
    <3> QED  BY <1>a, <2>4, <3>1, StatusRest
  <2> HIDE DEF h
  <2>6. o \in Ledger /\ [h EXCEPT !.o.paused = FALSE] = k  BY <2>5 DEF Engine, Ledger
  <2> HIDE DEF o
  <2>7. k \in Engine /\ k.live /\ k.reclaiming = engine.reclaiming /\ k.closing = engine.closing
    BY <2>5, <2>6 DEF Engine
  <2> HIDE DEF k
  <2>8. /\ p \in Engine /\ Agreed(p) /\ p.live /\ p.reclaiming = engine.reclaiming
        /\ p.closing = engine.closing
    BY <1>b, <2>7, PersistAgreed
  <2>9. engine' = MaybeComplete(p)  BY <2>1, <2>6
  <2> HIDE DEF p
  <2> QED  BY <1>b, <2>8, <2>9, MaybeCompleteAgreed DEF Noticed
<1>5. ASSUME NEW b \in BOOLEAN, engine.live
      PROVE  LET p == Persist([engine EXCEPT !.o.paused = b])
             IN  /\ p \in Engine /\ Agreed(p) /\ p.live /\ p.file = p.o
                 /\ p.reclaiming = engine.reclaiming /\ p.closing = engine.closing
                 /\ p.capturing = engine.capturing
                 /\ p.o.paused = b /\ p.o.status = engine.o.status
                 /\ p.o.runId = engine.o.runId
  <2> DEFINE o == [engine.o EXCEPT !.paused = b]
             k == [engine EXCEPT !.o = o]
  <2>1. /\ o \in Ledger /\ o.paused = b /\ o.status = engine.o.status
        /\ o.runId = engine.o.runId /\ [engine EXCEPT !.o.paused = b] = k
    BY <1>0 DEF Engine, Ledger
  <2> HIDE DEF o
  <2>2. /\ k \in Engine /\ k.o = o /\ k.live /\ k.reclaiming = engine.reclaiming
        /\ k.closing = engine.closing
        /\ k.capturing = engine.capturing
    BY <1>0, <1>5, <2>1 DEF Engine
  <2> HIDE DEF k
  <2> QED  BY <1>b, <2>1, <2>2, PersistAgreed
<1>6. ASSUME PauseBatch  PROVE Agreed(engine') /\ Noticed(engine')
  <2> DEFINE p == Persist([engine EXCEPT !.o.paused = TRUE])
  <2>1. engine.live /\ engine' = p  BY <1>6 DEF PauseBatch
  <2>2. Agreed(p) /\ p.o.paused = TRUE  BY <1>5, <2>1
  <2> HIDE DEF p
  <2> QED  BY <2>1, <2>2 DEF Noticed, Open
<1>7. ASSUME ResumeBatch  PROVE Agreed(engine') /\ Noticed(engine')
  <2> DEFINE p    == Persist([engine EXCEPT !.o.paused = FALSE])
             awake(S) == {i \in With(engine, {"paused"}) : engine.o.runId[i] \in S}
             e(S) == SetStatus(p, awake(S), "running")
             Resumed(S) == engine' = Pump(IF S = {} THEN e({}) ELSE Persist(e(S)))
  <2>1. engine.live /\ \E S : Resumed(S)  BY <1>7, Zenon DEF ResumeBatch
  <2>2. PICK S : Resumed(S)  BY <2>1
  <2>3. /\ p \in Engine /\ Agreed(p) /\ p.live /\ p.file = p.o
        /\ p.reclaiming = engine.reclaiming /\ p.closing = engine.closing
    BY <1>5, <2>1
  <2> HIDE DEF p
  <2>4. awake(S) \in SUBSET Items /\ awake({}) = {}  BY DEF With
  <2> HIDE DEF awake
  <2>5. "running" \in ItemStatus  BY <1>a
  <2>6. e({}) \in Engine /\ Agreed(e({}))
    <3> DEFINE f == SetStatus(p, {}, "running")
    <3>a. {} \in SUBSET Items /\ p \in Engine  BY <2>3
    <3>b. f \in Engine /\ f.live = p.live /\ f.reclaiming = p.reclaiming
            /\ f.capturing = p.capturing /\ f.o.paused = p.o.paused
            /\ f.closing = p.closing
      BY <3>a, <2>5, StatusRest
    <3>c. /\ f.file = p.file /\ f.o.completed = p.o.completed
          /\ \A i \in Items : f.o.status[i] = p.o.status[i]
      BY <3>a, <2>5, StatusSet
    <3>1. /\ f \in Engine /\ f.live = p.live /\ f.file = p.file /\ f.reclaiming = p.reclaiming
          /\ f.capturing = p.capturing /\ f.o.paused = p.o.paused
          /\ f.closing = p.closing
          /\ f.o.completed = p.o.completed /\ \A i \in Items : f.o.status[i] = p.o.status[i]
      BY <3>b, <3>c
    <3>2. e({}) = f  BY <2>4
    <3> HIDE DEF f, e
    <3>3. Open(p.o) => Open(f.o)  BY <3>1, OpenSame
    <3>4. Agreed(f)  BY <2>3, <3>1, <3>3, AgreedSame DEF Agreed
    <3> QED  BY <3>1, <3>2, <3>4
  <2>7. /\ e(S) \in Engine /\ e(S).live /\ e(S).reclaiming = engine.reclaiming
        /\ e(S).closing = engine.closing
    BY <2>3, <2>4, <2>5, StatusRest
  <2>8. engine' = Pump(e({})) \/ engine' = Pump(Persist(e(S)))  BY <2>2
  <2> HIDE DEF e, Resumed
  <2>9. Persist(e(S)) \in Engine /\ Agreed(Persist(e(S)))
    BY <1>b, <2>7, PersistAgreed
  <2> QED  BY <2>6, <2>8, <2>9, PumpAgreed
<1>8. ASSUME RetryAny  PROVE Agreed(engine') /\ Noticed(engine')
  <2>1. PICK targets \in SUBSET Items : Retry(targets)
    BY <1>8 DEF RetryAny, Retriable, With
  <2> DEFINE e        == SetStatus(engine, targets, "queued")
             clear(f) == Cleared(f, targets)
             o == [e.o EXCEPT !.runId = clear(e.o.runId), !.headSha = clear(e.o.headSha),
                              !.completed = FALSE]
             g == [e EXCEPT !.o = o]
  <2>2. /\ e \in Engine /\ e.live = engine.live /\ e.reclaiming = engine.reclaiming
        /\ e.closing = engine.closing
    BY <1>0, <1>a, StatusRest
  <2>3. engine.live /\ engine' = Pump(Persist(g))
    <3>1. [e EXCEPT !.o.runId = clear(@), !.o.headSha = clear(@), !.o.completed = FALSE] = g
      BY <2>2 DEF Engine, Ledger
    <3> QED  BY <2>1, <3>1, Zenon DEF Retry, Requeued, e
  <2> HIDE DEF e
  <2>4. o \in Ledger  BY <2>2 DEF Engine, Ledger, Cleared
  <2> HIDE DEF o
  <2>5. g \in Engine /\ g.live /\ g.reclaiming = engine.reclaiming /\ g.closing = engine.closing
    BY <2>2, <2>3, <2>4 DEF Engine
  <2> HIDE DEF g
  <2> QED  BY <1>b, <2>3, <2>5, PersistAgreed, PumpAgreed
<1>9. ASSUME DeleteBatch  PROVE Agreed(engine') /\ Noticed(engine')
  <2> DEFINE V == {e \in Engine : Agreed(e)}
             d == DeleteLoop[N]
  <2>1. engine \in V  BY <1>0
  <2>2. ASSUME NEW e \in V, NEW i \in Items  PROVE AbortChild(e, i) \in V
    <3>1. CASE Linked(e, i)
      <4>1. e \in Engine /\ Agreed(e) /\ e.o.runId[i] \in Runs
        BY <3>1 DEF Linked, Engine, Ledger
      <4> HIDE DEF V
      <4>2. OnRunUpdate(e, e.o.runId[i], "aborted") \in V
        BY <4>1, OnRunUpdateAgreed DEF V
      <4> QED  BY <4>1, <4>2 DEF AbortChild, V
    <3>2. CASE ~Linked(e, i)  BY <3>2 DEF AbortChild
    <3> QED  BY <3>1, <3>2
  <2>3. d \in V
    <3> HIDE DEF V
    <3> QED  BY <2>1, <2>2, DeleteLoopStays
  <2>4. d \in Engine /\ Agreed(d) /\ engine' = Forgotten(d)
    BY <1>9, <2>3 DEF DeleteBatch
  <2> HIDE DEF d
  <2>5. /\ ~engine'.live /\ engine'.file = NoFile /\ engine'.capturing = {}
        /\ engine'.reclaiming = d.reclaiming /\ engine'.closing = FALSE
    BY <2>4 DEF Forgotten, Engine
  <2> QED  BY <2>4, <2>5 DEF Agreed, Noticed
<1>10. ASSUME DeleteForgotten  PROVE Agreed(engine') /\ Noticed(engine')
  BY <1>0, <1>10 DEF DeleteForgotten, Agreed, Noticed, Engine
<1>11. ASSUME NEW i \in Items, LandingUpdated(i)  PROVE Agreed(engine') /\ Noticed(engine')
  <2>1. engine.live /\ engine' = Persist(engine)  BY <1>11 DEF LandingUpdated
  <2>2. /\ Agreed(Persist(engine)) /\ Persist(engine).o = engine.o
        /\ Persist(engine).reclaiming = engine.reclaiming
        /\ Persist(engine).closing = engine.closing
    BY <1>0, <1>b, <2>1, PersistAgreed
  <2> QED  BY <2>1, <2>2 DEF Noticed
<1> QED  BY <1>1, <1>3, <1>4, <1>6, <1>7, <1>8, <1>9, <1>10, <1>11

\* Nor does a promise a pump waits for, however it settles.
LEMMA PromisesAgreed ==
    ASSUME IInv, Agreed(engine), Noticed(engine),
           \/ ReclaimReturns
           \/ \E i \in Items : PumpStep(i)
           \/ \E i \in Items, r \in Runs : CaptureReturns(i, r)
    PROVE  Agreed(engine') /\ Noticed(engine')
<1>0. engine \in Engine /\ \A i \in engine.forking \cup engine.starting :
                              i \in Items /\ engine.o.status[i] = "running"
  BY EngineFacts
<1>a. ASSUME NEW i \in engine.forking \cup engine.starting  PROVE ~Open(engine.o)
  BY <1>0 DEF Open, IsComplete, Settled
<1>b. /\ engine.capturing # {} => engine.live
      /\ engine.reclaiming > 0 => RunIn = "shared"
      /\ ~engine.closing
  BY DEF Agreed, ReclaimReturns, PumpStep, ForkReturns, ForkFails, StartRunFails,
         StartRunReturns, CaptureReturns, Room, LoopFree
<1>1. CASE ReclaimReturns
  <2> DEFINE e == [engine EXCEPT !.reclaiming = @ - 1]
  <2>1. /\ e \in Engine /\ e.o = engine.o /\ e.live = engine.live /\ e.file = engine.file
        /\ e.capturing = engine.capturing /\ RunIn = "shared" /\ e.closing = engine.closing
    BY <1>0, <1>1, <1>b DEF ReclaimReturns, Engine
  <2>2. engine' = PumpLoop(e, FALSE)  BY <1>1 DEF ReclaimReturns
  <2> HIDE DEF e
  <2>3. Agreed(e)  BY <1>b, <2>1, AgreedSame
  <2> QED  BY <2>1, <2>2, <2>3, PumpLoopAgreed DEF Noticed
<1>2. ASSUME NEW i \in Items, ForkReturns(i)  PROVE Agreed(engine') /\ Noticed(engine')
  <2>1. /\ engine'.o.status = engine.o.status /\ engine'.o.paused = engine.o.paused
        /\ engine'.o.completed = engine.o.completed /\ engine'.live = engine.live
        /\ engine'.file = engine.file /\ engine'.capturing = engine.capturing
        /\ engine'.reclaiming = engine.reclaiming /\ engine'.closing = engine.closing
    BY <1>0, <1>2 DEF ForkReturns, Engine, Ledger
  <2>2. Open(engine'.o) <=> Open(engine.o)  BY <2>1, OpenSame
  <2>3. Agreed(engine')  BY <1>b, <2>1, <2>2, AgreedSame
  <2> QED  BY <2>1, <2>2, <2>3 DEF Noticed
<1>3. ASSUME NEW i \in Items, ForkFails(i)  PROVE Agreed(engine') /\ Noticed(engine')
  <2> DEFINE e == SetStatus(engine, FailedFork(i), "failed")
             f == [e EXCEPT !.forking = @ \ {i}]
  <2>1. FailedFork(i) \in SUBSET Items /\ "failed" \in ItemStatus
    BY DEF FailedFork, With, ItemStatus, Settled
  <2>2. engine' = PumpLoop(f, TRUE) /\ ~Open(engine.o)  BY <1>3, <1>a DEF ForkFails
  <2>3. /\ e \in Engine /\ e.live = engine.live /\ e.file = engine.file
        /\ e.capturing = engine.capturing /\ e.reclaiming = engine.reclaiming
        /\ e.closing = engine.closing /\ e.o.completed = engine.o.completed
    BY <1>0, <2>1, StatusSet, StatusRest
  <2> HIDE DEF e
  <2>4. /\ f \in Engine /\ f.live = e.live /\ f.file = e.file /\ f.o = e.o
        /\ f.capturing = e.capturing /\ f.reclaiming = e.reclaiming /\ f.closing = e.closing
    BY <2>3 DEF Engine
  <2> HIDE DEF f
  <2>5. Agreed(f)  BY <1>b, <2>2, <2>3, <2>4, AgreedSame
  <2> QED  BY <2>2, <2>4, <2>5, PumpLoopAgreed DEF Noticed
<1>4. ASSUME NEW i \in Items, StartRunFails(i)  PROVE Agreed(engine') /\ Noticed(engine')
  <2> DEFINE e == SetStatus(engine, {i}, "failed")
             f == [e EXCEPT !.starting = @ \ {i}]
  <2>1. {i} \in SUBSET Items /\ "failed" \in ItemStatus
    BY DEF ItemStatus, Settled
  <2>2. engine' = PumpLoop(f, TRUE) /\ ~Open(engine.o)
    BY <1>4, <1>a DEF StartRunFails, FailedLaunch
  <2>3. /\ e \in Engine /\ e.live = engine.live /\ e.file = engine.file
        /\ e.capturing = engine.capturing /\ e.reclaiming = engine.reclaiming
        /\ e.closing = engine.closing /\ e.o.completed = engine.o.completed
    <3>1. {i} \in SUBSET Items  BY <2>1
    <3>2. "failed" \in ItemStatus  BY <2>1
    <3>3. e \in Engine /\ e.file = engine.file  BY <1>0, <3>1, <3>2, StatusSet
    <3>4. /\ e.live = engine.live /\ e.capturing = engine.capturing
          /\ e.reclaiming = engine.reclaiming /\ e.closing = engine.closing
          /\ e.o.completed = engine.o.completed
      BY <1>0, <3>1, <3>2, StatusRest
    <3> QED  BY <3>3, <3>4
  <2> HIDE DEF e
  <2>4. /\ f \in Engine /\ f.live = e.live /\ f.file = e.file /\ f.o = e.o
        /\ f.capturing = e.capturing /\ f.reclaiming = e.reclaiming /\ f.closing = e.closing
    BY <2>3 DEF Engine
  <2> HIDE DEF f
  <2>5. Agreed(f)  BY <1>b, <2>2, <2>3, <2>4, AgreedSame
  <2> QED  BY <2>2, <2>4, <2>5, PumpLoopAgreed DEF Noticed
<1>5. ASSUME NEW i \in Items, NEW st \in {"running", "paused", "aborted"}, StartRunReturns(i, st)
      PROVE  Agreed(engine') /\ Noticed(engine')
  <2> DEFINE r == First({s \in Runs : runState[s] = "none"})
             o == [engine.o EXCEPT !.runId = [engine.o.runId EXCEPT ![i] = r]]
             f == [engine EXCEPT !.o = o, !.starting = @ \ {i}]
  <2>1. r \in Runs
    <3>1. {s \in Runs : runState[s] = "none"} \in SUBSET Nat  BY ItemsNat
    <3>2. {s \in Runs : runState[s] = "none"} # {}  BY <1>5 DEF StartRunReturns
    <3> QED  BY <3>1, <3>2, FirstIn
  <2>2. LET k == IF st = "running" THEN f ELSE OnRunUpdate(f, r, st)
        IN  engine' = k \/ engine' = PumpLoop(k, TRUE)
    <3>1. [engine EXCEPT !.o.runId[i] = r, !.starting = @ \ {i}] = f
      BY <1>0 DEF Engine, Ledger
    <3> QED  BY <1>5, <3>1, Zenon DEF StartRunReturns
  <2>a. ~Open(engine.o)  BY <1>5, <1>a DEF StartRunReturns
  <2> HIDE DEF r
  <2>3. /\ o \in Ledger /\ o.completed = engine.o.completed /\ o.status = engine.o.status
        /\ o.paused = engine.o.paused
    BY <1>0, <2>1 DEF Engine, Ledger
  <2> HIDE DEF o
  <2>4. /\ f \in Engine /\ f.live = engine.live /\ f.file = engine.file /\ f.o = o
        /\ f.capturing = engine.capturing /\ f.reclaiming = engine.reclaiming
        /\ f.closing = engine.closing
    BY <1>0, <2>3 DEF Engine
  <2> HIDE DEF f
  <2>5. Agreed(f)  BY <1>b, <2>a, <2>3, <2>4, AgreedSame
  <2>6. /\ OnRunUpdate(f, r, st) \in Engine /\ Agreed(OnRunUpdate(f, r, st))
        /\ Noticed(f) /\ Noticed(OnRunUpdate(f, r, st))
    <3>1. Noticed(f)  BY <2>a, <2>3, <2>4, OpenSame DEF Noticed
    <3> QED  BY <2>1, <2>4, <2>5, <3>1, OnRunUpdateAgreed
  <2>7. \E k \in {f, OnRunUpdate(f, r, st)} : engine' = k \/ engine' = PumpLoop(k, TRUE)
    BY <2>2, Zenon
  <2> QED  BY <2>4, <2>5, <2>6, <2>7, PumpLoopAgreed DEF Noticed
<1>6. ASSUME NEW i \in Items, NEW r \in Runs, CaptureReturns(i, r)
      PROVE  Agreed(engine') /\ Noticed(engine')
  <2> DEFINE e == [engine EXCEPT !.capturing = @ \ {<<i, r>>}]
             o == [e.o EXCEPT !.headSha = [e.o.headSha EXCEPT ![i] = r]]
             f == [e EXCEPT !.o = o]
  <2>1. /\ e \in Engine /\ e.o = engine.o /\ e.live = engine.live /\ e.file = engine.file
        /\ e.reclaiming = engine.reclaiming /\ e.closing = engine.closing
    BY <1>0 DEF Engine
  <2>2. engine.live /\ (engine' = e \/ engine' = Persist(f))
    <3>1. [e EXCEPT !.o.headSha[i] = r] = f  BY <2>1 DEF Engine, Ledger
    <3>2. engine.live  BY <1>6, <1>b DEF CaptureReturns
    <3> QED  BY <1>6, <3>1, <3>2, Zenon DEF CaptureReturns
  <2> HIDE DEF e
  <2>3. /\ o \in Ledger /\ o.status = engine.o.status /\ o.paused = engine.o.paused
        /\ o.completed = engine.o.completed
    BY <2>1 DEF Engine, Ledger
  <2> HIDE DEF o
  <2>4. /\ f \in Engine /\ f.o = o /\ f.live = engine.live /\ f.reclaiming = engine.reclaiming
        /\ f.closing = engine.closing
    BY <2>1, <2>3 DEF Engine
  <2> HIDE DEF f
  <2>5. Open(o) <=> Open(engine.o)  BY <2>3, OpenSame
  <2>6. CASE engine' = e
    <3>1. Agreed(e)  BY <1>b, <2>1, <2>2, AgreedSame
    <3> QED  BY <2>1, <2>6, <3>1 DEF Noticed
  <2>7. CASE engine' = Persist(f)
    <3>1. /\ Agreed(Persist(f)) /\ Persist(f).o = f.o /\ Persist(f).live = f.live
          /\ Persist(f).reclaiming = f.reclaiming
      BY <1>b, <2>2, <2>4, PersistAgreed
    <3> QED  BY <2>2, <2>4, <2>5, <2>7, <3>1 DEF Noticed
  <2> QED  BY <2>2, <2>6, <2>7
<1> QED  BY <1>1, <1>2, <1>3, <1>4, <1>5, <1>6 DEF PumpStep

\* A process that starts completes what its start settles; what was settled
\* before was completed, unless its last pump died in the reclaim or the process
\* before the save of the completion.
LEMMA RestartAgreed ==
    ASSUME IInv, Agreed(engine), Noticed(engine), Restart, RunIn # "shared", ~engine.closing
    PROVE  Agreed(engine') /\ Noticed(engine')
<1> DEFINE f == engine.file
           o == [f EXCEPT !.status = [i \in Items |-> SettledOnLoad(f, i)]]
<1>0. engine \in Engine  BY EngineFacts
<1>1. /\ engine'.file = f /\ engine'.capturing = {} /\ engine'.reclaiming = 0
      /\ engine'.closing = FALSE
      /\ f = NoFile => ~engine'.live
      /\ f # NoFile => engine'.live /\ engine'.o = Loaded(f)
  BY DEF Restart, Created
<1>2. CASE f = NoFile
  BY <1>1, <1>2 DEF Agreed, Noticed
<1>3. CASE f # NoFile
  <2>1. f \in Ledger  BY <1>0, <1>3 DEF Engine
  <2>2. ASSUME Open(f)  PROVE o = f /\ CrewAway
    <3>1. \A i \in Items : SettledOnLoad(f, i) = f.status[i]
      BY <2>2 DEF SettledOnLoad, Open, IsComplete, Settled
    <3>2. o = f  BY <2>1, <3>1 DEF Ledger
    <3>3. CrewAway
      BY <1>0, <1>3, <2>2 DEF Agreed, Noticed, Engine
    <3> QED  BY <3>2, <3>3
  <2>3. o.completed = f.completed /\ [o EXCEPT !.completed = TRUE].completed = TRUE
    BY <2>1 DEF Ledger
  <2> HIDE DEF f, o
  <2>4. Loaded(f) = IF o # f /\ IsComplete(o) THEN [o EXCEPT !.completed = TRUE] ELSE o
    BY DEF Loaded, o
  <2>5. Open(f) => Open(Loaded(f))  BY <2>2, <2>4
  <2>6. Open(Loaded(f)) => Open(f)  BY <2>3, <2>4 DEF Open
  <2> QED  BY <1>1, <1>3, <2>2, <2>5, <2>6 DEF Agreed, Noticed
<1> QED  BY <1>2, <1>3

\* Where the two agree and an end is noticed, they do after every step, as long
\* as no process dies between maybeComplete and its save.
EndNoticed == torn \/ (Agreed(engine) /\ Noticed(engine))
SurvivesRestart == RunIn # "shared" \/ "restart" \notin Happens

\* What has been torn stays so.
LEMMA TornStays == torn /\ [Next]_vars => torn'
<1> SUFFICES ASSUME torn, [Next]_vars PROVE torn'
  OBVIOUS
<1>1. CASE \/ \E picks \in SUBSET Items, keep \in BOOLEAN : ApproveBatch(picks, keep)
           \/ \E i \in Items : RejectItem(i) \/ RejectRun(i) \/ LandingUpdated(i)
           \/ AbortBatch \/ PauseBatch \/ ResumeBatch \/ RetryAny
           \/ DeleteBatch \/ DeleteForgotten
  BY <1>1 DEF ApproveBatch, RejectItem, RejectRun, LandingUpdated, AbortBatch, PauseBatch,
              ResumeBatch, RetryAny, Retry, DeleteBatch, DeleteForgotten, Idle
<1>2. CASE \/ ReclaimReturns \/ \E i \in Items : PumpStep(i)
           \/ \E i \in Items, r \in Runs : CaptureReturns(i, r)
  BY <1>2 DEF ReclaimReturns, PumpStep, ForkReturns, ForkFails, StartRunFails,
              StartRunReturns, CaptureReturns, Idle
<1>3. CASE \E r \in Runs : \/ RunLeavesStep(r) \/ RunResumes(r) \/ RunReruns(r)
                           \/ RunDeleted(r) \/ Checkpointed(r)
  BY <1>3 DEF RunLeavesStep, RunPauses, RunHeld, RunFinishes, RunAborts, RunResumes,
              RunReruns, RunGoes, RunDeleted, Checkpointed
<1>4. CASE CrewLeaves \/ CrewReturns \/ TreesVanish \/ SaveCompletion \/ Restart
           \/ UNCHANGED vars
  BY <1>4 DEF CrewLeaves, CrewReturns, TreesVanish, SaveCompletion, Restart, Idle, vars
<1> QED  BY <1>1, <1>2, <1>3, <1>4 DEF Next

\* The save of the completion makes the file agree again.
LEMMA SaveCompletionAgreed ==
    ASSUME engine \in Engine, Agreed(engine), SaveCompletion
    PROVE  Agreed(engine') /\ Noticed(engine')
<1> DEFINE p == Persist(engine)
<1>1. /\ p \in Engine /\ p.o = engine.o /\ p.file = engine.o /\ p.live = engine.live
      /\ p.capturing = engine.capturing /\ p.reclaiming = engine.reclaiming
  BY DEF Persist, Engine
<1>2. engine' = [p EXCEPT !.closing = FALSE] /\ ~Open(engine.o)
  BY DEF SaveCompletion, Agreed, Open
<1> HIDE DEF p
<1>3. /\ engine'.o = engine.o /\ engine'.file = engine.o /\ engine'.live = engine.live
      /\ engine'.capturing = engine.capturing /\ engine'.reclaiming = engine.reclaiming
      /\ engine'.closing = FALSE
  BY <1>1, <1>2 DEF Engine
<1> QED  BY <1>2, <1>3 DEF Agreed, Noticed

LEMMA NoticedInductive ==
    ASSUME SurvivesRestart  PROVE IInv /\ EndNoticed /\ [Next]_vars => EndNoticed'
<1> SUFFICES ASSUME IInv, EndNoticed, [Next]_vars, ~torn PROVE EndNoticed'
  BY TornStays DEF EndNoticed
<1>0. engine \in Engine /\ Agreed(engine) /\ Noticed(engine)
  BY EngineFacts DEF EndNoticed
<1>1. ASSUME Agreed(engine'), Noticed(engine'), UNCHANGED away  PROVE EndNoticed'
  BY <1>1 DEF EndNoticed, Agreed, Noticed, CrewAway
<1>2. CASE CrewReturns
  <2>1. engine' = PumpOnDuty(engine)  BY <1>2 DEF CrewReturns
  <2>2. Agreed(engine') /\ (engine'.live /\ Open(engine'.o) => engine'.reclaiming > 0)
    BY <1>0, <2>1, PumpAgreed
  <2> QED  BY <2>2 DEF EndNoticed, Agreed, Noticed
<1>3. CASE CrewLeaves
  BY <1>0, <1>3 DEF CrewLeaves, EndNoticed, Agreed, Noticed, CrewAway
<1>4. CASE Restart
  <2>1. RunIn # "shared"  BY <1>4 DEF SurvivesRestart, Restart
  <2>2. CASE engine.closing  BY <1>4, <2>2 DEF Restart, EndNoticed
  <2>3. CASE ~engine.closing
    BY <1>0, <1>1, <1>4, <2>1, <2>3, RestartAgreed DEF Restart
  <2> QED  BY <2>2, <2>3
<1>5. ASSUME NEW r \in Runs, RunLeavesStep(r) \/ RunResumes(r) \/ RunReruns(r)
      PROVE  EndNoticed'
  <2>1. PICK kind : engine' = OnRunUpdate(engine, r, kind) /\ UNCHANGED away
    BY <1>5 DEF RunLeavesStep, RunPauses, RunHeld, RunFinishes, RunAborts, RunResumes,
                RunReruns, RunGoes
  <2> QED  BY <1>0, <1>1, <2>1, OnRunUpdateAgreed
<1>6. CASE (\E r \in Runs : RunDeleted(r) \/ Checkpointed(r)) \/ TreesVanish \/ UNCHANGED vars
  <2>1. UNCHANGED <<engine, away>>
    BY <1>6 DEF RunDeleted, Checkpointed, TreesVanish, vars
  <2> QED  BY <1>0, <1>1, <2>1
<1>7. CASE \/ \E picks \in SUBSET Items, keep \in BOOLEAN : ApproveBatch(picks, keep)
           \/ \E i \in Items : RejectItem(i) \/ RejectRun(i) \/ LandingUpdated(i)
           \/ AbortBatch \/ PauseBatch \/ ResumeBatch \/ RetryAny
           \/ DeleteBatch \/ DeleteForgotten
  <2>1. UNCHANGED away
    BY <1>7 DEF ApproveBatch, RejectItem, RejectRun, LandingUpdated, AbortBatch, PauseBatch,
                ResumeBatch, RetryAny, Retry, DeleteBatch, DeleteForgotten, Idle
  <2> QED  BY <1>0, <1>1, <1>7, <2>1, PeopleAgreed
<1>8. CASE \/ ReclaimReturns \/ \E i \in Items : PumpStep(i)
           \/ \E i \in Items, r \in Runs : CaptureReturns(i, r)
  <2>1. UNCHANGED away
    BY <1>8 DEF ReclaimReturns, PumpStep, ForkReturns, ForkFails, StartRunFails,
                StartRunReturns, CaptureReturns, Idle
  <2> QED  BY <1>0, <1>1, <1>8, <2>1, PromisesAgreed
<1>9. CASE SaveCompletion
  BY <1>0, <1>1, <1>9, SaveCompletionAgreed DEF SaveCompletion, Idle
<1> QED  BY <1>2, <1>3, <1>4, <1>5, <1>6, <1>7, <1>8, <1>9 DEF Next

\* A batch is not over when it is created.
LEMMA NoticedAtFirst == Init => EndNoticed
<1> SUFFICES ASSUME Init PROVE EndNoticed
  OBVIOUS
<1>1. PICK auto \in 0..N :
         engine = IF auto > 0 THEN Pump(Persist(Created(auto))) ELSE Persist(Created(auto))
  BY Zenon DEF Init
<1> DEFINE e == Created(auto)
<1>2. /\ e \in Engine /\ e.live /\ e.reclaiming = 0 /\ e.capturing = {} /\ ~e.closing
      /\ \A i \in Items : e.o.status[i] \notin Settled
  BY DEF Created, Engine, Ledger, ItemStatus, Settled
<1> HIDE DEF e
<1>3. 1 \in Items  BY SizeAssumption DEF Items
<1>4. ~Open(e.o)  BY <1>2, <1>3 DEF Open, IsComplete
<1>5. Persist(e) \in Engine /\ Agreed(Persist(e)) /\ Noticed(Persist(e))
  BY <1>2, <1>4, PersistAgreed DEF Noticed
<1> QED  BY <1>1, <1>5, PumpAgreed DEF EndNoticed, e

\* The ledger notices the end of a batch nothing holds back, whatever was
\* rejected, aborted, retried or lost with the process, until one dies between
\* the save of a batch's last item and the save of its completion; and as long as
\* none dies while the last pump of a shared batch waits for its branch.
THEOREM EndIsNoticed == ASSUME SurvivesRestart  PROVE Spec => []CompletionDetected
<1>1. IInv /\ EndNoticed => CompletionDetected
  BY EngineFacts DEF EndNoticed, Noticed, Open, CompletionDetected, Engine, Ledger
<1>2. (IInv /\ EndNoticed) /\ [Next]_vars => (IInv /\ EndNoticed)'
  BY Inductive, NoticedInductive
<1> QED  BY <1>1, <1>2, InitIInv, NoticedAtFirst, PTL DEF Spec
=============================================================================
