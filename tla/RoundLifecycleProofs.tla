------------------------- MODULE RoundLifecycleProofs -------------------------
(***************************************************************************)
(* The executor reaches the planner only through its operations, so that   *)
(* what is proved of the planner holds of a round driven by the executor,  *)
(* through every lost request, restart and reclaimed worker.  Then the     *)
(* types of the composition, and what holds of the executor's record while *)
(* nothing is lost.                                                        *)
(***************************************************************************)
EXTENDS RoundLifecycle, PlannerProofs

(* A close, however the client sees it, is a finish or touches nothing.    *)
LEMMA CloseCallSteps ==
  ASSUME NEW c, NEW status \in {"done", "failed"}, NEW outcome,
         CloseCall(c, status, outcome)
  PROVE  [Next]_vars
<1>1. Finish(c, status) \/ UNCHANGED vars
  BY DEF CloseCall
<1>2. ASSUME Finish(c, status) PROVE Next
  <2>1. c \in CycleIds
    BY <1>2 DEF Finish, Opened
  <2> QED BY <1>2, <2>1 DEF Next
<1> QED BY <1>1, <1>2

LEMMA AnsweredSteps ==
  ASSUME NEW h \in Handlers, NEW answers, Answered(h, answers)
  PROVE  Next
BY DEF Answered, Next

LEMMA UnreachableSteps == Unreachable => UNCHANGED vars
BY DEF Unreachable, NeverSent, GivenUp, CutOff

(* Every step of the composition is a step of the planner or leaves it.    *)
LEMMA LifecycleSteps == [LifecycleNext]_lifecycle => [Next]_vars
<1> SUFFICES ASSUME [LifecycleNext]_lifecycle PROVE [Next]_vars
  OBVIOUS
<1>1. ASSUME NEW h \in Handlers, Start(h) \/ ChargeRecord(h) \/ Serve(h) \/ Deliver(h)
      PROVE  Next
  BY <1>1 DEF Next
<1>2. ASSUME NEW h \in Handlers, NEW c, Widen(h, c) \/ YieldBump(h, c) PROVE Next
  <2>1. c \in CycleIds
    BY <1>2 DEF Widen, YieldBump, Opened
  <2> QED BY <1>2, <2>1 DEF Next
<1>3. CASE Run \/ QueriesDone \/ Read \/ Throws \/ Wake \/ Reclaimed \/ HoldEnds
  BY <1>3 DEF Run, QueriesDone, Read, Throws, Wake, Reclaimed, HoldEnds
<1>4. CASE ResolveOrphan \/ Settle \/ WakeResolves
  BY <1>4, CloseCallSteps DEF ResolveOrphan, Settle, WakeResolves
<1>5. CASE Drive
  BY <1>5, <1>1 DEF Drive
<1>6. CASE TakePlan \/ NoPlan \/ QueryAnswered \/ WidenAnswered \/ ScreenAnswered
  BY <1>6, AnsweredSteps, UnreachableSteps
     DEF TakePlan, NoPlan, QueryAnswered, WidenAnswered, ScreenAnswered
<1>7. CASE Query \/ WidenAsk
  BY <1>7, <1>2 DEF Query, WidenAsk
<1>8. CASE Screen
  BY <1>8, <1>1 DEF Screen
<1>9. CASE Api \/ Drop
  BY <1>9, <1>1 DEF Api, Drop
<1>10. CASE ApiRestarts
  BY <1>10 DEF ApiRestarts, Next
<1>11. CASE Surroundings
  BY <1>11, <1>3 DEF Surroundings, Next
<1>12. CASE UNCHANGED lifecycle
  BY <1>12 DEF lifecycle, vars
<1> QED
  BY <1>3, <1>4, <1>5, <1>6, <1>7, <1>8, <1>9, <1>10, <1>11, <1>12
     DEF LifecycleNext, Executor

(* The composition implements the planner it is built on.                  *)
THEOREM LifecycleImplementsPlanner == LifecycleSpec => Spec
<1>1. LifecycleInit => Init
  BY DEF LifecycleInit
<1> QED BY <1>1, LifecycleSteps, PTL DEF LifecycleSpec, Spec

(* However the executor is cut off, a round widens at most as often as the *)
(* settings say, and once more for each other request being served.        *)
THEOREM DrivenRoundsWidenBoundedly == LifecycleSpec => []WideningBounded
BY LifecycleImplementsPlanner, WideningIsBounded, PTL

(* Neither the executor's own close, nor the wake's, nor a late answer     *)
(* rewrites the end of a round.                                            *)
THEOREM DrivenClosesAreFinal == LifecycleSpec => ClosedIsFinal
BY LifecycleImplementsPlanner, ClosesAreFinal, PTL

-----------------------------------------------------------------------------
(* Types.                                                                  *)

(* A run widens only while it has a widening left (Wants).                 *)
WidensInBounds == worker.at = "widening" => worker.widened < MaxWideningSteps

LifecycleTypeInv == LifecycleTypeOK /\ WidensInBounds

(* The fields of a run have their types, and it awaits one request at most.*)
LEMMA WorkerFields ==
  ASSUME LifecycleTypeOK
  PROVE  /\ worker.at \in Places /\ worker.slot \in SUBSET Handlers
         /\ worker.cycle \in 0 .. MaxCycles /\ worker.left \in 0 .. MaxQueries
         /\ worker.widened \in 0 .. MaxWideningSteps
         /\ worker.stop \in {"no", "stop", "down"} /\ worker.blocked \in BOOLEAN
         /\ Cardinality(worker.slot) <= 1
BY DEF LifecycleTypeOK, Workers

(* Awaiting nothing, or one request, is awaiting one at most.              *)
LEMMA SlotSizes ==
  /\ Cardinality({}) <= 1
  /\ \A h : Cardinality({h}) <= 1
BY FS_EmptySet, FS_Singleton

(* Going on keeps the run typed, whatever it stops for (GotoStopped).      *)
LEMMA GotoTyped ==
  ASSUME LifecycleTypeOK, NEW place \in Places,
         NEW stop \in {"no", "stop", "down"}, NEW blocked \in BOOLEAN
  PROVE  /\ Goto(place) =>
              /\ worker' \in Workers /\ Cardinality(worker'.slot) <= 1
              /\ worker'.at = place /\ worker'.widened = worker.widened
         /\ GotoStopped(place, stop, blocked) =>
              /\ worker' \in Workers /\ Cardinality(worker'.slot) <= 1
              /\ worker'.at = place
<1>1. worker.blocked \/ blocked \in BOOLEAN
  OBVIOUS
<1>2. ASSUME Goto(place)
      PROVE  /\ worker' \in Workers /\ Cardinality(worker'.slot) <= 1
             /\ worker'.at = place /\ worker'.widened = worker.widened
  BY <1>2 DEF LifecycleTypeOK, Workers, Goto
<1>3. ASSUME GotoStopped(place, stop, blocked)
      PROVE  /\ worker' \in Workers /\ Cardinality(worker'.slot) <= 1 /\ worker'.at = place
  <2> DEFINE b == worker.blocked \/ blocked
  <2>1. worker' = [worker EXCEPT !.at = place, !.slot = {}, !.stop = stop, !.blocked = b]
    BY <1>3 DEF GotoStopped, LifecycleTypeOK, Workers
  <2>2. b \in BOOLEAN
    BY <1>1
  <2> HIDE DEF b
  <2> QED BY <2>1, <2>2, SlotSizes DEF LifecycleTypeOK, Workers
<1> QED BY <1>2, <1>3

(* What LifecycleTypeInv says of the executor.                             *)
ExecutorTyped ==
  /\ worker \in Workers /\ Cardinality(worker.slot) <= 1
  /\ record \in 0 .. MaxCycles /\ wake \in 0 .. MaxCycles
  /\ held \in BOOLEAN
  /\ faults \in 0 .. MaxFaults
  /\ WidensInBounds

LEMMA FaultsTyped ==
  ASSUME LifecycleTypeOK, Fault \/ UNCHANGED faults
  PROVE  faults' \in 0 .. MaxFaults
BY LifecycleAssumption DEF LifecycleTypeOK, Fault

LEMMA CallsFault ==
  /\ Unreachable => Fault \/ UNCHANGED faults
  /\ \A c, status, outcome : CloseCall(c, status, outcome) => Fault \/ UNCHANGED faults
BY DEF Unreachable, NeverSent, GivenUp, CutOff, CloseCall

(* A worker that was reclaimed, or has settled, is typed. *)
LEMMA AsleepTyped == Asleep \in Workers /\ Cardinality(Asleep.slot) <= 1 /\ Asleep.at = "asleep"
<1>1. 0 \in 0 .. MaxCycles /\ 0 \in 0 .. MaxQueries /\ 0 \in 0 .. MaxWideningSteps
  BY PlannerAssumption, LifecycleAssumption
<1> QED BY <1>1, SlotSizes DEF Asleep, Workers, Places

(* The round an answer names is a round, or none. *)
LEMMA NamedRound ==
  ASSUME LifecycleTypeOK, NEW h \in Handlers
  PROVE  op[h].cycle \in 0 .. MaxCycles
BY DEF LifecycleTypeOK, TypeOK, Ops

LEMMA ExecutorTypeStep ==
  ASSUME LifecycleTypeInv, Run \/ Executor
  PROVE  ExecutorTyped'
<1> USE DEF LifecycleTypeInv
<1>f. /\ worker \in Workers /\ worker.at \in Places /\ worker.slot \in SUBSET Handlers
      /\ worker.cycle \in 0 .. MaxCycles /\ worker.left \in 0 .. MaxQueries
      /\ worker.widened \in 0 .. MaxWideningSteps
      /\ worker.stop \in {"no", "stop", "down"} /\ worker.blocked \in BOOLEAN
      /\ Cardinality(worker.slot) <= 1
      /\ record \in 0 .. MaxCycles /\ wake \in 0 .. MaxCycles /\ held \in BOOLEAN
      /\ faults \in 0 .. MaxFaults
  BY WorkerFields DEF LifecycleTypeOK
<1>n. /\ 0 \in 0 .. MaxCycles /\ MaxQueries \in 0 .. MaxQueries /\ 1 \in 0 .. MaxQueries
      /\ MaxQueries \in Nat /\ MaxWideningSteps \in Nat
  BY PlannerAssumption, LifecycleAssumption
<1>1. CASE Run
  BY <1>1, <1>f, GotoTyped DEF Run, ExecutorTyped, WidensInBounds, Places
<1>2. CASE ResolveOrphan
  <2>1. faults' \in 0 .. MaxFaults
    BY <1>2, FaultsTyped, CallsFault DEF ResolveOrphan
  <2> QED BY <1>2, <1>f, <1>n, <2>1, GotoTyped DEF ResolveOrphan, ExecutorTyped, WidensInBounds, Places
<1>3. CASE Drive
  <2>1. CASE Goto("settling")
    BY <1>3, <1>f, <2>1, GotoTyped DEF Drive, ExecutorTyped, WidensInBounds, Places
  <2>2. ASSUME NEW h \in Handlers, worker' = [worker EXCEPT !.at = "planning", !.slot = {h}]
        PROVE  ExecutorTyped'
    <3>1. worker' \in Workers /\ worker'.slot = {h} /\ worker'.at = "planning"
      BY <2>2, <1>f DEF Workers, Places
    <3> QED BY <1>3, <1>f, <3>1, SlotSizes DEF Drive, ExecutorTyped, WidensInBounds
  <2> QED BY <1>3, <2>1, <2>2 DEF Drive
<1>4. CASE TakePlan
  <2>1. PICK h \in Handlers :
          /\ worker' = [worker EXCEPT !.at = "harvest", !.slot = {}, !.cycle = op[h].cycle,
                                      !.left = MaxQueries]
          /\ record' = op[h].cycle
    BY <1>4 DEF TakePlan
  <2>2. op[h].cycle \in 0 .. MaxCycles
    BY NamedRound
  <2>3. worker' \in Workers /\ worker'.slot = {} /\ worker'.at = "harvest"
    BY <2>1, <2>2, <1>f, <1>n DEF Workers, Places
  <2> QED BY <1>4, <1>f, <2>1, <2>2, <2>3, SlotSizes DEF TakePlan, ExecutorTyped, WidensInBounds
<1>5. CASE NoPlan
  <2>1. faults' \in 0 .. MaxFaults
    BY <1>5, FaultsTyped, CallsFault DEF NoPlan
  <2> QED BY <1>5, <1>f, <2>1, GotoTyped DEF NoPlan, ExecutorTyped, WidensInBounds, Places
<1>6. CASE Query
  <2>1. worker.left - 1 \in 0 .. MaxQueries
    <3>1. worker.left > 0
      BY <1>6 DEF Query
    <3> QED BY <3>1, <1>f, <1>n
  <2>2. ASSUME worker' = [worker EXCEPT !.left = worker.left - 1], held' = held
        PROVE  ExecutorTyped'
    <3>1. /\ worker' \in Workers /\ worker'.slot = worker.slot
          /\ worker'.at = worker.at
      BY <2>1, <2>2, <1>f DEF Workers
    <3> QED BY <1>6, <1>f, <2>2, <3>1 DEF Query, ExecutorTyped, WidensInBounds
  <2>3. ASSUME NEW h \in Handlers, held' = held,
               worker' = [worker EXCEPT !.left = worker.left - 1, !.slot = {h}]
        PROVE  ExecutorTyped'
    <3>1. worker' \in Workers /\ worker'.slot = {h} /\ worker'.at = worker.at
      BY <2>1, <2>3, <1>f DEF Workers
    <3> QED BY <1>6, <1>f, <2>3, <3>1, SlotSizes DEF Query, ExecutorTyped, WidensInBounds
  <2>4. ASSUME GotoStopped("harvest", "stop", TRUE), held' \in {held, TRUE}
        PROVE  ExecutorTyped'
    BY <1>6, <1>f, <2>4, GotoTyped DEF Query, ExecutorTyped, WidensInBounds, Places
  <2> QED BY <1>6, <2>2, <2>3, <2>4 DEF Query
<1>7. CASE QueryAnswered
  <2>1. faults' \in 0 .. MaxFaults
    BY <1>7, FaultsTyped, CallsFault DEF QueryAnswered
  <2>2. ASSUME worker' = [worker EXCEPT !.slot = {}] PROVE ExecutorTyped'
    <3>1. worker' \in Workers /\ worker'.slot = {} /\ worker'.at = worker.at
      BY <2>2, <1>f DEF Workers
    <3> QED BY <1>7, <1>f, <2>1, <3>1, SlotSizes DEF QueryAnswered, ExecutorTyped, WidensInBounds
  <2>3. ASSUME NEW stop \in {"stop", "down"}, NEW blocked \in BOOLEAN,
               GotoStopped("harvest", stop, blocked)
        PROVE  ExecutorTyped'
    BY <1>7, <1>f, <2>1, <2>3, GotoTyped DEF QueryAnswered, ExecutorTyped, WidensInBounds, Places
  <2> QED BY <1>7, <2>2, <2>3 DEF QueryAnswered
<1>8. CASE QueriesDone
  <2>1. ASSUME Wants, Goto("widening") PROVE ExecutorTyped'
    BY <1>8, <1>f, <2>1, GotoTyped DEF QueriesDone, ExecutorTyped, WidensInBounds, Places, Wants
  <2>2. ASSUME NEW place \in {"reading", "screening"}, Goto(place) PROVE ExecutorTyped'
    BY <1>8, <1>f, <2>2, GotoTyped DEF QueriesDone, ExecutorTyped, WidensInBounds, Places
  <2> QED BY <1>8, <2>1, <2>2 DEF QueriesDone
<1>9. CASE WidenAsk
  <2>1. PICK h \in Handlers : worker' = [worker EXCEPT !.slot = {h}]
    BY <1>9 DEF WidenAsk
  <2>2. /\ worker' \in Workers /\ worker'.slot = {h} /\ worker'.at = worker.at
        /\ worker'.widened = worker.widened
    BY <2>1, <1>f DEF Workers
  <2> QED BY <1>9, <1>f, <2>2, SlotSizes DEF WidenAsk, ExecutorTyped, WidensInBounds
<1>10. CASE WidenAnswered
  <2>1. faults' \in 0 .. MaxFaults
    BY <1>10, FaultsTyped, CallsFault DEF WidenAnswered
  <2>2. ASSUME worker' = [worker EXCEPT !.at = "harvest", !.slot = {},
                                        !.widened = worker.widened + 1, !.left = 1]
        PROVE ExecutorTyped'
    <3>1. worker.widened + 1 \in 0 .. MaxWideningSteps
      BY <1>10, <1>f, <1>n DEF WidenAnswered, WidensInBounds
    <3>2. worker' \in Workers /\ worker'.slot = {} /\ worker'.at = "harvest"
      BY <2>2, <3>1, <1>f, <1>n DEF Workers, Places
    <3> QED BY <1>10, <1>f, <2>1, <3>2, SlotSizes DEF WidenAnswered, ExecutorTyped, WidensInBounds
  <2>3. ASSUME NEW place \in {"screening", "reading"}, NEW stop \in {"stop", "down"},
               GotoStopped(place, stop, FALSE)
        PROVE  ExecutorTyped'
    BY <1>10, <1>f, <2>1, <2>3, GotoTyped DEF WidenAnswered, ExecutorTyped, WidensInBounds, Places
  <2> QED BY <1>10, <2>2, <2>3 DEF WidenAnswered
<1>11. CASE Screen
  <2>1. ASSUME Goto(AfterScreening) PROVE ExecutorTyped'
    <3>1. AfterScreening \in Places /\ AfterScreening # "widening"
      BY DEF AfterScreening, Places
    <3> QED BY <1>11, <1>f, <2>1, <3>1, GotoTyped DEF Screen, ExecutorTyped, WidensInBounds
  <2>2. ASSUME NEW h \in Handlers, worker' = [worker EXCEPT !.slot = {h}] PROVE ExecutorTyped'
    <3>1. worker' \in Workers /\ worker'.slot = {h} /\ worker'.at = worker.at
      BY <2>2, <1>f DEF Workers
    <3> QED BY <1>11, <1>f, <3>1, SlotSizes DEF Screen, ExecutorTyped, WidensInBounds
  <2> QED BY <1>11, <2>1, <2>2 DEF Screen
<1>12. CASE ScreenAnswered
  <2>1. faults' \in 0 .. MaxFaults
    BY <1>12, FaultsTyped, CallsFault DEF ScreenAnswered
  <2>2. AfterScreening \in Places /\ AfterScreening # "widening"
    BY DEF AfterScreening, Places
  <2>3. worker' \in Workers /\ worker'.slot = {} /\ worker'.at = AfterScreening
    BY <1>12, <2>2, <1>f DEF ScreenAnswered, Workers
  <2> QED BY <1>12, <1>f, <2>1, <2>2, <2>3, SlotSizes DEF ScreenAnswered, ExecutorTyped, WidensInBounds
<1>13. CASE Read
  BY <1>13, <1>f, GotoTyped DEF Read, ExecutorTyped, WidensInBounds, Places
<1>14. CASE Throws
  BY <1>14, <1>f, GotoTyped DEF Throws, ExecutorTyped, WidensInBounds, Places
<1>15. CASE Settle
  <2>1. faults' \in 0 .. MaxFaults
    BY <1>15, FaultsTyped, CallsFault DEF Settle
  <2> QED BY <1>15, <1>f, <1>n, <2>1, AsleepTyped DEF Settle, ExecutorTyped, WidensInBounds
<1> QED
  BY <1>1, <1>2, <1>3, <1>4, <1>5, <1>6, <1>7, <1>8, <1>9, <1>10, <1>11, <1>12, <1>13, <1>14, <1>15
     DEF Executor

LEMMA ExecutorTypedAround ==
  ASSUME LifecycleTypeInv, [LifecycleNext]_lifecycle
  PROVE  ExecutorTyped'
<1>t. ExecutorTyped /\ 0 \in 0 .. MaxCycles
  BY PlannerAssumption DEF LifecycleTypeInv, LifecycleTypeOK, ExecutorTyped
<1>2. CASE Run \/ Executor
  BY <1>2, ExecutorTypeStep
<1>3. CASE Wake
  BY <1>3, <1>t DEF Wake, ExecutorTyped, WidensInBounds
<1>4. CASE WakeResolves
  <2>1. faults' \in 0 .. MaxFaults
    BY <1>4, FaultsTyped, CallsFault DEF WakeResolves, LifecycleTypeInv
  <2> QED BY <1>4, <1>t, <2>1 DEF WakeResolves, ExecutorTyped, WidensInBounds
<1>5. CASE Reclaimed
  <2>1. faults' \in 0 .. MaxFaults
    BY <1>5, FaultsTyped DEF Reclaimed, LifecycleTypeInv
  <2> QED BY <1>5, <1>t, <2>1, AsleepTyped DEF Reclaimed, ExecutorTyped, WidensInBounds
<1>6. CASE Api \/ Drop \/ Surroundings \/ UNCHANGED lifecycle
  BY <1>6, <1>t DEF Api, Drop, Surroundings, HoldEnds, lifecycle, executor, ExecutorTyped, WidensInBounds
<1>7. CASE ApiRestarts
  <2>1. faults' \in 0 .. MaxFaults
    BY <1>7, FaultsTyped DEF ApiRestarts, LifecycleTypeInv
  <2> QED BY <1>7, <1>t, <2>1 DEF ApiRestarts, ExecutorTyped, WidensInBounds
<1> QED
  BY <1>2, <1>3, <1>4, <1>5, <1>6, <1>7 DEF LifecycleNext

LEMMA LifecycleTypeStep ==
  LifecycleTypeInv /\ [LifecycleNext]_lifecycle => LifecycleTypeInv'
<1> SUFFICES ASSUME LifecycleTypeInv, [LifecycleNext]_lifecycle PROVE LifecycleTypeInv'
  OBVIOUS
<1>1. TypeOK'
  BY LifecycleSteps, TypeStep DEF LifecycleTypeInv, LifecycleTypeOK
<1>2. ExecutorTyped'
  BY ExecutorTypedAround
<1> QED BY <1>1, <1>2 DEF LifecycleTypeInv, LifecycleTypeOK, ExecutorTyped

(* The tables of the planner and the memory of the executor keep their     *)
(* types through every lost request, restart and reclaimed worker, and a   *)
(* run never widens more often than the settings say.                      *)
THEOREM LifecycleTypeCorrect == LifecycleSpec => []LifecycleTypeOK
<1>1. LifecycleInit => LifecycleTypeInv
  <2> SUFFICES ASSUME LifecycleInit PROVE LifecycleTypeInv
    OBVIOUS
  <2>1. TypeOK
    BY TypeInit DEF LifecycleInit
  <2>2. 0 \in 0 .. MaxCycles /\ 0 \in 0 .. MaxFaults
    BY PlannerAssumption, LifecycleAssumption
  <2> QED BY <2>1, <2>2, AsleepTyped
          DEF LifecycleInit, LifecycleTypeInv, LifecycleTypeOK, WidensInBounds
<1>2. LifecycleTypeInv => LifecycleTypeOK
  BY DEF LifecycleTypeInv
<1> QED BY <1>1, <1>2, LifecycleTypeStep, PTL DEF LifecycleSpec

-----------------------------------------------------------------------------
(* While nothing is lost.  The executor awaits every request it makes, so  *)
(* one request is being served at most, and what this request and the run  *)
(* that awaits it know of the open rounds stays true.                      *)

StartPhases ==
  {"start.expired", "start.planning", "start.answered", "start.emptied", "start.noting"}

(* The request has read, opened or answered the round it names. *)
Names(h) ==
  \/ op[h].phase \in {"start.expired", "start.emptied", "start.noting"}
  \/ op[h].phase = "replied" /\ op[h].answer \in {"planned", "resumed"}

(* What a request that is served alone knows of the open rounds. *)
KnowsRounds(h) ==
  /\ op[h].phase \in {"start.planning", "start.answered"} => Open = {}
  /\ Names(h) => Open \subseteq {op[h].cycle}

OneOpen == \A c, d \in Open : c = d

RequestInv(h) ==
  /\ (h \in worker.slot) <=> ~At(h, "idle")
  /\ op[h].phase \in StartPhases => worker.at = "planning"
  /\ KnowsRounds(h)

RunInv ==
  /\ wake = 0 /\ record = worker.cycle
  /\ worker.at \in {"asleep", "orphan", "drive", "reading", "settling"} => worker.slot = {}
  /\ worker.at \in {"asleep", "orphan", "drive", "planning"} => worker.cycle = 0
  /\ worker.cycle # 0 => Open \subseteq {worker.cycle}
  /\ OneOpen

FaultFreeInv == faults = 0 => RunInv /\ \A h \in Handlers : RequestInv(h)

(* The fields of an answer (Reply). *)
LEMMA ReplyFields ==
  ASSUME op \in [Handlers -> Ops], NEW h \in Handlers, NEW c, NEW a, Reply(h, c, a)
  PROVE  /\ op'[h].phase = "replied" /\ op'[h].cycle = c /\ op'[h].answer = a
         /\ \A g \in Handlers \ {h} : op'[g] = op[g]
<1>1. /\ [Idle EXCEPT !.phase = "replied", !.cycle = c, !.answer = a].phase = "replied"
      /\ [Idle EXCEPT !.phase = "replied", !.cycle = c, !.answer = a].cycle = c
      /\ [Idle EXCEPT !.phase = "replied", !.cycle = c, !.answer = a].answer = a
  BY DEF Idle
<1> QED BY <1>1 DEF Reply

(* A request moved to a phase that knows nothing of the rounds, or         *)
(* answered without a round, has nothing to be wrong about.                *)
LEMMA KnowsNothing ==
  ASSUME op \in [Handlers -> Ops], NEW h \in Handlers,
         \/ \E c, a : Reply(h, c, a) /\ a \notin {"planned", "resumed"}
         \/ \E c, p : Go(h, c, p) /\ p \notin StartPhases \cup {"replied"}
  PROVE  /\ KnowsRounds(h)' /\ op'[h].phase \notin StartPhases
         /\ \A g \in Handlers \ {h} : op'[g] = op[g]
<1>1. ASSUME NEW c, NEW a, Reply(h, c, a), a \notin {"planned", "resumed"}
      PROVE  /\ KnowsRounds(h)' /\ op'[h].phase \notin StartPhases
             /\ \A g \in Handlers \ {h} : op'[g] = op[g]
  <2>1. /\ op'[h].phase = "replied" /\ op'[h].answer \notin {"planned", "resumed"}
        /\ \A g \in Handlers \ {h} : op'[g] = op[g]
    BY <1>1, ReplyFields
  <2> QED BY <2>1 DEF KnowsRounds, Names, StartPhases
<1>2. ASSUME NEW c, NEW p, Go(h, c, p), p \notin StartPhases \cup {"replied"}
      PROVE  /\ KnowsRounds(h)' /\ op'[h].phase \notin StartPhases
             /\ \A g \in Handlers \ {h} : op'[g] = op[g]
  <2>1. op'[h].phase = p /\ \A g \in Handlers \ {h} : op'[g] = op[g]
    BY <1>2, PhaseAfter
  <2> QED BY <1>2, <2>1 DEF KnowsRounds, Names, StartPhases
<1> QED BY <1>1, <1>2

LEMMA ReplyAwake ==
  ASSUME op \in [Handlers -> Ops], NEW h \in Handlers,
         \/ \E c, a : Reply(h, c, a)
         \/ \E c, p : Go(h, c, p) /\ p # "idle"
  PROVE  op'[h].phase # "idle"
<1>1. ASSUME NEW c, NEW a, Reply(h, c, a)
      PROVE  op'[h].phase # "idle"
  <2>1. op'[h].phase = "replied"
    BY <1>1, ReplyFields
  <2> QED BY <2>1
<1>2. ASSUME NEW c, NEW p, Go(h, c, p), p # "idle"
      PROVE  op'[h].phase # "idle"
  <2>1. op'[h].phase = p
    BY <1>2, PhaseAfter
  <2> QED BY <1>2, <2>1
<1> QED BY <1>1, <1>2

(* A refusal is not a plan. *)
LEMMA RefusalIsNoPlan ==
  ASSUME NEW h, GateRefuses(h)
  PROVE  \E c, a : Reply(h, c, a) /\ a \notin {"planned", "resumed"}
<1>1. PICK i \in 1 .. 5 : Reply(h, 0, GateOrder[i])
  BY DEF GateRefuses
<1>2. GateOrder[i] \notin {"planned", "resumed"}
  BY DEF GateOrder
<1> QED BY <1>1, <1>2

(* Start reads the rounds it answers or plans for. *)
LEMMA StartKnows ==
  ASSUME TypeOK, OneOpen, NEW h \in Handlers, Start(h)
  PROVE  /\ KnowsRounds(h)' /\ op'[h].phase # "idle" /\ Open' = Open /\ OneOpen'
         /\ \A g \in Handlers \ {h} : op'[g] = op[g]
<1>t. op \in [Handlers -> Ops]
  BY DEF TypeOK
<1>1. Open' = Open
  BY DEF Start, Open
<1>2. OneOpen'
  BY <1>1 DEF OneOpen
<1>3. CASE GateRefuses(h)
  BY <1>1, <1>2, <1>3, <1>t, RefusalIsNoPlan, KnowsNothing, ReplyAwake
<1>4. CASE Open = {} /\ Go(h, 0, "start.planning")
  <2>1. op'[h].phase = "start.planning" /\ \A g \in Handlers \ {h} : op'[g] = op[g]
    BY <1>4, <1>t, PhaseAfter
  <2>2. Open' = {}
    BY <1>1, <1>4
  <2> QED BY <1>1, <1>2, <2>1, <2>2 DEF KnowsRounds, Names
<1>5. ASSUME NEW c \in Open, Go(h, c, "start.expired") \/ Reply(h, c, "resumed")
      PROVE  /\ KnowsRounds(h)' /\ op'[h].phase # "idle"
             /\ \A g \in Handlers \ {h} : op'[g] = op[g]
  <2>1. /\ op'[h].phase \in {"start.expired", "replied"} /\ op'[h].cycle = c
        /\ \A g \in Handlers \ {h} : op'[g] = op[g]
    BY <1>5, <1>t, PhaseAfter, ReplyFields
  <2>2. Open' \subseteq {c}
    BY <1>1 DEF OneOpen
  <2> QED BY <2>1, <2>2 DEF KnowsRounds, Names
<1> QED BY <1>1, <1>2, <1>3, <1>4, <1>5 DEF Start

(* What a request knows of the rounds stays true while it alone is served. *)
LEMMA ServeKnows ==
  ASSUME TypeOK, OneOpen, NEW h \in Handlers, KnowsRounds(h), Serve(h)
  PROVE  /\ KnowsRounds(h)' /\ OneOpen'
         /\ op[h].phase # "idle" /\ op'[h].phase # "idle"
         /\ op'[h].phase \in StartPhases => op[h].phase \in StartPhases
         /\ Open' \subseteq Open \/ op[h].phase \in StartPhases
         /\ \A g \in Handlers \ {h} : op'[g] = op[g]
<1> DEFINE Goal == /\ KnowsRounds(h)' /\ OneOpen'
                   /\ op[h].phase # "idle" /\ op'[h].phase # "idle"
                   /\ op'[h].phase \in StartPhases => op[h].phase \in StartPhases
                   /\ Open' \subseteq Open \/ op[h].phase \in StartPhases
                   /\ \A g \in Handlers \ {h} : op'[g] = op[g]
<1>t. op \in [Handlers -> Ops] /\ cycles \in [CycleIds -> Rows]
  BY DEF TypeOK
<1>u. ASSUME UNCHANGED cycles PROVE Open' = Open
  BY <1>u DEF Open
<1>q. ASSUME op[h].phase # "idle", Open' \subseteq Open,
             \/ \E c, a : Reply(h, c, a) /\ a \notin {"planned", "resumed"}
             \/ \E c, p : Go(h, c, p) /\ p \notin StartPhases \cup {"replied", "idle"}
      PROVE  Goal
  <2>1. op'[h].phase # "idle"
    BY <1>q, <1>t, ReplyAwake
  <2>2. OneOpen'
    BY <1>q DEF OneOpen
  <2> QED BY <1>q, <1>t, <2>1, <2>2, KnowsNothing
<1>1. CASE StartExpire(h)
  <2>1. Open' \subseteq Open \ {op[h].cycle}
    BY <1>1, CloseShrinks DEF StartExpire
  <2>2. Open' = {} /\ op[h].phase = "start.expired"
    BY <1>1, <2>1 DEF StartExpire, At, KnowsRounds, Names
  <2>3. op'[h].phase = "start.planning" /\ \A g \in Handlers \ {h} : op'[g] = op[g]
    BY <1>1, <1>t, PhaseAfter DEF StartExpire
  <2> QED BY <2>2, <2>3 DEF KnowsRounds, Names, OneOpen, StartPhases
<1>2. CASE ModelFails(h) \/ AnswerUnreadable(h) \/ YieldCheck(h)
  <2>1. \E c, a : Reply(h, c, a) /\ a \notin {"planned", "resumed"}
    BY <1>2 DEF ModelFails, AnswerUnreadable, YieldCheck
  <2>2. op[h].phase # "idle" /\ UNCHANGED cycles
    BY <1>2 DEF ModelFails, AnswerUnreadable, YieldCheck, At
  <2> QED BY <1>q, <1>u, <2>1, <2>2
<1>3. CASE ModelAnswers(h)
  <2>0. Open' = Open
    BY <1>3, <1>u DEF ModelAnswers
  <2>1. CASE At(h, "start.planning") /\ Go(h, 0, "start.answered")
    <3>1. op'[h].phase = "start.answered" /\ \A g \in Handlers \ {h} : op'[g] = op[g]
      BY <2>1, <1>t, PhaseAfter
    <3> QED BY <2>0, <2>1, <3>1 DEF KnowsRounds, Names, OneOpen, StartPhases, At
  <2>2. CASE At(h, "widen.planning") /\ Go(h, op[h].cycle, "widen.answered")
    BY <2>0, <2>2, <1>q DEF At, StartPhases
  <2> QED BY <1>3, <2>1, <2>2 DEF ModelAnswers
<1>4. CASE StartOpen(h)
  <2>1. PICK d \in CycleIds, bare \in BOOLEAN :
          /\ cycles' = [cycles EXCEPT ![d] = OpenedRow(bare)]
          /\ Go(h, d, IF bare THEN "start.emptied" ELSE "start.noting")
    BY <1>4 DEF StartOpen
  <2>2. Open = {} /\ op[h].phase = "start.answered"
    BY <1>4 DEF KnowsRounds, StartOpen, At
  <2>3. Open' \subseteq {d}
    BY <2>1, <2>2, <1>t DEF Open
  <2>4. /\ op'[h].phase \in {"start.emptied", "start.noting"} /\ op'[h].cycle = d
        /\ \A g \in Handlers \ {h} : op'[g] = op[g]
    <3>1. (IF bare THEN "start.emptied" ELSE "start.noting") \in {"start.emptied", "start.noting"}
      OBVIOUS
    <3> QED BY <2>1, <3>1, <1>t, PhaseAfter
  <2> QED BY <2>2, <2>3, <2>4 DEF KnowsRounds, Names, OneOpen, StartPhases
<1>5. CASE StartFailEmpty(h)
  <2>1. Open' \subseteq Open
    BY <1>5, CloseShrinks DEF StartFailEmpty
  <2> QED BY <1>5, <2>1, <1>q DEF StartFailEmpty, At
<1>6. CASE StartNotes(h)
  <2>1. Open' = Open /\ op[h].phase = "start.noting"
    BY <1>6, <1>u DEF StartNotes, At
  <2>2. CASE Reply(h, op[h].cycle, "planned")
    <3>1. /\ op'[h].phase = "replied" /\ op'[h].cycle = op[h].cycle
          /\ \A g \in Handlers \ {h} : op'[g] = op[g]
      BY <2>2, <1>t, ReplyFields
    <3> QED BY <2>1, <3>1 DEF KnowsRounds, Names, OneOpen, StartPhases
  <2>3. CASE Reply(h, 0, "error")
    BY <2>1, <2>3, <1>q
  <2> QED BY <1>6, <2>2, <2>3 DEF StartNotes
<1>7. CASE WidenSave(h)
  <2>1. Open' = Open
    BY <1>7, <1>t, UpdatesKeepEnds, UpdatesKeepOpen DEF WidenSave
  <2> QED BY <1>7, <2>1, <1>q DEF WidenSave, At
<1>8. CASE ChargeAim(h)
  <2>1. \/ \E c, a : Reply(h, c, a) /\ a \notin {"planned", "resumed"}
        \/ \E c, p : Go(h, c, p) /\ p \notin StartPhases \cup {"replied", "idle"}
    BY <1>8 DEF ChargeAim, StartPhases
  <2> QED BY <1>8, <1>u, <2>1, <1>q DEF ChargeAim, At
<1>9. CASE ChargeBump(h)
  <2>1. Open' = Open
    BY <1>9, <1>t, UpdatesKeepEnds, UpdatesKeepOpen DEF ChargeBump
  <2> QED BY <1>9, <2>1, <1>q DEF ChargeBump, At
<1> QED BY <1>1, <1>2, <1>3, <1>4, <1>5, <1>6, <1>7, <1>8, <1>9 DEF Serve

(* Where a run goes on, and what it keeps (Goto, GotoStopped). *)
LEMMA GotoFields ==
  ASSUME worker \in Workers, NEW place, NEW stop, NEW blocked
  PROVE  /\ Goto(place) => /\ worker'.at = place /\ worker'.slot = worker.slot
                           /\ worker'.cycle = worker.cycle
         /\ GotoStopped(place, stop, blocked) => /\ worker'.at = place /\ worker'.slot = {}
                                                 /\ worker'.cycle = worker.cycle
BY DEF Goto, GotoStopped, Workers

(* Two requests a run awaits are the same. *)
LEMMA AwaitsOne ==
  ASSUME LifecycleTypeOK, NEW g \in worker.slot, NEW h \in worker.slot
  PROVE  g = h /\ worker.slot = {h} /\ h \in Handlers
<1>1. worker.slot \subseteq Handlers /\ Cardinality(worker.slot) <= 1
  BY WorkerFields
<1>2. IsFiniteSet(worker.slot) /\ Cardinality(worker.slot) \in Nat
  BY <1>1, FS_Subset, FS_CardinalityType, PlannerAssumption
<1>3. ASSUME NEW f \in worker.slot, NEW e \in worker.slot PROVE e = f
  <2>1. Cardinality({f}) = 1 /\ IsFiniteSet({f})
    BY FS_Singleton
  <2>2. {f} = worker.slot
    BY <1>2, <1>1, <2>1, FS_Subset
  <2> QED BY <2>2
<1> QED BY <1>1, <1>3

(* A step that touches neither the planner nor the request it awaits.      *)
LEMMA QuietKeeps ==
  ASSUME FaultFreeInv, faults = 0, UNCHANGED vars, worker.at # "planning",
         worker'.slot = worker.slot, RunInv'
  PROVE  FaultFreeInv'
<1>1. Open' = Open /\ op' = op
  BY DEF Open, vars
<1> QED BY <1>1 DEF FaultFreeInv, RequestInv, KnowsRounds, Names, At

(* A step of one request, while the others are idle and not awaited.       *)
LEMMA OneMoves ==
  ASSUME LifecycleTypeOK, FaultFreeInv, faults = 0, NEW h \in Handlers,
         \A g \in Handlers \ {h} : At(g, "idle") /\ op'[g] = op[g],
         worker'.slot \subseteq {h}, RequestInv(h)', RunInv'
  PROVE  FaultFreeInv'
BY DEF FaultFreeInv, RequestInv, KnowsRounds, Names, At, StartPhases

(* The other requests are idle while h is awaited, or while none is.       *)
LEMMA OthersIdle ==
  ASSUME LifecycleTypeOK, FaultFreeInv, faults = 0, NEW h \in Handlers,
         h \in worker.slot \/ worker.slot = {}
  PROVE  \A g \in Handlers \ {h} : At(g, "idle")
BY AwaitsOne DEF FaultFreeInv, RequestInv

(* The answer of the request a run awaits. *)
LEMMA AnswerKeeps ==
  ASSUME LifecycleTypeOK, FaultFreeInv, faults = 0, NEW h \in Handlers, NEW answers,
         Answered(h, answers), worker'.slot = {}, RunInv'
  PROVE  FaultFreeInv'
<1>1. /\ op'[h] = Idle /\ \A g \in Handlers \ {h} : op'[g] = op[g]
      /\ h \in worker.slot
  BY DEF Answered, Deliver, Awaits, LifecycleTypeOK, TypeOK
<1>2. \A g \in Handlers \ {h} : At(g, "idle")
  BY <1>1, OthersIdle
<1>3. RequestInv(h)'
  BY <1>1 DEF Idle, RequestInv, KnowsRounds, Names, At, StartPhases
<1> QED BY <1>1, <1>2, <1>3, OneMoves

(* A request a run makes. *)
LEMMA AskKeeps ==
  ASSUME LifecycleTypeOK, FaultFreeInv, faults = 0, NEW h \in Handlers,
         worker.slot = {}, worker'.slot = {h}, RunInv',
         KnowsRounds(h)', op'[h].phase # "idle",
         op'[h].phase \in StartPhases => worker'.at = "planning",
         \A g \in Handlers \ {h} : op'[g] = op[g]
  PROVE  FaultFreeInv'
<1>1. \A g \in Handlers \ {h} : At(g, "idle")
  BY OthersIdle
<1>2. RequestInv(h)'
  BY DEF RequestInv, At
<1> QED BY <1>1, <1>2, OneMoves

(* Nothing is unreachable unless something is lost. *)
LEMMA ReachableUnlessLost ==
  ASSUME LifecycleTypeOK, FaultFreeInv, faults = 0, faults' = 0
  PROVE  ~Fault /\ ~Unreachable
<1>1. ~Fault
  BY DEF Fault
<1>2. ~CutOff
  BY WorkerFields DEF CutOff, FaultFreeInv, RequestInv
<1> QED BY <1>1, <1>2 DEF Unreachable, NeverSent, GivenUp

(* A request that asks nothing about the rounds knows nothing of them.     *)
LEMMA HarvestAsks ==
  ASSUME TypeOK, NEW h \in Handlers, NEW c,
         Widen(h, c) \/ YieldBump(h, c) \/ ChargeRecord(h)
  PROVE  /\ KnowsRounds(h)' /\ op'[h].phase # "idle" /\ op'[h].phase \notin StartPhases
         /\ Open' = Open
         /\ \A g \in Handlers \ {h} : op'[g] = op[g]
<1>t. op \in [Handlers -> Ops] /\ cycles \in [CycleIds -> Rows]
  BY DEF TypeOK
<1>u. ASSUME UNCHANGED cycles PROVE Open' = Open
  BY <1>u DEF Open
<1>q. ASSUME \/ \E d, a : Reply(h, d, a) /\ a \notin {"planned", "resumed"}
             \/ \E d, p : Go(h, d, p) /\ p \notin StartPhases \cup {"replied", "idle"}
      PROVE  /\ KnowsRounds(h)' /\ op'[h].phase # "idle" /\ op'[h].phase \notin StartPhases
             /\ \A g \in Handlers \ {h} : op'[g] = op[g]
  BY <1>q, <1>t, KnowsNothing, ReplyAwake
<1>1. CASE Widen(h, c)
  <2>1. CASE GateRefuses(h)
    BY <1>1, <2>1, <1>q, <1>u, RefusalIsNoPlan DEF Widen
  <2>2. CASE Reply(h, 0, "round-closed") \/ Reply(h, 0, "widening-spent")
    BY <1>1, <2>2, <1>q, <1>u DEF Widen
  <2>3. CASE Go(h, c, "widen.planning")
    BY <1>1, <2>3, <1>q, <1>u DEF Widen, StartPhases
  <2> QED BY <1>1, <2>1, <2>2, <2>3 DEF Widen
<1>2. CASE YieldBump(h, c)
  <2>1. PICK n \in 0 .. 1 : cycles' = Tallied(c, n)
    BY <1>2 DEF YieldBump
  <2>2. Open' = Open
    BY <2>1, <1>t, UpdatesKeepEnds, UpdatesKeepOpen
  <2>3. op'[h].phase = "yield.bumped" /\ \A g \in Handlers \ {h} : op'[g] = op[g]
    BY <1>2, <1>t DEF YieldBump, Idle
  <2> QED BY <2>2, <2>3 DEF KnowsRounds, Names, StartPhases
<1>3. CASE ChargeRecord(h)
  BY <1>3, <1>q, <1>u DEF ChargeRecord, StartPhases
<1> QED BY <1>1, <1>2, <1>3

(* Faults are only ever counted up. *)
LEMMA FaultsCounted ==
  ASSUME LifecycleTypeOK, [LifecycleNext]_lifecycle
  PROVE  faults' = 0 => faults = 0
<1>1. Fault \/ UNCHANGED faults
  BY CallsFault
     DEF LifecycleNext, Run, Executor, ResolveOrphan, Drive, TakePlan, NoPlan, Query,
         QueryAnswered, QueriesDone, WidenAsk, WidenAnswered, Screen, ScreenAnswered, Read, Throws,
         Settle, Wake, WakeResolves, Reclaimed, Api, Drop, ApiRestarts, Surroundings, HoldEnds,
         lifecycle, executor
<1> QED BY <1>1 DEF Fault, LifecycleTypeOK

LEMMA ExecutorFaultFree ==
  ASSUME LifecycleTypeInv, FaultFreeInv, faults = 0, faults' = 0, Run \/ Executor
  PROVE  FaultFreeInv'
<1>t. LifecycleTypeOK /\ TypeOK /\ worker \in Workers
  BY DEF LifecycleTypeInv, LifecycleTypeOK
<1>r. RunInv
  BY DEF FaultFreeInv
<1>u. ASSUME UNCHANGED vars PROVE Open' = Open
  BY <1>u DEF Open, vars
<1>q. ASSUME NEW place, Goto(place), UNCHANGED <<vars, record, wake>>,
             worker.at \notin {"planning", "settling"},
             place \in {"asleep", "orphan", "drive", "planning"} => worker.cycle = 0,
             place \in {"asleep", "orphan", "drive", "reading", "settling"} => worker.slot = {}
      PROVE  FaultFreeInv'
  <2>1. /\ worker'.at = place /\ worker'.slot = worker.slot
        /\ worker'.cycle = worker.cycle
    BY <1>q, <1>t, GotoFields
  <2>2. RunInv'
    BY <1>q, <1>r, <1>u, <2>1 DEF RunInv, OneOpen
  <2> QED BY <1>q, <2>1, <2>2, QuietKeeps
<1>a. ASSUME NEW h \in Handlers, NEW answers, Answered(h, answers), UNCHANGED <<record, wake>>,
             worker'.slot = {}, worker'.cycle = worker.cycle,
             worker'.at \notin {"asleep", "orphan", "drive", "planning"} \/ worker.cycle = 0
      PROVE  FaultFreeInv'
  <2>1. Open' = Open
    BY <1>a DEF Answered, Deliver, Open
  <2>2. RunInv'
    BY <1>a, <1>r, <2>1 DEF RunInv, OneOpen
  <2> QED BY <1>a, <1>t, <2>2, AnswerKeeps
<1>k. ASSUME NEW h \in Handlers, UNCHANGED <<record, wake>>, worker.slot = {},
             worker'.slot = {h}, worker'.at \in {"planning", "harvest", "widening", "screening", "rescreening"},
             worker'.cycle = worker.cycle, worker'.at = "planning" => worker.cycle = 0,
             KnowsRounds(h)', op'[h].phase # "idle", Open' = Open,
             op'[h].phase \in StartPhases => worker'.at = "planning",
             \A g \in Handlers \ {h} : op'[g] = op[g]
      PROVE  FaultFreeInv'
  <2>1. RunInv'
    BY <1>k, <1>r DEF RunInv, OneOpen
  <2> QED BY <1>k, <1>t, <2>1, AskKeeps
<1>n. ~Fault /\ ~Unreachable
  BY <1>t, ReachableUnlessLost
<1>1. CASE Run
  BY <1>1, <1>q, <1>r DEF Run, RunInv
<1>2. CASE ResolveOrphan
  <2>1. record = 0
    BY <1>2, <1>r DEF ResolveOrphan, RunInv
  <2> QED BY <1>2, <1>q, <1>r, <2>1 DEF ResolveOrphan, RunInv
<1>3. CASE Drive
  <2>1. worker.slot = {} /\ worker.cycle = 0 /\ OneOpen
    BY <1>3, <1>r DEF Drive, RunInv
  <2>2. CASE Goto("settling") /\ UNCHANGED vars
    BY <1>3, <2>1, <2>2, <1>q DEF Drive
  <2>3. ASSUME NEW h \in Handlers, Start(h),
               worker' = [worker EXCEPT !.at = "planning", !.slot = {h}]
        PROVE  FaultFreeInv'
    <3>1. worker'.at = "planning" /\ worker'.slot = {h} /\ worker'.cycle = worker.cycle
      BY <2>3, <1>t DEF Workers
    <3>2. /\ KnowsRounds(h)' /\ op'[h].phase # "idle" /\ Open' = Open
          /\ \A g \in Handlers \ {h} : op'[g] = op[g]
      BY <2>1, <2>3, <1>t, StartKnows
    <3> QED BY <1>3, <1>k, <2>1, <3>1, <3>2 DEF Drive
  <2> QED BY <1>3, <2>2, <2>3 DEF Drive
<1>4. CASE TakePlan
  <2>1. PICK h \in Handlers :
          /\ Answered(h, {"planned", "resumed"})
          /\ worker' = [worker EXCEPT !.at = "harvest", !.slot = {}, !.cycle = op[h].cycle,
                                      !.left = MaxQueries]
          /\ record' = op[h].cycle
    BY <1>4 DEF TakePlan
  <2>2. worker'.at = "harvest" /\ worker'.slot = {} /\ worker'.cycle = op[h].cycle
    BY <2>1, <1>t DEF Workers
  <2>3. Open' = Open /\ Open \subseteq {op[h].cycle}
    BY <2>1 DEF Answered, Deliver, At, Open, FaultFreeInv, RequestInv, KnowsRounds, Names
  <2>4. RunInv'
    BY <1>4, <1>r, <2>1, <2>2, <2>3 DEF TakePlan, RunInv, OneOpen
  <2> QED BY <1>t, <2>1, <2>2, <2>4, AnswerKeeps
<1>5. CASE NoPlan
  <2>1. PICK h \in Handlers : Answered(h, GateReasons \cup {"planner-failed", "error"})
    BY <1>5, <1>n DEF NoPlan
  <2>2. worker'.at = "settling" /\ worker'.slot = {} /\ worker'.cycle = worker.cycle
    BY <1>5, <1>t, GotoFields DEF NoPlan
  <2> QED BY <1>5, <1>a, <2>1, <2>2 DEF NoPlan
<1>6. CASE Query
  <2>0. worker.at = "harvest" /\ worker.slot = {}
    BY <1>6 DEF Query
  <2>1. ASSUME UNCHANGED vars, worker'.at = "harvest", worker'.slot = {},
               worker'.cycle = worker.cycle
        PROVE  FaultFreeInv'
    <3>1. RunInv'
      BY <1>6, <2>1, <1>r, <1>u DEF Query, RunInv, OneOpen
    <3> QED BY <2>0, <2>1, <3>1, QuietKeeps
  <2>2. CASE worker' = [worker EXCEPT !.left = worker.left - 1] /\ UNCHANGED vars
    <3>1. worker'.at = "harvest" /\ worker'.slot = {} /\ worker'.cycle = worker.cycle
      BY <2>0, <2>2, <1>t DEF Workers
    <3> QED BY <2>1, <2>2, <3>1
  <2>3. CASE GotoStopped("harvest", "stop", TRUE) /\ UNCHANGED vars
    BY <2>1, <2>3, <1>t, GotoFields
  <2>4. ASSUME NEW h \in Handlers, YieldBump(h, worker.cycle),
               worker' = [worker EXCEPT !.left = worker.left - 1, !.slot = {h}]
        PROVE  FaultFreeInv'
    <3>1. worker'.at = "harvest" /\ worker'.slot = {h} /\ worker'.cycle = worker.cycle
      BY <2>0, <2>4, <1>t DEF Workers
    <3>2. /\ KnowsRounds(h)' /\ op'[h].phase # "idle" /\ op'[h].phase \notin StartPhases
          /\ Open' = Open
          /\ \A g \in Handlers \ {h} : op'[g] = op[g]
      BY <2>4, <1>t, HarvestAsks
    <3> QED BY <1>6, <1>k, <2>0, <3>1, <3>2 DEF Query
  <2> QED BY <1>6, <2>2, <2>3, <2>4 DEF Query
<1>7. CASE QueryAnswered
  <2>1. PICK h \in Handlers :
          \/ Answered(h, {"continue"}) /\ worker' = [worker EXCEPT !.slot = {}]
          \/ Answered(h, {"stop"}) /\ GotoStopped("harvest", "stop", FALSE)
    BY <1>7, <1>n DEF QueryAnswered
  <2>2. worker'.at = "harvest" /\ worker'.slot = {} /\ worker'.cycle = worker.cycle
    <3>1. CASE worker' = [worker EXCEPT !.slot = {}]
      BY <1>7, <3>1, <1>t DEF QueryAnswered, Workers
    <3>2. CASE GotoStopped("harvest", "stop", FALSE)
      BY <3>2, <1>t, GotoFields
    <3> QED BY <2>1, <3>1, <3>2
  <2> QED BY <1>7, <1>a, <2>1, <2>2 DEF QueryAnswered
<1>8. CASE QueriesDone
  BY <1>8, <1>q, <1>r DEF QueriesDone, RunInv
<1>9. CASE WidenAsk
  <2>1. PICK h \in Handlers : Widen(h, worker.cycle) /\ worker' = [worker EXCEPT !.slot = {h}]
    BY <1>9 DEF WidenAsk
  <2>2. worker'.at = "widening" /\ worker'.slot = {h} /\ worker'.cycle = worker.cycle
    BY <1>9, <2>1, <1>t DEF WidenAsk, Workers
  <2>3. /\ KnowsRounds(h)' /\ op'[h].phase # "idle" /\ op'[h].phase \notin StartPhases
        /\ Open' = Open
        /\ \A g \in Handlers \ {h} : op'[g] = op[g]
    BY <2>1, <1>t, HarvestAsks
  <2> QED BY <1>9, <1>k, <2>2, <2>3 DEF WidenAsk
<1>10. CASE WidenAnswered
  <2>1. PICK h \in Handlers :
          \/ /\ Answered(h, {"widened"})
             /\ worker' = [worker EXCEPT !.at = "harvest", !.slot = {},
                                         !.widened = worker.widened + 1, !.left = 1]
          \/ /\ Answered(h, GateReasons \cup {"planner-failed", "round-closed", "widening-spent"})
             /\ GotoStopped("screening", "stop", FALSE)
    BY <1>10, <1>n DEF WidenAnswered
  <2>2. /\ worker'.at \in {"harvest", "screening"} /\ worker'.slot = {}
        /\ worker'.cycle = worker.cycle
    <3>1. CASE worker' = [worker EXCEPT !.at = "harvest", !.slot = {},
                                        !.widened = worker.widened + 1, !.left = 1]
      BY <3>1, <1>t DEF Workers
    <3>2. CASE GotoStopped("screening", "stop", FALSE)
      BY <3>2, <1>t, GotoFields
    <3> QED BY <2>1, <3>1, <3>2
  <2> QED BY <1>10, <1>a, <2>1, <2>2 DEF WidenAnswered
<1>11. CASE Screen
  <2>1. CASE Goto(AfterScreening) /\ UNCHANGED vars
    <3>1. AfterScreening \in {"reading", "settling"}
      BY DEF AfterScreening
    <3> QED BY <1>11, <2>1, <3>1, <1>q DEF Screen
  <2>2. ASSUME NEW h \in Handlers, ChargeRecord(h), worker' = [worker EXCEPT !.slot = {h}]
        PROVE  FaultFreeInv'
    <3>1. worker'.at = worker.at /\ worker'.slot = {h} /\ worker'.cycle = worker.cycle
      BY <2>2, <1>t DEF Workers
    <3>2. /\ KnowsRounds(h)' /\ op'[h].phase # "idle" /\ op'[h].phase \notin StartPhases
          /\ Open' = Open
          /\ \A g \in Handlers \ {h} : op'[g] = op[g]
      BY <2>2, <1>t, HarvestAsks
    <3> QED BY <1>11, <1>k, <3>1, <3>2 DEF Screen
  <2> QED BY <1>11, <2>1, <2>2 DEF Screen
<1>12. CASE ScreenAnswered
  <2>1. PICK h \in Handlers : Answered(h, {"ok"})
    BY <1>12, <1>n DEF ScreenAnswered
  <2>2. AfterScreening \in {"reading", "settling"}
    BY DEF AfterScreening
  <2>3. worker'.at = AfterScreening /\ worker'.slot = {} /\ worker'.cycle = worker.cycle
    BY <1>12, <1>t DEF ScreenAnswered, Workers
  <2> QED BY <1>12, <1>a, <2>1, <2>2, <2>3 DEF ScreenAnswered
<1>13. CASE Read
  <2>1. worker.at = "reading" /\ worker.slot = {}
    BY <1>13, <1>r DEF Read, RunInv
  <2>2. Goto("settling") \/ Goto("rescreening")
    BY <1>13 DEF Read
  <2> QED BY <1>13, <1>q, <2>1, <2>2 DEF Read
<1>14. CASE Throws
  BY <1>14, <1>q DEF Throws
<1>15. CASE Settle
  <2>1. worker' = Asleep /\ worker'.at = "asleep" /\ worker'.slot = {} /\ worker'.cycle = 0
    BY <1>15 DEF Settle, Asleep
  <2>2. worker.at = "settling" /\ worker.slot = {}
    BY <1>15, <1>r DEF Settle, RunInv
  <2>3. op' = op /\ Open' \subseteq Open /\ record' = 0 /\ wake' = 0
    <3>1. CASE worker.cycle = 0
      BY <1>15, <1>r, <1>u, <3>1 DEF Settle, RunInv, vars
    <3>2. CASE worker.cycle # 0
      <4>1. Finish(worker.cycle, "done") /\ record' = 0
        BY <1>15, <1>n, <3>2 DEF Settle, CloseCall
      <4>2. Open' \subseteq Open
        BY <4>1, <1>t, CloseShrinks DEF Finish
      <4> QED BY <1>15, <1>r, <4>1, <4>2 DEF Settle, RunInv, Finish
    <3> QED BY <3>1, <3>2
  <2>4. RunInv'
    BY <1>r, <2>1, <2>3 DEF RunInv, OneOpen
  <2>5. \A h \in Handlers : At(h, "idle")
    BY <2>2 DEF FaultFreeInv, RequestInv
  <2>6. \A h \in Handlers : RequestInv(h)'
    BY <2>1, <2>3, <2>5 DEF RequestInv, KnowsRounds, Names, At, StartPhases
  <2> QED BY <2>4, <2>6 DEF FaultFreeInv
<1> QED
  BY <1>1, <1>2, <1>3, <1>4, <1>5, <1>6, <1>7, <1>8, <1>9, <1>10, <1>11, <1>12, <1>13, <1>14, <1>15
     DEF Executor

LEMMA FaultFreeStep ==
  LifecycleTypeInv /\ FaultFreeInv /\ [LifecycleNext]_lifecycle => FaultFreeInv'
<1> SUFFICES ASSUME LifecycleTypeInv, FaultFreeInv, [LifecycleNext]_lifecycle, faults' = 0
             PROVE  FaultFreeInv'
  BY DEF FaultFreeInv
<1>t. LifecycleTypeOK /\ TypeOK /\ worker \in Workers /\ cycles \in [CycleIds -> Rows]
  BY DEF LifecycleTypeInv, LifecycleTypeOK, TypeOK
<1>z. faults = 0 /\ RunInv
  BY <1>t, FaultsCounted DEF FaultFreeInv
<1>n. ~Fault /\ ~Unreachable
  BY <1>t, <1>z, ReachableUnlessLost
<1>1. CASE Run \/ Executor
  BY <1>1, <1>z, ExecutorFaultFree
<1>2. ~Wake /\ ~WakeResolves
  BY <1>z DEF Wake, WakeResolves, RunInv
<1>3. ~Reclaimed /\ ~ApiRestarts
  BY <1>n DEF Reclaimed, ApiRestarts
<1>4. ~Drop
  <2> SUFFICES ASSUME NEW h \in Handlers, ~Awaits(h), Deliver(h) PROVE FALSE
    BY DEF Drop
  <2>1. h \in worker.slot
    BY <1>z DEF Deliver, At, FaultFreeInv, RequestInv
  <2> QED BY <2>1, <1>t, AwaitsOne DEF Awaits
<1>5. ASSUME NEW h \in Handlers, Serve(h), UNCHANGED executor PROVE FaultFreeInv'
  <2>1. RequestInv(h) /\ OneOpen
    BY <1>z DEF FaultFreeInv, RunInv
  <2>2. /\ KnowsRounds(h)' /\ OneOpen'
        /\ op[h].phase # "idle" /\ op'[h].phase # "idle"
        /\ op'[h].phase \in StartPhases => op[h].phase \in StartPhases
        /\ Open' \subseteq Open \/ op[h].phase \in StartPhases
        /\ \A g \in Handlers \ {h} : op'[g] = op[g]
    BY <1>t, <1>5, <2>1, ServeKnows DEF RequestInv
  <2>3. h \in worker.slot /\ worker.slot = {h} /\ worker' = worker
    BY <1>5, <1>t, <2>1, <2>2, AwaitsOne DEF RequestInv, At, executor
  <2>4. \A g \in Handlers \ {h} : At(g, "idle")
    BY <1>t, <1>z, <2>3, OthersIdle
  <2>5. RequestInv(h)'
    BY <2>1, <2>2, <2>3 DEF RequestInv, At
  <2>6. op[h].phase \in StartPhases => worker.cycle = 0
    BY <1>z, <2>1 DEF RequestInv, RunInv
  <2>7. RunInv'
    BY <1>5, <1>z, <2>2, <2>6 DEF RunInv, executor
  <2> QED BY <1>t, <1>z, <2>2, <2>3, <2>4, <2>5, <2>7, OneMoves
<1>6. ASSUME op' = op, Open' = Open, UNCHANGED <<worker, record, wake>> PROVE FaultFreeInv'
  BY <1>6, <1>z DEF FaultFreeInv, RequestInv, RunInv, KnowsRounds, Names, At, OneOpen
<1>7. CASE Surroundings
  <2>1. ASSUME NEW c \in CycleIds, Late(c) PROVE op' = op /\ Open' = Open
    <3>1. Open' = Open
      BY <2>1, <1>t, UpdatesKeepOpen DEF Late, Rows
    <3> QED BY <2>1, <3>1 DEF Late
  <2>2. ASSUME NewDay \/ (\E part \in Flips : Flip(part)) \/ UNCHANGED vars
        PROVE  op' = op /\ Open' = Open
    BY <2>2 DEF NewDay, Flip, Open, vars
  <2> QED BY <1>6, <1>7, <2>1, <2>2 DEF Surroundings, HoldEnds, executor
<1>8. CASE UNCHANGED lifecycle
  BY <1>6, <1>8 DEF lifecycle, executor, vars, Open
<1> QED BY <1>1, <1>2, <1>3, <1>4, <1>5, <1>7, <1>8 DEF LifecycleNext, Api

(* While nothing has been lost or reclaimed there is one round open at     *)
(* most, and while a run drives a round this is the one, and it is on      *)
(* record, so that a wake could close it.  Not inductive on its own: the   *)
(* request being served acts on what it read of the rounds, and relies on  *)
(* the executor awaiting it.                                               *)
THEOREM FaultFreeRunsAreRecorded == LifecycleSpec => []FaultFreeRunIsRecorded
<1>1. LifecycleInit => FaultFreeInv /\ LifecycleTypeInv
  <2> SUFFICES ASSUME LifecycleInit PROVE FaultFreeInv /\ LifecycleTypeInv
    OBVIOUS
  <2>1. TypeOK /\ Open = {} /\ \A h \in Handlers : op[h] = Idle
    BY TypeInit DEF LifecycleInit, Init, Open, Absent
  <2>2. LifecycleTypeInv
    <3>1. 0 \in 0 .. MaxCycles /\ 0 \in 0 .. MaxFaults
      BY PlannerAssumption, LifecycleAssumption
    <3> QED BY <2>1, <3>1, AsleepTyped
            DEF LifecycleInit, LifecycleTypeInv, LifecycleTypeOK, WidensInBounds
  <2>3. FaultFreeInv
    BY <2>1 DEF LifecycleInit, Asleep, FaultFreeInv, RequestInv, RunInv, KnowsRounds, Names, At,
                OneOpen, Idle, StartPhases
  <2> QED BY <2>2, <2>3
<1>2. LifecycleTypeInv /\ FaultFreeInv => FaultFreeRunIsRecorded
  BY DEF FaultFreeInv, RunInv, OneOpen, FaultFreeRunIsRecorded
<1> QED BY <1>1, <1>2, LifecycleTypeStep, FaultFreeStep, PTL DEF LifecycleSpec

=============================================================================
