--------------------------- MODULE PlannerProofs ---------------------------
(***************************************************************************)
(* What holds of the planner for every number of requests, rounds, calls   *)
(* and days: the types, the bound on the widening steps, the ledger of the *)
(* days that covers the rounds, the single open round of a caller that     *)
(* asks one thing at a time, and the finality of a close.                  *)
(***************************************************************************)
EXTENDS Planner, FiniteSetTheorems, TLAPS

-----------------------------------------------------------------------------
(* Types.                                                                  *)

(* Moving a request to another phase keeps the requests typed (Go).        *)
LEMMA GoTyped ==
  ASSUME op \in [Handlers -> Ops],
         NEW h \in Handlers, NEW c \in 0 .. MaxCycles, NEW p \in Phases, Go(h, c, p)
  PROVE  op' \in [Handlers -> Ops]
BY DEF Go, Ops

(* Answering a request keeps the requests typed (Reply).                   *)
LEMMA ReplyTyped ==
  ASSUME op \in [Handlers -> Ops],
         NEW h \in Handlers, NEW c \in 0 .. MaxCycles, NEW a \in Answers, Reply(h, c, a)
  PROVE  op' \in [Handlers -> Ops]
<1>1. [Idle EXCEPT !.phase = "replied", !.cycle = c, !.answer = a] \in Ops
  BY DEF Idle, Ops, Phases
<1> QED BY <1>1 DEF Reply

(* A refusal of the gate is an answer (gate).                              *)
LEMMA RefusalTyped ==
  ASSUME op \in [Handlers -> Ops], NEW h \in Handlers, GateRefuses(h)
  PROVE  op' \in [Handlers -> Ops]
<1>1. PICK i \in 1 .. 5 : Reply(h, 0, GateOrder[i])
  BY DEF GateRefuses
<1>2. GateOrder[i] \in Answers
  BY DEF GateOrder, Answers, GateReasons
<1>3. 0 \in 0 .. MaxCycles
  BY PlannerAssumption
<1> QED BY <1>1, <1>2, <1>3, ReplyTyped

(* The row of an id no round has taken yet is a row.                       *)
LEMMA AbsentTyped == Absent \in Rows
BY PlannerAssumption DEF Absent, Rows, Statuses, Reasons

(* The rows stay rows under every statement that writes one (CloseCycle,   *)
(* BumpCycle, the transactions of open, Widen and RecordYield).            *)
LEMMA RowsTyped ==
  ASSUME cycles \in [CycleIds -> Rows], NEW c \in CycleIds
  PROVE  /\ \A status \in Statuses, reason \in Reasons :
              Closed(c, status, reason) \in [CycleIds -> Rows]
         /\ Charged(c) \in [CycleIds -> Rows]
         /\ Widened(c) \in [CycleIds -> Rows]
         /\ \A n \in 0 .. 1 : Tallied(c, n) \in [CycleIds -> Rows]
         /\ \A bare \in BOOLEAN :
              [cycles EXCEPT ![c] = OpenedRow(bare)] \in [CycleIds -> Rows]
         /\ [cycles EXCEPT ![c].late = TRUE] \in [CycleIds -> Rows]
<1>1. \A status \in Statuses, reason \in Reasons :
        Closed(c, status, reason) \in [CycleIds -> Rows]
  BY DEF Closed, Rows
<1>2. Charged(c) \in [CycleIds -> Rows]
  BY DEF Charged, Rows
<1>3. Widened(c) \in [CycleIds -> Rows]
  <2> DEFINE row == cycles[c]
             wide == [row EXCEPT !.bare = FALSE, !.steps = row.steps + 1,
                                 !.calls = row.calls + 1]
  <2>1. row \in Rows
    OBVIOUS
  <2>2. row.steps + 1 \in Nat /\ row.calls + 1 \in Nat
    BY <2>1 DEF Rows
  <2>3. wide \in Rows
    BY <2>1, <2>2 DEF Rows
  <2> QED BY <2>3 DEF Widened
<1>4. ASSUME NEW n \in 0 .. 1
      PROVE  Tallied(c, n) \in [CycleIds -> Rows]
  BY PlannerAssumption DEF Tallied, Rows
<1>5. ASSUME NEW bare \in BOOLEAN
      PROVE  [cycles EXCEPT ![c] = OpenedRow(bare)] \in [CycleIds -> Rows]
  <2>1. OpenedRow(bare) \in Rows
    BY AbsentTyped DEF OpenedRow, Rows, Statuses
  <2> QED BY <2>1
<1>6. [cycles EXCEPT ![c].late = TRUE] \in [CycleIds -> Rows]
  BY DEF Rows
<1> QED BY <1>1, <1>2, <1>3, <1>4, <1>5, <1>6

(* A counted call keeps the ledger typed (BumpModelUsage).                 *)
LEMMA UsageTyped ==
  ASSUME usage \in [Days -> Nat], today \in Days
  PROVE  UsageBumped \in [Days -> Nat]
BY DEF UsageBumped

(* The store is empty when the service first runs.                         *)
LEMMA TypeInit == Init => TypeOK
<1> SUFFICES ASSUME Init PROVE TypeOK
  OBVIOUS
<1>1. Absent \in Rows
  BY AbsentTyped
<1>2. Idle \in Ops
  BY PlannerAssumption DEF Idle, Ops, Phases, Answers
<1>3. today \in Days
  BY PlannerAssumption DEF Init, Days
<1>4. desk \in [Parts -> BOOLEAN]
  BY DEF Init, Parts
<1> QED BY <1>1, <1>2, <1>3, <1>4 DEF Init, TypeOK

(* No step of the service, of its callers or of its surroundings takes a   *)
(* row, a counter or a request out of its type.                            *)
LEMMA TypeStep == TypeOK /\ [Next]_vars => TypeOK'
<1> SUFFICES ASSUME TypeOK, [Next]_vars PROVE TypeOK'
  OBVIOUS
<1> USE DEF TypeOK
<1>z. 0 \in 0 .. MaxCycles /\ CycleIds \subseteq 0 .. MaxCycles
  BY PlannerAssumption DEF CycleIds
<1>a. {"start.planning", "start.expired", "start.answered", "start.emptied",
       "start.noting", "widen.planning", "widen.answered", "charge.recorded",
       "charge.aimed"} \subseteq Phases
  BY DEF Phases
<1>b. {"resumed", "planned", "error", "planner-failed", "round-closed",
       "widening-spent", "widened", "stop", "continue", "ok"} \subseteq Answers
  BY DEF Answers
<1>c. {"done", "failed"} \subseteq Statuses /\ Reasons = {"none", "expired", "planner-failed", "reported"}
  BY DEF Statuses, Reasons
<1>1. ASSUME NEW h \in Handlers, Start(h)
      PROVE  TypeOK'
  <2>1. op' \in [Handlers -> Ops]
    <3>1. CASE GateRefuses(h)
      BY <3>1, RefusalTyped
    <3>2. CASE Go(h, 0, "start.planning")
      BY <3>2, <1>z, <1>a, GoTyped
    <3>3. ASSUME NEW c \in Open, Go(h, c, "start.expired")
          PROVE  op' \in [Handlers -> Ops]
      BY <3>3, <1>z, <1>a, GoTyped DEF Open
    <3>4. ASSUME NEW c \in Open, Reply(h, c, "resumed")
          PROVE  op' \in [Handlers -> Ops]
      BY <3>4, <1>z, <1>b, ReplyTyped DEF Open
    <3> QED BY <1>1, <3>1, <3>2, <3>3, <3>4 DEF Start
  <2> QED BY <1>1, <2>1 DEF Start
<1>2. ASSUME NEW h \in Handlers, StartExpire(h)
      PROVE  TypeOK'
  <2>1. op' \in [Handlers -> Ops]
    BY <1>2, <1>z, <1>a, GoTyped DEF StartExpire
  <2>2. cycles' \in [CycleIds -> Rows]
    <3>1. CASE op[h].cycle \in CycleIds
      BY <1>2, <3>1, <1>c, RowsTyped DEF StartExpire
    <3>2. CASE op[h].cycle \notin CycleIds
      BY <1>2, <3>2 DEF StartExpire, Closed, Open
    <3> QED BY <3>1, <3>2
  <2> QED BY <1>2, <2>1, <2>2 DEF StartExpire
<1>3. ASSUME NEW h \in Handlers, ModelFails(h)
      PROVE  TypeOK'
  BY <1>3, <1>z, <1>b, ReplyTyped DEF ModelFails
<1>4. ASSUME NEW h \in Handlers, ModelAnswers(h)
      PROVE  TypeOK'
  <2>1. op[h].cycle \in 0 .. MaxCycles
    BY DEF Ops
  <2>2. op' \in [Handlers -> Ops]
    BY <1>4, <2>1, <1>z, <1>a, GoTyped DEF ModelAnswers
  <2> QED BY <1>4, <2>2, UsageTyped DEF ModelAnswers
<1>5. ASSUME NEW h \in Handlers, AnswerUnreadable(h)
      PROVE  TypeOK'
  BY <1>5, <1>z, <1>b, ReplyTyped DEF AnswerUnreadable
<1>6. ASSUME NEW h \in Handlers, StartOpen(h)
      PROVE  TypeOK'
  <2>1. PICK c \in CycleIds, bare \in BOOLEAN :
          /\ cycles' = [cycles EXCEPT ![c] = OpenedRow(bare)]
          /\ Go(h, c, IF bare THEN "start.emptied" ELSE "start.noting")
    BY <1>6 DEF StartOpen
  <2>2. cycles' \in [CycleIds -> Rows]
    BY <2>1, RowsTyped
  <2>3. op' \in [Handlers -> Ops]
    BY <2>1, <1>z, <1>a, GoTyped
  <2> QED BY <1>6, <2>2, <2>3 DEF StartOpen
<1>7. ASSUME NEW h \in Handlers, StartFailEmpty(h)
      PROVE  TypeOK'
  <2>1. op' \in [Handlers -> Ops]
    BY <1>7, <1>z, <1>b, ReplyTyped DEF StartFailEmpty
  <2>2. cycles' \in [CycleIds -> Rows]
    <3>1. CASE op[h].cycle \in CycleIds
      BY <1>7, <3>1, <1>c, RowsTyped DEF StartFailEmpty
    <3>2. CASE op[h].cycle \notin CycleIds
      BY <1>7, <3>2 DEF StartFailEmpty, Closed, Open
    <3> QED BY <3>1, <3>2
  <2> QED BY <1>7, <2>1, <2>2 DEF StartFailEmpty
<1>8. ASSUME NEW h \in Handlers, StartNotes(h)
      PROVE  TypeOK'
  <2>1. op[h].cycle \in 0 .. MaxCycles
    BY DEF Ops
  <2> QED BY <1>8, <2>1, <1>z, <1>b, ReplyTyped DEF StartNotes
<1>9. ASSUME NEW h \in Handlers, NEW c \in CycleIds, Widen(h, c)
      PROVE  TypeOK'
  <2>1. CASE GateRefuses(h)
    BY <1>9, <2>1, RefusalTyped DEF Widen
  <2>2. CASE ~GateRefuses(h)
    BY <1>9, <2>2, <1>z, <1>a, <1>b, GoTyped, ReplyTyped DEF Widen
  <2> QED BY <2>1, <2>2
<1>10. ASSUME NEW h \in Handlers, WidenSave(h)
       PROVE  TypeOK'
  <2>1. op' \in [Handlers -> Ops]
    BY <1>10, <1>z, <1>b, ReplyTyped DEF WidenSave
  <2>2. cycles' \in [CycleIds -> Rows]
    <3>1. CASE op[h].cycle \in CycleIds
      BY <1>10, <3>1, RowsTyped DEF WidenSave
    <3>2. CASE op[h].cycle \notin CycleIds
      <4>1. \A c, row : c \notin CycleIds => [cycles EXCEPT ![c] = row] = cycles
        OBVIOUS
      <4>2. cycles' = cycles
        BY <1>10, <3>2, <4>1 DEF WidenSave, Widened
      <4> QED BY <4>2
    <3> QED BY <3>1, <3>2
  <2> QED BY <1>10, <2>1, <2>2 DEF WidenSave
<1>11. ASSUME NEW h \in Handlers, NEW c \in CycleIds, YieldBump(h, c)
       PROVE  TypeOK'
  <2>1. desk.paused \in BOOLEAN
    BY DEF Parts
  <2>2. [Idle EXCEPT !.phase = "yield.bumped", !.cycle = c, !.paused = desk.paused] \in Ops
    BY <2>1, <1>z DEF Idle, Ops, Phases, Answers
  <2>3. op' \in [Handlers -> Ops]
    BY <1>11, <2>2 DEF YieldBump
  <2>4. PICK n \in 0 .. 1 : cycles' = Tallied(c, n)
    BY <1>11 DEF YieldBump
  <2>5. cycles' \in [CycleIds -> Rows]
    BY <2>4, RowsTyped
  <2> QED BY <1>11, <2>3, <2>5 DEF YieldBump
<1>12. ASSUME NEW h \in Handlers, YieldCheck(h)
       PROVE  TypeOK'
  BY <1>12, <1>z, <1>b, ReplyTyped DEF YieldCheck
<1>13. ASSUME NEW c \in CycleIds, NEW status \in {"done", "failed"}, Finish(c, status)
       PROVE  TypeOK'
  BY <1>13, <1>c, RowsTyped DEF Finish
<1>14. ASSUME NEW h \in Handlers, ChargeRecord(h)
       PROVE  TypeOK'
  BY <1>14, <1>z, <1>a, GoTyped, UsageTyped DEF ChargeRecord
<1>15. ASSUME NEW h \in Handlers, ChargeAim(h)
       PROVE  TypeOK'
  <2>1. CASE Reply(h, 0, "ok")
    BY <1>15, <2>1, <1>z, <1>b, ReplyTyped DEF ChargeAim
  <2>2. ASSUME NEW c \in Open, Go(h, c, "charge.aimed")
        PROVE  op' \in [Handlers -> Ops]
    BY <2>2, <1>z, <1>a, GoTyped DEF Open
  <2> QED BY <1>15, <2>1, <2>2 DEF ChargeAim
<1>16. ASSUME NEW h \in Handlers, ChargeBump(h)
       PROVE  TypeOK'
  <2>1. op' \in [Handlers -> Ops]
    BY <1>16, <1>z, <1>b, ReplyTyped DEF ChargeBump
  <2>2. cycles' \in [CycleIds -> Rows]
    <3>1. CASE op[h].cycle \in CycleIds
      BY <1>16, <3>1, RowsTyped DEF ChargeBump
    <3>2. CASE op[h].cycle \notin CycleIds
      BY <1>16, <3>2 DEF ChargeBump, Charged
    <3> QED BY <3>1, <3>2
  <2> QED BY <1>16, <2>1, <2>2 DEF ChargeBump
<1>17. ASSUME NEW h \in Handlers, Deliver(h)
       PROVE  TypeOK'
  <2>1. Idle \in Ops
    BY <1>z DEF Idle, Ops, Phases, Answers
  <2> QED BY <1>17, <2>1 DEF Deliver
<1>18. CASE Restart
  <2>1. Idle \in Ops
    BY <1>z DEF Idle, Ops, Phases, Answers
  <2> QED BY <1>18, <2>1 DEF Restart
<1>19. ASSUME NEW c \in CycleIds, Late(c)
       PROVE  TypeOK'
  BY <1>19, RowsTyped DEF Late
<1>20. CASE NewDay
  BY <1>20, PlannerAssumption DEF NewDay, Days
<1>21. ASSUME NEW part \in Flips, Flip(part)
       PROVE  TypeOK'
  BY <1>21, PlannerAssumption DEF Flip
<1>22. CASE UNCHANGED vars
  BY <1>22 DEF vars
<1> QED
  BY <1>1, <1>2, <1>3, <1>4, <1>5, <1>6, <1>7, <1>8, <1>9, <1>10, <1>11, <1>12, <1>13,
     <1>14, <1>15, <1>16, <1>17, <1>18, <1>19, <1>20, <1>21, <1>22 DEF Next, Serve

(* The rows, the counters and the requests keep their types.               *)
THEOREM TypeCorrect == Spec => []TypeOK
BY TypeInit, TypeStep, PTL DEF Spec

-----------------------------------------------------------------------------
(* The first close of a round is its last.                                 *)

FirstCloseKept ==
  \A c \in CycleIds :
    /\ cycles[c].status \in {"done", "failed"} =>
         /\ cycles'[c].status = cycles[c].status
         /\ cycles'[c].reason = cycles[c].reason
    /\ cycles[c].status = "open" => cycles'[c].status # "absent"

(* A close writes a row that is still open, and leaves it closed.          *)
LEMMA CloseKeeps ==
  ASSUME TypeOK, NEW c, NEW status \in {"done", "failed"}, NEW reason \in Reasons,
         cycles' = Closed(c, status, reason)
  PROVE  FirstCloseKept
BY DEF TypeOK, Closed, Open, FirstCloseKept, Rows

(* A statement that keeps the statuses and the reasons of all rows keeps   *)
(* the first close (BumpCycle, the transactions of Widen and RecordYield). *)
LEMMA EndsKept ==
  ASSUME TypeOK,
         \A c \in CycleIds : /\ cycles'[c].status = cycles[c].status
                             /\ cycles'[c].reason = cycles[c].reason
  PROVE  FirstCloseKept
BY DEF FirstCloseKept

(* What the updates of a round do to the ends of the rounds: nothing.      *)
LEMMA UpdatesKeepEnds ==
  ASSUME cycles \in [CycleIds -> Rows], NEW d, NEW c \in CycleIds
  PROVE  /\ Charged(d)[c].status = cycles[c].status
         /\ Charged(d)[c].reason = cycles[c].reason
         /\ Widened(d)[c].status = cycles[c].status
         /\ Widened(d)[c].reason = cycles[c].reason
         /\ \A n \in 0 .. 1 : /\ Tallied(d, n)[c].status = cycles[c].status
                              /\ Tallied(d, n)[c].reason = cycles[c].reason
<1>1. Charged(d)[c].status = cycles[c].status /\ Charged(d)[c].reason = cycles[c].reason
  BY DEF Charged, Rows
<1>2. Widened(d)[c].status = cycles[c].status /\ Widened(d)[c].reason = cycles[c].reason
  BY DEF Widened, Rows
<1>3. ASSUME NEW n \in 0 .. 1
      PROVE  Tallied(d, n)[c].status = cycles[c].status /\ Tallied(d, n)[c].reason = cycles[c].reason
  BY DEF Tallied, Rows
<1> QED BY <1>1, <1>2, <1>3

(* What a step can do to the statuses and the reasons: nothing, close a    *)
(* round, or open the next one for a request whose plan was answered.      *)
EndsAlone ==
  \A c \in CycleIds :
    cycles'[c].status = cycles[c].status /\ cycles'[c].reason = cycles[c].reason

Closing ==
  \E end \in Sequence!Ends, c \in 0 .. MaxCycles : cycles' = Closed(c, end[1], end[2])

Opening ==
  \E h \in Handlers, c \in CycleIds, bare \in BOOLEAN :
    At(h, "start.answered") /\ NextId(c) /\ cycles' = [cycles EXCEPT ![c] = OpenedRow(bare)]

LEMMA StepsOfRounds == TypeOK /\ [Next]_vars => EndsAlone \/ Closing \/ Opening
<1> SUFFICES ASSUME TypeOK, [Next]_vars PROVE EndsAlone \/ Closing \/ Opening
  OBVIOUS
<1>t. cycles \in [CycleIds -> Rows] /\ op \in [Handlers -> Ops]
  BY DEF TypeOK
<1>1. ASSUME UNCHANGED cycles PROVE EndsAlone
  BY <1>1, <1>t DEF EndsAlone, Rows
<1>c. ASSUME NEW c \in 0 .. MaxCycles, NEW status, NEW reason,
             <<status, reason>> \in Sequence!Ends, cycles' = Closed(c, status, reason)
      PROVE  Closing
  BY <1>c DEF Closing
<1>2. ASSUME NEW h \in Handlers, StartExpire(h) PROVE Closing
  BY <1>2, <1>t, <1>c DEF StartExpire, Ops, Sequence!Ends
<1>3. ASSUME NEW h \in Handlers, StartOpen(h) PROVE Opening
  BY <1>3 DEF StartOpen, Opening
<1>4. ASSUME NEW h \in Handlers, StartFailEmpty(h) PROVE Closing
  BY <1>4, <1>t, <1>c DEF StartFailEmpty, Ops, Sequence!Ends
<1>5. ASSUME NEW h \in Handlers, WidenSave(h) PROVE EndsAlone
  BY <1>5, <1>t, UpdatesKeepEnds DEF WidenSave, EndsAlone
<1>6. ASSUME NEW h \in Handlers, NEW c \in CycleIds, YieldBump(h, c) PROVE EndsAlone
  <2>1. PICK n \in 0 .. 1 : cycles' = Tallied(c, n)
    BY <1>6 DEF YieldBump
  <2> QED BY <2>1, <1>t, UpdatesKeepEnds DEF EndsAlone
<1>7. ASSUME NEW c \in CycleIds, NEW status \in {"done", "failed"}, Finish(c, status)
      PROVE  Closing
  <2>1. c \in 0 .. MaxCycles
    BY DEF CycleIds
  <2> QED BY <1>7, <2>1, <1>c DEF Finish, Sequence!Ends
<1>8. ASSUME NEW h \in Handlers, ChargeBump(h) PROVE EndsAlone
  BY <1>8, <1>t, UpdatesKeepEnds DEF ChargeBump, EndsAlone
<1>9. ASSUME NEW c \in CycleIds, Late(c) PROVE EndsAlone
  BY <1>9, <1>t DEF Late, EndsAlone, Rows
<1> QED
  BY <1>1, <1>2, <1>3, <1>4, <1>5, <1>6, <1>7, <1>8, <1>9
     DEF Next, Serve, Start, ModelFails, ModelAnswers, AnswerUnreadable, StartNotes, Widen,
         YieldCheck, ChargeRecord, ChargeAim, Deliver, Restart, NewDay, Flip, vars

(* No step rewrites the end of a round.                                    *)
LEMMA FinalStep == TypeOK /\ Next => FirstCloseKept
<1> SUFFICES ASSUME TypeOK, Next PROVE FirstCloseKept
  OBVIOUS
<1>1. CASE EndsAlone
  BY <1>1, EndsKept DEF EndsAlone
<1>2. CASE Closing
  BY <1>2, CloseKeeps DEF Closing, Sequence!Ends, Reasons
<1>3. CASE Opening
  <2>1. PICK c \in CycleIds, bare \in BOOLEAN :
          NextId(c) /\ cycles' = [cycles EXCEPT ![c] = OpenedRow(bare)]
    BY <1>3 DEF Opening
  <2>2. cycles[c].status = "absent"
    BY <2>1 DEF NextId, Opened
  <2> QED BY <2>1, <2>2 DEF FirstCloseKept, Rows, TypeOK
<1> QED BY <1>1, <1>2, <1>3, StepsOfRounds

(* A late finish never rewrites the end the API recorded when the deadline *)
(* passed, nor the other way round, and no round is reopened.              *)
THEOREM ClosesAreFinal == Spec => ClosedIsFinal
<1>1. TypeOK /\ [Next]_vars => [FirstCloseKept]_cycles
  BY FinalStep DEF vars
<1> QED BY <1>1, TypeCorrect, PTL DEF Spec, ClosedIsFinal, FirstCloseKept

-----------------------------------------------------------------------------
(* The widening steps.  The bound is not inductive: a request that has     *)
(* read the steps is owed one more, so it is counted before it is taken.   *)

Widening(c) ==
  {h \in Handlers : op[h].phase \in {"widen.planning", "widen.answered"} /\ op[h].cycle = c}

WideningInv ==
  \A c \in CycleIds :
    cycles[c].steps + Cardinality(Widening(c)) <= MaxWideningSteps + Cardinality(Handlers) - 1

(* The requests widening a round are some of all the requests.             *)
LEMMA WideningFinite ==
  ASSUME NEW c
  PROVE  /\ IsFiniteSet(Handlers) /\ Cardinality(Handlers) \in Nat
         /\ IsFiniteSet(Widening(c)) /\ Cardinality(Widening(c)) \in Nat
         /\ Cardinality(Widening(c)) <= Cardinality(Handlers)
<1>1. Widening(c) \subseteq Handlers
  BY DEF Widening
<1> QED BY <1>1, PlannerAssumption, FS_Subset, FS_CardinalityType

(* A step that adds neither a widening request nor a widening step.        *)
Shrinks ==
  \A c \in CycleIds : Widening(c)' \subseteq Widening(c) /\ cycles'[c].steps <= cycles[c].steps

LEMMA ShrinkKeeps ==
  ASSUME TypeOK, TypeOK', WideningInv, Shrinks
  PROVE  WideningInv'
<1> SUFFICES ASSUME NEW c \in CycleIds
             PROVE  cycles'[c].steps + Cardinality(Widening(c)')
                      <= MaxWideningSteps + Cardinality(Handlers) - 1
  BY DEF WideningInv
<1>1. Cardinality(Widening(c)') \in Nat /\ Cardinality(Widening(c)') <= Cardinality(Widening(c))
  BY WideningFinite, FS_Subset, FS_CardinalityType DEF Shrinks
<1>2. cycles[c].steps \in Nat /\ cycles'[c].steps \in Nat
  BY DEF TypeOK, Rows
<1>3. Cardinality(Widening(c)) \in Nat /\ Cardinality(Handlers) \in Nat
  BY WideningFinite
<1>4. cycles'[c].steps <= cycles[c].steps
  BY DEF Shrinks
<1>5. cycles[c].steps + Cardinality(Widening(c)) <= MaxWideningSteps + Cardinality(Handlers) - 1
  BY DEF WideningInv
<1> QED BY <1>1, <1>2, <1>3, <1>4, <1>5, PlannerAssumption

(* Nothing is widening before the first request.                           *)
LEMMA WideningInit == Init => WideningInv
<1> SUFFICES ASSUME Init, NEW c \in CycleIds
             PROVE  cycles[c].steps + Cardinality(Widening(c))
                      <= MaxWideningSteps + Cardinality(Handlers) - 1
  BY DEF WideningInv
<1>1. cycles[c].steps = 0
  BY DEF Init, Absent
<1> QED BY <1>1, WideningFinite, PlannerAssumption

(* A request that is answered, or that goes to a phase outside widening,   *)
(* leaves the requests widening.                                           *)
LEMMA LeavesWidening ==
  ASSUME TypeOK, NEW h \in Handlers, NEW c \in CycleIds,
         \/ \E d, a : Reply(h, d, a)
         \/ \E d, p : Go(h, d, p) /\ p \notin {"widen.planning", "widen.answered"}
         \/ op' = [op EXCEPT ![h] = Idle]
         \/ op' = [g \in Handlers |-> Idle]
  PROVE  Widening(c)' \subseteq Widening(c) \ {h}
<1> SUFFICES ASSUME NEW g \in Widening(c)'
             PROVE  g \in Widening(c) /\ g # h
  OBVIOUS
<1>t. op \in [Handlers -> Ops] /\ g \in Handlers
  BY DEF TypeOK, Widening
<1>1. op'[g].phase \in {"widen.planning", "widen.answered"} /\ op'[g].cycle = c
  BY DEF Widening
<1>2. ASSUME NEW d, NEW a, Reply(h, d, a) PROVE g # h /\ op'[g] = op[g]
  <2>1. [Idle EXCEPT !.phase = "replied", !.cycle = d, !.answer = a].phase = "replied"
    BY DEF Idle
  <2>2. op'[h].phase = "replied"
    BY <1>2, <1>t, <2>1 DEF Reply
  <2> QED BY <1>1, <1>2, <1>t, <2>2 DEF Reply
<1>3. ASSUME NEW d, NEW p, Go(h, d, p), p \notin {"widen.planning", "widen.answered"}
      PROVE  g # h /\ op'[g] = op[g]
  <2>1. op[h] \in Ops /\ op'[h] = [op[h] EXCEPT !.phase = p, !.cycle = d]
    BY <1>3, <1>t DEF Go
  <2>2. op'[h].phase = p
    BY <2>1 DEF Ops
  <2> QED BY <1>1, <1>3, <1>t, <2>2 DEF Go
<1>4. ASSUME op' = [op EXCEPT ![h] = Idle] PROVE g # h /\ op'[g] = op[g]
  BY <1>1, <1>4, <1>t DEF Idle
<1>5. ASSUME op' = [f \in Handlers |-> Idle] PROVE FALSE
  BY <1>1, <1>5, <1>t DEF Idle
<1> QED BY <1>1, <1>2, <1>3, <1>4, <1>5, <1>t DEF Widening

(* A close leaves the widening steps alone.                                *)
LEMMA CloseKeepsSteps ==
  ASSUME cycles \in [CycleIds -> Rows], NEW d, NEW status, NEW reason,
         cycles' = Closed(d, status, reason), NEW c \in CycleIds
  PROVE  cycles'[c].steps = cycles[c].steps
BY DEF Closed, Rows

(* The rows that keep their widening steps, statement by statement.        *)
LEMMA StepsKept ==
  ASSUME cycles \in [CycleIds -> Rows], NEW d, NEW c \in CycleIds
  PROVE  /\ Charged(d)[c].steps = cycles[c].steps
         /\ \A n \in 0 .. 1 : Tallied(d, n)[c].steps = cycles[c].steps
         /\ [cycles EXCEPT ![d].late = TRUE][c].steps = cycles[c].steps
<1>2. Charged(d)[c].steps = cycles[c].steps
  BY DEF Charged, Rows
<1>3. \A n \in 0 .. 1 : Tallied(d, n)[c].steps = cycles[c].steps
  BY DEF Tallied, Rows
<1>4. [cycles EXCEPT ![d].late = TRUE][c].steps = cycles[c].steps
  BY DEF Rows
<1> QED BY <1>2, <1>3, <1>4

(* Every step keeps the count of steps taken and steps owed.               *)
LEMMA WideningStep == TypeOK /\ WideningInv /\ [Next]_vars => WideningInv'
<1> SUFFICES ASSUME TypeOK, WideningInv, [Next]_vars PROVE WideningInv'
  OBVIOUS
<1>t. TypeOK' /\ cycles \in [CycleIds -> Rows] /\ op \in [Handlers -> Ops]
  BY TypeStep DEF TypeOK
<1>r. \A c \in CycleIds : cycles[c].steps \in Nat
  BY <1>t DEF Rows
<1>u. ASSUME UNCHANGED cycles PROVE \A c \in CycleIds : cycles'[c].steps <= cycles[c].steps
  BY <1>u, <1>r
<1>1. ASSUME NEW h \in Handlers, Start(h) PROVE Shrinks
  <2>1. \/ \E d, a : Reply(h, d, a)
        \/ \E d, p : Go(h, d, p) /\ p \notin {"widen.planning", "widen.answered"}
    BY <1>1 DEF Start, GateRefuses
  <2> QED BY <1>1, <2>1, <1>u, LeavesWidening DEF Start, Shrinks
<1>2. ASSUME NEW h \in Handlers, StartExpire(h) PROVE Shrinks
  <2>1. \A c \in CycleIds : cycles'[c].steps <= cycles[c].steps
    <3>1. cycles' = Closed(op[h].cycle, "done", "expired")
      BY <1>2 DEF StartExpire
    <3> QED BY <3>1, <1>t, <1>r, CloseKeepsSteps
  <2> QED BY <1>2, <2>1, LeavesWidening DEF StartExpire, Shrinks
<1>3. ASSUME NEW h \in Handlers, ModelFails(h) \/ AnswerUnreadable(h) \/ StartNotes(h) \/ YieldCheck(h)
      PROVE  Shrinks
  <2>1. \E d, a : Reply(h, d, a)
    BY <1>3 DEF ModelFails, AnswerUnreadable, StartNotes, YieldCheck
  <2>2. UNCHANGED cycles
    BY <1>3 DEF ModelFails, AnswerUnreadable, StartNotes, YieldCheck
  <2> QED BY <2>1, <2>2, <1>u, LeavesWidening DEF Shrinks
<1>4. ASSUME NEW h \in Handlers, ModelAnswers(h) PROVE Shrinks
  <2>1. CASE Go(h, 0, "start.answered")
    BY <1>4, <2>1, <1>u, LeavesWidening DEF ModelAnswers, Shrinks
  <2>2. CASE At(h, "widen.planning") /\ Go(h, op[h].cycle, "widen.answered")
    <3>1. \A c \in CycleIds : Widening(c)' \subseteq Widening(c)
      BY <2>2, <1>t DEF At, Go, Widening, Ops
    <3> QED BY <1>4, <3>1, <1>u DEF ModelAnswers, Shrinks
  <2> QED BY <1>4, <2>1, <2>2 DEF ModelAnswers
<1>5. ASSUME NEW h \in Handlers, StartOpen(h) PROVE Shrinks
  <2>1. PICK d \in CycleIds, bare \in BOOLEAN :
          /\ cycles' = [cycles EXCEPT ![d] = OpenedRow(bare)]
          /\ Go(h, d, IF bare THEN "start.emptied" ELSE "start.noting")
    BY <1>5 DEF StartOpen
  <2>2. \A c \in CycleIds : cycles'[c].steps <= cycles[c].steps
    BY <2>1, <1>t, <1>r DEF OpenedRow, Absent
  <2> QED BY <2>1, <2>2, LeavesWidening DEF Shrinks
<1>6. ASSUME NEW h \in Handlers, StartFailEmpty(h) PROVE Shrinks
  <2>1. \A c \in CycleIds : cycles'[c].steps <= cycles[c].steps
    <3>1. cycles' = Closed(op[h].cycle, "failed", "planner-failed")
      BY <1>6 DEF StartFailEmpty
    <3> QED BY <3>1, <1>t, <1>r, CloseKeepsSteps
  <2> QED BY <1>6, <2>1, LeavesWidening DEF StartFailEmpty, Shrinks
<1>7. ASSUME NEW h \in Handlers, NEW c \in CycleIds, Widen(h, c) PROVE WideningInv'
  <2>1. CASE \E d, a : Reply(h, d, a)
    <3>1. Shrinks
      BY <1>7, <2>1, <1>u, LeavesWidening DEF Widen, Shrinks
    <3> QED BY <3>1, <1>t, ShrinkKeeps
  <2>2. CASE Go(h, c, "widen.planning") /\ cycles[c].steps < MaxWideningSteps
    <3>1. SUFFICES ASSUME NEW d \in CycleIds
                   PROVE  cycles'[d].steps + Cardinality(Widening(d)')
                            <= MaxWideningSteps + Cardinality(Handlers) - 1
      BY DEF WideningInv
    <3>2. cycles' = cycles
      BY <1>7 DEF Widen
    <3>3. CASE d = c
      <4>1. /\ Cardinality(Widening(d)') <= Cardinality(Handlers)
            /\ Cardinality(Widening(d)') \in Nat /\ Cardinality(Handlers) \in Nat
        <5>1. Widening(d)' \subseteq Handlers
          BY DEF Widening
        <5> QED BY <5>1, PlannerAssumption, FS_Subset, FS_CardinalityType
      <4> QED BY <2>2, <3>2, <3>3, <4>1, <1>r, PlannerAssumption
    <3>4. CASE d # c
      <4>1. Widening(d)' \subseteq Widening(d)
        BY <2>2, <3>4, <1>t DEF Go, Widening, Ops
      <4>2. /\ Cardinality(Widening(d)') <= Cardinality(Widening(d))
            /\ Cardinality(Widening(d)') \in Nat /\ Cardinality(Widening(d)) \in Nat
            /\ Cardinality(Handlers) \in Nat
        BY <4>1, WideningFinite, FS_Subset, FS_CardinalityType
      <4> QED BY <3>2, <4>2, <1>r, PlannerAssumption DEF WideningInv
    <3> QED BY <3>3, <3>4
  <2> QED
    <3>1. cycles[c].steps >= MaxWideningSteps \/ cycles[c].steps < MaxWideningSteps
      BY <1>r, PlannerAssumption
    <3> QED BY <1>7, <2>1, <2>2, <3>1 DEF Widen, GateRefuses
<1>8. ASSUME NEW h \in Handlers, WidenSave(h) PROVE WideningInv'
  <2>1. SUFFICES ASSUME NEW d \in CycleIds
                 PROVE  cycles'[d].steps + Cardinality(Widening(d)')
                          <= MaxWideningSteps + Cardinality(Handlers) - 1
    BY DEF WideningInv
  <2>2. Widening(d)' \subseteq Widening(d) \ {h}
    BY <1>8, LeavesWidening DEF WidenSave
  <2>3. /\ Cardinality(Widening(d)') <= Cardinality(Widening(d) \ {h})
        /\ Cardinality(Widening(d)') \in Nat /\ Cardinality(Widening(d)) \in Nat
        /\ Cardinality(Widening(d) \ {h}) \in Nat
        /\ Cardinality(Handlers) \in Nat
    BY <2>2, WideningFinite, FS_Subset, FS_CardinalityType
  <2>4. CASE d = op[h].cycle
    <3>1. h \in Widening(d)
      BY <1>8, <2>4 DEF WidenSave, At, Widening
    <3>2. Cardinality(Widening(d) \ {h}) = Cardinality(Widening(d)) - 1
      BY <3>1, WideningFinite, FS_RemoveElement
    <3>3. cycles'[d].steps = cycles[d].steps + 1
      BY <1>8, <2>4, <1>t DEF WidenSave, Widened, Rows
    <3> QED BY <2>3, <3>2, <3>3, <1>r, PlannerAssumption DEF WideningInv
  <2>5. CASE d # op[h].cycle
    <3>1. cycles'[d].steps = cycles[d].steps
      BY <1>8, <2>5, <1>t DEF WidenSave, Widened
    <3>2. Cardinality(Widening(d)') <= Cardinality(Widening(d))
      BY <2>2, WideningFinite, FS_Subset
    <3> QED BY <2>3, <3>1, <3>2, <1>r, PlannerAssumption DEF WideningInv
  <2> QED BY <2>4, <2>5
<1>9. ASSUME NEW h \in Handlers, NEW c \in CycleIds, YieldBump(h, c) PROVE Shrinks
  <2>1. PICK n \in 0 .. 1 : cycles' = Tallied(c, n)
    BY <1>9 DEF YieldBump
  <2>2. \A d \in CycleIds : cycles'[d].steps <= cycles[d].steps
    BY <2>1, <1>t, <1>r, StepsKept
  <2>3. \A d \in CycleIds : Widening(d)' \subseteq Widening(d)
    BY <1>9, <1>t DEF YieldBump, Widening, Idle, Ops
  <2> QED BY <2>2, <2>3 DEF Shrinks
<1>10. ASSUME NEW c \in CycleIds, NEW status \in {"done", "failed"}, Finish(c, status) PROVE Shrinks
  <2>1. cycles' = Closed(c, status, "reported") /\ op' = op
    BY <1>10 DEF Finish
  <2>2. \A d \in CycleIds : cycles'[d].steps <= cycles[d].steps
    BY <2>1, <1>t, <1>r, CloseKeepsSteps
  <2> QED BY <2>1, <2>2 DEF Shrinks, Widening
<1>11. ASSUME NEW h \in Handlers, ChargeRecord(h) PROVE Shrinks
  BY <1>11, <1>u, LeavesWidening DEF ChargeRecord, Shrinks
<1>12. ASSUME NEW h \in Handlers, ChargeAim(h) PROVE Shrinks
  <2>1. \/ \E d, a : Reply(h, d, a)
        \/ \E d, p : Go(h, d, p) /\ p \notin {"widen.planning", "widen.answered"}
    BY <1>12 DEF ChargeAim
  <2> QED BY <1>12, <2>1, <1>u, LeavesWidening DEF ChargeAim, Shrinks
<1>13. ASSUME NEW h \in Handlers, ChargeBump(h) PROVE Shrinks
  <2>1. \A c \in CycleIds : cycles'[c].steps <= cycles[c].steps
    BY <1>13, <1>t, <1>r, StepsKept DEF ChargeBump
  <2> QED BY <1>13, <2>1, LeavesWidening DEF ChargeBump, Shrinks
<1>14. ASSUME NEW h \in Handlers, Deliver(h) PROVE Shrinks
  BY <1>14, <1>u, LeavesWidening DEF Deliver, Shrinks
<1>15. ASSUME Restart PROVE Shrinks
  <2>1. \A c \in CycleIds : Widening(c)' \subseteq Widening(c)
    BY <1>15 DEF Restart, Widening, Idle
  <2> QED BY <1>15, <1>u, <2>1 DEF Restart, Shrinks
<1>16. ASSUME NEW c \in CycleIds, Late(c) PROVE Shrinks
  BY <1>16, <1>t, <1>r, StepsKept DEF Late, Shrinks, Widening
<1>17. ASSUME UNCHANGED <<cycles, op>> PROVE Shrinks
  BY <1>17, <1>u DEF Shrinks, Widening
<1>18. ASSUME NEW h \in Handlers, Serve(h) PROVE WideningInv'
  BY <1>18, <1>t, ShrinkKeeps, <1>2, <1>3, <1>4, <1>5, <1>6, <1>8, <1>12, <1>13 DEF Serve
<1>19. Shrinks => WideningInv'
  BY <1>t, ShrinkKeeps
<1>20. CASE UNCHANGED vars
  BY <1>17, <1>19, <1>20 DEF vars
<1>21. CASE NewDay \/ \E part \in Flips : Flip(part)
  BY <1>17, <1>19, <1>21 DEF NewDay, Flip
<1>22. ASSUME NEW h \in Handlers,
              \/ Start(h) \/ ChargeRecord(h) \/ Serve(h) \/ Deliver(h)
              \/ \E c \in CycleIds : Widen(h, c) \/ YieldBump(h, c)
       PROVE  WideningInv'
  <2>1. CASE Start(h) \/ ChargeRecord(h) \/ Serve(h) \/ Deliver(h)
    BY <2>1, <1>19, <1>1, <1>11, <1>14, <1>18
  <2>2. ASSUME NEW c \in CycleIds, Widen(h, c) \/ YieldBump(h, c) PROVE WideningInv'
    BY <2>2, <1>19, <1>7, <1>9
  <2> QED BY <1>22, <2>1, <2>2
<1>23. CASE \/ \E c \in CycleIds, status \in {"done", "failed"} : Finish(c, status)
            \/ \E c \in CycleIds : Late(c)
  BY <1>23, <1>19, <1>10, <1>16
<1>24. CASE Restart
  BY <1>24, <1>15, <1>19
<1> QED BY <1>20, <1>21, <1>22, <1>23, <1>24 DEF Next

(* The settings' bound on the widening steps is overrun by at most the     *)
(* requests that were being served at the same time.                       *)
THEOREM WideningIsBounded == Spec => []WideningBounded
<1>1. ASSUME TypeOK, WideningInv PROVE WideningBounded
  <2> SUFFICES ASSUME NEW c \in CycleIds
               PROVE  cycles[c].steps <= MaxWideningSteps + Cardinality(Handlers) - 1
    BY DEF WideningBounded
  <2>1. cycles[c].steps \in Nat
    BY <1>1 DEF TypeOK, Rows
  <2> QED BY <1>1, <2>1, WideningFinite, PlannerAssumption DEF WideningInv
<1>2. Init => WideningInv
  BY WideningInit
<1>3. TypeOK /\ WideningInv /\ [Next]_vars => WideningInv'
  BY WideningStep
<1> QED BY <1>1, <1>2, <1>3, TypeCorrect, PTL DEF Spec

-----------------------------------------------------------------------------
(* The ledger.  A step adds a call to the days before a request owes it,   *)
(* and a round takes it only from a request that owes it.  The sets are    *)
(* finite because they grow by one call at a time.                         *)

Owing == {"start.answered", "widen.answered", "charge.recorded", "charge.aimed"}

LedgerInv ==
  /\ IsFiniteSet(Carried) /\ IsFiniteSet(Counted)
  /\ LedgerCovers

LEMMA NumberedPairs ==
  ASSUME NEW S, NEW count \in [S -> Nat]
  PROVE  \A pair : pair \in Numbered(count) <=> \E i \in S : \E k \in 1 .. count[i] : pair = <<i, k>>
BY DEF Numbered

(* One more of a row is one more in all. *)
LEMMA NumberedGrows ==
  ASSUME NEW S, NEW count \in [S -> Nat], NEW after \in [S -> Nat], NEW i \in S,
         \A j \in S \ {i} : after[j] = count[j], after[i] <= count[i] + 1
  PROVE  /\ Numbered(after) \subseteq Numbered(count) \cup {<<i, count[i] + 1>>}
         /\ after[i] = count[i] + 1 =>
              /\ Numbered(after) = Numbered(count) \cup {<<i, count[i] + 1>>}
              /\ <<i, count[i] + 1>> \notin Numbered(count)
<1>1. ASSUME NEW pair \in Numbered(after)
      PROVE  pair \in Numbered(count) \cup {<<i, count[i] + 1>>}
  <2>1. PICK j \in S : \E k \in 1 .. after[j] : pair = <<j, k>>
    BY NumberedPairs
  <2>2. PICK k \in 1 .. after[j] : pair = <<j, k>>
    BY <2>1
  <2>3. CASE j # i
    BY <2>2, <2>3, NumberedPairs
  <2>4. CASE j = i
    <3>1. k \in 1 .. count[i] \/ k = count[i] + 1
      BY <2>2, <2>4
    <3> QED BY <2>2, <2>4, <3>1, NumberedPairs
  <2> QED BY <2>3, <2>4
<1>2. ASSUME after[i] = count[i] + 1, NEW pair \in Numbered(count) \cup {<<i, count[i] + 1>>}
      PROVE  pair \in Numbered(after)
  <2>1. CASE pair = <<i, count[i] + 1>>
    <3>1. count[i] + 1 \in 1 .. after[i]
      BY <1>2
    <3> QED BY <2>1, <3>1, NumberedPairs
  <2>2. CASE pair \in Numbered(count)
    <3>1. PICK j \in S : \E k \in 1 .. count[j] : pair = <<j, k>>
      BY <2>2, NumberedPairs
    <3>2. PICK k \in 1 .. count[j] : pair = <<j, k>>
      BY <3>1
    <3>3. k \in 1 .. after[j]
      BY <1>2, <3>2
    <3> QED BY <3>2, <3>3, NumberedPairs
  <2> QED BY <1>2, <2>1, <2>2
<1>3. <<i, count[i] + 1>> \notin Numbered(count)
  <2> SUFFICES ASSUME <<i, count[i] + 1>> \in Numbered(count) PROVE FALSE
    OBVIOUS
  <2>1. PICK j \in S : \E k \in 1 .. count[j] : <<i, count[i] + 1>> = <<j, k>>
    BY NumberedPairs
  <2>2. PICK k \in 1 .. count[j] : <<i, count[i] + 1>> = <<j, k>>
    BY <2>1
  <2> QED BY <2>2
<1> QED BY <1>1, <1>2, <1>3

LEMMA PendingIsFinite ==
  ASSUME NEW some \in SUBSET Handlers
  PROVE  IsFiniteSet(some) /\ Cardinality(some) \in Nat
BY PlannerAssumption, FS_Subset, FS_CardinalityType

(* Nothing is counted or carried, and no request comes to owe a call. *)
LEMMA LedgerRests ==
  ASSUME LedgerInv, Carried' = Carried, Counted' = Counted, Pending' \subseteq Pending
  PROVE  LedgerInv'
<1>1. Pending \in SUBSET Handlers /\ Pending' \in SUBSET Pending
  BY DEF Pending
<1>2. /\ Cardinality(Pending) \in Nat /\ Cardinality(Pending') \in Nat
      /\ Cardinality(Pending') <= Cardinality(Pending)
  BY <1>1, PendingIsFinite, FS_Subset
<1>3. Cardinality(Carried) \in Nat /\ Cardinality(Counted) \in Nat
  BY FS_CardinalityType DEF LedgerInv
<1> QED BY <1>2, <1>3 DEF LedgerInv, LedgerCovers

(* A call is counted, and one request at most comes to owe it. *)
LEMMA LedgerCounts ==
  ASSUME TypeOK, LedgerInv, NEW h \in Handlers, Carried' = Carried, usage' = UsageBumped,
         Pending' \subseteq Pending \cup {h}
  PROVE  LedgerInv'
<1> DEFINE call == <<today, usage[today] + 1>>
<1>1. /\ usage \in [Days -> Nat] /\ usage' \in [Days -> Nat] /\ today \in Days
      /\ usage'[today] = usage[today] + 1 /\ usage[today] \in Nat
      /\ \A d \in Days \ {today} : usage'[d] = usage[d]
  BY DEF TypeOK, UsageBumped
<1>2. Counted' = Counted \cup {call} /\ call \notin Counted
  <2>1. usage'[today] <= usage[today] + 1
    BY <1>1
  <2> QED BY <1>1, <2>1, NumberedGrows DEF Counted
<1> HIDE DEF call
<1>3. /\ IsFiniteSet(Carried) /\ IsFiniteSet(Counted)
      /\ Cardinality(Carried) \in Nat /\ Cardinality(Counted) \in Nat
  BY FS_CardinalityType DEF LedgerInv
<1>4. IsFiniteSet(Counted') /\ Cardinality(Counted') = Cardinality(Counted) + 1
  BY <1>2, <1>3, FS_AddElement
<1>5. Pending \in SUBSET Handlers /\ Pending' \in SUBSET (Pending \cup {h})
  BY DEF Pending
<1>6. /\ IsFiniteSet(Pending \cup {h}) /\ Cardinality(Pending) \in Nat
      /\ Cardinality(Pending \cup {h}) \in {Cardinality(Pending), Cardinality(Pending) + 1}
  BY <1>5, PendingIsFinite, FS_AddElement
<1>7. Cardinality(Pending') <= Cardinality(Pending \cup {h}) /\ Cardinality(Pending') \in Nat
  BY <1>5, <1>6, FS_Subset, FS_CardinalityType
<1> QED BY <1>3, <1>4, <1>6, <1>7 DEF LedgerInv, LedgerCovers

(* A round takes a call from a request that owes it. *)
LEMMA LedgerCarries ==
  ASSUME LedgerInv, NEW h \in Pending, NEW call, Carried' \subseteq Carried \cup {call},
         Counted' = Counted, Pending' \subseteq Pending \ {h}
  PROVE  LedgerInv'
<1>1. /\ IsFiniteSet(Carried) /\ IsFiniteSet(Counted)
      /\ Cardinality(Carried) \in Nat /\ Cardinality(Counted) \in Nat
  BY FS_CardinalityType DEF LedgerInv
<1>2. /\ IsFiniteSet(Carried \cup {call})
      /\ Cardinality(Carried \cup {call}) \in {Cardinality(Carried), Cardinality(Carried) + 1}
  BY <1>1, FS_AddElement
<1>3. /\ IsFiniteSet(Carried') /\ Cardinality(Carried') \in Nat
      /\ Cardinality(Carried') <= Cardinality(Carried \cup {call})
  BY <1>2, FS_Subset, FS_CardinalityType
<1>4. Pending \in SUBSET Handlers /\ Pending' \in SUBSET (Pending \ {h})
  BY DEF Pending
<1>5. /\ IsFiniteSet(Pending \ {h}) /\ Cardinality(Pending) \in Nat
      /\ Cardinality(Pending \ {h}) = Cardinality(Pending) - 1
  BY <1>4, PendingIsFinite, FS_RemoveElement
<1>6. Cardinality(Pending') <= Cardinality(Pending \ {h}) /\ Cardinality(Pending') \in Nat
  BY <1>4, <1>5, FS_Subset, FS_CardinalityType
<1> QED BY <1>1, <1>2, <1>3, <1>5, <1>6 DEF LedgerInv, LedgerCovers

(* Who owes a call after a request has moved. *)
LEMMA PendingMoves ==
  ASSUME op \in [Handlers -> Ops], NEW h \in Handlers, NEW c
  PROVE  /\ \A phase : Go(h, c, phase) =>
              /\ Pending' \subseteq Pending \cup {h}
              /\ phase \notin Owing => Pending' \subseteq Pending \ {h}
         /\ \A answer : Reply(h, c, answer) => Pending' \subseteq Pending \ {h}
         /\ op' = [op EXCEPT ![h] = Idle] => Pending' \subseteq Pending
<1>1. ASSUME NEW phase, Go(h, c, phase)
      PROVE  /\ Pending' \subseteq Pending \cup {h}
             /\ phase \notin Owing => Pending' \subseteq Pending \ {h}
  <2>1. op'[h].phase = phase /\ \A g \in Handlers \ {h} : op'[g] = op[g]
    BY <1>1 DEF Go, Ops
  <2> QED BY <2>1 DEF Pending, Owing
<1>2. ASSUME NEW answer, Reply(h, c, answer) PROVE Pending' \subseteq Pending \ {h}
  <2>1. op'[h].phase = "replied" /\ \A g \in Handlers \ {h} : op'[g] = op[g]
    BY <1>2 DEF Reply, Idle
  <2> QED BY <2>1 DEF Pending
<1>3. ASSUME op' = [op EXCEPT ![h] = Idle] PROVE Pending' \subseteq Pending
  <2>1. op'[h].phase = "idle" /\ \A g \in Handlers \ {h} : op'[g] = op[g]
    BY <1>3 DEF Idle
  <2> QED BY <2>1 DEF Pending
<1> QED BY <1>1, <1>2, <1>3

LEMMA CarriedBy ==
  ASSUME TypeOK, TypeOK'
  PROVE  /\ (\A c \in CycleIds : cycles'[c].calls = cycles[c].calls) => Carried' = Carried
         /\ \A c \in CycleIds :
              /\ \A d \in CycleIds \ {c} : cycles'[d].calls = cycles[d].calls
              /\ cycles'[c].calls <= cycles[c].calls + 1
              => \E call : Carried' \subseteq Carried \cup {call}
<1> DEFINE before == [c \in CycleIds |-> cycles[c].calls]
           after == [c \in CycleIds |-> cycles'[c].calls]
<1>1. before \in [CycleIds -> Nat] /\ after \in [CycleIds -> Nat]
  BY DEF TypeOK, Rows
<1>2. Carried = Numbered(before) /\ Carried' = Numbered(after)
  BY DEF Carried
<1>3. ASSUME \A c \in CycleIds : cycles'[c].calls = cycles[c].calls
      PROVE  Carried' = Carried
  <2>1. before = after
    BY <1>3
  <2> QED BY <1>2, <2>1
<1>4. ASSUME NEW c \in CycleIds, \A d \in CycleIds \ {c} : cycles'[d].calls = cycles[d].calls,
             cycles'[c].calls <= cycles[c].calls + 1
      PROVE  \E call : Carried' \subseteq Carried \cup {call}
  <2>1. (\A d \in CycleIds \ {c} : after[d] = before[d]) /\ after[c] <= before[c] + 1
    BY <1>4
  <2> HIDE DEF before, after
  <2>2. Numbered(after) \subseteq Numbered(before) \cup {<<c, before[c] + 1>>}
    BY <1>1, <2>1, NumberedGrows
  <2> QED BY <1>2, <2>2
<1> QED BY <1>3, <1>4

(* What the statements do to the calls of the rounds. *)
LEMMA CallsAfter ==
  ASSUME cycles \in [CycleIds -> Rows], NEW c, NEW d \in CycleIds
  PROVE  /\ \A n \in 0 .. 1 : Tallied(c, n)[d].calls = cycles[d].calls
         /\ [cycles EXCEPT ![c].late = TRUE][d].calls = cycles[d].calls
         /\ d # c => Charged(c)[d] = cycles[d] /\ Widened(c)[d] = cycles[d]
         /\ d = c => /\ Charged(c)[d].calls = cycles[d].calls + 1
                     /\ Widened(c)[d].calls = cycles[d].calls + 1
<1>2. ASSUME NEW n \in 0 .. 1 PROVE Tallied(c, n)[d].calls = cycles[d].calls
  BY DEF Tallied, Rows
<1>3. [cycles EXCEPT ![c].late = TRUE][d].calls = cycles[d].calls
  BY DEF Rows
<1>4. d # c => Charged(c)[d] = cycles[d] /\ Widened(c)[d] = cycles[d]
  BY DEF Charged, Widened
<1>5. d = c => Charged(c)[d].calls = cycles[d].calls + 1
  BY DEF Charged, Rows
<1>6. d = c => Widened(c)[d].calls = cycles[d].calls + 1
  BY DEF Widened, Rows
<1> QED BY <1>2, <1>3, <1>4, <1>5, <1>6

LEMMA LedgerStep == TypeOK /\ LedgerInv /\ [Next]_vars => LedgerInv'
<1> SUFFICES ASSUME TypeOK, LedgerInv, [Next]_vars PROVE LedgerInv'
  OBVIOUS
<1>t. /\ TypeOK' /\ cycles \in [CycleIds -> Rows] /\ op \in [Handlers -> Ops]
      /\ \A c \in CycleIds : cycles[c].calls \in Nat
  BY TypeStep DEF TypeOK, Rows
<1>u. (UNCHANGED usage => Counted' = Counted) /\ (UNCHANGED cycles => Carried' = Carried)
  BY DEF Counted, Carried
<1>v. UNCHANGED op => Pending' = Pending
  BY DEF Pending
<1>1. ASSUME NEW h \in Handlers, Start(h) \/ \E c \in CycleIds : Widen(h, c)
      PROVE  LedgerInv'
  <2>1. /\ UNCHANGED <<cycles, usage>>
        /\ \/ \E c, answer : Reply(h, c, answer)
           \/ \E c, phase : Go(h, c, phase) /\ phase \notin Owing
    BY <1>1 DEF Start, Widen, GateRefuses, Owing
  <2>2. Pending' \subseteq Pending
    BY <1>t, <2>1, PendingMoves
  <2> QED BY <1>u, <2>1, <2>2, LedgerRests
<1>2. ASSUME NEW h \in Handlers, StartExpire(h) \/ StartFailEmpty(h) PROVE LedgerInv'
  <2>1. /\ UNCHANGED usage
        /\ \E status, reason : cycles' = Closed(op[h].cycle, status, reason)
        /\ \/ \E answer : Reply(h, 0, answer)
           \/ \E phase : Go(h, 0, phase) /\ phase \notin Owing
    BY <1>2 DEF StartExpire, StartFailEmpty, Owing
  <2>2. Pending' \subseteq Pending
    BY <1>t, <2>1, PendingMoves
  <2>3. Carried' = Carried
    <3>1. \A d \in CycleIds : cycles'[d].calls = cycles[d].calls
      <4>1. PICK status, reason : cycles' = Closed(op[h].cycle, status, reason)
        BY <2>1
      <4> QED BY <1>t, <4>1 DEF Closed, Rows
    <3> QED BY <1>t, <3>1, CarriedBy
  <2> QED BY <1>u, <2>1, <2>2, <2>3, LedgerRests
<1>3. ASSUME NEW h \in Handlers,
             \/ ModelFails(h) \/ AnswerUnreadable(h) \/ StartNotes(h) \/ YieldCheck(h)
      PROVE  LedgerInv'
  <2>1. UNCHANGED <<cycles, usage>> /\ \E c, answer : Reply(h, c, answer)
    BY <1>3 DEF ModelFails, AnswerUnreadable, StartNotes, YieldCheck
  <2>2. Pending' \subseteq Pending
    BY <1>t, <2>1, PendingMoves
  <2> QED BY <1>u, <2>1, <2>2, LedgerRests
<1>4. ASSUME NEW h \in Handlers, ModelAnswers(h) \/ ChargeRecord(h) PROVE LedgerInv'
  <2>1. usage' = UsageBumped /\ UNCHANGED cycles /\ \E c, phase : Go(h, c, phase)
    BY <1>4 DEF ModelAnswers, ChargeRecord
  <2>2. Pending' \subseteq Pending \cup {h}
    BY <1>t, <2>1, PendingMoves
  <2> QED BY <1>u, <2>1, <2>2, LedgerCounts
<1>5. ASSUME NEW h \in Handlers, StartOpen(h) PROVE LedgerInv'
  <2>1. PICK c \in CycleIds, bare \in BOOLEAN :
          /\ cycles' = [cycles EXCEPT ![c] = OpenedRow(bare)]
          /\ Go(h, c, IF bare THEN "start.emptied" ELSE "start.noting")
    BY <1>5 DEF StartOpen
  <2>2. Pending' \subseteq Pending \ {h} /\ h \in Pending /\ UNCHANGED usage
    <3>1. Pending' \subseteq Pending \ {h}
      BY <1>t, <2>1, PendingMoves DEF Owing
    <3> QED BY <1>5, <3>1 DEF StartOpen, At, Pending
  <2>3. OpenedRow(bare).calls = 1
    BY DEF OpenedRow, Absent
  <2>4. (\A d \in CycleIds \ {c} : cycles'[d] = cycles[d]) /\ cycles'[c].calls <= cycles[c].calls + 1
    BY <1>t, <2>1, <2>3
  <2>5. \E call : Carried' \subseteq Carried \cup {call}
    BY <1>t, <2>4, CarriedBy
  <2> QED BY <1>u, <2>2, <2>5, LedgerCarries
<1>6. ASSUME NEW h \in Handlers, WidenSave(h) \/ ChargeBump(h) PROVE LedgerInv'
  <2>1. /\ cycles' \in {Widened(op[h].cycle), Charged(op[h].cycle)} /\ UNCHANGED usage
        /\ h \in Pending /\ \E answer : Reply(h, 0, answer)
    BY <1>6 DEF WidenSave, ChargeBump, At, Pending
  <2>2. Pending' \subseteq Pending \ {h}
    BY <1>t, <2>1, PendingMoves
  <2>3. CASE op[h].cycle \in CycleIds
    <3>1. /\ \A d \in CycleIds \ {op[h].cycle} : cycles'[d] = cycles[d]
          /\ cycles'[op[h].cycle].calls = cycles[op[h].cycle].calls + 1
      BY <1>t, <2>1, <2>3, CallsAfter
    <3>2. cycles'[op[h].cycle].calls <= cycles[op[h].cycle].calls + 1
      BY <1>t, <2>3, <3>1
    <3>3. \E call : Carried' \subseteq Carried \cup {call}
      BY <1>t, <2>3, <3>1, <3>2, CarriedBy
    <3> QED BY <1>u, <2>1, <2>2, <3>3, LedgerCarries
  <2>4. CASE op[h].cycle \notin CycleIds
    <3>1. \A d \in CycleIds : cycles'[d].calls = cycles[d].calls
      BY <1>t, <2>1, <2>4, CallsAfter
    <3>2. Carried' = Carried
      BY <1>t, <3>1, CarriedBy
    <3> QED BY <1>u, <2>1, <2>2, <3>2, LedgerRests
  <2> QED BY <2>3, <2>4
<1>7. ASSUME NEW h \in Handlers, NEW c \in CycleIds, YieldBump(h, c) PROVE LedgerInv'
  <2>1. /\ UNCHANGED usage /\ \E n \in 0 .. 1 : cycles' = Tallied(c, n)
        /\ \A g \in Handlers \ {h} : op'[g] = op[g]
        /\ op'[h].phase = "yield.bumped"
    BY <1>7, <1>t DEF YieldBump, Idle
  <2>2. Carried' = Carried
    BY <1>t, <2>1, CallsAfter, CarriedBy
  <2>3. Pending' \subseteq Pending
    BY <2>1 DEF Pending
  <2> QED BY <1>u, <2>1, <2>2, <2>3, LedgerRests
<1>8. ASSUME NEW h \in Handlers, ChargeAim(h) PROVE LedgerInv'
  <2>1. /\ UNCHANGED <<cycles, usage>> /\ h \in Pending
        /\ \/ \E answer : Reply(h, 0, answer)
           \/ \E c, phase : Go(h, c, phase)
    BY <1>8 DEF ChargeAim, At, Pending
  <2>2. Pending' \subseteq Pending
    BY <1>t, <2>1, PendingMoves
  <2> QED BY <1>u, <2>1, <2>2, LedgerRests
<1>9. ASSUME NEW h \in Handlers, Deliver(h) PROVE LedgerInv'
  <2>1. UNCHANGED <<cycles, usage>> /\ op' = [op EXCEPT ![h] = Idle]
    BY <1>9 DEF Deliver
  <2>2. Pending' \subseteq Pending
    BY <1>t, <2>1, PendingMoves
  <2> QED BY <1>u, <2>1, <2>2, LedgerRests
<1>10. CASE Restart
  <2>1. UNCHANGED <<cycles, usage>> /\ \A h \in Handlers : op'[h].phase = "idle"
    BY <1>10 DEF Restart, Idle
  <2>2. Pending' \subseteq Pending
    BY <2>1 DEF Pending
  <2> QED BY <1>u, <2>1, <2>2, LedgerRests
<1>11. ASSUME NEW c \in CycleIds,
              Late(c) \/ \E status \in {"done", "failed"} : Finish(c, status)
       PROVE  LedgerInv'
  <2>1. /\ UNCHANGED <<usage, op>>
        /\ \/ cycles' = [cycles EXCEPT ![c].late = TRUE]
           \/ \E status : cycles' = Closed(c, status, "reported")
    BY <1>11 DEF Late, Finish
  <2>2. Carried' = Carried
    <3>1. \A d \in CycleIds : cycles'[d].calls = cycles[d].calls
      <4>1. CASE \E status : cycles' = Closed(c, status, "reported")
        <5>1. PICK status : cycles' = Closed(c, status, "reported")
          BY <4>1
        <5> QED BY <1>t, <5>1 DEF Closed, Rows
      <4>2. CASE cycles' = [cycles EXCEPT ![c].late = TRUE]
        BY <1>t, <4>2, CallsAfter
      <4> QED BY <2>1, <4>1, <4>2
    <3> QED BY <1>t, <3>1, CarriedBy
  <2> QED BY <1>u, <1>v, <2>1, <2>2, LedgerRests
<1>12. CASE NewDay \/ (\E part \in Flips : Flip(part)) \/ UNCHANGED vars
  <2>1. UNCHANGED <<cycles, usage, op>>
    BY <1>12 DEF NewDay, Flip, vars
  <2> QED BY <1>u, <1>v, <2>1, LedgerRests
<1> QED BY <1>1, <1>2, <1>3, <1>4, <1>5, <1>6, <1>7, <1>8, <1>9, <1>10, <1>11, <1>12
        DEF Next, Serve

LEMMA LedgerInit == Init => LedgerInv
<1> SUFFICES ASSUME Init PROVE LedgerInv
  OBVIOUS
<1>1. Carried = {} /\ Counted = {} /\ Pending = {}
  <2>1. [c \in CycleIds |-> cycles[c].calls] = [c \in CycleIds |-> 0]
    BY DEF Init, Absent
  <2>2. ASSUME NEW S PROVE Numbered([i \in S |-> 0]) = {}
    BY DEF Numbered
  <2> QED BY <2>1, <2>2 DEF Init, Carried, Counted, Pending, Idle
<1> QED BY <1>1, FS_EmptySet DEF LedgerInv, LedgerCovers

(* Whatever requests interleave, fail or are lost in a restart, and        *)
(* however the days turn under them, the rounds never carry a model call   *)
(* that no day has counted.                                                *)
THEOREM LedgerIsCovered == Spec => []LedgerCovers
<1>1. LedgerInv => LedgerCovers
  BY DEF LedgerInv
<1> QED BY <1>1, LedgerInit, LedgerStep, TypeCorrect, PTL DEF Spec

-----------------------------------------------------------------------------
(* One request at a time, one open round.  Not inductive on its own: the   *)
(* request that plans relies on what it read when it found no round open.  *)

LoneInv ==
  \A h \in Handlers : Handlers = {h} =>
    /\ \A c, d \in Open : c = d
    /\ op[h].phase \in {"start.planning", "start.answered"} => Open = {}
    /\ op[h].phase = "start.expired" => Open \subseteq {op[h].cycle}

(* A step that opens no round and sends no request to plan one.            *)
Settles ==
  /\ Open' \subseteq Open
  /\ \A h \in Handlers :
       \/ op'[h].phase \notin {"start.planning", "start.answered", "start.expired"}
       \/ op'[h] = op[h]

LEMMA SettlesKeeps ==
  ASSUME LoneInv, Settles
  PROVE  LoneInv'
BY DEF LoneInv, Settles

(* Which phase a request is in after it was moved or answered.             *)
LEMMA PhaseAfter ==
  ASSUME op \in [Handlers -> Ops], NEW h \in Handlers, NEW c
  PROVE  /\ \A a : Reply(h, c, a) => /\ op'[h].phase = "replied"
                                     /\ \A g \in Handlers \ {h} : op'[g] = op[g]
         /\ \A p : Go(h, c, p) => /\ op'[h].phase = p /\ op'[h].cycle = c
                                  /\ \A g \in Handlers \ {h} : op'[g] = op[g]
<1>1. ASSUME NEW a, Reply(h, c, a)
      PROVE  op'[h].phase = "replied" /\ \A g \in Handlers \ {h} : op'[g] = op[g]
  <2>1. [Idle EXCEPT !.phase = "replied", !.cycle = c, !.answer = a].phase = "replied"
    BY DEF Idle
  <2> QED BY <1>1, <2>1 DEF Reply
<1>2. ASSUME NEW p, Go(h, c, p)
      PROVE  /\ op'[h].phase = p /\ op'[h].cycle = c
             /\ \A g \in Handlers \ {h} : op'[g] = op[g]
  <2>1. op[h] \in Ops /\ op'[h] = [op[h] EXCEPT !.phase = p, !.cycle = c]
    BY <1>2 DEF Go
  <2>2. op'[h].phase = p /\ op'[h].cycle = c
    BY <2>1 DEF Ops
  <2> QED BY <1>2, <2>2 DEF Go
<1> QED BY <1>1, <1>2

(* An answer, or a phase outside planning, opens no round by itself.       *)
LEMMA MovesSettle ==
  ASSUME TypeOK, Open' \subseteq Open, NEW h \in Handlers,
         \/ \E c, a : Reply(h, c, a)
         \/ \E c, p : /\ Go(h, c, p)
                      /\ p \notin {"start.planning", "start.answered", "start.expired"}
  PROVE  Settles
BY PhaseAfter DEF TypeOK, Settles

(* Closing a round takes it, and nothing else, out of the open ones.       *)
LEMMA CloseShrinks ==
  ASSUME TypeOK, NEW c, NEW status \in {"done", "failed"}, NEW reason,
         cycles' = Closed(c, status, reason)
  PROVE  Open' \subseteq Open \ {c}
BY DEF TypeOK, Closed, Open

(* Updating the counts of a round leaves it as open as it was.             *)
LEMMA UpdatesKeepOpen ==
  ASSUME TypeOK, \A c \in CycleIds : cycles'[c].status = cycles[c].status
  PROVE  Open' = Open
BY DEF Open

(* Every step keeps the open round alone.                                  *)
LEMMA LoneStep == TypeOK /\ LoneInv /\ [Next]_vars => LoneInv'
<1> SUFFICES ASSUME TypeOK, LoneInv, [Next]_vars PROVE LoneInv'
  OBVIOUS
<1>t. cycles \in [CycleIds -> Rows] /\ op \in [Handlers -> Ops]
  BY DEF TypeOK
<1>u. ASSUME UNCHANGED cycles PROVE Open' = Open
  BY <1>u DEF Open
<1>1. ASSUME NEW h \in Handlers, Start(h) PROVE LoneInv'
  <2>0. Open' = Open
    BY <1>1, <1>u DEF Start
  <2>1. CASE \E c, a : Reply(h, c, a)
    BY <2>0, <2>1, MovesSettle, SettlesKeeps
  <2>2. CASE Open = {} /\ Go(h, 0, "start.planning")
    BY <2>0, <2>2, <1>t, PhaseAfter DEF LoneInv
  <2>3. ASSUME NEW c \in Open, Go(h, c, "start.expired") PROVE LoneInv'
    BY <2>0, <2>3, <1>t, PhaseAfter DEF LoneInv
  <2> QED BY <1>1, <2>1, <2>2, <2>3 DEF Start, GateRefuses
<1>2. ASSUME NEW h \in Handlers, StartExpire(h) PROVE LoneInv'
  <2>1. Open' \subseteq Open \ {op[h].cycle}
    <3>1. cycles' = Closed(op[h].cycle, "done", "expired")
      BY <1>2 DEF StartExpire
    <3> QED BY <3>1, CloseShrinks
  <2>2. Handlers = {h} => Open' = {}
    BY <1>2, <2>1 DEF LoneInv, StartExpire, At
  <2> QED BY <2>2 DEF LoneInv
<1>3. ASSUME NEW h \in Handlers,
             ModelFails(h) \/ AnswerUnreadable(h) \/ StartNotes(h) \/ YieldCheck(h)
      PROVE  Settles
  <2>1. (\E c, a : Reply(h, c, a)) /\ UNCHANGED cycles
    BY <1>3 DEF ModelFails, AnswerUnreadable, StartNotes, YieldCheck
  <2> QED BY <2>1, <1>u, MovesSettle
<1>4. ASSUME NEW h \in Handlers, ModelAnswers(h) PROVE LoneInv'
  <2>0. Open' = Open
    BY <1>4, <1>u DEF ModelAnswers
  <2>1. CASE At(h, "start.planning") /\ Go(h, 0, "start.answered")
    BY <2>0, <2>1, <1>t, PhaseAfter DEF LoneInv, At
  <2>2. CASE Go(h, op[h].cycle, "widen.answered")
    BY <2>0, <2>2, MovesSettle, SettlesKeeps
  <2> QED BY <1>4, <2>1, <2>2 DEF ModelAnswers
<1>5. ASSUME NEW h \in Handlers, StartOpen(h) PROVE LoneInv'
  <2>1. PICK d \in CycleIds, bare \in BOOLEAN :
          /\ cycles' = [cycles EXCEPT ![d] = OpenedRow(bare)]
          /\ Go(h, d, IF bare THEN "start.emptied" ELSE "start.noting")
    BY <1>5 DEF StartOpen
  <2>2. Open' \subseteq Open \cup {d}
    BY <2>1, <1>t DEF Open
  <2>3. Handlers = {h} => Open = {}
    BY <1>5 DEF LoneInv, StartOpen, At
  <2>4. op'[h].phase \notin {"start.planning", "start.answered", "start.expired"}
    <3>1. op'[h].phase = IF bare THEN "start.emptied" ELSE "start.noting"
      BY <2>1, <1>t, PhaseAfter
    <3> QED BY <3>1
  <2> QED BY <2>2, <2>3, <2>4 DEF LoneInv
<1>6. ASSUME NEW h \in Handlers, StartFailEmpty(h) PROVE Settles
  <2>1. cycles' = Closed(op[h].cycle, "failed", "planner-failed")
    BY <1>6 DEF StartFailEmpty
  <2>2. Open' \subseteq Open
    BY <2>1, CloseShrinks
  <2> QED BY <1>6, <2>2, MovesSettle DEF StartFailEmpty
<1>7. ASSUME NEW h \in Handlers, NEW c \in CycleIds, Widen(h, c) PROVE Settles
  <2>1. (\E d, a : Reply(h, d, a)) \/ Go(h, c, "widen.planning")
    BY <1>7 DEF Widen, GateRefuses
  <2> QED BY <1>7, <2>1, <1>u, MovesSettle DEF Widen
<1>8. ASSUME NEW h \in Handlers, WidenSave(h) PROVE Settles
  <2>1. Open' = Open
    BY <1>8, <1>t, UpdatesKeepEnds, UpdatesKeepOpen DEF WidenSave
  <2> QED BY <1>8, <2>1, MovesSettle DEF WidenSave
<1>9. ASSUME NEW h \in Handlers, NEW c \in CycleIds, YieldBump(h, c) PROVE Settles
  <2>1. PICK n \in 0 .. 1 : cycles' = Tallied(c, n)
    BY <1>9 DEF YieldBump
  <2>2. Open' = Open
    BY <2>1, <1>t, UpdatesKeepEnds, UpdatesKeepOpen
  <2>3. \A g \in Handlers : op'[g].phase = "yield.bumped" \/ op'[g] = op[g]
    BY <1>9, <1>t DEF YieldBump, Idle
  <2> QED BY <2>2, <2>3 DEF Settles
<1>10. ASSUME NEW c \in CycleIds, NEW status \in {"done", "failed"}, Finish(c, status) PROVE Settles
  <2>1. Open' \subseteq Open
    BY <1>10, CloseShrinks DEF Finish
  <2> QED BY <1>10, <2>1 DEF Finish, Settles
<1>11. ASSUME NEW h \in Handlers, ChargeRecord(h) PROVE Settles
  BY <1>11, <1>u, MovesSettle DEF ChargeRecord
<1>12. ASSUME NEW h \in Handlers, ChargeAim(h) PROVE Settles
  <2>1. (\E d, a : Reply(h, d, a)) \/ (\E d : Go(h, d, "charge.aimed"))
    BY <1>12 DEF ChargeAim
  <2> QED BY <1>12, <2>1, <1>u, MovesSettle DEF ChargeAim
<1>13. ASSUME NEW h \in Handlers, ChargeBump(h) PROVE Settles
  <2>1. Open' = Open
    BY <1>13, <1>t, UpdatesKeepEnds, UpdatesKeepOpen DEF ChargeBump
  <2> QED BY <1>13, <2>1, MovesSettle DEF ChargeBump
<1>14. ASSUME NEW h \in Handlers, Deliver(h) PROVE Settles
  BY <1>14, <1>u, <1>t DEF Deliver, Settles, Idle
<1>15. ASSUME Restart PROVE Settles
  BY <1>15, <1>u DEF Restart, Settles, Idle
<1>16. ASSUME NEW c \in CycleIds, Late(c) PROVE Settles
  <2>1. Open' = Open
    BY <1>16, <1>t, UpdatesKeepOpen DEF Late, Rows
  <2> QED BY <1>16, <2>1 DEF Late, Settles
<1>17. ASSUME UNCHANGED <<cycles, op>> PROVE Settles
  BY <1>17, <1>u DEF Settles
<1>s. Settles => LoneInv'
  BY SettlesKeeps
<1>18. ASSUME NEW h \in Handlers, Serve(h) PROVE LoneInv'
  BY <1>18, <1>s, <1>2, <1>3, <1>4, <1>5, <1>6, <1>8, <1>12, <1>13 DEF Serve
<1>19. ASSUME NEW h \in Handlers, NEW c \in CycleIds, Widen(h, c) \/ YieldBump(h, c)
       PROVE  LoneInv'
  BY <1>19, <1>s, <1>7, <1>9
<1>20. ASSUME NEW h \in Handlers, Start(h) \/ ChargeRecord(h) \/ Deliver(h)
       PROVE  LoneInv'
  BY <1>20, <1>s, <1>1, <1>11, <1>14
<1>21. CASE \/ \E c \in CycleIds, status \in {"done", "failed"} : Finish(c, status)
            \/ \E c \in CycleIds : Late(c)
            \/ Restart
  BY <1>21, <1>s, <1>10, <1>15, <1>16
<1>22. CASE NewDay \/ (\E part \in Flips : Flip(part)) \/ UNCHANGED vars
  BY <1>22, <1>s, <1>17 DEF NewDay, Flip, vars
<1> QED BY <1>18, <1>19, <1>20, <1>21, <1>22 DEF Next

(* A caller that asks one thing at a time never leaves two rounds open,    *)
(* whatever restarts, empty plans and late closes come between.            *)
THEOREM LoneRequestKeepsOneRound == Spec => []LoneRequestOneRound
<1>1. Init => LoneInv
  BY DEF Init, Open, Absent, LoneInv, Idle
<1>2. LoneInv => LoneRequestOneRound
  BY DEF LoneInv, LoneRequestOneRound
<1>3. TypeOK /\ LoneInv /\ [Next]_vars => LoneInv'
  BY LoneStep
<1> QED BY <1>1, <1>2, <1>3, TypeCorrect, PTL DEF Spec

-----------------------------------------------------------------------------
(* The refinement.  A row stands for a round of the abstract sequence only *)
(* while its status and its reason agree.                                  *)

Standings == {Sequence!Absent, Sequence!Running} \cup Sequence!Ends

StandInv == \A c \in CycleIds : <<cycles[c].status, cycles[c].reason>> \in Standings

LEMMA StandStep == TypeOK /\ StandInv /\ [Next]_vars => StandInv'
<1> SUFFICES ASSUME TypeOK, StandInv, [Next]_vars, NEW d \in CycleIds
             PROVE  <<cycles'[d].status, cycles'[d].reason>> \in Standings
  BY DEF StandInv, Standings, Sequence!Absent, Sequence!Running, Sequence!Ends
<1>t. cycles \in [CycleIds -> Rows]
  BY DEF TypeOK
<1>1. CASE EndsAlone
  BY <1>1 DEF EndsAlone, StandInv
<1>2. CASE Closing
  <2>1. PICK end \in Sequence!Ends, c \in 0 .. MaxCycles : cycles' = Closed(c, end[1], end[2])
    BY <1>2 DEF Closing
  <2>2. CASE c \in Open /\ d = c
    <3>1. cycles'[d].status = end[1] /\ cycles'[d].reason = end[2]
      BY <2>1, <2>2, <1>t DEF Closed, Rows
    <3> QED BY <3>1 DEF Standings, Sequence!Ends
  <2>3. CASE ~(c \in Open /\ d = c)
    <3>1. cycles'[d] = cycles[d]
      BY <2>1, <2>3, <1>t DEF Closed
    <3> QED BY <3>1 DEF StandInv
  <2> QED BY <2>2, <2>3
<1>3. CASE Opening
  <2>1. PICK c \in CycleIds, bare \in BOOLEAN : cycles' = [cycles EXCEPT ![c] = OpenedRow(bare)]
    BY <1>3 DEF Opening
  <2>2. CASE d = c
    <3>1. cycles'[d].status = "open" /\ cycles'[d].reason = "none"
      BY <2>1, <2>2, <1>t DEF OpenedRow, Absent
    <3> QED BY <3>1 DEF Standings, Sequence!Running
  <2>3. CASE d # c
    BY <2>1, <2>3, <1>t DEF StandInv
  <2> QED BY <2>2, <2>3
<1> QED BY <1>1, <1>2, <1>3, StepsOfRounds

(* A step of the planner, with one request being served, is a step of the  *)
(* sequence or leaves it as it is.                                         *)
LEMMA SequenceStep ==
  ASSUME NEW g, Handlers = {g}, TypeOK, StandInv, LoneInv, [Next]_vars
  PROVE  [Sequence!Next]_([c \in CycleIds |-> <<cycles[c].status, cycles[c].reason>>])
<1> DEFINE Standing == [c \in CycleIds |-> <<cycles[c].status, cycles[c].reason>>]
<1> DEFINE After == [c \in CycleIds |-> <<cycles'[c].status, cycles'[c].reason>>]
<1>t. cycles \in [CycleIds -> Rows]
  BY DEF TypeOK
<1>i. Sequence!Rounds = CycleIds
  BY DEF Sequence!Rounds, CycleIds
<1>1. CASE EndsAlone
  <2>1. Standing' = Standing
    BY <1>1 DEF EndsAlone
  <2> QED BY <2>1
<1>2. CASE Closing
  <2>1. PICK end \in Sequence!Ends, c \in 0 .. MaxCycles : cycles' = Closed(c, end[1], end[2])
    BY <1>2 DEF Closing
  <2>2. CASE c \in Open
    <3>1. c \in CycleIds /\ cycles[c].status = "open"
      BY <2>2 DEF Open
    <3>2. Standing[c] = Sequence!Running
      BY <3>1 DEF StandInv, Standings, Sequence!Absent, Sequence!Running, Sequence!Ends
    <3>3. end = <<end[1], end[2]>>
      BY DEF Sequence!Ends
    <3>4. \A d \in CycleIds :
            After[d] = IF d = c THEN end ELSE Standing[d]
      BY <2>1, <2>2, <3>1, <3>3, <1>t DEF Closed, Rows
    <3>5. After = [Standing EXCEPT ![c] = end]
      BY <3>4
    <3>6. Sequence!End(c)
      BY <3>2, <3>5 DEF Sequence!End
    <3> QED BY <3>1, <3>6, <1>i DEF Sequence!Next
  <2>3. CASE c \notin Open
    <3>1. cycles' = cycles
      BY <2>1, <2>3 DEF Closed
    <3> QED BY <3>1
  <2> QED BY <2>2, <2>3
<1>3. CASE Opening
  <2>1. PICK h \in Handlers, c \in CycleIds, bare \in BOOLEAN :
          At(h, "start.answered") /\ NextId(c) /\ cycles' = [cycles EXCEPT ![c] = OpenedRow(bare)]
    BY <1>3 DEF Opening
  <2>2. Open = {}
    BY <2>1 DEF LoneInv, At
  <2>3. \A d \in CycleIds : Standing[d] # Sequence!Running
    BY <2>2 DEF Open, Sequence!Running
  <2>4. Standing[c] = Sequence!Absent
    <3>1. cycles[c].status = "absent"
      BY <2>1 DEF NextId, Opened
    <3> QED BY <3>1 DEF StandInv, Standings, Sequence!Absent, Sequence!Running, Sequence!Ends
  <2>5. ASSUME NEW d \in CycleIds, d < c PROVE Standing[d] \in Sequence!Ends
    <3>1. cycles[d].status # "absent"
      BY <2>1, <2>5 DEF NextId, Opened
    <3>2. cycles[d].status # "open"
      BY <2>2 DEF Open
    <3> QED BY <3>1, <3>2 DEF StandInv, Standings, Sequence!Absent, Sequence!Running
  <2>6. \A d \in CycleIds : After[d] = IF d = c THEN Sequence!Running ELSE Standing[d]
    BY <2>1, <1>t DEF OpenedRow, Absent, Sequence!Running
  <2>7. After = [Standing EXCEPT ![c] = Sequence!Running]
    BY <2>6
  <2>8. Sequence!Begin(c)
    BY <2>3, <2>4, <2>5, <2>7, <1>i DEF Sequence!Begin
  <2> QED BY <2>8, <1>i DEF Sequence!Next
<1> QED BY <1>1, <1>2, <1>3, StepsOfRounds

(* A caller that asks one thing at a time sees the rounds come one after   *)
(* another, each closed once and for a reason the code names.              *)
THEOREM LoneRequestsComeInSequence ==
  ASSUME NEW g, Handlers = {g}
  PROVE  Spec => InSequence
<1>1. Init => Sequence!Init
  BY DEF Init, Sequence!Init, Sequence!Rounds, CycleIds, Absent, Sequence!Absent
<1>2. Init => StandInv
  BY DEF Init, StandInv, Standings, Absent, Sequence!Absent
<1>3. Init => LoneInv
  BY DEF Init, Open, Absent, LoneInv, Idle
<1>4. TypeOK /\ StandInv /\ [Next]_vars => StandInv'
  BY StandStep
<1>5. TypeOK /\ LoneInv /\ [Next]_vars => LoneInv'
  BY LoneStep
<1>6. TypeOK /\ StandInv /\ LoneInv /\ [Next]_vars =>
        [Sequence!Next]_([c \in CycleIds |-> <<cycles[c].status, cycles[c].reason>>])
  BY SequenceStep
<1> QED BY <1>1, <1>2, <1>3, <1>4, <1>5, <1>6, TypeCorrect, PTL
        DEF Spec, InSequence, Sequence!Spec

=============================================================================
