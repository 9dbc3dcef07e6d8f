------------------------------- MODULE Planner -------------------------------
(***************************************************************************)
(* The planner of the API: the rounds it keeps in the store, the model     *)
(* calls it counts, and the request handlers that plan, widen, tally and   *)
(* finish a round (src/apps/api/internal/routes/planner).  The queries of  *)
(* a round are the subject of RoundQueries.                                *)
(*                                                                         *)
(* The service holds no lock of its own.  The store has one connection, so *)
(* every statement and every transaction is atomic, and nothing else is: a *)
(* handler that awaits the model between two statements acts on what it    *)
(* read before.  Each handler is therefore a small program whose phase is  *)
(* op[h].phase, and one action is one statement or transaction together    *)
(* with the computation up to the next one.                                *)
(***************************************************************************)
EXTENDS Naturals, FiniteSets

CONSTANTS
  Handlers,          \* requests the API may be serving at the same time
  DailyCap,          \* settings.budget.dailyModelCallCap, 0 is no cap
  RoundCap,          \* settings.budget.maxModelCallsPerCycle, 0 is no ceiling
  MaxWideningSteps,  \* settings.harvest.maxWideningSteps
  NewJobTarget,      \* settings.harvest.newJobTarget
  MaxCycles,         \* bound: rounds one behaviour may open
  MaxUsage,          \* bound: model calls counted on one day
  MaxDays,           \* bound: days one behaviour may span
  Flips              \* the parts of the desk that may change: a subset of Parts

Parts == {"paused", "connected", "indexed"}

ASSUME PlannerAssumption ==
  /\ IsFiniteSet(Handlers) /\ Handlers # {}
  /\ DailyCap \in Nat /\ RoundCap \in Nat
  /\ MaxWideningSteps \in Nat \ {0} /\ NewJobTarget \in Nat \ {0}
  /\ MaxCycles \in Nat \ {0} /\ MaxUsage \in Nat /\ MaxDays \in Nat \ {0}
  /\ Flips \subseteq Parts

VARIABLES
  cycles,  \* the cycles table, by id
  usage,   \* the model_usage table: calls by day
  today,   \* the day of the API's clock
  desk,    \* what the gate reads of settings, plugin and indexer
  op       \* the request each handler is serving

vars == <<cycles, usage, today, desk, op>>

CycleIds == 1 .. MaxCycles
Days == 1 .. MaxDays

Statuses == {"absent", "open", "done", "failed"}

(* How a round ended; "expired" is the sentence Start closes it with. *)
Reasons == {"none", "expired", "planner-failed", "reported"}

Phases ==
  { "idle", "start.expired", "start.planning", "start.answered",
    "start.emptied", "start.noting", "widen.planning", "widen.answered",
    "yield.bumped", "charge.recorded", "charge.aimed", "replied" }

GateReasons == {"paused", "executor-offline", "no-profile", "daily-cap", "round-cap"}

Answers ==
  { "none", "planned", "resumed", "widened", "continue", "stop", "ok", "error",
    "planner-failed", "round-closed", "widening-spent" } \cup GateReasons

Rows ==
  [ status   : Statuses,
    reason   : Reasons,
    late     : BOOLEAN,          \* roundDeadlineMs have passed since started_at
    steps    : Nat,              \* widening_steps
    calls    : Nat,              \* model_calls
    inserted : 0 .. NewJobTarget,
    bare     : BOOLEAN ]         \* the round has no row in cycle_queries

Ops ==
  [ phase  : Phases,
    cycle  : 0 .. MaxCycles,     \* the round the request is about, 0 is none yet
    paused : BOOLEAN,            \* the pause switch as read before the transaction
    answer : Answers ]

Absent ==
  [ status |-> "absent", reason |-> "none", late |-> FALSE, steps |-> 0, calls |-> 0,
    inserted |-> 0, bare |-> TRUE ]

Idle ==
  [ phase |-> "idle", cycle |-> 0, paused |-> FALSE, answer |-> "none" ]

Init ==
  /\ cycles = [c \in CycleIds |-> Absent]
  /\ usage = [d \in Days |-> 0]
  /\ today = 1
  /\ desk = [part \in Parts |-> part # "paused"]
  /\ op = [h \in Handlers |-> Idle]

-----------------------------------------------------------------------------
(* Reading the store.                                                      *)

Opened == {c \in CycleIds : cycles[c].status # "absent"}
Open   == {c \in CycleIds : cycles[c].status = "open"}

(* CurrentCycle and OpenCycleSpend: the open round with the highest id. *)
IsCurrent(c) == c \in Open /\ \A d \in Open : d <= c

DailySpent == DailyCap > 0 /\ usage[today] >= DailyCap
RoundSpent == RoundCap > 0 /\ \E c \in Open : IsCurrent(c) /\ cycles[c].calls >= RoundCap

(* The refusals of gate, in the order it tries them. *)
GateOrder == <<"paused", "executor-offline", "no-profile", "daily-cap", "round-cap">>

Blocks(reason) ==
  \/ reason = "paused"           /\ desk.paused
  \/ reason = "executor-offline" /\ ~desk.connected
  \/ reason = "no-profile"       /\ ~desk.indexed
  \/ reason = "daily-cap"        /\ DailySpent
  \/ reason = "round-cap"        /\ RoundSpent

GatePasses == \A i \in 1 .. 5 : ~Blocks(GateOrder[i])

At(h, phase) == op[h].phase = phase

Go(h, c, phase) == op' = [op EXCEPT ![h].phase = phase, ![h].cycle = c]

(* Only the answers of Start name a round. *)
Reply(h, c, answer) ==
  op' = [op EXCEPT ![h] = [Idle EXCEPT !.phase = "replied", !.cycle = c, !.answer = answer]]

(* gate refuses with the first reason that blocks, before any model call. *)
GateRefuses(h) ==
  \E i \in 1 .. 5 :
    /\ Blocks(GateOrder[i])
    /\ \A j \in 1 .. (i - 1) : ~Blocks(GateOrder[j])
    /\ Reply(h, 0, GateOrder[i])

-----------------------------------------------------------------------------
(* The statements that write, as the next value of the table.              *)

(* INSERT INTO cycles takes the next id. *)
NextId(c) == c \notin Opened /\ \A d \in CycleIds : d < c => d \in Opened

(* The transaction of open: the round, its queries, and the call that      *)
(* planned it.                                                             *)
OpenedRow(bare) == [Absent EXCEPT !.status = "open", !.calls = 1, !.bare = bare]

(* CloseCycle with its first two columns swapped. *)
ClosedSwapped(c, status, reason) ==
  [cycles EXCEPT ![c].status = reason, ![c].reason = status]

(* CloseCycle as it would be without AND status = 'open'. *)
ClosedTwice(c, status, reason) ==
  [cycles EXCEPT ![c].status = status, ![c].reason = reason]

(* CloseCycle: only a round that is still open takes the close. *)
Closed(c, status, reason) ==
  IF c \in Open
  THEN [cycles EXCEPT ![c].status = status, ![c].reason = reason]
  ELSE cycles

(* BumpCycle with one model call: it names the id and not the status. *)
Charged(c) == [cycles EXCEPT ![c].calls = @ + 1]

(* The transaction of Widen: the round takes one query, one step and one   *)
(* call, whatever its status is by now.                                    *)
Widened(c) ==
  LET row == cycles[c] IN
  [cycles EXCEPT ![c] =
     [row EXCEPT !.bare = FALSE, !.steps = row.steps + 1, !.calls = row.calls + 1]]

(* The transaction of RecordYield.  The count is only ever compared with   *)
(* the target, so it saturates there.                                      *)
Tallied(c, inserted) ==
  [cycles EXCEPT ![c].inserted =
     IF @ + inserted > NewJobTarget THEN NewJobTarget ELSE @ + inserted]

(* BumpModelUsage as it would be if it overwrote the day. *)
UsageReset == [usage EXCEPT ![today] = 1]

(* BumpModelUsage: the call is counted on the day it ended. *)
UsageBumped == [usage EXCEPT ![today] = @ + 1]

-----------------------------------------------------------------------------
(* Start.                                                                  *)

(* desk, gate and currentRound: refuse, resume the open round, give it up  *)
(* when it is late, or plan a new one.                                     *)
Start(h) ==
  /\ At(h, "idle")
  /\ \/ GateRefuses(h)
     \/ /\ GatePasses
        /\ \/ Open = {} /\ Go(h, 0, "start.planning")
           \/ \E c \in Open :
                /\ IsCurrent(c)
                /\ IF cycles[c].late THEN Go(h, c, "start.expired") ELSE Reply(h, c, "resumed")
  /\ UNCHANGED <<cycles, usage, today, desk>>

(* StartExpire as it would be if the late round were only passed over. *)
StartForgets(h) ==
  /\ At(h, "start.expired")
  /\ Go(h, 0, "start.planning")
  /\ UNCHANGED <<cycles, usage, today, desk>>

StartExpire(h) ==
  /\ At(h, "start.expired")
  /\ cycles' = Closed(op[h].cycle, "done", "expired")
  /\ Go(h, 0, "start.planning")
  /\ UNCHANGED <<usage, today, desk>>

(* The model call of Start or Widen ends in an error: nothing is recorded. *)
ModelFails(h) ==
  /\ op[h].phase \in {"start.planning", "widen.planning"}
  /\ Reply(h, 0, "planner-failed")
  /\ UNCHANGED <<cycles, usage, today, desk>>

(* Bounds: a day counts at most MaxUsage calls, and an answered plan finds *)
(* an id to open its round under.                                          *)
RoomForCall == usage[today] < MaxUsage
RoomForRound(h) ==
  Cardinality({g \in Handlers : At(g, "start.answered")}) < Cardinality(CycleIds \ Opened)

(* The model answers Start or Widen, and recordModelCall counts the call. *)
ModelAnswers(h) ==
  /\ RoomForCall
  /\ \/ At(h, "start.planning") /\ RoomForRound(h) /\ Go(h, 0, "start.answered")
     \/ At(h, "widen.planning") /\ Go(h, op[h].cycle, "widen.answered")
  /\ usage' = UsageBumped
  /\ UNCHANGED <<cycles, today, desk>>

(* json.Unmarshal refuses the answer: the call is counted, no round opens. *)
AnswerUnreadable(h) ==
  /\ op[h].phase \in {"start.answered", "widen.answered"}
  /\ Reply(h, 0, "planner-failed")
  /\ UNCHANGED <<cycles, usage, today, desk>>

(* open: with no usable query recordEmptyRound opens the round it is about *)
(* to fail, otherwise the round carries the queries of the plan.           *)
StartOpen(h) ==
  /\ At(h, "start.answered")
  /\ \E c \in CycleIds, bare \in BOOLEAN :
       /\ NextId(c)
       /\ cycles' = [cycles EXCEPT ![c] = OpenedRow(bare)]
       /\ Go(h, c, IF bare THEN "start.emptied" ELSE "start.noting")
  /\ UNCHANGED <<usage, today, desk>>

(* The second half of recordEmptyRound. *)
StartFailEmpty(h) ==
  /\ At(h, "start.emptied")
  /\ cycles' = Closed(op[h].cycle, "failed", "planner-failed")
  /\ Reply(h, 0, "planner-failed")
  /\ UNCHANGED <<usage, today, desk>>

(* applyNotes curates the standing notes in a transaction of its own, then *)
(* the plan is answered.  When that transaction fails the caller gets an   *)
(* error, and the round stays open.                                        *)
StartNotes(h) ==
  /\ At(h, "start.noting")
  /\ Reply(h, op[h].cycle, "planned") \/ Reply(h, 0, "error")
  /\ UNCHANGED <<cycles, usage, today, desk>>

-----------------------------------------------------------------------------
(* Widen.                                                                  *)

(* Widen as it would be without the bound on the steps. *)
WidenUnbounded(h, c) ==
  /\ At(h, "idle")
  /\ c \in Open
  /\ GatePasses
  /\ Go(h, c, "widen.planning")
  /\ UNCHANGED <<cycles, usage, today, desk>>

(* desk, gate and Round: the status and the steps are read here, before    *)
(* the model is asked.                                                     *)
Widen(h, c) ==
  /\ At(h, "idle")
  /\ c \in Opened
  /\ \/ GateRefuses(h)
     \/ GatePasses /\ c \notin Open /\ Reply(h, 0, "round-closed")
     \/ /\ GatePasses /\ c \in Open
        /\ IF cycles[c].steps >= MaxWideningSteps
           THEN Reply(h, 0, "widening-spent")
           ELSE Go(h, c, "widen.planning")
  /\ UNCHANGED <<cycles, usage, today, desk>>

(* AnswerUnreadable stands for the refusals of compileQuery, too.          *)
WidenSave(h) ==
  /\ At(h, "widen.answered")
  /\ cycles' = Widened(op[h].cycle)
  /\ Reply(h, 0, "widened")
  /\ UNCHANGED <<usage, today, desk>>

-----------------------------------------------------------------------------
(* RecordYield, Finish, ChargeRound.                                       *)

(* The settings are loaded, the round and its query are found, the tallies *)
(* are bumped in one transaction.                                          *)
YieldBump(h, c) ==
  /\ At(h, "idle")
  /\ c \in Opened
  /\ ~cycles[c].bare
  /\ \E inserted \in 0 .. 1 : cycles' = Tallied(c, inserted)
  /\ op' = [op EXCEPT ![h] = [Idle EXCEPT !.phase = "yield.bumped", !.cycle = c,
                                          !.paused = desk.paused]]
  /\ UNCHANGED <<usage, today, desk>>

(* terminationCheck on the updated round. *)
MustStop(h) ==
  LET row == cycles[op[h].cycle] IN
  \/ row.status # "open"
  \/ op[h].paused
  \/ row.inserted >= NewJobTarget
  \/ row.late
  \/ DailySpent
  \/ RoundCap > 0 /\ row.calls >= RoundCap

YieldCheck(h) ==
  /\ At(h, "yield.bumped")
  /\ Reply(h, 0, IF MustStop(h) THEN "stop" ELSE "continue")
  /\ UNCHANGED <<cycles, usage, today, desk>>

(* Finish closes the round with the reason the executor reports. *)
Finish(c, status) ==
  /\ c \in Opened
  /\ cycles' = Closed(c, status, "reported")
  /\ UNCHANGED <<usage, today, desk, op>>

(* The screener or the indexer counts a call of its own. *)
ChargeRecord(h) ==
  /\ At(h, "idle")
  /\ RoomForCall
  /\ usage' = UsageBumped
  /\ Go(h, 0, "charge.recorded")
  /\ UNCHANGED <<cycles, today, desk>>

(* ChargeRound reads the open round, then bumps it by id. *)
ChargeAim(h) ==
  /\ At(h, "charge.recorded")
  /\ \/ Open = {} /\ Reply(h, 0, "ok")
     \/ \E c \in Open :
          /\ IsCurrent(c)
          /\ Go(h, c, "charge.aimed")
  /\ UNCHANGED <<cycles, usage, today, desk>>

ChargeBump(h) ==
  /\ At(h, "charge.aimed")
  /\ cycles' = Charged(op[h].cycle)
  /\ Reply(h, 0, "ok")
  /\ UNCHANGED <<usage, today, desk>>

-----------------------------------------------------------------------------
(* Around the service.                                                     *)

(* The answer reaches the caller, or the caller is gone. *)
Deliver(h) ==
  /\ At(h, "replied")
  /\ op' = [op EXCEPT ![h] = Idle]
  /\ UNCHANGED <<cycles, usage, today, desk>>

(* The process dies: every request in flight is lost, the store is kept. *)
Restart ==
  /\ \E h \in Handlers : ~At(h, "idle")
  /\ op' = [h \in Handlers |-> Idle]
  /\ UNCHANGED <<cycles, usage, today, desk>>

(* roundDeadlineMs pass since the round was opened.  Only an open round is *)
(* ever asked whether it is late.                                          *)
Late(c) ==
  /\ c \in Open /\ ~cycles[c].late
  /\ cycles' = [cycles EXCEPT ![c].late = TRUE]
  /\ UNCHANGED <<usage, today, desk, op>>

NewDay ==
  /\ today < MaxDays
  /\ today' = today + 1
  /\ UNCHANGED <<cycles, usage, desk, op>>

(* The person flips the pause switch, the extension goes quiet or checks   *)
(* in, the folder is indexed or changes.                                   *)
Flip(part) ==
  /\ desk' = [desk EXCEPT ![part] = ~@]
  /\ UNCHANGED <<cycles, usage, today, op>>

(* One step of a request the service has taken, up to its answer. *)
Serve(h) ==
  \/ StartExpire(h) \/ ModelFails(h) \/ ModelAnswers(h)
  \/ AnswerUnreadable(h) \/ StartOpen(h) \/ StartFailEmpty(h) \/ StartNotes(h)
  \/ WidenSave(h) \/ YieldCheck(h) \/ ChargeAim(h) \/ ChargeBump(h)

Next ==
  \/ \E h \in Handlers :
       \/ Start(h)
       \/ \E c \in CycleIds : Widen(h, c) \/ YieldBump(h, c)
       \/ ChargeRecord(h)
       \/ Serve(h)
       \/ Deliver(h)
  \/ \E c \in CycleIds, status \in {"done", "failed"} : Finish(c, status)
  \/ \E c \in CycleIds : Late(c)
  \/ Restart \/ NewDay
  \/ \E part \in Flips : Flip(part)

Spec == Init /\ [][Next]_vars

-----------------------------------------------------------------------------
(* Properties.                                                             *)

(* Every row, counter and request has its type.                            *)
TypeOK ==
  /\ cycles \in [CycleIds -> Rows]
  /\ usage \in [Days -> Nat]
  /\ today \in Days
  /\ desk \in [Parts -> BOOLEAN]
  /\ op \in [Handlers -> Ops]

(* The first close of a round is its last: a late finish of the executor   *)
(* never rewrites the end the API recorded when the deadline passed, nor   *)
(* the other way round, and no round is reopened or forgotten (CloseCycle, *)
(* whose callers read the round before they close it).                     *)
ClosedIsFinal ==
  [][\A c \in CycleIds :
       /\ cycles[c].status \in {"done", "failed"} =>
            /\ cycles'[c].status = cycles[c].status
            /\ cycles'[c].reason = cycles[c].reason
       /\ cycles[c].status = "open" => cycles'[c].status # "absent"]_cycles

(* Nothing in the schema keeps two rounds from being open at once: what    *)
(* keeps them apart is that Start gives up the late round before it plans, *)
(* and that the request which found no round open is the only one being    *)
(* served.  With one request at a time it holds through every restart,     *)
(* empty plan and late close (Start, recordEmptyRound, open).              *)
LoneRequestOneRound ==
  \A h \in Handlers : Handlers = {h} => \A c, d \in Open : c = d

(* The planner implements RoundSequence for a caller that asks one thing   *)
(* at a time: rounds never overlap, their ids leave no gap, each is closed *)
(* once and as the code that closes it says (StartExpire, StartFailEmpty,  *)
(* Finish), whatever restarts and late finishes come between.              *)
Sequence == INSTANCE RoundSequence
  WITH MaxRounds <- MaxCycles,
       rounds <- [c \in CycleIds |-> <<cycles[c].status, cycles[c].reason>>]

InSequence == Sequence!Spec

(* Widen reads the steps before it asks the model and bumps them after, so *)
(* the bound the settings name can be overrun, but never by more than the  *)
(* other requests that were being served meanwhile.                        *)
WideningBounded ==
  \A c \in CycleIds :
    cycles[c].steps <= MaxWideningSteps + Cardinality(Handlers) - 1

(* The calls a table counts, each one told by its row and its number.      *)
Numbered(count) == UNION {{i} \X (1 .. count[i]) : i \in DOMAIN count}

Carried == Numbered([c \in CycleIds |-> cycles[c].calls])
Counted == Numbered(usage)
Pending ==
  {h \in Handlers :
     op[h].phase \in {"start.answered", "widen.answered", "charge.recorded", "charge.aimed"}}

(* The ledger of the days and the tallies of the rounds agree: every call  *)
(* a round carries, and every call a handler is still about to charge, is  *)
(* a call some day has counted (recordModelCall runs before the round is   *)
(* bumped, in Start, Widen and ChargeRound alike).                         *)
LedgerCovers == Cardinality(Carried) + Cardinality(Pending) <= Cardinality(Counted)

=============================================================================
