--------------------------- MODULE RoundLifecycle ---------------------------
(***************************************************************************)
(* A round from the plan to the close: the executor in the browser         *)
(* extension (linkedin/round.ts, worker/main.ts) drives the planner of the *)
(* API through requests that can be lost, answered too late or cut off by  *)
(* a restart, while the browser may reclaim the worker at any step.        *)
(*                                                                         *)
(* What survives the worker is in chrome.storage: the record of the open   *)
(* round and the hold LinkedIn asked for.  Everything else is lost with    *)
(* it, except the requests the API goes on serving (handler.go plans and   *)
(* widens WithoutCancel).                                                  *)
(***************************************************************************)
EXTENDS Planner

CONSTANTS
  MaxQueries,  \* bound: queries a plan or a widening gives the executor
  MaxFaults    \* bound: lost requests and answers, restarts, reclaimed workers

ASSUME LifecycleAssumption == MaxQueries \in Nat \ {0} /\ MaxFaults \in Nat

VARIABLES
  worker,  \* the run in flight, in the memory of the service worker
  record,  \* the open round in chrome.storage, 0 is none
  held,    \* the back-off in chrome.storage still holds
  wake,    \* the record a wake outside the run has read and is closing, 0 is none
  faults   \* the faults so far

executor == <<worker, record, held, wake, faults>>
lifecycle == <<vars, executor>>

Places == {"asleep", "orphan", "drive", "planning", "harvest", "widening",
           "screening", "reading", "rescreening", "settling"}

Workers ==
  [ at      : Places,
    slot    : SUBSET Handlers,        \* the request it awaits, if any
    cycle   : 0 .. MaxCycles,         \* report.cycleId, 0 is null
    left    : 0 .. MaxQueries,        \* queries still to run
    widened : 0 .. MaxWideningSteps,  \* report.widenings
    stop    : {"no", "stop", "down"}, \* down: the agent is not taking calls
    blocked : BOOLEAN ]               \* report.blocked

Asleep ==
  [ at |-> "asleep", slot |-> {}, cycle |-> 0, left |-> 0, widened |-> 0,
    stop |-> "no", blocked |-> FALSE ]

LifecycleInit ==
  /\ Init
  /\ worker = Asleep
  /\ record = 0
  /\ held = FALSE
  /\ wake = 0
  /\ faults = 0

-----------------------------------------------------------------------------
(* Requests.                                                               *)

Goto(place) == worker' = [worker EXCEPT !.at = place]
GotoStopped(place, stop, blocked) ==
  worker' = [worker EXCEPT !.at = place, !.slot = {}, !.stop = stop, !.blocked = @ \/ blocked]

Awaits(h) == worker.slot = {h}

Fault == faults < MaxFaults /\ faults' = faults + 1

(* The answer of h reaches the worker. *)
Answered(h, answers) == Awaits(h) /\ op[h].answer \in answers /\ Deliver(h)

(* The call throws or times out, so the client reports it unreachable: the *)
(* request never arrived, or it did and its answer is not waited for.      *)
NeverSent == worker.slot = {} /\ Fault /\ UNCHANGED vars
GivenUp   == worker.slot # {} /\ Fault /\ UNCHANGED vars
CutOff    == \E h \in worker.slot : At(h, "idle") /\ UNCHANGED <<vars, faults>>
Unreachable == NeverSent \/ GivenUp \/ CutOff

(* finishRound on round c, at the API and as the client sees it.  Any      *)
(* answer but a refusal is "rejected" (client.ts).                         *)
CloseCall(c, status, outcome) ==
  \/ outcome = "ok"          /\ Finish(c, status) /\ UNCHANGED faults
  \/ outcome = "unreachable" /\ (Finish(c, status) \/ UNCHANGED vars) /\ Fault
  \/ outcome = "rejected"    /\ UNCHANGED vars /\ Fault

-----------------------------------------------------------------------------
(* The run: resolveOrphan, then drive, then settle.                        *)

(* runner.run: an alarm that is due, or the person asks. *)
Run ==
  /\ worker.at = "asleep"
  /\ Goto("orphan")
  /\ UNCHANGED <<vars, record, held, wake, faults>>

(* resolveOrphan gives up the record when the API took the close, or       *)
(* answered that it will not.                                              *)
ResolveOrphan ==
  /\ worker.at = "orphan"
  /\ \/ record = 0 /\ UNCHANGED <<vars, record, faults>>
     \/ /\ record # 0
        /\ \E outcome \in {"ok", "unreachable", "rejected"} :
             /\ CloseCall(record, "failed", outcome)
             /\ record' = IF outcome = "unreachable" THEN record ELSE 0
  /\ Goto("drive")
  /\ UNCHANGED <<held, wake>>

(* The back-off is read, then the round is asked for. *)
Drive ==
  /\ worker.at = "drive"
  /\ \/ held /\ Goto("settling") /\ UNCHANGED vars
     \/ /\ ~held
        /\ \E h \in Handlers :
             Start(h) /\ worker' = [worker EXCEPT !.at = "planning", !.slot = {h}]
  /\ UNCHANGED <<record, held, wake, faults>>

(* TakePlan as it would be without openRound.write. *)
TakePlanUnrecorded ==
  /\ worker.at = "planning"
  /\ \E h \in Handlers :
       /\ Answered(h, {"planned", "resumed"})
       /\ worker' = [worker EXCEPT !.at = "harvest", !.slot = {}, !.cycle = op[h].cycle,
                                   !.left = MaxQueries]
  /\ UNCHANGED <<record, held, wake, faults>>

(* startRound answered with a plan: openRound.write records its round.     *)
TakePlan ==
  /\ worker.at = "planning"
  /\ \E h \in Handlers :
       /\ Answered(h, {"planned", "resumed"})
       /\ worker' = [worker EXCEPT !.at = "harvest", !.slot = {}, !.cycle = op[h].cycle,
                                   !.left = MaxQueries]
       /\ record' = op[h].cycle
  /\ UNCHANGED <<held, wake, faults>>

(* refusalOf: a refusal, a failure or no answer leaves report.cycleId null. *)
NoPlan ==
  /\ worker.at \in {"drive", "planning"}
  /\ \/ /\ worker.at = "planning"
        /\ \E h \in Handlers : Answered(h, GateReasons \cup {"planner-failed", "error"})
        /\ UNCHANGED faults
     \/ (worker.at = "drive" => ~held) /\ Unreachable
  /\ GotoStopped("settling", "no", FALSE)
  /\ UNCHANGED <<record, held, wake>>

(* runQuery: LinkedIn gives nothing new, or fails and blocks the run with  *)
(* or without a hold, or the cards are harvested.                          *)
Query ==
  /\ worker.at = "harvest" /\ worker.slot = {}
  /\ worker.left > 0 /\ worker.stop = "no"
  /\ \/ /\ worker' = [worker EXCEPT !.left = @ - 1]
        /\ UNCHANGED <<vars, held>>
     \/ /\ GotoStopped("harvest", "stop", TRUE)
        /\ held' \in {held, TRUE}
        /\ UNCHANGED vars
     \/ \E h \in Handlers :
          /\ YieldBump(h, worker.cycle)
          /\ worker' = [worker EXCEPT !.left = @ - 1, !.slot = {h}]
          /\ UNCHANGED held
  /\ UNCHANGED <<record, wake, faults>>

(* The harvest is answered, with the planner's word on going on. *)
QueryAnswered ==
  /\ worker.at = "harvest"
  /\ \/ /\ \E h \in Handlers : Answered(h, {"continue"})
        /\ worker' = [worker EXCEPT !.slot = {}]
        /\ UNCHANGED faults
     \/ /\ \E h \in Handlers : Answered(h, {"stop"})
        /\ GotoStopped("harvest", "stop", FALSE)
        /\ UNCHANGED faults
     \/ /\ (worker.left > 0 /\ worker.stop = "no") \/ worker.slot # {}
        /\ Unreachable
        /\ GotoStopped("harvest", "down", TRUE)
  /\ UNCHANGED <<record, held, wake>>

Wants ==
  worker.stop = "no" /\ worker.widened < MaxWideningSteps

(* The queries are done: widen once more, or go on to the screening.  The  *)
(* target the executor counts for itself may be reached, too.              *)
QueriesDone ==
  /\ worker.at = "harvest" /\ worker.slot = {}
  /\ worker.left = 0 \/ worker.stop # "no"
  /\ \/ Wants /\ Goto("widening")
     \/ Goto(IF worker.stop = "down" THEN "reading" ELSE "screening")
  /\ UNCHANGED <<vars, record, held, wake, faults>>

WidenAsk ==
  /\ worker.at = "widening" /\ worker.slot = {}
  /\ \E h \in Handlers :
       Widen(h, worker.cycle) /\ worker' = [worker EXCEPT !.slot = {h}]
  /\ UNCHANGED <<record, held, wake, faults>>

(* A widened query is run like a planned one, a refusal stops the run, and *)
(* any other failure stops it as unreachable.                              *)
WidenAnswered ==
  /\ worker.at = "widening"
  /\ \/ /\ \E h \in Handlers : Answered(h, {"widened"})
        /\ worker' = [worker EXCEPT !.at = "harvest", !.slot = {}, !.widened = @ + 1, !.left = 1]
        /\ UNCHANGED faults
     \/ /\ \E h \in Handlers :
             Answered(h, GateReasons \cup {"planner-failed", "round-closed", "widening-spent"})
        /\ GotoStopped("screening", "stop", FALSE)
        /\ UNCHANGED faults
     \/ Unreachable /\ GotoStopped("reading", "down", FALSE)
  /\ UNCHANGED <<record, held, wake>>

AfterScreening == IF worker.at = "screening" THEN "reading" ELSE "settling"

(* screenPass: the screener judges without a call, or charges one to the   *)
(* round.  A pass that fails is only noted.                                *)
Screen ==
  /\ worker.at \in {"screening", "rescreening"} /\ worker.slot = {}
  /\ \/ Goto(AfterScreening) /\ UNCHANGED vars
     \/ \E h \in Handlers : ChargeRecord(h) /\ worker' = [worker EXCEPT !.slot = {h}]
  /\ UNCHANGED <<record, held, wake, faults>>

ScreenAnswered ==
  /\ worker.at \in {"screening", "rescreening"}
  /\ \/ (\E h \in Handlers : Answered(h, {"ok"})) /\ UNCHANGED faults
     \/ Unreachable
  /\ worker' = [worker EXCEPT !.at = AfterScreening, !.slot = {}]
  /\ UNCHANGED <<record, held, wake>>

(* readBodies, unless the run is blocked: LinkedIn may ask for a hold, and *)
(* a run that got through clears it.  What was read is screened, too.      *)
Read ==
  /\ worker.at = "reading"
  /\ \/ worker.blocked /\ Goto("settling") /\ UNCHANGED held
     \/ /\ ~worker.blocked
        /\ Goto("settling") \/ (worker.stop # "down" /\ Goto("rescreening"))
        /\ held' \in BOOLEAN
  /\ UNCHANGED <<vars, record, wake, faults>>

(* Anything drive calls may throw: the round is closed as failed. *)
Throws ==
  /\ worker.at \in {"harvest", "reading"} /\ worker.slot = {}
  /\ Goto("settling")
  /\ UNCHANGED <<vars, record, held, wake, faults>>

(* settle: without a round the record is dropped, with one it is kept      *)
(* until the close is taken.                                               *)
Settle ==
  /\ worker.at = "settling"
  /\ \/ worker.cycle = 0 /\ record' = 0 /\ UNCHANGED <<vars, faults>>
     \/ /\ worker.cycle # 0
        /\ \E outcome \in {"ok", "unreachable", "rejected"} :
             /\ CloseCall(worker.cycle, "done", outcome)
             /\ record' = IF outcome = "ok" THEN 0 ELSE record
  /\ worker' = Asleep
  /\ UNCHANGED <<held, wake>>

-----------------------------------------------------------------------------
(* Around the run.                                                         *)

(* wake: outside a run the record is read ... *)
Wake ==
  /\ worker.at = "asleep" /\ wake = 0 /\ record # 0
  /\ wake' = record
  /\ UNCHANGED <<vars, worker, record, held, faults>>

(* ... and once the close is answered, whatever record is there is         *)
(* dropped.                                                                *)
WakeResolves ==
  /\ wake # 0
  /\ \E outcome \in {"ok", "unreachable", "rejected"} :
       /\ CloseCall(wake, "failed", outcome)
       /\ record' = IF outcome = "unreachable" THEN record ELSE 0
  /\ wake' = 0
  /\ UNCHANGED <<worker, held>>

(* The browser reclaims the worker: chrome.storage is what is left. *)
Reclaimed ==
  /\ worker.at # "asleep" \/ wake # 0
  /\ Fault
  /\ worker' = Asleep
  /\ wake' = 0
  /\ UNCHANGED <<vars, record, held>>

(* The API answers a request nobody waits for any more. *)
Drop ==
  /\ \E h \in Handlers : ~Awaits(h) /\ Deliver(h)
  /\ UNCHANGED executor

ApiRestarts == Restart /\ Fault /\ UNCHANGED <<worker, record, held, wake>>

(* The time LinkedIn asked for has passed. *)
HoldEnds ==
  /\ held
  /\ held' = FALSE
  /\ UNCHANGED <<vars, worker, record, wake, faults>>

Executor ==
  \/ ResolveOrphan \/ Drive \/ TakePlan \/ NoPlan \/ Query \/ QueryAnswered \/ QueriesDone
  \/ WidenAsk \/ WidenAnswered \/ Screen \/ ScreenAnswered \/ Read \/ Throws \/ Settle

Api == \E h \in Handlers : Serve(h) /\ UNCHANGED executor

Surroundings ==
  \/ ((\E c \in CycleIds : Late(c)) \/ NewDay \/ (\E part \in Flips : Flip(part)))
       /\ UNCHANGED executor
  \/ HoldEnds

LifecycleNext ==
  \/ Run \/ Executor \/ Wake \/ WakeResolves \/ Reclaimed
  \/ Api \/ Drop \/ ApiRestarts \/ Surroundings

LifecycleSpec == LifecycleInit /\ [][LifecycleNext]_lifecycle

(* The service serves what it took, the event loop of the worker runs, the *)
(* alarms go off, and time passes.                                         *)
Fairness ==
  /\ \A h \in Handlers : WF_lifecycle(Serve(h) /\ UNCHANGED executor)
  /\ WF_lifecycle(Run) /\ WF_lifecycle(Executor) /\ WF_lifecycle(WakeResolves)
  /\ WF_lifecycle(Drop) /\ WF_lifecycle(HoldEnds)
  /\ \A c \in CycleIds : WF_lifecycle(Late(c) /\ UNCHANGED executor)

FairLifecycle == LifecycleSpec /\ Fairness

-----------------------------------------------------------------------------
(* Properties.                                                             *)

(* The planner's tables and the executor's memory have their types.        *)
LifecycleTypeOK ==
  /\ TypeOK
  /\ worker \in Workers /\ Cardinality(worker.slot) <= 1
  /\ record \in 0 .. MaxCycles /\ wake \in 0 .. MaxCycles
  /\ held \in BOOLEAN
  /\ faults \in 0 .. MaxFaults

(* However a round was opened, and whatever was lost, reclaimed or         *)
(* restarted on the way, it is closed in the end: by the executor that     *)
(* finishes it, by the wake that finds its record, by the next start that  *)
(* resumes it or finds it late (settle, resolveOrphan, Start).             *)
EveryRoundEnds == \A c \in CycleIds : [](c \in Open => <>(c \notin Open))

(* While nothing has been lost or reclaimed, the executor alone opens      *)
(* rounds, one at a time, and each run it is driving is on record, so that *)
(* a wake could close it (executeRound, openRound.write, settle).          *)
FaultFreeRunIsRecorded ==
  faults = 0 =>
    /\ \A c, d \in Open : c = d
    /\ worker.cycle # 0 => record = worker.cycle /\ Open \subseteq {record}

=============================================================================
