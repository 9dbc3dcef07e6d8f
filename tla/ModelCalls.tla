----------------------------- MODULE ModelCalls -----------------------------
(***************************************************************************)
(* Calls to the model (app/claude/client.go) as they are recorded          *)
(* (app/trace/recorder.go, buffer.go) and pushed to the desk while they    *)
(* run.  A request takes one access token, then opens one trace per turn,  *)
(* sends it up to MaxAttempts times, reads the streamed answer, and asks   *)
(* again, up to MaxNudges times, when the model called no tool.            *)
(*                                                                         *)
(* A fragment of the answer is one unit of output, and a flush hands the   *)
(* hub all that is pending: in frames, whose cut is left out.              *)
(***************************************************************************)
EXTENDS Credentials

CONSTANTS
  MaxAttempts, MaxNudges,
  Retention,   \* traces kept
  MaxPreview,  \* fragments pushed of one call
  MaxCalls,    \* bound: traces ever opened
  MaxPending,  \* bound: fragments of an answer that wait for the timer
  MaxCrashes   \* bound: restarts of the API

ASSUME ModelCallsAssumption ==
  /\ MaxAttempts \in Nat \ {0} /\ MaxNudges \in Nat
  /\ Retention \in Nat \ {0} /\ MaxPreview \in Nat
  /\ MaxCalls \in Nat /\ MaxPending \in Nat /\ MaxCrashes \in Nat

VARIABLES
  call,     \* the call of each request
  traces,   \* the table model_calls, by id
  opened,   \* the last id
  buffer,   \* the output a call has not pushed yet, by id
  told,     \* what the hub has last said of a trace: nothing, running or ended
  unclosed, \* traces whose row could not be closed
  crashes

recorder == <<traces, opened, buffer, told, unclosed>>
vars == <<credentials, call, recorder, crashes>>

Ids == 1..MaxCalls
TraceStates == {"absent", "running", "ok", "error", "interrupted"}

(* "sending" waits for the response, "waiting" for the pause before the    *)
(* next attempt, "closing" to write the row, "telling" to emit its end.    *)
Phases == {"idle", "token", "turn", "begun", "sending", "waiting", "streaming",
           "closing", "telling"}
Outcomes == {"none", "answered", "nocall", "failed"}

Calls ==
  [ phase : Phases, id : Ids \cup {0}, nudges : Nat, attempt : Nat, outcome : Outcomes ]
NoCall == [phase |-> "idle", id |-> 0, nudges |-> 0, attempt |-> 0, outcome |-> "none"]

Buffers == [pending : Nat, sent : Nat, capped : BOOLEAN, timer : BOOLEAN, closed : BOOLEAN]
NewBuffer == [pending |-> 0, sent |-> 0, capped |-> FALSE, timer |-> FALSE, closed |-> FALSE]

Init ==
  /\ CredentialsInit
  /\ call = [h \in Handlers |-> NoCall]
  /\ traces = [i \in Ids |-> "absent"] /\ opened = 0
  /\ buffer = [i \in Ids |-> NewBuffer]
  /\ told = [i \in Ids |-> "nothing"]
  /\ unclosed = {} /\ crashes = 0

-----------------------------------------------------------------------------
(* The output on its way to the desk *)

(* scheduleLocked: a timer runs when there is something to push. *)
Scheduled(b) == IF ~b.closed /\ b.pending > 0 THEN [b EXCEPT !.timer = TRUE] ELSE b

(* flushLocked: take hands out everything that is pending, frame by frame, *)
(* until the preview of the call is full; the rest is dropped.             *)
TakenUnbounded(b) == b.pending
Taken(b) == IF b.sent + b.pending >= MaxPreview THEN MaxPreview - b.sent ELSE b.pending
Capped(b) == b.capped \/ (b.pending > 0 /\ b.sent + b.pending >= MaxPreview)
Flushed(b) == [b EXCEPT !.sent = @ + Taken(b), !.pending = 0, !.capped = Capped(b)]

Added(b) == Scheduled([b EXCEPT !.pending = @ + 1])

Push(h) ==
  LET i == call[h].id IN
  /\ call[h].phase = "streaming" /\ buffer[i].pending < MaxPending
  /\ ~buffer[i].capped
  /\ buffer' = [buffer EXCEPT ![i] = Added(@)]
  /\ UNCHANGED <<credentials, call, traces, opened, told, unclosed, crashes>>

(* The timer fires: it may find the call closed, when Stop came too late.  *)
Flush(i) ==
  /\ buffer[i].timer
  /\ buffer' = [buffer EXCEPT ![i] = [Flushed(@) EXCEPT !.timer = FALSE]]
  /\ UNCHANGED <<credentials, call, traces, opened, told, unclosed, crashes>>

-----------------------------------------------------------------------------
(* A call *)

Move(h, phase) == call' = [call EXCEPT ![h].phase = phase]
Drop(h) == call' = [call EXCEPT ![h] = NoCall]

Ask(h) ==
  /\ call[h].phase = "idle"
  /\ Move(h, "token")
  /\ UNCHANGED <<credentials, recorder, crashes>>

(* AccessToken, once for all turns of the call. *)
GetToken(h) ==
  /\ call[h].phase = "token"
  /\ \/ TakeToken(h) /\ Move(h, "turn")
     \/ BeginExchange(h) /\ UNCHANGED call
     \/ NoToken(h) /\ Drop(h)
  /\ UNCHANGED <<recorder, crashes>>

Refresh(h) ==
  /\ call[h].phase = "token"
  /\ \/ Post(h) /\ UNCHANGED call
     \/ Persist(h) /\ Move(h, "turn")
     \/ (ExchangeFails(h) \/ AnswerLost(h) \/ PersistFails(h)) /\ Drop(h)
  /\ UNCHANGED <<recorder, crashes>>

(* Begin: the row and the pruning of the oldest in one transaction. *)
Pruned(rows, last) ==
  [i \in Ids |-> IF i + Retention <= last THEN "absent" ELSE rows[i]]

Begin(h) ==
  /\ call[h].phase = "turn" /\ opened < MaxCalls
  /\ opened' = opened + 1
  /\ traces' = Pruned([traces EXCEPT ![opened'] = "running"], opened')
  /\ call' = [call EXCEPT ![h].phase = "begun", ![h].id = opened', ![h].attempt = 1,
                          ![h].outcome = "none"]
  /\ UNCHANGED <<credentials, buffer, told, unclosed, crashes>>

BeginFails(h) ==
  /\ call[h].phase = "turn"
  /\ Drop(h)
  /\ UNCHANGED <<credentials, recorder, crashes>>

TellRunning(h) ==
  /\ call[h].phase = "begun"
  /\ told' = [told EXCEPT ![call[h].id] = "running"]
  /\ Move(h, "sending")
  /\ UNCHANGED <<credentials, traces, opened, buffer, unclosed, crashes>>

(* finish begins: what is pending is flushed, and the call takes no more.  *)
FinishUnflushed(h, outcome) ==
  LET i == call[h].id IN
  /\ call' = [call EXCEPT ![h].phase = "closing", ![h].outcome = outcome]
  /\ buffer' = [buffer EXCEPT ![i] = [@ EXCEPT !.closed = TRUE]]
Finish(h, outcome) ==
  LET i == call[h].id IN
  /\ call' = [call EXCEPT ![h].phase = "closing", ![h].outcome = outcome]
  /\ buffer' = [buffer EXCEPT ![i] = [Flushed(@) EXCEPT !.closed = TRUE]]

(* Accepted, rejected for good, or worth another attempt (408, 409, 429,   *)
(* any 5xx, or no connection) as long as there is one.                     *)
Respond(h) ==
  /\ call[h].phase = "sending"
  /\ \/ Move(h, "streaming") /\ UNCHANGED buffer
     \/ Finish(h, "failed")
     \/ call[h].attempt < MaxAttempts /\ Move(h, "waiting") /\ UNCHANGED buffer
  /\ UNCHANGED <<credentials, traces, opened, told, unclosed, crashes>>

(* The pause of the attempt, which the deadline may end. *)
Wait(h) ==
  /\ call[h].phase = "waiting"
  /\ \/ /\ call' = [call EXCEPT ![h].phase = "sending", ![h].attempt = @ + 1]
              /\ UNCHANGED buffer
     \/ Finish(h, "failed")
  /\ UNCHANGED <<credentials, traces, opened, told, unclosed, crashes>>

(* The stream ends: with the tool called, without, or in an error, a       *)
(* refusal, input that is no json, or at the deadline.                     *)
StreamEnds(h) ==
  /\ call[h].phase = "streaming"
  /\ \E outcome \in Outcomes \ {"none"} : Finish(h, outcome)
  /\ UNCHANGED <<credentials, traces, opened, told, unclosed, crashes>>

Ended(outcome) == IF outcome = "answered" THEN "ok" ELSE "error"

(* CloseTrace, beyond the deadline of the call; a failure is only logged.  *)
CloseRow(h) ==
  LET i == call[h].id IN
  /\ call[h].phase = "closing"
  /\ Move(h, "telling")
  /\ traces' = [traces EXCEPT ![i] = IF @ = "absent" THEN @ ELSE Ended(call[h].outcome)]
  /\ UNCHANGED <<credentials, opened, buffer, told, unclosed, crashes>>

CloseRowFails(h) ==
  /\ call[h].phase = "closing"
  /\ Move(h, "telling")
  /\ unclosed' = unclosed \cup {call[h].id}
  /\ UNCHANGED <<credentials, traces, opened, buffer, told, crashes>>

Nudged(h) == call[h].outcome = "nocall" /\ call[h].nudges < MaxNudges

(* The end is told, and the turn is over; a nudge opens the next. *)
TellEnded(h) ==
  /\ call[h].phase = "telling"
  /\ told' = [told EXCEPT ![call[h].id] = "ended"]
  /\ IF Nudged(h)
     THEN call' = [call EXCEPT ![h] = [NoCall EXCEPT !.phase = "turn", !.nudges = call[h].nudges + 1]]
     ELSE Drop(h)
  /\ UNCHANGED <<credentials, traces, opened, buffer, unclosed, crashes>>

(* The API stops, or is killed, and is built again: ResolveInterrupted     *)
(* runs before it serves anything.                                         *)
LeftRunning(rows) == rows
Interrupted(rows) == [i \in Ids |-> IF rows[i] = "running" THEN "interrupted" ELSE rows[i]]

Restart ==
  /\ crashes < MaxCrashes
  /\ crashes' = crashes + 1
  /\ CrashCredentials
  /\ call' = [h \in Handlers |-> NoCall]
  /\ buffer' = [i \in Ids |-> IF i > opened THEN NewBuffer
                              ELSE [NewBuffer EXCEPT !.sent = buffer[i].sent, !.closed = TRUE]]
  /\ traces' = Interrupted(traces)
  /\ unclosed' = {}
  /\ UNCHANGED <<opened, told>>

-----------------------------------------------------------------------------

Step(h) ==
  \/ GetToken(h) \/ Refresh(h) \/ Begin(h) \/ BeginFails(h) \/ TellRunning(h)
  \/ Respond(h) \/ Wait(h) \/ StreamEnds(h) \/ CloseRow(h) \/ CloseRowFails(h) \/ TellEnded(h)

Next ==
  \/ \E h \in Handlers : Ask(h) \/ Push(h) \/ Step(h)
  \/ \E i \in Ids : Flush(i)
  \/ People /\ UNCHANGED <<call, recorder, crashes>>
  \/ Restart

Spec == Init /\ [][Next]_vars

-----------------------------------------------------------------------------

(* Calls, traces and buffers keep their types; a call's preview never      *)
(* passes its bound (buffer.go: deltas are bounded per call).              *)
TypeOK ==
  /\ CredentialsTypeOK
  /\ call \in [Handlers -> Calls]
  /\ traces \in [Ids -> TraceStates] /\ opened \in Ids \cup {0}
  /\ buffer \in [Ids -> Buffers]
  /\ told \in [Ids -> {"nothing", "running", "ended"}]
  /\ \A i \in Ids : buffer[i].sent <= MaxPreview
  /\ unclosed \subseteq Ids /\ crashes \in Nat

(* A row reads as running only while its call is open in this process, or  *)
(* its row could not be closed: neither a crash nor a nudge leaves a call  *)
(* running for ever in the desk's list (ResolveInterrupted, finish).       *)
RunningHasOwner ==
  \A i \in Ids :
    traces[i] = "running" => (i \in unclosed \/ \E h \in Handlers : call[h].id = i)

(* No output of a call is pushed after the hub has told of its end, though *)
(* a timer may fire late (finish, flush).                                  *)
NoDeltaAfterEnd ==
  [][\A i \in Ids : told[i] = "ended" => buffer'[i].sent = buffer[i].sent]_vars

(* Requests that overlap, Claude Code's own exchanges and failing writes   *)
(* never lose the login: only an answer that is lost, a restart, or the    *)
(* person's paste or clear can (AccessToken, persistLocked).               *)
KeepsTheLogin ==
  [][(LoginHeld /\ ~LoginHeld') =>
       (Restart \/ Store \/ Clear \/ \E h \in Handlers : AnswerLost(h))]_vars

=============================================================================
