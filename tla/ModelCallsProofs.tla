--------------------------- MODULE ModelCallsProofs ---------------------------
(***************************************************************************)
(* Proofs about the calls to the model, for any number of requests,        *)
(* attempts, nudges and restarts: every row that reads as running has an   *)
(* owner, nothing is pushed of a call whose end has been told, and the     *)
(* login is lost only by an answer that is lost, a restart or the person.  *)
(*                                                                         *)
(* None is inductive alone.  A trace belongs to one request at most; a     *)
(* request that is about to tell the end has closed its row or left it     *)
(* among the unclosed, and its buffer is closed and empty; and what has    *)
(* not been opened yet is as it was at the start.  The credentials do not  *)
(* matter to this: no step on them touches the recorder.  The login has an *)
(* invariant of its own, LoginInv, about what the cache, the exchange and  *)
(* the place they came from say of each other.                             *)
(***************************************************************************)
EXTENDS ModelCalls, TLAPS

CallsOK ==
  /\ call \in [Handlers -> Calls]
  /\ opened \in Ids \cup {0}
  /\ traces \in [Ids -> TraceStates]
  /\ buffer \in [Ids -> Buffers]
  /\ told \in [Ids -> {"nothing", "running", "ended"}]
  /\ \A i \in Ids : buffer[i].sent <= MaxPreview

Recorded(c) == c.phase \in {"begun", "sending", "waiting", "streaming", "closing", "telling"}

(* A call has a trace of its own exactly while it is recorded. *)
OneOwner ==
  /\ \A h \in Handlers : IF Recorded(call[h]) THEN call[h].id \in 1..opened ELSE call[h].id = 0
  /\ \A h, g \in Handlers : call[h].id = call[g].id /\ call[h].id # 0 => h = g

Unopened ==
  \A i \in Ids : i > opened => /\ traces[i] = "absent" /\ told[i] = "nothing"
                               /\ ~buffer[i].closed

(* The owner of a running row has not got past closing it. *)
RunningIsHeld ==
  \A i \in Ids : traces[i] = "running" =>
    i \in unclosed \/ \E h \in Handlers : call[h].id = i /\ call[h].phase # "telling"

Silent(b) == b.closed /\ b.pending = 0

(* Nothing waits in the buffer of a call that is ending or has ended. *)
EndsSilent ==
  /\ \A i \in Ids : told[i] = "ended" =>
       Silent(buffer[i]) /\ \A h \in Handlers : call[h].id # i
  /\ \A h \in Handlers : call[h].phase \in {"closing", "telling"} => Silent(buffer[call[h].id])

Live(c) == c.phase \in {"begun", "sending", "waiting", "streaming"}

OpenTakes == \A h \in Handlers : Live(call[h]) => ~buffer[call[h].id].closed

CallInv == CallsOK /\ OneOwner /\ Unopened /\ RunningIsHeld /\ EndsSilent /\ OpenTakes

-----------------------------------------------------------------------------

(* What a buffer hands out, and what it keeps. *)
LEMMA FlushedBuffer ==
  ASSUME NEW b \in Buffers, b.sent <= MaxPreview
  PROVE  /\ Flushed(b) \in Buffers /\ Flushed(b).sent <= MaxPreview
         /\ Flushed(b).pending = 0 /\ Flushed(b).closed = b.closed
         /\ b.pending = 0 => Flushed(b).sent = b.sent
<1>1. Taken(b) \in Nat /\ b.sent + Taken(b) <= MaxPreview /\ (b.pending = 0 => Taken(b) = 0)
  BY ModelCallsAssumption DEF Taken, Buffers
<1>2. Capped(b) \in BOOLEAN
  BY DEF Capped, Buffers
<1>3. PICK sent \in Nat, capped \in BOOLEAN :
        /\ sent <= MaxPreview /\ (b.pending = 0 => sent = b.sent)
        /\ Flushed(b) = [b EXCEPT !.sent = sent, !.pending = 0, !.capped = capped]
  <2>1. b.sent + Taken(b) \in Nat /\ b.sent + Taken(b) <= MaxPreview
        /\ (b.pending = 0 => b.sent + Taken(b) = b.sent)
    BY <1>1 DEF Buffers
  <2> QED BY <1>2, <2>1 DEF Flushed
<1>4. [b EXCEPT !.sent = sent, !.pending = 0, !.capped = capped] \in Buffers
  BY DEF Buffers
<1>5. Flushed(b).sent = sent /\ Flushed(b).pending = 0 /\ Flushed(b).closed = b.closed
  BY <1>3 DEF Buffers
<1> QED BY <1>3, <1>4, <1>5

LEMMA NoCallIsACall == NoCall \in Calls /\ NoCall.phase = "idle" /\ NoCall.id = 0
BY DEF NoCall, Calls, Phases, Outcomes

LEMMA InitCallInv == Init => CallInv
<1> SUFFICES ASSUME Init PROVE CallInv
  OBVIOUS
<1>1. /\ call \in [Handlers -> Calls]
      /\ \A h \in Handlers : call[h].phase = "idle" /\ call[h].id = 0
  BY NoCallIsACall DEF Init
<1>2. NewBuffer \in Buffers /\ NewBuffer.sent = 0 /\ ~NewBuffer.closed
  BY DEF NewBuffer, Buffers
<1>3. CallsOK
  BY <1>1, <1>2, ModelCallsAssumption DEF Init, CallsOK, TraceStates
<1> QED BY <1>1, <1>2, <1>3 DEF Init, CallInv, OneOwner, Unopened, RunningIsHeld, EndsSilent,
                                OpenTakes, Live, Recorded

(* A step that moves one call within its trace, or lets go of a trace that *)
(* is not running, keeps the invariant when the trace is left in order.    *)
LEMMA RecorderRests ==
  ASSUME CallInv, UNCHANGED <<call, recorder>>
  PROVE  CallInv'
BY DEF CallInv, CallsOK, OneOwner, Unopened, RunningIsHeld, EndsSilent, Silent, OpenTakes, recorder

(* Before the first turn, between two turns, and after the last. *)
LEMMA UnrecordedMoves ==
  ASSUME CallInv, NEW h \in Handlers, NEW next \in Calls, ~Recorded(call[h]),
         ~Recorded(next), next.id = 0,
         call' = [call EXCEPT ![h] = next], UNCHANGED recorder
  PROVE  CallInv'
<1>1. /\ call' \in [Handlers -> Calls] /\ call'[h] = next
      /\ \A g \in Handlers : g # h => call'[g] = call[g]
  BY DEF CallInv, CallsOK
<1>2. call[h].id = 0 /\ next.phase \notin {"closing", "telling"}
  BY DEF CallInv, OneOwner, Recorded
<1>3. UNCHANGED <<traces, opened, buffer, told, unclosed>>
  BY DEF recorder
<1>4. CallsOK'
  BY <1>1, <1>3 DEF CallInv, CallsOK
<1>5. OneOwner'
  BY <1>1, <1>2, <1>3 DEF CallInv, OneOwner
<1>6. Unopened'
  BY <1>3 DEF CallInv, Unopened
<1>7. RunningIsHeld'
  BY <1>1, <1>2, <1>3 DEF CallInv, RunningIsHeld, Ids
<1>8. EndsSilent'
  BY <1>1, <1>2, <1>3 DEF CallInv, EndsSilent, Silent, Ids
<1>9. OpenTakes'
  BY <1>1, <1>3 DEF CallInv, OpenTakes, Live, Recorded
<1> QED BY <1>4, <1>5, <1>6, <1>7, <1>8, <1>9 DEF CallInv

(* While it is recorded, before it ends. *)
LEMMA RecordedMoves ==
  ASSUME CallInv, NEW h \in Handlers, NEW next \in Calls, Recorded(call[h]),
         call[h].phase \notin {"closing", "telling"},
         next.id = call[h].id, next.phase \in {"begun", "sending", "waiting", "streaming"},
         call' = [call EXCEPT ![h] = next],
         \/ UNCHANGED told
         \/ told' = [told EXCEPT ![call[h].id] = "running"],
         UNCHANGED <<traces, opened, buffer, unclosed>>
  PROVE  CallInv'
<1>1. /\ call' \in [Handlers -> Calls] /\ call'[h] = next
      /\ \A g \in Handlers : g # h => call'[g] = call[g]
      /\ \A g \in Handlers : call'[g].id = call[g].id
  BY DEF CallInv, CallsOK
<1>2. call[h].id \in 1..opened /\ call[h].id \in Ids /\ Recorded(next) /\ opened \in Nat
  BY ModelCallsAssumption DEF CallInv, CallsOK, OneOwner, Recorded, Ids
<1>3. /\ told' \in [Ids -> {"nothing", "running", "ended"}]
      /\ \A i \in Ids : told'[i] = told[i] \/ (i = call[h].id /\ told'[i] = "running")
  BY <1>2 DEF CallInv, CallsOK
<1>4. CallsOK'
  BY <1>1, <1>3 DEF CallInv, CallsOK
<1>5. OneOwner'
  <2>1. ASSUME NEW g \in Handlers
        PROVE  IF Recorded(call'[g]) THEN call'[g].id \in 1..opened' ELSE call'[g].id = 0
    BY <1>1, <1>2 DEF CallInv, OneOwner
  <2> QED BY <1>1, <2>1 DEF CallInv, OneOwner
<1>6. Unopened'
  BY <1>2, <1>3 DEF CallInv, Unopened, Ids
<1>7. RunningIsHeld'
  BY <1>1 DEF CallInv, RunningIsHeld
<1>8. EndsSilent'
  BY <1>1, <1>3 DEF CallInv, EndsSilent, Silent
<1>9. OpenTakes'
  BY <1>1 DEF CallInv, OpenTakes, Live, Recorded
<1> QED BY <1>4, <1>5, <1>6, <1>7, <1>8, <1>9 DEF CallInv

(* A turn opens a trace that nobody has had before. *)
LEMMA BeginKeepsCallInv ==
  ASSUME CallInv, NEW h \in Handlers, Begin(h)
  PROVE  CallInv'
<1>1. /\ call[h].phase = "turn" /\ opened < MaxCalls /\ opened' = opened + 1
      /\ traces' = Pruned([traces EXCEPT ![opened'] = "running"], opened')
      /\ UNCHANGED <<buffer, told, unclosed>>
  BY DEF Begin
<1> DEFINE next == [call[h] EXCEPT !.phase = "begun", !.id = opened', !.attempt = 1,
                                   !.outcome = "none"]
<1>2. opened \in Nat /\ opened' \in Ids /\ opened' # 0
  BY <1>1, ModelCallsAssumption DEF CallInv, CallsOK, Ids
<1>3. next \in Calls /\ next.phase = "begun" /\ next.id = opened'
  BY <1>2 DEF CallInv, CallsOK, Calls, Phases, Outcomes
<1>4. call' = [call EXCEPT ![h] = next]
  BY DEF Begin, CallInv, CallsOK
<1> HIDE DEF next
<1>5. /\ call' \in [Handlers -> Calls] /\ call'[h] = next
      /\ \A g \in Handlers : g # h => call'[g] = call[g]
  BY <1>3, <1>4 DEF CallInv, CallsOK
<1>6. \A i \in Ids : traces'[i] \in TraceStates
                     /\ (traces'[i] = "running" => traces[i] = "running" \/ i = opened')
                     /\ (i > opened' => traces'[i] = "absent")
  <2> SUFFICES ASSUME NEW i \in Ids
               PROVE  traces'[i] \in TraceStates
                      /\ (traces'[i] = "running" => traces[i] = "running" \/ i = opened')
                      /\ (i > opened' => traces'[i] = "absent")
    OBVIOUS
  <2>1. traces'[i] = IF i + Retention <= opened' THEN "absent"
                     ELSE [traces EXCEPT ![opened'] = "running"][i]
    BY <1>1 DEF Pruned
  <2>2. traces'[i] \in {"absent", "running", traces[i]}
        /\ (i # opened' => traces'[i] \in {"absent", traces[i]})
    BY <1>2, <2>1 DEF CallInv, CallsOK
  <2>3. i > opened' => i > opened /\ i # opened'
    BY <1>1, <1>2 DEF Ids
  <2> QED BY <2>2, <2>3 DEF CallInv, CallsOK, Unopened, TraceStates
<1>7. \A g \in Handlers : call[g].id # opened'
  BY <1>1, <1>2 DEF CallInv, OneOwner
<1>8. call[h].id = 0
  BY <1>1 DEF CallInv, OneOwner, Recorded
<1>9. CallsOK'
  <2>1. traces' = [i \in Ids |-> traces'[i]]
    BY <1>1 DEF Pruned
  <2> QED BY <1>1, <1>2, <1>5, <1>6, <2>1 DEF CallInv, CallsOK
<1>10. OneOwner'
  <2>1. ASSUME NEW g \in Handlers
        PROVE  IF Recorded(call'[g]) THEN call'[g].id \in 1..opened' ELSE call'[g].id = 0
    <3>1. CASE g = h
      BY <1>2, <1>3, <1>5, <3>1 DEF Recorded, Ids
    <3>2. CASE g # h
      <4>1. call'[g] = call[g] /\ 1..opened \subseteq 1..opened'
        BY <1>1, <1>2, <1>5, <3>2
      <4> QED BY <4>1 DEF CallInv, OneOwner
    <3> QED BY <3>1, <3>2
  <2>2. ASSUME NEW g \in Handlers, NEW k \in Handlers, call'[g].id = call'[k].id, call'[g].id # 0
        PROVE  g = k
    BY <1>3, <1>5, <1>7, <2>2 DEF CallInv, OneOwner
  <2> QED BY <2>1, <2>2 DEF OneOwner
<1>11. Unopened'
  <2>1. \A i \in Ids : i > opened' => i > opened
    BY <1>1, <1>2 DEF Ids
  <2> QED BY <1>1, <1>6, <2>1 DEF CallInv, Unopened
<1>12. RunningIsHeld'
  <2> SUFFICES ASSUME NEW i \in Ids, traces'[i] = "running"
               PROVE  i \in unclosed' \/ \E g \in Handlers : call'[g].id = i /\ call'[g].phase # "telling"
    BY DEF RunningIsHeld
  <2>1. CASE i = opened'
    BY <1>3, <1>5, <2>1
  <2>2. CASE i # opened'
    <3>1. i \in unclosed \/ \E g \in Handlers : call[g].id = i /\ call[g].phase # "telling"
      BY <1>6, <2>2 DEF CallInv, RunningIsHeld
    <3>2. i # 0
      BY DEF Ids
    <3> QED BY <1>1, <1>5, <1>8, <3>1, <3>2
  <2> QED BY <2>1, <2>2
<1>13. EndsSilent'
  <2>1. told[opened'] = "nothing"
    BY <1>1, <1>2 DEF CallInv, Unopened
  <2> QED BY <1>1, <1>3, <1>5, <2>1 DEF CallInv, EndsSilent, Silent
<1>14. OpenTakes'
  BY <1>1, <1>2, <1>3, <1>5 DEF CallInv, OpenTakes, Unopened
<1> QED BY <1>9, <1>10, <1>11, <1>12, <1>13, <1>14 DEF CallInv

(* A call that ends has its buffer emptied and closed first. *)
LEMMA FinishKeepsCallInv ==
  ASSUME CallInv, NEW h \in Handlers, NEW outcome \in Outcomes, Finish(h, outcome),
         Recorded(call[h]), call[h].phase # "telling",
         UNCHANGED <<traces, opened, told, unclosed>>
  PROVE  CallInv'
<1> DEFINE i == call[h].id
           next == [call[h] EXCEPT !.phase = "closing", !.outcome = outcome]
           flushed == [Flushed(buffer[i]) EXCEPT !.closed = TRUE]
<1>1. i \in 1..opened /\ i \in Ids /\ i # 0 /\ opened \in Nat
  BY ModelCallsAssumption DEF CallInv, CallsOK, OneOwner, Ids
<1>2. next \in Calls /\ next.id = i /\ next.phase = "closing"
  BY DEF CallInv, CallsOK, Calls, Phases
<1>3. flushed \in Buffers /\ flushed.sent <= MaxPreview /\ flushed.pending = 0 /\ flushed.closed
  <2>1. buffer[i] \in Buffers /\ buffer[i].sent <= MaxPreview
    BY <1>1 DEF CallInv, CallsOK
  <2>2. Flushed(buffer[i]) \in Buffers /\ Flushed(buffer[i]).sent <= MaxPreview
        /\ Flushed(buffer[i]).pending = 0
    BY <2>1, FlushedBuffer
  <2> QED BY <2>2 DEF Buffers
<1>4. call' = [call EXCEPT ![h] = next] /\ buffer' = [buffer EXCEPT ![i] = flushed]
  BY DEF Finish, CallInv, CallsOK
<1> HIDE DEF next, flushed
<1>5. /\ call' \in [Handlers -> Calls] /\ call'[h] = next
      /\ \A g \in Handlers : g # h => call'[g] = call[g]
      /\ \A g \in Handlers : call'[g].id = call[g].id
  BY <1>2, <1>4 DEF CallInv, CallsOK
<1>6. /\ buffer' \in [Ids -> Buffers] /\ buffer'[i] = flushed
      /\ \A j \in Ids : j # i => buffer'[j] = buffer[j]
  BY <1>1, <1>3, <1>4 DEF CallInv, CallsOK
<1> HIDE DEF i
<1>7. CallsOK'
  BY <1>3, <1>5, <1>6 DEF CallInv, CallsOK
<1>8. OneOwner'
  BY <1>2, <1>5 DEF CallInv, OneOwner, Recorded
<1>9. Unopened'
  BY <1>1, <1>6 DEF CallInv, Unopened, Ids
<1>10. RunningIsHeld'
  BY <1>2, <1>5 DEF CallInv, RunningIsHeld
<1>11. EndsSilent'
  <2>1. \A j \in Ids : Silent(buffer[j]) => Silent(buffer'[j])
    BY <1>3, <1>6 DEF Silent
  <2>2. Silent(buffer'[i])
    BY <1>3, <1>6 DEF Silent
  <2>3. ASSUME NEW g \in Handlers, call'[g].phase \in {"closing", "telling"}
        PROVE  Silent(buffer'[call'[g].id])
    <3>1. CASE g = h
      BY <1>2, <1>5, <2>2, <3>1
    <3>2. CASE g # h
      <4>1. call'[g] = call[g] /\ Recorded(call[g]) /\ opened \in 0..MaxCalls
        BY <1>5, <2>3, <3>2, ModelCallsAssumption DEF Recorded, CallInv, CallsOK, Ids
      <4>2. call[g].id \in Ids
        BY <4>1, ModelCallsAssumption DEF CallInv, OneOwner, Ids
      <4>3. Silent(buffer[call[g].id])
        BY <2>3, <4>1 DEF CallInv, EndsSilent
      <4>4. Silent(buffer'[call[g].id])
        BY <4>1, <4>2, <4>3, <1>3, <1>6 DEF Silent
      <4> QED BY <4>1, <4>4
    <3> QED BY <3>1, <3>2
  <2> QED BY <1>5, <2>1, <2>3 DEF CallInv, EndsSilent
<1>12. OpenTakes'
  <2> SUFFICES ASSUME NEW g \in Handlers, Live(call'[g]) PROVE ~buffer'[call'[g].id].closed
    BY DEF OpenTakes
  <2>1. g # h /\ call'[g] = call[g]
    BY <1>2, <1>5 DEF Live
  <2>2. call[g].id \in Ids /\ call[g].id # i
    BY <1>1, <2>1, ModelCallsAssumption DEF CallInv, CallsOK, OneOwner, Live, Recorded, Ids, i
  <2> QED BY <1>6, <2>1, <2>2 DEF CallInv, OpenTakes
<1> QED BY <1>7, <1>8, <1>9, <1>10, <1>11, <1>12 DEF CallInv

(* The row is closed, or goes among the unclosed. *)
LEMMA ClosingKeepsCallInv ==
  ASSUME CallInv, NEW h \in Handlers, CloseRow(h) \/ CloseRowFails(h)
  PROVE  CallInv'
<1> DEFINE i == call[h].id
           next == [call[h] EXCEPT !.phase = "telling"]
<1>1. call[h].phase = "closing" /\ UNCHANGED <<opened, buffer, told>>
  BY DEF CloseRow, CloseRowFails
<1>2. i \in Ids /\ i # 0 /\ i <= opened /\ opened \in Nat
  BY <1>1, ModelCallsAssumption DEF CallInv, CallsOK, OneOwner, Recorded, Ids
<1>3. next \in Calls /\ next.id = i /\ next.phase = "telling"
  BY DEF CallInv, CallsOK, Calls, Phases
<1>4. call' = [call EXCEPT ![h] = next]
  BY DEF CloseRow, CloseRowFails, Move, CallInv, CallsOK
<1>5. /\ traces' \in [Ids -> TraceStates] /\ unclosed \subseteq unclosed'
      /\ \A j \in Ids : j # i => traces'[j] = traces[j]
      /\ traces'[i] = "running" => i \in unclosed'
      /\ traces[i] = "absent" => traces'[i] = "absent"
  BY <1>2 DEF CloseRow, CloseRowFails, CallInv, CallsOK, Ended, TraceStates
<1> HIDE DEF next
<1>6. /\ call' \in [Handlers -> Calls] /\ call'[h] = next
      /\ \A g \in Handlers : g # h => call'[g] = call[g]
      /\ \A g \in Handlers : call'[g].id = call[g].id
  BY <1>3, <1>4 DEF CallInv, CallsOK
<1>7. CallsOK'
  BY <1>1, <1>5, <1>6 DEF CallInv, CallsOK
<1>8. OneOwner'
  BY <1>1, <1>3, <1>6 DEF CallInv, OneOwner, Recorded
<1>9. Unopened'
  BY <1>1, <1>5 DEF CallInv, Unopened
<1>10. RunningIsHeld'
  <2> SUFFICES ASSUME NEW j \in Ids, traces'[j] = "running", j # i
               PROVE  j \in unclosed' \/ \E g \in Handlers : call'[g].id = j /\ call'[g].phase # "telling"
    BY <1>5 DEF RunningIsHeld
  <2>1. j \in unclosed \/ \E g \in Handlers : call[g].id = j /\ call[g].phase # "telling"
    BY <1>5 DEF CallInv, RunningIsHeld
  <2> QED BY <1>5, <1>6, <2>1
<1>11. EndsSilent'
  <2>1. Silent(buffer[i])
    BY <1>1 DEF CallInv, EndsSilent
  <2> QED BY <1>1, <1>3, <1>6, <2>1 DEF CallInv, EndsSilent, Silent
<1>12. OpenTakes'
  BY <1>1, <1>3, <1>6 DEF CallInv, OpenTakes, Live
<1> QED BY <1>7, <1>8, <1>9, <1>10, <1>11, <1>12 DEF CallInv

(* The end is told of a call that nobody drives any more. *)
LEMMA TellingKeepsCallInv ==
  ASSUME CallInv, NEW h \in Handlers, TellEnded(h)
  PROVE  CallInv'
<1> DEFINE i == call[h].id
           next == IF Nudged(h) THEN [NoCall EXCEPT !.phase = "turn", !.nudges = call[h].nudges + 1]
                   ELSE NoCall
<1>1. call[h].phase = "telling" /\ told' = [told EXCEPT ![i] = "ended"]
      /\ UNCHANGED <<traces, opened, buffer, unclosed>>
  BY DEF TellEnded
<1>2. i \in Ids /\ i # 0 /\ i <= opened
  BY <1>1, ModelCallsAssumption DEF CallInv, CallsOK, OneOwner, Recorded, Ids
<1>3. next \in Calls /\ next.id = 0 /\ next.phase \in {"idle", "turn"}
  <2>1. CASE Nudged(h)
    <3>1. next = [phase |-> "turn", id |-> 0, nudges |-> call[h].nudges + 1, attempt |-> 0,
                  outcome |-> "none"]
      BY <2>1 DEF NoCall
    <3>2. call[h].nudges + 1 \in Nat
      BY DEF CallInv, CallsOK, Calls
    <3> HIDE DEF next
    <3> QED BY <3>1, <3>2 DEF Calls, Phases, Outcomes
  <2> QED BY <2>1, NoCallIsACall
<1>4. call' = [call EXCEPT ![h] = next]
  BY DEF TellEnded, Drop
<1> HIDE DEF next
<1>5. /\ call' \in [Handlers -> Calls] /\ call'[h] = next
      /\ \A g \in Handlers : g # h => call'[g] = call[g]
  BY <1>3, <1>4 DEF CallInv, CallsOK
<1>6. /\ told' \in [Ids -> {"nothing", "running", "ended"}] /\ told'[i] = "ended"
      /\ \A j \in Ids : j # i => told'[j] = told[j]
  BY <1>1, <1>2 DEF CallInv, CallsOK
<1>7. CallsOK'
  BY <1>1, <1>5, <1>6 DEF CallInv, CallsOK
<1>8. OneOwner'
  BY <1>1, <1>3, <1>5 DEF CallInv, OneOwner, Recorded
<1>9. Unopened'
  BY <1>1, <1>2, <1>6, ModelCallsAssumption DEF CallInv, CallsOK, Unopened, Ids
<1>10. RunningIsHeld'
  BY <1>1, <1>5 DEF CallInv, RunningIsHeld
<1>11. EndsSilent'
  <2>1. Silent(buffer[i]) /\ \A g \in Handlers : g # h => call[g].id # i
    BY <1>1, <1>2 DEF CallInv, EndsSilent, OneOwner
  <2>2. \A j \in Ids : told'[j] = "ended" => Silent(buffer'[j]) /\ \A g \in Handlers : call'[g].id # j
    <3> SUFFICES ASSUME NEW j \in Ids, told'[j] = "ended"
                 PROVE  Silent(buffer'[j]) /\ \A g \in Handlers : call'[g].id # j
      OBVIOUS
    <3>1. Silent(buffer[j]) /\ (\A g \in Handlers : g # h => call[g].id # j) /\ j # 0
      BY <1>6, <2>1 DEF CallInv, EndsSilent, Ids
    <3> QED BY <1>1, <1>3, <1>5, <3>1 DEF Silent
  <2>3. \A g \in Handlers : call'[g].phase \in {"closing", "telling"} => Silent(buffer'[call'[g].id])
    BY <1>1, <1>3, <1>5 DEF CallInv, EndsSilent, Silent
  <2> QED BY <2>2, <2>3 DEF EndsSilent
<1>12. OpenTakes'
  BY <1>1, <1>3, <1>5 DEF CallInv, OpenTakes, Live
<1> QED BY <1>7, <1>8, <1>9, <1>10, <1>11, <1>12 DEF CallInv

(* What is streamed goes into the buffer of an open call, and a timer that *)
(* fires late finds nothing.                                               *)
LEMMA BuffersKeepCallInv ==
  ASSUME CallInv, (\E h \in Handlers : Push(h)) \/ (\E i \in Ids : Flush(i))
  PROVE  CallInv' /\ \A i \in Ids : told[i] = "ended" => buffer'[i].sent = buffer[i].sent
<1>1. UNCHANGED <<call, traces, opened, told, unclosed>>
  BY DEF Push, Flush
<1>2. /\ buffer' \in [Ids -> Buffers]
      /\ \A i \in Ids : /\ buffer'[i].sent <= MaxPreview /\ buffer'[i].closed = buffer[i].closed
                        /\ Silent(buffer[i]) => buffer'[i].pending = 0 /\ buffer'[i].sent = buffer[i].sent
  <2>1. ASSUME NEW h \in Handlers, Push(h)
        PROVE  /\ buffer' \in [Ids -> Buffers]
               /\ \A i \in Ids :
                    /\ buffer'[i].sent <= MaxPreview /\ buffer'[i].closed = buffer[i].closed
                    /\ Silent(buffer[i]) => buffer'[i].pending = 0 /\ buffer'[i].sent = buffer[i].sent
    <3> DEFINE k == call[h].id
               more == Added(buffer[k])
    <3>1. call[h].phase = "streaming" /\ buffer' = [buffer EXCEPT ![k] = more]
      BY <2>1 DEF Push
    <3>2. k \in Ids /\ buffer[k] \in Buffers /\ buffer[k].sent <= MaxPreview
      BY <3>1, ModelCallsAssumption DEF CallInv, CallsOK, OneOwner, Recorded, Ids
    <3>3. more \in Buffers /\ more.sent = buffer[k].sent /\ more.closed = buffer[k].closed
      <4>1. [buffer[k] EXCEPT !.pending = buffer[k].pending + 1] \in Buffers
            /\ [buffer[k] EXCEPT !.pending = buffer[k].pending + 1].sent = buffer[k].sent
            /\ [buffer[k] EXCEPT !.pending = buffer[k].pending + 1].closed = buffer[k].closed
        BY <3>2 DEF Buffers
      <4>2. \A b \in Buffers : Scheduled(b) \in Buffers /\ Scheduled(b).sent = b.sent
                              /\ Scheduled(b).closed = b.closed
        BY DEF Scheduled, Buffers
      <4> QED BY <4>1, <4>2 DEF Added
    <3>4. ~Silent(buffer[k])
      BY <3>1 DEF CallInv, OpenTakes, Live, Silent
    <3> HIDE DEF more
    <3> QED BY <3>1, <3>2, <3>3, <3>4 DEF CallInv, CallsOK, Silent
  <2>2. ASSUME NEW k \in Ids, Flush(k)
        PROVE  /\ buffer' \in [Ids -> Buffers]
               /\ \A i \in Ids :
                    /\ buffer'[i].sent <= MaxPreview /\ buffer'[i].closed = buffer[i].closed
                    /\ Silent(buffer[i]) => buffer'[i].pending = 0 /\ buffer'[i].sent = buffer[i].sent
    <3> DEFINE less == [Flushed(buffer[k]) EXCEPT !.timer = FALSE]
    <3>1. buffer' = [buffer EXCEPT ![k] = less]
      BY <2>2 DEF Flush
    <3>2. buffer[k] \in Buffers /\ buffer[k].sent <= MaxPreview
      BY DEF CallInv, CallsOK
    <3>3. /\ less \in Buffers /\ less.sent <= MaxPreview /\ less.closed = buffer[k].closed
          /\ less.pending = 0 /\ (buffer[k].pending = 0 => less.sent = buffer[k].sent)
      <4>1. /\ Flushed(buffer[k]) \in Buffers /\ Flushed(buffer[k]).sent <= MaxPreview
            /\ Flushed(buffer[k]).pending = 0 /\ Flushed(buffer[k]).closed = buffer[k].closed
            /\ buffer[k].pending = 0 => Flushed(buffer[k]).sent = buffer[k].sent
        BY <3>2, FlushedBuffer
      <4> QED BY <4>1 DEF Buffers
    <3> HIDE DEF less
    <3> QED BY <3>1, <3>2, <3>3 DEF CallInv, CallsOK, Silent
  <2> QED BY <2>1, <2>2
<1>3. CallsOK'
  BY <1>1, <1>2 DEF CallInv, CallsOK
<1>4. OneOwner' /\ RunningIsHeld'
  BY <1>1 DEF CallInv, OneOwner, RunningIsHeld
<1>5. Unopened'
  BY <1>1, <1>2 DEF CallInv, Unopened
<1>6. \A i \in Ids : Silent(buffer[i]) => Silent(buffer'[i])
  BY <1>2 DEF Silent
<1>7. \A h \in Handlers : Recorded(call[h]) => call[h].id \in Ids
  BY ModelCallsAssumption DEF CallInv, CallsOK, OneOwner, Ids
<1>8. EndsSilent'
  <2>1. \A h \in Handlers : call[h].phase \in {"closing", "telling"} => Silent(buffer'[call[h].id])
    BY <1>6, <1>7 DEF CallInv, EndsSilent, Recorded
  <2> QED BY <1>1, <1>6, <2>1 DEF CallInv, EndsSilent, Silent
<1>9. OpenTakes'
  BY <1>1, <1>2, <1>7 DEF CallInv, OpenTakes, Live, Recorded
<1>10. \A i \in Ids : told[i] = "ended" => buffer'[i].sent = buffer[i].sent
  BY <1>2 DEF CallInv, EndsSilent
<1> QED BY <1>3, <1>4, <1>5, <1>8, <1>9, <1>10 DEF CallInv

(* A restart leaves no call and no running row. *)
LEMMA RestartKeepsCallInv ==
  ASSUME CallInv, Restart
  PROVE  CallInv' /\ \A i \in Ids : told[i] = "ended" => buffer'[i].sent = buffer[i].sent
<1>1. /\ call' = [h \in Handlers |-> NoCall] /\ traces' = Interrupted(traces)
      /\ buffer' = [i \in Ids |-> IF i > opened THEN NewBuffer
                                  ELSE [NewBuffer EXCEPT !.sent = buffer[i].sent, !.closed = TRUE]]
      /\ UNCHANGED <<opened, told>>
  BY DEF Restart
<1>2. \A i \in Ids :
        /\ buffer'[i] \in Buffers /\ buffer'[i].sent <= MaxPreview /\ buffer'[i].pending = 0
        /\ IF i > opened THEN ~buffer'[i].closed
           ELSE buffer'[i].closed /\ buffer'[i].sent = buffer[i].sent
  <2> SUFFICES ASSUME NEW i \in Ids
               PROVE  /\ buffer'[i] \in Buffers /\ buffer'[i].sent <= MaxPreview
                      /\ buffer'[i].pending = 0
                      /\ IF i > opened THEN ~buffer'[i].closed
                         ELSE buffer'[i].closed /\ buffer'[i].sent = buffer[i].sent
    OBVIOUS
  <2>1. buffer[i].sent \in Nat /\ buffer[i].sent <= MaxPreview
    BY DEF CallInv, CallsOK, Buffers
  <2>2. NewBuffer \in Buffers /\ NewBuffer.sent = 0 /\ NewBuffer.pending = 0 /\ ~NewBuffer.closed
    BY DEF NewBuffer, Buffers
  <2>3. CASE i > opened
    <3>1. buffer'[i] = NewBuffer
      BY <1>1, <2>3
    <3> QED BY <2>2, <2>3, <3>1, ModelCallsAssumption
  <2>4. CASE ~(i > opened)
    <3>1. buffer'[i] = [NewBuffer EXCEPT !.sent = buffer[i].sent, !.closed = TRUE]
      BY <1>1, <2>4
    <3> QED BY <2>1, <2>2, <2>4, <3>1 DEF Buffers
  <2> QED BY <2>3, <2>4
<1>3. \A i \in Ids : traces'[i] \in TraceStates \ {"running"}
                     /\ (traces[i] = "absent" => traces'[i] = "absent")
  BY <1>1 DEF Interrupted, CallInv, CallsOK, TraceStates
<1>4. \A h \in Handlers : call'[h] = NoCall
  BY <1>1
<1>5. CallsOK'
  <2>1. traces' \in [Ids -> TraceStates] /\ buffer' \in [Ids -> Buffers]
    BY <1>1, <1>2, <1>3 DEF Interrupted
  <2>2. call' \in [Handlers -> Calls]
    BY <1>1, NoCallIsACall
  <2> QED BY <1>1, <1>2, <2>1, <2>2 DEF CallInv, CallsOK
<1>6. OneOwner' /\ OpenTakes'
  BY <1>4, NoCallIsACall DEF OneOwner, OpenTakes, Live, Recorded
<1>7. Unopened'
  BY <1>1, <1>2, <1>3, ModelCallsAssumption DEF CallInv, CallsOK, Unopened, Ids
<1>8. RunningIsHeld'
  BY <1>3 DEF RunningIsHeld
<1>9. EndsSilent'
  <2>1. \A i \in Ids : told[i] = "ended" => ~(i > opened) /\ i # 0
    BY ModelCallsAssumption DEF CallInv, CallsOK, Unopened, Ids
  <2> QED BY <1>1, <1>2, <1>4, <2>1, NoCallIsACall DEF EndsSilent, Silent
<1>10. \A i \in Ids : told[i] = "ended" => buffer'[i].sent = buffer[i].sent
  BY <1>2 DEF CallInv, Unopened
<1> QED BY <1>5, <1>6, <1>7, <1>8, <1>9, <1>10 DEF CallInv

(* Every step keeps the invariant, and pushes nothing of a call that is    *)
(* known to have ended.                                                    *)
LEMMA StepsKeepCallInv ==
  ASSUME CallInv, [Next]_vars
  PROVE  CallInv' /\ \A i \in Ids : told[i] = "ended" => buffer'[i].sent = buffer[i].sent
<1>1. CASE UNCHANGED vars
  BY <1>1, RecorderRests DEF vars, recorder
<1>2. CASE People /\ UNCHANGED <<call, recorder, crashes>>
  BY <1>2, RecorderRests DEF recorder
<1>3. CASE Restart
  BY <1>3, RestartKeepsCallInv
<1>4. CASE (\E h \in Handlers : Push(h)) \/ (\E i \in Ids : Flush(i))
  BY <1>4, BuffersKeepCallInv
<1>5. ASSUME NEW h \in Handlers, Ask(h) \/ Step(h)
      PROVE  CallInv' /\ \A i \in Ids : told[i] = "ended" => buffer'[i].sent = buffer[i].sent
  <2>1. call[h] \in Calls
    BY DEF CallInv, CallsOK
  <2>2. CASE Ask(h) \/ GetToken(h) \/ Refresh(h) \/ BeginFails(h)
    <3>1. ~Recorded(call[h]) /\ UNCHANGED recorder
      BY <2>2 DEF Ask, GetToken, Refresh, BeginFails, Recorded
    <3>2. \/ UNCHANGED call \/ Drop(h) \/ Move(h, "token") \/ Move(h, "turn")
      BY <2>2 DEF Ask, GetToken, Refresh, BeginFails
    <3>3. UNCHANGED buffer
      BY <3>1 DEF recorder
    <3>4. CASE UNCHANGED call
      BY <3>1, <3>3, <3>4, RecorderRests
    <3>5. CASE Drop(h)
      BY <3>1, <3>3, <3>5, NoCallIsACall, UnrecordedMoves DEF Drop, Recorded
    <3>6. ASSUME NEW phase \in {"token", "turn"}, Move(h, phase) PROVE CallInv'
      <4> DEFINE next == [call[h] EXCEPT !.phase = phase]
      <4>1. call' = [call EXCEPT ![h] = next]
        BY <3>6 DEF Move, CallInv, CallsOK
      <4>2. next \in Calls /\ ~Recorded(next) /\ next.id = call[h].id
        BY <2>1 DEF Calls, Phases, Recorded
      <4>3. call[h].id = 0
        BY <3>1 DEF CallInv, OneOwner
      <4> HIDE DEF next
      <4> QED BY <3>1, <4>1, <4>2, <4>3, UnrecordedMoves
    <3> QED BY <3>2, <3>3, <3>4, <3>5, <3>6
  <2>3. CASE Begin(h)
    BY <2>3, BeginKeepsCallInv DEF Begin
  <2>4. ASSUME NEW phase \in {"sending", "waiting", "streaming"}, NEW attempt \in Nat,
               Recorded(call[h]), call[h].phase \notin {"closing", "telling"},
               call' = [call EXCEPT ![h].phase = phase, ![h].attempt = attempt],
               \/ UNCHANGED told
               \/ told' = [told EXCEPT ![call[h].id] = "running"],
               UNCHANGED <<traces, opened, buffer, unclosed>>
        PROVE  CallInv'
    <3> DEFINE next == [call[h] EXCEPT !.phase = phase, !.attempt = attempt]
    <3>1. call' = [call EXCEPT ![h] = next]
      BY <2>4 DEF CallInv, CallsOK
    <3>2. next \in Calls /\ next.id = call[h].id /\ next.phase = phase
      BY <2>1, <2>4 DEF Calls, Phases
    <3> HIDE DEF next
    <3> QED BY <2>4, <3>1, <3>2, RecordedMoves
  <2>5. ASSUME NEW phase \in {"sending", "waiting", "streaming"}, Move(h, phase)
        PROVE  call[h].attempt \in Nat
               /\ call' = [call EXCEPT ![h].phase = phase, ![h].attempt = call[h].attempt]
    <3>1. call[h].attempt \in Nat
      BY <2>1 DEF Calls
    <3>2. [call[h] EXCEPT !.phase = phase]
            = [call[h] EXCEPT !.phase = phase, !.attempt = call[h].attempt]
      BY <2>1 DEF Calls
    <3> QED BY <2>5, <3>1, <3>2 DEF Move, CallInv, CallsOK
  <2>6. CASE TellRunning(h)
    BY <2>4, <2>5, <2>6 DEF TellRunning, Recorded
  <2>7. ASSUME NEW outcome \in Outcomes, Finish(h, outcome),
               call[h].phase \in {"sending", "waiting", "streaming"},
               UNCHANGED <<traces, opened, told, unclosed>>
        PROVE  CallInv' /\ \A i \in Ids : told[i] = "ended" => buffer'[i].sent = buffer[i].sent
    <3>1. CallInv'
      BY <2>7, FinishKeepsCallInv DEF Recorded
    <3>2. ASSUME NEW i \in Ids, told[i] = "ended" PROVE buffer'[i] = buffer[i]
      <4>1. i # call[h].id
        BY <3>2 DEF CallInv, EndsSilent
      <4> QED BY <2>7, <4>1 DEF Finish, CallInv, CallsOK
    <3> QED BY <3>1, <3>2
  <2>8. CASE Respond(h)
    <3>1. call[h].phase = "sending" /\ UNCHANGED <<traces, opened, told, unclosed>>
      BY <2>8 DEF Respond
    <3>2. CASE Finish(h, "failed")
      BY <2>7, <3>1, <3>2 DEF Outcomes
    <3>3. ASSUME NEW phase \in {"waiting", "streaming"}, Move(h, phase), UNCHANGED buffer
          PROVE  CallInv'
      BY <2>4, <2>5, <3>1, <3>3 DEF Recorded
    <3> QED BY <2>8, <3>2, <3>3 DEF Respond
  <2>9. CASE Wait(h)
    <3>1. call[h].phase = "waiting" /\ UNCHANGED <<traces, opened, told, unclosed>>
      BY <2>9 DEF Wait
    <3>2. CASE Finish(h, "failed")
      BY <2>7, <3>1, <3>2 DEF Outcomes
    <3>3. CASE call' = [call EXCEPT ![h].phase = "sending", ![h].attempt = @ + 1] /\ UNCHANGED buffer
      <4>1. call[h].attempt + 1 \in Nat
        BY <2>1 DEF Calls
      <4>2. call' = [call EXCEPT ![h].phase = "sending", ![h].attempt = call[h].attempt + 1]
        BY <2>1, <3>3 DEF CallInv, CallsOK, Calls
      <4> QED BY <2>4, <3>1, <3>3, <4>1, <4>2 DEF Recorded
    <3> QED BY <2>9, <3>2, <3>3 DEF Wait
  <2>10. CASE StreamEnds(h)
    BY <2>7, <2>10 DEF StreamEnds
  <2>11. CASE CloseRow(h) \/ CloseRowFails(h)
    BY <2>11, ClosingKeepsCallInv DEF CloseRow, CloseRowFails
  <2>12. CASE TellEnded(h)
    BY <2>12, TellingKeepsCallInv DEF TellEnded
  <2> QED BY <1>5, <2>2, <2>3, <2>6, <2>8, <2>9, <2>10, <2>11, <2>12 DEF Step
<1> QED BY <1>1, <1>2, <1>3, <1>4, <1>5 DEF Next

-----------------------------------------------------------------------------

LEMMA CallsStayInOrder == Spec => []CallInv
<1>1. CallInv /\ [Next]_vars => CallInv'
  BY StepsKeepCallInv
<1> QED BY <1>1, InitCallInv, PTL DEF Spec

(* A row reads as running only while a request of this process drives it,  *)
(* or its close could not be written: for any requests, nudges, prunings   *)
(* and restarts (ResolveInterrupted, finish).                              *)
THEOREM RunningRowsAreOwned == Spec => []RunningHasOwner
<1>1. CallInv => RunningHasOwner
  BY DEF CallInv, RunningIsHeld, RunningHasOwner
<1> QED BY <1>1, CallsStayInOrder, PTL

(* Nothing is pushed of a call whose end has been told, however late its   *)
(* timer fires (finish, flush).                                            *)
THEOREM EndedCallsArePushedNoMore == Spec => NoDeltaAfterEnd
<1>1. CallInv /\ [Next]_vars =>
        [\A i \in Ids : told[i] = "ended" => buffer'[i].sent = buffer[i].sent]_vars
  BY StepsKeepCallInv
<1> QED BY <1>1, CallsStayInOrder, PTL DEF Spec, NoDeltaAfterEnd

-----------------------------------------------------------------------------
(* The login.                                                              *)

Places == {"env", "store", "file"}

(* The place a block was resolved from holds it still; or what it holds    *)
(* instead has expired, or is what Claude Code has been granted since.     *)
CachedAsHeld ==
  cached # Absent =>
    \/ held[origin] = cached \/ held[origin] = Absent \/ Expiring(held[origin])
    \/ origin = "file" /\ held["file"].refresh = valid

(* While a token is exchanged, its place holds nothing that would do; only *)
(* Claude Code may still replace it, and with a rotating endpoint that     *)
(* takes the exchange away.                                                *)
ExchangedAsHeld ==
  holder # Nobody =>
    \/ held[origin] = Absent \/ Expiring(held[origin])
    \/ /\ origin = "file" /\ held["file"].refresh = valid
       /\ Rotates => ~granted /\ exchange.refresh < valid

GrantedIsValid ==
  granted => exchange.refresh = valid /\ (Rotates => held["file"].refresh < valid)

(* Only the environment may carry a token nobody was granted. *)
FromGrants ==
  /\ held["file"].refresh <= grants
  /\ origin = "file" => cached.refresh <= grants /\ exchange.refresh <= grants

LoginInv ==
  /\ valid \in 1 .. grants /\ (Rotates => valid = grants)
  /\ \A s \in torn : held[s] = Absent
  /\ CachedAsHeld /\ ExchangedAsHeld /\ GrantedIsValid /\ FromGrants

LEMMA ThePlaces ==
  /\ Range(Sources) = Places /\ Len(Sources) = 3
  /\ Sources[1] = "env" /\ Sources[2] = "store" /\ Sources[3] = "file"
<1>1. DOMAIN Sources = 1 .. 3 /\ Len(Sources) = 3
      /\ Sources[1] = "env" /\ Sources[2] = "store" /\ Sources[3] = "file"
  BY DEF Sources
<1>2. 1 .. 3 = {1, 2, 3}
  OBVIOUS
<1>3. Range(Sources) = {Sources[i] : i \in {1, 2, 3}}
  BY <1>1, <1>2 DEF Range
<1> QED BY <1>1, <1>3 DEF Places

(* The first of the places that qualify. *)
LEMMA LeastPlace ==
  ASSUME NEW I \in SUBSET (1 .. 3), NEW n, n = IF I # {} THEN Min(I) ELSE 0
  PROVE  /\ n = 0 <=> I = {}
         /\ n # 0 => n \in I
<1>1. CASE I = {}
  BY <1>1
<1>2. CASE I # {}
  <2>1. PICK k \in I : \A j \in I : k <= j
    <3>0. \A j \in I : j \in {1, 2, 3}
      OBVIOUS
    <3>1. CASE 1 \in I
      BY <3>0, <3>1
    <3>2. CASE 1 \notin I /\ 2 \in I
      BY <3>0, <3>2
    <3>3. CASE 1 \notin I /\ 2 \notin I
      <4>1. \A j \in I : j = 3
        BY <3>0, <3>3
      <4>2. PICK k \in I : TRUE
        BY <1>2
      <4> QED BY <4>1, <4>2
    <3> QED BY <3>1, <3>2, <3>3
  <2>2. Min(I) \in I
    BY <2>1 DEF Min
  <2> QED BY <1>2, <2>2
<1> QED BY <1>1, <1>2

LEMMA FirstIsThere ==
  /\ First = 0 <=> \A s \in Places : ~Present(s)
  /\ First # 0 => Sources[First] \in Places /\ Present(Sources[First])
<1> DEFINE I == {i \in 1 .. Len(Sources) : Present(Sources[i])}
<1>1. First = IF I # {} THEN Min(I) ELSE 0
  BY DEF First, SelectInSeq
<1>2. I \in SUBSET (1 .. 3)
  BY ThePlaces
<1>3. /\ First = 0 <=> I = {}
      /\ First # 0 => First \in I
  <2> HIDE DEF I
  <2> QED BY <1>1, <1>2, LeastPlace
<1>4. I = {} <=> \A s \in Places : ~Present(s)
  <2>1. ASSUME I = {} PROVE \A s \in Places : ~Present(s)
    <3>1. 1 \notin I /\ 2 \notin I /\ 3 \notin I
      BY <2>1
    <3>2. ~Present(Sources[1]) /\ ~Present(Sources[2]) /\ ~Present(Sources[3])
      BY <3>1, ThePlaces
    <3> QED BY <3>2, ThePlaces DEF Places
  <2>2. ASSUME \A s \in Places : ~Present(s), NEW i \in I PROVE FALSE
    <3>1. i \in 1 .. 3 /\ Present(Sources[i])
      BY ThePlaces
    <3>2. Sources[i] \in Places
      BY <3>1, ThePlaces DEF Places
    <3> QED BY <2>2, <3>1, <3>2
  <2> QED BY <2>1, <2>2
<1>5. ASSUME First # 0 PROVE Sources[First] \in Places /\ Present(Sources[First])
  <2>1. First \in 1 .. 3 /\ Present(Sources[First])
    BY <1>3, <1>5, ThePlaces
  <2> QED BY <2>1, ThePlaces DEF Places
<1> QED BY <1>3, <1>4, <1>5

(* What AccessToken works with. *)
LEMMA ResolvedIsHeld ==
  ASSUME CredentialsTypeOK, Resolves
  PROVE  /\ Source \in Places /\ Resolved \in Blocks /\ Reread \in Blocks
         /\ cached # Absent => Source = origin /\ Resolved = cached
         /\ cached = Absent => Resolved = held[Source]
<1>1. cached = Absent => First # 0
  BY FirstIsThere, ThePlaces DEF Resolves, Missing
<1>2. Source \in Places
  BY <1>1, FirstIsThere, ThePlaces DEF Source, CredentialsTypeOK
<1>3. held[Source] \in Blocks
  BY <1>2, ThePlaces DEF CredentialsTypeOK
<1> QED BY <1>2, <1>3 DEF Resolved, Reread, Source, CredentialsTypeOK

LEMMA ResolvedAgain ==
  ASSUME NEW places_ \in [Places -> Blocks], NEW torn_ \in SUBSET Places,
         CredentialsTypeOK, ResolveAgain(places_, torn_)
  PROVE  \/ cached' = Absent /\ origin' = origin
         \/ origin' \in Places /\ cached' = places_[origin']
<1> DEFINE There(s) == places_[s] # Absent \/ s \in torn_
           I == {i \in 1 .. Len(Sources) : There(Sources[i])}
           n == IF I # {} THEN Min(I) ELSE 0
<1>1. I \in SUBSET (1 .. 3)
  BY ThePlaces
<1>2. n # 0 => n \in 1 .. 3
  <2> HIDE DEF I
  <2> QED BY <1>1, LeastPlace
<1>3. IF n = 0 \/ Sources[n] \in torn_
      THEN cached' = Absent /\ UNCHANGED origin
      ELSE cached' = places_[Sources[n]] /\ origin' = Sources[n]
  BY DEF ResolveAgain, SelectInSeq
<1> HIDE DEF n
<1>4. n # 0 => Sources[n] \in Places
  BY <1>2, ThePlaces DEF Places
<1> QED BY <1>3, <1>4

CredentialsInv == CredentialsTypeOK /\ LoginInv

LEMMA InitCredentials == Init => CredentialsInv
<1> SUFFICES ASSUME CredentialsInit PROVE CredentialsInv
  BY DEF Init
<1>1. Parse(EnvRaw) \in Blocks /\ Absent \in Blocks /\ Absent.refresh = 0
  BY CredentialsAssumption DEF Parse, Raws, Blocks, Absent
<1>2. /\ DOMAIN held = Places /\ held["env"] = Parse(EnvRaw) /\ held["store"] = Absent
      /\ held["file"] = [access |-> 1, refresh |-> 1]
  BY ThePlaces DEF CredentialsInit, Places
<1>3. [access |-> 1, refresh |-> 1] \in Blocks
  BY DEF Blocks
<1>4. held \in [Places -> Blocks]
  <2> DEFINE initial(s) == CASE s = "env" -> Parse(EnvRaw)
                             [] s = "store" -> Absent
                             [] s = "file" -> [access |-> 1, refresh |-> 1]
  <2>1. held = [s \in Places |-> initial(s)]
    BY ThePlaces DEF CredentialsInit
  <2>2. \A s \in Places : initial(s) \in Blocks
    BY <1>1, <1>3 DEF Places
  <2> HIDE DEF initial
  <2> QED BY <2>1, <2>2
<1>5. /\ cached = Absent /\ origin = "file" /\ valid = 1 /\ grants = 1 /\ expired = {}
      /\ holder = Nobody /\ exchange = Absent /\ granted = FALSE
  BY DEF CredentialsInit
<1>6. torn \subseteq {"env"} /\ \A s \in torn : held[s] = Absent
  BY <1>2 DEF CredentialsInit
<1>7. CredentialsTypeOK
  BY <1>1, <1>4, <1>5, <1>6, ThePlaces DEF CredentialsTypeOK, Places
<1>8. held["file"].refresh = 1
  BY <1>2
<1> QED BY <1>1, <1>5, <1>6, <1>7, <1>8
     DEF CredentialsInv, LoginInv, CachedAsHeld, ExchangedAsHeld, GrantedIsValid, FromGrants

LEMMA CredentialsRest ==
  ASSUME CredentialsInv, UNCHANGED credentials
  PROVE  CredentialsInv' /\ (LoginHeld => LoginHeld')
BY DEF CredentialsInv, CredentialsTypeOK, LoginInv, CachedAsHeld, ExchangedAsHeld, GrantedIsValid,
       FromGrants, Expiring, LoginHeld, Readable, credentials, places, resolver, endpoint

(* What is cached anew is what was, or what its place holds. *)
LEMMA TakingKeepsLogin ==
  ASSUME CredentialsInv, NEW h \in Handlers, TakeToken(h)
  PROVE  CredentialsInv' /\ (LoginHeld => LoginHeld')
<1>1. Resolves /\ holder = Nobody /\ UNCHANGED <<held, torn, holder, exchange, granted>>
      /\ UNCHANGED <<valid, grants, expired>>
  BY DEF TakeToken, places, endpoint
<1>2. PICK block \in {Resolved, Reread} :
        /\ ~Expiring(block) /\ cached' = block /\ origin' = Source
        /\ block = Reread => Expiring(Resolved) \/ block = Resolved
  BY DEF TakeToken
<1>3. /\ Source \in Places /\ block \in Blocks /\ ~granted /\ exchange = Absent
      /\ cached # Absent => Source = origin /\ Resolved = cached
      /\ cached = Absent => Resolved = held[Source]
  BY <1>1, ResolvedIsHeld DEF CredentialsInv, CredentialsTypeOK
<1>4. \/ block = held[Source]
      \/ cached # Absent /\ block = cached /\ origin' = origin
  BY <1>2, <1>3 DEF Reread
<1>5. CredentialsTypeOK'
  BY <1>1, <1>2, <1>3, ThePlaces DEF CredentialsInv, CredentialsTypeOK
<1>6. CachedAsHeld'
  BY <1>1, <1>2, <1>4 DEF CredentialsInv, LoginInv, CachedAsHeld, Expiring
<1>7. origin' = "file" => cached'.refresh <= grants
  BY <1>2, <1>4 DEF CredentialsInv, LoginInv, FromGrants
<1>8. Absent.refresh = 0
  BY DEF Absent
<1>9. LoginInv'
  <2>1. FromGrants'
    BY <1>1, <1>3, <1>7, <1>8 DEF CredentialsInv, CredentialsTypeOK, LoginInv, FromGrants
  <2> QED BY <1>1, <1>3, <1>6, <2>1
       DEF CredentialsInv, LoginInv, ExchangedAsHeld, GrantedIsValid
<1>10. ASSUME LoginHeld PROVE LoginHeld'
  <2>1. CASE \E s \in {"store", "file"} : Readable(s) /\ held[s].refresh = valid
    BY <1>1, <2>1 DEF LoginHeld, Readable
  <2>2. CASE cached # Absent /\ cached.refresh = valid
    <3>1. CASE block = cached
      BY <1>1, <1>2, <2>2, <3>1 DEF LoginHeld
    <3>2. CASE block # cached
      <4>1. block = Reread /\ Expiring(cached) /\ Readable(origin) /\ block = held[origin]
        BY <1>2, <1>3, <2>2, <3>2 DEF Reread
      <4>2. held["file"].refresh = valid /\ origin = "file"
        BY <1>2, <2>2, <3>2, <4>1 DEF CredentialsInv, LoginInv, CachedAsHeld, Readable
      <4> QED BY <1>1, <4>1, <4>2 DEF LoginHeld, Readable
    <3> QED BY <3>1, <3>2
  <2> QED BY <1>3, <1>10, <2>1, <2>2 DEF LoginHeld
<1> QED BY <1>5, <1>9, <1>10 DEF CredentialsInv

(* The mutex is taken with the block an exchange will post.                *)
LEMMA BeginningKeepsLogin ==
  ASSUME CredentialsInv, NEW h \in Handlers, BeginExchange(h)
  PROVE  CredentialsInv' /\ (LoginHeld => LoginHeld')
<1>1. /\ Resolves /\ holder = Nobody /\ Expiring(Resolved) /\ Expiring(Reread)
      /\ cached' = Resolved /\ origin' = Source /\ holder' = h /\ exchange' = Reread
      /\ UNCHANGED <<held, torn, valid, grants, expired, granted>>
  BY DEF BeginExchange, places, endpoint
<1>2. /\ Source \in Places /\ Resolved \in Blocks /\ Reread \in Blocks /\ ~granted
      /\ cached # Absent => Source = origin /\ Resolved = cached
      /\ cached = Absent => Resolved = held[Source]
  BY <1>1, ResolvedIsHeld DEF CredentialsInv, CredentialsTypeOK
<1>3. CredentialsTypeOK'
  BY <1>1, <1>2, ThePlaces, CredentialsAssumption DEF CredentialsInv, CredentialsTypeOK
<1>4. CachedAsHeld'
  BY <1>1, <1>2 DEF CredentialsInv, LoginInv, CachedAsHeld, Expiring
<1>5. ExchangedAsHeld'
  <2>1. CASE Readable(Source)
    BY <1>1, <2>1 DEF Reread, ExchangedAsHeld, Expiring
  <2>2. CASE ~Readable(Source)
    <3>1. held[Source] = Absent
      BY <2>2 DEF Readable, CredentialsInv, LoginInv
    <3> QED BY <1>1, <3>1 DEF ExchangedAsHeld
  <2> QED BY <2>1, <2>2
<1>6. FromGrants'
  <2>1. Reread \in {Resolved, held[Source]} /\ Resolved \in {cached, held[Source]}
    BY <1>2 DEF Reread
  <2> QED BY <1>1, <1>2, <2>1 DEF CredentialsInv, LoginInv, FromGrants
<1>7. LoginInv'
  BY <1>1, <1>2, <1>4, <1>5, <1>6 DEF CredentialsInv, LoginInv, GrantedIsValid
<1>8. LoginHeld => LoginHeld'
  BY <1>1, <1>2 DEF LoginHeld, Readable
<1> QED BY <1>3, <1>7, <1>8 DEF CredentialsInv

LEMMA NotTakingKeepsLogin ==
  ASSUME CredentialsInv, NEW h \in Handlers, NoToken(h)
  PROVE  CredentialsInv' /\ (LoginHeld => LoginHeld')
<1>1. /\ UNCHANGED <<held, torn, holder, exchange, granted, valid, grants, expired>>
      /\ holder = Nobody /\ ~granted /\ exchange = Absent /\ Absent.refresh = 0
  BY DEF NoToken, places, endpoint, CredentialsInv, CredentialsTypeOK, Absent
<1>2. CASE UNCHANGED <<cached, origin>>
  BY <1>1, <1>2, CredentialsRest DEF credentials, places, resolver, endpoint
<1>3. CASE Resolves /\ cached' = Resolved /\ origin' = Source
  <2>1. /\ Source \in Places /\ Resolved \in Blocks
        /\ cached # Absent => Source = origin /\ Resolved = cached
        /\ cached = Absent => Resolved = held[Source]
    BY <1>3, ResolvedIsHeld DEF CredentialsInv
  <2>2. CredentialsTypeOK'
    BY <1>1, <1>3, <2>1, ThePlaces DEF CredentialsInv, CredentialsTypeOK
  <2>3. CachedAsHeld'
    BY <1>1, <1>3, <2>1 DEF CredentialsInv, LoginInv, CachedAsHeld, Expiring
  <2>4. FromGrants'
    BY <1>1, <1>3, <2>1 DEF CredentialsInv, CredentialsTypeOK, LoginInv, FromGrants
  <2>5. LoginInv'
    BY <1>1, <2>3, <2>4 DEF CredentialsInv, LoginInv, ExchangedAsHeld, GrantedIsValid
  <2>6. LoginHeld => LoginHeld'
    BY <1>1, <1>3, <2>1 DEF LoginHeld, Readable
  <2> QED BY <2>2, <2>5, <2>6 DEF CredentialsInv
<1> QED BY <1>2, <1>3 DEF NoToken

(* A grant: its number is new, and so is the refresh token that is taken. *)
LEMMA Granting ==
  ASSUME CredentialsInv, Grant
  PROVE  /\ grants \in Nat /\ grants' = grants + 1 /\ expired' = expired
         /\ valid' \in 1 .. grants' /\ (Rotates => valid' = grants')
         /\ (~Rotates => valid' = valid)
BY DEF CredentialsInv, CredentialsTypeOK, LoginInv, Grant

LEMMA PostingKeepsLogin ==
  ASSUME CredentialsInv, NEW h \in Handlers, Post(h)
  PROVE  CredentialsInv' /\ (LoginHeld => LoginHeld')
<1>1. /\ holder = h /\ ~granted /\ exchange.refresh = valid /\ Grant
      /\ exchange' = [access |-> grants', refresh |-> valid'] /\ granted' = TRUE
      /\ UNCHANGED <<held, torn, cached, origin, holder>>
  BY DEF Post, places
<1>2. /\ grants \in Nat /\ grants' = grants + 1 /\ expired' = expired
      /\ valid' \in 1 .. grants' /\ (Rotates => valid' = grants')
      /\ (~Rotates => valid' = valid)
  BY <1>1, Granting
<1>3. exchange' \in Blocks /\ exchange'.refresh = valid' /\ h # Nobody
  BY <1>1, <1>2, CredentialsAssumption DEF Blocks
<1>4. CredentialsTypeOK'
  <2>1. expired' \subseteq 1 .. grants'
    BY <1>2 DEF CredentialsInv, CredentialsTypeOK
  <2> QED BY <1>1, <1>2, <1>3, <2>1 DEF CredentialsInv, CredentialsTypeOK
<1>5. /\ held["file"] \in Blocks /\ held["file"].refresh \in Nat /\ cached.refresh \in Nat
      /\ valid \in Nat
  BY ThePlaces DEF CredentialsInv, CredentialsTypeOK, Places, Blocks
<1>6. \/ held[origin] = Absent \/ Expiring(held[origin])
      \/ origin = "file" /\ held["file"].refresh = valid /\ ~Rotates
  BY <1>1, <1>3, <1>5 DEF CredentialsInv, LoginInv, ExchangedAsHeld
<1>7. CachedAsHeld' /\ ExchangedAsHeld'
  BY <1>1, <1>2, <1>6 DEF CachedAsHeld, ExchangedAsHeld, Expiring
<1>8. GrantedIsValid'
  BY <1>1, <1>2, <1>3, <1>5 DEF CredentialsInv, LoginInv, FromGrants, GrantedIsValid
<1>9. FromGrants'
  <2>1. held["file"].refresh <= grants' /\ valid' <= grants'
    BY <1>2, <1>5 DEF CredentialsInv, LoginInv, FromGrants
  <2>2. origin = "file" => cached.refresh <= grants'
    BY <1>2, <1>5 DEF CredentialsInv, LoginInv, FromGrants
  <2> QED BY <1>1, <1>3, <2>1, <2>2 DEF FromGrants
<1>10. LoginInv'
  BY <1>1, <1>2, <1>7, <1>8, <1>9 DEF CredentialsInv, LoginInv
<1>11. LoginHeld'
  BY <1>1, <1>3 DEF LoginHeld
<1> QED BY <1>4, <1>10, <1>11 DEF CredentialsInv

(* What the endpoint has granted is cached, and written if it can be. *)
LEMMA PersistingKeepsLogin ==
  ASSUME CredentialsInv, NEW h \in Handlers, Persist(h) \/ PersistFails(h)
  PROVE  CredentialsInv' /\ (LoginHeld => LoginHeld')
<1>1. /\ holder = h /\ granted /\ cached' = exchange /\ holder' = Nobody
      /\ exchange' = Absent /\ granted' = FALSE
      /\ UNCHANGED <<origin, valid, grants, expired>>
  BY DEF Persist, PersistFails, Release, endpoint
<1>2. /\ torn' \in SUBSET torn
      /\ \/ held' = held /\ (torn' = torn \/ (origin = "env" /\ torn' = torn \ {origin}))
         \/ held' = [held EXCEPT ![origin] = exchange] /\ torn' = torn \ {origin}
  BY DEF Persist, PersistFails, places
<1>3. /\ held \in [Places -> Blocks] /\ torn \subseteq Places /\ origin \in Places
      /\ exchange \in Blocks /\ h # Nobody /\ Absent \in Blocks /\ Absent.refresh = 0
      /\ valid \in Nat /\ valid >= 1
  BY ThePlaces, CredentialsAssumption DEF CredentialsInv, CredentialsTypeOK, LoginInv, Absent, Blocks
<1>4. /\ held' \in [Places -> Blocks]
      /\ \A s \in Places : s # origin => held'[s] = held[s]
      /\ held'[origin] \in {held[origin], exchange}
  BY <1>2, <1>3
<1>5. exchange.refresh = valid /\ exchange # Absent
  BY <1>1, <1>3 DEF CredentialsInv, LoginInv, GrantedIsValid
<1>6. CredentialsTypeOK'
  BY <1>1, <1>2, <1>3, <1>4, ThePlaces DEF CredentialsInv, CredentialsTypeOK
<1>7. \A s \in torn' : held'[s] = Absent
  <2>1. \A s \in torn' : s \in torn /\ s \in Places /\ held[s] = Absent
    BY <1>2, <1>3 DEF CredentialsInv, LoginInv
  <2> QED BY <1>2, <1>3, <2>1
<1>8. CachedAsHeld'
  <2>1. CASE held'[origin] = exchange
    BY <1>1, <2>1 DEF CachedAsHeld
  <2>2. CASE held'[origin] = held[origin]
    <3>1. held["file"].refresh = valid /\ origin = "file" => held'["file"].refresh = valid
      BY <2>2
    <3> QED BY <1>1, <1>3, <2>2, <3>1
         DEF CredentialsInv, LoginInv, ExchangedAsHeld, CachedAsHeld, Expiring
  <2> QED BY <1>4, <2>1, <2>2
<1>9. FromGrants'
  <2>1. held'["file"] \in {held["file"], exchange} /\ (held'["file"] # held["file"] => origin = "file")
    BY <1>4 DEF Places
  <2>2. grants \in Nat
    BY DEF CredentialsInv, CredentialsTypeOK
  <2> QED BY <1>1, <1>3, <2>1, <2>2 DEF CredentialsInv, LoginInv, FromGrants
<1>10. LoginInv'
  BY <1>1, <1>7, <1>8, <1>9
     DEF CredentialsInv, LoginInv, ExchangedAsHeld, GrantedIsValid
<1>11. LoginHeld'
  BY <1>1, <1>5 DEF LoginHeld
<1> QED BY <1>6, <1>10, <1>11 DEF CredentialsInv

LEMMA ReleasingKeepsCredentials ==
  ASSUME CredentialsInv, NEW h \in Handlers, ExchangeFails(h) \/ AnswerLost(h)
  PROVE  CredentialsInv' /\ (ExchangeFails(h) /\ LoginHeld => LoginHeld')
<1>1. /\ holder' = Nobody /\ exchange' = Absent /\ granted' = FALSE
      /\ UNCHANGED <<held, torn, cached, origin, valid, grants, expired>>
      /\ (ExchangeFails(h) => ~granted)
  BY DEF ExchangeFails, AnswerLost, Release, places, endpoint
<1>2. Absent \in Blocks /\ Absent.refresh = 0 /\ grants \in Nat
  BY DEF Absent, Blocks, CredentialsInv, CredentialsTypeOK
<1>3. CredentialsTypeOK'
  BY <1>1, <1>2 DEF CredentialsInv, CredentialsTypeOK
<1>4. LoginInv'
  BY <1>1, <1>2 DEF CredentialsInv, LoginInv, CachedAsHeld, ExchangedAsHeld, GrantedIsValid,
                    FromGrants, Expiring
<1>5. ASSUME ~granted, LoginHeld PROVE LoginHeld'
  BY <1>1, <1>5 DEF LoginHeld, Readable
<1> QED BY <1>1, <1>3, <1>4, <1>5 DEF CredentialsInv

(* Claude Code exchanges the token of its own file. *)
LEMMA RefreshingKeepsLogin ==
  ASSUME CredentialsInv, LoginRefreshes
  PROVE  CredentialsInv' /\ LoginHeld'
<1> DEFINE block == [access |-> grants', refresh |-> valid']
<1>1. /\ held["file"].refresh = valid /\ "file" \notin torn /\ Grant
      /\ held' = [held EXCEPT !["file"] = block]
      /\ UNCHANGED <<torn, cached, origin, holder, exchange, granted>>
  BY DEF LoginRefreshes, resolver
<1>2. /\ grants \in Nat /\ grants' = grants + 1 /\ expired' = expired
      /\ valid' \in 1 .. grants' /\ (Rotates => valid' = grants')
      /\ (~Rotates => valid' = valid)
  BY <1>1, Granting
<1>3. block \in Blocks /\ block.refresh = valid' /\ block # Absent
  BY <1>2 DEF Blocks, Absent
<1> HIDE DEF block
<1>4. /\ held \in [Places -> Blocks] /\ torn \subseteq Places /\ cached \in Blocks
      /\ exchange \in Blocks /\ origin \in Places /\ valid \in Nat
  BY ThePlaces DEF CredentialsInv, CredentialsTypeOK, LoginInv
<1>5. /\ held' \in [Places -> Blocks] /\ held'["file"] = block
      /\ \A s \in Places : s # "file" => held'[s] = held[s]
  BY <1>1, <1>3, <1>4 DEF Places
<1>6. CredentialsTypeOK'
  <2>1. expired' \subseteq 1 .. grants'
    BY <1>2 DEF CredentialsInv, CredentialsTypeOK
  <2> QED BY <1>1, <1>2, <1>5, <2>1, ThePlaces DEF CredentialsInv, CredentialsTypeOK
<1>7. \A s \in torn' : held'[s] = Absent
  BY <1>1, <1>4, <1>5 DEF CredentialsInv, LoginInv
<1>8. CachedAsHeld'
  BY <1>1, <1>2, <1>3, <1>4, <1>5 DEF CredentialsInv, LoginInv, CachedAsHeld, Expiring
<1>9. Rotates => ~granted
  BY <1>1, <1>4 DEF CredentialsInv, LoginInv, GrantedIsValid
<1>10. exchange.refresh \in Nat /\ cached.refresh \in Nat
  BY <1>4 DEF Blocks
<1>11. ExchangedAsHeld'
  <2> SUFFICES ASSUME holder # Nobody
               PROVE  \/ held'[origin] = Absent \/ held'[origin].access \in expired
                      \/ /\ origin = "file" /\ held'["file"].refresh = valid'
                         /\ Rotates => ~granted /\ exchange.refresh < valid'
    BY <1>1, <1>2 DEF ExchangedAsHeld, Expiring
  <2>1. CASE origin = "file"
    <3>1. Rotates => exchange.refresh < valid'
      BY <1>2, <1>10, <2>1 DEF CredentialsInv, LoginInv, FromGrants
    <3> QED BY <1>3, <1>5, <1>9, <2>1, <3>1
  <2>2. CASE origin # "file"
    BY <1>4, <1>5, <2>2 DEF CredentialsInv, LoginInv, ExchangedAsHeld, Expiring
  <2> QED BY <2>1, <2>2
<1>12. GrantedIsValid'
  BY <1>1, <1>2, <1>9 DEF CredentialsInv, LoginInv, GrantedIsValid
<1>13. FromGrants'
  <2>1. valid' <= grants'
    BY <1>2
  <2>2. origin = "file" => cached.refresh <= grants' /\ exchange.refresh <= grants'
    BY <1>2, <1>10 DEF CredentialsInv, LoginInv, FromGrants
  <2> QED BY <1>1, <1>3, <1>5, <2>1, <2>2 DEF FromGrants
<1>14. LoginInv'
  BY <1>2, <1>7, <1>8, <1>11, <1>12, <1>13 DEF LoginInv
<1>15. LoginHeld'
  BY <1>1, <1>3, <1>5 DEF LoginHeld, Readable
<1> QED BY <1>6, <1>14, <1>15 DEF CredentialsInv

LEMMA ExpiringKeepsLogin ==
  ASSUME CredentialsInv, Expire
  PROVE  CredentialsInv' /\ (LoginHeld => LoginHeld')
<1>1. /\ expired' = 1 .. grants /\ expired \subseteq expired'
      /\ UNCHANGED <<held, torn, cached, origin, holder, exchange, granted, valid, grants>>
  BY DEF Expire, places, resolver, CredentialsInv, CredentialsTypeOK
<1>2. CredentialsTypeOK'
  BY <1>1 DEF CredentialsInv, CredentialsTypeOK
<1>3. CachedAsHeld' /\ ExchangedAsHeld'
  BY <1>1 DEF CredentialsInv, LoginInv, CachedAsHeld, ExchangedAsHeld, Expiring
<1>4. LoginInv'
  BY <1>1, <1>3 DEF CredentialsInv, LoginInv, GrantedIsValid, FromGrants
<1>5. LoginHeld => LoginHeld'
  BY <1>1 DEF LoginHeld, Readable
<1> QED BY <1>2, <1>4, <1>5 DEF CredentialsInv

(* The person's paste and clear: everything is resolved again. *)
LEMMA PeopleKeepCredentials ==
  ASSUME CredentialsInv, Store \/ Clear
  PROVE  CredentialsInv'
<1>1. /\ holder = Nobody
      /\ \E block \in Blocks : held' = [held EXCEPT !["store"] = block]
      /\ torn' = torn \ {"store"} /\ ResolveAgain(held', torn')
      /\ UNCHANGED <<holder, exchange, granted, valid, grants, expired>>
  <2>1. held["file"] \in Blocks /\ Absent \in Blocks
    BY ThePlaces DEF CredentialsInv, CredentialsTypeOK, Places, Absent, Blocks
  <2>2. \A form \in Forms : Parse([form |-> form, block |-> held["file"]]) \in Blocks
    BY <2>1 DEF Parse, Blocks, Absent
  <2>3. CASE Clear
    BY <2>1, <2>3 DEF Clear, endpoint
  <2>4. CASE Store
    <3>1. \E form \in Forms :
            held' = [held EXCEPT !["store"] = Parse([form |-> form, block |-> held["file"]])]
      BY <2>4 DEF Store, Forms
    <3> QED BY <2>2, <2>4, <3>1 DEF Store, endpoint
  <2> QED BY <2>3, <2>4
<1>2. /\ held \in [Places -> Blocks] /\ torn \subseteq Places /\ origin \in Places
      /\ Absent \in Blocks /\ Absent.refresh = 0 /\ grants \in Nat
      /\ ~granted /\ exchange = Absent
  BY <1>1, ThePlaces DEF CredentialsInv, CredentialsTypeOK, Absent, Blocks
<1>3. /\ held' \in [Places -> Blocks] /\ \A s \in Places : s # "store" => held'[s] = held[s]
      /\ torn' \in SUBSET Places
  BY <1>1, <1>2
<1>4. \/ cached' = Absent /\ origin' = origin
      \/ origin' \in Places /\ cached' = held'[origin']
  BY <1>1, <1>3, ResolvedAgain DEF CredentialsInv
<1>5. cached' \in Blocks /\ origin' \in Places
  BY <1>2, <1>3, <1>4
<1>6. CredentialsTypeOK'
  BY <1>1, <1>2, <1>3, <1>5, ThePlaces DEF CredentialsInv, CredentialsTypeOK
<1>7. \A s \in torn' : held'[s] = Absent
  BY <1>1, <1>2, <1>3 DEF CredentialsInv, LoginInv
<1>8. CachedAsHeld'
  BY <1>4 DEF CachedAsHeld
<1>9. FromGrants'
  <2>1. held'["file"].refresh <= grants
    BY <1>3 DEF CredentialsInv, LoginInv, FromGrants, Places
  <2> QED BY <1>1, <1>2, <1>4, <2>1 DEF FromGrants
<1>10. LoginInv'
  BY <1>1, <1>2, <1>7, <1>8, <1>9 DEF CredentialsInv, LoginInv, ExchangedAsHeld, GrantedIsValid
<1> QED BY <1>6, <1>10 DEF CredentialsInv

LEMMA CrashKeepsCredentials ==
  ASSUME CredentialsInv, CrashCredentials
  PROVE  CredentialsInv'
<1>1. /\ cached' = Absent /\ holder' = Nobody /\ exchange' = Absent /\ granted' = FALSE
      /\ UNCHANGED <<origin, valid, grants, expired>>
      /\ \/ UNCHANGED <<held, torn>>
         \/ torn' = torn \cup {origin} /\ held' = [held EXCEPT ![origin] = Absent]
  BY DEF CrashCredentials, Release, places, endpoint
<1>2. /\ held \in [Places -> Blocks] /\ torn \subseteq Places /\ origin \in Places
      /\ Absent \in Blocks /\ Absent.refresh = 0 /\ grants \in Nat
  BY ThePlaces DEF CredentialsInv, CredentialsTypeOK, Absent, Blocks
<1>3. /\ held' \in [Places -> Blocks] /\ torn' \subseteq Places
      /\ \A s \in Places : held'[s] \in {held[s], Absent}
  BY <1>1, <1>2
<1>4. \A s \in torn' : held'[s] = Absent
  BY <1>1, <1>2 DEF CredentialsInv, LoginInv
<1>5. CredentialsTypeOK'
  BY <1>1, <1>2, <1>3, ThePlaces DEF CredentialsInv, CredentialsTypeOK
<1>6. FromGrants'
  <2>1. held'["file"] \in {held["file"], Absent}
    BY <1>3 DEF Places
  <2> QED BY <1>1, <1>2, <2>1 DEF CredentialsInv, LoginInv, FromGrants
<1>7. LoginInv'
  BY <1>1, <1>4, <1>6
     DEF CredentialsInv, LoginInv, CachedAsHeld, ExchangedAsHeld, GrantedIsValid
<1> QED BY <1>5, <1>7 DEF CredentialsInv

(* Of all steps four may lose the login. *)
LEMMA StepsKeepCredentials ==
  ASSUME CredentialsInv, [Next]_vars
  PROVE  /\ CredentialsInv'
         /\ LoginHeld => \/ LoginHeld' \/ Restart \/ Store \/ Clear
                         \/ \E h \in Handlers : AnswerLost(h)
<1>1. CASE UNCHANGED credentials
  BY <1>1, CredentialsRest
<1>2. CASE Restart
  <2>1. CrashCredentials
    BY <1>2, Zenon DEF Restart
  <2> QED BY <1>2, <2>1, CrashKeepsCredentials
<1>3. CASE People
  BY <1>3, RefreshingKeepsLogin, ExpiringKeepsLogin, PeopleKeepCredentials DEF People
<1>4. ASSUME NEW h \in Handlers, GetToken(h) \/ Refresh(h), ~AnswerLost(h)
      PROVE  CredentialsInv' /\ (LoginHeld => LoginHeld')
  BY <1>4, TakingKeepsLogin, BeginningKeepsLogin, NotTakingKeepsLogin, PostingKeepsLogin,
     PersistingKeepsLogin, ReleasingKeepsCredentials DEF GetToken, Refresh
<1>5. ASSUME NEW h \in Handlers, AnswerLost(h) PROVE CredentialsInv'
  BY <1>5, ReleasingKeepsCredentials
<1>6. UNCHANGED credentials \/ Restart \/ People
      \/ \E h \in Handlers : GetToken(h) \/ Refresh(h)
  <2>1. ASSUME NEW h \in Handlers, Ask(h) \/ Push(h) \/ Step(h)
        PROVE  UNCHANGED credentials \/ GetToken(h) \/ Refresh(h)
    BY <2>1 DEF Ask, Push, Step, Begin, BeginFails, TellRunning, Respond, Wait, StreamEnds,
                CloseRow, CloseRowFails, TellEnded
  <2>2. ASSUME NEW i \in Ids, Flush(i) PROVE UNCHANGED credentials
    BY <2>2 DEF Flush
  <2> QED BY <2>1, <2>2 DEF Next, vars
<1> QED BY <1>1, <1>2, <1>3, <1>4, <1>5, <1>6

LEMMA CredentialsStayInOrder == Spec => []CredentialsInv
<1>1. CredentialsInv /\ [Next]_vars => CredentialsInv'
  BY StepsKeepCredentials
<1> QED BY <1>1, InitCredentials, PTL DEF Spec

(* Overlapping requests, Claude Code's own exchanges and failing writes    *)
(* never lose the login, whether the endpoint rotates or not and whatever  *)
(* the environment carries: an answer that is lost, a restart, or the      *)
(* person's paste or clear must come in (AccessToken, persistLocked).      *)
THEOREM TheLoginIsKept == Spec => KeepsTheLogin
<1>1. CredentialsInv /\ [Next]_vars =>
        [(LoginHeld /\ ~LoginHeld') =>
           (Restart \/ Store \/ Clear \/ \E h \in Handlers : AnswerLost(h))]_vars
  BY StepsKeepCredentials
<1> QED BY <1>1, CredentialsStayInOrder, PTL DEF Spec, KeepsTheLogin

(* The credentials, the calls, their traces and buffers keep their types,  *)
(* and a preview its bound, for any number of each (resolver, Begin,       *)
(* flushLocked).                                                           *)
THEOREM CallsTypeCorrect == Spec => []TypeOK
<1> DEFINE Counted == unclosed \subseteq Ids /\ crashes \in Nat
<1>1. Init => Counted
  BY DEF Init
<1>2. CallInv /\ Counted /\ [Next]_vars => Counted'
  <2> SUFFICES ASSUME CallInv, Counted, [Next]_vars PROVE Counted'
    OBVIOUS
  <2>1. CASE Restart
    <3>1. unclosed' = {} /\ crashes' = crashes + 1
      BY <2>1, Zenon DEF Restart
    <3> QED BY <3>1
  <2>2. ASSUME NEW h \in Handlers, CloseRowFails(h) PROVE Counted'
    <3>1. call[h].id \in Ids
      BY <2>2, ModelCallsAssumption
         DEF CloseRowFails, CallInv, CallsOK, OneOwner, Recorded, Ids
    <3> QED BY <2>2, <3>1 DEF CloseRowFails
  <2>3. ASSUME NEW h \in Handlers, Ask(h) \/ Push(h) \/ Step(h), ~CloseRowFails(h)
        PROVE  UNCHANGED <<unclosed, crashes>>
    BY <2>3 DEF Ask, Push, Step, GetToken, Refresh, Begin, BeginFails, TellRunning, Respond,
                Wait, StreamEnds, CloseRow, TellEnded, recorder
  <2>4. ASSUME NEW i \in Ids, Flush(i) PROVE UNCHANGED <<unclosed, crashes>>
    BY <2>4 DEF Flush
  <2> QED BY <2>1, <2>2, <2>3, <2>4 DEF Next, vars, recorder
<1>3. CredentialsInv /\ CallInv /\ Counted => TypeOK
  BY DEF CredentialsInv, CallInv, CallsOK, TypeOK
<1> QED BY <1>1, <1>2, <1>3, CredentialsStayInOrder, CallsStayInOrder, PTL DEF Spec

=============================================================================
