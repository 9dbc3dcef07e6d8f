-------------------------- MODULE EventStreamProofs --------------------------
(***************************************************************************)
(* Proofs about the event stream, for any pages, topics, capacities and    *)
(* bounds: the types with the two bounds on memory (ring and channel), and *)
(* that no subscriber is sent an event log with a gap in it.               *)
(*                                                                         *)
(* The two are one inductive invariant: a replay is a run of ids because   *)
(* the ring is one, and what a live subscriber has queued stays a run that *)
(* ends at the newest frame because a frame is either put on every channel *)
(* or ends the subscriber.  A channel that nobody reads any more may hold  *)
(* anything.                                                               *)
(***************************************************************************)
EXTENDS EventStream, SequenceTheorems, FiniteSetTheorems, TLAPS

-----------------------------------------------------------------------------
(* Runs of frames *)

(* A run goes on with the frame of the newest id. *)
LEMMA RunsAppend ==
  ASSUME NEW frames \in Seq(Frames), NEW newest \in Nat \ {0}, NEW topic \in Topics,
         Runs(frames, newest)
  PROVE  LET frame == [id |-> newest, topic |-> topic] IN
           /\ Append(frames, frame) \in Seq(Frames)
           /\ Len(Append(frames, frame)) = Len(frames) + 1
           /\ Runs(Append(frames, frame), newest + 1)
<1> DEFINE frame == [id |-> newest, topic |-> topic]
           longer == Append(frames, frame)
<1>1. frame \in Frames /\ frame.id = newest
  BY DEF Frames
<1>2. /\ longer \in Seq(Frames) /\ Len(longer) = Len(frames) + 1
      /\ \A i \in 1..Len(frames) : longer[i] = frames[i]
      /\ longer[Len(frames) + 1] = frame
  BY <1>1, AppendProperties
<1>3. Len(frames) \in Nat
  BY LenProperties
<1> HIDE DEF frame, longer
<1>4. Runs(longer, newest + 1)
  <2> SUFFICES ASSUME NEW i \in 1..Len(longer)
               PROVE  longer[i].id = (newest + 1) + i - 1 - Len(longer)
    BY DEF Runs
  <2>1. CASE i \in 1..Len(frames)
    BY <1>2, <1>3, <2>1 DEF Runs
  <2>2. CASE i = Len(frames) + 1
    BY <1>1, <1>2, <1>3, <2>2
  <2> QED BY <1>2, <1>3, <2>1, <2>2
<1> QED BY <1>2, <1>4 DEF frame, longer

(* A run that loses its oldest frame is a run. *)
LEMMA RunsTail ==
  ASSUME NEW frames \in Seq(Frames), frames # << >>
  PROVE  /\ Head(frames) \in Frames
         /\ Tail(frames) \in Seq(Frames) /\ Len(Tail(frames)) = Len(frames) - 1
         /\ \A newest \in Nat : Runs(frames, newest) => Runs(Tail(frames), newest)
<1>1. /\ Head(frames) \in Frames /\ Tail(frames) \in Seq(Frames)
      /\ Len(Tail(frames)) = Len(frames) - 1
      /\ \A i \in 1..Len(Tail(frames)) : Tail(frames)[i] = frames[i + 1]
  BY HeadTailProperties
<1>2. Len(frames) \in Nat /\ Len(Tail(frames)) \in Nat
  BY <1>1, LenProperties
<1>3. ASSUME NEW newest \in Nat, Runs(frames, newest)
      PROVE  Runs(Tail(frames), newest)
  <2> SUFFICES ASSUME NEW i \in 1..Len(Tail(frames))
               PROVE  Tail(frames)[i].id = newest + i - 1 - Len(Tail(frames))
    BY DEF Runs
  <2>1. i + 1 \in 1..Len(frames)
    BY <1>1, <1>2
  <2>2. frames[i + 1].id = newest + (i + 1) - 1 - Len(frames)
    BY <1>3, <2>1 DEF Runs
  <2> QED BY <1>1, <1>2, <2>2
<1> QED BY <1>1, <1>3

(* The end of a run is a run. *)
LEMMA RunsSuffix ==
  ASSUME NEW frames \in Seq(Frames), NEW n \in 0..Len(frames)
  PROVE  LET end == SubSeq(frames, Len(frames) - n + 1, Len(frames)) IN
           /\ end \in Seq(Frames) /\ Len(end) = n
           /\ \A newest \in Nat : Runs(frames, newest) => Runs(end, newest)
<1> DEFINE m == Len(frames) - n + 1
           end == SubSeq(frames, m, Len(frames))
<1>1. Len(frames) \in Nat /\ m \in Int /\ m >= 1 /\ n \in Nat
  BY LenProperties
<1>2. \A i \in m..Len(frames) : frames[i] \in Frames
  BY <1>1, ElementOfSeq
<1>3. /\ end \in Seq(Frames)
      /\ Len(end) = IF m <= Len(frames) THEN Len(frames) - m + 1 ELSE 0
      /\ \A i \in 1..Len(frames) - m + 1 : end[i] = frames[m + i - 1]
  <2> HIDE DEF m
  <2> QED BY <1>1, <1>2, SubSeqProperties
<1> HIDE DEF end
<1>4. Len(end) = n
  BY <1>1, <1>3
<1>5. ASSUME NEW newest \in Nat, Runs(frames, newest)
      PROVE  Runs(end, newest)
  <2> SUFFICES ASSUME NEW i \in 1..Len(end)
               PROVE  end[i].id = newest + i - 1 - Len(end)
    BY DEF Runs
  <2>1. end[i] = frames[m + i - 1] /\ m + i - 1 \in 1..Len(frames)
    BY <1>1, <1>3, <1>4
  <2>2. frames[m + i - 1].id = newest + (m + i - 1) - 1 - Len(frames)
    BY <1>5, <2>1 DEF Runs
  <2> QED BY <1>1, <1>4, <2>1, <2>2
<1> QED BY <1>3, <1>4, <1>5 DEF end

-----------------------------------------------------------------------------
(* The stream of one page *)

(* A status keeps the connection, the rest of a stream its type. *)
LEMMA StatusKeeps ==
  ASSUME NEW s \in Streams, NEW next \in {"connecting", "live", "down"}
  PROVE  AfterStatus(s, next) \in Streams /\ AfterStatus(s, next).conn = s.conn
<1>1. (IF next = "live" THEN FALSE ELSE s.missed \/ s.status = "live") \in BOOLEAN
  BY DEF Streams
<1> QED BY <1>1 DEF AfterStatus, Streams

LEMMA FieldsKeep ==
  ASSUME NEW s \in Streams
  PROVE  /\ \A conn \in Conns : /\ [s EXCEPT !.conn = conn] \in Streams
                                /\ [s EXCEPT !.conn = conn].conn = conn
         /\ \A cursor \in Nat : /\ [s EXCEPT !.cursor = cursor] \in Streams
                                /\ [s EXCEPT !.cursor = cursor].conn = s.conn
         /\ \A conn \in Conns, timer \in BOOLEAN :
              /\ [s EXCEPT !.conn = conn, !.timer = timer] \in Streams
              /\ [s EXCEPT !.conn = conn, !.timer = timer].conn = conn
         /\ [s EXCEPT !.shown = TRUE] \in Streams
         /\ [s EXCEPT !.shown = TRUE].conn = s.conn
BY DEF Streams

LEMMA ConnKeeps ==
  ASSUME NEW s \in Streams, NEW conn \in Conns
  PROVE  [s EXCEPT !.conn = conn] \in Streams /\ [s EXCEPT !.conn = conn].conn = conn
BY DEF Streams

(* Letting go and trying again leave a stream nobody is subscribed by. *)
LEMMA StreamMoves ==
  ASSUME NEW s \in Streams
  PROVE  /\ LetGo(s) \in Streams /\ LetGo(s).conn = "none"
         /\ Connecting(s) \in Streams /\ Connecting(s).conn = "opening"
         /\ [AfterStatus(s, "live") EXCEPT !.conn = "open"] \in Streams
<1>1. /\ AfterStatus(s, "live") \in Streams /\ AfterStatus(s, "down") \in Streams
      /\ AfterStatus(s, "connecting") \in Streams
  BY StatusKeeps
<1>2. \A d \in Streams, conn \in Conns, timer \in BOOLEAN :
        /\ [d EXCEPT !.conn = conn, !.timer = timer] \in Streams
        /\ [d EXCEPT !.conn = conn, !.timer = timer].conn = conn
  BY FieldsKeep
<1>3. /\ LetGo(s) \in Streams /\ LetGo(s).conn = "none"
      /\ Connecting(s) \in Streams /\ Connecting(s).conn = "opening"
  BY <1>1, <1>2, Zenon DEF LetGo, Connecting, Conns
<1>4. [AfterStatus(s, "live") EXCEPT !.conn = "open"] \in Streams
  BY <1>1, FieldsKeep DEF Conns
<1> QED BY <1>2, <1>3, <1>4

LEMMA NoStreamTyped == NoStream \in Streams /\ NoStream.conn = "none"
BY DEF NoStream, Streams, Conns

-----------------------------------------------------------------------------
(* The invariant in parts *)

StoreInv ==
  /\ stored \in [Topics -> Nat] /\ unsaid \in [Topics -> Nat]
  /\ connected \in BOOLEAN /\ armed \in BOOLEAN /\ up \in BOOLEAN

HubInv ==
  /\ ring \in Seq(Frames) /\ Len(ring) <= RingCapacity /\ Runs(ring, nextID)
  /\ nextID \in Nat \ {0} /\ ghosts \in Nat

Sendable(frames, newest, conn) ==
  /\ frames \in Seq(Frames) /\ Len(frames) <= QueueCapacity
  /\ conn \in {"admitted", "open"} => Runs(frames, newest)

SocketInv ==
  /\ queue = [c \in Clients |-> queue[c]]
  /\ stream \in [Clients -> Streams]
  /\ \A c \in Clients : Sendable(queue[c], nextID, stream[c].conn)

PageInv ==
  /\ due \in [Clients -> SUBSET Topics]
  /\ answers \in [Clients -> SUBSET Answers]
  /\ view \in [Clients -> [Topics -> Views]]
  /\ restarts \in Nat /\ losses \in Nat

StreamInv == StoreInv /\ HubInv /\ SocketInv /\ PageInv

(* The parts together are the two invariants of the model. *)
LEMMA PartsAreInvariants == StreamInv <=> TypeOK /\ NoGap
<1>1. ASSUME StreamInv PROVE TypeOK /\ NoGap
  <2>1. queue \in [Clients -> Seq(Frames)]
    BY <1>1 DEF StreamInv, SocketInv, Sendable
  <2> QED
    BY <1>1, <2>1 DEF StreamInv, StoreInv, HubInv, SocketInv, PageInv, Sendable, TypeOK,
                      NoGap, Subscribed
<1>2. ASSUME TypeOK, NoGap PROVE StreamInv
  BY <1>2 DEF StreamInv, StoreInv, HubInv, SocketInv, PageInv, Sendable, TypeOK, NoGap,
              Subscribed
<1> QED BY <1>1, <1>2

(* One page's channel and stream change, and the others keep theirs. *)
LEMMA OneSocket ==
  ASSUME SocketInv, NEW c \in Clients, NEW frames, NEW s \in Streams,
         Sendable(frames, nextID, s.conn),
         queue' = [queue EXCEPT ![c] = frames] \/ (queue' = queue /\ frames = queue[c]),
         stream' = [stream EXCEPT ![c] = s] \/ (stream' = stream /\ s = stream[c]),
         nextID' = nextID
  PROVE  SocketInv'
<1>1. queue' = [d \in Clients |-> IF d = c THEN frames ELSE queue[d]]
  BY DEF SocketInv
<1>2. stream' = [d \in Clients |-> IF d = c THEN s ELSE stream[d]]
  BY DEF SocketInv
<1>3. stream' \in [Clients -> Streams]
  BY <1>2 DEF SocketInv
<1>4. ASSUME NEW d \in Clients PROVE Sendable(queue'[d], nextID, stream'[d].conn)
  BY <1>1, <1>2 DEF SocketInv
<1> QED BY <1>1, <1>3, <1>4 DEF SocketInv

(* A channel that has been emptied has nothing to be wrong about once its  *)
(* subscriber has gone.                                                    *)
LEMMA EmptyIsSendable ==
  ASSUME NEW newest, NEW conn, conn \notin {"admitted", "open"}
  PROVE  Sendable(<< >>, newest, conn)
BY EventStreamAssumption, EmptySeq DEF Sendable

(* So has one that is left as it was. *)
LEMMA LeftIsSendable ==
  ASSUME NEW frames, NEW newest, NEW before, NEW conn, Sendable(frames, newest, before),
         conn \notin {"admitted", "open"} \/ before \in {"admitted", "open"}
  PROVE  Sendable(frames, newest, conn)
BY DEF Sendable

-----------------------------------------------------------------------------
(* Steps of the hub *)

(* A frame joins the ring and every channel that has room, and ends the    *)
(* subscribers that have none.                                             *)
LEMMA EmitKeeps ==
  ASSUME StreamInv, NEW t \in Topics, Emit(t)
  PROVE  StreamInv'
<1> DEFINE frame == [id |-> nextID, topic |-> t]
           longer == Append(ring, frame)
<1>1. nextID \in Nat \ {0} /\ nextID' = nextID + 1
  BY DEF StreamInv, HubInv, Emit
<1>2. /\ ring' = Trimmed(longer)
      /\ queue' = [c \in Clients |-> IF Subscribed(c) /\ ~Full(c)
                                     THEN Append(queue[c], frame) ELSE queue[c]]
      /\ stream' = [c \in Clients |-> IF Subscribed(c) /\ Full(c)
                                      THEN Cut(c) ELSE stream[c]]
  BY DEF Emit
<1>3. HubInv'
  <2>1. longer \in Seq(Frames) /\ Len(longer) = Len(ring) + 1 /\ Runs(longer, nextID')
    BY <1>1, RunsAppend DEF StreamInv, HubInv
  <2> HIDE DEF longer
  <2>2. Len(ring) \in Nat /\ Len(ring) <= RingCapacity
    BY LenProperties DEF StreamInv, HubInv
  <2>3. longer # << >>
    BY <2>1, <2>2, EmptySeq
  <2>4. /\ Tail(longer) \in Seq(Frames) /\ Len(Tail(longer)) = Len(longer) - 1
        /\ Runs(Tail(longer), nextID')
    BY <1>1, <2>1, <2>3, RunsTail
  <2>5. ring' \in Seq(Frames) /\ Len(ring') <= RingCapacity /\ Runs(ring', nextID')
    BY <1>2, <2>1, <2>2, <2>4, EventStreamAssumption DEF Trimmed
  <2>6. nextID' \in Nat \ {0} /\ ghosts' \in Nat
    BY <1>1 DEF StreamInv, HubInv, Emit
  <2> QED BY <2>5, <2>6 DEF HubInv
<1>4. ASSUME NEW c \in Clients
      PROVE  /\ stream'[c] \in Streams
             /\ Sendable(queue'[c], nextID', stream'[c].conn)
  <2>1. stream[c] \in Streams /\ Sendable(queue[c], nextID, stream[c].conn)
    BY DEF StreamInv, SocketInv
  <2>2. CASE Subscribed(c) /\ Full(c)
    <3>1. stream'[c] = Cut(c) /\ queue'[c] = queue[c]
      BY <1>2, <2>2
    <3>2. Cut(c) \in Streams /\ Cut(c).conn = "cut"
      <4>1. "cut" \in Conns
        BY DEF Conns
      <4> QED BY <2>1, <4>1, ConnKeeps DEF Cut
    <3> QED BY <2>1, <3>1, <3>2 DEF Sendable
  <2>3. CASE Subscribed(c) /\ ~Full(c)
    <3>1. stream'[c] = stream[c] /\ queue'[c] = Append(queue[c], frame)
      BY <1>2, <2>3
    <3>2. queue[c] \in Seq(Frames) /\ Runs(queue[c], nextID)
      BY <2>1, <2>3 DEF Sendable, Subscribed
    <3>3. /\ Append(queue[c], frame) \in Seq(Frames)
          /\ Len(Append(queue[c], frame)) = Len(queue[c]) + 1
          /\ Runs(Append(queue[c], frame), nextID')
      BY <1>1, <3>2, RunsAppend
    <3>4. Len(queue[c]) \in Nat /\ Len(queue[c]) + 1 <= QueueCapacity
      BY <2>3, <3>2, LenProperties, EventStreamAssumption DEF Full
    <3> QED BY <2>1, <3>1, <3>3, <3>4 DEF Sendable
  <2>4. CASE ~Subscribed(c)
    <3>1. stream'[c] = stream[c] /\ queue'[c] = queue[c]
      BY <1>2, <2>4
    <3> QED BY <2>1, <2>4, <3>1 DEF Sendable, Subscribed
  <2> QED BY <2>2, <2>3, <2>4
<1>5. SocketInv'
  BY <1>2, <1>4 DEF SocketInv
<1>6. StoreInv'
  <2>1. unsaid[t] - 1 \in Nat
    BY DEF StreamInv, StoreInv, Emit
  <2> QED BY <2>1 DEF StreamInv, StoreInv, Emit
<1>7. PageInv'
  BY DEF StreamInv, PageInv, page, Emit
<1> QED BY <1>3, <1>5, <1>6, <1>7 DEF StreamInv

(* The process ends with every request and every subscriber. *)
LEMMA StopKeeps ==
  ASSUME StreamInv, Stop
  PROVE  StreamInv'
<1>1. HubInv'
  <2>1. ring' = << >> /\ nextID' = 1 /\ ghosts' = 0
    BY DEF Stop
  <2> QED BY <2>1, EmptySeq, EventStreamAssumption DEF HubInv, Runs
<1>2. ASSUME NEW c \in Clients
      PROVE  /\ stream'[c] \in Streams /\ queue'[c] = << >>
             /\ stream'[c].conn \notin {"admitted", "open"}
  <2>1. /\ stream'[c] = IF stream[c].conn \in {"admitted", "open", "cut"}
                        THEN [stream[c] EXCEPT !.conn = "broken"] ELSE stream[c]
        /\ queue'[c] = << >> /\ stream[c] \in Streams
    BY DEF Stop, StreamInv, SocketInv
  <2>2. /\ [stream[c] EXCEPT !.conn = "broken"] \in Streams
        /\ [stream[c] EXCEPT !.conn = "broken"].conn = "broken"
    <3>1. "broken" \in Conns /\ stream[c] \in Streams
      BY <2>1 DEF Conns
    <3> QED BY <3>1, ConnKeeps
  <2> QED BY <2>1, <2>2
<1>3. SocketInv'
  <2>1. /\ stream' = [c \in Clients |-> stream'[c]]
        /\ queue' = [c \in Clients |-> queue'[c]]
    BY DEF Stop
  <2>2. stream' \in [Clients -> Streams]
    BY <1>2, <2>1
  <2>3. \A c \in Clients : Sendable(queue'[c], nextID', stream'[c].conn)
    BY <1>2, EmptyIsSendable
  <2> QED BY <2>1, <2>2, <2>3 DEF SocketInv
<1>4. StoreInv'
  BY DEF StreamInv, StoreInv, Stop
<1>5. PageInv'
  BY DEF StreamInv, PageInv, Stop
<1> QED BY <1>1, <1>3, <1>4, <1>5 DEF StreamInv

(* The replay is the end of the ring, and fits the channel. *)
LEMMA ReplayIsSendable ==
  ASSUME HubInv, NEW c \in Clients, NEW conn
  PROVE  Sendable(Replay(c), nextID, conn)
<1> DEFINE later == {i \in 1..Len(ring) : ring[i].id > stream[c].cursor}
           n == Cardinality(later)
<1>1. Len(ring) \in Nat
  BY LenProperties DEF HubInv
<1>2. IsFiniteSet(1..Len(ring)) /\ Cardinality(1..Len(ring)) = Len(ring)
  <2>1. ASSUME NEW m \in Nat PROVE IsFiniteSet(1..m) /\ Cardinality(1..m) = m
    <3>1. IsFiniteSet(1..m) /\ Cardinality(1..m) = IF 1 > m THEN 0 ELSE m - 1 + 1
      BY FS_Interval
    <3> QED BY <3>1
  <2> QED BY <1>1, <2>1
<1>3. n \in 0..Len(ring)
  <2>1. IsFiniteSet(later) /\ n <= Len(ring)
    BY <1>2, FS_Subset
  <2>2. n \in Nat
    BY <2>1, FS_CardinalityType
  <2> QED BY <1>1, <2>1, <2>2
<1>4. Replay(c) = SubSeq(ring, Len(ring) - n + 1, Len(ring))
  BY DEF Replay
<1> HIDE DEF n
<1>5. /\ ring \in Seq(Frames) /\ Len(ring) <= RingCapacity
      /\ nextID \in Nat /\ Runs(ring, nextID)
  BY DEF HubInv
<1>6. Replay(c) \in Seq(Frames) /\ Len(Replay(c)) = n /\ Runs(Replay(c), nextID)
  BY <1>3, <1>4, <1>5, RunsSuffix
<1>7. n <= QueueCapacity
  BY <1>1, <1>3, <1>5, EventStreamAssumption
<1> QED BY <1>6, <1>7 DEF Sendable

-----------------------------------------------------------------------------
(* Steps of one page's stream *)

(* What a step of one page's stream owes: a new stream and channel for it, *)
(* and nothing else of the hub and the store touched but the places.       *)
Moved(c, s, frames) ==
  /\ s \in Streams /\ Sendable(frames, nextID, s.conn)
  /\ queue' = [queue EXCEPT ![c] = frames] \/ (queue' = queue /\ frames = queue[c])
  /\ stream' = [stream EXCEPT ![c] = s] \/ (stream' = stream /\ s = stream[c])
  /\ UNCHANGED <<store, up, ring, nextID>> /\ ghosts' \in Nat

LEMMA MovedKeeps ==
  ASSUME StreamInv, NEW c \in Clients, NEW s, NEW frames, Moved(c, s, frames), PageInv'
  PROVE  StreamInv'
<1>1. SocketInv'
  <2>1. /\ s \in Streams /\ Sendable(frames, nextID, s.conn) /\ nextID' = nextID
        /\ queue' = [queue EXCEPT ![c] = frames] \/ (queue' = queue /\ frames = queue[c])
        /\ stream' = [stream EXCEPT ![c] = s] \/ (stream' = stream /\ s = stream[c])
    BY DEF Moved
  <2>2. SocketInv
    BY DEF StreamInv
  <2> QED BY <2>1, <2>2, OneSocket
<1>2. StoreInv'
  BY DEF StreamInv, StoreInv, Moved, store
<1>3. HubInv'
  BY DEF StreamInv, HubInv, Moved
<1> QED BY <1>1, <1>2, <1>3 DEF StreamInv

LEMMA LeftTyped ==
  ASSUME HubInv, NEW c \in Clients
  PROVE  Left(c) \in Nat
BY DEF HubInv, Left

LEMMA PageUntouched ==
  ASSUME PageInv, UNCHANGED page, UNCHANGED restarts, losses' = losses \/ losses' = losses + 1
  PROVE  PageInv'
BY DEF PageInv, page

(* The steps that replace the stream of a page by a function of it. *)
LEMMA StreamStepKeeps ==
  ASSUME StreamInv, NEW c \in Clients,
         Serve(c) \/ Opened(c) \/ PumpEnds(c) \/ Break(c) \/ Notice(c) \/ Reconnect(c)
  PROVE  StreamInv'
<1>0. /\ HubInv /\ PageInv /\ ghosts \in Nat
      /\ stream[c] \in Streams /\ Sendable(queue[c], nextID, stream[c].conn)
  BY DEF StreamInv, SocketInv, HubInv
<1>f. \A conn \in Conns : /\ [stream[c] EXCEPT !.conn = conn] \in Streams
                          /\ [stream[c] EXCEPT !.conn = conn].conn = conn
  BY <1>0, FieldsKeep
<1>m. /\ LetGo(stream[c]) \in Streams /\ LetGo(stream[c]).conn = "none"
      /\ Connecting(stream[c]) \in Streams /\ Connecting(stream[c]).conn = "opening"
      /\ [AfterStatus(stream[c], "live") EXCEPT !.conn = "open"] \in Streams
  BY <1>0, StreamMoves
<1>1. CASE Admit(c)
  <2> DEFINE s == [stream[c] EXCEPT !.conn = "admitted"]
  <2>1. stream' = [stream EXCEPT ![c] = s] /\ queue' = [queue EXCEPT ![c] = Replay(c)]
    BY <1>1 DEF Admit
  <2>2. s \in Streams /\ Sendable(Replay(c), nextID, s.conn)
    BY <1>0, <1>f, ReplayIsSendable DEF Conns
  <2>3. UNCHANGED <<store, up, ring, nextID>> /\ ghosts' \in Nat /\ PageInv'
    BY <1>0, <1>1, PageUntouched DEF Admit
  <2> HIDE DEF s
  <2>4. Moved(c, s, Replay(c))
    BY <2>1, <2>2, <2>3 DEF Moved
  <2> QED BY <2>3, <2>4, MovedKeeps
<1>2. CASE Refuse(c) \/ Notice(c)
  <2> DEFINE s == LetGo(stream[c])
  <2>1. stream' = [stream EXCEPT ![c] = s] /\ queue' = queue
    BY <1>2 DEF Refuse, Notice, hub
  <2>2. s \in Streams /\ Sendable(queue[c], nextID, s.conn)
    BY <1>0, <1>m, LeftIsSendable
  <2>3. UNCHANGED <<store, up, ring, nextID>> /\ ghosts' \in Nat /\ PageInv'
    BY <1>0, <1>2, PageUntouched DEF Refuse, Notice, hub
  <2> HIDE DEF s
  <2>4. Moved(c, s, queue[c])
    BY <2>1, <2>2, <2>3 DEF Moved
  <2> QED BY <2>3, <2>4, MovedKeeps
<1>3. CASE Opened(c)
  <2> DEFINE s == [AfterStatus(stream[c], "live") EXCEPT !.conn = "open"]
  <2>1. stream' = [stream EXCEPT ![c] = s] /\ queue' = queue
    BY <1>3 DEF Opened, hub
  <2>2. s \in Streams /\ Sendable(queue[c], nextID, s.conn)
    <3>1. stream[c].conn \in {"admitted", "open"}
      BY <1>3 DEF Opened
    <3> QED BY <1>0, <1>m, <3>1, LeftIsSendable
  <2>3. UNCHANGED <<store, up, ring, nextID>> /\ ghosts' \in Nat /\ PageInv'
    BY <1>0, <1>3 DEF Opened, hub, PageInv
  <2> HIDE DEF s
  <2>4. Moved(c, s, queue[c])
    BY <2>1, <2>2, <2>3 DEF Moved
  <2> QED BY <2>3, <2>4, MovedKeeps
<1>4. CASE PumpEnds(c) \/ Break(c)
  <2> DEFINE s == [stream[c] EXCEPT !.conn = "broken"]
  <2>1. stream' = [stream EXCEPT ![c] = s] /\ queue' = [queue EXCEPT ![c] = << >>]
    BY <1>4 DEF PumpEnds, Break
  <2>2. s \in Streams /\ Sendable(<< >>, nextID, s.conn)
    BY <1>f, EmptyIsSendable DEF Conns
  <2>3. UNCHANGED <<store, up, ring, nextID>> /\ ghosts' \in Nat /\ PageInv'
    BY <1>0, <1>4, LeftTyped, PageUntouched DEF PumpEnds, Break
  <2> HIDE DEF s
  <2>4. Moved(c, s, << >>)
    BY <2>1, <2>2, <2>3 DEF Moved
  <2> QED BY <2>3, <2>4, MovedKeeps
<1>5. CASE Reconnect(c)
  <2> DEFINE s == Connecting(stream[c])
  <2>1. stream' = [stream EXCEPT ![c] = s] /\ queue' = queue
    BY <1>5 DEF Reconnect, hub
  <2>2. s \in Streams /\ Sendable(queue[c], nextID, s.conn)
    BY <1>0, <1>m, LeftIsSendable
  <2>3. UNCHANGED <<store, up, ring, nextID>> /\ ghosts' \in Nat /\ PageInv'
    BY <1>0, <1>5, PageUntouched DEF Reconnect, hub
  <2> HIDE DEF s
  <2>4. Moved(c, s, queue[c])
    BY <2>1, <2>2, <2>3 DEF Moved
  <2> QED BY <2>3, <2>4, MovedKeeps
<1> QED BY <1>1, <1>2, <1>3, <1>4, <1>5 DEF Serve

(* A frame leaves the channel for the page, which was live for it. *)
LEMMA DeliverKeeps ==
  ASSUME StreamInv, NEW c \in Clients, Deliver(c)
  PROVE  StreamInv'
<1> DEFINE s == [stream[c] EXCEPT !.cursor = Head(queue[c]).id]
<1>1. /\ stream[c] \in Streams /\ queue[c] \in Seq(Frames) /\ queue[c] # << >>
      /\ Sendable(queue[c], nextID, stream[c].conn) /\ nextID \in Nat
  BY DEF StreamInv, SocketInv, HubInv, Sendable, Deliver
<1>2. Head(queue[c]).id \in Nat /\ Head(queue[c]).topic \in Topics
  BY <1>1, RunsTail DEF Frames
<1>3. /\ stream' = [stream EXCEPT ![c] = s]
      /\ queue' = [queue EXCEPT ![c] = Tail(queue[c])]
  BY DEF Deliver
<1>4. s \in Streams /\ s.conn = stream[c].conn
  BY <1>1, <1>2, FieldsKeep
<1> HIDE DEF s
<1>5. Sendable(Tail(queue[c]), nextID, s.conn)
  <2>1. Len(queue[c]) \in Nat /\ QueueCapacity \in Nat
    BY <1>1, LenProperties, EventStreamAssumption
  <2> QED BY <1>1, <1>4, <2>1, RunsTail DEF Sendable
<1>6. PageInv'
  BY <1>2 DEF StreamInv, PageInv, Deliver
<1>7. UNCHANGED <<store, up, ring, nextID>> /\ ghosts' \in Nat
  BY DEF StreamInv, HubInv, Deliver
<1>8. Moved(c, s, Tail(queue[c]))
  BY <1>3, <1>4, <1>5, <1>7 DEF Moved
<1> QED BY <1>6, <1>8, MovedKeeps

(* The person opens a page, presses its button or closes it. *)
LEMMA PageStepKeeps ==
  ASSUME StreamInv, NEW c \in Clients, Open(c) \/ Retry(c) \/ Close(c)
  PROVE  StreamInv'
<1>0. /\ HubInv /\ PageInv /\ ghosts \in Nat
      /\ stream[c] \in Streams /\ Sendable(queue[c], nextID, stream[c].conn)
  BY DEF StreamInv, SocketInv, HubInv
<1>1. CASE Open(c)
  <2> DEFINE s == [Connecting(NoStream) EXCEPT !.shown = TRUE]
  <2>1. stream' = [stream EXCEPT ![c] = s] /\ queue' = queue
    BY <1>1 DEF Open, hub
  <2>2. s \in Streams /\ s.conn = "opening"
    BY NoStreamTyped, StreamMoves, FieldsKeep
  <2>3. Sendable(queue[c], nextID, s.conn)
    BY <1>0, <2>2, LeftIsSendable
  <2>4. UNCHANGED <<store, up, ring, nextID>> /\ ghosts' \in Nat /\ PageInv'
    BY <1>0, <1>1 DEF Open, hub, PageInv
  <2> HIDE DEF s
  <2>5. Moved(c, s, queue[c])
    BY <2>1, <2>2, <2>3, <2>4 DEF Moved
  <2> QED BY <2>4, <2>5, MovedKeeps
<1>2. CASE Retry(c)
  <2> DEFINE s == Connecting(stream[c])
  <2>1. stream' = [stream EXCEPT ![c] = s] /\ queue' = [queue EXCEPT ![c] = << >>]
    BY <1>2 DEF Retry
  <2>2. s \in Streams /\ Sendable(<< >>, nextID, s.conn)
    BY <1>0, StreamMoves, EmptyIsSendable
  <2>3. UNCHANGED <<store, up, ring, nextID>> /\ ghosts' \in Nat /\ PageInv'
    BY <1>0, <1>2, LeftTyped DEF Retry, PageInv
  <2> HIDE DEF s
  <2>4. Moved(c, s, << >>)
    BY <2>1, <2>2, <2>3 DEF Moved
  <2> QED BY <2>3, <2>4, MovedKeeps
<1>3. CASE Close(c)
  <2>1. stream' = [stream EXCEPT ![c] = NoStream] /\ queue' = [queue EXCEPT ![c] = << >>]
    BY <1>3 DEF Close
  <2>2. NoStream \in Streams /\ Sendable(<< >>, nextID, NoStream.conn)
    BY NoStreamTyped, EmptyIsSendable
  <2>3. PageInv'
    <3>1. [t \in Topics |-> Unread] \in [Topics -> Views]
      BY DEF Unread, Views
    <3> QED BY <1>0, <1>3, <3>1 DEF Close, PageInv
  <2>4. UNCHANGED <<store, up, ring, nextID>> /\ ghosts' \in Nat
    BY <1>0, <1>3, LeftTyped DEF Close
  <2>5. Moved(c, NoStream, << >>)
    BY <2>1, <2>2, <2>4 DEF Moved
  <2> QED BY <2>3, <2>5, MovedKeeps
<1> QED BY <1>1, <1>2, <1>3

-----------------------------------------------------------------------------
(* Steps that leave the streams alone *)

LEMMA HubUntouched ==
  ASSUME StreamInv, UNCHANGED <<ring, nextID, queue, stream>>, ghosts' \in Nat
  PROVE  HubInv' /\ SocketInv'
BY DEF StreamInv, HubInv, SocketInv

(* A read leaves the page and its answer comes back. *)
LEMMA ReadKeeps ==
  ASSUME StreamInv, NEW c \in Clients,
         (\E t \in Topics : Load(c, t)) \/ (\E a \in answers[c] : Answer(c, a))
  PROVE  StreamInv'
<1>1. UNCHANGED <<store, up, hub, stream>>
  BY DEF Load, Answer
<1>2. HubInv' /\ SocketInv' /\ StoreInv'
  <2>1. ghosts \in Nat
    BY DEF StreamInv, HubInv
  <2> QED BY <1>1, <2>1, HubUntouched DEF StreamInv, StoreInv, store, hub
<1>3. ASSUME NEW t \in Topics, Load(c, t)
      PROVE  PageInv'
  <2>1. [topic |-> t, version |-> stored[t]] \in Answers
    BY DEF StreamInv, StoreInv, Answers
  <2> QED BY <1>3, <2>1 DEF StreamInv, PageInv, Load
<1>4. ASSUME NEW a \in answers[c], Answer(c, a)
      PROVE  PageInv'
  <2> DEFINE seen == [version |-> a.version,
                      newest |-> IF a.version > view[c][a.topic].newest
                                 THEN a.version ELSE view[c][a.topic].newest]
  <2>1. a.topic \in Topics /\ a.version \in Nat /\ view[c][a.topic].newest \in Nat
    BY DEF StreamInv, PageInv, Answers, Views
  <2>2. seen \in Views
    BY <2>1 DEF Views
  <2>3. view' = [view EXCEPT ![c] = [view[c] EXCEPT ![a.topic] = seen]]
    BY <1>4 DEF Answer
  <2> HIDE DEF seen
  <2>4. view' \in [Clients -> [Topics -> Views]]
    BY <2>1, <2>2, <2>3 DEF StreamInv, PageInv
  <2> QED BY <1>4, <2>4 DEF StreamInv, PageInv, Answer
<1> QED BY <1>2, <1>3, <1>4 DEF StreamInv

(* A topic changes, and somebody may have to be told. *)
LEMMA StoreKeeps ==
  ASSUME StreamInv, (\E t \in Topics : Write(t)) \/ Hello \/ Silence \/ StartAPI
  PROVE  StreamInv'
<1>1. UNCHANGED <<hub, stream, page, restarts, losses>>
  BY DEF Write, Hello, Silence, StartAPI
<1>2. HubInv' /\ SocketInv' /\ PageInv'
  <2>1. ghosts \in Nat
    BY DEF StreamInv, HubInv
  <2> QED BY <1>1, <2>1, HubUntouched, PageUntouched DEF StreamInv, hub
<1>3. ASSUME NEW t \in Topics
      PROVE  /\ [stored EXCEPT ![t] = @ + 1] \in [Topics -> Nat]
             /\ [unsaid EXCEPT ![t] = @ + 1] \in [Topics -> Nat]
  BY DEF StreamInv, StoreInv
<1>4. Plugin \in Topics
  BY EventStreamAssumption
<1>5. stored' \in [Topics -> Nat] /\ unsaid' \in [Topics -> Nat]
  BY <1>3, <1>4
     DEF StreamInv, StoreInv, Write, Hello, Silence, StartAPI, Changed, ToSay, store
<1>6. connected' \in BOOLEAN /\ armed' \in BOOLEAN /\ up' \in BOOLEAN
  BY DEF StreamInv, StoreInv, Write, Hello, Silence, StartAPI, store
<1> QED BY <1>2, <1>5, <1>6 DEF StreamInv, StoreInv

LEMMA HeartbeatKeeps ==
  ASSUME StreamInv, Heartbeat
  PROVE  StreamInv'
<1>1. ghosts' \in Nat
  BY DEF StreamInv, HubInv, Heartbeat
<1>2. HubInv' /\ SocketInv'
  BY <1>1, HubUntouched DEF Heartbeat
<1> QED BY <1>2, PageUntouched DEF StreamInv, StoreInv, Heartbeat, store

-----------------------------------------------------------------------------

LEMMA InitKeeps == Init => StreamInv
<1> SUFFICES ASSUME Init PROVE StreamInv
  OBVIOUS
<1>1. StoreInv
  BY DEF Init, StoreInv
<1>2. HubInv
  BY EmptySeq, EventStreamAssumption DEF Init, HubInv, Runs
<1>3. SocketInv
  <2>1. \A c \in Clients : stream[c] = NoStream /\ queue[c] = << >>
    BY DEF Init
  <2>2. \A c \in Clients : Sendable(queue[c], nextID, stream[c].conn)
    BY <2>1, NoStreamTyped, EmptyIsSendable
  <2> QED BY <2>2, NoStreamTyped DEF Init, SocketInv
<1>4. PageInv
  BY DEF Init, PageInv, Unread, Views
<1> QED BY <1>1, <1>2, <1>3, <1>4 DEF StreamInv

LEMMA NextKeeps == StreamInv /\ [Next]_vars => StreamInv'
<1> SUFFICES ASSUME StreamInv, [Next]_vars PROVE StreamInv'
  OBVIOUS
<1>1. CASE \E t \in Topics : Write(t) \/ Emit(t)
  BY <1>1, StoreKeeps, EmitKeeps
<1>2. CASE Hello \/ Silence \/ Stop \/ StartAPI \/ Heartbeat
  BY <1>2, StoreKeeps, StopKeeps, HeartbeatKeeps
<1>3. ASSUME NEW c \in Clients,
             \/ Serve(c) \/ Opened(c) \/ Deliver(c) \/ PumpEnds(c) \/ Break(c) \/ Notice(c)
             \/ Open(c) \/ Reconnect(c) \/ Retry(c) \/ Close(c)
             \/ \E t \in Topics : Load(c, t)
             \/ \E a \in answers[c] : Answer(c, a)
      PROVE  StreamInv'
  BY <1>3, StreamStepKeeps, DeliverKeeps, PageStepKeeps, ReadKeeps
<1>4. CASE UNCHANGED vars
  <2>1. UNCHANGED <<store, up, hub, stream, page, restarts, losses>>
    BY <1>4 DEF vars
  <2>2. HubInv' /\ SocketInv'
    <3>1. ghosts \in Nat
      BY DEF StreamInv, HubInv
    <3> QED BY <2>1, <3>1, HubUntouched DEF hub
  <2> QED BY <2>1, <2>2, PageUntouched DEF StreamInv, StoreInv, store
<1> QED BY <1>1, <1>2, <1>3, <1>4 DEF Next

LEMMA StreamInvariant == Spec => []StreamInv
BY InitKeeps, NextKeeps, PTL DEF Spec

(* The hub, the client and the page keep their types; the ring stays       *)
(* within its capacity and every channel within its own, for any pages,    *)
(* topics and capacities (hub.go).                                         *)
THEOREM EventStreamTypeCorrect == Spec => []TypeOK
BY StreamInvariant, PartsAreInvariants, PTL

(* What a live subscriber is still to be sent is the end of the event log, *)
(* without a gap, however emits, subscribes, drops, broken sockets and     *)
(* restarts follow on each other (Emit, Subscribe, dropLocked).            *)
THEOREM NoSubscriberMissesAFrame == Spec => []NoGap
BY StreamInvariant, PartsAreInvariants, PTL

=============================================================================
