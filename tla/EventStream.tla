----------------------------- MODULE EventStream -----------------------------
(***************************************************************************)
(* From a change in the API to what a panel shows: the hub with its ring   *)
(* and its bounded subscribers (app/events/hub.go, routes/events), the     *)
(* client that reconnects and asks for what followed its last id           *)
(* (lib/agent/stream.ts), and the page that reads a route again when a     *)
(* frame names it or the stream has come back (panel/useAgentState.ts,     *)
(* desk/useDeskState.ts).  The plugin's presence is one of the topics: it  *)
(* changes by a hello, and by the passing of time.                         *)
(*                                                                         *)
(* A frame carries its id and the topic it names; the page reads the topic *)
(* itself.  What is stored under a topic is a version.  A frame on its way *)
(* through the socket counts as queued: it moves the cursor only when the  *)
(* page sees it.                                                           *)
(***************************************************************************)
EXTENDS Naturals, Sequences, FiniteSets

CONSTANTS
  Clients,        \* pages: a panel, a desk
  Topics,         \* the routes a frame names
  Plugin,         \* the topic of the extension's presence
  RingCapacity, QueueCapacity, MaxSubscribers,
  MaxVersion, MaxRestarts, MaxLosses \* bounds: changes of a topic, restarts, broken
                                     \* sockets and presses of the button together

ASSUME EventStreamAssumption ==
  /\ Plugin \in Topics /\ IsFiniteSet(Clients)
  /\ RingCapacity \in Nat \ {0} /\ MaxSubscribers \in Nat
  /\ QueueCapacity \in Nat /\ QueueCapacity >= RingCapacity
  /\ MaxVersion \in Nat /\ MaxRestarts \in Nat /\ MaxLosses \in Nat

VARIABLES
  stored,    \* the version of each topic in the database
  unsaid,    \* how many changes of a topic still have to be emitted
  connected, \* the extension has checked in within the window
  armed,     \* the timer that tells of its silence is running
  up,        \* the API is running
  ring, nextID, \* the hub
  queue,     \* a client's state channel, by client
  ghosts,    \* subscribers whose page is gone and whose write has not failed yet
  stream,    \* the client's AgentStream
  due,       \* topics a page is about to read
  answers,   \* answers on their way to a page
  view,      \* what a page shows
  restarts, losses

store == <<stored, unsaid, connected, armed>>
hub == <<ring, nextID, queue, ghosts>>
page == <<due, answers, view>>
vars == <<store, up, hub, stream, page, restarts, losses>>

Frames == [id : Nat \ {0}, topic : Topics]

(* conn is the EventSource: "opening" until the hub has taken the request, *)
(* "admitted" until the page is told, "cut" once the hub has dropped the   *)
(* subscriber, "broken" when the socket is dead and the page has not       *)
(* noticed.  missed is LiveTrack.dropped.                                  *)
Conns == {"none", "opening", "admitted", "open", "cut", "broken"}

Streams ==
  [ shown  : BOOLEAN, \* the page is there
    status : {"connecting", "live", "down"},
    conn   : Conns,
    timer  : BOOLEAN,
    missed : BOOLEAN,
    cursor : Nat ]

Views == [version : Nat, newest : Nat] \* newest: ever shown
Answers == [topic : Topics, version : Nat]

NoStream == [shown |-> FALSE, status |-> "down", conn |-> "none", timer |-> FALSE,
             missed |-> FALSE, cursor |-> 0]
Unread == [version |-> 0, newest |-> 0]

(* The record of the extension is in the database, and may be recent; the  *)
(* timer is not.                                                           *)
Init ==
  /\ stored = [t \in Topics |-> 1]
  /\ unsaid = [t \in Topics |-> 0]
  /\ connected \in BOOLEAN /\ armed = FALSE
  /\ up = TRUE
  /\ ring = << >> /\ nextID = 1
  /\ queue = [c \in Clients |-> << >>]
  /\ ghosts = 0
  /\ stream = [c \in Clients |-> NoStream]
  /\ due = [c \in Clients |-> {}]
  /\ answers = [c \in Clients |-> {}]
  /\ view = [c \in Clients |-> [t \in Topics |-> Unread]]
  /\ restarts = 0 /\ losses = 0

-----------------------------------------------------------------------------
(* What the API stores, and tells *)

Changed(t) == stored' = [stored EXCEPT ![t] = @ + 1]
ToSay(t) == unsaid' = [unsaid EXCEPT ![t] = @ + 1]

Write(t) ==
  /\ up /\ t # Plugin /\ stored[t] < MaxVersion
  /\ Changed(t) /\ ToSay(t)
  /\ UNCHANGED <<connected, armed, up, hub, stream, page, restarts, losses>>

(* A hello tells the stream only when the extension had been quiet, and    *)
(* winds the timer up again in any case.                                   *)
Hello ==
  /\ up
  /\ \/ connected /\ UNCHANGED <<stored, unsaid>>
     \/ ~connected /\ stored[Plugin] < MaxVersion /\ Changed(Plugin) /\ ToSay(Plugin)
  /\ connected' = TRUE /\ armed' = TRUE
  /\ UNCHANGED <<up, hub, stream, page, restarts, losses>>

(* The window passes.  State() answers by the clock, the frame needs the   *)
(* timer, and a restart of the API has lost it.                            *)
Silence ==
  /\ connected /\ stored[Plugin] < MaxVersion
  /\ Changed(Plugin)
  /\ IF armed THEN ToSay(Plugin) ELSE UNCHANGED unsaid
  /\ connected' = FALSE /\ armed' = FALSE
  /\ UNCHANGED <<up, hub, stream, page, restarts, losses>>

TrimmedLate(frames) ==
  IF Len(frames) > RingCapacity + 1 THEN Tail(frames) ELSE frames
Trimmed(frames) ==
  IF Len(frames) > RingCapacity THEN Tail(frames) ELSE frames

Subscribed(c) == stream[c].conn \in {"admitted", "open"}
Full(c) == Len(queue[c]) >= QueueCapacity

(* dropLocked: a subscriber whose channel is full is closed. *)
CutSwallowed(c) == stream[c]
Cut(c) == [stream[c] EXCEPT !.conn = "cut"]

Emit(t) ==
  /\ up /\ unsaid[t] > 0
  /\ LET frame == [id |-> nextID, topic |-> t] IN
       /\ ring' = Trimmed(Append(ring, frame))
       /\ queue' = [c \in Clients |-> IF Subscribed(c) /\ ~Full(c)
                                      THEN Append(queue[c], frame) ELSE queue[c]]
  /\ nextID' = nextID + 1
  /\ stream' = [c \in Clients |-> IF Subscribed(c) /\ Full(c) THEN Cut(c) ELSE stream[c]]
  /\ unsaid' = [unsaid EXCEPT ![t] = @ - 1]
  /\ UNCHANGED <<stored, connected, armed, up, ghosts, page, restarts, losses>>

(* The hub, its timers and every request in progress go with the process.  *)
Stop ==
  /\ up /\ restarts < MaxRestarts
  /\ up' = FALSE /\ armed' = FALSE
  /\ unsaid' = [t \in Topics |-> 0]
  /\ ring' = << >> /\ nextID' = 1 /\ ghosts' = 0
  /\ queue' = [c \in Clients |-> << >>]
  /\ stream' = [c \in Clients |-> IF stream[c].conn \in {"admitted", "open", "cut"}
                                  THEN [stream[c] EXCEPT !.conn = "broken"] ELSE stream[c]]
  /\ answers' = [c \in Clients |-> {}]
  /\ restarts' = restarts + 1
  /\ UNCHANGED <<stored, connected, due, view, losses>>

StartAPI ==
  /\ ~up
  /\ up' = TRUE
  /\ UNCHANGED <<store, hub, stream, page, restarts, losses>>

-----------------------------------------------------------------------------
(* The stream between hub and page *)

(* afterStatus: the page reads everything again when the stream is live    *)
(* and was live before.                                                    *)
AfterStatusForgetful(s, next) == [s EXCEPT !.status = next]
AfterStatus(s, next) ==
  [s EXCEPT !.status = next,
            !.missed = IF next = "live" THEN FALSE ELSE @ \/ s.status = "live"]
Refetches(s, next) == next = "live" /\ s.missed

Occupied == Cardinality({c \in Clients : Subscribed(c)}) + ghosts

(* Subscribe: what the ring holds after the cursor is queued first.  The   *)
(* ids rise along the ring, so these frames are its last ones.             *)
Replay(c) ==
  LET later == {i \in 1..Len(ring) : ring[i].id > stream[c].cursor}
  IN  SubSeq(ring, Len(ring) - Cardinality(later) + 1, Len(ring))

Admit(c) ==
  /\ up /\ stream[c].conn = "opening"
  /\ Occupied < MaxSubscribers
  /\ queue' = [queue EXCEPT ![c] = Replay(c)]
  /\ stream' = [stream EXCEPT ![c].conn = "admitted"]
  /\ UNCHANGED <<store, up, ring, nextID, ghosts, page, restarts, losses>>

(* onerror: the page lets go of the source and winds up its timer. *)
LetGo(s) == [AfterStatus(s, "down") EXCEPT !.conn = "none", !.timer = TRUE]

Refuse(c) ==
  /\ stream[c].conn = "opening"
  /\ ~up \/ Occupied >= MaxSubscribers
  /\ stream' = [stream EXCEPT ![c] = LetGo(@)]
  /\ UNCHANGED <<store, up, hub, page, restarts, losses>>

(* onopen, the first the page hears of its admission *)
Opened(c) ==
  /\ stream[c].conn = "admitted"
  /\ stream' = [stream EXCEPT ![c] = [AfterStatus(@, "live") EXCEPT !.conn = "open"]]
  /\ due' = IF Refetches(stream[c], "live") THEN [due EXCEPT ![c] = Topics] ELSE due
  /\ UNCHANGED <<store, up, hub, answers, view, restarts, losses>>

(* pump writes a frame, and the page notes its id and is about to read the *)
(* route it names (coalesce: a burst costs one read).  A subscriber that   *)
(* was dropped may still be sent what was queued.                          *)
Deliver(c) ==
  /\ stream[c].conn \in {"open", "cut"} /\ stream[c].status = "live"
  /\ queue[c] # << >>
  /\ stream' = [stream EXCEPT ![c].cursor = Head(queue[c]).id]
  /\ due' = [due EXCEPT ![c] = @ \cup {Head(queue[c]).topic}]
  /\ queue' = [queue EXCEPT ![c] = Tail(@)]
  /\ UNCHANGED <<store, up, ring, nextID, ghosts, answers, view, restarts, losses>>

(* pump ends: the subscriber was dropped *)
PumpEnds(c) ==
  /\ stream[c].conn = "cut"
  /\ stream' = [stream EXCEPT ![c].conn = "broken"]
  /\ queue' = [queue EXCEPT ![c] = << >>]
  /\ UNCHANGED <<store, up, ring, nextID, ghosts, page, restarts, losses>>

Left(c) == ghosts + IF Subscribed(c) THEN 1 ELSE 0

(* The socket breaks: the subscriber stays until a write to it fails. *)
Break(c) ==
  /\ losses < MaxLosses
  /\ Subscribed(c)
  /\ stream' = [stream EXCEPT ![c].conn = "broken"]
  /\ queue' = [queue EXCEPT ![c] = << >>]
  /\ ghosts' = Left(c)
  /\ losses' = losses + 1
  /\ UNCHANGED <<store, up, ring, nextID, page, restarts>>

Notice(c) ==
  /\ stream[c].conn = "broken"
  /\ stream' = [stream EXCEPT ![c] = LetGo(@)]
  /\ UNCHANGED <<store, up, hub, page, restarts, losses>>

HeartbeatLeaks == FALSE /\ UNCHANGED vars

(* The heartbeat fails, and Unsubscribe frees the place. *)
Heartbeat ==
  /\ ghosts > 0
  /\ ghosts' = ghosts - 1
  /\ UNCHANGED <<store, up, ring, nextID, queue, stream, page, restarts, losses>>

-----------------------------------------------------------------------------
(* The page *)

Connecting(s) == [AfterStatus(s, "connecting") EXCEPT !.conn = "opening", !.timer = FALSE]

Open(c) ==
  /\ ~stream[c].shown
  /\ stream' = [stream EXCEPT ![c] = [Connecting(NoStream) EXCEPT !.shown = TRUE]]
  /\ due' = [due EXCEPT ![c] = Topics]
  /\ UNCHANGED <<store, up, hub, answers, view, restarts, losses>>

Reconnect(c) ==
  /\ stream[c].timer
  /\ stream' = [stream EXCEPT ![c] = Connecting(@)]
  /\ UNCHANGED <<store, up, hub, page, restarts, losses>>

(* The button, offered while the stream is not live: retryNow and refresh. *)
Retry(c) ==
  /\ losses < MaxLosses
  /\ stream[c].shown /\ stream[c].status # "live"
  /\ stream' = [stream EXCEPT ![c] = Connecting(@)]
  /\ queue' = [queue EXCEPT ![c] = << >>]
  /\ ghosts' = Left(c)
  /\ due' = [due EXCEPT ![c] = Topics]
  /\ losses' = losses + 1
  /\ UNCHANGED <<store, up, ring, nextID, answers, view, restarts>>

Close(c) ==
  /\ stream[c].shown
  /\ stream' = [stream EXCEPT ![c] = NoStream]
  /\ queue' = [queue EXCEPT ![c] = << >>]
  /\ ghosts' = Left(c)
  /\ due' = [due EXCEPT ![c] = {}]
  /\ answers' = [answers EXCEPT ![c] = {}]
  /\ view' = [view EXCEPT ![c] = [t \in Topics |-> Unread]]
  /\ UNCHANGED <<store, up, ring, nextID, restarts, losses>>

(* A read of a route: answered with what is stored when it arrives, or     *)
(* failed, and then the page keeps what it showed (settle).                *)
Load(c, t) ==
  /\ t \in due[c]
  /\ due' = [due EXCEPT ![c] = @ \ {t}]
  /\ answers' = [answers EXCEPT ![c] =
                   IF up THEN @ \cup {[topic |-> t, version |-> stored[t]]} ELSE @]
  /\ UNCHANGED <<store, up, hub, stream, view, restarts, losses>>

(* Answers come in any order, and the last to come is what the page shows. *)
Answer(c, a) ==
  /\ a \in answers[c]
  /\ answers' = [answers EXCEPT ![c] = @ \ {a}]
  /\ view' = [view EXCEPT ![c][a.topic] =
                [version |-> a.version,
                 newest |-> IF a.version > @.newest THEN a.version ELSE @.newest]]
  /\ UNCHANGED <<store, up, hub, stream, due, restarts, losses>>

-----------------------------------------------------------------------------

Serve(c) == Admit(c) \/ Refuse(c)

Next ==
  \/ \E t \in Topics : Write(t) \/ Emit(t)
  \/ Hello \/ Silence \/ Stop \/ StartAPI \/ Heartbeat
  \/ \E c \in Clients :
       \/ Serve(c) \/ Opened(c) \/ Deliver(c) \/ PumpEnds(c) \/ Break(c) \/ Notice(c)
       \/ Open(c) \/ Reconnect(c) \/ Retry(c) \/ Close(c)
       \/ \E t \in Topics : Load(c, t)
       \/ \E a \in answers[c] : Answer(c, a)

Spec == Init /\ [][Next]_vars

(* What the runtime, the browser and the network do by themselves is fair; *)
(* what a person, the extension or an outage does is not.                  *)
Fairness ==
  /\ WF_vars(StartAPI) /\ WF_vars(Heartbeat)
  /\ \A t \in Topics : WF_vars(Emit(t))
  /\ \A c \in Clients :
       /\ WF_vars(Serve(c)) /\ WF_vars(Opened(c)) /\ WF_vars(Deliver(c))
       /\ WF_vars(PumpEnds(c)) /\ WF_vars(Notice(c)) /\ WF_vars(Reconnect(c))
       /\ \A t \in Topics : WF_vars(Load(c, t))
       /\ WF_vars(\E a \in answers[c] : Answer(c, a))

FairSpec == Spec /\ Fairness

-----------------------------------------------------------------------------

(* The hub, the client and the page keep their types; the ring never grows *)
(* past its capacity, nor a channel past its own (hub.go).                 *)
TypeOK ==
  /\ stored \in [Topics -> Nat] /\ unsaid \in [Topics -> Nat]
  /\ connected \in BOOLEAN /\ armed \in BOOLEAN /\ up \in BOOLEAN
  /\ ring \in Seq(Frames) /\ Len(ring) <= RingCapacity /\ nextID \in Nat \ {0}
  /\ queue \in [Clients -> Seq(Frames)]
  /\ \A c \in Clients : Len(queue[c]) <= QueueCapacity
  /\ ghosts \in Nat
  /\ stream \in [Clients -> Streams]
  /\ due \in [Clients -> SUBSET Topics]
  /\ answers \in [Clients -> SUBSET Answers]
  /\ view \in [Clients -> [Topics -> Views]]
  /\ restarts \in Nat /\ losses \in Nat

(* The frames run without a gap up to the newest one. *)
Runs(frames, newest) ==
  \A i \in 1..Len(frames) : frames[i].id = newest + i - 1 - Len(frames)

(* What a live subscriber is still to be sent is the end of the event log  *)
(* without a gap: the replay meets the frames emitted since, a channel     *)
(* that overflows ends its subscriber and never swallows one frame, and    *)
(* the ring forgets from its old end only (Emit, Subscribe, dropLocked).   *)
NoGap ==
  /\ Runs(ring, nextID)
  /\ \A c \in Clients : Subscribed(c) => Runs(queue[c], nextID)

(* A page whose stream has once been live comes to show every change the   *)
(* API is about to tell it of, or a later one, through frames that leave   *)
(* the ring, restarts that begin the ids at one again, broken sockets and  *)
(* dropped subscribers (afterStatus and the replay together).              *)
ToldReachesView ==
  \A c \in Clients, t \in Topics, v \in 1..MaxVersion :
    (stream[c].shown /\ (stream[c].status = "live" \/ stream[c].missed)
       /\ unsaid[t] > 0 /\ stored[t] = v)
      ~> (view[c][t].newest >= v \/ ~stream[c].shown)

(* A page that is open gets its stream back: places of pages that are gone *)
(* are freed, and every refusal leads to another try (later, connect).     *)
StreamComesBack ==
  \A c \in Clients : stream[c].shown ~> (stream[c].status = "live" \/ ~stream[c].shown)

=============================================================================
