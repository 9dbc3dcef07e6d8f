----------------------------- MODULE Reflection -----------------------------
(***************************************************************************)
(* Outcomes, reflections and standing notes (routes/screening/reflect.go,  *)
(* applyNotes of routes/planner/service.go).  Recording an outcome counts  *)
(* the ones that came since the last reflection and, when they are enough, *)
(* starts one in the background.  A reflection holds a mutex while it      *)
(* reads and asks the model, then retires and writes notes and is stamped  *)
(* in one transaction.  The planner curates the same notes.                *)
(*                                                                         *)
(* What an outcome, a lesson or a note says is left out, and the status    *)
(* RecordOutcome writes besides is in Postings.  Of the stamps only one    *)
(* comparison matters, that of an outcome with the last reflection: an     *)
(* outcome is "fresh" when it is stamped after it, else "seen".            *)
(***************************************************************************)
EXTENDS Naturals, Sequences, FiniteSets, Functions

CONSTANTS
  Postings,              \* postings that have been applied for
  Requests, Reflectors,  \* requests to record, and reflections, at a time
  MinOutcomes, OutcomesPerReflection, OutcomeWindow,
  MaxLessons,
  ReflectorNoteCap,      \* notes of a scope a reflection reads and leaves
  NoteCap,               \* notes the planner leaves of its own
  NoPosting,
  MaxRecorded,           \* bound: no outcome is recorded after as many
  MaxNotes,              \* bound: notes ever written
  MaxFailures            \* bound: failed reflections and restarts

ASSUME ReflectionAssumption ==
  /\ IsFiniteSet(Postings) /\ NoPosting \notin Postings
  /\ MinOutcomes \in Nat /\ OutcomesPerReflection \in Nat /\ OutcomeWindow \in Nat
  /\ MinOutcomes <= OutcomeWindow
  /\ MaxLessons \in Nat /\ NoteCap \in Nat /\ ReflectorNoteCap \in Nat
  /\ NoteCap <= ReflectorNoteCap
  /\ MaxRecorded \in Nat /\ MaxNotes \in Nat /\ MaxFailures \in Nat

VARIABLES
  outcome,     \* jobs.outcome and outcome_at
  request,     \* what each request to record holds
  reflector,   \* what each reflection holds
  notes,       \* the notes table
  written,     \* notes ever written
  recorded,    \* outcomes ever recorded
  reflections, \* reflections nobody forced that were stamped
  failures

vars == <<outcome, request, reflector, notes, written, recorded, reflections, failures>>
counts == <<written, recorded, reflections, failures>>

Scopes == {"planning", "screening"}

(* birth tells a note from another that is given its id. *)
Note == [id : Nat \ {0}, scope : Scopes, birth : Nat \ {0}]

(* "waiting" is for the mutex, "asking" for the model. *)
Phases == {"idle", "waiting", "counting", "reading", "asking"}

Outcomes == {"none", "seen", "fresh"}

Unasked == [phase |-> "idle", force |-> FALSE, standing |-> {}]
NoRequest == [phase |-> "idle", posting |-> NoPosting, outcome |-> "none"]

Init ==
  /\ outcome = [p \in Postings |-> "none"]
  /\ request = [q \in Requests |-> NoRequest]
  /\ reflector = [r \in Reflectors |-> Unasked]
  /\ notes = {} /\ written = 0
  /\ recorded = 0 /\ reflections = 0
  /\ failures = 0

-----------------------------------------------------------------------------
(* Counting *)

WithOutcome == {p \in Postings : outcome[p] # "none"}

(* CountOutcomesSince *)
Fresh == {p \in Postings : outcome[p] = "fresh"}

(* RecentOutcomes reads no more than the window. *)
Recent == IF Cardinality(WithOutcome) < OutcomeWindow THEN Cardinality(WithOutcome)
          ELSE OutcomeWindow

Due == Recent >= MinOutcomes /\ Cardinality(Fresh) >= OutcomesPerReflection

-----------------------------------------------------------------------------
(* Recording an outcome *)

Asks(q, state) == request' = [request EXCEPT ![q] = state]

(* RecordOutcome stamps what it is about to write, or is to clear it. *)
Record(q, p) ==
  /\ request[q].phase = "idle" /\ recorded < MaxRecorded
  /\ \E wanted \in {"none", "fresh"} :
       Asks(q, [phase |-> "writing", posting |-> p, outcome |-> wanted])
  /\ UNCHANGED <<outcome, reflector, notes, counts>>

(* SetOutcome *)
WriteOutcome(q) ==
  /\ request[q].phase = "writing"
  /\ outcome' = [outcome EXCEPT ![request[q].posting] = request[q].outcome]
  /\ recorded' = IF request[q].outcome = "none" THEN recorded ELSE recorded + 1
  /\ Asks(q, [request[q] EXCEPT !.phase = "checking"])
  /\ UNCHANGED <<reflector, notes, written, reflections, failures>>

Reflects(r, state) == reflector' = [reflector EXCEPT ![r] = state]
Idle(r) == reflector[r].phase = "idle"
Holding(r) == reflector[r].phase \in {"counting", "reading", "asking"}

(* Locked as it would be if the mutex only guarded the model call. *)
LockedWhileAsking == \E r \in Reflectors : reflector[r].phase = "asking"

(* s.reflecting *)
Locked == \E r \in Reflectors : Holding(r)

(* Spawn as it would be under the context of the request, which is over    *)
(* as soon as it has answered.                                             *)
SpawnCancelled == UNCHANGED reflector

(* reflectInBackground: it outlives the request. *)
Spawn == \E r \in Reflectors : Idle(r) /\ Reflects(r, [Unasked EXCEPT !.phase = "waiting"])

CheckDue(q) ==
  /\ request[q].phase = "checking"
  /\ IF Due THEN Spawn ELSE UNCHANGED reflector
  /\ Asks(q, NoRequest)
  /\ UNCHANGED <<outcome, notes, counts>>

(* A statement of the request fails. *)
FailRequest(q) ==
  /\ request[q].phase # "idle" /\ failures < MaxFailures
  /\ failures' = failures + 1
  /\ Asks(q, NoRequest)
  /\ UNCHANGED <<outcome, reflector, notes, written, recorded, reflections>>

-----------------------------------------------------------------------------
(* Reflecting *)

(* The Reflect handler of the desk. *)
Ask(r, force) ==
  /\ Idle(r)
  /\ Reflects(r, [Unasked EXCEPT !.phase = "waiting", !.force = force])
  /\ UNCHANGED <<outcome, request, notes, counts>>

(* The mutex, and the count of what is recorded. *)
Acquire(r) ==
  /\ reflector[r].phase = "waiting" /\ ~Locked
  /\ IF Recent < MinOutcomes THEN Reflects(r, Unasked)
     ELSE Reflects(r, [reflector[r] EXCEPT !.phase = "counting"])
  /\ UNCHANGED <<outcome, request, notes, counts>>

(* Recount as it would be if the answer from before the wait were used. *)
RecountNothing(r) ==
  /\ reflector[r].phase = "counting"
  /\ Reflects(r, [reflector[r] EXCEPT !.phase = "reading"])
  /\ UNCHANGED <<outcome, request, notes, counts>>

(* What was due before the wait for the mutex may not be any more. *)
Recount(r) ==
  /\ reflector[r].phase = "counting"
  /\ IF reflector[r].force \/ Due
     THEN Reflects(r, [reflector[r] EXCEPT !.phase = "reading"])
     ELSE Reflects(r, Unasked)
  /\ UNCHANGED <<outcome, request, notes, counts>>

InScope(all, scope) == {n \in all : n.scope = scope}

(* The newest notes of a scope, by id. *)
Newest(all, scope, cap) ==
  {n \in InScope(all, scope) : Cardinality({m \in InScope(all, scope) : m.id > n.id}) < cap}

(* standingNotes *)
ReadNotes(r) ==
  /\ reflector[r].phase = "reading"
  /\ Reflects(r, [reflector[r] EXCEPT
       !.phase = "asking",
       !.standing = UNION {Newest(notes, scope, ReflectorNoteCap) : scope \in Scopes}])
  /\ UNCHANGED <<outcome, request, notes, counts>>

(* NewId as it would be without AUTOINCREMENT. *)
NewIdReused(all, last) == IF all = {} THEN 1 ELSE 1 + (CHOOSE n \in all : \A m \in all : m.id <= n.id).id

(* The id of the next note: AUTOINCREMENT gives none out twice. *)
NewId(all, last) == last + 1

(* PruneLessons and PruneNotes: the newest of a scope stay. *)
Pruned(all, scopes, cap) == {n \in all : n.scope \in scopes => n \in Newest(all, n.scope, cap)}

(* InsertLesson, InsertNote: one note in each scope named, in turn. *)
Inserted(all, scopes) ==
  all \cup {[id |-> NewId(all, written + i - 1), scope |-> scopes[i], birth |-> written + i] :
              i \in DOMAIN scopes}

(* Stored as it would be with the prune first. *)
StoredPrunedFirst(all, scopes) == Inserted(Pruned(all, Range(scopes), ReflectorNoteCap), scopes)

(* The lessons go in, and each scope they touch is pruned. *)
Stored(all, scopes) == Pruned(Inserted(all, scopes), Range(scopes), ReflectorNoteCap)

Lessons == UNION {[1 .. n -> Scopes] : n \in 0 .. MaxLessons}

Seen(was) == IF was = "fresh" THEN "seen" ELSE was

(* commitLessons.  The model may ask to retire any id, and only those it   *)
(* was shown are retired.  Every outcome that is stamped by now, written or *)
(* still to be written, is seen from here on, whether it was read or not.  *)
CommitLessons(r) ==
  /\ reflector[r].phase = "asking"
  /\ \E lessons \in Lessons, retire \in SUBSET {n.id : n \in reflector[r].standing} :
       /\ written + Len(lessons) <= MaxNotes
       /\ notes' = Stored({n \in notes : n.id \notin retire}, lessons)
       /\ written' = written + Len(lessons)
  /\ outcome' = [p \in Postings |-> Seen(outcome[p])]
  /\ request' = [q \in Requests |-> [request[q] EXCEPT !.outcome = Seen(@)]]
  /\ reflections' = IF reflector[r].force THEN reflections ELSE reflections + 1
  /\ Reflects(r, Unasked)
  /\ UNCHANGED <<recorded, failures>>

(* A read, the desk, the model or the transaction fails. *)
Fail(r) ==
  /\ Holding(r) /\ failures < MaxFailures
  /\ failures' = failures + 1
  /\ Reflects(r, Unasked)
  /\ UNCHANGED <<outcome, request, notes, written, recorded, reflections>>

-----------------------------------------------------------------------------
(* The planner, the person, the process *)

(* applyNotes: ids and words are the planner's answer, whatever was read.  *)
(* Revising leaves the id.  Only an addition prunes.                       *)
Curate ==
  /\ \E drop \in SUBSET {n.id : n \in notes}, added \in {<< >>, << "planning" >>} :
       /\ written + Len(added) <= MaxNotes
       /\ LET kept == Inserted({n \in notes : n.id \notin drop}, added)
          IN  notes' = Pruned(kept, Range(added), NoteCap)
       /\ written' = written + Len(added)
  /\ UNCHANGED <<outcome, request, reflector, recorded, reflections, failures>>

DeleteNote(id) ==
  /\ notes' = {n \in notes : n.id # id}
  /\ UNCHANGED <<outcome, request, reflector, counts>>

(* The process dies: what requests and reflections held is gone. *)
Restart ==
  /\ failures < MaxFailures
  /\ failures' = failures + 1
  /\ request' = [q \in Requests |-> NoRequest]
  /\ reflector' = [r \in Reflectors |-> Unasked]
  /\ UNCHANGED <<outcome, notes, written, recorded, reflections>>

RequestStep(q) == WriteOutcome(q) \/ CheckDue(q)
ReflectorStep(r) == Recount(r) \/ ReadNotes(r) \/ CommitLessons(r)

Next ==
  \/ \E q \in Requests : RequestStep(q) \/ FailRequest(q) \/ \E p \in Postings : Record(q, p)
  \/ \E r \in Reflectors :
       Acquire(r) \/ ReflectorStep(r) \/ Fail(r) \/ \E force \in BOOLEAN : Ask(r, force)
  \/ Curate \/ (\E n \in notes : DeleteNote(n.id)) \/ Restart

Spec == Init /\ [][Next]_vars

(* What the process has begun goes on, and its mutex is fair to those who  *)
(* wait for it.                                                            *)
FairSpec ==
  /\ Spec
  /\ \A q \in Requests : SF_vars(RequestStep(q))
  /\ \A r \in Reflectors : WF_vars(ReflectorStep(r)) /\ SF_vars(Acquire(r))

-----------------------------------------------------------------------------

(* Every piece of state has its type, no id is given out twice, and one    *)
(* reflection at a time holds the mutex (Reflect).                         *)
TypeOK ==
  /\ outcome \in [Postings -> Outcomes]
  /\ request \in [Requests -> [phase : {"idle", "writing", "checking"},
                               posting : Postings \cup {NoPosting}, outcome : Outcomes]]
  /\ \A q \in Requests : request[q].phase # "idle" => request[q].posting \in Postings
  /\ reflector \in [Reflectors -> [phase : Phases, force : BOOLEAN, standing : SUBSET Note]]
  /\ notes \subseteq Note
  /\ \A n \in notes : n.birth <= written
  /\ written \in Nat /\ recorded \in Nat /\ reflections \in Nat /\ failures \in Nat
  /\ \A r, s \in Reflectors : Holding(r) /\ Holding(s) => r = s

(* However many requests start reflections at once, the ones nobody forced *)
(* are paid for by new outcomes: a model call is spent once on them and    *)
(* not once for each request that saw them (RecordOutcome, Reflect).       *)
PaidByOutcomes == reflections * OutcomesPerReflection <= recorded

(* No scope outgrows what a reflection reads of it, or a standing note     *)
(* would ride in prompts that no reflection could retire any more          *)
(* (commitLessons, applyNotes, standingNotes).                             *)
ScopesWithinCap == \A scope \in Scopes : Cardinality(InScope(notes, scope)) <= ReflectorNoteCap

(* A reflection that ends removes the notes it had read, and others only   *)
(* when the cap pushes them out: never one that was written meanwhile      *)
(* under the id of a note that is gone (commitLessons).                    *)
RetiresWhatItRead ==
  [][\A r \in Reflectors : CommitLessons(r) =>
       \A n \in notes \ notes' :
         \/ n \in reflector[r].standing
         \/ Cardinality({m \in InScope(notes', n.scope) : m.id > n.id}) >= ReflectorNoteCap]_vars

(* Outcomes that are enough for a reflection get one, unless one has       *)
(* failed; nobody has to ask (RecordOutcome, reflectInBackground).         *)
DueIsReflected == Due ~> (~Due \/ failures > 0)

=============================================================================
