--------------------------- MODULE ReflectionProofs ---------------------------
(***************************************************************************)
(* Proofs about reflections and the notes they write, for any number of    *)
(* postings, requests and reflections at a time.                           *)
(*                                                                         *)
(* That reflections are paid for by outcomes is not inductive alone.  The  *)
(* outcomes that have come since the last one are paid for as well, and a  *)
(* reflection that nobody forced and that has passed the count holds the   *)
(* price of one more: it keeps its claim because the mutex lets no other   *)
(* one be stamped first.  That a reflection retires only what it read      *)
(* needs that a note that was read is the only one ever to have its id.    *)
(***************************************************************************)
EXTENDS Reflection, FiniteSetTheorems, WellFoundedInduction, TLAPS

RequestOK(state) ==
  /\ state \in [phase : {"idle", "writing", "checking"},
                posting : Postings \cup {NoPosting}, outcome : Outcomes]
  /\ state.phase # "idle" => state.posting \in Postings

(* A reflection, whatever notes it has read. *)
ReflectorOK(state) ==
  state \in [phase : Phases, force : BOOLEAN, standing : {state.standing}]

Claims(state) == state.phase \in {"reading", "asking"} /\ ~state.force

Price == OutcomesPerReflection

CountInv ==
  /\ outcome \in [Postings -> Outcomes]
  /\ DOMAIN request = Requests /\ request = [q \in Requests |-> request[q]]
  /\ \A q \in Requests : RequestOK(request[q])
  /\ DOMAIN reflector = Reflectors /\ reflector = [r \in Reflectors |-> reflector[r]]
  /\ \A r \in Reflectors : ReflectorOK(reflector[r])
  /\ \A r, s \in Reflectors : Holding(r) /\ Holding(s) => r = s
  /\ recorded \in Nat /\ reflections \in Nat
  /\ reflections * Price + Cardinality(Fresh) <= recorded
  /\ \A r \in Reflectors : Claims(reflector[r]) => reflections * Price + Price <= recorded

-----------------------------------------------------------------------------

LEMMA FreshIsFinite == IsFiniteSet(Fresh) /\ Cardinality(Fresh) \in Nat
BY FS_Subset, FS_CardinalityType, ReflectionAssumption DEF Fresh

(* An outcome that is written adds at most itself to what is fresh. *)
LEMMA OneMoreFresh ==
  ASSUME outcome \in [Postings -> Outcomes], NEW p \in Postings, NEW value \in Outcomes,
         outcome' = [outcome EXCEPT ![p] = value]
  PROVE  Cardinality(Fresh') <= Cardinality(Fresh) + IF value = "fresh" THEN 1 ELSE 0
<1>1. /\ IsFiniteSet(Fresh \cup {p}) /\ Cardinality(Fresh \cup {p}) \in Nat
      /\ Cardinality(Fresh \cup {p}) <= Cardinality(Fresh) + 1
  <2>1. IsFiniteSet(Fresh \cup {p})
    BY FreshIsFinite, FS_AddElement
  <2>2. \/ Cardinality(Fresh \cup {p}) = Cardinality(Fresh)
        \/ Cardinality(Fresh \cup {p}) = Cardinality(Fresh) + 1
    BY FreshIsFinite, FS_AddElement
  <2> QED BY <2>1, <2>2, FreshIsFinite
<1>2. CASE value = "fresh"
  <2>1. Fresh' \subseteq Fresh \cup {p}
    BY <1>2 DEF Fresh
  <2>2. Cardinality(Fresh') <= Cardinality(Fresh \cup {p}) /\ Cardinality(Fresh') \in Nat
    BY <1>1, <2>1, FS_Subset, FS_CardinalityType
  <2> QED BY <1>1, <1>2, <2>2, FreshIsFinite
<1>3. CASE value # "fresh"
  <2>1. Fresh' \subseteq Fresh
    BY <1>3 DEF Fresh
  <2>2. Cardinality(Fresh') <= Cardinality(Fresh) /\ Cardinality(Fresh') \in Nat
    BY <2>1, FreshIsFinite, FS_Subset, FS_CardinalityType
  <2> QED BY <1>3, <2>2, FreshIsFinite
<1> QED BY <1>2, <1>3

(* A step that only moves requests and reflections, none of which begins   *)
(* to hold the mutex or to claim its price beside another.                 *)
LEMMA MovesKeepCountInv ==
  ASSUME CountInv, UNCHANGED <<outcome, recorded, reflections>>,
         UNCHANGED request \/ \E q \in Requests : \E state : RequestOK(state) /\ Asks(q, state),
         UNCHANGED reflector
           \/ \E r \in Reflectors : \E state :
                /\ ReflectorOK(state) /\ Reflects(r, state)
                /\ state.phase \in {"counting", "reading", "asking"} => (Holding(r) \/ ~Locked)
                /\ Claims(state) => Claims(reflector[r]) \/ Cardinality(Fresh) >= Price
  PROVE  CountInv'
<1>1. Fresh' = Fresh
  BY DEF Fresh
<1>2. /\ DOMAIN request' = Requests /\ request' = [q \in Requests |-> request'[q]]
      /\ \A q \in Requests : RequestOK(request'[q])
  <2>1. CASE UNCHANGED request
    BY <2>1 DEF CountInv
  <2>2. ASSUME NEW q \in Requests, NEW state, RequestOK(state), Asks(q, state)
        PROVE  /\ DOMAIN request' = Requests /\ request' = [p \in Requests |-> request'[p]]
               /\ \A p \in Requests : RequestOK(request'[p])
    BY <2>2 DEF CountInv, Asks
  <2> QED BY <2>1, <2>2
<1>3. /\ DOMAIN reflector' = Reflectors /\ reflector' = [r \in Reflectors |-> reflector'[r]]
      /\ \A r \in Reflectors : ReflectorOK(reflector'[r])
      /\ \A r, s \in Reflectors : Holding(r)' /\ Holding(s)' => r = s
      /\ \A r \in Reflectors : Claims(reflector'[r]) => reflections * Price + Price <= recorded
  <2>1. CASE UNCHANGED reflector
    BY <2>1 DEF CountInv, Holding
  <2>2. ASSUME NEW r \in Reflectors, NEW state, ReflectorOK(state), Reflects(r, state),
               state.phase \in {"counting", "reading", "asking"} => (Holding(r) \/ ~Locked),
               Claims(state) => Claims(reflector[r]) \/ Cardinality(Fresh) >= Price
        PROVE  /\ DOMAIN reflector' = Reflectors
               /\ reflector' = [p \in Reflectors |-> reflector'[p]]
               /\ \A p \in Reflectors : ReflectorOK(reflector'[p])
               /\ \A p, s \in Reflectors : Holding(p)' /\ Holding(s)' => p = s
               /\ \A p \in Reflectors :
                    Claims(reflector'[p]) => reflections * Price + Price <= recorded
    <3>1. reflector'[r] = state /\ \A p \in Reflectors : p # r => reflector'[p] = reflector[p]
      BY <2>2 DEF CountInv, Reflects
    <3>2. Claims(state) => reflections * Price + Price <= recorded
      <4>1. /\ reflections * Price + Cardinality(Fresh) <= recorded
            /\ reflections \in Nat /\ recorded \in Nat /\ Price \in Nat
        BY ReflectionAssumption DEF CountInv, Price
      <4>2. reflections * Price \in Nat
        BY <4>1
      <4> HIDE DEF Price
      <4> QED BY <2>2, <4>1, <4>2, FreshIsFinite DEF CountInv
    <3>3. \A p, s \in Reflectors : Holding(p)' /\ Holding(s)' => p = s
      BY <2>2, <3>1 DEF CountInv, Holding, Locked
    <3> QED BY <2>2, <3>1, <3>2, <3>3 DEF CountInv, Reflects
  <2> QED BY <2>1, <2>2
<1> QED BY <1>1, <1>2, <1>3 DEF CountInv

(* The writing of an outcome pays one, and takes at most one. *)
LEMMA WritesKeepCountInv ==
  ASSUME CountInv, NEW q \in Requests, WriteOutcome(q)
  PROVE  CountInv'
<1> DEFINE p == request[q].posting
           value == request[q].outcome
<1>1. p \in Postings /\ value \in Outcomes /\ request[q].phase = "writing"
  BY DEF WriteOutcome, CountInv, RequestOK
<1>2. outcome' = [outcome EXCEPT ![p] = value] /\ outcome' \in [Postings -> Outcomes]
  BY <1>1 DEF WriteOutcome, CountInv
<1>3. Cardinality(Fresh') <= Cardinality(Fresh) + IF value = "fresh" THEN 1 ELSE 0
  BY <1>1, <1>2, OneMoreFresh DEF CountInv
<1>4. IsFiniteSet(Fresh') /\ Cardinality(Fresh') \in Nat
  BY FS_Subset, FS_CardinalityType, ReflectionAssumption DEF Fresh
<1>5. recorded' = (IF value = "none" THEN recorded ELSE recorded + 1) /\ reflections' = reflections
  BY DEF WriteOutcome
<1>6. recorded \in Nat /\ reflections \in Nat /\ Price \in Nat /\ reflections * Price \in Nat
  BY ReflectionAssumption DEF CountInv, Price
<1>7. reflections * Price + Cardinality(Fresh) <= recorded
  BY DEF CountInv
<1>8. recorded' \in Nat /\ recorded' >= recorded
      /\ reflections * Price + Cardinality(Fresh') <= recorded'
  <2> HIDE DEF Price, p, value
  <2>1. CASE value = "fresh"
    BY <1>3, <1>4, <1>5, <1>6, <1>7, <2>1, FreshIsFinite
  <2>2. CASE value # "fresh"
    BY <1>3, <1>4, <1>5, <1>6, <1>7, <2>2, FreshIsFinite
  <2> QED BY <2>1, <2>2
<1>9. UNCHANGED reflector
  BY DEF WriteOutcome
<1>10. /\ DOMAIN request' = Requests /\ request' = [r \in Requests |-> request'[r]]
       /\ \A r \in Requests : RequestOK(request'[r])
  <2>1. RequestOK([request[q] EXCEPT !.phase = "checking"])
    BY <1>1 DEF CountInv, RequestOK
  <2>2. request' = [request EXCEPT ![q] = [request[q] EXCEPT !.phase = "checking"]]
    BY DEF WriteOutcome, Asks
  <2> QED BY <2>1, <2>2 DEF CountInv
<1>11. \A r \in Reflectors : Claims(reflector[r]) => reflections * Price + Price <= recorded'
  <2> SUFFICES ASSUME NEW r \in Reflectors, Claims(reflector[r])
               PROVE  reflections * Price + Price <= recorded'
    OBVIOUS
  <2>1. reflections * Price + Price <= recorded
    BY DEF CountInv
  <2> HIDE DEF Price
  <2> QED BY <1>6, <1>8, <2>1
<1> QED BY <1>2, <1>5, <1>8, <1>9, <1>10, <1>11 DEF CountInv, Holding

(* What is at rest is well formed, and so is what waits for the mutex. *)
LEMMA RestsAreOK == RequestOK(NoRequest) /\ ReflectorOK(Unasked) /\ ~Claims(Unasked)
BY DEF RequestOK, NoRequest, Outcomes, ReflectorOK, Unasked, Phases, Claims

LEMMA WaitersAreOK ==
  ASSUME NEW force \in BOOLEAN
  PROVE  LET state == [Unasked EXCEPT !.phase = "waiting", !.force = force]
         IN  ReflectorOK(state) /\ ~Claims(state) /\ state.phase = "waiting"
<1> DEFINE state == [Unasked EXCEPT !.phase = "waiting", !.force = force]
<1>1. Unasked \in [phase : Phases, force : BOOLEAN, standing : {{}}]
  BY DEF Unasked, Phases
<1>2. state \in [phase : Phases, force : BOOLEAN, standing : {{}}] /\ state.phase = "waiting"
  BY <1>1 DEF Phases
<1> HIDE DEF state
<1>3. ReflectorOK(state) /\ ~Claims(state)
  BY <1>1, <1>2 DEF ReflectorOK, Phases, Claims
<1> QED BY <1>2, <1>3 DEF state

(* A reflection is stamped by the one that holds the mutex, so its claim   *)
(* pays for it, and whatever was fresh is not any more.                    *)
LEMMA CommitsKeepCountInv ==
  ASSUME CountInv, NEW r \in Reflectors, CommitLessons(r)
  PROVE  CountInv'
<1>1. reflector[r].phase = "asking" /\ Reflects(r, Unasked) /\ recorded' = recorded
      /\ outcome' = [p \in Postings |-> Seen(outcome[p])]
      /\ request' = [q \in Requests |-> [request[q] EXCEPT !.outcome = Seen(@)]]
      /\ reflections' = IF reflector[r].force THEN reflections ELSE reflections + 1
  BY DEF CommitLessons
<1>2. outcome' \in [Postings -> Outcomes] /\ Fresh' = {}
  <2>1. \A p \in Postings : outcome'[p] \in Outcomes /\ outcome'[p] # "fresh"
    BY <1>1 DEF CountInv, Seen, Outcomes
  <2> QED BY <1>1, <2>1 DEF Fresh
<1>3. Cardinality(Fresh') = 0
  BY <1>2, FS_EmptySet
<1>4. /\ DOMAIN request' = Requests /\ request' = [q \in Requests |-> request'[q]]
      /\ \A q \in Requests : RequestOK(request'[q])
  <2>1. \A q \in Requests : request'[q] = [request[q] EXCEPT !.outcome = Seen(@)]
    BY <1>1
  <2>2. ASSUME NEW q \in Requests PROVE RequestOK([request[q] EXCEPT !.outcome = Seen(@)])
    BY DEF CountInv, RequestOK, Seen, Outcomes
  <2> QED BY <1>1, <2>1, <2>2
<1>5. /\ reflector'[r] = Unasked /\ \A s \in Reflectors : s # r => reflector'[s] = reflector[s]
      /\ DOMAIN reflector' = Reflectors /\ reflector' = [s \in Reflectors |-> reflector'[s]]
  BY <1>1 DEF CountInv, Reflects
<1>6. \A s \in Reflectors : ~Holding(s)'
  BY <1>1, <1>5 DEF CountInv, Holding, Unasked
<1>7. \A s \in Reflectors : ReflectorOK(reflector'[s]) /\ ~Claims(reflector'[s])
  <2>1. ASSUME NEW s \in Reflectors, s # r
        PROVE  ReflectorOK(reflector'[s]) /\ ~Claims(reflector'[s])
    <3>1. reflector'[s] = reflector[s] /\ ReflectorOK(reflector[s])
      BY <1>5, <2>1 DEF CountInv
    <3>2. ~Holding(s)
      BY <1>1, <2>1 DEF CountInv, Holding
    <3> QED BY <3>1, <3>2 DEF Claims, Holding
  <2> QED BY <1>5, <2>1, RestsAreOK
<1>8. recorded \in Nat /\ reflections \in Nat /\ Price \in Nat /\ reflections * Price \in Nat
      /\ reflections * Price + Cardinality(Fresh) <= recorded
  BY ReflectionAssumption DEF CountInv, Price
<1>9. reflections' \in Nat /\ reflections' * Price + Cardinality(Fresh') <= recorded'
  <2>1. CASE reflector[r].force
    BY <1>1, <1>3, <1>8, <2>1, FreshIsFinite
  <2>2. CASE ~reflector[r].force
    <3>1. reflections * Price + Price <= recorded
      BY <1>1, <2>2 DEF CountInv, Claims
    <3>2. (reflections + 1) * Price = reflections * Price + Price
      BY <1>8
    <3> HIDE DEF Price
    <3> QED BY <1>1, <1>3, <1>8, <2>2, <3>1, <3>2
  <2> QED BY <2>1, <2>2
<1> QED BY <1>1, <1>2, <1>4, <1>5, <1>6, <1>7, <1>8, <1>9 DEF CountInv

(* The steps of a request, and those of a reflection up to the commit. *)
LEMMA RequestMoves ==
  ASSUME CountInv, NEW q \in Requests, CheckDue(q) \/ FailRequest(q) \/ \E p \in Postings : Record(q, p)
  PROVE  CountInv'
<1>1. CASE CheckDue(q)
  <2>1. Asks(q, NoRequest) /\ UNCHANGED <<outcome, recorded, reflections>>
    BY <1>1 DEF CheckDue, counts
  <2>2. UNCHANGED reflector \/ \E r \in Reflectors : Reflects(r, [Unasked EXCEPT !.phase = "waiting"])
    BY <1>1 DEF CheckDue, Spawn
  <2>3. ReflectorOK([Unasked EXCEPT !.phase = "waiting"]) /\ ~Claims([Unasked EXCEPT !.phase = "waiting"])
        /\ [Unasked EXCEPT !.phase = "waiting"].phase = "waiting"
    <3>1. Unasked \in [phase : Phases, force : BOOLEAN, standing : {{}}] /\ ~Unasked.force
      BY DEF Unasked, Phases
    <3> QED BY <3>1 DEF ReflectorOK, Phases, Claims
  <2> QED BY <2>1, <2>2, <2>3, RestsAreOK, MovesKeepCountInv
<1>2. CASE FailRequest(q)
  BY <1>2, RestsAreOK, MovesKeepCountInv DEF FailRequest
<1>3. ASSUME NEW p \in Postings, Record(q, p) PROVE CountInv'
  <2>1. PICK wanted \in {"none", "fresh"} :
          Asks(q, [phase |-> "writing", posting |-> p, outcome |-> wanted])
    BY <1>3 DEF Record
  <2>2. RequestOK([phase |-> "writing", posting |-> p, outcome |-> wanted])
    BY DEF RequestOK, Outcomes
  <2>3. UNCHANGED <<outcome, recorded, reflections, reflector>>
    BY <1>3 DEF Record, counts
  <2> QED BY <2>1, <2>2, <2>3, MovesKeepCountInv
<1> QED BY <1>1, <1>2, <1>3

LEMMA ReflectorMoves ==
  ASSUME CountInv, NEW r \in Reflectors,
         \/ Acquire(r) \/ Recount(r) \/ ReadNotes(r) \/ Fail(r)
         \/ \E force \in BOOLEAN : Ask(r, force)
  PROVE  CountInv'
<1>1. UNCHANGED <<outcome, request, recorded, reflections>>
  BY DEF Acquire, Recount, ReadNotes, Fail, Ask, counts
<1>2. ReflectorOK(reflector[r])
  BY DEF CountInv
<1>3. Unasked.phase = "idle"
  BY DEF Unasked
<1>4. ASSUME NEW state, ReflectorOK(state), Reflects(r, state),
             state.phase \in {"counting", "reading", "asking"} => (Holding(r) \/ ~Locked),
             Claims(state) => Claims(reflector[r]) \/ Cardinality(Fresh) >= Price
      PROVE  CountInv'
  BY <1>1, <1>4, MovesKeepCountInv
<1>5. Reflects(r, Unasked) => CountInv'
  BY <1>3, <1>4, RestsAreOK
<1>6. CASE Acquire(r)
  <2> DEFINE next == [reflector[r] EXCEPT !.phase = "counting"]
  <2>1. ReflectorOK(next) /\ ~Claims(next)
    BY <1>2 DEF ReflectorOK, Phases, Claims
  <2> QED BY <1>4, <1>5, <1>6, <2>1 DEF Acquire
<1>7. CASE Recount(r)
  <2> DEFINE next == [reflector[r] EXCEPT !.phase = "reading"]
  <2>1. ReflectorOK(next) /\ next.force = reflector[r].force
    BY <1>2 DEF ReflectorOK, Phases
  <2>2. CASE Reflects(r, next) /\ (reflector[r].force \/ Due)
    <3>1. Claims(next) => Cardinality(Fresh) >= Price
      BY <2>1, <2>2 DEF Claims, Due, Price
    <3>2. Holding(r)
      BY <1>7 DEF Recount, Holding
    <3> QED BY <1>4, <2>1, <2>2, <3>1, <3>2
  <2> QED BY <1>5, <1>7, <2>2 DEF Recount
<1>8. CASE ReadNotes(r)
  <2> DEFINE read == UNION {Newest(notes, scope, ReflectorNoteCap) : scope \in Scopes}
             next == [reflector[r] EXCEPT !.phase = "asking", !.standing = read]
  <2>1. reflector[r].phase = "reading" /\ Reflects(r, next)
    BY <1>8 DEF ReadNotes
  <2>2. ReflectorOK(next) /\ next.force = reflector[r].force
    <3> HIDE DEF read
    <3> QED BY <1>2 DEF ReflectorOK, Phases
  <2>3. Claims(next) => Claims(reflector[r])
    BY <2>1, <2>2 DEF Claims
  <2>4. Holding(r)
    BY <2>1 DEF Holding
  <2> HIDE DEF next
  <2> QED BY <1>4, <2>1, <2>2, <2>3, <2>4
<1>9. CASE Fail(r)
  BY <1>5, <1>9 DEF Fail
<1>10. ASSUME NEW force \in BOOLEAN, Ask(r, force) PROVE CountInv'
  <2> DEFINE next == [Unasked EXCEPT !.phase = "waiting", !.force = force]
  <2>1. ReflectorOK(next) /\ ~Claims(next) /\ next.phase = "waiting"
    BY WaitersAreOK
  <2> HIDE DEF next
  <2>2. Reflects(r, next)
    BY <1>10 DEF Ask, next
  <2> QED BY <1>4, <2>1, <2>2
<1> QED BY <1>6, <1>7, <1>8, <1>9, <1>10

LEMMA StepsKeepCountInv ==
  ASSUME CountInv, [Next]_vars
  PROVE  CountInv'
<1>1. CASE UNCHANGED vars
  BY <1>1, MovesKeepCountInv DEF vars
<1>2. CASE Curate \/ \E n \in notes : DeleteNote(n.id)
  BY <1>2, MovesKeepCountInv DEF Curate, DeleteNote, counts
<1>3. CASE Restart
  <2>1. /\ request' = [q \in Requests |-> NoRequest] /\ reflector' = [r \in Reflectors |-> Unasked]
        /\ UNCHANGED <<outcome, recorded, reflections>>
    BY <1>3 DEF Restart
  <2>2. Fresh' = Fresh
    BY <2>1 DEF Fresh
  <2>3. \A r \in Reflectors : ~Holding(r)'
    BY <2>1 DEF Holding, Unasked
  <2> QED BY <2>1, <2>2, <2>3, RestsAreOK DEF CountInv
<1>4. ASSUME NEW q \in Requests, WriteOutcome(q) PROVE CountInv'
  BY <1>4, WritesKeepCountInv
<1>5. ASSUME NEW r \in Reflectors, CommitLessons(r) PROVE CountInv'
  BY <1>5, CommitsKeepCountInv
<1> QED BY <1>1, <1>2, <1>3, <1>4, <1>5, RequestMoves, ReflectorMoves
        DEF Next, RequestStep, ReflectorStep

-----------------------------------------------------------------------------

LEMMA InitCountInv == Init => CountInv
<1> SUFFICES ASSUME Init PROVE CountInv
  OBVIOUS
<1>1. Fresh = {} /\ Cardinality(Fresh) = 0
  BY FS_EmptySet DEF Init, Fresh
<1>2. \A r \in Reflectors : ~Holding(r)
  BY DEF Init, Holding, Unasked
<1>3. outcome \in [Postings -> Outcomes]
  BY DEF Init, Outcomes
<1>4. recorded = 0 /\ reflections = 0 /\ reflections * Price + Cardinality(Fresh) <= recorded
  BY <1>1, ReflectionAssumption DEF Init, Price
<1> QED BY <1>2, <1>3, <1>4, RestsAreOK DEF Init, CountInv

(* However many requests and reflections run at a time, a reflection that  *)
(* nobody forced is paid for by outcomes that came since the last one      *)
(* (RecordOutcome, Reflect).                                               *)
THEOREM ReflectionsArePaid == Spec => []PaidByOutcomes
<1>1. Init => CountInv
  BY InitCountInv
<1>2. CountInv /\ [Next]_vars => CountInv'
  BY StepsKeepCountInv
<1>3. CountInv => PaidByOutcomes
  <2> SUFFICES ASSUME CountInv PROVE PaidByOutcomes
    OBVIOUS
  <2>1. /\ recorded \in Nat /\ reflections \in Nat /\ reflections * Price \in Nat
        /\ reflections * Price + Cardinality(Fresh) <= recorded
    BY ReflectionAssumption DEF CountInv, Price
  <2>2. reflections * Price <= recorded
    <3> HIDE DEF Price
    <3> QED BY <2>1, FreshIsFinite
  <2> QED BY <2>2 DEF PaidByOutcomes, Price
<1> QED BY <1>1, <1>2, <1>3, PTL DEF Spec

-----------------------------------------------------------------------------
(* The notes.                                                              *)

Read == UNION {reflector[r].standing : r \in Reflectors}

NotesOK(all, last) ==
  /\ all \subseteq Note
  /\ \A n \in all : n.id <= last /\ n.birth <= last
  /\ \A m, n \in all : m.id = n.id => m = n

(* A note that was read is the only one that will ever have its id.        *)
NotesInv ==
  /\ written \in Nat /\ failures \in Nat
  /\ NotesOK(notes \cup Read, written)
  /\ ScopesWithinCap

LEMMA Least ==
  ASSUME NEW T \in SUBSET Nat, T # {}
  PROVE  \E x \in T : \A y \in T : x <= y
<1> DEFINE R == OpToRel(<, Nat)
<1>1. IsWellFoundedOn(R, Nat)
  BY NatLessThanWellFounded
<1>2. \A x, y \in Nat : (<<x, y>> \in R) <=> x < y
  BY DEF OpToRel
<1> HIDE DEF R
<1>3. PICK x \in T : \A y \in T : ~ (<<y, x>> \in R)
  <2>1. T \subseteq Nat
    OBVIOUS
  <2> QED BY <1>1, <2>1, WFMin, Zenon
<1>4. \A y \in T : x \in Nat /\ y \in Nat /\ ~(y < x)
  BY <1>2, <1>3
<1>5. \A y \in T : x <= y
  BY <1>4
<1> QED BY <1>5

LEMMA OldestAndNewest ==
  ASSUME NEW last \in Nat, NEW all, NotesOK(all, last), all # {}
  PROVE  /\ \E n \in all : \A m \in all : n.id <= m.id
         /\ \E n \in all : \A m \in all : m.id <= n.id
<1>1. \A n \in all : n.id \in Nat /\ last - n.id \in Nat
  BY DEF NotesOK, Note
<1>2. \E n \in all : \A m \in all : n.id <= m.id
  <2> DEFINE T == {n.id : n \in all}
  <2>1. T \in SUBSET Nat /\ T # {}
    BY <1>1
  <2>2. PICK x \in T : \A y \in T : x <= y
    BY <2>1, Least
  <2> QED BY <2>2
<1>3. \E n \in all : \A m \in all : m.id <= n.id
  <2> DEFINE T == {last - n.id : n \in all}
  <2>1. T \in SUBSET Nat /\ T # {}
    BY <1>1
  <2>2. PICK x \in T : \A y \in T : x <= y
    BY <2>1, Least
  <2>3. PICK n \in all : x = last - n.id
    BY <2>2
  <2>4. \A m \in all : last - n.id <= last - m.id
    BY <2>2, <2>3
  <2> QED BY <1>1, <2>4
<1> QED BY <1>2, <1>3

LEMMA NotesAreFinite ==
  ASSUME NEW last \in Nat, NEW all, NotesOK(all, last)
  PROVE  IsFiniteSet(all)
<1> DEFINE ids == [n \in all |-> n.id]
<1>1. \A n \in all : n.id \in 1 .. last
  BY DEF NotesOK, Note
<1>2. ids \in [all -> 1 .. last]
  BY <1>1
<1>3. \A m, n \in all : ids[m] = ids[n] => m = n
  BY DEF NotesOK
<1>4. ids \in Injection(all, 1 .. last)
  BY <1>2, <1>3 DEF Injection, IsInjective
<1> QED BY <1>4, FS_Injection, FS_Interval

(* No more than cap of a scope are its newest: all but the oldest of them  *)
(* are newer than that one.                                                *)
LEMMA NewestWithinCap ==
  ASSUME NEW last \in Nat, NEW all, NotesOK(all, last), NEW scope \in Scopes, NEW cap \in Nat
  PROVE  Cardinality(Newest(all, scope, cap)) <= cap
<1> DEFINE newest == Newest(all, scope, cap)
           newer(n) == {m \in InScope(all, scope) : m.id > n.id}
<1>1. newest \subseteq all /\ NotesOK(newest, last) /\ IsFiniteSet(all)
  BY NotesAreFinite DEF Newest, InScope, NotesOK
<1>2. CASE newest = {}
  BY <1>2, FS_EmptySet
<1>3. CASE newest # {}
  <2>1. PICK n \in newest : \A m \in newest : n.id <= m.id
    BY <1>1, <1>3, OldestAndNewest
  <2>2. newer(n) \subseteq all /\ Cardinality(newer(n)) < cap
    BY DEF Newest, InScope
  <2>3. newest \ {n} \subseteq newer(n)
    <3> SUFFICES ASSUME NEW m \in newest, m # n PROVE m \in newer(n)
      OBVIOUS
    <3>1. m \in InScope(all, scope) /\ m \in all /\ n \in all
      BY <1>1 DEF Newest
    <3>2. m.id # n.id /\ m.id \in Nat /\ n.id \in Nat
      BY <3>1 DEF NotesOK, Note
    <3> QED BY <2>1, <3>1, <3>2
  <2> HIDE DEF newest, newer
  <2>4. IsFiniteSet(newer(n)) /\ IsFiniteSet(newest)
    BY <1>1, <2>2, FS_Subset
  <2>5. Cardinality(newest \ {n}) = Cardinality(newest) - 1
    BY <2>1, <2>4, FS_RemoveElement
  <2>6. Cardinality(newest \ {n}) <= Cardinality(newer(n))
    BY <2>3, <2>4, FS_Subset
  <2>7. Cardinality(newer(n)) \in Nat /\ Cardinality(newest) \in Nat
    BY <2>4, FS_CardinalityType
  <2>8. Cardinality(newest) <= cap
    BY <2>2, <2>5, <2>6, <2>7
  <2> QED BY <2>8 DEF newest
<1> QED BY <1>2, <1>3

(* What is not among the newest has cap of them that are newer: all that   *)
(* are newer than the newest one left out.                                 *)
LEMMA PushedOut ==
  ASSUME NEW last \in Nat, NEW all, NotesOK(all, last), NEW scope \in Scopes, NEW cap \in Nat,
         NEW n \in InScope(all, scope), n \notin Newest(all, scope, cap)
  PROVE  Cardinality({m \in Newest(all, scope, cap) : m.id > n.id}) >= cap
<1> DEFINE newest == Newest(all, scope, cap)
           newer(k) == {m \in InScope(all, scope) : m.id > k.id}
           out == InScope(all, scope) \ newest
           left == {m \in newest : m.id > n.id}
<1>1. n \in out /\ out \subseteq all /\ NotesOK(out, last) /\ IsFiniteSet(all)
      /\ newest \subseteq all
  BY NotesAreFinite DEF NotesOK, InScope, Newest
<1>2. PICK k \in out : \A m \in out : m.id <= k.id
  <2>1. out # {}
    BY <1>1
  <2> HIDE DEF out
  <2> QED BY <1>1, <2>1, OldestAndNewest
<1>3. newer(k) \subseteq all /\ ~(Cardinality(newer(k)) < cap)
  BY <1>2 DEF Newest, InScope
<1>4. newer(k) \subseteq left
  <2> SUFFICES ASSUME NEW m \in InScope(all, scope), m.id > k.id PROVE m \in left
    OBVIOUS
  <2>1. m \in all /\ k \in all /\ n \in all /\ n.id <= k.id
    BY <1>1, <1>2 DEF InScope
  <2>2. m.id \in Nat /\ k.id \in Nat /\ n.id \in Nat
    BY <2>1 DEF NotesOK, Note
  <2>3. m \notin out
    BY <1>2, <2>2
  <2> QED BY <2>1, <2>2, <2>3
<1>5. left \subseteq all
  BY <1>1
<1> HIDE DEF newest, newer, out, left
<1>6. IsFiniteSet(left) /\ Cardinality(newer(k)) <= Cardinality(left)
  BY <1>1, <1>4, <1>5, FS_Subset
<1>7. IsFiniteSet(newer(k)) /\ Cardinality(newer(k)) \in Nat /\ Cardinality(left) \in Nat
  BY <1>1, <1>3, <1>6, FS_Subset, FS_CardinalityType
<1>8. Cardinality(left) >= cap
  BY <1>3, <1>6, <1>7
<1> QED BY <1>8 DEF left, newest

LEMMA InsertedNotes ==
  ASSUME written \in Nat, NEW all, NEW read, NotesOK(all \cup read, written),
         NEW k \in Nat, NEW scopes \in [1 .. k -> Scopes]
  PROVE  /\ NotesOK(Inserted(all, scopes) \cup read, written + k)
         /\ Len(scopes) = k
         /\ \A n \in Inserted(all, scopes) : n \in all \/ n.scope \in Range(scopes)
<1> DEFINE added == {[id |-> NewId(all, written + i - 1), scope |-> scopes[i],
                      birth |-> written + i] : i \in DOMAIN scopes}
<1>1. Len(scopes) = k /\ DOMAIN scopes = 1 .. k
  OBVIOUS
<1>2. \A n \in added : \E i \in 1 .. k : n = [id |-> written + i, scope |-> scopes[i],
                                            birth |-> written + i]
  BY <1>1 DEF NewId
<1> HIDE DEF added
<1>3. \A n \in added : /\ n \in Note /\ n.id > written /\ n.id <= written + k
                       /\ n.birth <= written + k /\ n.scope \in Range(scopes)
  <2> SUFFICES ASSUME NEW n \in added
               PROVE  /\ n \in Note /\ n.id > written /\ n.id <= written + k
                      /\ n.birth <= written + k /\ n.scope \in Range(scopes)
    OBVIOUS
  <2>1. PICK i \in 1 .. k : n = [id |-> written + i, scope |-> scopes[i], birth |-> written + i]
    BY <1>2
  <2>2. n.id = written + i /\ n.scope = scopes[i] /\ n.birth = written + i
    BY <2>1
  <2>3. n \in Note
    BY <2>1 DEF Note
  <2> QED BY <1>1, <2>2, <2>3 DEF Range
<1>4. \A m, n \in added : m.id = n.id => m = n
  <2> SUFFICES ASSUME NEW m \in added, NEW n \in added, m.id = n.id PROVE m = n
    OBVIOUS
  <2>1. PICK i \in 1 .. k : m = [id |-> written + i, scope |-> scopes[i], birth |-> written + i]
    BY <1>2
  <2>2. PICK j \in 1 .. k : n = [id |-> written + j, scope |-> scopes[j], birth |-> written + j]
    BY <1>2
  <2>3. written + i = written + j
    BY <2>1, <2>2
  <2>4. i = j
    BY <2>3
  <2> QED BY <2>1, <2>2, <2>4
<1>5. Inserted(all, scopes) = all \cup added
  BY DEF Inserted, added
<1>6. ASSUME NEW m \in all \cup read, NEW n \in added PROVE m.id # n.id
  <2>1. m.id \in Nat /\ m.id <= written /\ n.id \in Nat
    BY <1>3 DEF NotesOK, Note
  <2> QED BY <1>3, <2>1
<1>7. \A n \in all \cup read : /\ n \in Note /\ n.id <= written + k /\ n.birth <= written + k
  <2> SUFFICES ASSUME NEW n \in all \cup read
               PROVE  n \in Note /\ n.id <= written + k /\ n.birth <= written + k
    OBVIOUS
  <2>1. n \in Note /\ n.id <= written /\ n.birth <= written
    BY DEF NotesOK
  <2>2. n.id \in Nat /\ n.birth \in Nat
    BY <2>1 DEF Note
  <2> QED BY <2>1, <2>2
<1>8. \A m, n \in (all \cup added) \cup read : m.id = n.id => m = n
  BY <1>4, <1>6 DEF NotesOK
<1>9. NotesOK((all \cup added) \cup read, written + k)
  BY <1>3, <1>7, <1>8 DEF NotesOK
<1> QED BY <1>1, <1>3, <1>5, <1>9

LEMMA PrunedNotes ==
  ASSUME NEW all, NEW scopes, NEW cap, NEW scope
  PROVE  /\ Pruned(all, scopes, cap) \subseteq all
         /\ InScope(Pruned(all, scopes, cap), scope) =
              IF scope \in scopes THEN Newest(all, scope, cap) ELSE InScope(all, scope)
BY DEF Pruned, InScope, Newest

LEMMA ReflectionsRead ==
  ASSUME CountInv, NEW r \in Reflectors, NEW state, Reflects(r, state),
         state.standing \subseteq reflector[r].standing \cup notes
  PROVE  Read' \subseteq notes \cup Read
<1>1. \A s \in Reflectors : reflector'[s] = IF s = r THEN state ELSE reflector[s]
  BY DEF CountInv, Reflects
<1>2. \A s \in Reflectors : reflector'[s].standing \subseteq notes \cup Read
  BY <1>1 DEF Read
<1> QED BY <1>2 DEF Read

(* A step that writes no note. *)
LEMMA NotesRest ==
  ASSUME NotesInv, notes' \subseteq notes, Read' \subseteq notes \cup Read,
         written' = written, failures' \in Nat
  PROVE  NotesInv'
<1>1. NotesOK(notes' \cup Read', written')
  BY DEF NotesInv, NotesOK
<1>2. IsFiniteSet(notes)
  <2>1. NotesOK(notes, written)
    BY DEF NotesInv, NotesOK
  <2> QED BY <2>1, NotesAreFinite DEF NotesInv
<1>3. ASSUME NEW scope \in Scopes PROVE Cardinality(InScope(notes', scope)) <= ReflectorNoteCap
  <2>1. InScope(notes', scope) \subseteq InScope(notes, scope) /\ InScope(notes, scope) \subseteq notes
    BY DEF InScope
  <2>2. IsFiniteSet(InScope(notes, scope)) /\ IsFiniteSet(InScope(notes', scope))
        /\ Cardinality(InScope(notes', scope)) <= Cardinality(InScope(notes, scope))
    BY <1>2, <2>1, FS_Subset
  <2>3. Cardinality(InScope(notes, scope)) \in Nat /\ Cardinality(InScope(notes', scope)) \in Nat
    BY <2>2, FS_CardinalityType
  <2>4. Cardinality(InScope(notes, scope)) <= ReflectorNoteCap
    BY DEF NotesInv, ScopesWithinCap
  <2> QED BY <2>2, <2>3, <2>4, ReflectionAssumption
<1> QED BY <1>1, <1>3 DEF NotesInv, ScopesWithinCap

(* Some notes go, some are written, and the scopes of those are pruned. *)
LEMMA WritingNotes ==
  ASSUME NotesInv, NEW all \in SUBSET notes, NEW k \in Nat, NEW scopes \in [1 .. k -> Scopes],
         NEW cap \in Nat, cap <= ReflectorNoteCap,
         notes' = Pruned(Inserted(all, scopes), Range(scopes), cap),
         written' = written + k, Read' \subseteq Read, failures' \in Nat
  PROVE  NotesInv'
<1> DEFINE table == Inserted(all, scopes)
<1>1. NotesOK(all \cup Read, written) /\ written \in Nat /\ written' \in Nat
  BY DEF NotesInv, NotesOK
<1>2. /\ NotesOK(table \cup Read, written')
      /\ \A n \in table : n \in all \/ n.scope \in Range(scopes)
  BY <1>1, InsertedNotes
<1> HIDE DEF table
<1>3. notes' = Pruned(table, Range(scopes), cap) /\ notes' \subseteq table
  BY PrunedNotes DEF table
<1>4. NotesOK(table, written') /\ NotesOK(notes' \cup Read', written')
  BY <1>2, <1>3 DEF NotesOK
<1>5. ASSUME NEW scope \in Scopes PROVE Cardinality(InScope(notes', scope)) <= ReflectorNoteCap
  <2>1. CASE scope \in Range(scopes)
    <3>1. Cardinality(Newest(table, scope, cap)) <= cap
      BY <1>1, <1>4, NewestWithinCap
    <3>2. IsFiniteSet(Newest(table, scope, cap))
      <4>1. Newest(table, scope, cap) \subseteq table /\ IsFiniteSet(table)
        BY <1>1, <1>4, NotesAreFinite DEF Newest, InScope
      <4> QED BY <4>1, FS_Subset
    <3>3. Cardinality(Newest(table, scope, cap)) \in Nat
      BY <3>2, FS_CardinalityType
    <3>4. InScope(notes', scope) = Newest(table, scope, cap)
      BY <1>3, <2>1, PrunedNotes
    <3> QED BY <3>1, <3>3, <3>4, ReflectionAssumption
  <2>2. CASE scope \notin Range(scopes)
    <3>1. InScope(notes', scope) \subseteq InScope(notes, scope)
      <4>1. InScope(notes', scope) = InScope(table, scope)
        BY <1>3, <2>2, PrunedNotes
      <4> QED BY <1>2, <2>2, <4>1 DEF InScope
    <3>2. IsFiniteSet(InScope(notes, scope))
      <4>1. NotesOK(notes, written) /\ InScope(notes, scope) \subseteq notes
        BY DEF NotesInv, NotesOK, InScope
      <4>2. IsFiniteSet(notes)
        BY <1>1, <4>1, NotesAreFinite
      <4> QED BY <4>1, <4>2, FS_Subset
    <3>3. /\ Cardinality(InScope(notes', scope)) <= Cardinality(InScope(notes, scope))
          /\ IsFiniteSet(InScope(notes', scope))
      BY <3>1, <3>2, FS_Subset
    <3>4. Cardinality(InScope(notes', scope)) \in Nat /\ Cardinality(InScope(notes, scope)) \in Nat
      BY <3>2, <3>3, FS_CardinalityType
    <3>5. Cardinality(InScope(notes, scope)) <= ReflectorNoteCap
      BY DEF NotesInv, ScopesWithinCap
    <3> QED BY <3>3, <3>4, <3>5, ReflectionAssumption
  <2> QED BY <2>1, <2>2
<1> QED BY <1>1, <1>4, <1>5 DEF NotesInv, ScopesWithinCap

(* A reflection retires what it read, and prunes what its lessons push out.*)
LEMMA CommitsKeepNotes ==
  ASSUME CountInv, NotesInv, NEW r \in Reflectors, CommitLessons(r)
  PROVE  /\ NotesInv'
         /\ \A n \in notes \ notes' :
              \/ n \in reflector[r].standing
              \/ Cardinality({m \in InScope(notes', n.scope) : m.id > n.id}) >= ReflectorNoteCap
<1>1. PICK lessons \in Lessons, retire \in SUBSET {n.id : n \in reflector[r].standing} :
        /\ notes' = Stored({n \in notes : n.id \notin retire}, lessons)
        /\ written' = written + Len(lessons)
  BY DEF CommitLessons
<1>2. PICK k \in Nat : lessons \in [1 .. k -> Scopes]
  BY ReflectionAssumption DEF Lessons
<1> DEFINE all == {n \in notes : n.id \notin retire}
           table == Inserted(all, lessons)
<1>3. all \in SUBSET notes /\ Len(lessons) = k
  BY <1>2
<1>4. notes' = Pruned(table, Range(lessons), ReflectorNoteCap)
  BY <1>1 DEF Stored
<1>5. Read' \subseteq Read /\ failures' \in Nat
  <2>1. Reflects(r, Unasked) /\ failures' = failures /\ Unasked.standing = {}
    BY DEF CommitLessons, Unasked
  <2>2. \A s \in Reflectors : reflector'[s].standing \subseteq reflector[s].standing
    BY <2>1 DEF CountInv, Reflects
  <2> QED BY <2>1, <2>2 DEF Read, NotesInv
<1>6. NotesOK(table, written') /\ written' \in Nat /\ all \subseteq table
  <2>1. NotesOK(all \cup {}, written) /\ written \in Nat
    BY DEF NotesInv, NotesOK
  <2>2. NotesOK(table \cup {}, written + k)
    BY <1>2, <2>1, InsertedNotes
  <2> QED BY <1>1, <1>3, <2>1, <2>2 DEF Inserted
<1>7. NotesInv'
  <2>1. ReflectorNoteCap \in Nat /\ ReflectorNoteCap <= ReflectorNoteCap
    BY ReflectionAssumption
  <2>2. written' = written + k
    BY <1>1, <1>3
  <2> HIDE DEF all
  <2> QED BY <1>2, <1>3, <1>4, <1>5, <2>1, <2>2, WritingNotes
<1>8. ASSUME NEW n \in notes \ notes', n \notin reflector[r].standing
      PROVE  Cardinality({m \in InScope(notes', n.scope) : m.id > n.id}) >= ReflectorNoteCap
  <2>1. n.id \notin retire
    <3> SUFFICES ASSUME NEW m \in reflector[r].standing, m.id = n.id PROVE FALSE
      OBVIOUS
    <3>1. m \in Read
      BY DEF Read
    <3>2. m = n
      BY <1>8, <3>1 DEF NotesInv, NotesOK
    <3> QED BY <1>8, <3>2
  <2>2. n \in table
    BY <1>6, <1>8, <2>1
  <2> HIDE DEF all, table
  <2>3. n \in InScope(table, n.scope) /\ n.scope \in Scopes
    BY <1>6, <2>2 DEF InScope, NotesOK, Note
  <2>4. n.scope \in Range(lessons) /\ n \notin Newest(table, n.scope, ReflectorNoteCap)
    BY <1>4, <1>8, <2>2 DEF Pruned
  <2>5. InScope(notes', n.scope) = Newest(table, n.scope, ReflectorNoteCap)
    BY <1>4, <2>4, PrunedNotes
  <2>6. Cardinality({m \in Newest(table, n.scope, ReflectorNoteCap) : m.id > n.id}) >= ReflectorNoteCap
    BY <1>6, <2>3, <2>4, PushedOut, ReflectionAssumption
  <2> QED BY <2>5, <2>6
<1> QED BY <1>7, <1>8

LEMMA CuratingKeepsNotes ==
  ASSUME CountInv, NotesInv, Curate
  PROVE  NotesInv'
<1>1. PICK drop \in SUBSET {n.id : n \in notes}, added \in {<< >>, << "planning" >>} :
        /\ notes' = Pruned(Inserted({n \in notes : n.id \notin drop}, added), Range(added), NoteCap)
        /\ written' = written + Len(added)
  BY DEF Curate
<1> DEFINE all == {n \in notes : n.id \notin drop}
<1>2. PICK k \in Nat : added \in [1 .. k -> Scopes] /\ Len(added) = k
  <2>1. << >> \in [1 .. 0 -> Scopes] /\ Len(<< >>) = 0
    OBVIOUS
  <2>2. << "planning" >> \in [1 .. 1 -> Scopes] /\ Len(<< "planning" >>) = 1
    BY DEF Scopes
  <2> QED BY <1>1, <2>1, <2>2
<1>3. UNCHANGED <<reflector, failures>> /\ all \in SUBSET notes
  BY DEF Curate
<1>4. Read' \subseteq Read /\ failures' \in Nat
  BY <1>3 DEF Read, NotesInv
<1> HIDE DEF all
<1> QED BY <1>1, <1>2, <1>3, <1>4, WritingNotes, ReflectionAssumption DEF all

LEMMA StepsKeepNotes ==
  ASSUME CountInv, NotesInv, [Next]_vars
  PROVE  /\ NotesInv'
         /\ \A r \in Reflectors : CommitLessons(r) =>
              \A n \in notes \ notes' :
                \/ n \in reflector[r].standing
                \/ Cardinality({m \in InScope(notes', n.scope) : m.id > n.id}) >= ReflectorNoteCap
<1>1. ASSUME UNCHANGED <<notes, written>>, failures' \in Nat,
             \/ UNCHANGED reflector
             \/ \E r \in Reflectors : \E state :
                  Reflects(r, state) /\ state.standing \subseteq reflector[r].standing \cup notes
      PROVE  NotesInv'
  <2>1. Read' \subseteq notes \cup Read
    BY <1>1, ReflectionsRead DEF Read
  <2> QED BY <1>1, <2>1, NotesRest
<1>2. Unasked.standing = {} /\ [Unasked EXCEPT !.phase = "waiting"].standing = {}
      /\ \A force \in BOOLEAN :
           [Unasked EXCEPT !.phase = "waiting", !.force = force].standing = {}
  BY DEF Unasked
<1>3. failures \in Nat /\ failures + 1 \in Nat
  BY DEF NotesInv
<1>4. ASSUME UNCHANGED vars PROVE NotesInv'
  BY <1>1, <1>3, <1>4 DEF vars
<1>5. ASSUME NEW q \in Requests, RequestStep(q) \/ FailRequest(q) \/ \E p \in Postings : Record(q, p)
      PROVE  NotesInv'
  <2>1. UNCHANGED <<notes, written>> /\ failures' \in {failures, failures + 1}
    BY <1>5 DEF RequestStep, WriteOutcome, CheckDue, FailRequest, Record, counts
  <2>2. UNCHANGED reflector
        \/ \E r \in Reflectors : Reflects(r, [Unasked EXCEPT !.phase = "waiting"])
    BY <1>5 DEF RequestStep, WriteOutcome, CheckDue, FailRequest, Record, Spawn
  <2> QED BY <1>1, <1>2, <1>3, <2>1, <2>2
<1>6. ASSUME NEW r \in Reflectors,
             \/ Acquire(r) \/ Recount(r) \/ ReadNotes(r) \/ Fail(r)
             \/ \E force \in BOOLEAN : Ask(r, force)
      PROVE  NotesInv'
  <2> DEFINE reads == UNION {Newest(notes, scope, ReflectorNoteCap) : scope \in Scopes}
             read(state) == state.standing \subseteq reflector[r].standing \cup notes
  <2>1. UNCHANGED <<notes, written>> /\ failures' \in {failures, failures + 1}
    BY <1>6 DEF Acquire, Recount, ReadNotes, Fail, Ask, counts
  <2>2. reads \subseteq notes
    BY DEF Newest, InScope
  <2>3. ReflectorOK(reflector[r])
    BY DEF CountInv
  <2>4. \A phase : [reflector[r] EXCEPT !.phase = phase].standing = reflector[r].standing
    BY <2>3 DEF ReflectorOK
  <2>5. [reflector[r] EXCEPT !.phase = "asking", !.standing = reads].standing = reads
    <3> HIDE DEF reads
    <3> QED BY <2>3 DEF ReflectorOK
  <2>6. \E state : Reflects(r, state) /\ read(state)
    <3>1. CASE ReadNotes(r)
      <4>1. Reflects(r, [reflector[r] EXCEPT !.phase = "asking", !.standing = reads])
        BY <3>1 DEF ReadNotes
      <4> HIDE DEF reads
      <4> QED BY <2>2, <2>5, <4>1
    <3>2. CASE Acquire(r) \/ Recount(r) \/ Fail(r)
      <4>1. \/ Reflects(r, Unasked) \/ Reflects(r, [reflector[r] EXCEPT !.phase = "counting"])
            \/ Reflects(r, [reflector[r] EXCEPT !.phase = "reading"])
        BY <3>2 DEF Acquire, Recount, Fail
      <4> QED BY <1>2, <2>4, <4>1
    <3>3. ASSUME NEW force \in BOOLEAN, Ask(r, force) PROVE \E state : Reflects(r, state) /\ read(state)
      BY <1>2, <3>3 DEF Ask
    <3> QED BY <1>6, <3>1, <3>2, <3>3
  <2>7. failures' \in Nat
    BY <1>3, <2>1
  <2>8. PICK state : Reflects(r, state) /\ read(state)
    BY <2>6
  <2> HIDE DEF reads
  <2> QED BY <1>1, <2>1, <2>7, <2>8
<1>7. ASSUME Curate PROVE NotesInv'
  BY <1>7, CuratingKeepsNotes
<1>8. ASSUME NEW n \in notes, DeleteNote(n.id) PROVE NotesInv'
  <2>1. notes' \subseteq notes /\ UNCHANGED <<reflector, written, failures>>
    BY <1>8 DEF DeleteNote, counts
  <2> QED BY <1>3, <2>1, NotesRest DEF Read
<1>9. ASSUME Restart PROVE NotesInv'
  <2>1. /\ failures' = failures + 1 /\ UNCHANGED <<notes, written>>
        /\ reflector' = [r \in Reflectors |-> Unasked]
    BY <1>9 DEF Restart
  <2>2. Read' = {}
    BY <1>2, <2>1 DEF Read
  <2> QED BY <1>3, <2>1, <2>2, NotesRest
<1>10. NotesInv'
  BY <1>4, <1>5, <1>6, <1>7, <1>8, <1>9, CommitsKeepNotes DEF Next, ReflectorStep
<1> QED BY <1>10, CommitsKeepNotes

-----------------------------------------------------------------------------

LEMMA ReflectionInv == Spec => [](CountInv /\ NotesInv)
<1>1. Init => CountInv
  BY InitCountInv
<1>2. Init => NotesInv
  <2> SUFFICES ASSUME Init PROVE NotesInv
    OBVIOUS
  <2>1. notes \cup Read = {} /\ written = 0 /\ failures = 0
    BY DEF Init, Read, Unasked
  <2>2. \A scope \in Scopes : Cardinality(InScope(notes, scope)) = 0
    BY <2>1, FS_EmptySet DEF InScope
  <2> QED BY <2>1, <2>2, ReflectionAssumption DEF NotesInv, NotesOK, ScopesWithinCap
<1>3. CountInv /\ NotesInv /\ [Next]_vars => (CountInv /\ NotesInv)'
  BY StepsKeepCountInv, StepsKeepNotes
<1> QED BY <1>1, <1>2, <1>3, PTL DEF Spec

(* Every piece of state has its type, and one reflection at a time holds   *)
(* the mutex, for any number of requests and reflections (Reflect).        *)
THEOREM ReflectionTypeCorrect == Spec => []TypeOK
<1>1. CountInv /\ NotesInv => TypeOK
  <2> SUFFICES ASSUME CountInv, NotesInv PROVE TypeOK
    OBVIOUS
  <2>1. request \in [Requests -> [phase : {"idle", "writing", "checking"},
                                  posting : Postings \cup {NoPosting}, outcome : Outcomes]]
        /\ \A q \in Requests : request[q].phase # "idle" => request[q].posting \in Postings
    BY DEF CountInv, RequestOK
  <2>2. reflector \in [Reflectors -> [phase : Phases, force : BOOLEAN, standing : SUBSET Note]]
    <3>1. ASSUME NEW r \in Reflectors
          PROVE  reflector[r] \in [phase : Phases, force : BOOLEAN, standing : SUBSET Note]
      <4>1. reflector[r].standing \in SUBSET Note
        BY DEF NotesInv, NotesOK, Read
      <4>2. reflector[r] \in [phase : Phases, force : BOOLEAN, standing : {reflector[r].standing}]
        BY DEF CountInv, ReflectorOK
      <4> QED BY <4>1, <4>2
    <3> QED BY <3>1 DEF CountInv
  <2> QED BY <2>1, <2>2 DEF CountInv, NotesInv, NotesOK, TypeOK
<1> QED BY <1>1, ReflectionInv, PTL

(* No scope ever outgrows what a reflection reads of it, whoever writes,   *)
(* prunes and deletes in between (commitLessons, applyNotes).              *)
THEOREM ScopesStayWithinCap == Spec => []ScopesWithinCap
<1>1. NotesInv => ScopesWithinCap
  BY DEF NotesInv
<1> QED BY <1>1, ReflectionInv, PTL

(* A reflection removes only what it had read, or what the cap pushes out: *)
(* no note that was written meanwhile under the id of one that is gone     *)
(* (commitLessons).                                                        *)
THEOREM OnlyWhatWasReadIsRetired == Spec => RetiresWhatItRead
<1>1. CountInv /\ NotesInv /\ [Next]_vars =>
        [\A r \in Reflectors : CommitLessons(r) =>
           \A n \in notes \ notes' :
             \/ n \in reflector[r].standing
             \/ Cardinality({m \in InScope(notes', n.scope) : m.id > n.id}) >= ReflectorNoteCap]_vars
  BY StepsKeepNotes
<1> QED BY <1>1, ReflectionInv, PTL DEF Spec, RetiresWhatItRead

=============================================================================
