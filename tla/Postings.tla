------------------------------ MODULE Postings ------------------------------
(***************************************************************************)
(* The jobs table of the API and what fills it: the cards a harvest        *)
(* brings, the postings the person opens, and the moves between the lists  *)
(* (routes/postings/service.go, screening/store.go Move).                  *)
(*                                                                         *)
(* A harvest or an open request of several cards is one transaction that   *)
(* takes them one after another, so a request here carries one card.       *)
(* Every update stamps updated_at, which only the wait for a body reads.   *)
(***************************************************************************)
EXTENDS Naturals, FiniteSets

CONSTANTS
  Ids,      \* LinkedIn's ids of postings
  RoleOf,   \* the dupe_key of each: its company and title
  Codes,    \* the resumes the folder has ever held
  MaxNoting \* bound: requests to record an outcome in progress

NoCode == "none"
NoKey == {}

ASSUME PostingsAssumption ==
  /\ IsFiniteSet(Ids) /\ DOMAIN RoleOf = Ids
  /\ NoCode \notin Codes /\ Codes # {} /\ IsFiniteSet(Codes)
  /\ MaxNoting \in Nat

VARIABLES
  jobs,    \* the jobs table, by id
  filed,   \* the place of each posting on file in the order of created_at, else 0
  opening, \* cards a request to open has found unhandled and not yet stored
  noting   \* postings whose outcome is being recorded, with the status to write

postings == <<jobs, filed, opening, noting>>

Statuses == {"new", "reading", "inbox", "manual", "queue", "applied", "opened",
             "skipped", "duplicate"}
Stages == {"none", "triage", "deep", "hand"}

Rows ==
  [ status : Statuses \cup {"absent"},
    stage  : Stages,
    code   : Codes \cup {NoCode},
    key    : SUBSET Codes,   \* screen_key: the folder the verdict was given for
    body   : BOOLEAN,        \* description_state is no longer "pending"
    waited : BOOLEAN,        \* the description window has passed since updated_at
    dupe   : BOOLEAN ]       \* dupe_of is set

Absent ==
  [ status |-> "absent", stage |-> "none", code |-> NoCode, key |-> NoKey, body |-> FALSE,
    waited |-> FALSE, dupe |-> FALSE ]

PostingsInit ==
  /\ jobs = [id \in Ids |-> Absent]
  /\ filed = [id \in Ids |-> 0]
  /\ opening = {}
  /\ noting = {}

OnFile(id) == jobs[id].status # "absent"
With(statuses) == {id \in Ids : jobs[id].status \in statuses}

-----------------------------------------------------------------------------
(* Collapses as it would be if only unread postings were looked at. *)
CollapsesOntoNew(id) ==
  \E other \in With({"new"}) : RoleOf[other] = RoleOf[id] /\ other # id

(* canonicalFor: the oldest posting of the role that is no duplicate is    *)
(* another one.                                                            *)
Collapses(id) ==
  LET Same == {other \in Ids :
                 /\ OnFile(other) /\ RoleOf[other] = RoleOf[id]
                 /\ jobs[other].status # "duplicate"}
  IN  \E other \in Same : other # id /\ \A third \in Same : filed[other] <= filed[third]

(* INSERT OR IGNORE INTO jobs. *)
Insert(id, row) ==
  /\ jobs' = [jobs EXCEPT ![id] = row]
  /\ filed' = [filed EXCEPT ![id] = 1 + Cardinality({other \in Ids : OnFile(other)})]

DuplicateOf(id) == [Absent EXCEPT !.status = "duplicate", !.dupe = TRUE]

(* Ingest of a card.  One that is on file, handled or not, changes no row. *)
Ingest(id) ==
  /\ ~OnFile(id)
  /\ \E body \in BOOLEAN :
       Insert(id, [(IF Collapses(id) THEN DuplicateOf(id) ELSE [Absent EXCEPT !.status = "new"])
                     EXCEPT !.body = body])
  /\ UNCHANGED <<opening, noting>>

(* Open leaves the handled cards out before its transaction. *)
OpenRead(id) ==
  /\ jobs[id].status \in {"absent", "new"} /\ id \notin opening
  /\ opening' = opening \cup {id}
  /\ UNCHANGED <<jobs, filed, noting>>

ByHand(row, code) ==
  [row EXCEPT !.status = "opened", !.stage = "hand", !.code = code, !.waited = FALSE]

(* OpenWrite as it would be if MarkOpened did not ask for status = 'new'.  *)
OpenOver(id) ==
  /\ id \in opening
  /\ \/ /\ Collapses(id)
        /\ IF OnFile(id) THEN UNCHANGED <<jobs, filed>> ELSE Insert(id, DuplicateOf(id))
     \/ /\ ~Collapses(id)
        /\ \E code \in Codes \cup {NoCode} :
             IF OnFile(id)
             THEN jobs' = [jobs EXCEPT ![id] = ByHand(jobs[id], code)] /\ UNCHANGED filed
             ELSE Insert(id, ByHand(Absent, code))
  /\ opening' = opening \ {id}
  /\ UNCHANGED noting

(* The transaction of Open: InsertJob, then MarkOpened, which takes only a *)
(* posting that is still new.                                              *)
OpenWrite(id) ==
  /\ id \in opening
  /\ \/ /\ Collapses(id)
        /\ IF OnFile(id) THEN UNCHANGED <<jobs, filed>> ELSE Insert(id, DuplicateOf(id))
     \/ /\ ~Collapses(id)
        /\ \E code \in Codes \cup {NoCode} :
             \/ ~OnFile(id) /\ Insert(id, ByHand(Absent, code))
             \/ /\ jobs[id].status = "new"
                /\ jobs' = [jobs EXCEPT ![id] = ByHand(jobs[id], code)]
                /\ UNCHANGED filed
             \/ jobs[id].status \notin {"absent", "new"} /\ UNCHANGED <<jobs, filed>>
  /\ opening' = opening \ {id}
  /\ UNCHANGED noting

(* Move: the person's lists, or the executor that asked LinkedIn. *)
Move(id) ==
  /\ OnFile(id)
  /\ \E status \in {"queue", "applied", "skipped"} :
       jobs' = [jobs EXCEPT ![id] = [@ EXCEPT !.status = status, !.waited = FALSE]]
  /\ UNCHANGED <<filed, opening, noting>>

(* RecordOutcome reads the posting first.  The desk offers to record or to *)
(* clear an outcome on what is applied or was opened by hand.  Recording   *)
(* makes it applied, clearing keeps the status that was read.              *)
OutcomeRead(id) ==
  /\ Cardinality(noting) < MaxNoting /\ OnFile(id)
  /\ jobs[id].status = "applied" \/ jobs[id].stage = "hand"
  /\ \E status \in {"applied", jobs[id].status} : noting' = noting \cup {<<id, status>>}
  /\ UNCHANGED <<jobs, filed, opening>>

OutcomeWrite(id) ==
  /\ \E status \in Statuses :
       /\ <<id, status>> \in noting
       /\ noting' = noting \ {<<id, status>>}
       /\ jobs' = IF OnFile(id)
                  THEN [jobs EXCEPT ![id] = [@ EXCEPT !.status = status, !.waited = FALSE]]
                  ELSE jobs
  /\ UNCHANGED <<filed, opening>>

(* PutDescription: a body, or the word that there is none. *)
Describe(id) ==
  /\ OnFile(id) /\ ~jobs[id].body
  /\ jobs' = [jobs EXCEPT ![id] = [@ EXCEPT !.body = TRUE, !.waited = FALSE]]
  /\ UNCHANGED <<filed, opening, noting>>

(* config.DescriptionWindow passes without an update of the posting. *)
Waits(id) ==
  /\ jobs[id].status = "reading" /\ ~jobs[id].body /\ ~jobs[id].waited
  /\ jobs' = [jobs EXCEPT ![id].waited = TRUE]
  /\ UNCHANGED <<filed, opening, noting>>

PostingsNext ==
  \E id \in Ids :
    \/ Ingest(id) \/ OpenRead(id) \/ OpenWrite(id) \/ Move(id)
    \/ OutcomeRead(id) \/ OutcomeWrite(id) \/ Describe(id) \/ Waits(id)

=============================================================================
