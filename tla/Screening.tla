------------------------------ MODULE Screening ------------------------------
(***************************************************************************)
(* The screener of the API (routes/screening): passes that read what is    *)
(* unjudged, ask the model about it batch by batch, and write verdicts,    *)
(* while harvests arrive, the person opens and moves postings, bodies come *)
(* in, the resume folder changes and rounds open and close.                *)
(*                                                                         *)
(* A pass holds no lock.  What it read at its start, the candidates and    *)
(* the folder, it uses minutes later; each write is one statement.  What   *)
(* the rules and the model decide is left open: a verdict is any verdict.  *)
(***************************************************************************)
EXTENDS Postings

CONSTANTS
  Passes,       \* screening requests the API may be serving at the same time
  Budget,       \* settings.budget.maxScreenPerCycle
  TriageBatch,  \* postings in one triage call
  DeepBatch,    \* postings in one deep call
  Ceiling,      \* settings.budget.maxModelCallsPerCycle, where it is one
  MaxRestarts   \* bound: restarts of the API

ASSUME ScreeningAssumption ==
  /\ IsFiniteSet(Passes)
  /\ Budget \in Nat \ {0} /\ TriageBatch \in Nat \ {0} /\ DeepBatch \in Nat \ {0}
  /\ Ceiling \in Nat \ {0} /\ MaxRestarts \in Nat

VARIABLES
  folder,    \* the resume codes on disk, which also stand for the fingerprint
  calls,     \* the model calls of the open round, 0 is no open round
  pass,      \* what each pass holds in memory
  resetting, \* the fingerprint a rescreen request has read, or NoKey
  restarts   \* restarts so far

screener == <<folder, calls, pass, resetting, restarts>>
vars == <<postings, screener>>

Phases ==
  { "idle", "invalidate", "prune", "expire", "triage.read", "gate", "triage", "triage.asked",
    "triage.commit", "deep.read", "deep", "deep.asked", "deep.commit", "review", "correct" }

PassRecords ==
  [ phase   : Phases,
    codes   : SUBSET Codes,  \* the desk: the folder when the pass began
    todo    : SUBSET Ids,    \* candidates read and not yet batched
    slice   : SUBSET Ids,    \* gated postings, or the batch at hand
    judged  : SUBSET Ids,    \* postings of the batch with a first verdict
    stopped : BOOLEAN ]      \* result.Stopped

Resting ==
  [ phase |-> "idle", codes |-> {}, todo |-> {}, slice |-> {}, judged |-> {}, stopped |-> FALSE ]

Init ==
  /\ PostingsInit
  /\ folder = Codes
  /\ calls = 0
  /\ pass = [p \in Passes |-> Resting]
  /\ resetting = NoKey
  /\ restarts = 0

-----------------------------------------------------------------------------
(* Statements on the jobs table.                                           *)

(* SetVerdict as it would be with its first two columns swapped. *)
SetVerdictSwapped(id, status, stage, code, key) ==
  IF OnFile(id)
  THEN [jobs EXCEPT ![id] = [@ EXCEPT !.status = stage, !.stage = status, !.code = code,
                                      !.key = key, !.waited = FALSE]]
  ELSE jobs

(* SetVerdict: it names the id and not the status. *)
SetVerdict(id, status, stage, code, key) ==
  IF OnFile(id)
  THEN [jobs EXCEPT ![id] = [@ EXCEPT !.status = status, !.stage = stage, !.code = code,
                                      !.key = key, !.waited = FALSE]]
  ELSE jobs

(* SetTriage: only a posting that is still new is kept for reading. *)
SetTriage(id, key) ==
  IF jobs[id].status = "new"
  THEN [jobs EXCEPT ![id] = [@ EXCEPT !.status = "reading", !.stage = "triage", !.key = key,
                                      !.waited = FALSE]]
  ELSE jobs

(* Unjudge as it would be if it left the status. *)
UnjudgeInPlace(ids) ==
  [id \in Ids |->
     IF id \in ids
     THEN [jobs[id] EXCEPT !.stage = "none", !.code = NoCode, !.key = NoKey, !.waited = FALSE]
     ELSE jobs[id]]

(* ResetStale and ClearVerdictForResumeCode: back to new, without verdict. *)
Unjudge(ids) ==
  [id \in Ids |->
     IF id \in ids
     THEN [jobs[id] EXCEPT !.status = "new", !.stage = "none", !.code = NoCode, !.key = NoKey,
                           !.waited = FALSE]
     ELSE jobs[id]]

-----------------------------------------------------------------------------
(* The steps of a pass.                                                    *)

In(p, phase) == pass[p].phase = phase
Holds(p, held) == pass' = [pass EXCEPT ![p] = held]
Phase(p, phase) == Holds(p, [pass[p] EXCEPT !.phase = phase])
Ends(p) == Holds(p, Resting)

(* Rows of a LIMIT query, whatever their order. *)
Taken(ids, limit) ==
  {some \in SUBSET ids :
     Cardinality(some) = IF Cardinality(ids) < limit THEN Cardinality(ids) ELSE limit}

(* roundCapReached. *)
CeilingReached == calls >= Ceiling

(* ChargeRound: the call goes to the round that is open now, if any.  Its  *)
(* two statements are told apart in Planner.                               *)
Charge == calls' = IF calls = 0 THEN 0 ELSE calls + 1

(* Screen reads the desk; a paused or unindexed one is turned away before  *)
(* anything is written.                                                    *)
Begin(p) ==
  /\ In(p, "idle")
  /\ Holds(p, [pass[p] EXCEPT !.phase = "invalidate", !.codes = folder])
  /\ UNCHANGED <<postings, folder, calls, resetting, restarts>>

(* The lists whose postings name a resume. *)
Live == {"inbox", "manual", "queue"}

(* Invalidate as it would be if it forgot what the person has queued. *)
InvalidateUnqueued(p) ==
  /\ In(p, "invalidate")
  /\ jobs' = Unjudge({id \in With(Live \ {"queue"}) : jobs[id].code \notin pass[p].codes \cup {NoCode}})
  /\ Phase(p, "prune")
  /\ UNCHANGED <<filed, opening, noting, folder, calls, resetting, restarts>>

(* invalidateMissingResumes, with a code the folder no longer holds. *)
Invalidate(p) ==
  /\ In(p, "invalidate")
  /\ jobs' = Unjudge({id \in With(Live) : jobs[id].code \notin pass[p].codes \cup {NoCode}})
  /\ Phase(p, "prune")
  /\ UNCHANGED <<filed, opening, noting, folder, calls, resetting, restarts>>

(* prune deletes what has been past the retention window for days, so      *)
(* nothing a pass of minutes is holding.                                   *)
Prune(p) ==
  /\ In(p, "prune")
  /\ \E old \in SUBSET (With({"skipped", "duplicate"})
                         \ UNION {pass[q].todo \cup pass[q].slice : q \in Passes}) :
       /\ jobs' = [id \in Ids |-> IF id \in old THEN Absent ELSE jobs[id]]
       /\ filed' = [id \in Ids |->
                      IF id \in old THEN 0
                      ELSE Cardinality({other \in Ids \ old : filed[other] \in 1 .. filed[id]})]
  /\ Phase(p, "expire")
  /\ UNCHANGED <<opening, noting, folder, calls, resetting, restarts>>

(* Expire as it would be if it only looked. *)
ExpireNothing(p) ==
  /\ In(p, "expire")
  /\ Phase(p, "triage.read")
  /\ UNCHANGED <<postings, folder, calls, resetting, restarts>>

(* expireDescriptions: nobody sent the body in time. *)
Expire(p) ==
  /\ In(p, "expire")
  /\ jobs' = [id \in Ids |->
                IF jobs[id].waited THEN [jobs[id] EXCEPT !.body = TRUE, !.waited = FALSE]
                ELSE jobs[id]]
  /\ Phase(p, "triage.read")
  /\ UNCHANGED <<filed, opening, noting, folder, calls, resetting, restarts>>

(* engagedCompanies and untriaged; hardGate picks what is not batched. *)
ReadUntriaged(p) ==
  /\ In(p, "triage.read")
  /\ \E pending \in Taken(With({"new"}), Budget) : \E gated \in SUBSET pending :
       Holds(p, [pass[p] EXCEPT !.phase = "gate", !.slice = gated, !.todo = pending \ gated])
  /\ UNCHANGED <<postings, folder, calls, resetting, restarts>>

(* gate commits each gated posting, and the rest goes to the triage. *)
Gate(p) ==
  /\ In(p, "gate")
  /\ \/ \E id \in pass[p].slice :
          /\ jobs' = SetVerdict(id, "skipped", "triage", NoCode, pass[p].codes)
          /\ Holds(p, [pass[p] EXCEPT !.slice = @ \ {id}])
     \/ pass[p].slice = {} /\ Phase(p, "triage") /\ UNCHANGED jobs
  /\ UNCHANGED <<filed, opening, noting, folder, calls, resetting, restarts>>

(* stopAtCeiling before each batch; once it has stopped the pass asks for  *)
(* no other batch, in the triage or after it.                              *)
Stops(p) == pass[p].stopped \/ CeilingReached

TriageAsk(p) ==
  /\ In(p, "triage")
  /\ \/ /\ pass[p].todo = {} \/ Stops(p)
        /\ Holds(p, [pass[p] EXCEPT !.phase = "deep.read",
                                    !.stopped = @ \/ (pass[p].todo # {} /\ Stops(p))])
     \/ /\ pass[p].todo # {} /\ ~Stops(p)
        /\ \E batch \in Taken(pass[p].todo, TriageBatch) :
             Holds(p, [pass[p] EXCEPT !.phase = "triage.asked", !.slice = batch,
                                      !.todo = @ \ batch])
  /\ UNCHANGED <<postings, folder, calls, resetting, restarts>>

(* The call fails, or is charged; an answer that cannot be read ends the   *)
(* pass, too.                                                              *)
Answered(p, asked, commit) ==
  /\ In(p, asked)
  /\ \/ Ends(p) /\ UNCHANGED calls
     \/ Charge /\ (Ends(p) \/ Phase(p, commit))
  /\ UNCHANGED <<postings, folder, resetting, restarts>>

TriageAnswered(p) == Answered(p, "triage.asked", "triage.commit")

(* commitOne: a decision keeps the posting for reading or drops it.  One   *)
(* the answer leaves out stays as it is, for the next pass.                *)
TriageCommit(p) ==
  /\ In(p, "triage.commit")
  /\ \/ \E id \in pass[p].slice :
          /\ \/ jobs' = SetTriage(id, pass[p].codes)
             \/ jobs' = SetVerdict(id, "skipped", "triage", NoCode, pass[p].codes)
          /\ Holds(p, [pass[p] EXCEPT !.slice = @ \ {id}])
     \/ /\ Holds(p, [pass[p] EXCEPT !.phase = "triage", !.slice = {}])
        /\ UNCHANGED jobs
  /\ UNCHANGED <<filed, opening, noting, folder, calls, resetting, restarts>>

(* readyForDeep. *)
ReadReady(p) ==
  /\ In(p, "deep.read")
  /\ \E ready \in Taken({id \in With({"reading"}) : jobs[id].body}, Budget) :
       Holds(p, [pass[p] EXCEPT !.phase = "deep", !.todo = ready])
  /\ UNCHANGED <<postings, folder, calls, resetting, restarts>>

(* DeepAsk as it would be if only the triage looked at the ceiling. *)
DeepAskUnchecked(p) ==
  /\ In(p, "deep")
  /\ \/ pass[p].todo = {} /\ Ends(p)
     \/ \E batch \in Taken(pass[p].todo, DeepBatch) :
          /\ pass[p].todo # {}
          /\ Holds(p, [pass[p] EXCEPT !.phase = "deep.asked", !.slice = batch,
                                      !.todo = @ \ batch])
  /\ UNCHANGED <<postings, folder, calls, resetting, restarts>>

DeepAsk(p) ==
  /\ In(p, "deep")
  /\ \/ (pass[p].todo = {} \/ Stops(p)) /\ Ends(p)
     \/ /\ pass[p].todo # {} /\ ~Stops(p)
        /\ \E batch \in Taken(pass[p].todo, DeepBatch) :
             Holds(p, [pass[p] EXCEPT !.phase = "deep.asked", !.slice = batch,
                                      !.todo = @ \ batch])
  /\ UNCHANGED <<postings, folder, calls, resetting, restarts>>

DeepAnswered(p) == Answered(p, "deep.asked", "deep.commit")

(* shape and route: a resume of the desk, and one of the lists. *)
Verdict(p, id) ==
  \E status \in {"inbox", "manual", "skipped"}, code \in pass[p].codes :
    jobs' = SetVerdict(id, status, "deep", code, pass[p].codes)

DeepCommit(p) ==
  /\ In(p, "deep.commit")
  /\ \/ \E id \in pass[p].slice :
          /\ Verdict(p, id)
          /\ Holds(p, [pass[p] EXCEPT !.slice = @ \ {id}, !.judged = @ \cup {id}])
     \/ /\ Holds(p, [pass[p] EXCEPT !.phase = IF pass[p].judged = {} THEN "deep" ELSE "review",
                                    !.slice = {}])
        /\ UNCHANGED jobs
  /\ UNCHANGED <<filed, opening, noting, folder, calls, resetting, restarts>>

(* review flags verdicts of the batch; one that fails flags none.  It does *)
(* not look at the ceiling, and neither does the correction.               *)
Review(p) ==
  /\ In(p, "review")
  /\ \E flagged \in SUBSET pass[p].judged :
       /\ Charge \/ (flagged = {} /\ UNCHANGED calls)
       /\ Holds(p, [pass[p] EXCEPT !.phase = IF flagged = {} THEN "deep" ELSE "correct",
                                   !.slice = flagged, !.judged = {}])
  /\ UNCHANGED <<postings, folder, resetting, restarts>>

(* rescreenOne and the second commit; a correction that fails leaves the   *)
(* first verdict.                                                          *)
Correct(p) ==
  /\ In(p, "correct")
  /\ \E id \in pass[p].slice :
       /\ \/ UNCHANGED <<calls, jobs>>
          \/ Charge /\ UNCHANGED jobs
          \/ Charge /\ Verdict(p, id)
       /\ Holds(p, [pass[p] EXCEPT !.phase = IF pass[p].slice = {id} THEN "deep" ELSE "correct",
                                   !.slice = @ \ {id}])
  /\ UNCHANGED <<filed, opening, noting, folder, resetting, restarts>>

PassStep(p) ==
  \/ Invalidate(p) \/ Prune(p) \/ Expire(p) \/ ReadUntriaged(p) \/ Gate(p)
  \/ TriageAsk(p) \/ TriageAnswered(p) \/ TriageCommit(p)
  \/ ReadReady(p) \/ DeepAsk(p) \/ DeepAnswered(p) \/ DeepCommit(p) \/ Review(p) \/ Correct(p)

-----------------------------------------------------------------------------
(* Around the passes.                                                      *)

(* Rescreen reads the fingerprint, then sends back what another one judged. *)
RescreenRead ==
  /\ resetting = NoKey
  /\ resetting' = folder
  /\ UNCHANGED <<postings, folder, calls, pass, restarts>>

RescreenReset ==
  /\ resetting # NoKey
  /\ jobs' = Unjudge({id \in With({"inbox", "manual", "skipped"}) :
                        jobs[id].key \notin {NoKey, resetting}})
  /\ resetting' = NoKey
  /\ UNCHANGED <<filed, opening, noting, folder, calls, pass, restarts>>

FolderChanges ==
  /\ \E held \in (SUBSET Codes) \ {{}, folder} : folder' = held
  /\ UNCHANGED <<postings, calls, pass, resetting, restarts>>

(* The planner opens a round with the call that planned it, and closes it. *)
RoundTurns ==
  /\ calls' = IF calls = 0 THEN 1 ELSE 0
  /\ UNCHANGED <<postings, folder, pass, resetting, restarts>>

Restart ==
  /\ restarts < MaxRestarts /\ restarts' = restarts + 1
  /\ pass' = [p \in Passes |-> Resting]
  /\ opening' = {} /\ noting' = {} /\ resetting' = NoKey
  /\ UNCHANGED <<jobs, filed, folder, calls>>

Next ==
  \/ \E p \in Passes : Begin(p) \/ PassStep(p)
  \/ PostingsNext /\ UNCHANGED screener
  \/ RescreenRead \/ RescreenReset \/ FolderChanges \/ RoundTurns \/ Restart

Spec == Init /\ [][Next]_vars

(* A pass comes with every round and gets on, for a model call ends in an  *)
(* answer or an error; and time passes.                                    *)
Fairness ==
  /\ \A p \in Passes : WF_vars(Begin(p)) /\ WF_vars(PassStep(p))
  /\ \A id \in Ids : WF_vars(Waits(id) /\ UNCHANGED screener)

FairSpec == Spec /\ Fairness

-----------------------------------------------------------------------------
(* Properties.                                                             *)

(* The table and what the requests hold have their types.                  *)
TypeOK ==
  /\ jobs \in [Ids -> Rows]
  /\ filed \in [Ids -> 0 .. Cardinality(Ids)] /\ \A id \in Ids : OnFile(id) <=> filed[id] # 0
  /\ opening \subseteq Ids /\ noting \subseteq Ids \X Statuses
  /\ folder \in (SUBSET Codes) \ {{}} /\ calls \in Nat
  /\ pass \in [Passes -> PassRecords]
  /\ resetting \in SUBSET Codes

(* The same role, reposted or posted in several cities, collapses to one   *)
(* record: at most one posting of a role on file was stored as an original *)
(* (canonicalFor inside the transactions of Ingest and Open), whatever was *)
(* pruned, moved or screened between two harvests.                         *)
OneRecordPerRole ==
  \A id, other \in Ids :
    /\ OnFile(id) /\ OnFile(other) /\ RoleOf[id] = RoleOf[other]
    /\ ~jobs[id].dupe /\ ~jobs[other].dupe
    => id = other

(* A request to open, however stale what it read, leaves a posting the     *)
(* agent already owns as it was (MarkOpened).                              *)
OpenLeavesOwned ==
  [][\A id \in Ids :
       jobs'[id].stage = "hand" /\ jobs[id].stage # "hand"
         => jobs[id].status \in {"absent", "new"}]_jobs

(* Every posting the person is offered carries a verdict, the resume it    *)
(* was given and the fingerprint it was given under, through the passes,   *)
(* corrections and rescreens that race for it (SetVerdict, ResetStale,     *)
(* ClearVerdictForResumeCode).                                             *)
JudgedCarriesVerdict ==
  \A id \in With({"inbox", "manual"}) :
    jobs[id].stage = "deep" /\ jobs[id].code # NoCode /\ jobs[id].code \in jobs[id].key

(* The review and the corrections of a batch look at no ceiling, so a      *)
(* round overruns it, but by no more than one batch of each pass: its own  *)
(* call, its review, and a correction for each posting (stopAtCeiling,     *)
(* correct).                                                               *)
CeilingOverrun == calls <= Ceiling + Cardinality(Passes) * (DeepBatch + 2)

(* A posting kept for reading does not wait for ever for a body nobody     *)
(* sends (expireDescriptions).                                             *)
BodyWaitEnds ==
  \A id \in Ids :
    [](jobs[id].status = "reading" /\ ~jobs[id].body
         => <>(jobs[id].status # "reading" \/ jobs[id].body))

(* A resume that has left the folder leaves the postings that name it,     *)
(* even when a pass that began before hands it out again                   *)
(* (invalidateMissingResumes).                                             *)
DeadResumeLeaves ==
  \A id \in Ids :
    LET Dead == jobs[id].status \in Live /\ jobs[id].code \notin folder \cup {NoCode}
    IN  [](Dead => <>(~Dead))

=============================================================================
