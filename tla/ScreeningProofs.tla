--------------------------- MODULE ScreeningProofs ---------------------------
(***************************************************************************)
(* Proofs about the jobs table under any number of postings, passes,       *)
(* resumes and restarts, whatever the batches and the ceiling.             *)
(*                                                                         *)
(* The invariant has to say what a pass holds in memory, too: the resumes  *)
(* of a verdict are those of the desk the pass read at its start, and its  *)
(* fingerprint is of the same desk, so a verdict never names a resume that *)
(* its own fingerprint does not cover.  An outcome request only ever       *)
(* writes back a status that is no suggestion.                             *)
(*                                                                         *)
(* That a role has one original is inductive with the order of filing: a   *)
(* posting has a place there exactly when it is on file, so the look at    *)
(* the places that makes a newcomer a duplicate misses no original.  That  *)
(* the ceiling is overrun boundedly needs the calls a pass may still make  *)
(* after it has looked at the ceiling, counted as a set of slots.          *)
(***************************************************************************)
EXTENDS Screening, FiniteSetTheorems, WellFoundedInduction, TLAPS

SoundRows ==
  {row \in Rows :
     /\ row.status \in {"inbox", "manual"}
          => row.stage = "deep" /\ row.code # NoCode /\ row.code \in row.key
     /\ row.status = "duplicate" => row.dupe /\ row.stage # "hand"}

(* What an outcome request may write back. *)
Kept == Statuses \ {"inbox", "manual", "duplicate"}

TableInv ==
  /\ jobs \in [Ids -> SoundRows]
  /\ opening \subseteq Ids
  /\ noting \subseteq Ids \X Kept
  /\ folder \in (SUBSET Codes) \ {{}} /\ resetting \subseteq Codes
  /\ calls \in Nat
  /\ pass \in [Passes -> PassRecords]

(* What is on file has its place, and of a role one original is. *)
FiledInv ==
  /\ filed \in [Ids -> 0 .. Cardinality(Ids)]
  /\ \A id \in Ids : OnFile(id) <=> filed[id] # 0
  /\ OneRecordPerRole

(* The only step that marks a posting as the person's own finds it new or  *)
(* not on file.                                                            *)
OpensUnowned ==
  \A id \in Ids :
    jobs'[id].stage = "hand" /\ jobs[id].stage # "hand"
      => jobs[id].status \in {"absent", "new"}

-----------------------------------------------------------------------------
(* The statements on the table.                                            *)

LEMMA VerdictsAreJudged ==
  ASSUME jobs \in [Ids -> SoundRows], NEW id \in Ids,
         NEW status \in Statuses \ {"duplicate"}, NEW stage \in Stages,
         NEW code \in Codes \cup {NoCode}, NEW key \in SUBSET Codes,
         status \in {"inbox", "manual"} => stage = "deep" /\ code # NoCode /\ code \in key
  PROVE  SetVerdict(id, status, stage, code, key) \in [Ids -> SoundRows]
<1>1. [jobs[id] EXCEPT !.status = status, !.stage = stage, !.code = code, !.key = key,
                       !.waited = FALSE] \in SoundRows
  BY DEF SoundRows, Rows
<1> QED BY <1>1 DEF SetVerdict

LEMMA TriagedAreJudged ==
  ASSUME jobs \in [Ids -> SoundRows], NEW id \in Ids, NEW key \in SUBSET Codes
  PROVE  SetTriage(id, key) \in [Ids -> SoundRows]
<1>1. [jobs[id] EXCEPT !.status = "reading", !.stage = "triage", !.key = key, !.waited = FALSE]
        \in SoundRows
  BY DEF SoundRows, Rows, Statuses, Stages
<1> QED BY <1>1 DEF SetTriage

LEMMA UnjudgedAreJudged ==
  ASSUME jobs \in [Ids -> SoundRows], NEW ids \in SUBSET Ids
  PROVE  Unjudge(ids) \in [Ids -> SoundRows]
<1>1. ASSUME NEW row \in SoundRows
      PROVE  [row EXCEPT !.status = "new", !.stage = "none", !.code = NoCode, !.key = NoKey,
                         !.waited = FALSE] \in SoundRows
  BY DEF SoundRows, Rows, Statuses, Stages, NoKey
<1>2. \A id \in Ids : jobs[id] \in SoundRows
  OBVIOUS
<1> QED BY <1>1, <1>2 DEF Unjudge

(* None of them marks a posting. *)
LEMMA VerdictsDoNotOpen ==
  ASSUME jobs \in [Ids -> SoundRows], NEW id \in Ids, NEW status, NEW stage, NEW code, NEW key,
         stage \in {"triage", "deep"}, jobs' = SetVerdict(id, status, stage, code, key)
  PROVE  OpensUnowned
<1> SUFFICES ASSUME NEW i \in Ids, jobs'[i].stage = "hand" PROVE jobs[i].stage = "hand"
  BY DEF OpensUnowned
<1>1. CASE i = id
  BY <1>1 DEF SetVerdict, SoundRows, Rows
<1>2. CASE i # id
  BY <1>2 DEF SetVerdict
<1> QED BY <1>1, <1>2

LEMMA TriagedDoNotOpen ==
  ASSUME jobs \in [Ids -> SoundRows], NEW id \in Ids, NEW key,
         jobs' = SetTriage(id, key)
  PROVE  OpensUnowned
BY DEF OpensUnowned, SetTriage, SoundRows, Rows

LEMMA UnjudgedDoNotOpen ==
  ASSUME jobs \in [Ids -> SoundRows], NEW ids \in SUBSET Ids, jobs' = Unjudge(ids)
  PROVE  OpensUnowned
BY DEF OpensUnowned, Unjudge, SoundRows, Rows

LEMMA UntouchedDoNotOpen ==
  ASSUME UNCHANGED jobs
  PROVE  OpensUnowned
BY DEF OpensUnowned

-----------------------------------------------------------------------------
(* The steps of a pass.                                                    *)

LEMMA InitTable == Init => TableInv
<1> SUFFICES ASSUME Init PROVE TableInv
  OBVIOUS
<1>1. Absent \in SoundRows
  BY DEF Absent, SoundRows, Rows, Statuses, Stages, NoKey
<1>2. Resting \in PassRecords
  BY DEF Resting, PassRecords, Phases
<1>3. jobs \in [Ids -> SoundRows] /\ pass \in [Passes -> PassRecords]
  BY <1>1, <1>2 DEF Init, PostingsInit
<1>4. opening = {} /\ noting = {} /\ folder = Codes /\ resetting = {} /\ calls = 0
  BY DEF Init, PostingsInit, NoKey
<1> QED BY <1>3, <1>4, PostingsAssumption DEF TableInv

(* What a pass keeps in memory stays of its type. *)
LEMMA PassesStayTyped ==
  ASSUME TableInv, NEW p \in Passes, PassStep(p) \/ Begin(p)
  PROVE  pass' \in [Passes -> PassRecords]
<1> DEFINE held == pass[p]
<1>1. /\ held \in PassRecords
      /\ held.phase \in Phases /\ held.codes \subseteq Codes /\ held.todo \subseteq Ids
      /\ held.slice \subseteq Ids /\ held.judged \subseteq Ids /\ held.stopped \in BOOLEAN
  BY DEF TableInv, PassRecords
<1>2. ASSUME NEW rec \in PassRecords, Holds(p, rec)
      PROVE  pass' \in [Passes -> PassRecords]
  BY <1>2 DEF Holds, TableInv
<1>3. ASSUME NEW phase \in Phases, Phase(p, phase) PROVE pass' \in [Passes -> PassRecords]
  <2>1. [held EXCEPT !.phase = phase] \in PassRecords
    BY <1>1, <1>3 DEF PassRecords
  <2> QED BY <1>2, <1>3, <2>1 DEF Phase
<1>4. ASSUME Ends(p) PROVE pass' \in [Passes -> PassRecords]
  BY <1>2, <1>4 DEF Ends, Resting, PassRecords, Phases
<1>5. ASSUME NEW among, NEW n, NEW some \in Taken(among, n) PROVE some \subseteq among
  BY DEF Taken
<1>6. CASE Begin(p)
  <2>1. [held EXCEPT !.phase = "invalidate", !.codes = folder] \in PassRecords
    BY <1>1 DEF TableInv, PassRecords, Phases
  <2> QED BY <1>2, <1>6, <2>1 DEF Begin
<1>7. CASE Invalidate(p) \/ Prune(p) \/ Expire(p)
  BY <1>3, <1>7 DEF Invalidate, Prune, Expire, Phases
<1>8. CASE ReadUntriaged(p)
  <2>1. PICK pending \in Taken(With({"new"}), Budget) : \E gated \in SUBSET pending :
          Holds(p, [held EXCEPT !.phase = "gate", !.slice = gated, !.todo = pending \ gated])
    BY <1>8 DEF ReadUntriaged
  <2>2. pending \subseteq Ids
    BY <1>5 DEF With
  <2>3. ASSUME NEW gated \in SUBSET pending
        PROVE  [held EXCEPT !.phase = "gate", !.slice = gated, !.todo = pending \ gated]
                 \in PassRecords
    BY <1>1, <2>2 DEF PassRecords, Phases
  <2> QED BY <1>2, <2>1, <2>3
<1>9. CASE Gate(p)
  <2>1. ASSUME NEW id PROVE [held EXCEPT !.slice = @ \ {id}] \in PassRecords
    BY <1>1 DEF PassRecords
  <2>2. CASE \E id \in held.slice : Holds(p, [held EXCEPT !.slice = @ \ {id}])
    BY <1>2, <2>1, <2>2
  <2>3. CASE Phase(p, "triage")
    BY <1>3, <2>3 DEF Phases
  <2> QED BY <1>9, <2>2, <2>3 DEF Gate
<1>10. CASE TriageAsk(p) \/ DeepAsk(p)
  <2>1. CASE Ends(p)
    BY <1>4, <2>1
  <2>2. CASE Holds(p, [held EXCEPT !.phase = "deep.read",
                                   !.stopped = @ \/ (held.todo # {} /\ Stops(p))])
    <3>1. (held.stopped \/ (held.todo # {} /\ Stops(p))) \in BOOLEAN
      OBVIOUS
    <3>2. [held EXCEPT !.phase = "deep.read",
                       !.stopped = held.stopped \/ (held.todo # {} /\ Stops(p))] \in PassRecords
      BY <1>1, <3>1 DEF PassRecords, Phases
    <3> QED BY <1>2, <2>2, <3>2
  <2>3. ASSUME NEW phase \in {"triage.asked", "deep.asked"}, NEW n,
               NEW batch \in Taken(held.todo, n),
               Holds(p, [held EXCEPT !.phase = phase, !.slice = batch, !.todo = @ \ batch])
        PROVE  pass' \in [Passes -> PassRecords]
    <3>1. batch \subseteq Ids
      BY <1>1, <1>5
    <3>2. [held EXCEPT !.phase = phase, !.slice = batch, !.todo = @ \ batch] \in PassRecords
      BY <1>1, <3>1 DEF PassRecords, Phases
    <3> QED BY <1>2, <2>3, <3>2
  <2>4. CASE TriageAsk(p)
    BY <2>2, <2>3, <2>4 DEF TriageAsk
  <2>5. CASE DeepAsk(p)
    BY <2>1, <2>3, <2>5 DEF DeepAsk
  <2> QED BY <1>10, <2>4, <2>5
<1>11. CASE TriageAnswered(p) \/ DeepAnswered(p)
  BY <1>3, <1>4, <1>11 DEF TriageAnswered, DeepAnswered, Answered, Phases
<1>12. CASE TriageCommit(p)
  <2>1. ASSUME NEW id PROVE [held EXCEPT !.slice = @ \ {id}] \in PassRecords
    BY <1>1 DEF PassRecords
  <2>2. [held EXCEPT !.phase = "triage", !.slice = {}] \in PassRecords
    BY <1>1 DEF PassRecords, Phases
  <2> QED BY <1>2, <1>12, <2>1, <2>2 DEF TriageCommit
<1>13. CASE ReadReady(p)
  <2>1. PICK ready \in Taken({id \in With({"reading"}) : jobs[id].body}, Budget) :
          Holds(p, [held EXCEPT !.phase = "deep", !.todo = ready])
    BY <1>13 DEF ReadReady
  <2>2. ready \subseteq Ids
    BY <1>5 DEF With
  <2>3. [held EXCEPT !.phase = "deep", !.todo = ready] \in PassRecords
    BY <1>1, <2>2 DEF PassRecords, Phases
  <2> QED BY <1>2, <2>1, <2>3
<1>14. CASE DeepCommit(p)
  <2>1. ASSUME NEW id \in held.slice
        PROVE  [held EXCEPT !.slice = @ \ {id}, !.judged = @ \cup {id}] \in PassRecords
    BY <1>1 DEF PassRecords
  <2>2. [held EXCEPT !.phase = IF held.judged = {} THEN "deep" ELSE "review", !.slice = {}]
          \in PassRecords
    BY <1>1 DEF PassRecords, Phases
  <2> QED BY <1>2, <1>14, <2>1, <2>2 DEF DeepCommit
<1>15. CASE Review(p)
  <2>1. ASSUME NEW flagged \in SUBSET held.judged
        PROVE  [held EXCEPT !.phase = IF flagged = {} THEN "deep" ELSE "correct",
                            !.slice = flagged, !.judged = {}] \in PassRecords
    BY <1>1 DEF PassRecords, Phases
  <2> QED BY <1>2, <1>15, <2>1 DEF Review
<1>16. CASE Correct(p)
  <2>1. ASSUME NEW id
        PROVE  [held EXCEPT !.phase = IF held.slice = {id} THEN "deep" ELSE "correct",
                            !.slice = @ \ {id}] \in PassRecords
    BY <1>1 DEF PassRecords, Phases
  <2> QED BY <1>2, <1>16, <2>1 DEF Correct
<1> QED BY <1>6, <1>7, <1>8, <1>9, <1>10, <1>11, <1>12, <1>13, <1>14, <1>15, <1>16 DEF PassStep

(* A step of a pass leaves the table judged and marks no posting. *)
LEMMA PassesJudge ==
  ASSUME TableInv, NEW p \in Passes, PassStep(p)
  PROVE  jobs' \in [Ids -> SoundRows] /\ OpensUnowned
<1> DEFINE held == pass[p]
<1>1. /\ held.codes \in SUBSET Codes /\ held.slice \subseteq Ids
      /\ jobs \in [Ids -> SoundRows] /\ NoCode \in Codes \cup {NoCode} /\ NoCode \notin Codes
  BY PostingsAssumption DEF TableInv, PassRecords
<1>2. CASE UNCHANGED jobs
  BY <1>1, <1>2, UntouchedDoNotOpen
<1>3. ASSUME NEW ids \in SUBSET Ids, jobs' = Unjudge(ids)
      PROVE  jobs' \in [Ids -> SoundRows] /\ OpensUnowned
  BY <1>1, <1>3, UnjudgedAreJudged, UnjudgedDoNotOpen
<1>4. ASSUME NEW id \in held.slice, jobs' = SetVerdict(id, "skipped", "triage", NoCode, held.codes)
      PROVE  jobs' \in [Ids -> SoundRows] /\ OpensUnowned
  <2>1. "skipped" \in Statuses \ {"duplicate"} /\ "triage" \in Stages /\ id \in Ids
        /\ "skipped" \notin {"inbox", "manual"}
    BY <1>1 DEF Statuses, Stages
  <2>2. SetVerdict(id, "skipped", "triage", NoCode, held.codes) \in [Ids -> SoundRows]
    BY <1>1, <2>1, VerdictsAreJudged
  <2> QED BY <1>1, <1>4, <2>1, <2>2, VerdictsDoNotOpen
<1>5. ASSUME NEW id \in held.slice, jobs' = SetTriage(id, held.codes)
      PROVE  jobs' \in [Ids -> SoundRows] /\ OpensUnowned
  BY <1>1, <1>5, TriagedAreJudged, TriagedDoNotOpen
<1>6. ASSUME NEW id \in held.slice, Verdict(p, id)
      PROVE  jobs' \in [Ids -> SoundRows] /\ OpensUnowned
  <2>1. PICK status \in {"inbox", "manual", "skipped"} : \E code \in held.codes :
          jobs' = SetVerdict(id, status, "deep", code, held.codes)
    BY <1>6 DEF Verdict
  <2>2. PICK code \in held.codes : jobs' = SetVerdict(id, status, "deep", code, held.codes)
    BY <2>1
  <2>3. status \in Statuses \ {"duplicate"} /\ "deep" \in Stages /\ id \in Ids /\ code \in Codes
        /\ code # NoCode
    BY <1>1 DEF Statuses, Stages
  <2>4. SetVerdict(id, status, "deep", code, held.codes) \in [Ids -> SoundRows]
    BY <1>1, <2>3, VerdictsAreJudged
  <2> QED BY <1>1, <2>2, <2>3, <2>4, VerdictsDoNotOpen
<1>7. CASE Invalidate(p)
  <2> DEFINE gone == {id \in With(Live) : jobs[id].code \notin held.codes \cup {NoCode}}
  <2>1. gone \subseteq Ids
    BY DEF With
  <2> QED BY <1>3, <1>7, <2>1 DEF Invalidate
<1>8. CASE Prune(p)
  <2>1. PICK old : jobs' = [id \in Ids |-> IF id \in old THEN Absent ELSE jobs[id]]
    BY <1>8 DEF Prune
  <2>2. Absent \in SoundRows /\ Absent.stage = "none"
    BY DEF Absent, SoundRows, Rows, Statuses, Stages, NoKey
  <2> QED BY <1>1, <2>1, <2>2 DEF OpensUnowned
<1>9. CASE Expire(p)
  <2>1. jobs' = [id \in Ids |-> IF jobs[id].waited
                                THEN [jobs[id] EXCEPT !.body = TRUE, !.waited = FALSE]
                                ELSE jobs[id]]
    BY <1>9 DEF Expire
  <2>2. ASSUME NEW row \in SoundRows
        PROVE  /\ [row EXCEPT !.body = TRUE, !.waited = FALSE] \in SoundRows
               /\ [row EXCEPT !.body = TRUE, !.waited = FALSE].stage = row.stage
    BY DEF SoundRows, Rows
  <2> QED BY <1>1, <2>1, <2>2 DEF OpensUnowned
<1>10. CASE Gate(p)
  BY <1>2, <1>4, <1>10 DEF Gate
<1>11. CASE TriageCommit(p)
  BY <1>2, <1>4, <1>5, <1>11 DEF TriageCommit
<1>12. CASE DeepCommit(p)
  BY <1>2, <1>6, <1>12 DEF DeepCommit
<1>13. CASE Correct(p)
  BY <1>2, <1>6, <1>13 DEF Correct
<1>14. CASE \/ ReadUntriaged(p) \/ TriageAsk(p) \/ TriageAnswered(p) \/ ReadReady(p)
            \/ DeepAsk(p) \/ DeepAnswered(p) \/ Review(p)
  BY <1>2, <1>14 DEF ReadUntriaged, TriageAsk, TriageAnswered, ReadReady, DeepAsk, DeepAnswered,
                     Answered, Review, postings
<1> QED BY <1>7, <1>8, <1>9, <1>10, <1>11, <1>12, <1>13, <1>14 DEF PassStep

-----------------------------------------------------------------------------
(* The harvest, the person and the executor.                               *)

(* What is read to be used later stays of its type. *)
LEMMA RequestsStayTyped ==
  ASSUME TableInv, PostingsNext
  PROVE  opening' \subseteq Ids /\ noting' \subseteq Ids \X Kept
<1> PICK id \in Ids : \/ Ingest(id) \/ OpenRead(id) \/ OpenWrite(id) \/ Move(id)
                      \/ OutcomeRead(id) \/ OutcomeWrite(id) \/ Describe(id) \/ Waits(id)
  BY DEF PostingsNext
<1>1. /\ jobs \in [Ids -> SoundRows] /\ opening \subseteq Ids
      /\ noting \subseteq Ids \X Kept
  BY DEF TableInv
<1>2. CASE Ingest(id) \/ Move(id) \/ Describe(id) \/ Waits(id)
  BY <1>1, <1>2 DEF Ingest, Move, Describe, Waits
<1>3. CASE OpenRead(id) \/ OpenWrite(id)
  BY <1>1, <1>3 DEF OpenRead, OpenWrite
<1>4. CASE OutcomeWrite(id)
  <2>1. noting' \subseteq noting /\ opening' = opening
    BY <1>4 DEF OutcomeWrite
  <2> QED BY <1>1, <2>1
<1>5. CASE OutcomeRead(id)
  <2>1. jobs[id].status \in Kept
    BY <1>1, <1>5 DEF OutcomeRead, OnFile, SoundRows, Rows, Kept
  <2>2. "applied" \in Kept
    BY DEF Statuses, Kept
  <2>3. PICK status \in {"applied", jobs[id].status} : noting' = noting \cup {<<id, status>>}
    BY <1>5 DEF OutcomeRead
  <2>4. <<id, status>> \in Ids \X Kept
    BY <2>1, <2>2
  <2>5. opening' = opening
    BY <1>5 DEF OutcomeRead
  <2> QED BY <1>1, <2>3, <2>4, <2>5
<1> QED BY <1>2, <1>3, <1>4, <1>5

LEMMA PostingsStepsJudge ==
  ASSUME TableInv, PostingsNext
  PROVE  jobs' \in [Ids -> SoundRows] /\ OpensUnowned
<1> PICK id \in Ids : \/ Ingest(id) \/ OpenRead(id) \/ OpenWrite(id) \/ Move(id)
                      \/ OutcomeRead(id) \/ OutcomeWrite(id) \/ Describe(id) \/ Waits(id)
  BY DEF PostingsNext
<1>1. /\ jobs \in [Ids -> SoundRows]
      /\ noting \subseteq Ids \X Kept
  BY DEF TableInv
<1>2. Absent \in SoundRows /\ Absent.stage = "none"
  BY DEF Absent, SoundRows, Rows, Statuses, Stages, NoKey
<1>3. ASSUME NEW row \in SoundRows, jobs' = [jobs EXCEPT ![id] = row],
             row.stage = "hand" => jobs[id].stage = "hand" \/ jobs[id].status \in {"absent", "new"}
      PROVE  jobs' \in [Ids -> SoundRows] /\ OpensUnowned
  BY <1>1, <1>3 DEF OpensUnowned
<1>4. ASSUME UNCHANGED jobs PROVE jobs' \in [Ids -> SoundRows] /\ OpensUnowned
  BY <1>1, <1>4, UntouchedDoNotOpen
<1>5. ASSUME NEW row \in SoundRows, NEW code \in Codes \cup {NoCode}
      PROVE  ByHand(row, code) \in SoundRows
  BY DEF ByHand, SoundRows, Rows, Statuses, Stages
<1>6. DuplicateOf(id) \in SoundRows /\ DuplicateOf(id).stage = "none"
  BY DEF DuplicateOf, Absent, SoundRows, Rows, Statuses, Stages, NoKey
<1>7. CASE Ingest(id)
  <2>1. PICK body \in BOOLEAN :
          jobs' = [jobs EXCEPT ![id] =
                     [(IF Collapses(id) THEN DuplicateOf(id) ELSE [Absent EXCEPT !.status = "new"])
                        EXCEPT !.body = body]]
    BY <1>7 DEF Ingest, Insert
  <2> DEFINE base == IF Collapses(id) THEN DuplicateOf(id) ELSE [Absent EXCEPT !.status = "new"]
  <2>2. base \in SoundRows /\ base.stage = "none"
    BY <1>6 DEF Absent, SoundRows, Rows, Statuses, Stages, NoKey
  <2>3. [base EXCEPT !.body = body] \in SoundRows /\ [base EXCEPT !.body = body].stage = "none"
    BY <2>2 DEF SoundRows, Rows
  <2> QED BY <1>1, <1>3, <2>1, <2>3
<1>8. CASE OpenRead(id)
  BY <1>4, <1>8 DEF OpenRead
<1>9. CASE OpenWrite(id)
  <2>2. CASE ~OnFile(id) /\ jobs' = [jobs EXCEPT ![id] = DuplicateOf(id)]
    BY <1>3, <1>6, <2>2
  <2>3. ASSUME NEW code \in Codes \cup {NoCode}, NEW row \in {Absent, jobs[id]},
               jobs[id].status \in {"absent", "new"},
               jobs' = [jobs EXCEPT ![id] = ByHand(row, code)]
        PROVE  jobs' \in [Ids -> SoundRows] /\ OpensUnowned
    <3>1. ByHand(row, code) \in SoundRows
      BY <1>1, <1>2, <1>5
    <3> QED BY <1>3, <2>3, <3>1
  <2>4. CASE UNCHANGED jobs
    BY <1>4, <2>4
  <2>5. \/ UNCHANGED jobs
        \/ ~OnFile(id) /\ jobs' = [jobs EXCEPT ![id] = DuplicateOf(id)]
        \/ \E code \in Codes \cup {NoCode} :
             /\ jobs[id].status \in {"absent", "new"}
             /\ \/ jobs' = [jobs EXCEPT ![id] = ByHand(Absent, code)]
                \/ jobs' = [jobs EXCEPT ![id] = ByHand(jobs[id], code)]
    BY <1>9 DEF OpenWrite, Insert, OnFile
  <2> QED BY <2>2, <2>3, <2>4, <2>5
<1>10. CASE Move(id)
  <2>1. PICK status \in {"queue", "applied", "skipped"} :
          jobs' = [jobs EXCEPT ![id] = [jobs[id] EXCEPT !.status = status, !.waited = FALSE]]
    BY <1>10 DEF Move
  <2>2. /\ [jobs[id] EXCEPT !.status = status, !.waited = FALSE] \in SoundRows
        /\ [jobs[id] EXCEPT !.status = status, !.waited = FALSE].stage = jobs[id].stage
    BY <1>1 DEF SoundRows, Rows, Statuses
  <2> QED BY <1>1, <1>3, <2>1, <2>2
<1>11. CASE Describe(id) \/ Waits(id)
  <2>1. ASSUME NEW row \in SoundRows, NEW b \in BOOLEAN
        PROVE  /\ [row EXCEPT !.body = TRUE, !.waited = FALSE] \in SoundRows
               /\ [row EXCEPT !.body = TRUE, !.waited = FALSE].stage = row.stage
               /\ [row EXCEPT !.waited = TRUE] \in SoundRows
               /\ [row EXCEPT !.waited = TRUE].stage = row.stage
    BY DEF SoundRows, Rows
  <2>2. \/ jobs' = [jobs EXCEPT ![id] = [jobs[id] EXCEPT !.body = TRUE, !.waited = FALSE]]
        \/ jobs' = [jobs EXCEPT ![id] = [jobs[id] EXCEPT !.waited = TRUE]]
    BY <1>11 DEF Describe, Waits
  <2> QED BY <1>1, <1>3, <2>1, <2>2
<1>12. CASE OutcomeRead(id)
  BY <1>4, <1>12 DEF OutcomeRead
<1>13. CASE OutcomeWrite(id)
  <2>1. PICK status \in Statuses :
          /\ <<id, status>> \in noting /\ noting' = noting \ {<<id, status>>}
          /\ \/ UNCHANGED jobs
             \/ jobs' = [jobs EXCEPT ![id] = [jobs[id] EXCEPT !.status = status, !.waited = FALSE]]
    BY <1>13 DEF OutcomeWrite
  <2>2. status \notin {"inbox", "manual", "duplicate"}
    BY <1>1, <2>1 DEF Kept
  <2>3. /\ [jobs[id] EXCEPT !.status = status, !.waited = FALSE] \in SoundRows
        /\ [jobs[id] EXCEPT !.status = status, !.waited = FALSE].stage = jobs[id].stage
    BY <1>1, <2>2 DEF SoundRows, Rows
  <2> QED BY <1>1, <1>3, <1>4, <2>1, <2>3
<1> QED BY <1>7, <1>8, <1>9, <1>10, <1>11, <1>12, <1>13

-----------------------------------------------------------------------------
(* The places in the order of created_at.                                  *)

LEMMA Least ==
  ASSUME NEW T \in SUBSET Nat, T # {}
  PROVE  \E x \in T : \A y \in T : x <= y
<1> DEFINE R == OpToRel(<, Nat)
<1>1. IsWellFoundedOn(R, Nat)
  BY NatLessThanWellFounded
<1>2. \A x, y \in Nat : (<<x, y>> \in R) <=> x < y
  BY DEF OpToRel
<1> HIDE DEF R
<1>3. PICK x \in T : \A y \in T : ~ (<<y, x>> \in R)
  <2>1. T \subseteq Nat
    OBVIOUS
  <2> QED BY <1>1, <2>1, WFMin, Zenon
<1>4. \A y \in T : x \in Nat /\ y \in Nat /\ ~(y < x)
  BY <1>2, <1>3
<1>5. \A y \in T : x <= y
  BY <1>4
<1> QED BY <1>5

(* Of several postings on file one is the oldest. *)
LEMMA OneIsOldest ==
  ASSUME FiledInv, NEW some \in SUBSET Ids, some # {}
  PROVE  \E oldest \in some : \A other \in some : filed[oldest] <= filed[other]
<1> DEFINE places == {filed[id] : id \in some}
<1>1. filed \in [Ids -> 0 .. Cardinality(Ids)] /\ Cardinality(Ids) \in Nat
  BY PostingsAssumption, FS_CardinalityType DEF FiledInv
<1>2. places \in SUBSET Nat /\ places # {}
  BY <1>1
<1>3. \E x \in places : \A y \in places : x <= y
  BY <1>2, Least
<1> QED BY <1>3

(* A step that leaves what is filed. *)
KeepsFiled ==
  /\ UNCHANGED filed
  /\ \A id \in Ids : jobs'[id].dupe = jobs[id].dupe /\ (OnFile(id)' <=> OnFile(id))

LEMMA FiledIsKept ==
  ASSUME FiledInv, KeepsFiled
  PROVE  FiledInv'
BY DEF FiledInv, KeepsFiled, OneRecordPerRole, OnFile

LEMMA FiledByInsert ==
  ASSUME TableInv, FiledInv, NEW id \in Ids, NEW row, ~OnFile(id), row.status # "absent",
         row.dupe \/ ~Collapses(id), Insert(id, row)
  PROVE  FiledInv'
<1> DEFINE before == {other \in Ids : OnFile(other)}
<1>1. /\ Cardinality(Ids) \in Nat /\ Cardinality(before) \in Nat
      /\ Cardinality(before) + 1 <= Cardinality(Ids)
  <2>1. before \in SUBSET (Ids \ {id}) /\ IsFiniteSet(Ids)
    BY PostingsAssumption
  <2>2. IsFiniteSet(Ids \ {id}) /\ Cardinality(Ids \ {id}) = Cardinality(Ids) - 1
    BY <2>1, FS_RemoveElement
  <2>3. IsFiniteSet(before) /\ Cardinality(before) <= Cardinality(Ids \ {id})
    BY <2>1, <2>2, FS_Subset
  <2>4. Cardinality(Ids) \in Nat /\ Cardinality(before) \in Nat
    BY <2>1, <2>3, FS_CardinalityType
  <2> QED BY <2>2, <2>3, <2>4
<1>2. /\ jobs \in [Ids -> SoundRows] /\ filed \in [Ids -> 0 .. Cardinality(Ids)]
      /\ jobs' = [jobs EXCEPT ![id] = row]
      /\ filed' = [filed EXCEPT ![id] = 1 + Cardinality(before)]
  BY DEF TableInv, FiledInv, Insert
<1>3. 1 + Cardinality(before) \in 0 .. Cardinality(Ids) /\ 1 + Cardinality(before) # 0
  BY <1>1
<1> HIDE DEF before
<1>4. /\ filed' \in [Ids -> 0 .. Cardinality(Ids)]
      /\ \A other \in Ids : OnFile(other)' <=> filed'[other] # 0
  BY <1>2, <1>3 DEF FiledInv, OnFile
<1>5. ASSUME NEW other \in Ids, other # id, OnFile(other), RoleOf[other] = RoleOf[id],
             ~jobs[other].dupe
      PROVE  Collapses(id)
  <2> DEFINE Same == {o \in Ids : /\ OnFile(o) /\ RoleOf[o] = RoleOf[id]
                                  /\ jobs[o].status # "duplicate"}
  <2>1. other \in Same
    BY <1>2, <1>5 DEF SoundRows
  <2>2. id \notin Same
    OBVIOUS
  <2>3. \E oldest \in Same : \A third \in Same : filed[oldest] <= filed[third]
    BY <2>1, OneIsOldest
  <2> QED BY <2>2, <2>3 DEF Collapses
<1>6. OneRecordPerRole'
  <2> SUFFICES ASSUME NEW i \in Ids, NEW j \in Ids, OnFile(i)', OnFile(j)',
                      RoleOf[i] = RoleOf[j], ~jobs'[i].dupe, ~jobs'[j].dupe, i # j
               PROVE  FALSE
    BY DEF OneRecordPerRole
  <2>1. ASSUME NEW other \in Ids \ {id}
        PROVE  jobs'[other] = jobs[other] /\ (OnFile(other)' <=> OnFile(other))
    BY <1>2 DEF OnFile
  <2>2. CASE i # id /\ j # id
    BY <2>1, <2>2 DEF FiledInv, OneRecordPerRole
  <2>3. CASE i = id
    BY <1>2, <1>5, <2>1, <2>3
  <2>4. CASE j = id
    BY <1>2, <1>5, <2>1, <2>4
  <2> QED BY <2>2, <2>3, <2>4
<1> QED BY <1>4, <1>6 DEF FiledInv

LEMMA FiledByPrune ==
  ASSUME TableInv, FiledInv, NEW p \in Passes, Prune(p)
  PROVE  FiledInv'
<1>1. PICK old \in SUBSET Ids :
        /\ jobs' = [id \in Ids |-> IF id \in old THEN Absent ELSE jobs[id]]
        /\ filed' = [id \in Ids |->
                       IF id \in old THEN 0
                       ELSE Cardinality({other \in Ids \ old : filed[other] \in 1 .. filed[id]})]
  BY DEF Prune, With
<1> DEFINE upTo(id) == {other \in Ids \ old : filed[other] \in 1 .. filed[id]}
<1>2. filed \in [Ids -> 0 .. Cardinality(Ids)] /\ Cardinality(Ids) \in Nat
  BY PostingsAssumption, FS_CardinalityType DEF FiledInv
<1>3. ASSUME NEW id \in Ids
      PROVE  IsFiniteSet(upTo(id)) /\ Cardinality(upTo(id)) \in 0 .. Cardinality(Ids)
  <2>1. upTo(id) \in SUBSET Ids /\ IsFiniteSet(Ids)
    BY PostingsAssumption
  <2>2. IsFiniteSet(upTo(id)) /\ Cardinality(upTo(id)) <= Cardinality(Ids)
    BY <2>1, FS_Subset
  <2> QED BY <1>2, <2>2, FS_CardinalityType
<1>4. ASSUME NEW id \in Ids \ old
      PROVE  Cardinality(upTo(id)) # 0 <=> filed[id] # 0
  <2>1. filed[id] # 0 => id \in upTo(id)
    BY <1>2
  <2>2. filed[id] = 0 => upTo(id) = {}
    OBVIOUS
  <2>3. Cardinality(upTo(id)) = 0 <=> upTo(id) = {}
    BY <1>3, FS_EmptySet
  <2> QED BY <2>1, <2>2, <2>3
<1>5. \A id \in Ids : filed'[id] = IF id \in old THEN 0 ELSE Cardinality(upTo(id))
  BY <1>1
<1>6. filed' = [id \in Ids |-> filed'[id]]
  BY <1>1
<1> HIDE DEF upTo
<1>7. filed' \in [Ids -> 0 .. Cardinality(Ids)]
  BY <1>2, <1>3, <1>5, <1>6
<1>8. \A id \in Ids : OnFile(id)' <=> OnFile(id) /\ id \notin old
  BY <1>1 DEF OnFile, Absent
<1>9. \A id \in Ids : OnFile(id)' <=> filed'[id] # 0
  BY <1>4, <1>5, <1>8 DEF FiledInv
<1>10. OneRecordPerRole'
  <2>1. \A id \in Ids \ old : jobs'[id] = jobs[id]
    BY <1>1
  <2> QED BY <1>8, <2>1 DEF FiledInv, OneRecordPerRole
<1> QED BY <1>7, <1>9, <1>10 DEF FiledInv

(* The statements of a pass write no row that was not there, and none of   *)
(* them looks at whose duplicate it is.                                    *)
LEMMA StatementsKeepFiled ==
  ASSUME TableInv, UNCHANGED filed,
         \/ UNCHANGED jobs
         \/ \E ids \in SUBSET Ids : jobs' = Unjudge(ids) /\ \A id \in ids : OnFile(id)
         \/ \E id \in Ids : \E key : jobs' = SetTriage(id, key)
         \/ \E id \in Ids, status \in Statuses : \E stage, code, key :
              jobs' = SetVerdict(id, status, stage, code, key)
  PROVE  KeepsFiled
<1>1. jobs \in [Ids -> SoundRows] /\ "absent" \notin Statuses
  BY DEF TableInv, Statuses
<1>2. CASE UNCHANGED jobs
  BY <1>2 DEF KeepsFiled, OnFile
<1>3. ASSUME NEW ids \in SUBSET Ids, jobs' = Unjudge(ids), \A id \in ids : OnFile(id)
      PROVE  KeepsFiled
  <2>1. ASSUME NEW id \in Ids
        PROVE  jobs'[id].dupe = jobs[id].dupe /\ (OnFile(id)' <=> OnFile(id))
    BY <1>1, <1>3 DEF Unjudge, OnFile, SoundRows, Rows
  <2> QED BY <2>1 DEF KeepsFiled
<1>4. ASSUME NEW id \in Ids, NEW key, jobs' = SetTriage(id, key)
      PROVE  KeepsFiled
  BY <1>1, <1>4 DEF SetTriage, KeepsFiled, OnFile, SoundRows, Rows
<1>5. ASSUME NEW id \in Ids, NEW status \in Statuses, NEW stage, NEW code, NEW key,
             jobs' = SetVerdict(id, status, stage, code, key)
      PROVE  KeepsFiled
  <2> DEFINE row == [jobs[id] EXCEPT !.status = status, !.stage = stage, !.code = code,
                                     !.key = key, !.waited = FALSE]
  <2>1. row.status = status /\ row.dupe = jobs[id].dupe
    BY <1>1 DEF SoundRows, Rows
  <2>2. jobs' = IF OnFile(id) THEN [jobs EXCEPT ![id] = row] ELSE jobs
    BY <1>5 DEF SetVerdict
  <2> HIDE DEF row
  <2> QED BY <1>1, <2>1, <2>2 DEF KeepsFiled, OnFile
<1> QED BY <1>2, <1>3, <1>4, <1>5

LEMMA PassesKeepFiled ==
  ASSUME TableInv, NEW p \in Passes, PassStep(p), ~Prune(p)
  PROVE  KeepsFiled
<1> DEFINE held == pass[p]
<1>1. held.slice \subseteq Ids /\ jobs \in [Ids -> SoundRows] /\ "skipped" \in Statuses
  BY DEF TableInv, PassRecords, Statuses
<1>2. UNCHANGED filed
  BY DEF PassStep, Invalidate, Expire, ReadUntriaged, Gate, TriageAsk, TriageAnswered,
         TriageCommit, ReadReady, DeepAsk, DeepAnswered, DeepCommit, Review, Correct, Answered,
         postings
<1>3. CASE Invalidate(p)
  <2> DEFINE gone == {id \in With(Live) : jobs[id].code \notin held.codes \cup {NoCode}}
  <2>1. gone \in SUBSET Ids /\ \A id \in gone : OnFile(id)
    BY DEF With, Live, OnFile
  <2>2. jobs' = Unjudge(gone)
    BY <1>3 DEF Invalidate
  <2> QED BY <1>2, <2>1, <2>2, StatementsKeepFiled
<1>4. CASE Expire(p)
  <2>1. jobs' = [id \in Ids |-> IF jobs[id].waited
                                THEN [jobs[id] EXCEPT !.body = TRUE, !.waited = FALSE]
                                ELSE jobs[id]]
    BY <1>4 DEF Expire
  <2>2. ASSUME NEW row \in SoundRows
        PROVE  /\ [row EXCEPT !.body = TRUE, !.waited = FALSE].status = row.status
               /\ [row EXCEPT !.body = TRUE, !.waited = FALSE].dupe = row.dupe
    BY DEF SoundRows, Rows
  <2> QED BY <1>1, <1>2, <2>1, <2>2 DEF KeepsFiled, OnFile
<1>5. ASSUME NEW id \in held.slice, Verdict(p, id)
      PROVE  KeepsFiled
  <2>1. PICK status \in {"inbox", "manual", "skipped"} : \E code \in held.codes :
          jobs' = SetVerdict(id, status, "deep", code, held.codes)
    BY <1>5 DEF Verdict
  <2>2. status \in Statuses /\ id \in Ids
    BY <1>1 DEF Statuses
  <2> QED BY <1>2, <2>1, <2>2, StatementsKeepFiled
<1>6. CASE Gate(p) \/ TriageCommit(p)
  <2>1. \/ UNCHANGED jobs
        \/ \E id \in held.slice :
             \/ jobs' = SetVerdict(id, "skipped", "triage", NoCode, held.codes)
             \/ jobs' = SetTriage(id, held.codes)
    BY <1>6 DEF Gate, TriageCommit
  <2> QED BY <1>1, <1>2, <2>1, StatementsKeepFiled
<1>7. CASE DeepCommit(p) \/ Correct(p)
  <2>1. UNCHANGED jobs \/ \E id \in held.slice : Verdict(p, id)
    BY <1>7 DEF DeepCommit, Correct
  <2> QED BY <1>2, <1>5, <2>1, StatementsKeepFiled
<1>8. CASE \/ ReadUntriaged(p) \/ TriageAsk(p) \/ TriageAnswered(p) \/ ReadReady(p)
           \/ DeepAsk(p) \/ DeepAnswered(p) \/ Review(p)
  <2>1. UNCHANGED jobs
    BY <1>8 DEF ReadUntriaged, TriageAsk, TriageAnswered, ReadReady, DeepAsk, DeepAnswered,
                Answered, Review, postings
  <2> QED BY <1>2, <2>1, StatementsKeepFiled
<1> QED BY <1>3, <1>4, <1>6, <1>7, <1>8 DEF PassStep

(* The harvest and a request to open file what is no duplicate, or mark it *)
(* as one; nobody else files anything.                                     *)
LEMMA PostingsFile ==
  ASSUME TableInv, FiledInv, PostingsNext
  PROVE  FiledInv'
<1> PICK id \in Ids : \/ Ingest(id) \/ OpenRead(id) \/ OpenWrite(id) \/ Move(id)
                      \/ OutcomeRead(id) \/ OutcomeWrite(id) \/ Describe(id) \/ Waits(id)
  BY DEF PostingsNext
<1>1. jobs \in [Ids -> SoundRows] /\ "absent" \notin Statuses
  BY DEF TableInv, Statuses
<1>2. CASE UNCHANGED <<jobs, filed>>
  BY <1>2, StatementsKeepFiled, FiledIsKept
<1>3. ASSUME NEW row, jobs' = [jobs EXCEPT ![id] = row], UNCHANGED filed, OnFile(id),
             row.status # "absent", row.dupe = jobs[id].dupe
      PROVE  FiledInv'
  BY <1>1, <1>3, FiledIsKept DEF KeepsFiled, OnFile
<1>4. DuplicateOf(id).dupe /\ DuplicateOf(id).status = "duplicate"
  BY DEF DuplicateOf, Absent
<1>5. ASSUME NEW code, NEW row \in SoundRows
      PROVE  ByHand(row, code).status = "opened" /\ ByHand(row, code).dupe = row.dupe
  BY DEF ByHand, SoundRows, Rows
<1>6. Absent \in SoundRows /\ Absent.dupe = FALSE
  BY DEF Absent, SoundRows, Rows, Statuses, Stages, NoKey
<1>7. CASE Ingest(id)
  <2> DEFINE base == IF Collapses(id) THEN DuplicateOf(id) ELSE [Absent EXCEPT !.status = "new"]
  <2>1. PICK body \in BOOLEAN : ~OnFile(id) /\ Insert(id, [base EXCEPT !.body = body])
    BY <1>7 DEF Ingest
  <2>2. [base EXCEPT !.body = body].status # "absent"
    BY DEF DuplicateOf, Absent
  <2>3. Collapses(id) => [base EXCEPT !.body = body].dupe
    BY DEF DuplicateOf, Absent
  <2> HIDE DEF base
  <2> QED BY <2>1, <2>2, <2>3, FiledByInsert
<1>8. CASE OpenWrite(id)
  <2>1. CASE ~OnFile(id) /\ Collapses(id) /\ Insert(id, DuplicateOf(id))
    BY <1>4, <2>1, FiledByInsert
  <2>2. ASSUME NEW code, ~OnFile(id), ~Collapses(id), Insert(id, ByHand(Absent, code))
        PROVE  FiledInv'
    <3>1. ByHand(Absent, code).status # "absent"
      BY <1>5, <1>6
    <3> QED BY <2>2, <3>1, FiledByInsert
  <2>3. ASSUME NEW code, jobs[id].status = "new", UNCHANGED filed,
               jobs' = [jobs EXCEPT ![id] = ByHand(jobs[id], code)]
        PROVE  FiledInv'
    <3>1. /\ ByHand(jobs[id], code).status # "absent"
          /\ ByHand(jobs[id], code).dupe = jobs[id].dupe
      BY <1>1, <1>5
    <3>2. OnFile(id)
      BY <2>3 DEF OnFile
    <3> QED BY <1>3, <2>3, <3>1, <3>2
  <2>4. \/ UNCHANGED <<jobs, filed>>
        \/ ~OnFile(id) /\ Collapses(id) /\ Insert(id, DuplicateOf(id))
        \/ \E code : \/ ~OnFile(id) /\ ~Collapses(id) /\ Insert(id, ByHand(Absent, code))
                     \/ /\ jobs[id].status = "new" /\ UNCHANGED filed
                        /\ jobs' = [jobs EXCEPT ![id] = ByHand(jobs[id], code)]
    BY <1>8 DEF OpenWrite
  <2> QED BY <1>2, <2>1, <2>2, <2>3, <2>4
<1>9. CASE Move(id) \/ OutcomeWrite(id)
  <2>1. \/ UNCHANGED <<jobs, filed>>
        \/ \E status \in Statuses :
             /\ UNCHANGED filed /\ OnFile(id)
             /\ jobs' = [jobs EXCEPT ![id] = [jobs[id] EXCEPT !.status = status, !.waited = FALSE]]
    BY <1>9 DEF Move, OutcomeWrite, Statuses
  <2>2. ASSUME NEW status \in Statuses
        PROVE  /\ [jobs[id] EXCEPT !.status = status, !.waited = FALSE].status # "absent"
               /\ [jobs[id] EXCEPT !.status = status, !.waited = FALSE].dupe = jobs[id].dupe
    BY <1>1 DEF SoundRows, Rows
  <2> QED BY <1>2, <1>3, <2>1, <2>2
<1>10. CASE Describe(id) \/ Waits(id)
  <2>1. /\ UNCHANGED filed /\ OnFile(id)
        /\ \/ jobs' = [jobs EXCEPT ![id] = [jobs[id] EXCEPT !.body = TRUE, !.waited = FALSE]]
           \/ jobs' = [jobs EXCEPT ![id] = [jobs[id] EXCEPT !.waited = TRUE]]
    BY <1>10 DEF Describe, Waits, OnFile
  <2>2. /\ [jobs[id] EXCEPT !.body = TRUE, !.waited = FALSE].status = jobs[id].status
        /\ [jobs[id] EXCEPT !.body = TRUE, !.waited = FALSE].dupe = jobs[id].dupe
        /\ [jobs[id] EXCEPT !.waited = TRUE].status = jobs[id].status
        /\ [jobs[id] EXCEPT !.waited = TRUE].dupe = jobs[id].dupe
    BY <1>1 DEF SoundRows, Rows
  <2> QED BY <1>3, <2>1, <2>2 DEF OnFile
<1>11. CASE OpenRead(id) \/ OutcomeRead(id)
  BY <1>2, <1>11 DEF OpenRead, OutcomeRead
<1> QED BY <1>7, <1>8, <1>9, <1>10, <1>11

-----------------------------------------------------------------------------
(* The calls of a round.  What a pass may still ask without a look at the  *)
(* ceiling, counted in slots of which each pass has DeepBatch + 2: a call  *)
(* takes one, and only a batch below the ceiling takes new ones.           *)

Reviewed == {"deep.asked", "deep.commit", "review", "correct"}

Owed(held) ==
  LET slice == Cardinality(held.slice)
      judged == Cardinality(held.judged)
  IN  CASE held.phase = "triage.asked" -> 1
        [] held.phase = "deep.asked"   -> 2 + slice
        [] held.phase = "deep.commit"  -> 1 + slice + judged
        [] held.phase = "review"       -> 1 + judged
        [] held.phase = "correct"      -> slice
        [] OTHER                       -> 0

FitsBatch(held) ==
  /\ held.phase \in Reviewed => Cardinality(held.slice) + Cardinality(held.judged) <= DeepBatch
  /\ held.phase \notin {"deep.commit", "review"} => held.judged = {}

Slots == {slot \in Passes \X (1 .. DeepBatch + 2) : slot[2] <= Owed(pass[slot[1]])}

CallsInv ==
  /\ \A p \in Passes : FitsBatch(pass[p])
  /\ calls + Cardinality(Slots) <= Ceiling + Cardinality(Passes) * (DeepBatch + 2)

LEMMA SetsOfPassesAreFinite ==
  ASSUME NEW held \in PassRecords
  PROVE  /\ \A some \in SUBSET held.todo : IsFiniteSet(some) /\ Cardinality(some) \in Nat
         /\ \A some \in SUBSET held.slice :
              /\ IsFiniteSet(some) /\ Cardinality(some) \in Nat
              /\ Cardinality(some) <= Cardinality(held.slice)
         /\ \A some \in SUBSET held.judged :
              /\ IsFiniteSet(some) /\ Cardinality(some) \in Nat
              /\ Cardinality(some) <= Cardinality(held.judged)
         /\ IsFiniteSet(held.slice) /\ Cardinality(held.slice) \in Nat
         /\ IsFiniteSet(held.judged) /\ Cardinality(held.judged) \in Nat
<1>1. IsFiniteSet(Ids) /\ held.slice \in SUBSET Ids /\ held.judged \in SUBSET Ids
      /\ held.todo \in SUBSET Ids
  BY PostingsAssumption DEF PassRecords
<1>2. IsFiniteSet(held.slice) /\ IsFiniteSet(held.judged) /\ IsFiniteSet(held.todo)
  BY <1>1, FS_Subset
<1> QED BY <1>2, FS_Subset, FS_CardinalityType

(* What a step of a pass does to what it owes. *)
OwesLess(p) ==
  \/ calls' = calls /\ Owed(pass'[p]) <= Owed(pass[p])
  \/ Charge /\ Owed(pass'[p]) < Owed(pass[p])
  \/ calls' = calls /\ calls < Ceiling

LEMMA PassesPay ==
  ASSUME TableInv, NEW p \in Passes, FitsBatch(pass[p]), PassStep(p) \/ Begin(p)
  PROVE  FitsBatch(pass'[p]) /\ OwesLess(p)
<1> DEFINE held == pass[p]
           s == Cardinality(held.slice)
           j == Cardinality(held.judged)
<1>1. /\ held \in PassRecords /\ DeepBatch \in Nat /\ Ceiling \in Nat /\ calls \in Nat
      /\ s \in Nat /\ j \in Nat /\ IsFiniteSet(held.slice) /\ IsFiniteSet(held.judged)
  BY ScreeningAssumption, SetsOfPassesAreFinite DEF TableInv
<1>2. ASSUME NEW rec, Holds(p, rec) PROVE pass'[p] = rec
  BY <1>2 DEF Holds, TableInv
<1>3. Cardinality({}) = 0
  BY FS_EmptySet
<1>4. Owed(held) \in Nat
  BY <1>1 DEF Owed
(* A step to where nothing is owed, and one that also makes a call. *)
<1> DEFINE Rests(rec) == rec.phase \notin Reviewed \cup {"triage.asked"} /\ rec.judged = {}
<1>5. ASSUME NEW rec, Holds(p, rec), Rests(rec)
      PROVE  FitsBatch(pass'[p]) /\ Owed(pass'[p]) = 0
  BY <1>2, <1>5 DEF FitsBatch, Owed, Reviewed
<1>6. ASSUME NEW rec, Holds(p, rec), Rests(rec), UNCHANGED calls
      PROVE  FitsBatch(pass'[p]) /\ OwesLess(p)
  BY <1>4, <1>5, <1>6 DEF OwesLess
<1>7. ASSUME NEW rec, Holds(p, rec), Rests(rec), Charge, Owed(held) > 0
      PROVE  FitsBatch(pass'[p]) /\ OwesLess(p)
  BY <1>4, <1>5, <1>7 DEF OwesLess
<1>8. Rests(Resting)
  BY DEF Resting, Reviewed
<1>9. CASE \/ Begin(p) \/ Invalidate(p) \/ Prune(p) \/ Expire(p) \/ ReadUntriaged(p) \/ Gate(p)
           \/ TriageCommit(p) \/ ReadReady(p)
  <2>1. held.judged = {}
    BY <1>9 DEF Begin, Invalidate, Prune, Expire, ReadUntriaged, Gate, TriageCommit, ReadReady,
                In, FitsBatch
  <2>2. UNCHANGED calls
    BY <1>9 DEF Begin, Invalidate, Prune, Expire, ReadUntriaged, Gate, TriageCommit, ReadReady
  <2>3. CASE Begin(p) \/ ReadUntriaged(p) \/ ReadReady(p)
    <3>1. ASSUME NEW codes, NEW slice, NEW todo
          PROVE  /\ Rests([held EXCEPT !.phase = "invalidate", !.codes = codes])
                 /\ Rests([held EXCEPT !.phase = "gate", !.slice = slice, !.todo = todo])
                 /\ Rests([held EXCEPT !.phase = "deep", !.todo = todo])
      BY <1>1, <2>1 DEF PassRecords, Reviewed
    <3> HIDE DEF Rests
    <3> QED BY <1>6, <2>2, <2>3, <3>1 DEF Begin, ReadUntriaged, ReadReady
  <2>4. CASE Invalidate(p) \/ Prune(p) \/ Expire(p)
    <3>1. ASSUME NEW phase \in {"prune", "expire", "triage.read"}
          PROVE  Rests([held EXCEPT !.phase = phase])
      BY <1>1, <2>1, <3>1 DEF PassRecords, Reviewed
    <3> HIDE DEF Rests
    <3> QED BY <1>6, <2>2, <2>4, <3>1 DEF Invalidate, Prune, Expire, Phase
  <2>5. CASE Gate(p) \/ TriageCommit(p)
    <3>1. held.phase \in {"gate", "triage.commit"}
      BY <2>5 DEF Gate, TriageCommit, In
    <3>2. ASSUME NEW slice
          PROVE  /\ Rests([held EXCEPT !.slice = slice])
                 /\ Rests([held EXCEPT !.phase = "triage"])
                 /\ Rests([held EXCEPT !.phase = "triage", !.slice = slice])
      BY <1>1, <2>1, <3>1 DEF PassRecords, Reviewed
    <3> HIDE DEF Rests
    <3> QED BY <1>6, <2>2, <2>5, <3>2 DEF Gate, TriageCommit, Phase
  <2> QED BY <1>9, <2>3, <2>4, <2>5
<1>10. CASE TriageAsk(p)
  <2>1. held.judged = {} /\ UNCHANGED calls
    BY <1>10 DEF TriageAsk, In, FitsBatch
  <2>2. ASSUME NEW stopped, Holds(p, [held EXCEPT !.phase = "deep.read", !.stopped = stopped])
        PROVE  FitsBatch(pass'[p]) /\ OwesLess(p)
    <3>1. Rests([held EXCEPT !.phase = "deep.read", !.stopped = stopped])
      BY <1>1, <2>1 DEF PassRecords, Reviewed
    <3> HIDE DEF Rests
    <3> QED BY <1>6, <2>1, <2>2, <3>1
  <2>3. ASSUME NEW batch, NEW todo, ~Stops(p),
               Holds(p, [held EXCEPT !.phase = "triage.asked", !.slice = batch, !.todo = todo])
        PROVE  FitsBatch(pass'[p]) /\ OwesLess(p)
    <3>1. pass'[p].phase = "triage.asked" /\ pass'[p].judged = {}
      BY <1>1, <1>2, <2>1, <2>3 DEF PassRecords
    <3>2. calls < Ceiling
      BY <1>1, <2>3 DEF Stops, CeilingReached
    <3> QED BY <2>1, <3>1, <3>2 DEF FitsBatch, OwesLess, Reviewed
  <2> QED BY <1>10, <2>2, <2>3 DEF TriageAsk
<1>11. CASE TriageAnswered(p)
  <2>1. held.phase = "triage.asked" /\ held.judged = {}
    BY <1>11 DEF TriageAnswered, Answered, In, FitsBatch
  <2>2. Owed(held) > 0
    BY <2>1 DEF Owed
  <2>3. Rests([held EXCEPT !.phase = "triage.commit"])
    BY <1>1, <2>1 DEF PassRecords, Reviewed
  <2> HIDE DEF Rests
  <2> QED BY <1>6, <1>7, <1>8, <1>11, <2>2, <2>3 DEF TriageAnswered, Answered, Ends, Phase
<1>12. CASE DeepAsk(p)
  <2>1. held.judged = {} /\ UNCHANGED calls
    BY <1>12 DEF DeepAsk, In, FitsBatch
  <2>2. CASE Ends(p)
    BY <1>6, <1>8, <2>1, <2>2 DEF Ends
  <2>3. ASSUME ~Stops(p), NEW batch \in Taken(held.todo, DeepBatch),
               Holds(p, [held EXCEPT !.phase = "deep.asked", !.slice = batch, !.todo = @ \ batch])
        PROVE  FitsBatch(pass'[p]) /\ OwesLess(p)
    <3>1. /\ pass'[p].phase = "deep.asked" /\ pass'[p].judged = {}
          /\ pass'[p].slice = batch
      BY <1>1, <1>2, <2>1, <2>3 DEF PassRecords
    <3>2. calls < Ceiling
      BY <1>1, <2>3 DEF Stops, CeilingReached
    <3>3. Cardinality(batch) <= DeepBatch /\ Cardinality(batch) \in Nat
      <4>1. batch \in SUBSET held.todo /\ held.todo \in SUBSET held.todo
        BY DEF Taken
      <4>2. Cardinality(batch) \in Nat /\ Cardinality(held.todo) \in Nat
        BY <1>1, <4>1, SetsOfPassesAreFinite
      <4> QED BY <1>1, <4>2 DEF Taken
    <3> QED BY <1>1, <1>3, <2>1, <3>1, <3>2, <3>3 DEF FitsBatch, OwesLess, Reviewed
  <2> QED BY <1>12, <2>2, <2>3 DEF DeepAsk
<1>13. CASE DeepAnswered(p)
  <2>1. held.phase = "deep.asked" /\ held.judged = {} /\ s <= DeepBatch
    BY <1>1, <1>3, <1>13 DEF DeepAnswered, Answered, In, FitsBatch, Reviewed
  <2>2. Owed(held) = 2 + s
    BY <2>1 DEF Owed
  <2>3. ASSUME Charge, Phase(p, "deep.commit") PROVE FitsBatch(pass'[p]) /\ OwesLess(p)
    <3>1. /\ pass'[p].phase = "deep.commit" /\ pass'[p].judged = {}
          /\ pass'[p].slice = held.slice
      BY <1>1, <1>2, <2>1, <2>3 DEF PassRecords, Phase
    <3>2. Owed(pass'[p]) = 1 + s
      BY <1>1, <1>3, <3>1 DEF Owed
    <3>3. FitsBatch(pass'[p])
      BY <1>1, <1>3, <2>1, <3>1 DEF FitsBatch
    <3> QED BY <1>1, <2>2, <2>3, <3>2, <3>3 DEF OwesLess
  <2>4. Owed(held) > 0
    BY <1>1, <2>2
  <2> HIDE DEF Rests
  <2> QED BY <1>6, <1>7, <1>8, <1>13, <2>3, <2>4 DEF DeepAnswered, Answered, Ends
<1>14. CASE DeepCommit(p)
  <2>1. held.phase = "deep.commit" /\ s + j <= DeepBatch /\ UNCHANGED calls
    BY <1>14 DEF DeepCommit, In, FitsBatch, Reviewed
  <2>2. Owed(held) = 1 + s + j
    BY <2>1 DEF Owed
  <2>3. ASSUME NEW id \in held.slice,
               Holds(p, [held EXCEPT !.slice = @ \ {id}, !.judged = @ \cup {id}])
        PROVE  FitsBatch(pass'[p]) /\ OwesLess(p)
    <3>1. /\ pass'[p].phase = "deep.commit" /\ pass'[p].judged = held.judged \cup {id}
          /\ pass'[p].slice = held.slice \ {id}
      BY <1>1, <1>2, <2>1, <2>3 DEF PassRecords
    <3>2. Cardinality(held.slice \ {id}) = s - 1
      BY <1>1, FS_RemoveElement
    <3>3. Cardinality(held.judged \cup {id}) \in {j, j + 1}
      BY <1>1, FS_AddElement
    <3>4. Owed(pass'[p]) <= 1 + s + j
      BY <1>1, <3>1, <3>2, <3>3 DEF Owed
    <3>5. FitsBatch(pass'[p])
      BY <1>1, <2>1, <3>1, <3>2, <3>3 DEF FitsBatch
    <3> QED BY <2>1, <2>2, <3>4, <3>5 DEF OwesLess
  <2>4. ASSUME Holds(p, [held EXCEPT !.phase = IF held.judged = {} THEN "deep" ELSE "review",
                                     !.slice = {}])
        PROVE  FitsBatch(pass'[p]) /\ OwesLess(p)
    <3>1. /\ pass'[p].phase = IF held.judged = {} THEN "deep" ELSE "review"
          /\ pass'[p].judged = held.judged /\ pass'[p].slice = {}
      BY <1>1, <1>2, <2>4 DEF PassRecords
    <3>2. Owed(pass'[p]) <= 1 + j
      BY <1>1, <3>1 DEF Owed
    <3>3. FitsBatch(pass'[p])
      BY <1>1, <1>3, <2>1, <3>1 DEF FitsBatch, Reviewed
    <3>4. Owed(pass'[p]) \in Nat
      BY <1>1, <1>3, <3>1 DEF Owed
    <3> QED BY <1>1, <2>1, <2>2, <3>2, <3>3, <3>4 DEF OwesLess
  <2> QED BY <1>14, <2>3, <2>4 DEF DeepCommit
<1>15. CASE Review(p)
  <2>1. held.phase = "review" /\ s + j <= DeepBatch
    BY <1>15 DEF Review, In, FitsBatch, Reviewed
  <2>2. Owed(held) = 1 + j
    BY <2>1 DEF Owed
  <2>3. PICK flagged \in SUBSET held.judged :
          /\ Charge \/ calls' = calls
          /\ Holds(p, [held EXCEPT !.phase = IF flagged = {} THEN "deep" ELSE "correct",
                                   !.slice = flagged, !.judged = {}])
    BY <1>15 DEF Review
  <2>4. /\ pass'[p].phase = IF flagged = {} THEN "deep" ELSE "correct"
        /\ pass'[p].judged = {} /\ pass'[p].slice = flagged
    BY <1>1, <1>2, <2>3 DEF PassRecords
  <2>5. Cardinality(flagged) \in Nat /\ Cardinality(flagged) <= j
    BY <1>1, SetsOfPassesAreFinite
  <2>6. Owed(pass'[p]) \in Nat /\ Owed(pass'[p]) <= j
    BY <1>1, <2>4, <2>5 DEF Owed
  <2>7. FitsBatch(pass'[p])
    BY <1>1, <1>3, <2>1, <2>4, <2>5 DEF FitsBatch
  <2> QED BY <1>1, <2>2, <2>3, <2>6, <2>7 DEF OwesLess
<1>16. CASE Correct(p)
  <2>1. held.phase = "correct" /\ held.judged = {} /\ s <= DeepBatch
    BY <1>1, <1>3, <1>16 DEF Correct, In, FitsBatch, Reviewed
  <2>2. Owed(held) = s
    BY <2>1 DEF Owed
  <2>3. PICK id \in held.slice :
          /\ Charge \/ calls' = calls
          /\ Holds(p, [held EXCEPT !.phase = IF held.slice = {id} THEN "deep" ELSE "correct",
                                   !.slice = @ \ {id}])
    BY <1>16 DEF Correct
  <2>4. /\ pass'[p].phase = IF held.slice = {id} THEN "deep" ELSE "correct"
        /\ pass'[p].judged = {} /\ pass'[p].slice = held.slice \ {id}
    BY <1>1, <1>2, <2>1, <2>3 DEF PassRecords
  <2>5. Cardinality(held.slice \ {id}) = s - 1 /\ s - 1 \in Nat
    <3>1. Cardinality(held.slice \ {id}) = s - 1
      BY <1>1, FS_RemoveElement
    <3>2. Cardinality(held.slice \ {id}) \in Nat
      BY <1>1, SetsOfPassesAreFinite
    <3> QED BY <3>1, <3>2
  <2>6. Owed(pass'[p]) \in Nat /\ Owed(pass'[p]) <= s - 1
    BY <1>1, <2>4, <2>5 DEF Owed
  <2>7. FitsBatch(pass'[p])
    BY <1>1, <1>3, <2>1, <2>4, <2>5 DEF FitsBatch
  <2> QED BY <1>1, <2>2, <2>3, <2>6, <2>7 DEF OwesLess
<1> QED BY <1>9, <1>10, <1>11, <1>12, <1>13, <1>14, <1>15, <1>16 DEF PassStep

(* The slots are bounded, whatever the passes hold. *)
LEMMA SlotsAreBounded ==
  ASSUME NEW some \in SUBSET (Passes \X (1 .. DeepBatch + 2))
  PROVE  /\ IsFiniteSet(some) /\ Cardinality(some) \in Nat
         /\ Cardinality(Passes) * (DeepBatch + 2) \in Nat
         /\ Cardinality(some) <= Cardinality(Passes) * (DeepBatch + 2)
<1>1. /\ IsFiniteSet(Passes) /\ Cardinality(Passes) \in Nat /\ DeepBatch + 2 \in Nat
      /\ 1 \in Int /\ DeepBatch + 2 \in Int /\ ~(1 > DeepBatch + 2)
  BY ScreeningAssumption, FS_CardinalityType
<1>2. /\ IsFiniteSet(1 .. DeepBatch + 2)
      /\ Cardinality(1 .. DeepBatch + 2) = DeepBatch + 2
  <2>1. /\ IsFiniteSet(1 .. DeepBatch + 2)
        /\ Cardinality(1 .. DeepBatch + 2) = (DeepBatch + 2) - 1 + 1
    BY <1>1, FS_Interval
  <2> QED BY <1>1, <2>1
<1> DEFINE all == Passes \X (1 .. DeepBatch + 2)
           bound == Cardinality(Passes) * (DeepBatch + 2)
<1>3. IsFiniteSet(all) /\ Cardinality(all) = bound
  BY <1>1, <1>2, FS_Product
<1>4. some \in SUBSET all
  OBVIOUS
<1> HIDE DEF all
<1>5. IsFiniteSet(some) /\ Cardinality(some) <= Cardinality(all)
  BY <1>3, <1>4, FS_Subset
<1>6. Cardinality(some) \in Nat /\ Cardinality(all) \in Nat
  BY <1>3, <1>5, FS_CardinalityType
<1> QED BY <1>3, <1>5, <1>6

LEMMA StepsPay == TableInv /\ CallsInv /\ [Next]_vars => CallsInv'
<1> SUFFICES ASSUME TableInv, CallsInv, [Next]_vars PROVE CallsInv'
  OBVIOUS
<1> DEFINE most == Cardinality(Passes) * (DeepBatch + 2)
<1>0. /\ Slots \in SUBSET (Passes \X (1 .. DeepBatch + 2))
      /\ Slots' \in SUBSET (Passes \X (1 .. DeepBatch + 2))
  BY DEF Slots
<1>1. most \in Nat
  BY <1>0, SlotsAreBounded
<1>2. IsFiniteSet(Slots) /\ Cardinality(Slots) \in Nat /\ Cardinality(Slots) <= most
  BY <1>0, SlotsAreBounded
<1>3. IsFiniteSet(Slots') /\ Cardinality(Slots') \in Nat /\ Cardinality(Slots') <= most
  BY <1>0, SlotsAreBounded
<1>4. /\ pass \in [Passes -> PassRecords] /\ calls \in Nat /\ Ceiling \in Nat \ {0}
      /\ DeepBatch \in Nat
  BY ScreeningAssumption DEF TableInv
<1>5. calls + Cardinality(Slots) <= Ceiling + most /\ \A p \in Passes : FitsBatch(pass[p])
  BY DEF CallsInv
<1> HIDE DEF most
<1>6. ASSUME calls' + Cardinality(Slots') <= Ceiling + most, \A p \in Passes : FitsBatch(pass'[p])
      PROVE  CallsInv'
  BY <1>6 DEF CallsInv, most
<1>7. ASSUME UNCHANGED <<calls, pass>> PROVE CallsInv'
  <2>1. Slots' = Slots
    BY <1>7 DEF Slots
  <2> QED BY <1>5, <1>6, <1>7, <2>1
<1>8. ASSUME NEW p \in Passes, PassStep(p) \/ Begin(p) PROVE CallsInv'
  <2>1. FitsBatch(pass'[p]) /\ OwesLess(p)
    BY <1>5, <1>8, PassesPay
  <2>2. \A q \in Passes : q # p => pass'[q] = pass[q]
    BY <1>4, <1>8 DEF PassStep, Begin, Invalidate, Prune, Expire, ReadUntriaged, Gate, TriageAsk,
       TriageAnswered, TriageCommit, ReadReady, DeepAsk, DeepAnswered, DeepCommit, Review,
       Correct, Answered, Ends, Phase, Holds
  <2>3. \A q \in Passes : FitsBatch(pass'[q])
    BY <1>5, <2>1, <2>2
  <2>4. /\ Owed(pass[p]) \in Nat /\ Owed(pass'[p]) \in Nat
        /\ Owed(pass[p]) <= DeepBatch + 2
    <3>1. pass[p] \in PassRecords /\ pass'[p] \in PassRecords
      BY <1>4, <1>8, PassesStayTyped
    <3>2. ASSUME NEW held \in PassRecords
          PROVE  Owed(held) \in Nat /\ (FitsBatch(held) => Owed(held) <= DeepBatch + 2)
      <4>1. Cardinality(held.slice) \in Nat /\ Cardinality(held.judged) \in Nat
        BY SetsOfPassesAreFinite
      <4>2. held.phase = "deep.asked" /\ FitsBatch(held)
              => Cardinality(held.slice) <= DeepBatch
        BY <1>4, <4>1 DEF FitsBatch, Reviewed
      <4> QED BY <1>4, <4>1, <4>2 DEF Owed, FitsBatch, Reviewed
    <3> QED BY <1>5, <3>1, <3>2
  <2>5. CASE calls' = calls /\ Owed(pass'[p]) <= Owed(pass[p])
    <3>1. Slots' \in SUBSET Slots
      BY <1>4, <2>2, <2>4, <2>5 DEF Slots
    <3>2. Cardinality(Slots') <= Cardinality(Slots)
      BY <1>2, <3>1, FS_Subset
    <3> QED BY <1>1, <1>2, <1>3, <1>4, <1>5, <1>6, <2>3, <2>5, <3>2
  <2>6. CASE Charge /\ Owed(pass'[p]) < Owed(pass[p])
    <3> DEFINE paid == <<p, Owed(pass[p])>>
    <3>1. paid \in Slots
      BY <1>4, <2>4, <2>6 DEF Slots
    <3>2. Slots' \in SUBSET (Slots \ {paid})
      <4> SUFFICES ASSUME NEW q \in Passes, NEW k \in 1 .. DeepBatch + 2, k <= Owed(pass'[q])
                   PROVE  k <= Owed(pass[q]) /\ (q = p => k # Owed(pass[p]))
        BY DEF Slots
      <4>1. CASE q = p
        BY <1>4, <2>4, <2>6, <4>1
      <4>2. CASE q # p
        BY <2>2, <4>2
      <4> QED BY <4>1, <4>2
    <3>3. /\ IsFiniteSet(Slots \ {paid})
          /\ Cardinality(Slots \ {paid}) = Cardinality(Slots) - 1
      BY <1>2, <3>1, FS_RemoveElement
    <3>4. Cardinality(Slots') <= Cardinality(Slots \ {paid})
      BY <3>2, <3>3, FS_Subset
    <3>5. calls' \in Nat /\ calls' <= calls + 1
      BY <1>4, <2>6 DEF Charge
    <3> HIDE DEF paid
    <3> QED BY <1>1, <1>2, <1>3, <1>4, <1>5, <1>6, <2>3, <3>3, <3>4, <3>5
  <2>7. CASE calls' = calls /\ calls < Ceiling
    BY <1>1, <1>3, <1>4, <1>6, <2>3, <2>7
  <2> QED BY <2>1, <2>5, <2>6, <2>7 DEF OwesLess
<1>9. CASE RoundTurns
  <2>1. calls' \in {0, 1} /\ pass' = pass
    BY <1>9 DEF RoundTurns
  <2> QED BY <1>1, <1>3, <1>4, <1>5, <1>6, <2>1
<1>10. CASE Restart
  <2>1. pass' = [p \in Passes |-> Resting] /\ calls' = calls
    BY <1>10 DEF Restart
  <2>2. Owed(Resting) = 0 /\ FitsBatch(Resting)
    BY DEF Owed, Resting, FitsBatch, Reviewed
  <2>3. Slots' \in SUBSET Slots
    BY <1>4, <2>1, <2>2 DEF Slots
  <2>4. Cardinality(Slots') <= Cardinality(Slots)
    BY <1>2, <2>3, FS_Subset
  <2> QED BY <1>1, <1>2, <1>3, <1>4, <1>5, <1>6, <2>1, <2>2, <2>4
<1>11. CASE \/ PostingsNext /\ UNCHANGED screener
            \/ RescreenRead \/ RescreenReset \/ FolderChanges \/ UNCHANGED vars
  <2>1. UNCHANGED <<calls, pass>>
    BY <1>11 DEF screener, RescreenRead, RescreenReset, FolderChanges, vars
  <2> QED BY <1>7, <2>1
<1> QED BY <1>8, <1>9, <1>10, <1>11 DEF Next

LEMMA InitPays == Init => CallsInv
<1> SUFFICES ASSUME Init PROVE CallsInv
  OBVIOUS
<1>1. pass = [p \in Passes |-> Resting] /\ calls = 0 /\ Ceiling \in Nat
  BY ScreeningAssumption DEF Init
<1>2. FitsBatch(Resting)
  BY DEF Resting, FitsBatch, Reviewed
<1> DEFINE most == Cardinality(Passes) * (DeepBatch + 2)
<1>3. most \in Nat /\ Cardinality(Slots) \in Nat /\ Cardinality(Slots) <= most
  BY SlotsAreBounded DEF Slots
<1>4. \A p \in Passes : FitsBatch(pass[p])
  BY <1>1, <1>2
<1> HIDE DEF most
<1>5. calls + Cardinality(Slots) <= Ceiling + most
  BY <1>1, <1>3
<1> QED BY <1>4, <1>5 DEF CallsInv, most

-----------------------------------------------------------------------------
(* All steps, and the theorems.                                            *)

LEMMA StepsJudge == TableInv /\ [Next]_vars => TableInv' /\ OpensUnowned
<1> SUFFICES ASSUME TableInv, [Next]_vars PROVE TableInv' /\ OpensUnowned
  OBVIOUS
<1>1. ASSUME NEW p \in Passes, PassStep(p) PROVE TableInv' /\ OpensUnowned
  <2>1. UNCHANGED <<opening, noting, folder, resetting>>
    BY <1>1 DEF PassStep, Invalidate, Prune, Expire, ReadUntriaged, Gate, TriageAsk,
                TriageAnswered, TriageCommit, ReadReady, DeepAsk, DeepAnswered, DeepCommit,
                Review, Correct, Answered, postings
  <2>2. calls' = calls \/ Charge
    BY <1>1 DEF PassStep, Invalidate, Prune, Expire, ReadUntriaged, Gate, TriageAsk,
                TriageAnswered, TriageCommit, ReadReady, DeepAsk, DeepAnswered, DeepCommit,
                Review, Correct, Answered, postings
  <2>3. calls' \in Nat
    BY <2>2 DEF Charge, TableInv
  <2> QED BY <1>1, <2>1, <2>3, PassesStayTyped, PassesJudge DEF TableInv
<1>2. ASSUME NEW p \in Passes, Begin(p) PROVE TableInv' /\ OpensUnowned
  BY <1>2, PassesStayTyped, UntouchedDoNotOpen DEF Begin, TableInv, postings
<1>3. CASE PostingsNext /\ UNCHANGED screener
  BY <1>3, RequestsStayTyped, PostingsStepsJudge DEF TableInv, screener
<1>4. CASE RescreenReset
  <2> DEFINE stale == {id \in With({"inbox", "manual", "skipped"}) :
                         jobs[id].key \notin {NoKey, resetting}}
  <2>1. stale \subseteq Ids
    BY DEF With
  <2>2. /\ jobs' = Unjudge(stale) /\ resetting' = {}
        /\ UNCHANGED <<opening, noting, folder, calls, pass>>
    BY <1>4 DEF RescreenReset, NoKey
  <2> QED BY <2>1, <2>2, UnjudgedAreJudged, UnjudgedDoNotOpen DEF TableInv
<1>5. CASE RescreenRead \/ FolderChanges \/ RoundTurns
  BY <1>5, UntouchedDoNotOpen DEF RescreenRead, FolderChanges, RoundTurns, TableInv, postings
<1>6. CASE Restart
  <2>1. Resting \in PassRecords
    BY DEF Resting, PassRecords, Phases
  <2> QED BY <1>6, <2>1, UntouchedDoNotOpen DEF Restart, TableInv, NoKey
<1>7. CASE UNCHANGED vars
  BY <1>7, UntouchedDoNotOpen DEF vars, postings, screener, TableInv
<1> QED BY <1>1, <1>2, <1>3, <1>4, <1>5, <1>6, <1>7 DEF Next

LEMMA TableInvariant == Spec => []TableInv
BY InitTable, StepsJudge, PTL DEF Spec

LEMMA StepsFile == TableInv /\ FiledInv /\ [Next]_vars => FiledInv'
<1> SUFFICES ASSUME TableInv, FiledInv, [Next]_vars PROVE FiledInv'
  OBVIOUS
<1>1. CASE UNCHANGED <<jobs, filed>>
  BY <1>1, StatementsKeepFiled, FiledIsKept
<1>2. ASSUME NEW p \in Passes, PassStep(p) PROVE FiledInv'
  BY <1>2, FiledByPrune, PassesKeepFiled, FiledIsKept
<1>3. CASE PostingsNext
  BY <1>3, PostingsFile
<1>4. CASE RescreenReset
  <2> DEFINE stale == {id \in With({"inbox", "manual", "skipped"}) :
                         jobs[id].key \notin {NoKey, resetting}}
  <2>1. stale \in SUBSET Ids /\ \A id \in stale : OnFile(id)
    BY DEF With, OnFile
  <2>2. jobs' = Unjudge(stale) /\ UNCHANGED filed
    BY <1>4 DEF RescreenReset
  <2> QED BY <2>1, <2>2, StatementsKeepFiled, FiledIsKept
<1>5. ASSUME NEW p \in Passes, Begin(p) PROVE FiledInv'
  BY <1>1, <1>5 DEF Begin, postings
<1>6. CASE RescreenRead \/ FolderChanges \/ RoundTurns \/ Restart \/ UNCHANGED vars
  BY <1>1, <1>6 DEF RescreenRead, FolderChanges, RoundTurns, Restart, vars, postings
<1> QED BY <1>2, <1>3, <1>4, <1>5, <1>6 DEF Next

LEMMA InitFiled == Init => FiledInv
<1> SUFFICES ASSUME Init PROVE FiledInv
  OBVIOUS
<1>1. Cardinality(Ids) \in Nat
  BY PostingsAssumption, FS_CardinalityType
<1>2. \A id \in Ids : filed[id] = 0 /\ ~OnFile(id)
  BY DEF Init, PostingsInit, OnFile, Absent
<1>3. filed \in [Ids -> 0 .. Cardinality(Ids)]
  BY <1>1 DEF Init, PostingsInit
<1> QED BY <1>2, <1>3 DEF FiledInv, OneRecordPerRole

LEMMA FiledInvariant == Spec => []FiledInv
BY InitFiled, StepsFile, TableInvariant, PTL DEF Spec

(* Whatever is read, moved and pruned by whom in what order, the table,    *)
(* the order of filing and what requests and passes hold in memory keep    *)
(* their types, and what has a place is what is on file.                   *)
THEOREM ScreeningTypeCorrect == Spec => []TypeOK
<1>1. TableInv /\ FiledInv => TypeOK
  BY DEF TableInv, FiledInv, TypeOK, SoundRows, Kept
<1> QED BY <1>1, TableInvariant, FiledInvariant, PTL

(* However many postings of a role arrive, are opened, moved, judged and   *)
(* pruned, one of them at most was stored as an original.                  *)
THEOREM RolesHaveOneRecord == Spec => []OneRecordPerRole
<1>1. FiledInv => OneRecordPerRole
  BY DEF FiledInv
<1> QED BY <1>1, FiledInvariant, PTL

(* However many passes are under way and however rounds open, close and    *)
(* break off under them, a round is charged past its ceiling by one batch  *)
(* of each pass at most, with its review and its corrections.              *)
THEOREM OverrunIsBounded == Spec => []CeilingOverrun
<1>1. TableInv /\ CallsInv => CeilingOverrun
  <2> SUFFICES ASSUME TableInv, CallsInv PROVE CeilingOverrun
    OBVIOUS
  <2> DEFINE most == Cardinality(Passes) * (DeepBatch + 2)
  <2>1. /\ calls \in Nat /\ Ceiling \in Nat /\ most \in Nat /\ Cardinality(Slots) \in Nat
        /\ calls + Cardinality(Slots) <= Ceiling + most
    BY ScreeningAssumption, SlotsAreBounded DEF TableInv, CallsInv, Slots
  <2> HIDE DEF most
  <2>2. calls <= Ceiling + most
    BY <2>1
  <2> QED BY <2>2 DEF CeilingOverrun, most
<1> QED BY <1>1, InitPays, StepsPay, TableInvariant, PTL DEF Spec

(* However many passes, corrections, rescreens and folder changes race for *)
(* a posting, one in the person's lists of suggestions carries the verdict *)
(* that put it there, with a resume its fingerprint covers.                *)
THEOREM SuggestionsAreJudged == Spec => []JudgedCarriesVerdict
<1>1. TableInv => JudgedCarriesVerdict
  BY DEF TableInv, SoundRows, JudgedCarriesVerdict, With
<1> QED BY <1>1, TableInvariant, PTL

(* However stale the read of a request to open, it never takes over a      *)
(* posting that the agent already owns.                                    *)
THEOREM OpeningTakesNothingOver == Spec => OpenLeavesOwned
<1>1. TableInv /\ [Next]_vars => [OpensUnowned]_jobs
  BY StepsJudge
<1>2. OpenLeavesOwned <=> [][OpensUnowned]_jobs
  BY PTL DEF OpenLeavesOwned, OpensUnowned
<1> QED BY <1>1, <1>2, TableInvariant, PTL DEF Spec

=============================================================================
