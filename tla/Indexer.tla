------------------------------ MODULE Indexer ------------------------------
(***************************************************************************)
(* Indexing (routes/indexer/index.go, routes/setup): the resumes of the    *)
(* chosen folder are hashed, the ones without a stored profile are read by *)
(* the model in batches, the candidate is synthesised from all of them,    *)
(* and what no resume needs any more is pruned.  One run at a time; every  *)
(* statement, file and model call may fail, the person may change the      *)
(* files at any step, and the process may die between any two.             *)
(*                                                                         *)
(* A profile is known by its key, the code of the resume and the hash of   *)
(* its files; what it says is left out.                                    *)
(***************************************************************************)
EXTENDS ResumeFolder

CONSTANTS
  Dirs, NoDir, \* the folders of the disk, and none chosen
  Runners,     \* the requests and background tasks that may index
  MaxEdits     \* bound: changes the person makes to files

ASSUME IndexerAssumption == NoDir \notin Dirs /\ MaxEdits \in Nat

VARIABLES
  disk,      \* what the folders hold
  chosen,    \* resume_folder
  profiles,  \* resume_profiles: the keys stored
  candidate, \* candidate_profile: the keys it was synthesised from, {} for none
  run,       \* what each runner is doing
  edits

vars == <<disk, chosen, profiles, candidate, run, edits>>
stores == <<profiles, candidate>>
person == <<disk, chosen, edits>>

(* sources: a resume's key leaves out its role and the names of its files. *)
Sources(folder) == {[code |-> r.code, hash |-> r.files] : r \in Resumes(folder)}

(* Every folder's keys, worked out once. *)
Scans == {[folder |-> folder, keys |-> Sources(folder)] : folder \in Folders}
Keys == UNION {scan.keys : scan \in Scans}

Now == IF chosen = NoDir THEN {}
       ELSE (CHOOSE scan \in Scans : scan.folder = disk[chosen]).keys

(* "saving" and "storing" hold an answer of the model that is not yet      *)
(* stored.                                                                 *)
Phases == {"idle", "starting", "reading", "extracting", "profiling", "saving",
           "synthesising", "storing", "pruning"}

Runs ==
  [ phase   : Phases,
    force   : BOOLEAN,
    sources : SUBSET Keys,  \* hashed when the run began
    missing : SUBSET Keys,  \* without a profile
    batch   : SUBSET Keys ] \* answered and not stored yet

Idle == [phase |-> "idle", force |-> FALSE, sources |-> {}, missing |-> {}, batch |-> {}]

Init ==
  /\ disk \in [Dirs -> Folders]
  /\ chosen = NoDir
  /\ profiles = {} /\ candidate = {}
  /\ run = [r \in Runners |-> Idle]
  /\ edits = 0

Running == \E r \in Runners : run[r].phase # "idle"
At(r, phase) == run[r].phase = phase
Becomes(r, state) == run' = [run EXCEPT ![r] = state]
Goes(r, phase) == Becomes(r, [run[r] EXCEPT !.phase = phase])
Ends(r) == Becomes(r, Idle)

-----------------------------------------------------------------------------
(* Asking for a run *)

BeginBeside(r, force) ==
  At(r, "idle") /\ Becomes(r, [Idle EXCEPT !.phase = "starting", !.force = force])

(* begin: a second run is refused, by Start without a word. *)
Begin(r, force) ==
  /\ ~Running
  /\ Becomes(r, [Idle EXCEPT !.phase = "starting", !.force = force])

Index(r, force) ==
  /\ Begin(r, force)
  /\ UNCHANGED <<person, stores>>

(* SetFolder, then Start.  A folder without pdfs is refused. *)
ChooseFolder(dir) ==
  /\ Pdfs(disk[dir]) # {}
  /\ chosen' = dir
  /\ (\E r \in Runners : Begin(r, FALSE)) \/ (Running /\ UNCHANGED run)
  /\ UNCHANGED <<disk, stores, edits>>

-----------------------------------------------------------------------------
(* The run *)

(* A call of the run fails, or its budget is spent, or the process dies:   *)
(* what was stored so far stays.                                           *)
Fail(r) ==
  /\ ~At(r, "idle")
  /\ Ends(r)
  /\ UNCHANGED <<person, stores>>

(* sources: a folder without resumes is refused. *)
ReadSources(r) ==
  /\ At(r, "starting")
  /\ IF Now = {} THEN Ends(r)
     ELSE Becomes(r, [run[r] EXCEPT !.phase = "reading", !.sources = Now])
  /\ UNCHANGED <<person, stores>>

(* ReadStore as it would be if a code were enough to know a resume. *)
ReadStoreByCode(r) ==
  /\ At(r, "reading")
  /\ LET missing == {key \in run[r].sources : \A known \in profiles : known.code # key.code} IN
       IF ~run[r].force /\ missing = {} /\ candidate = run[r].sources
       THEN Ends(r)
       ELSE Becomes(r, [run[r] EXCEPT !.phase = "extracting", !.missing = missing])
  /\ UNCHANGED <<person, stores>>

(* index: a forced run takes every profile as missing, and only one that   *)
(* is not forced may end here (cached, finish).                            *)
ReadStore(r) ==
  /\ At(r, "reading")
  /\ LET missing == IF run[r].force THEN run[r].sources ELSE run[r].sources \ profiles IN
       IF ~run[r].force /\ missing = {} /\ candidate = run[r].sources
       THEN Ends(r)
       ELSE Becomes(r, [run[r] EXCEPT !.phase = "extracting", !.missing = missing])
  /\ UNCHANGED <<person, stores>>

Extract(r) ==
  /\ At(r, "extracting")
  /\ Goes(r, "profiling")
  /\ UNCHANGED <<person, stores>>

(* profile: a batch holds as many resumes as their length allows. *)
Profile(r) ==
  /\ At(r, "profiling")
  /\ \/ run[r].missing = {} /\ Goes(r, "synthesising")
     \/ \E batch \in (SUBSET run[r].missing) \ {{}} :
          Becomes(r, [run[r] EXCEPT !.phase = "saving", !.batch = batch])
  /\ UNCHANGED <<person, stores>>

(* SaveProfile as it would be if the loop did not go on. *)
SaveProfileAgain(r) ==
  /\ At(r, "saving")
  /\ \E key \in run[r].batch : profiles' = profiles \cup {key}
  /\ UNCHANGED <<person, candidate, run>>

(* SaveResumeProfile, one row at a time.  A resume the answer left out is  *)
(* stored with an empty profile all the same.                              *)
SaveProfile(r) ==
  /\ At(r, "saving")
  /\ \E key \in run[r].batch :
       /\ profiles' = profiles \cup {key}
       /\ Becomes(r, [run[r] EXCEPT
            !.phase = IF run[r].batch = {key} THEN "profiling" ELSE "saving",
            !.missing = @ \ {key}, !.batch = @ \ {key}])
  /\ UNCHANGED <<person, candidate>>

Synthesise(r) ==
  /\ At(r, "synthesising")
  /\ Goes(r, "storing")
  /\ UNCHANGED <<person, stores>>

(* persist: the candidate first ... *)
SaveCandidate(r) ==
  /\ At(r, "storing")
  /\ candidate' = run[r].sources
  /\ Goes(r, "pruning")
  /\ UNCHANGED <<person, profiles>>

(* Prune as it would be with the resumes the folder holds by now. *)
PruneNow(r) ==
  /\ At(r, "pruning")
  /\ profiles' = profiles \cap Now
  /\ Ends(r)
  /\ UNCHANGED <<person, candidate>>

(* ... then the prune, of what is not among the resumes the run began with *)
Prune(r) ==
  /\ At(r, "pruning")
  /\ profiles' = profiles \cap run[r].sources
  /\ Ends(r)
  /\ UNCHANGED <<person, candidate>>

RunStep(r) ==
  \/ ReadSources(r) \/ ReadStore(r) \/ Extract(r) \/ Profile(r) \/ SaveProfile(r)
  \/ Synthesise(r) \/ SaveCandidate(r) \/ Prune(r)

-----------------------------------------------------------------------------

(* The person writes, replaces or removes a pdf. *)
Edit(dir, i, content) ==
  /\ edits < MaxEdits
  /\ disk[dir][i] # content
  /\ disk' = [disk EXCEPT ![dir][i] = content]
  /\ edits' = edits + 1
  /\ UNCHANGED <<chosen, stores, run>>

Next ==
  \/ \E r \in Runners :
       RunStep(r) \/ Fail(r) \/ \E force \in BOOLEAN : Index(r, force)
  \/ \E dir \in Dirs :
       \/ ChooseFolder(dir)
       \/ \E i \in DOMAIN Entries, content \in 0 .. MaxContent : Edit(dir, i, content)

Spec == Init /\ [][Next]_vars

(* A run goes on by itself, for every call of it has its time limit. *)
FairSpec == Spec /\ \A r \in Runners : WF_vars(RunStep(r))

-----------------------------------------------------------------------------

(* The tables and the runs keep their types, and there is one run at a     *)
(* time (begin, end).                                                      *)
TypeOK ==
  /\ disk \in [Dirs -> Folders]
  /\ chosen \in Dirs \cup {NoDir}
  /\ profiles \subseteq Keys /\ candidate \subseteq Keys
  /\ run \in [Runners -> Runs]
  /\ \A r, q \in Runners : ~At(r, "idle") /\ ~At(q, "idle") => r = q
  /\ edits \in 0 .. MaxEdits

(* What the interface is told (State). *)
IndexState ==
  IF Now = {} \/ candidate = {} THEN "never"
  ELSE IF candidate = Now /\ Now \subseteq profiles THEN "current" ELSE "stale"

(* A code names one resume of its folder: File answers for the code a      *)
(* verdict carries with the only pdf it can mean (assignCode, Scan).       *)
OneResumePerCode ==
  \A dir \in Dirs : \A a, b \in Resumes(disk[dir]) : a.code = b.code => a.role = b.role

(* The candidate rests on profiles that are stored, through failed runs,   *)
(* runs over a folder that has changed since, and the death of the process *)
(* between the two statements of persist (persist, prune).                 *)
CandidateIsBacked == candidate \subseteq profiles

(* A model call that nobody forced never reads a resume again that has a   *)
(* stored profile, whoever else asked for a run meanwhile (begin, index).  *)
NoPaidTwice ==
  [][\A r \in Runners :
       run[r].batch = {} /\ ~run[r].force => run'[r].batch \cap profiles = {}]_vars

(* The interface calls an index stale only when the folder has changed     *)
(* since the run that made it, and never for a profile that was lost       *)
(* (State, persist).                                                       *)
StaleOnlyByChange == candidate = Now /\ Now # {} => IndexState = "current"

(* Every run ends, so that the next one is not refused for ever (end).     *)
EveryRunEnds == \A r \in Runners : ~At(r, "idle") ~> At(r, "idle")

=============================================================================
