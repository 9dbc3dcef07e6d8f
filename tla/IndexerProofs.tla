---------------------------- MODULE IndexerProofs ----------------------------
(***************************************************************************)
(* Proofs about indexing, for any folders, any requests and any edits.     *)
(*                                                                         *)
(* The candidate is backed by stored profiles only because of what a run   *)
(* has achieved by each of its phases: the keys it does not miss are       *)
(* stored, none is missing from the synthesis on, and what it is about to  *)
(* prune to is what it has just stored the candidate for.  All of it needs *)
(* that no other run prunes meanwhile.                                     *)
(*                                                                         *)
(* That a code names one resume needs no invariant, only the algorithm:    *)
(* the names are strictly ordered, so the codes are given out one after    *)
(* the other, and each is free, for there are fewer roles ahead than there *)
(* are numbers to fall back on.                                            *)
(***************************************************************************)
EXTENDS Indexer, SequenceTheorems, FiniteSetTheorems, WellFoundedInduction, TLAPS

Scanned == {"extracting", "profiling", "saving", "synthesising", "storing", "pruning"}
Profiled == {"synthesising", "storing", "pruning"}

(* What a run knows of the stores. *)
Knows(state, stored, made) ==
  /\ state.batch \subseteq state.missing /\ state.missing \subseteq state.sources
  /\ state.phase \notin Scanned => state.missing = {}
  /\ state.phase \in Scanned => state.sources \ state.missing \subseteq stored
  /\ state.phase \in Profiled => state.missing = {}
  /\ state.phase = "pruning" => made = state.sources
  /\ state.phase \in Scanned /\ ~state.force => state.missing \cap stored = {}

Stores(stored, made) == stored \subseteq Keys /\ made \subseteq stored

IndexInv ==
  /\ TypeOK
  /\ Stores(profiles, candidate)
  /\ \A r \in Runners : Knows(run[r], profiles, candidate)

(* A call of the model that nobody forced is about what has no profile. *)
PaysOnce ==
  \A r \in Runners :
    run[r].batch = {} /\ ~run[r].force => run'[r].batch \cap profiles = {}

-----------------------------------------------------------------------------

(* What the folder holds is among the keys. *)
LEMMA NowIsKeys ==
  ASSUME TypeOK
  PROVE  Now \subseteq Keys
<1>1. CASE chosen = NoDir
  BY <1>1 DEF Now
<1>2. CASE chosen # NoDir
  <2> DEFINE scan == CHOOSE s \in Scans : s.folder = disk[chosen]
  <2>1. disk[chosen] \in Folders
    BY <1>2 DEF TypeOK
  <2>2. \E s \in Scans : s.folder = disk[chosen]
    <3>1. [folder |-> disk[chosen], keys |-> Sources(disk[chosen])] \in Scans
      BY <2>1 DEF Scans
    <3> QED BY <3>1
  <2>3. scan \in Scans
    BY <2>2
  <2> QED BY <1>2, <2>3 DEF Now, Keys
<1> QED BY <1>1, <1>2

LEMMA IdleKnows ==
  ASSUME NEW stored, NEW made
  PROVE  Idle \in Runs /\ Knows(Idle, stored, made)
BY DEF Idle, Knows, Runs, Phases, Scanned, Profiled

(* The run that steps is the only one, and what it is left with decides.   *)
LEMMA OneRunMoves ==
  ASSUME IndexInv, UNCHANGED person, NEW r \in Runners, \A q \in Runners : q # r => At(q, "idle"),
         NEW state \in Runs, Becomes(r, state),
         Knows(state, profiles', candidate'), Stores(profiles', candidate'),
         run[r].batch = {} /\ ~run[r].force => state.batch \cap profiles = {}
  PROVE  IndexInv' /\ PaysOnce
<1>1. run' = [run EXCEPT ![r] = state] /\ run \in [Runners -> Runs]
  BY DEF Becomes, IndexInv, TypeOK
<1>2. run' \in [Runners -> Runs] /\ run'[r] = state /\ \A q \in Runners : q # r => run'[q] = run[q]
  BY <1>1
<1>3. \A q \in Runners : q # r => run[q].phase = "idle" /\ run[q].batch = {}
  BY DEF At, IndexInv, Knows, Scanned
<1>4. \A q \in Runners : q # r => Knows(run[q], profiles', candidate')
  BY <1>3 DEF IndexInv, Knows, Scanned, Profiled
<1>5. TypeOK'
  <2>1. \A p, q \in Runners : ~At(p, "idle")' /\ ~At(q, "idle")' => p = q
    BY <1>2, <1>3 DEF At
  <2> QED BY <1>2, <2>1 DEF IndexInv, TypeOK, Stores, person
<1>6. IndexInv'
  BY <1>2, <1>4, <1>5 DEF IndexInv
<1>7. PaysOnce
  BY <1>2, <1>3 DEF PaysOnce
<1> QED BY <1>6, <1>7

(* Each step of a run leaves it with what the next one relies on. *)
LEMMA RunStepsKeepIndexInv ==
  ASSUME IndexInv, NEW r \in Runners, RunStep(r)
  PROVE  IndexInv' /\ PaysOnce
<1>1. ~At(r, "idle")
  BY DEF RunStep, ReadSources, ReadStore, Extract, Profile, SaveProfile, Synthesise,
         SaveCandidate, Prune, At
<1>2. \A q \in Runners : q # r => At(q, "idle")
  BY <1>1 DEF IndexInv, TypeOK
<1>3. /\ run[r] \in Runs /\ Knows(run[r], profiles, candidate) /\ Stores(profiles, candidate)
      /\ Idle \in Runs /\ Knows(Idle, profiles, candidate) /\ Idle.batch = {}
  BY IdleKnows DEF IndexInv, TypeOK, Idle
<1> DEFINE s == run[r]
<1>4. UNCHANGED person
  BY DEF RunStep, ReadSources, ReadStore, Extract, Profile, SaveProfile, Synthesise,
         SaveCandidate, Prune
<1>5. ASSUME NEW next \in Runs, Becomes(r, next), UNCHANGED stores, Knows(next, profiles, candidate),
             s.batch = {} /\ ~s.force => next.batch \cap profiles = {}
      PROVE  IndexInv' /\ PaysOnce
  BY <1>2, <1>3, <1>4, <1>5, OneRunMoves DEF stores
<1>6. Ends(r) /\ UNCHANGED stores => IndexInv' /\ PaysOnce
  BY <1>3, <1>5 DEF Ends
<1>7. CASE ReadSources(r)
  <2> DEFINE next == [s EXCEPT !.phase = "reading", !.sources = Now]
  <2>1. CASE Becomes(r, next)
    <3>1. Now \subseteq Keys
      BY NowIsKeys DEF IndexInv
    <3>2. next \in Runs /\ next.phase = "reading" /\ next.missing = s.missing /\ next.batch = s.batch
      BY <1>3, <3>1 DEF Runs, Phases
    <3>3. s.missing = {} /\ s.batch = {}
      BY <1>3, <1>7 DEF ReadSources, At, Knows, Scanned
    <3>4. Knows(next, profiles, candidate)
      BY <3>2, <3>3 DEF Knows, Scanned, Profiled
    <3> QED BY <1>5, <1>7, <2>1, <3>2, <3>3, <3>4 DEF ReadSources
  <2> QED BY <1>6, <1>7, <2>1 DEF ReadSources
<1>8. CASE ReadStore(r)
  <2> DEFINE lacking == IF s.force THEN s.sources ELSE s.sources \ profiles
             next == [s EXCEPT !.phase = "extracting", !.missing = lacking]
  <2>1. CASE Becomes(r, next)
    <3>1. s.phase = "reading" /\ s.batch = {} /\ s.missing = {}
      BY <1>3, <1>8 DEF ReadStore, At, Knows, Scanned
    <3>2. /\ next \in Runs /\ next.phase = "extracting" /\ next.missing = lacking
          /\ next.batch = s.batch /\ next.sources = s.sources /\ next.force = s.force
      BY <1>3 DEF Runs, Phases
    <3>3. s.sources \ lacking \subseteq profiles /\ (~s.force => lacking \cap profiles = {})
      OBVIOUS
    <3>4. lacking \subseteq s.sources
      OBVIOUS
    <3>5. Knows(next, profiles, candidate)
      BY <3>1, <3>2, <3>3, <3>4 DEF Knows, Scanned, Profiled
    <3> QED BY <1>5, <1>8, <2>1, <3>1, <3>2, <3>5 DEF ReadStore
  <2> QED BY <1>6, <1>8, <2>1 DEF ReadStore
<1>9. CASE Extract(r)
  <2> DEFINE next == [s EXCEPT !.phase = "profiling"]
  <2>1. /\ next \in Runs /\ next.phase = "profiling" /\ next.missing = s.missing
        /\ next.batch = s.batch /\ next.sources = s.sources /\ next.force = s.force
    BY <1>3 DEF Runs, Phases
  <2>2. Knows(next, profiles, candidate) /\ (s.batch = {} => next.batch \cap profiles = {})
    BY <1>3, <1>9, <2>1 DEF Extract, At, Knows, Scanned, Profiled
  <2> QED BY <1>5, <1>9, <2>1, <2>2 DEF Extract, Goes
<1>10. CASE Profile(r)
  <2>1. CASE s.missing = {} /\ Goes(r, "synthesising")
    <3> DEFINE next == [s EXCEPT !.phase = "synthesising"]
    <3>1. /\ next \in Runs /\ next.phase = "synthesising" /\ next.missing = s.missing
          /\ next.batch = s.batch /\ next.sources = s.sources /\ next.force = s.force
      BY <1>3 DEF Runs, Phases
    <3>2. Knows(next, profiles, candidate) /\ (s.batch = {} => next.batch \cap profiles = {})
      BY <1>3, <1>10, <2>1, <3>1 DEF Profile, At, Knows, Scanned, Profiled
    <3> QED BY <1>5, <1>10, <2>1, <3>1, <3>2 DEF Profile, Goes
  <2>2. ASSUME NEW batch \in SUBSET s.missing,
               Becomes(r, [s EXCEPT !.phase = "saving", !.batch = batch])
        PROVE  IndexInv' /\ PaysOnce
    <3> DEFINE next == [s EXCEPT !.phase = "saving", !.batch = batch]
    <3>1. /\ next \in Runs /\ next.phase = "saving" /\ next.missing = s.missing
          /\ next.batch = batch /\ next.sources = s.sources /\ next.force = s.force
      BY <1>3 DEF Runs, Phases
    <3>2. Knows(next, profiles, candidate) /\ (~s.force => next.batch \cap profiles = {})
      BY <1>3, <1>10, <3>1 DEF Profile, At, Knows, Scanned, Profiled
    <3> QED BY <1>5, <1>10, <2>2, <3>1, <3>2 DEF Profile
  <2> QED BY <1>10, <2>1, <2>2 DEF Profile
<1>11. CASE SaveProfile(r)
  <2>1. PICK key \in s.batch :
          /\ profiles' = profiles \cup {key}
          /\ Becomes(r, [s EXCEPT !.phase = IF s.batch = {key} THEN "profiling" ELSE "saving",
                                  !.missing = @ \ {key}, !.batch = @ \ {key}])
    BY <1>11 DEF SaveProfile
  <2> DEFINE next == [s EXCEPT !.phase = IF s.batch = {key} THEN "profiling" ELSE "saving",
                               !.missing = @ \ {key}, !.batch = @ \ {key}]
  <2>2. /\ next \in Runs /\ next.phase \in {"profiling", "saving"}
        /\ next.missing = s.missing \ {key}
        /\ next.batch = s.batch \ {key} /\ next.sources = s.sources /\ next.force = s.force
    BY <1>3 DEF Runs, Phases
  <2>3. candidate' = candidate /\ key \in Keys /\ s.phase = "saving"
    BY <1>3, <1>11 DEF SaveProfile, At, Runs
  <2>4. Knows(next, profiles', candidate') /\ Stores(profiles', candidate')
    BY <1>3, <2>1, <2>2, <2>3 DEF Knows, Scanned, Profiled, Stores
  <2> QED BY <1>2, <1>4, <2>1, <2>2, <2>4, OneRunMoves
<1>12. CASE Synthesise(r)
  <2> DEFINE next == [s EXCEPT !.phase = "storing"]
  <2>1. /\ next \in Runs /\ next.phase = "storing" /\ next.missing = s.missing
        /\ next.batch = s.batch /\ next.sources = s.sources /\ next.force = s.force
    BY <1>3 DEF Runs, Phases
  <2>2. Knows(next, profiles, candidate) /\ (s.batch = {} => next.batch \cap profiles = {})
    BY <1>3, <1>12, <2>1 DEF Synthesise, At, Knows, Scanned, Profiled
  <2> QED BY <1>5, <1>12, <2>1, <2>2 DEF Synthesise, Goes
<1>13. CASE SaveCandidate(r)
  <2> DEFINE next == [s EXCEPT !.phase = "pruning"]
  <2>1. /\ next \in Runs /\ next.phase = "pruning" /\ next.missing = s.missing
        /\ next.batch = s.batch /\ next.sources = s.sources /\ next.force = s.force
    BY <1>3 DEF Runs, Phases
  <2>2. s.missing = {} /\ s.batch = {} /\ s.sources \subseteq profiles
    BY <1>3, <1>13 DEF SaveCandidate, At, Knows, Scanned, Profiled
  <2>3. candidate' = s.sources /\ profiles' = profiles /\ Becomes(r, next)
    BY <1>13 DEF SaveCandidate, Goes
  <2>4. Knows(next, profiles', candidate') /\ Stores(profiles', candidate')
    BY <1>3, <2>1, <2>2, <2>3 DEF Knows, Scanned, Profiled, Stores
  <2> QED BY <1>2, <1>4, <2>1, <2>2, <2>3, <2>4, OneRunMoves
<1>14. CASE Prune(r)
  <2>1. profiles' = profiles \cap s.sources /\ candidate' = candidate /\ Becomes(r, Idle)
    BY <1>14 DEF Prune, Ends
  <2>2. candidate = s.sources
    BY <1>3, <1>14 DEF Prune, At, Knows
  <2>3. Stores(profiles', candidate') /\ Knows(Idle, profiles', candidate')
    BY <1>3, <2>1, <2>2, IdleKnows DEF Stores
  <2> QED BY <1>2, <1>3, <1>4, <2>1, <2>3, OneRunMoves
<1> QED BY <1>7, <1>8, <1>9, <1>10, <1>11, <1>12, <1>13, <1>14 DEF RunStep

(* A run is only begun when none is under way. *)
LEMMA BeginsKeepIndexInv ==
  ASSUME IndexInv, NEW r \in Runners, NEW force \in BOOLEAN, Begin(r, force),
         chosen' \in Dirs \cup {NoDir}, UNCHANGED <<disk, edits, stores>>
  PROVE  IndexInv' /\ PaysOnce
<1> DEFINE next == [Idle EXCEPT !.phase = "starting", !.force = force]
<1>1. \A q \in Runners : At(q, "idle")
  BY DEF Begin, Running, At
<1>2. /\ next \in Runs /\ next.phase = "starting" /\ next.missing = {} /\ next.batch = {}
      /\ next.sources = {}
  BY DEF Idle, Runs, Phases
<1>3. Knows(next, profiles, candidate)
  BY <1>2 DEF Knows, Scanned, Profiled
<1>4. run' = [run EXCEPT ![r] = next] /\ run \in [Runners -> Runs]
  BY DEF Begin, Becomes, IndexInv, TypeOK
<1>5. run' \in [Runners -> Runs] /\ run'[r] = next /\ \A q \in Runners : q # r => run'[q] = run[q]
  BY <1>2, <1>4
<1>6. \A q \in Runners : run[q].batch = {}
  BY <1>1 DEF At, IndexInv, Knows, Scanned
<1>7. \A p, q \in Runners : ~At(p, "idle")' /\ ~At(q, "idle")' => p = q
  BY <1>1, <1>5 DEF At
<1>8. TypeOK'
  BY <1>5, <1>7 DEF IndexInv, TypeOK, stores
<1>9. IndexInv'
  BY <1>3, <1>5, <1>8 DEF IndexInv, stores
<1>10. PaysOnce
  BY <1>2, <1>5, <1>6 DEF PaysOnce
<1> QED BY <1>9, <1>10

LEMMA StepsKeepIndexInv ==
  ASSUME IndexInv, [Next]_vars
  PROVE  IndexInv' /\ (PaysOnce \/ UNCHANGED run)
<1>1. CASE UNCHANGED vars
  BY <1>1 DEF vars, IndexInv, TypeOK, At
<1>2. ASSUME NEW r \in Runners, RunStep(r)
      PROVE  IndexInv' /\ PaysOnce
  BY <1>2, RunStepsKeepIndexInv
<1>3. ASSUME NEW r \in Runners, Fail(r)
      PROVE  IndexInv' /\ PaysOnce
  <2>1. ~At(r, "idle") /\ Becomes(r, Idle) /\ UNCHANGED <<person, stores>>
    BY <1>3 DEF Fail, Ends
  <2>2. \A q \in Runners : q # r => At(q, "idle")
    BY <2>1 DEF IndexInv, TypeOK
  <2>3. Idle \in Runs /\ Knows(Idle, profiles', candidate') /\ Idle.batch = {}
    BY IdleKnows DEF Idle
  <2>4. Stores(profiles', candidate')
    BY <2>1 DEF IndexInv, stores
  <2> QED BY <2>1, <2>2, <2>3, <2>4, OneRunMoves
<1>4. ASSUME NEW r \in Runners, NEW force \in BOOLEAN, Index(r, force)
      PROVE  IndexInv' /\ PaysOnce
  <2>1. Begin(r, force) /\ UNCHANGED <<disk, chosen, edits, stores>>
    BY <1>4 DEF Index, person
  <2>2. chosen' \in Dirs \cup {NoDir}
    BY <2>1 DEF IndexInv, TypeOK
  <2> QED BY <2>1, <2>2, BeginsKeepIndexInv
<1>5. ASSUME NEW dir \in Dirs, ChooseFolder(dir)
      PROVE  IndexInv' /\ (PaysOnce \/ UNCHANGED run)
  <2>1. chosen' \in Dirs \cup {NoDir} /\ UNCHANGED <<disk, edits, stores>>
    BY <1>5 DEF ChooseFolder
  <2>2. CASE \E r \in Runners : Begin(r, FALSE)
    BY <2>1, <2>2, BeginsKeepIndexInv
  <2>3. CASE UNCHANGED run
    BY <2>1, <2>3 DEF IndexInv, TypeOK, At, stores
  <2> QED BY <1>5, <2>2, <2>3 DEF ChooseFolder
<1>6. ASSUME NEW dir \in Dirs, NEW i \in DOMAIN Entries, NEW content \in 0 .. MaxContent,
             Edit(dir, i, content)
      PROVE  IndexInv' /\ UNCHANGED run
  <2>1. disk' = [disk EXCEPT ![dir][i] = content] /\ edits' = edits + 1 /\ edits < MaxEdits
        /\ UNCHANGED <<chosen, profiles, candidate, run>>
    BY <1>6 DEF Edit, stores
  <2>2. disk' \in [Dirs -> Folders]
    BY <2>1 DEF IndexInv, TypeOK, Folders
  <2>3. edits' \in 0 .. MaxEdits
    BY <2>1, IndexerAssumption DEF IndexInv, TypeOK
  <2> QED BY <2>1, <2>2, <2>3 DEF IndexInv, TypeOK, At
<1> QED BY <1>1, <1>2, <1>3, <1>4, <1>5, <1>6 DEF Next

LEMMA IndexInvHolds == Spec => []IndexInv
<1>1. Init => IndexInv
  <2> SUFFICES ASSUME Init PROVE IndexInv
    OBVIOUS
  <2>1. \A r \in Runners : run[r] = Idle
    BY DEF Init
  <2>2. TypeOK
    BY <2>1, IdleKnows, IndexerAssumption DEF Init, TypeOK, At, Idle
  <2> QED BY <2>1, <2>2, IdleKnows DEF Init, IndexInv, Stores
<1>2. IndexInv /\ [Next]_vars => IndexInv'
  BY StepsKeepIndexInv
<1> QED BY <1>1, <1>2, PTL DEF Spec

-----------------------------------------------------------------------------

(* Indexing keeps its types, and one run at a time, for any number of      *)
(* requests and any folders (begin, end).                                  *)
THEOREM IndexerTypeCorrect == Spec => []TypeOK
<1>1. IndexInv => TypeOK
  BY DEF IndexInv
<1> QED BY <1>1, IndexInvHolds, PTL

(* The candidate rests on stored profiles, wherever a run stops and        *)
(* whatever the folder has become (persist, prune).                        *)
THEOREM CandidateStaysBacked == Spec => []CandidateIsBacked
<1>1. IndexInv => CandidateIsBacked
  BY DEF IndexInv, Stores, CandidateIsBacked
<1> QED BY <1>1, IndexInvHolds, PTL

(* No profile is lost under an index that matches its folder, so that one  *)
(* is never called stale (State).                                          *)
THEOREM StaleMeansChanged == Spec => []StaleOnlyByChange
<1>1. IndexInv => StaleOnlyByChange
  BY DEF IndexInv, Stores, StaleOnlyByChange, IndexState
<1> QED BY <1>1, IndexInvHolds, PTL

(* Nobody pays again for a resume that has a profile, unless a run was     *)
(* forced (index).                                                         *)
THEOREM ProfilesArePaidOnce == Spec => NoPaidTwice
<1>1. IndexInv /\ [Next]_vars =>
        [\A r \in Runners :
           run[r].batch = {} /\ ~run[r].force => run'[r].batch \cap profiles = {}]_vars
  BY StepsKeepIndexInv DEF PaysOnce
<1> QED BY <1>1, IndexInvHolds, PTL DEF Spec, NoPaidTwice

-----------------------------------------------------------------------------
(* The order of the names *)

LEMMA Least ==
  ASSUME NEW T \in SUBSET Nat, T # {}
  PROVE  First(T) \in T /\ \A j \in T : First(T) <= j
<1> DEFINE R == OpToRel(<, Nat)
<1>1. IsWellFoundedOn(R, Nat)
  BY NatLessThanWellFounded
<1>2. \A x, y \in Nat : (<<x, y>> \in R) <=> x < y
  BY DEF OpToRel
<1> HIDE DEF R
<1>3. PICK x \in T : \A y \in T : ~ (<<y, x>> \in R)
  <2>1. T \subseteq Nat
    OBVIOUS
  <2> QED BY <1>1, <2>1, WFMin, Zenon
<1>4. \A y \in T : x \in Nat /\ y \in Nat /\ ~(y < x)
  BY <1>2, <1>3
<1>5. \A y \in T : x <= y
  BY <1>4
<1> QED BY <1>5 DEF First

LEMMA BeforeIsStrict ==
  ASSUME NEW a \in Seq(Nat)
  PROVE  ~Before(a, a)
<1>1. Len(a) \in Nat /\ \A i \in 1 .. Len(a) : a[i] \in Nat
  BY LenProperties, ElementOfSeq
<1> QED BY <1>1 DEF Before

LEMMA BeforeIsTransitive ==
  ASSUME NEW a \in Seq(Nat), NEW b \in Seq(Nat), NEW c \in Seq(Nat),
         Before(a, b), Before(b, c)
  PROVE  Before(a, c)
<1>1. /\ Len(a) \in Nat /\ \A i \in 1 .. Len(a) : a[i] \in Nat
      /\ Len(b) \in Nat /\ \A i \in 1 .. Len(b) : b[i] \in Nat
      /\ Len(c) \in Nat /\ \A i \in 1 .. Len(c) : c[i] \in Nat
  BY LenProperties, ElementOfSeq
<1>2. PICK i \in 1 .. Len(b) : /\ i <= Len(a) + 1
                               /\ \A k \in 1 .. i - 1 : a[k] = b[k]
                               /\ i <= Len(a) => a[i] < b[i]
  BY DEF Before
<1>3. PICK j \in 1 .. Len(c) : /\ j <= Len(b) + 1
                               /\ \A k \in 1 .. j - 1 : b[k] = c[k]
                               /\ j <= Len(b) => b[j] < c[j]
  BY DEF Before
<1>4. CASE i < j
  <2>1. i \in 1 .. Len(c) /\ i <= Len(a) + 1 /\ i <= Len(b)
    BY <1>1, <1>2, <1>3, <1>4
  <2>2. b[i] = c[i]
    <3>1. i \in 1 .. j - 1
      BY <1>4
    <3> QED BY <1>3, <3>1
  <2>3. \A k \in 1 .. i - 1 : a[k] = c[k]
    <3>1. \A k \in 1 .. i - 1 : k \in 1 .. j - 1
      BY <1>4
    <3> QED BY <1>2, <1>3, <3>1
  <2>4. i <= Len(a) => a[i] < c[i]
    BY <1>2, <2>2
  <2> QED BY <2>1, <2>3, <2>4, Zenon DEF Before
<1>5. CASE i = j
  <2>1. /\ i \in 1 .. Len(c) /\ i <= Len(a) + 1 /\ b[i] < c[i]
        /\ \A k \in 1 .. i - 1 : a[k] = c[k]
    BY <1>1, <1>2, <1>3, <1>5
  <2>2. ASSUME i <= Len(a) PROVE a[i] < c[i]
    <3>1. i \in 1 .. Len(a)
      BY <1>1, <2>2
    <3>2. a[i] \in Nat /\ b[i] \in Nat /\ c[i] \in Nat
      BY <1>1, <2>1, <3>1
    <3>3. a[i] < b[i] /\ b[i] < c[i]
      BY <1>2, <2>1, <2>2
    <3> QED BY <3>2, <3>3
  <2> QED BY <2>1, <2>2, Zenon DEF Before
<1>6. CASE j < i
  <2>1. j \in 1 .. Len(a) /\ j <= Len(a) + 1 /\ j <= Len(b)
    <3>1. /\ Len(a) \in Nat /\ Len(b) \in Nat /\ Len(c) \in Nat
          /\ i \in 1 .. Len(b) /\ i <= Len(a) + 1 /\ j \in 1 .. Len(c)
      BY <1>1, <1>2, <1>3
    <3> QED BY <1>6, <3>1
  <2>2. a[j] = b[j] /\ b[j] < c[j]
    <3>1. j \in 1 .. i - 1
      BY <1>6
    <3> QED BY <1>2, <1>3, <2>1, <3>1
  <2>3. \A k \in 1 .. j - 1 : a[k] = c[k]
    <3>1. \A k \in 1 .. j - 1 : k \in 1 .. i - 1
      BY <1>6
    <3> QED BY <1>2, <1>3, <3>1
  <2>4. a[j] < c[j]
    BY <2>2
  <2> QED BY <2>1, <2>3, <2>4, Zenon DEF Before
<1> QED BY <1>4, <1>5, <1>6

LEMMA BeforeIsTotal ==
  ASSUME NEW a \in Seq(Nat), NEW b \in Seq(Nat), a # b
  PROVE  Before(a, b) \/ Before(b, a)
<1>1. /\ Len(a) \in Nat /\ \A i \in 1 .. Len(a) : a[i] \in Nat
      /\ Len(b) \in Nat /\ \A i \in 1 .. Len(b) : b[i] \in Nat
  BY LenProperties, ElementOfSeq
<1> DEFINE apart == {i \in 1 .. Len(a) : i <= Len(b) /\ a[i] # b[i]}
<1>2. CASE apart = {}
  <2>2. \A i \in 1 .. Len(a) : i <= Len(b) => a[i] = b[i]
    BY <1>2
  <2> HIDE DEF apart
  <2>1. Len(a) # Len(b)
    <3> SUFFICES ASSUME Len(a) = Len(b) PROVE FALSE
      OBVIOUS
    <3>1. \A i \in 1 .. Len(a) : a[i] = b[i]
      BY <1>1, <2>2
    <3> QED BY <3>1, SeqEqual
  <2>3. CASE Len(a) < Len(b)
    <3> DEFINE i == Len(a) + 1
    <3>1. i \in 1 .. Len(b) /\ i <= Len(a) + 1 /\ ~(i <= Len(a))
      BY <1>1, <2>3
    <3>2. \A k \in 1 .. i - 1 : a[k] = b[k]
      BY <1>1, <2>2, <2>3
    <3> HIDE DEF i
    <3> QED BY <3>1, <3>2, Zenon DEF Before
  <2>4. CASE Len(b) < Len(a)
    <3> DEFINE i == Len(b) + 1
    <3>1. i \in 1 .. Len(a) /\ i <= Len(b) + 1 /\ ~(i <= Len(b))
      BY <1>1, <2>4
    <3>2. \A k \in 1 .. i - 1 : b[k] = a[k]
      BY <1>1, <2>2, <2>4
    <3> HIDE DEF i
    <3> QED BY <3>1, <3>2, Zenon DEF Before
  <2> QED BY <1>1, <2>1, <2>3, <2>4
<1>3. CASE apart # {}
  <2>1. apart \in SUBSET Nat
    BY <1>1
  <2>2. PICK i \in apart : \A j \in apart : i <= j
    BY <1>3, <2>1, Least
  <2>3. /\ i \in 1 .. Len(a) /\ i \in 1 .. Len(b) /\ a[i] # b[i]
        /\ \A k \in 1 .. i - 1 : a[k] = b[k]
    <3>1. i \in 1 .. Len(a) /\ i \in 1 .. Len(b) /\ a[i] # b[i]
      BY <1>1, <2>2
    <3>2. ASSUME NEW k \in 1 .. i - 1 PROVE a[k] = b[k]
      <4>1. k \in 1 .. Len(a) /\ k <= Len(b) /\ ~(i <= k)
        BY <1>1, <3>1
      <4>2. k \notin apart
        BY <2>2, <4>1
      <4> QED BY <4>1, <4>2
    <3> QED BY <3>1, <3>2
  <2>4. a[i] < b[i] \/ b[i] < a[i]
    BY <1>1, <2>3
  <2>5. i <= Len(b) + 1 /\ i <= Len(a) + 1 /\ \A k \in 1 .. i - 1 : b[k] = a[k]
    BY <1>1, <2>3
  <2>6. CASE a[i] < b[i]
    BY <2>3, <2>5, <2>6, Zenon DEF Before
  <2>7. CASE b[i] < a[i]
    BY <2>3, <2>5, <2>7, Zenon DEF Before
  <2> QED BY <2>4, <2>6, <2>7
<1> QED BY <1>2, <1>3

-----------------------------------------------------------------------------
(* Codes *)

(* A number is told by its last digit and what stands before it. *)
LEMMA LastDigit == \A k \in Nat : k % 10 = k - 10 * (k \div 10) /\ k \div 10 \in Nat
<1> SUFFICES ASSUME NEW k \in Nat PROVE k % 10 = k - 10 * (k \div 10) /\ k \div 10 \in Nat
  OBVIOUS
<1>1. k % 10 = k - 10 * (k \div 10)
  BY Z3
<1>2. k \div 10 \in Nat
  BY Z3
<1> QED BY <1>1, <1>2

LEMMA SameDigits ==
  ASSUME NEW m \in Nat, NEW n \in Nat, m \div 10 = n \div 10, m % 10 = n % 10
  PROVE  m = n
<1> DEFINE p == m \div 10
           q == m % 10
<1>1. q = m - 10 * p /\ q = n - 10 * p /\ p \in Nat
  BY LastDigit
<1> HIDE DEF p, q
<1> QED BY <1>1

LEMMA Hundreds == \A k \in Nat : k \div 100 = (k \div 10) \div 10
OBVIOUS

(* The digits of a number, by how many it has. *)
LEMMA NumberedDigits ==
  ASSUME NEW n \in 1 .. 999, NEW code, code = Numbered(n)
  PROVE  /\ n < 10 => Len(code) = 2 /\ code[2] = Digit(n)
         /\ n >= 10 /\ n < 100 =>
              Len(code) = 3 /\ code[2] = Digit(n \div 10) /\ code[3] = Digit(n % 10)
         /\ n >= 100 =>
              /\ Len(code) = 4 /\ code[2] = Digit(n \div 100)
              /\ code[3] = Digit((n \div 10) % 10) /\ code[4] = Digit(n % 10)
BY DEF Numbered, LetterR

LEMMA DigitsDiffer == \A d, e \in Nat : Digit(d) = Digit(e) => d = e
BY DEF Digit

LEMMA DigitsTyped ==
  \A n \in Nat : /\ n \div 10 \in Nat /\ n % 10 \in Nat
                 /\ (n \div 10) % 10 \in Nat /\ n \div 100 \in Nat
BY Z3

LEMMA NumbersDiffer ==
  ASSUME NEW m \in 1 .. MaxRoles, NEW n \in 1 .. MaxRoles, Numbered(m) = Numbered(n)
  PROVE  m = n
<1>1. m \in 1 .. 999 /\ n \in 1 .. 999
  BY FolderAssumption
<1> DEFINE code == Numbered(m)
<1>2. /\ m < 10 => Len(code) = 2 /\ code[2] = Digit(m)
      /\ m >= 10 /\ m < 100 =>
           Len(code) = 3 /\ code[2] = Digit(m \div 10) /\ code[3] = Digit(m % 10)
      /\ m >= 100 =>
           /\ Len(code) = 4 /\ code[2] = Digit(m \div 100)
           /\ code[3] = Digit((m \div 10) % 10) /\ code[4] = Digit(m % 10)
  BY <1>1, NumberedDigits, Zenon
<1>3. /\ n < 10 => Len(code) = 2 /\ code[2] = Digit(n)
      /\ n >= 10 /\ n < 100 =>
           Len(code) = 3 /\ code[2] = Digit(n \div 10) /\ code[3] = Digit(n % 10)
      /\ n >= 100 =>
           /\ Len(code) = 4 /\ code[2] = Digit(n \div 100)
           /\ code[3] = Digit((n \div 10) % 10) /\ code[4] = Digit(n % 10)
  BY <1>1, NumberedDigits, Zenon
<1> HIDE DEF code
<1>4. /\ m < 10 <=> n < 10
      /\ m >= 100 <=> n >= 100
  <2>1. /\ m < 10 => Len(code) = 2
        /\ m >= 10 /\ m < 100 => Len(code) = 3
        /\ m >= 100 => Len(code) = 4
    BY <1>2, Zenon
  <2>2. /\ n < 10 => Len(code) = 2
        /\ n >= 10 /\ n < 100 => Len(code) = 3
        /\ n >= 100 => Len(code) = 4
    BY <1>3, Zenon
  <2> QED BY <1>1, <2>1, <2>2
<1>5. /\ m \in Nat /\ n \in Nat /\ m \div 10 \in Nat /\ n \div 10 \in Nat
      /\ m % 10 \in Nat /\ n % 10 \in Nat /\ m \div 100 \in Nat /\ n \div 100 \in Nat
      /\ (m \div 10) % 10 \in Nat /\ (n \div 10) % 10 \in Nat
  BY <1>1, DigitsTyped
<1>6. CASE m < 10
  BY <1>1, <1>2, <1>3, <1>4, <1>6, DigitsDiffer
<1>7. CASE m >= 10 /\ m < 100
  <2>1. Digit(m \div 10) = Digit(n \div 10) /\ Digit(m % 10) = Digit(n % 10)
    BY <1>1, <1>2, <1>3, <1>4, <1>7
  <2>2. m \div 10 = n \div 10 /\ m % 10 = n % 10
    BY <1>5, <2>1, DigitsDiffer, Zenon
  <2> QED BY <1>5, <2>2, SameDigits
<1>8. CASE m >= 100
  <2>1. /\ Digit(m \div 100) = Digit(n \div 100) /\ Digit(m % 10) = Digit(n % 10)
        /\ Digit((m \div 10) % 10) = Digit((n \div 10) % 10)
    BY <1>1, <1>2, <1>3, <1>4, <1>8
  <2>2. /\ m \div 100 = n \div 100 /\ m % 10 = n % 10
        /\ (m \div 10) % 10 = (n \div 10) % 10
    BY <1>5, <2>1, DigitsDiffer, Zenon
  <2>3. m \div 10 = n \div 10
    <3>1. (m \div 10) \div 10 = (n \div 10) \div 10
      BY <1>5, <2>2, Hundreds
    <3> QED BY <1>5, <2>2, <3>1, SameDigits
  <2> QED BY <1>5, <2>2, <2>3, SameDigits
<1> QED BY <1>1, <1>6, <1>7, <1>8

(* A function on the first naturals is a sequence. *)
LEMMA SequenceOf ==
  ASSUME NEW n \in Nat, NEW S, NEW f \in [1 .. n -> S]
  PROVE  f \in Seq(S)
BY SeqDef

LEMMA PickedTyped ==
  ASSUME NEW role \in Seq(Nat), NEW places \in SUBSET DOMAIN role
  PROVE  \E S : Picked(role, places) \in Seq(S)
<1> DEFINE e(k) == role[CHOOSE i \in places : Cardinality({j \in places : j < i}) = k - 1]
           n == Cardinality(places)
           S == {e(k) : k \in 1 .. n}
<1>1. n \in Nat
  <2>1. DOMAIN role = 1 .. Len(role) /\ Len(role) \in Nat
    BY LenProperties
  <2>2. IsFiniteSet(DOMAIN role)
    BY <2>1, FS_Interval
  <2>3. IsFiniteSet(places)
    BY <2>2, FS_Subset
  <2> QED BY <2>3, FS_CardinalityType
<1>2. Picked(role, places) = [k \in 1 .. n |-> e(k)]
  BY DEF Picked
<1>3. \A k \in 1 .. n : e(k) \in S
  OBVIOUS
<1> HIDE DEF e, n, S
<1> DEFINE f == [k \in 1 .. n |-> e(k)]
<1>4. f \in [1 .. n -> S]
  BY <1>3
<1> HIDE DEF f
<1>5. f \in Seq(S)
  BY <1>1, <1>4, SequenceOf
<1>6. Picked(role, places) = f
  BY <1>2 DEF f
<1> QED BY <1>5, <1>6

LEMMA PairsTyped ==
  ASSUME NEW S, NEW letters \in Seq(S)
  PROVE  Pairs(letters) \in Seq(S \X S)
<1>1. Len(letters) \in Nat /\ \A i \in 1 .. Len(letters) : letters[i] \in S
  BY LenProperties, ElementOfSeq
<1>2. CASE letters = << >>
  BY <1>2, EmptySeq DEF Pairs
<1>3. CASE letters # << >>
  <2> DEFINE n == Len(letters) - 1
             f == [k \in 1 .. n |-> <<letters[1], letters[k + 1]>>]
  <2>1. n \in Nat
    BY <1>1, <1>3, EmptySeq
  <2>2. f \in [1 .. n -> S \X S]
    BY <1>1, <2>1
  <2>3. Pairs(letters) = f
    BY <1>3 DEF Pairs
  <2> HIDE DEF n, f
  <2> QED BY <2>1, <2>2, <2>3, SequenceOf
<1> QED BY <1>2, <1>3

(* The candidates come one after the other. *)
LEMMA CandidatesTyped ==
  ASSUME NEW role \in Seq(Nat)
  PROVE  DOMAIN CodeCandidates(role) \in SUBSET Nat
<1> DEFINE letters == Letters(role)
           head == IF letters = << >> THEN LetterR ELSE letters[1]
           both == IF Len(letters) >= 2 THEN << <<letters[1], letters[2]>> >> ELSE << >>
           digits == [k \in 1 .. 8 |-> <<head, Digit(k + 1)>>]
<1>1. PICK S : letters \in Seq(S)
  BY PickedTyped DEF Letters
<1>2. PICK T : Heads(role) \in Seq(T)
  BY PickedTyped DEF Heads
<1>3. CodeCandidates(role) = ((both \o Pairs(Heads(role))) \o Pairs(letters)) \o digits
  BY DEF CodeCandidates
<1>4. PICK B : both \in Seq(B)
  <2> DEFINE pair == <<letters[1], letters[2]>>
  <2>1. << >> \in Seq({pair}) /\ <<pair>> \in Seq({pair})
    <3> HIDE DEF pair
    <3> QED BY EmptySeq
  <2>2. both = <<pair>> \/ both = << >>
    OBVIOUS
  <2> QED BY <2>1, <2>2
<1>5. PICK D : digits \in Seq(D)
  <2> DEFINE D == {<<head, Digit(k + 1)>> : k \in 1 .. 8}
  <2>1. digits \in [1 .. 8 -> D]
    <3> HIDE DEF head
    <3> QED OBVIOUS
  <2> HIDE DEF digits, D
  <2> QED BY <2>1, SequenceOf
<1> HIDE DEF both, digits, letters
<1> DEFINE All == B \cup (T \X T) \cup (S \X S) \cup D
<1>6. /\ both \in Seq(All) /\ Pairs(Heads(role)) \in Seq(All)
      /\ Pairs(letters) \in Seq(All) /\ digits \in Seq(All)
  <2>1. Pairs(Heads(role)) \in Seq(T \X T) /\ Pairs(letters) \in Seq(S \X S)
    BY <1>1, <1>2, PairsTyped
  <2>2. B \subseteq All /\ T \X T \subseteq All /\ S \X S \subseteq All /\ D \subseteq All
    OBVIOUS
  <2> HIDE DEF All
  <2> QED BY <1>4, <1>5, <2>1, <2>2, SeqMonotonic
<1> HIDE DEF All
<1>7. CodeCandidates(role) \in Seq(All)
  BY <1>3, <1>6, ConcatProperties
<1> QED BY <1>7, LenProperties

(* A code that is given out is free, as long as a number is. *)
LEMMA AssignedIsFree ==
  ASSUME NEW role \in Seq(Nat), NEW taken, \E n \in 1 .. MaxRoles : Numbered(n) \notin taken
  PROVE  AssignCode(role, taken) \notin taken
<1> DEFINE candidates == CodeCandidates(role)
           free == {k \in DOMAIN candidates : candidates[k] \notin taken}
           unused == {n \in 1 .. MaxRoles : Numbered(n) \notin taken}
<1>1. AssignCode(role, taken) =
        IF free # {} THEN candidates[First(free)] ELSE Numbered(First(unused))
  BY DEF AssignCode
<1>2. free \in SUBSET Nat /\ unused \in SUBSET Nat /\ unused # {}
  BY CandidatesTyped, FolderAssumption
<1>3. free # {} => First(free) \in free
  <2> HIDE DEF free
  <2> QED BY <1>2, Least
<1>4. First(unused) \in unused
  <2> HIDE DEF unused
  <2> QED BY <1>2, Least
<1> QED BY <1>1, <1>3, <1>4

(* The roles a code is given to, and those among them that come before one *)
Listed(folder) == {role \in RolesIn(folder) : Rank(role, RolesIn(folder)) < MaxRoles}
Ahead(folder, role) == {o \in Listed(folder) : Before(o, role)}

LEMMA RolesTyped ==
  ASSUME NEW folder \in Folders
  PROVE  IsFiniteSet(RolesIn(folder)) /\ RolesIn(folder) \subseteq Seq(Nat)
<1> DEFINE f == [i \in Pdfs(folder) |-> Entries[i].role]
<1>1. IsFiniteSet(Pdfs(folder))
  BY FolderAssumption, FS_Subset DEF Pdfs
<1>2. f \in Surjection(Pdfs(folder), RolesIn(folder))
  BY DEF Surjection, RolesIn
<1>3. IsFiniteSet(RolesIn(folder))
  <2> HIDE DEF f
  <2> QED BY <1>1, <1>2, FS_Surjection
<1>4. RolesIn(folder) \subseteq Seq(Nat)
  BY FolderAssumption DEF RolesIn, Pdfs
<1> QED BY <1>3, <1>4

(* A rank is a number, and grows along the order. *)
LEMMA RankGrows ==
  ASSUME NEW roles \in SUBSET Seq(Nat), IsFiniteSet(roles), NEW b \in roles
  PROVE  /\ Rank(b, roles) \in Nat
         /\ \A a \in roles : Before(a, b) => Rank(a, roles) < Rank(b, roles)
<1> DEFINE Below(x) == {other \in roles : Before(other, x)}
<1>1. \A x : /\ IsFiniteSet(Below(x)) /\ Cardinality(Below(x)) \in Nat
             /\ Rank(x, roles) = Cardinality(Below(x))
  <2> TAKE x
  <2>1. IsFiniteSet(Below(x))
    BY FS_Subset
  <2>2. Cardinality(Below(x)) \in Nat
    <3> HIDE DEF Below
    <3> QED BY <2>1, FS_CardinalityType
  <2> QED BY <2>1, <2>2 DEF Rank
<1>2. ASSUME NEW a \in roles, Before(a, b)
      PROVE  Rank(a, roles) < Rank(b, roles)
  <2>1. Below(a) \subseteq Below(b)
    BY <1>2, BeforeIsTransitive
  <2>2. a \in Below(b) /\ a \notin Below(a)
    BY <1>2, BeforeIsStrict
  <2> HIDE DEF Below
  <2>3. /\ Cardinality(Below(a)) <= Cardinality(Below(b))
        /\ Cardinality(Below(a)) # Cardinality(Below(b))
    BY <1>1, <2>1, <2>2, FS_Subset
  <2> QED BY <1>1, <2>3
<1> QED BY <1>1, <1>2

(* Whatever codes the roles ahead have, one of the numbers is left. *)
LEMMA NumberIsLeft ==
  ASSUME NEW folder \in Folders, NEW role \in Listed(folder), NEW f
  PROVE  \E n \in 1 .. MaxRoles : Numbered(n) \notin {f[o] : o \in Ahead(folder, role)}
<1> DEFINE ahead == Ahead(folder, role)
           roles == RolesIn(folder)
           below == {other \in roles : Before(other, role)}
<1>1. /\ IsFiniteSet(roles) /\ ahead \subseteq below /\ below \subseteq roles
      /\ Cardinality(below) < MaxRoles /\ MaxRoles \in Nat
  BY RolesTyped, FolderAssumption DEF Listed, Ahead, Rank
<1> HIDE DEF ahead, below, roles
<1>2. IsFiniteSet(below)
  BY <1>1, FS_Subset
<1>3. /\ IsFiniteSet(ahead) /\ Cardinality(ahead) <= Cardinality(below)
      /\ Cardinality(ahead) \in Nat /\ Cardinality(below) \in Nat
  BY <1>1, <1>2, FS_Subset, FS_CardinalityType
<1> SUFFICES ASSUME \A n \in 1 .. MaxRoles : \E o \in ahead : f[o] = Numbered(n)
             PROVE  FALSE
  BY DEF ahead
<1> DEFINE g == [n \in 1 .. MaxRoles |-> CHOOSE o \in ahead : f[o] = Numbered(n)]
<1>4. \A n \in 1 .. MaxRoles : g[n] \in ahead /\ f[g[n]] = Numbered(n)
  OBVIOUS
<1>5. g \in [1 .. MaxRoles -> ahead]
  BY <1>4
<1> HIDE DEF g
<1>6. \A m, n \in 1 .. MaxRoles : g[m] = g[n] => m = n
  BY <1>4, NumbersDiffer
<1>7. g \in Injection(1 .. MaxRoles, ahead)
  BY <1>5, <1>6 DEF Injection, IsInjective
<1>8. Cardinality(1 .. MaxRoles) <= Cardinality(ahead)
  BY <1>3, <1>7, FS_Injection
<1>9. Cardinality(1 .. MaxRoles) = MaxRoles
  BY <1>1, FS_Interval
<1> QED BY <1>1, <1>3, <1>8, <1>9

(* The codes of the first ranks can be given out, rank after rank. *)
Coded(folder, n, codes) ==
  LET first == {role \in Listed(folder) : Rank(role, RolesIn(folder)) < n}
  IN  codes = [role \in first |-> AssignCode(role, {codes[o] : o \in Ahead(folder, role)})]

LEMMA CodesCanBeGiven ==
  ASSUME NEW folder \in Folders
  PROVE  \A n \in Nat : \E codes : Coded(folder, n, codes)
<1> DEFINE rank(role) == Rank(role, RolesIn(folder))
           Early(n) == {role \in Listed(folder) : rank(role) < n}
           failing == {n \in Nat : ~ \E codes : Coded(folder, n, codes)}
<1>1. /\ \A role \in Listed(folder) : rank(role) \in Nat
      /\ \A role \in Listed(folder) : \A o \in Ahead(folder, role) :
           o \in Listed(folder) /\ rank(o) < rank(role)
  BY RolesTyped, RankGrows DEF Listed, Ahead
<1> SUFFICES ASSUME failing # {} PROVE FALSE
  OBVIOUS
<1>2. PICK n \in failing : \A m \in failing : n <= m
  <2>1. failing \in SUBSET Nat
    OBVIOUS
  <2> HIDE DEF failing
  <2> QED BY <2>1, Least
<1>3. n # 0
  <2> SUFFICES ASSUME n = 0 PROVE FALSE
    OBVIOUS
  <2> DEFINE none == [role \in {} |-> AssignCode(role, {})]
  <2>1. Early(0) = {}
    BY <1>1
  <2>2. none = [role \in Early(0) |-> AssignCode(role, {none[o] : o \in Ahead(folder, role)})]
    BY <2>1
  <2>3. Coded(folder, 0, none)
    BY <2>2 DEF Coded
  <2> QED BY <1>2, <2>3
<1>4. n - 1 \in Nat /\ n \in Nat
  BY <1>2, <1>3
<1>5. PICK codes : Coded(folder, n - 1, codes)
  BY <1>2, <1>4
<1> DEFINE given(role) == {codes[o] : o \in Ahead(folder, role)}
           more == [role \in Early(n) |-> AssignCode(role, given(role))]
<1>6. codes = [role \in Early(n - 1) |-> AssignCode(role, given(role))]
  BY <1>5, Zenon DEF Coded
<1>7. ASSUME NEW role \in Early(n)
      PROVE  \A o \in Ahead(folder, role) : more[o] = codes[o]
  <2> TAKE o \in Ahead(folder, role)
  <2>1. /\ o \in Listed(folder) /\ rank(o) < rank(role) /\ rank(role) < n
        /\ rank(o) \in Nat /\ rank(role) \in Nat
    BY <1>1
  <2>2. o \in Early(n) /\ o \in Early(n - 1)
    <3>1. rank(o) < n /\ rank(o) < n - 1
      <4> HIDE DEF rank
      <4> QED BY <1>4, <2>1
    <3> QED BY <2>1, <3>1
  <2> HIDE DEF Early, given
  <2> QED BY <1>6, <2>2
<1>8. \A role \in Early(n) : {more[o] : o \in Ahead(folder, role)} = given(role)
  <2> HIDE DEF more, Early
  <2> QED BY <1>7
<1>9. more = [role \in Early(n) |-> AssignCode(role, {more[o] : o \in Ahead(folder, role)})]
  <2> DEFINE again == [role \in Early(n) |->
                         AssignCode(role, {more[o] : o \in Ahead(folder, role)})]
  <2>1. \A role \in Early(n) : again[role] = more[role]
    <3> HIDE DEF Early, given
    <3> QED BY <1>8
  <2> HIDE DEF Early, given
  <2> QED BY <1>8
<1>10. Coded(folder, n, more)
  BY <1>9, Zenon DEF Coded
<1> QED BY <1>2, <1>10

(* What Scan gives out: a role's code is free of the codes before it. *)
LEMMA CodesAreGiven ==
  ASSUME NEW folder \in Folders
  PROVE  CodesOf(folder) =
           [role \in Listed(folder) |->
              AssignCode(role, {CodesOf(folder)[o] : o \in Ahead(folder, role)})]
<1> DEFINE Given(codes) ==
             codes = [role \in Listed(folder) |->
                        AssignCode(role, {codes[o] : o \in Ahead(folder, role)})]
<1>1. \E codes : Given(codes)
  <2>1. MaxRoles \in Nat
    BY FolderAssumption
  <2>2. PICK codes : Coded(folder, MaxRoles, codes)
    BY <2>1, CodesCanBeGiven
  <2>3. {role \in Listed(folder) : Rank(role, RolesIn(folder)) < MaxRoles} = Listed(folder)
    BY DEF Listed
  <2>4. Given(codes)
    BY <2>2, <2>3 DEF Coded
  <2> QED BY <2>4
<1>2. CodesOf(folder) = CHOOSE codes : Given(codes)
  BY DEF CodesOf, Listed, Ahead
<1> HIDE DEF Given
<1>3. Given(CodesOf(folder))
  BY <1>1, <1>2
<1> QED BY <1>3 DEF Given

(* No two roles of a folder are given one code. *)
LEMMA CodesDiffer ==
  ASSUME NEW folder \in Folders, NEW a \in Listed(folder), NEW b \in Listed(folder),
         CodesOf(folder)[a] = CodesOf(folder)[b]
  PROVE  a = b
<1> DEFINE codes == CodesOf(folder)
<1>1. a \in Seq(Nat) /\ b \in Seq(Nat)
  BY RolesTyped DEF Listed
<1>2. ASSUME NEW x \in Listed(folder), NEW y \in Listed(folder), Before(x, y)
      PROVE  codes[x] # codes[y]
  <2> DEFINE taken == {codes[o] : o \in Ahead(folder, y)}
  <2>1. codes[y] = AssignCode(y, taken)
    <3> HIDE DEF codes
    <3>1. codes = [role \in Listed(folder) |->
                     AssignCode(role, {codes[o] : o \in Ahead(folder, role)})]
      BY CodesAreGiven DEF codes
    <3> QED BY <3>1
  <2>2. codes[x] \in taken
    BY <1>2 DEF Ahead
  <2>3. y \in Seq(Nat)
    BY RolesTyped DEF Listed
  <2>4. \E n \in 1 .. MaxRoles : Numbered(n) \notin taken
    BY NumberIsLeft
  <2> HIDE DEF taken, codes
  <2>5. AssignCode(y, taken) \notin taken
    BY <2>3, <2>4, AssignedIsFree
  <2> QED BY <2>1, <2>2, <2>5
<1> QED BY <1>1, <1>2, BeforeIsTotal

(* A code names one resume of its folder, whatever the pdfs are called and *)
(* whatever the person changes: the candidates run out at worst, and a     *)
(* number is always left (assignCode, Scan).                               *)
THEOREM CodesNameOneResume == Spec => []OneResumePerCode
<1>1. TypeOK => OneResumePerCode
  <2> SUFFICES ASSUME TypeOK, NEW dir \in Dirs, NEW a \in Resumes(disk[dir]),
                      NEW b \in Resumes(disk[dir]), a.code = b.code
               PROVE  a.role = b.role
    BY DEF OneResumePerCode
  <2>1. disk[dir] \in Folders
    BY DEF TypeOK
  <2> DEFINE codes == CodesOf(disk[dir])
  <2>2. DOMAIN codes = Listed(disk[dir])
    BY <2>1, CodesAreGiven
  <2>3. /\ a.role \in Listed(disk[dir]) /\ a.code = codes[a.role]
        /\ b.role \in Listed(disk[dir]) /\ b.code = codes[b.role]
    BY <2>2 DEF Resumes
  <2> QED BY <2>1, <2>3, CodesDiffer
<1> QED BY <1>1, IndexerTypeCorrect, PTL

=============================================================================
