---------------------------- MODULE RoundQueries ----------------------------
(***************************************************************************)
(* The queries of one round: the model writes them, compileQueries keeps   *)
(* or rejects each, one transaction stores them as rows by label, a plan   *)
(* hands them to the executor, which runs or skips each, and a widening    *)
(* adds one more (routes/planner/compile.go and service.go,                *)
(* extension/lib/linkedin/round.ts).                                       *)
(*                                                                         *)
(* A label is a word with the suffixes it was given: "a-3" is the word "a" *)
(* with the tail <<3>>.  A query is known by where it comes from: its      *)
(* position in the answer, or the number of its widening past them.        *)
(***************************************************************************)
EXTENDS Naturals, Sequences, FiniteSets

CONSTANTS
  Labels,      \* the labels the model may write; the word "" is no label at all
  MaxQueries,  \* settings.budget.maxQueriesPerCycle
  MaxAnswer,   \* bound: queries in one answer of the planner
  MaxWidened,  \* bound: widenings of the round
  Wideners     \* widening requests the API may serve at the same time

Words == {label.word : label \in Labels} \cup {"query"}
Names == [word : Words, tail : Seq(Nat)]

ASSUME QueriesAssumption ==
  /\ MaxQueries \in Nat \ {0} /\ MaxAnswer \in Nat /\ MaxWidened \in Nat
  /\ Labels \subseteq Names

(* The defects a query can have.  The executor's prepareQuery knows the    *)
(* rings and the places as compileQuery does.                              *)
Shapes == {"well-formed", "malformed"}
Answer == UNION {[1 .. n -> [label : Labels, shape : Shapes]] : n \in 0 .. MaxAnswer}

Entries == [label : Names, query : 1 .. MaxAnswer, shape : Shapes]

Rows ==
  [ query   : 1 .. (MaxAnswer + MaxWidened),
    shape   : Shapes,
    skipped : BOOLEAN,
    widened : BOOLEAN,
    yielded : BOOLEAN ]

VARIABLES
  answer,    \* answered.Queries
  next,      \* the position compileQueries is at
  kept,      \* the queries it kept: label and query
  rejected,  \* the queries it rejected: label and query
  rows,      \* cycle_queries of the round, by label
  todo,      \* the queries of the plan the executor has still to run
  ran,       \* the queries the executor has searched LinkedIn for
  widening,  \* what each widening request has read: the labels taken, or none
  widened    \* widenings stored so far

queries == <<answer, next, kept, rejected>>
vars == <<queries, rows, todo, ran, widening, widened>>

Compiled == next > Len(answer)
Stored == DOMAIN rows # {}
NotAsked == [asked |-> FALSE, taken |-> {}]

Init ==
  /\ answer \in Answer
  /\ next = 1
  /\ kept = << >> /\ rejected = << >>
  /\ rows = << >>
  /\ todo = {} /\ ran = {}
  /\ widening = [w \in Wideners |-> NotAsked]
  /\ widened = 0

-----------------------------------------------------------------------------
(* compile.go                                                              *)

LabelsOf(entries) == {entries[i].label : i \in DOMAIN entries}

(* The map of labels compileQueries has handed out so far. *)
Taken == LabelsOf(kept) \cup LabelsOf(rejected)

(* slug with its fallback. *)
Slug(label, position) == 
  IF label.word = "" THEN [word |-> "query", tail |-> <<position>>] ELSE label

(* freeLabel as it would be if it gave no suffix. *)
SameLabel(label, position, taken) == label

(* freeLabel: a suffix is tried, and not whether it is free. *)
FreeLabel(label, position, taken) ==
  IF label \in taken THEN [label EXCEPT !.tail = Append(@, position)] ELSE label

(* compileQuery: a taken label is refused first, then a ring the executor  *)
(* does not work, a worldwide query with a place and any other without.    *)
Compiles(label, shape, taken) == label \notin taken /\ shape = "well-formed"

(* One turn of the loop of compileQueries, on the answer cut to maxQueries. *)
Compile ==
  /\ ~Compiled /\ next <= MaxQueries
  /\ LET label == Slug(answer[next].label, next)
         entry(name) == [label |-> name, query |-> next, shape |-> answer[next].shape]
     IN  \/ /\ Compiles(label, answer[next].shape, Taken)
            /\ kept' = Append(kept, entry(label))
            /\ UNCHANGED rejected
         \/ /\ ~Compiles(label, answer[next].shape, Taken)
            /\ rejected' = Append(rejected, entry(FreeLabel(label, next, Taken)))
            /\ UNCHANGED kept
  /\ next' = next + 1
  /\ UNCHANGED <<answer, rows, todo, ran, widening, widened>>

-----------------------------------------------------------------------------
(* service.go                                                              *)

Row(query, shape, isWidened) ==
  [query |-> query, shape |-> shape, skipped |-> FALSE, widened |-> isWidened, yielded |-> FALSE]

Entry(entries, label) == CHOOSE i \in DOMAIN entries :
  /\ entries[i].label = label
  /\ \A j \in DOMAIN entries : entries[j].label = label => j <= i

(* The transaction of open: every kept query, then every rejected one as a *)
(* skipped row.  SaveCycleQuery upserts on the label, so a later entry     *)
(* replaces an earlier one.                                                *)
Opened ==
  [label \in Taken |->
     IF label \in LabelsOf(rejected)
     THEN LET entry == rejected[Entry(rejected, label)]
          IN  [Row(entry.query, entry.shape, FALSE) EXCEPT !.skipped = TRUE]
     ELSE LET entry == kept[Entry(kept, label)]
          IN  Row(entry.query, entry.shape, FALSE)]

(* executorPlan as it would be if it went by what the model wrote. *)
PlanAsWritten == {Slug(answer[i].label, i) : i \in DOMAIN answer}

(* executorPlan: all the queries of the round, by label. *)
Plan == DOMAIN rows

Open ==
  /\ Compiled \/ next > MaxQueries
  /\ kept # << >> /\ ~Stored
  /\ rows' = Opened
  /\ UNCHANGED <<queries, ran, widening, widened>>
  /\ todo' = Plan'

(* The round is resumed: a later start is answered with the same plan. *)
Resume ==
  /\ Stored
  /\ todo' = Plan
  /\ UNCHANGED <<queries, rows, ran, widening, widened>>

(* Widen reads the queries of the round before it asks the model. *)
WidenRead(w) ==
  /\ Stored /\ ~widening[w].asked
  /\ widening' = [widening EXCEPT ![w] = [asked |-> TRUE, taken |-> DOMAIN rows]]
  /\ UNCHANGED <<queries, rows, todo, ran, widened>>

WidenFails(w) ==
  /\ widening[w].asked
  /\ widening' = [widening EXCEPT ![w] = NotAsked]
  /\ UNCHANGED <<queries, rows, todo, ran, widened>>

(* Widen as it would be if it did not refuse a label the round has taken.  *)
WidenBlind(w) ==
  /\ widening[w].asked /\ widened < MaxWidened
  /\ \E written \in Labels :
       LET label == Slug(written, Cardinality(widening[w].taken) + 1)
           id    == MaxAnswer + widened + 1
       IN  /\ rows' = [l \in DOMAIN rows \cup {label} |->
                         IF l = label THEN Row(id, "well-formed", TRUE) ELSE rows[l]]
           /\ todo' = todo \cup {label}
  /\ widening' = [widening EXCEPT ![w] = NotAsked]
  /\ widened' = widened + 1
  /\ UNCHANGED <<queries, ran>>

(* The model answers with a query: compileQuery checks it against the      *)
(* labels that were read, and the transaction upserts the row, which keeps *)
(* its skipped mark and its tallies.                                       *)
WidenSave(w) ==
  /\ widening[w].asked /\ widened < MaxWidened
  /\ \E written \in Labels :
       LET label == Slug(written, Cardinality(widening[w].taken) + 1)
           id    == MaxAnswer + widened + 1
       IN  /\ Compiles(label, "well-formed", widening[w].taken)
           /\ rows' = [l \in DOMAIN rows \cup {label} |->
                         IF l # label THEN rows[l]
                         ELSE IF label \notin DOMAIN rows THEN Row(id, "well-formed", TRUE)
                         ELSE [rows[label] EXCEPT !.query = id, !.shape = "well-formed",
                                                  !.widened = TRUE]]
           /\ todo' = todo \cup {label}
  /\ widening' = [widening EXCEPT ![w] = NotAsked]
  /\ widened' = widened + 1
  /\ UNCHANGED <<queries, ran>>

-----------------------------------------------------------------------------
(* round.ts                                                                *)

(* prepareQuery as it would be if it took every query as planned. *)
PrepareAll(row) == TRUE

(* prepareQuery: a ring it does not know, a place where none belongs and   *)
(* a missing place are refused here, too.                                  *)
Prepares(row) == row.shape = "well-formed"

(* skipQuery: the planner marks the row. *)
Skipped(label) == [rows EXCEPT ![label].skipped = TRUE]

(* drive hands a query that will not prepare to skipQuery. *)
Refuse(label) ==
  /\ label \in todo /\ ~Prepares(rows[label])
  /\ rows' = Skipped(label)
  /\ todo' = todo \ {label}
  /\ UNCHANGED <<queries, ran, widening, widened>>

(* locate finds no such place, so the query is skipped before a search. *)
PlaceUnknown(label) ==
  /\ label \in todo /\ Prepares(rows[label])
  /\ rows' = Skipped(label)
  /\ todo' = todo \ {label}
  /\ UNCHANGED <<queries, ran, widening, widened>>

(* runQuery searches LinkedIn, and harvests what is new. *)
Search(label) ==
  /\ label \in todo /\ Prepares(rows[label])
  /\ ran' = ran \cup {rows[label].query}
  /\ rows' \in {rows, [rows EXCEPT ![label].yielded = TRUE]}
  /\ todo' = todo \ {label}
  /\ UNCHANGED <<queries, widening, widened>>

Next ==
  \/ Compile \/ Open \/ Resume
  \/ \E w \in Wideners : WidenRead(w) \/ WidenFails(w) \/ WidenSave(w)
  \/ \E label \in todo : Refuse(label) \/ PlaceUnknown(label) \/ Search(label)

Spec == Init /\ [][Next]_vars

-----------------------------------------------------------------------------
(* Properties.                                                             *)

Stands(query) == \E label \in DOMAIN rows : rows[label].query = query

(* Every entry has its type.                                               *)
TypeOK ==
  /\ answer \in Answer
  /\ next \in 1 .. (MaxAnswer + 1)
  /\ kept \in Seq(Entries) /\ rejected \in Seq(Entries)
  /\ \A label \in DOMAIN rows : label \in Names /\ rows[label] \in Rows
  /\ todo \subseteq DOMAIN rows
  /\ ran \subseteq 1 .. (MaxAnswer + MaxWidened)
  /\ widening \in [Wideners -> [asked : BOOLEAN, taken : SUBSET Names]]
  /\ widened \in 0 .. MaxWidened

(* Nothing the planner wrote is dropped, and nothing is stored over it:    *)
(* every query of the plan, kept or rejected, keeps a row of its own       *)
(* through the widenings (freeLabel, SaveCycleQuery's upsert, Widen).      *)
EveryQueryHasItsRow ==
  Stored =>
    /\ \A i \in DOMAIN kept : Stands(kept[i].query)
    /\ \A i \in DOMAIN rejected : Stands(rejected[i].query)

(* What the compiler refuses for its ring or its place the executor never  *)
(* searches for, although the plan hands it over: prepareQuery makes the   *)
(* same checks (compileQuery, executorPlan, prepareQuery).                 *)
NoMalformedSearch ==
  \A i \in DOMAIN rejected : rejected[i].shape = "malformed" => rejected[i].query \notin ran

(* A skipped row stays skipped and a yield stays counted, whatever a       *)
(* resumed plan or a widening does to the round later.                     *)
MarksStay ==
  [][\A label \in DOMAIN rows :
       /\ label \in DOMAIN rows'
       /\ rows[label].skipped => rows'[label].skipped
       /\ rows[label].yielded => rows'[label].yielded]_rows

=============================================================================
