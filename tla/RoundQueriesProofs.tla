------------------------- MODULE RoundQueriesProofs -------------------------
(***************************************************************************)
(* What holds of the queries of a round for every answer of the planner,   *)
(* every bound and every number of widenings at the same time: the types,  *)
(* the marks that stay on a row, that what the compiler refuses for its    *)
(* form is never searched for, and, for labels without a suffix of their   *)
(* own, that no query loses its row to another.                            *)
(***************************************************************************)
EXTENDS RoundQueries, SequenceTheorems, FiniteSetTheorems, WellFoundedInduction, TLAPS

-----------------------------------------------------------------------------
(* The least of a set of naturals, and the last of a set of positions.     *)

LEMMA Least ==
  ASSUME NEW T \in SUBSET Nat, T # {}
  PROVE  \E x \in T : \A y \in T : x <= y
<1> DEFINE R == OpToRel(<, Nat)
<1>1. IsWellFoundedOn(R, Nat)
  BY NatLessThanWellFounded
<1>2. \A x, y \in Nat : (<<x, y>> \in R) <=> x < y
  BY DEF OpToRel
<1> HIDE DEF R
<1>3. PICK x \in T : \A y \in T : ~ (<<y, x>> \in R)
  <2>1. T \subseteq Nat
    OBVIOUS
  <2> QED BY <1>1, <2>1, WFMin, Zenon
<1>4. \A y \in T : x \in Nat /\ y \in Nat /\ ~(y < x)
  BY <1>2, <1>3
<1>5. \A y \in T : x <= y
  BY <1>4
<1> QED BY <1>5

LEMMA LastIndex ==
  ASSUME NEW n \in Nat, NEW I \in SUBSET (1 .. n), I # {}
  PROVE  \E i \in I : \A j \in I : j <= i
<1> DEFINE T == {n - i : i \in I}
<1>1. T \in SUBSET Nat /\ T # {}
  <2>1. \A i \in I : n - i \in Nat
    OBVIOUS
  <2> QED BY <2>1
<1>2. PICK x \in T : \A y \in T : x <= y
  BY <1>1, Least
<1>3. PICK i \in I : x = n - i
  BY <1>2
<1>4. \A j \in I : n - i <= n - j
  BY <1>2, <1>3
<1> QED BY <1>4

(* The entry a label stands for is the last one written under it (Entry).  *)
LEMMA EntryFound ==
  ASSUME NEW entries \in Seq(Entries), NEW label \in LabelsOf(entries)
  PROVE  /\ Entry(entries, label) \in DOMAIN entries
         /\ entries[Entry(entries, label)].label = label
         /\ entries[Entry(entries, label)] \in Entries
<1> DEFINE I == {i \in DOMAIN entries : entries[i].label = label}
<1>1. DOMAIN entries = 1 .. Len(entries) /\ Len(entries) \in Nat
  BY LenProperties
<1>2. I \in SUBSET (1 .. Len(entries)) /\ I # {}
  BY <1>1 DEF LabelsOf
<1>3. PICK i \in I : \A j \in I : j <= i
  BY <1>1, <1>2, LastIndex
<1>4. \E k \in DOMAIN entries :
        /\ entries[k].label = label
        /\ \A j \in DOMAIN entries : entries[j].label = label => j <= k
  BY <1>3
<1>5. /\ Entry(entries, label) \in DOMAIN entries
      /\ entries[Entry(entries, label)].label = label
  BY <1>4 DEF Entry
<1>6. entries[Entry(entries, label)] \in Entries
  BY <1>5, <1>1, ElementOfSeq
<1> QED BY <1>5, <1>6

(* Appending an entry adds its label. *)
LEMMA AppendLabels ==
  ASSUME NEW entries \in Seq(Entries), NEW e \in Entries
  PROVE  /\ Append(entries, e) \in Seq(Entries)
         /\ LabelsOf(Append(entries, e)) = LabelsOf(entries) \cup {e.label}
         /\ DOMAIN Append(entries, e) = 1 .. Len(entries) + 1
         /\ DOMAIN entries = 1 .. Len(entries) /\ Len(entries) \in Nat
         /\ \A i \in DOMAIN entries : Append(entries, e)[i] = entries[i]
         /\ Append(entries, e)[Len(entries) + 1] = e
<1>1. /\ Append(entries, e) \in Seq(Entries)
      /\ DOMAIN Append(entries, e) = 1 .. Len(entries) + 1
      /\ DOMAIN entries = 1 .. Len(entries) /\ Len(entries) \in Nat
      /\ \A i \in DOMAIN entries : Append(entries, e)[i] = entries[i]
      /\ Append(entries, e)[Len(entries) + 1] = e
  BY AppendProperties, LenProperties
<1>2. LabelsOf(Append(entries, e)) = LabelsOf(entries) \cup {e.label}
  BY <1>1 DEF LabelsOf
<1> QED BY <1>1, <1>2

-----------------------------------------------------------------------------
(* Types.  The labels of a round are finitely many, so the position a      *)
(* widening falls back to is a number.                                     *)

FinitelyMany ==
  /\ IsFiniteSet(Taken) /\ IsFiniteSet(DOMAIN rows)
  /\ \A w \in Wideners : IsFiniteSet(widening[w].taken)

TypeInv == TypeOK /\ FinitelyMany

(* A label the model wrote, or its fallback, is a name (slug).             *)
LEMMA SlugTyped ==
  ASSUME NEW label \in Names, NEW position \in Nat
  PROVE  Slug(label, position) \in Names
<1>1. [word |-> "query", tail |-> <<position>>] \in Names
  <2>1. "query" \in Words
    BY DEF Words
  <2>2. <<position>> \in Seq(Nat)
    OBVIOUS
  <2> QED BY <2>1, <2>2 DEF Names
<1> QED BY <1>1 DEF Slug

(* A label is freed with a suffix (freeLabel). *)
LEMMA FreeLabelTyped ==
  ASSUME NEW label \in Names, NEW position \in Nat, NEW taken
  PROVE  /\ FreeLabel(label, position, taken) \in Names
         /\ label \notin taken => FreeLabel(label, position, taken) = label
         /\ label \in taken =>
              FreeLabel(label, position, taken).tail = Append(label.tail, position)
<1>1. Append(label.tail, position) \in Seq(Nat)
  BY AppendProperties DEF Names
<1> QED BY <1>1 DEF FreeLabel, Names

LEMMA AnswerFields ==
  ASSUME answer \in Answer
  PROVE  /\ Len(answer) \in 0 .. MaxAnswer /\ DOMAIN answer = 1 .. Len(answer)
         /\ \A i \in DOMAIN answer : answer[i].label \in Names /\ answer[i].shape \in Shapes
<1>1. PICK n \in 0 .. MaxAnswer : answer \in [1 .. n -> [label : Labels, shape : Shapes]]
  BY DEF Answer
<1>2. n \in Nat
  BY <1>1, QueriesAssumption
<1>3. Len(answer) = n /\ DOMAIN answer = 1 .. n
  BY <1>1, <1>2
<1>4. \A i \in DOMAIN answer : answer[i].label \in Labels /\ answer[i].shape \in Shapes
  BY <1>1, <1>3
<1> QED BY <1>3, <1>4, QueriesAssumption

LEMMA TypeInit == Init => TypeInv
<1> SUFFICES ASSUME Init PROVE TypeInv
  OBVIOUS
<1>1. DOMAIN << >> = {} /\ << >> \in Seq(Entries)
  BY EmptySeq
<1>2. Taken = {} /\ DOMAIN rows = {}
  BY <1>1 DEF Init, Taken, LabelsOf
<1>3. FinitelyMany
  BY <1>2, FS_EmptySet DEF Init, FinitelyMany, NotAsked
<1>4. TypeOK
  BY <1>1, <1>2, QueriesAssumption DEF Init, TypeOK, NotAsked
<1> QED BY <1>3, <1>4 DEF TypeInv

(* The entry a query is kept or rejected under (compileQueries). *)
EntryOf(label) == [label |-> label, query |-> next, shape |-> answer[next].shape]

LEMMA CompileTyped ==
  ASSUME TypeInv, Compile
  PROVE  LET label == Slug(answer[next].label, next)
             freed == FreeLabel(label, next, Taken)
         IN  /\ next \in DOMAIN answer /\ next \in 1 .. MaxAnswer /\ next \in Nat
             /\ label \in Names /\ freed \in Names
             /\ EntryOf(label) \in Entries /\ EntryOf(freed) \in Entries
             /\ \/ /\ label \notin Taken /\ answer[next].shape = "well-formed"
                   /\ kept' = Append(kept, EntryOf(label)) /\ rejected' = rejected
                   /\ Taken' = Taken \cup {label}
                \/ /\ kept' = kept /\ rejected' = Append(rejected, EntryOf(freed))
                   /\ Taken' = Taken \cup {freed}
<1> DEFINE label == Slug(answer[next].label, next)
           freed == FreeLabel(label, next, Taken)
<1>1. /\ next \in DOMAIN answer /\ next \in 1 .. MaxAnswer /\ next \in Nat
      /\ answer[next].label \in Names /\ answer[next].shape \in Shapes
  <2>1. next \in 1 .. (MaxAnswer + 1) /\ next <= Len(answer) /\ answer \in Answer
    BY AnswerFields, QueriesAssumption DEF TypeInv, TypeOK, Compile, Compiled
  <2>2. next \in DOMAIN answer
    BY <2>1, AnswerFields, QueriesAssumption
  <2> QED BY <2>1, <2>2, AnswerFields, QueriesAssumption
<1>2. label \in Names
  BY <1>1, SlugTyped
<1>3. freed \in Names
  BY <1>1, <1>2, FreeLabelTyped
<1> HIDE DEF label, freed
<1>4. EntryOf(label) \in Entries /\ EntryOf(freed) \in Entries
  BY <1>1, <1>2, <1>3 DEF EntryOf, Entries
<1>5. kept \in Seq(Entries) /\ rejected \in Seq(Entries)
  BY DEF TypeInv, TypeOK
<1>6. EntryOf(label).label = label /\ EntryOf(freed).label = freed
  BY DEF EntryOf
<1>7. \/ /\ label \notin Taken /\ answer[next].shape = "well-formed"
         /\ kept' = Append(kept, EntryOf(label)) /\ rejected' = rejected
      \/ kept' = kept /\ rejected' = Append(rejected, EntryOf(freed))
  BY DEF Compile, Compiles, EntryOf, label, freed
<1>8. CASE /\ label \notin Taken /\ answer[next].shape = "well-formed"
           /\ kept' = Append(kept, EntryOf(label)) /\ rejected' = rejected
  <2>1. LabelsOf(kept') = LabelsOf(kept) \cup {label} /\ LabelsOf(rejected') = LabelsOf(rejected)
    BY <1>4, <1>5, <1>6, <1>8, AppendLabels
  <2>2. Taken' = Taken \cup {label}
    BY <2>1 DEF Taken, LabelsOf
  <2> QED BY <1>1, <1>2, <1>3, <1>4, <1>8, <2>2 DEF label, freed
<1>9. CASE kept' = kept /\ rejected' = Append(rejected, EntryOf(freed))
  <2>1. LabelsOf(rejected') = LabelsOf(rejected) \cup {freed} /\ LabelsOf(kept') = LabelsOf(kept)
    BY <1>4, <1>5, <1>6, <1>9, AppendLabels
  <2>2. Taken' = Taken \cup {freed}
    BY <2>1 DEF Taken, LabelsOf
  <2> QED BY <1>1, <1>2, <1>3, <1>4, <1>9, <2>2 DEF label, freed
<1> QED BY <1>7, <1>8, <1>9

(* A row the transaction of open writes is a row, and says what the last   *)
(* entry under its label says.                                             *)
LEMMA OpenedRows ==
  ASSUME TypeOK, NEW label \in Taken
  PROVE  /\ Opened[label] \in Rows /\ label \in Names
         /\ Opened[label].query \in 1 .. MaxAnswer
         /\ label \in LabelsOf(rejected) =>
              LET e == rejected[Entry(rejected, label)]
              IN  Opened[label].query = e.query /\ Opened[label].shape = e.shape
         /\ label \notin LabelsOf(rejected) =>
              LET e == kept[Entry(kept, label)]
              IN  Opened[label].query = e.query /\ Opened[label].shape = e.shape
<1>r. ASSUME NEW e \in Entries
      PROVE  /\ [Row(e.query, e.shape, FALSE) EXCEPT !.skipped = TRUE] \in Rows
             /\ Row(e.query, e.shape, FALSE) \in Rows
             /\ [Row(e.query, e.shape, FALSE) EXCEPT !.skipped = TRUE].query = e.query
             /\ [Row(e.query, e.shape, FALSE) EXCEPT !.skipped = TRUE].shape = e.shape
             /\ Row(e.query, e.shape, FALSE).query = e.query
             /\ Row(e.query, e.shape, FALSE).shape = e.shape
             /\ e.query \in 1 .. MaxAnswer /\ e.label \in Names
  <2>1. /\ e.query \in 1 .. MaxAnswer /\ e.query \in 1 .. (MaxAnswer + MaxWidened)
        /\ e.shape \in Shapes /\ e.label \in Names
    BY QueriesAssumption DEF Entries
  <2> QED BY <2>1 DEF Row, Rows
<1>1. CASE label \in LabelsOf(rejected)
  <2> DEFINE e == rejected[Entry(rejected, label)]
  <2>1. e \in Entries /\ e.label = label
    BY <1>1, EntryFound DEF TypeOK
  <2>2. Opened[label] = [Row(e.query, e.shape, FALSE) EXCEPT !.skipped = TRUE]
    BY <1>1 DEF Opened
  <2> HIDE DEF e
  <2>3. /\ Opened[label] \in Rows /\ label \in Names
        /\ Opened[label].query \in 1 .. MaxAnswer
        /\ Opened[label].query = e.query /\ Opened[label].shape = e.shape
    BY <2>1, <2>2, <1>r
  <2> QED BY <1>1, <2>3 DEF e
<1>2. CASE label \notin LabelsOf(rejected)
  <2> DEFINE e == kept[Entry(kept, label)]
  <2>1. e \in Entries /\ e.label = label
    BY <1>2, EntryFound DEF TypeOK, Taken
  <2>2. Opened[label] = Row(e.query, e.shape, FALSE)
    BY <1>2 DEF Opened
  <2> HIDE DEF e
  <2>3. /\ Opened[label] \in Rows /\ label \in Names
        /\ Opened[label].query \in 1 .. MaxAnswer
        /\ Opened[label].query = e.query /\ Opened[label].shape = e.shape
    BY <2>1, <2>2, <1>r
  <2> QED BY <1>2, <2>3 DEF e
<1> QED BY <1>1, <1>2

(* Marking a row keeps the rows typed, and what they ask for (skipQuery,   *)
(* RecordYield).                                                           *)
LEMMA MarkedRows ==
  ASSUME \A l \in DOMAIN rows : l \in Names /\ rows[l] \in Rows, NEW label,
         rows' \in {Skipped(label), [rows EXCEPT ![label].yielded = TRUE], rows}
  PROVE  /\ DOMAIN rows' = DOMAIN rows
         /\ \A l \in DOMAIN rows :
              /\ l \in Names /\ rows'[l] \in Rows
              /\ rows'[l].query = rows[l].query /\ rows'[l].shape = rows[l].shape
              /\ rows[l].skipped => rows'[l].skipped
              /\ rows[l].yielded => rows'[l].yielded
<1>1. ASSUME NEW l \in DOMAIN rows
      PROVE  /\ l \in Names /\ rows'[l] \in Rows
             /\ rows'[l].query = rows[l].query /\ rows'[l].shape = rows[l].shape
             /\ rows[l].skipped => rows'[l].skipped
             /\ rows[l].yielded => rows'[l].yielded
  <2>1. rows[l] \in Rows /\ l \in Names
    OBVIOUS
  <2>2. rows'[l] \in {rows[l], [rows[l] EXCEPT !.skipped = TRUE], [rows[l] EXCEPT !.yielded = TRUE]}
    BY DEF Skipped
  <2> QED BY <2>1, <2>2 DEF Rows
<1>2. DOMAIN rows' = DOMAIN rows
  BY DEF Skipped
<1> QED BY <1>1, <1>2

(* What the transaction of Widen does to the rows. *)
LEMMA WidenedRows ==
  ASSUME TypeInv, NEW w \in Wideners, WidenSave(w)
  PROVE  \E label \in Names :
           /\ label \notin widening[w].taken
           /\ DOMAIN rows' = DOMAIN rows \cup {label}
           /\ todo' = todo \cup {label}
           /\ \A l \in DOMAIN rows \ {label} : rows'[l] = rows[l]
           /\ rows'[label] \in Rows
           /\ rows'[label].query > MaxAnswer /\ rows'[label].shape = "well-formed"
           /\ label \in DOMAIN rows =>
                /\ rows[label].skipped => rows'[label].skipped
                /\ rows[label].yielded => rows'[label].yielded
<1> DEFINE id == MaxAnswer + widened + 1
<1>1. PICK written \in Labels :
        LET label == Slug(written, Cardinality(widening[w].taken) + 1)
        IN  /\ Compiles(label, "well-formed", widening[w].taken)
            /\ rows' = [l \in DOMAIN rows \cup {label} |->
                          IF l # label THEN rows[l]
                          ELSE IF label \notin DOMAIN rows THEN Row(id, "well-formed", TRUE)
                          ELSE [rows[label] EXCEPT !.query = id, !.shape = "well-formed",
                                                   !.widened = TRUE]]
            /\ todo' = todo \cup {label}
  BY DEF WidenSave
<1> DEFINE label == Slug(written, Cardinality(widening[w].taken) + 1)
<1>2. id \in 1 .. (MaxAnswer + MaxWidened) /\ id > MaxAnswer
  BY QueriesAssumption DEF WidenSave, TypeInv, TypeOK
<1>3. label \in Names
  <2>1. Cardinality(widening[w].taken) + 1 \in Nat
    BY FS_CardinalityType DEF TypeInv, FinitelyMany
  <2> QED BY <2>1, SlugTyped, QueriesAssumption
<1> HIDE DEF id, label
<1>4. /\ label \notin widening[w].taken
      /\ DOMAIN rows' = DOMAIN rows \cup {label}
      /\ todo' = todo \cup {label}
      /\ \A l \in DOMAIN rows \ {label} : rows'[l] = rows[l]
      /\ rows'[label] = IF label \notin DOMAIN rows THEN Row(id, "well-formed", TRUE)
                        ELSE [rows[label] EXCEPT !.query = id, !.shape = "well-formed",
                                                 !.widened = TRUE]
  BY <1>1 DEF label, Compiles
<1>5. /\ rows'[label] \in Rows
      /\ rows'[label].query = id /\ rows'[label].shape = "well-formed"
      /\ label \in DOMAIN rows => /\ rows[label].skipped => rows'[label].skipped
                                  /\ rows[label].yielded => rows'[label].yielded
  <2>1. CASE label \notin DOMAIN rows
    BY <1>2, <1>4, <2>1 DEF Row, Rows, Shapes
  <2>2. CASE label \in DOMAIN rows
    <3>1. rows[label] \in Rows
      BY <2>2 DEF TypeInv, TypeOK
    <3> QED BY <1>2, <1>4, <2>2, <3>1 DEF Rows, Shapes
  <2> QED BY <2>1, <2>2
<1> QED BY <1>2, <1>3, <1>4, <1>5

LEMMA TypeStep == TypeInv /\ [Next]_vars => TypeInv'
<1> SUFFICES ASSUME TypeInv, [Next]_vars PROVE TypeInv'
  OBVIOUS
<1> USE DEF TypeInv
<1>t. TypeOK /\ FinitelyMany
  OBVIOUS
<1>1. CASE Compile
  <2>1. PICK label \in Names, e \in Entries :
          /\ Taken' = Taken \cup {label}
          /\ \/ kept' = Append(kept, e) /\ rejected' = rejected
             \/ kept' = kept /\ rejected' = Append(rejected, e)
    BY <1>1, CompileTyped
  <2>2. kept' \in Seq(Entries) /\ rejected' \in Seq(Entries)
    <3>1. kept \in Seq(Entries) /\ rejected \in Seq(Entries)
      BY <1>t DEF TypeOK
    <3> QED BY <2>1, <3>1, AppendLabels
  <2>3. next' \in 1 .. (MaxAnswer + 1)
    BY <1>1, CompileTyped, QueriesAssumption DEF Compile
  <2>4. FinitelyMany'
    BY <1>1, <1>t, <2>1, FS_AddElement DEF Compile, FinitelyMany
  <2> QED BY <1>1, <1>t, <2>2, <2>3, <2>4 DEF Compile, TypeOK
<1>2. CASE Open
  <2>1. rows' = Opened /\ DOMAIN rows' = Taken
    BY <1>2 DEF Open, Opened
  <2>2. \A label \in DOMAIN rows' : label \in Names /\ rows'[label] \in Rows
    BY <1>t, <2>1, OpenedRows
  <2>3. FinitelyMany'
    BY <1>2, <1>t, <2>1 DEF Open, queries, FinitelyMany, Taken, LabelsOf
  <2> QED BY <1>2, <1>t, <2>2, <2>3 DEF Open, queries, TypeOK, Plan
<1>k. ASSUME UNCHANGED queries PROVE Taken' = Taken
  BY <1>k DEF queries, Taken, LabelsOf
<1>3. CASE Resume
  BY <1>3, <1>t, <1>k DEF Resume, queries, TypeOK, FinitelyMany, Plan
<1>4. ASSUME NEW w \in Wideners, WidenRead(w) \/ WidenFails(w) PROVE TypeInv'
  <2>0. DOMAIN rows \in SUBSET Names /\ IsFiniteSet(DOMAIN rows)
    BY <1>t DEF TypeOK, FinitelyMany
  <2>a. \/ widening' = [widening EXCEPT ![w] = [asked |-> TRUE, taken |-> DOMAIN rows]]
        \/ widening' = [widening EXCEPT ![w] = NotAsked]
    BY <1>4 DEF WidenRead, WidenFails
  <2>b. PICK taken \in SUBSET Names, asked \in BOOLEAN :
          /\ widening' = [widening EXCEPT ![w] = [asked |-> asked, taken |-> taken]]
          /\ IsFiniteSet(taken)
    BY <2>0, <2>a, FS_EmptySet DEF NotAsked
  <2>1. widening' \in [Wideners -> [asked : BOOLEAN, taken : SUBSET Names]]
    BY <1>t, <2>b DEF TypeOK
  <2>2. \A v \in Wideners : IsFiniteSet(widening'[v].taken)
    BY <1>t, <2>b DEF TypeOK, FinitelyMany
  <2> QED BY <1>4, <1>t, <1>k, <2>1, <2>2
          DEF WidenRead, WidenFails, queries, TypeOK, FinitelyMany
<1>5. ASSUME NEW w \in Wideners, WidenSave(w) PROVE TypeInv'
  <2>1. PICK label \in Names :
           /\ DOMAIN rows' = DOMAIN rows \cup {label}
           /\ todo' = todo \cup {label}
           /\ \A l \in DOMAIN rows \ {label} : rows'[l] = rows[l]
           /\ rows'[label] \in Rows
    BY <1>5, WidenedRows
  <2>2. \A l \in DOMAIN rows' : l \in Names /\ rows'[l] \in Rows
    BY <1>t, <2>1 DEF TypeOK
  <2>3. widening' \in [Wideners -> [asked : BOOLEAN, taken : SUBSET Names]]
    BY <1>5, <1>t DEF WidenSave, NotAsked, TypeOK
  <2>4. \A v \in Wideners : IsFiniteSet(widening'[v].taken)
    BY <1>5, <1>t, FS_EmptySet DEF WidenSave, NotAsked, TypeOK, FinitelyMany
  <2>5. IsFiniteSet(DOMAIN rows')
    BY <1>t, <2>1, FS_AddElement DEF FinitelyMany
  <2>6. widened' \in 0 .. MaxWidened
    BY <1>5, <1>t, QueriesAssumption DEF WidenSave, TypeOK
  <2>7. FinitelyMany'
    BY <1>5, <1>t, <1>k, <2>4, <2>5 DEF WidenSave, FinitelyMany
  <2>8. todo' \subseteq DOMAIN rows'
    BY <1>t, <2>1 DEF TypeOK
  <2> QED BY <1>5, <1>t, <2>2, <2>3, <2>6, <2>7, <2>8 DEF WidenSave, queries, TypeOK
<1>6. ASSUME NEW label \in todo, Refuse(label) \/ PlaceUnknown(label) \/ Search(label)
      PROVE  TypeInv'
  <2>1. rows' \in {Skipped(label), [rows EXCEPT ![label].yielded = TRUE], rows}
    BY <1>6 DEF Refuse, PlaceUnknown, Search
  <2>2. /\ DOMAIN rows' = DOMAIN rows
        /\ \A l \in DOMAIN rows : l \in Names /\ rows'[l] \in Rows
    <3>1. \A l \in DOMAIN rows : l \in Names /\ rows[l] \in Rows
      BY <1>t DEF TypeOK
    <3> QED BY <2>1, <3>1, MarkedRows
  <2>3. ran' \subseteq 1 .. (MaxAnswer + MaxWidened)
    <3>1. rows[label].query \in 1 .. (MaxAnswer + MaxWidened)
      BY <1>t DEF TypeOK, Rows
    <3> QED BY <1>6, <1>t, <3>1 DEF Refuse, PlaceUnknown, Search, TypeOK
  <2> QED BY <1>6, <1>t, <1>k, <2>2, <2>3
          DEF Refuse, PlaceUnknown, Search, queries, TypeOK, FinitelyMany
<1>7. CASE UNCHANGED vars
  BY <1>7, <1>t, <1>k DEF vars, queries, TypeOK, FinitelyMany
<1> QED BY <1>1, <1>2, <1>3, <1>4, <1>5, <1>6, <1>7 DEF Next

(* Every query, row and widening of a round keeps its type, whatever the   *)
(* planner answers.                                                        *)
THEOREM QueriesTypeCorrect == Spec => []TypeOK
<1>1. TypeInv => TypeOK
  BY DEF TypeInv
<1> QED BY <1>1, TypeInit, TypeStep, PTL DEF Spec

-----------------------------------------------------------------------------
(* The marks of a row.                                                     *)

MarksKept ==
  \A label \in DOMAIN rows :
    /\ label \in DOMAIN rows'
    /\ rows[label].skipped => rows'[label].skipped
    /\ rows[label].yielded => rows'[label].yielded

LEMMA MarksStep == TypeInv /\ Next => MarksKept
<1> SUFFICES ASSUME TypeInv, Next PROVE MarksKept
  OBVIOUS
<1>1. ASSUME UNCHANGED rows PROVE MarksKept
  BY <1>1 DEF MarksKept
<1>2. CASE Open
  BY <1>2 DEF Open, Stored, MarksKept
<1>3. ASSUME NEW w \in Wideners, WidenSave(w) PROVE MarksKept
  <2>1. PICK label \in Names :
          /\ DOMAIN rows' = DOMAIN rows \cup {label}
          /\ \A l \in DOMAIN rows \ {label} : rows'[l] = rows[l]
          /\ label \in DOMAIN rows =>
               /\ rows[label].skipped => rows'[label].skipped
               /\ rows[label].yielded => rows'[label].yielded
    BY <1>3, WidenedRows
  <2> QED BY <2>1 DEF MarksKept
<1>4. ASSUME NEW label \in todo, Refuse(label) \/ PlaceUnknown(label) \/ Search(label)
      PROVE  MarksKept
  <2>1. rows' \in {Skipped(label), [rows EXCEPT ![label].yielded = TRUE], rows}
    BY <1>4 DEF Refuse, PlaceUnknown, Search
  <2> QED BY <2>1, MarkedRows DEF TypeInv, TypeOK, MarksKept
<1> QED BY <1>1, <1>2, <1>3, <1>4 DEF Next, Compile, Resume, WidenRead, WidenFails

(* A resumed plan or a widening never takes back that a row was skipped or *)
(* has yielded, however many widenings are being served.                   *)
THEOREM MarksAreKept == Spec => MarksStay
<1>1. TypeInv /\ [Next]_vars => [MarksKept]_rows
  BY MarksStep DEF vars
<1> QED BY <1>1, TypeInit, TypeStep, PTL DEF Spec, MarksStay, MarksKept

-----------------------------------------------------------------------------
(* What was written malformed.  A row of the plan and a search keep the    *)
(* shape the model gave the query; a widening is past the answer.          *)

Written(query, shape) ==
  query <= MaxAnswer => query \in DOMAIN answer /\ answer[query].shape = shape

ShapeInv ==
  /\ \A i \in DOMAIN kept : Written(kept[i].query, kept[i].shape)
  /\ \A i \in DOMAIN rejected : Written(rejected[i].query, rejected[i].shape)
  /\ \A label \in DOMAIN rows : Written(rows[label].query, rows[label].shape)
  /\ \A query \in ran : Written(query, "well-formed")

LEMMA ShapeStep == TypeInv /\ ShapeInv /\ [Next]_vars => ShapeInv'
<1> SUFFICES ASSUME TypeInv, ShapeInv, [Next]_vars PROVE ShapeInv'
  OBVIOUS
<1>t. TypeOK
  BY DEF TypeInv
<1>a. answer' = answer
  BY DEF Next, Compile, Open, Resume, WidenRead, WidenFails, WidenSave, Refuse, PlaceUnknown,
         Search, queries, vars
<1>w. \A query, shape : Written(query, shape)' <=> Written(query, shape)
  BY <1>a DEF Written
<1>1. CASE Compile
  <2>0. kept \in Seq(Entries) /\ rejected \in Seq(Entries)
    BY <1>t DEF TypeOK
  <2>1. PICK e \in Entries :
          /\ e.query = next /\ e.shape = answer[next].shape /\ next \in DOMAIN answer
          /\ \/ kept' = Append(kept, e) /\ rejected' = rejected
             \/ kept' = kept /\ rejected' = Append(rejected, e)
    BY <1>1, CompileTyped DEF EntryOf
  <2>2. Written(e.query, e.shape)
    BY <2>1 DEF Written
  <2>3. ASSUME NEW s \in Seq(Entries), \A i \in DOMAIN s : Written(s[i].query, s[i].shape)
        PROVE  \A i \in DOMAIN Append(s, e) :
                 Written(Append(s, e)[i].query, Append(s, e)[i].shape)
    <3> SUFFICES ASSUME NEW i \in DOMAIN Append(s, e)
                 PROVE  Written(Append(s, e)[i].query, Append(s, e)[i].shape)
      OBVIOUS
    <3>1. /\ i \in DOMAIN s => Append(s, e)[i] = s[i]
          /\ i \notin DOMAIN s => Append(s, e)[i] = e
      BY AppendLabels
    <3> QED BY <2>2, <2>3, <3>1
  <2>4. /\ \A i \in DOMAIN kept' : Written(kept'[i].query, kept'[i].shape)
        /\ \A i \in DOMAIN rejected' : Written(rejected'[i].query, rejected'[i].shape)
    BY <2>0, <2>1, <2>3 DEF ShapeInv
  <2> QED BY <1>1, <1>w, <2>4 DEF Compile, ShapeInv
<1>2. CASE Open
  <2>1. rows' = Opened /\ DOMAIN rows' = Taken
    BY <1>2 DEF Open, Opened
  <2>2. ASSUME NEW label \in Taken PROVE Written(Opened[label].query, Opened[label].shape)
    <3>1. CASE label \in LabelsOf(rejected)
      <4>1. Entry(rejected, label) \in DOMAIN rejected
        BY <1>t, <3>1, EntryFound DEF TypeOK
      <4> QED BY <1>t, <3>1, <4>1, OpenedRows DEF ShapeInv
    <3>2. CASE label \notin LabelsOf(rejected)
      <4>1. Entry(kept, label) \in DOMAIN kept
        BY <1>t, <3>2, EntryFound DEF TypeOK, Taken
      <4> QED BY <1>t, <3>2, <4>1, OpenedRows DEF ShapeInv
    <3> QED BY <3>1, <3>2
  <2> QED BY <1>2, <1>w, <2>1, <2>2 DEF Open, queries, ShapeInv
<1>3. ASSUME NEW w \in Wideners, WidenSave(w) PROVE ShapeInv'
  <2>1. PICK label \in Names :
           /\ DOMAIN rows' = DOMAIN rows \cup {label}
           /\ \A l \in DOMAIN rows \ {label} : rows'[l] = rows[l]
           /\ rows'[label] \in Rows /\ rows'[label].query > MaxAnswer
    BY <1>3, <1>t, WidenedRows
  <2>2. Written(rows'[label].query, rows'[label].shape)
    BY <2>1, QueriesAssumption DEF Rows, Written
  <2>3. \A l \in DOMAIN rows' : Written(rows'[l].query, rows'[l].shape)
    BY <2>1, <2>2 DEF ShapeInv
  <2> QED BY <1>3, <1>w, <2>3 DEF WidenSave, queries, ShapeInv
<1>4. ASSUME NEW label \in todo, Refuse(label) \/ PlaceUnknown(label) \/ Search(label)
      PROVE  ShapeInv'
  <2>0. /\ \A l \in DOMAIN rows : l \in Names /\ rows[l] \in Rows
        /\ label \in DOMAIN rows
    BY <1>t DEF TypeOK
  <2>1. rows' \in {Skipped(label), [rows EXCEPT ![label].yielded = TRUE], rows}
    BY <1>4 DEF Refuse, PlaceUnknown, Search
  <2>2. /\ DOMAIN rows' = DOMAIN rows
        /\ \A l \in DOMAIN rows : rows'[l].query = rows[l].query /\ rows'[l].shape = rows[l].shape
    <3>1. \A l \in DOMAIN rows : l \in Names /\ rows[l] \in Rows
      BY <2>0
    <3> QED BY <2>1, <3>1, MarkedRows
  <2>3. \A query \in ran' : Written(query, "well-formed")
    <3>1. rows[label].shape = "well-formed" => Written(rows[label].query, "well-formed")
      BY <2>0 DEF ShapeInv
    <3>2. \/ ran' = ran
          \/ ran' = ran \cup {rows[label].query} /\ rows[label].shape = "well-formed"
      BY <1>4 DEF Refuse, PlaceUnknown, Search, Prepares
    <3> QED BY <3>1, <3>2 DEF ShapeInv
  <2> QED BY <1>4, <1>w, <2>2, <2>3 DEF Refuse, PlaceUnknown, Search, queries, ShapeInv
<1>5. CASE Resume \/ (\E w \in Wideners : WidenRead(w) \/ WidenFails(w)) \/ UNCHANGED vars
  BY <1>5, <1>w DEF Resume, WidenRead, WidenFails, vars, queries, ShapeInv
<1> QED BY <1>1, <1>2, <1>3, <1>4, <1>5 DEF Next

(* What the compiler refuses for its ring or its place is never searched   *)
(* for, though the plan hands it to the executor: the row keeps the form   *)
(* it was written in through every resumed plan and widening, and          *)
(* prepareQuery refuses it again.                                          *)
THEOREM MalformedIsNeverSearched == Spec => []NoMalformedSearch
<1>1. Init => ShapeInv
  <2>1. DOMAIN << >> = {}
    BY EmptySeq
  <2> QED BY <2>1 DEF Init, ShapeInv
<1>2. TypeInv /\ ShapeInv => NoMalformedSearch
  <2> SUFFICES ASSUME TypeInv, ShapeInv, NEW i \in DOMAIN rejected,
                      rejected[i].shape = "malformed", rejected[i].query \in ran
               PROVE  FALSE
    BY DEF NoMalformedSearch
  <2>1. rejected[i].query <= MaxAnswer
    <3>1. rejected \in Seq(Entries)
      BY DEF TypeInv, TypeOK
    <3>2. rejected[i] \in Entries
      BY <3>1
    <3> QED BY <3>2, QueriesAssumption DEF Entries
  <2> QED BY <2>1 DEF ShapeInv, Written
<1> QED BY <1>1, <1>2, TypeInit, TypeStep, ShapeStep, PTL DEF Spec

-----------------------------------------------------------------------------
(* The row of each query, when the planner writes labels without suffixes  *)
(* of their own: then a suffix says the position it was given at, and no   *)
(* two entries share a label.                                              *)

Suffixed(entries, limit) ==
  \A i \in DOMAIN entries :
    /\ entries[i].label.tail = << >> \/ entries[i].label.tail = <<entries[i].query>>
    /\ entries[i].query < limit

Distinct(entries) ==
  \A i, j \in DOMAIN entries : entries[i].label = entries[j].label => i = j

InRows(entries) ==
  \A i \in DOMAIN entries :
    entries[i].label \in DOMAIN rows /\ rows[entries[i].label].query = entries[i].query

LabelInv ==
  /\ Suffixed(kept, next) /\ Suffixed(rejected, next)
  /\ Distinct(kept) /\ Distinct(rejected)
  /\ LabelsOf(kept) \cap LabelsOf(rejected) = {}
  /\ Stored => /\ Compiled \/ next > MaxQueries
               /\ InRows(kept) /\ InRows(rejected)
  /\ \A w \in Wideners : widening[w].asked => Stored /\ Taken \subseteq widening[w].taken

LEMMA TuplesApart ==
  ASSUME NEW a, NEW b, a # b
  PROVE  <<a>> # <<b>> /\ << >> # <<b>>
<1>1. <<a>>[1] = a /\ <<b>>[1] = b
  OBVIOUS
<1>2. Len(<< >>) = 0 /\ Len(<<b>>) = 1
  OBVIOUS
<1> QED BY <1>1, <1>2

(* The label an entry is appended under is free, and its suffix, if it has *)
(* one, is its position (slug, freeLabel).                                 *)
LEMMA FreshLabel ==
  ASSUME \A label \in Labels : label.tail = << >>, TypeInv, LabelInv, Compile
  PROVE  LET label == Slug(answer[next].label, next)
             freed == FreeLabel(label, next, Taken)
         IN  /\ freed \notin Taken
             /\ label.tail = << >> \/ label.tail = <<next>>
             /\ freed.tail = << >> \/ freed.tail = <<next>>
<1> DEFINE label == Slug(answer[next].label, next)
           freed == FreeLabel(label, next, Taken)
<1>1. next \in DOMAIN answer /\ next \in Nat /\ label \in Names
  BY CompileTyped
<1>2. answer[next].label \in Labels
  <2>1. PICK n \in 0 .. MaxAnswer : answer \in [1 .. n -> [label : Labels, shape : Shapes]]
    BY DEF TypeInv, TypeOK, Answer
  <2> QED BY <1>1, <2>1
<1>3. label.tail = << >> \/ label.tail = <<next>>
  BY <1>2 DEF Slug
<1>4. \A l \in Taken : l.tail # <<next>>
  <2> SUFFICES ASSUME NEW entries \in {kept, rejected}, NEW i \in DOMAIN entries
               PROVE  entries[i].label.tail # <<next>>
    BY DEF Taken, LabelsOf
  <2>1. entries \in Seq(Entries) /\ Suffixed(entries, next)
    BY DEF TypeInv, TypeOK, LabelInv
  <2>2. entries[i].query < next /\ entries[i].query \in 1 .. MaxAnswer
    <3>1. entries[i] \in Entries
      BY <2>1
    <3>2. entries[i].query \in 1 .. MaxAnswer
      BY <3>1 DEF Entries
    <3> QED BY <2>1, <3>2 DEF Suffixed
  <2>3. entries[i].label.tail = << >> \/ entries[i].label.tail = <<entries[i].query>>
    BY <2>1 DEF Suffixed
  <2>4. entries[i].query # next
    BY <2>2, <1>1, QueriesAssumption
  <2> HIDE DEF label, freed
  <2> QED BY <2>3, <2>4, TuplesApart
<1> HIDE DEF label
<1>5. CASE label \notin Taken
  <2>1. freed = label
    BY <1>1, <1>5, FreeLabelTyped
  <2> QED BY <1>3, <1>5, <2>1 DEF label
<1>6. CASE label \in Taken
  <2>1. label.tail = << >>
    BY <1>3, <1>4, <1>6
  <2>2. freed.tail = Append(label.tail, next)
    BY <1>1, <1>6, FreeLabelTyped
  <2>3. freed.tail = <<next>>
    BY <1>1, <2>1, <2>2
  <2> HIDE DEF freed
  <2>4. freed \notin Taken
    BY <1>4, <2>3
  <2> QED BY <1>3, <2>3, <2>4 DEF label, freed
<1> QED BY <1>5, <1>6

(* Appending an entry under a free label keeps the entries apart. *)
LEMMA AppendApart ==
  ASSUME NEW s \in Seq(Entries), NEW e \in Entries, e.label \notin LabelsOf(s),
         e.label.tail = << >> \/ e.label.tail = <<next>>, e.query = next,
         next \in Nat, Suffixed(s, next), Distinct(s)
  PROVE  Suffixed(Append(s, e), next + 1) /\ Distinct(Append(s, e))
<1>1. \A i \in DOMAIN Append(s, e) :
        /\ i \in DOMAIN s => Append(s, e)[i] = s[i]
        /\ i \notin DOMAIN s => Append(s, e)[i] = e /\ i = Len(s) + 1
  BY AppendLabels
<1>2. \A i \in DOMAIN s : s[i].query \in Nat /\ s[i].label # e.label
  <2>1. \A i \in DOMAIN s : s[i] \in Entries
    OBVIOUS
  <2> QED BY <2>1, QueriesAssumption DEF Entries, LabelsOf
<1>3. \A i \in DOMAIN Append(s, e) :
        LET x == Append(s, e)[i]
        IN  (x.label.tail = << >> \/ x.label.tail = <<x.query>>) /\ x.query < next + 1
  BY <1>1, <1>2 DEF Suffixed
<1>4. \A i, j \in DOMAIN Append(s, e) :
        Append(s, e)[i].label = Append(s, e)[j].label => i = j
  BY <1>1, <1>2 DEF Distinct
<1> QED BY <1>3, <1>4 DEF Suffixed, Distinct

LEMMA CompileKeepsLabels ==
  ASSUME \A label \in Labels : label.tail = << >>, TypeInv, LabelInv, Compile
  PROVE  LabelInv'
<1>s. kept \in Seq(Entries) /\ rejected \in Seq(Entries)
  BY DEF TypeInv, TypeOK
<1>1. PICK label \in Names :
        /\ label \notin Taken /\ next \in Nat /\ EntryOf(label) \in Entries
        /\ label.tail = << >> \/ label.tail = <<next>>
        /\ \/ kept' = Append(kept, EntryOf(label)) /\ rejected' = rejected
           \/ kept' = kept /\ rejected' = Append(rejected, EntryOf(label))
  <2> DEFINE name == Slug(answer[next].label, next)
             freed == FreeLabel(name, next, Taken)
  <2>1. /\ next \in Nat /\ name \in Names /\ freed \in Names
        /\ EntryOf(name) \in Entries /\ EntryOf(freed) \in Entries
        /\ \/ name \notin Taken /\ kept' = Append(kept, EntryOf(name)) /\ rejected' = rejected
           \/ kept' = kept /\ rejected' = Append(rejected, EntryOf(freed))
    BY CompileTyped
  <2>2. /\ freed \notin Taken
        /\ name.tail = << >> \/ name.tail = <<next>>
        /\ freed.tail = << >> \/ freed.tail = <<next>>
    BY FreshLabel
  <2> HIDE DEF name, freed
  <2> QED BY <2>1, <2>2
<1>e. EntryOf(label).label = label /\ EntryOf(label).query = next
  BY DEF EntryOf
<1>2. next' = next + 1 /\ ~Stored /\ rows' = rows /\ widening' = widening
  <2>1. ~Compiled /\ next <= MaxQueries /\ (Stored => Compiled \/ next > MaxQueries)
    BY DEF Compile, LabelInv
  <2>2. ~Stored
    BY <1>1, <2>1, QueriesAssumption
  <2>3. next' = next + 1 /\ rows' = rows /\ widening' = widening
    BY DEF Compile
  <2> QED BY <2>2, <2>3
<1>3. ASSUME NEW s \in Seq(Entries), Suffixed(s, next), Distinct(s), label \notin LabelsOf(s)
      PROVE  /\ Suffixed(Append(s, EntryOf(label)), next + 1)
             /\ Distinct(Append(s, EntryOf(label)))
  BY <1>1, <1>3, <1>e, AppendApart
<1>4. ASSUME NEW s, Suffixed(s, next), \A i \in DOMAIN s : s[i].query \in Nat
      PROVE  Suffixed(s, next + 1)
  BY <1>1, <1>4 DEF Suffixed
<1>5. /\ \A i \in DOMAIN kept : kept[i].query \in Nat
      /\ \A i \in DOMAIN rejected : rejected[i].query \in Nat
  <2>1. /\ \A i \in DOMAIN kept : kept[i] \in Entries
        /\ \A i \in DOMAIN rejected : rejected[i] \in Entries
    BY <1>s
  <2> QED BY <2>1, QueriesAssumption DEF Entries
<1>6. label \notin LabelsOf(kept) /\ label \notin LabelsOf(rejected)
  BY <1>1 DEF Taken
<1>7. /\ Suffixed(kept', next + 1) /\ Suffixed(rejected', next + 1)
      /\ Distinct(kept') /\ Distinct(rejected')
  BY <1>s, <1>1, <1>3, <1>4, <1>5, <1>6 DEF LabelInv
<1>8. LabelsOf(kept') \cap LabelsOf(rejected') = {}
  <2>1. /\ LabelsOf(Append(kept, EntryOf(label))) = LabelsOf(kept) \cup {label}
        /\ LabelsOf(Append(rejected, EntryOf(label))) = LabelsOf(rejected) \cup {label}
    BY <1>s, <1>1, <1>e, AppendLabels
  <2> QED BY <1>1, <1>6, <2>1 DEF LabelInv
<1>9. ~Stored' /\ \A w \in Wideners : ~widening'[w].asked
  BY <1>2 DEF Stored, LabelInv
<1> QED BY <1>2, <1>7, <1>8, <1>9 DEF LabelInv

(* The transaction of open gives each entry its row. *)
LEMMA OpenGivesRows ==
  ASSUME TypeOK, LabelInv, NEW entries \in {kept, rejected}, NEW i \in DOMAIN entries
  PROVE  /\ entries[i].label \in Taken
         /\ Opened[entries[i].label].query = entries[i].query
<1> DEFINE label == entries[i].label
<1>1. label \in LabelsOf(entries) /\ label \in Taken /\ entries \in Seq(Entries)
  BY DEF LabelsOf, Taken, TypeOK
<1>2. Entry(entries, label) = i
  <2>1. Entry(entries, label) \in DOMAIN entries /\ entries[Entry(entries, label)].label = label
    BY <1>1, EntryFound
  <2> QED BY <2>1 DEF LabelInv, Distinct
<1>3. CASE entries = rejected
  <2>1. label \in LabelsOf(rejected)
    BY <1>1, <1>3
  <2>2. Opened[label].query = rejected[Entry(rejected, label)].query
    BY <1>1, <2>1, OpenedRows
  <2> QED BY <1>1, <1>2, <1>3, <2>2
<1>4. CASE entries = kept
  <2>1. label \notin LabelsOf(rejected)
    BY <1>1, <1>4 DEF LabelInv
  <2>2. Opened[label].query = kept[Entry(kept, label)].query
    BY <1>1, <2>1, OpenedRows
  <2> QED BY <1>1, <1>2, <1>4, <2>2
<1> QED BY <1>3, <1>4

LEMMA LabelStep ==
  ASSUME \A label \in Labels : label.tail = << >>, TypeInv, LabelInv, [Next]_vars
  PROVE  LabelInv'
<1>t. TypeOK
  BY DEF TypeInv
<1>k. ASSUME UNCHANGED queries, NEW entries \in {kept, rejected}
      PROVE  LabelsOf(entries) \subseteq Taken
  BY DEF Taken
<1>1. CASE Compile
  BY <1>1, CompileKeepsLabels
<1>q. ASSUME UNCHANGED queries,
             Stored' => /\ Compiled \/ next > MaxQueries
                        /\ InRows(kept)' /\ InRows(rejected)',
             \A w \in Wideners : widening'[w].asked => Stored' /\ Taken \subseteq widening'[w].taken
      PROVE  LabelInv'
  BY <1>q DEF queries, LabelInv, Taken, LabelsOf, Compiled
<1>2. CASE Open
  <2>1. rows' = Opened /\ DOMAIN rows' = Taken /\ ~Stored
    BY <1>2 DEF Open, Opened
  <2>2. InRows(kept)' /\ InRows(rejected)'
    <3>1. ASSUME NEW entries \in {kept, rejected}, NEW i \in DOMAIN entries
          PROVE  entries[i].label \in DOMAIN rows' /\ rows'[entries[i].label].query = entries[i].query
      BY <1>t, <2>1, OpenGivesRows
    <3> QED BY <1>2, <3>1 DEF Open, queries, InRows
  <2>3. \A w \in Wideners : ~widening'[w].asked
    BY <1>2, <2>1 DEF Open, LabelInv
  <2> QED BY <1>2, <1>q, <2>2, <2>3 DEF Open
<1>r. ASSUME UNCHANGED queries, DOMAIN rows \subseteq DOMAIN rows',
             \A l \in Taken \cap DOMAIN rows : rows'[l].query = rows[l].query,
             Stored' => Stored
      PROVE  Stored' => /\ Compiled \/ next > MaxQueries
                        /\ InRows(kept)' /\ InRows(rejected)'
  <2> SUFFICES ASSUME Stored
               PROVE  InRows(kept)' /\ InRows(rejected)' /\ (Compiled \/ next > MaxQueries)
    BY <1>r
  <2>1. InRows(kept) /\ InRows(rejected) /\ (Compiled \/ next > MaxQueries)
    BY DEF LabelInv
  <2>2. ASSUME NEW entries \in {kept, rejected}, NEW i \in DOMAIN entries
        PROVE  entries[i].label \in DOMAIN rows' /\ rows'[entries[i].label].query = entries[i].query
    <3>1. /\ entries[i].label \in DOMAIN rows /\ rows[entries[i].label].query = entries[i].query
          /\ entries[i].label \in Taken
      BY <2>1 DEF InRows, Taken, LabelsOf
    <3> QED BY <1>r, <3>1
  <2> QED BY <1>r, <2>1, <2>2 DEF queries, InRows
<1>3. CASE Resume \/ UNCHANGED vars
  BY <1>3, <1>q, <1>r DEF Resume, vars, Stored, LabelInv
<1>4. ASSUME NEW w \in Wideners, WidenRead(w) \/ WidenFails(w) PROVE LabelInv'
  <2>1. Taken \subseteq DOMAIN rows \/ ~Stored
    BY DEF LabelInv, InRows, Taken, LabelsOf
  <2>2. \A v \in Wideners : widening'[v].asked => Stored' /\ Taken \subseteq widening'[v].taken
    BY <1>4, <1>t, <2>1 DEF WidenRead, WidenFails, NotAsked, TypeOK, LabelInv, Stored
  <2> QED BY <1>4, <1>q, <1>r, <2>2 DEF WidenRead, WidenFails, Stored
<1>5. ASSUME NEW w \in Wideners, WidenSave(w) PROVE LabelInv'
  <2>1. PICK label \in Names :
           /\ label \notin widening[w].taken
           /\ DOMAIN rows' = DOMAIN rows \cup {label}
           /\ \A l \in DOMAIN rows \ {label} : rows'[l] = rows[l]
    BY <1>5, WidenedRows
  <2>2. Stored /\ Taken \subseteq widening[w].taken /\ Stored'
    BY <1>5, <2>1 DEF WidenSave, LabelInv, Stored
  <2>3. \A v \in Wideners : widening'[v].asked => widening[v].asked /\ widening'[v] = widening[v]
    BY <1>5, <1>t DEF WidenSave, NotAsked, TypeOK
  <2>4. \A v \in Wideners : widening'[v].asked => Stored' /\ Taken \subseteq widening'[v].taken
    BY <2>2, <2>3 DEF LabelInv
  <2>5. UNCHANGED queries
    BY <1>5 DEF WidenSave
  <2>6. \A l \in Taken \cap DOMAIN rows : rows'[l].query = rows[l].query
    BY <2>1, <2>2
  <2> QED BY <1>q, <1>r, <2>1, <2>2, <2>4, <2>5, <2>6
<1>6. ASSUME NEW label \in todo, Refuse(label) \/ PlaceUnknown(label) \/ Search(label)
      PROVE  LabelInv'
  <2>1. rows' \in {Skipped(label), [rows EXCEPT ![label].yielded = TRUE], rows}
    BY <1>6 DEF Refuse, PlaceUnknown, Search
  <2>2. \A l \in DOMAIN rows : l \in Names /\ rows[l] \in Rows
    BY <1>t DEF TypeOK
  <2>3. DOMAIN rows' = DOMAIN rows /\ \A l \in DOMAIN rows : rows'[l].query = rows[l].query
    BY <2>1, <2>2, MarkedRows
  <2>4. UNCHANGED <<queries, widening>> /\ Stored' = Stored
    BY <1>6, <2>3 DEF Refuse, PlaceUnknown, Search, Stored
  <2> QED BY <1>q, <1>r, <2>3, <2>4 DEF LabelInv
<1> QED BY <1>1, <1>2, <1>3, <1>4, <1>5, <1>6 DEF Next

(* When the labels the planner writes carry no suffix of their own, every  *)
(* query of the plan, kept or rejected, keeps a row of its own, whatever   *)
(* labels are missing or repeated and however many widenings are served at *)
(* the same time (freeLabel, SaveCycleQuery's upsert, Widen).              *)
THEOREM EveryQueryKeepsItsRow ==
  ASSUME \A label \in Labels : label.tail = << >>
  PROVE  Spec => []EveryQueryHasItsRow
<1>1. Init => LabelInv
  <2>1. DOMAIN << >> = {}
    BY EmptySeq
  <2> QED BY <2>1 DEF Init, LabelInv, Suffixed, Distinct, LabelsOf, Stored, NotAsked
<1>2. TypeInv /\ LabelInv => EveryQueryHasItsRow
  BY DEF LabelInv, InRows, EveryQueryHasItsRow, Stands
<1>3. TypeInv /\ LabelInv /\ [Next]_vars => LabelInv'
  BY LabelStep
<1> QED BY <1>1, <1>2, <1>3, TypeInit, TypeStep, PTL DEF Spec

=============================================================================
