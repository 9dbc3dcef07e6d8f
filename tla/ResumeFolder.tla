---------------------------- MODULE ResumeFolder ----------------------------
(***************************************************************************)
(* The resumes a folder holds (routes/resumes: scan.go, language.go): its  *)
(* pdfs grouped by role and language, and a short code for each role.      *)
(*                                                                         *)
(* A name is its characters: 0 is any separator, then the digits, then the *)
(* letters, which is the order the names are sorted in.                    *)
(***************************************************************************)
EXTENDS Naturals, Sequences, FiniteSets

CONSTANTS
  Entries,          \* the pdfs a folder may hold, in the order the scan meets them
  MaxContent,       \* bound: contents a pdf may have
  MaxRoles,         \* maxRoles
  DefaultLanguage,
  NoLanguage

(* suffix is the language the name of the file, or of the folder it lies   *)
(* in, ends in; named is the one the file in that folder is named by.      *)
ASSUME FolderAssumption ==
  /\ IsFiniteSet(DOMAIN Entries)
  /\ \A i \in DOMAIN Entries :
       DOMAIN Entries[i] = {"role", "suffix", "named"} /\ Entries[i].role \in Seq(Nat)
  /\ MaxContent \in Nat \ {0} /\ MaxRoles \in 1 .. 999
  /\ DefaultLanguage # NoLanguage

(* What a folder holds under each name: a content, or 0 for nothing. *)
Folders == [DOMAIN Entries -> 0 .. MaxContent]

Pdfs(folder) == {i \in DOMAIN Entries : folder[i] # 0}

(* collectFile, languageOfFile: the folder's language goes first. *)
LanguageOf(entry) ==
  IF entry.suffix # NoLanguage THEN entry.suffix
  ELSE IF entry.named # NoLanguage THEN entry.named ELSE DefaultLanguage

RolesIn(folder) == {Entries[i].role : i \in Pdfs(folder)}

First(places) == CHOOSE i \in places : \A j \in places : i <= j

(* record: the first file of a language stands for it. *)
FilesOf(folder, role) ==
  LET Its(language) ==
        {i \in Pdfs(folder) : Entries[i].role = role /\ LanguageOf(Entries[i]) = language}
      languages == {LanguageOf(Entries[i]) : i \in {i \in Pdfs(folder) : Entries[i].role = role}}
  IN  [l \in languages |-> folder[First(Its(l))]]

-----------------------------------------------------------------------------
(* Codes *)

LetterR == 28
Digit(d) == d + 1

(* "R" and a number. *)
Numbered(n) ==
  IF n < 10 THEN <<LetterR, Digit(n)>>
  ELSE IF n < 100 THEN <<LetterR, Digit(n \div 10), Digit(n % 10)>>
  ELSE <<LetterR, Digit(n \div 100), Digit((n \div 10) % 10), Digit(n % 10)>>

(* The characters of a name at some of its places, in their order. *)
Picked(role, places) ==
  [k \in 1 .. Cardinality(places) |->
     role[CHOOSE i \in places : Cardinality({j \in places : j < i}) = k - 1]]

Letters(role) == Picked(role, {i \in DOMAIN role : role[i] # 0})

(* The first characters of the words of a name. *)
Heads(role) ==
  Picked(role, {i \in DOMAIN role : role[i] # 0 /\ (i = 1 \/ role[i - 1] = 0)})

(* The first of some characters, with each of the others. *)
Pairs(letters) ==
  IF letters = << >> THEN << >>
  ELSE [k \in 1 .. Len(letters) - 1 |-> <<letters[1], letters[k + 1]>>]

CodeCandidates(role) ==
  LET letters == Letters(role)
      head == IF letters = << >> THEN LetterR ELSE letters[1]
  IN  (IF Len(letters) >= 2 THEN << <<letters[1], letters[2]>> >> ELSE << >>)
      \o Pairs(Heads(role)) \o Pairs(letters)
      \o [k \in 1 .. 8 |-> <<head, Digit(k + 1)>>]

(* AssignCode as it would be without the set of codes taken. *)
AssignCodeBlind(role, taken) == CodeCandidates(role)[1]

(* assignCode: the first candidate that is free, or else a number. *)
AssignCode(role, taken) ==
  LET candidates == CodeCandidates(role)
      free == {k \in DOMAIN candidates : candidates[k] \notin taken}
      unused == {n \in 1 .. MaxRoles : Numbered(n) \notin taken}
  IN  IF free # {} THEN candidates[First(free)] ELSE Numbered(First(unused))

(* The order of sort.Strings. *)
Before(a, b) ==
  \E i \in 1 .. Len(b) :
    /\ i <= Len(a) + 1
    /\ \A j \in 1 .. i - 1 : a[j] = b[j]
    /\ i <= Len(a) => a[i] < b[i]

Rank(role, roles) == Cardinality({other \in roles : Before(other, role)})

(* The first roles of the folder, as many as are taken, each with the code *)
(* the ones before it have left.                                           *)
CodesOf(folder) ==
  LET listed == {role \in RolesIn(folder) : Rank(role, RolesIn(folder)) < MaxRoles}
      codes[role \in listed] ==
        AssignCode(role, {codes[other] : other \in {o \in listed : Before(o, role)}})
  IN  codes

(* Scan *)
Resumes(folder) ==
  LET codes == CodesOf(folder)
  IN  {[code |-> codes[role], role |-> role, files |-> FilesOf(folder, role)] :
         role \in DOMAIN codes}

=============================================================================
