------------------------------ MODULE MCIndexer ------------------------------
(***************************************************************************)
(* A small disk: two roles whose names begin alike, so that they compete   *)
(* for a code, one of them in two languages.                               *)
(***************************************************************************)
EXTENDS Indexer

CONSTANTS en, tr, none

(* characters, as ResumeFolder numbers them *)
Backend == <<12, 11, 13, 15>>
Backup  == <<12, 11, 13, 31>>

Pdf(role, suffix, named) == [role |-> role, suffix |-> suffix, named |-> named]

SmallDisk == << Pdf(Backend, none, none), Pdf(Backup, none, none), Pdf(Backup, tr, none) >>

=============================================================================
