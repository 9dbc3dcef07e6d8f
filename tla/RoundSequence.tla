---------------------------- MODULE RoundSequence ----------------------------
(***************************************************************************)
(* What the planner promises of its rounds to a caller that asks one thing *)
(* at a time: they come one after another, under ids that leave no gap,    *)
(* and each ends once, in one of the ways the code names                   *)
(* (routes/planner/service.go: Start, recordEmptyRound, Finish).           *)
(***************************************************************************)
EXTENDS Naturals

CONSTANT MaxRounds  \* bound: rounds one behaviour may open

VARIABLE rounds     \* how each round stands, and why it ended

Rounds == 1 .. MaxRounds

Absent == <<"absent", "none">>
Running == <<"open", "none">>

(* A late round is given up as done, an empty plan fails its round, and    *)
(* the executor reports either end.                                        *)
Ends == {<<"done", "expired">>, <<"failed", "planner-failed">>,
         <<"done", "reported">>, <<"failed", "reported">>}

Init == rounds = [c \in Rounds |-> Absent]

Begin(c) ==
  /\ rounds[c] = Absent
  /\ \A d \in Rounds : rounds[d] # Running
  /\ \A d \in Rounds : d < c => rounds[d] \in Ends
  /\ rounds' = [rounds EXCEPT ![c] = Running]

End(c) ==
  /\ rounds[c] = Running
  /\ \E end \in Ends : rounds' = [rounds EXCEPT ![c] = end]

Next == \E c \in Rounds : Begin(c) \/ End(c)

Spec == Init /\ [][Next]_rounds

=============================================================================
