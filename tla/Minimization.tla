---------------------------- MODULE Minimization ----------------------------
(***************************************************************************)
(* What a minimizer promises, whatever its strategy: each offer is the     *)
(* best program so far less one piece, and the best program so far is the  *)
(* last offer that was reported good, or the program it was given.         *)
(***************************************************************************)
EXTENDS Sequences

CONSTANT Reduces(_, _)   \* is the first program the second less one piece?

VARIABLES
  started,
  best,     \* the program to beat
  offer     \* << >>, or the one program on offer

vars == <<started, best, offer>>

Init == ~ started /\ offer = << >>

\* A program to minimize is handed over.
Start == ~ started /\ started' /\ UNCHANGED offer

Offer ==
  /\ started /\ offer = << >>
  /\ Len(offer') = 1 /\ Reduces(offer'[1], best)
  /\ UNCHANGED <<started, best>>

Good ==
  /\ offer # << >>
  /\ best' = offer[1] /\ offer' = << >>
  /\ UNCHANGED started

Bad ==
  /\ offer # << >>
  /\ offer' = << >>
  /\ UNCHANGED <<started, best>>

Next == Start \/ Offer \/ Good \/ Bad

Spec == Init /\ [][Next]_vars
=============================================================================
