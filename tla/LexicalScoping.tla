--------------------------- MODULE LexicalScoping ---------------------------
(***************************************************************************)
(* What the program builder promises, without its bookkeeping: variables   *)
(* are numbered in the order they are defined, they live in frames that    *)
(* are entered and left like the blocks of a structured program, and an    *)
(* instruction reads nothing but variables of the frames that are open.    *)
(***************************************************************************)
EXTENDS Naturals, Sequences

VARIABLES
  frames,   \* the open frames, outermost first, each a set of variables
  count,    \* number of variables defined so far
  reads     \* what the last accepted instruction reads

vars == <<frames, count, reads>>

Visible == UNION {frames[k] : k \in 1 .. Len(frames)}

Fresh(n) == count + 1 .. count + n

AddToTop(fs, S) == [fs EXCEPT ![Len(fs)] = @ \cup S]

Read == reads' \subseteq Visible

Init == frames = << {} >> /\ count = 0 /\ reads = {}

\* An ordinary instruction: n new variables in the innermost frame.
Define(n) ==
  /\ frames' = AddToTop(frames, Fresh(n))
  /\ count' = count + n
  /\ Read

\* A nop: n new variables that nobody will ever see.
Discard(n) ==
  /\ UNCHANGED frames
  /\ count' = count + n
  /\ Read

Enter(n) ==
  /\ frames' = Append(frames, Fresh(n))
  /\ count' = count + n
  /\ Read

\* The outermost frame is never left.
Leave(n) ==
  /\ Len(frames) > 1
  /\ frames' = AddToTop(SubSeq(frames, 1, Len(frames) - 1), Fresh(n))
  /\ count' = count + n
  /\ Read

\* A frame is abandoned by a block end that is refused.
Abandon ==
  /\ Len(frames) > 1
  /\ frames' = SubSeq(frames, 1, Len(frames) - 1)
  /\ UNCHANGED <<count, reads>>

Grow(n) == Define(n) \/ Discard(n) \/ Enter(n) \/ Leave(n)

Next == Abandon \/ \E n \in 0 .. count' - count : Grow(n)

Spec == Init /\ [][Next]_vars
=============================================================================
