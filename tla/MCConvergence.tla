--------------------------- MODULE MCConvergence ----------------------------
(***************************************************************************)
(* Nodes that agree on one block and then left each other for up to three  *)
(* blocks of their own.  The node wrapper never lets node 1 prune.         *)
(***************************************************************************)
EXTENDS Convergence

CONSTANTS
  Pruners,       \* the nodes that prune
  Lengths,       \* the lengths of the nodes' own branches
  Faulty         \* those with which there may be faults, but a round less

OnePrunedAhead == { <<1, 1, 3>>, <<0, 2, 2>> }
PrunedAndPeerAhead == { <<0, 2, 2>> }
TwoPrunedAhead == { <<1, 3, 3>> }

Straight(n, block) == [h \in 1 .. n |-> block]

MCInit ==
  /\ \E length \in Lengths :
       chain = [n \in Node |-> <<0>> \o Straight(length[n], n)]
  /\ \E height \in [Pruners -> 1 .. 4] :
       /\ \A n \in Pruners : height[n] <= Len(chain[n]) - MinBlocks + 1
       /\ pruneheight = [n \in Node |-> IF n \in Pruners THEN height[n] ELSE NotPruning]
  /\ answering = Node
  /\ settled = FALSE
  /\ \/ faults = MaxFaults /\ driver = NewRound("snapshot", NoTip, 1)
     \/ /\ [n \in Node |-> Len(chain[n]) - 1] \in Faulty
        /\ faults = 0
        /\ driver = NewRound("snapshot", NoTip, 2)
  /\ calm = 0

MCSpec == MCInit /\ [][Next]_vars
=============================================================================
