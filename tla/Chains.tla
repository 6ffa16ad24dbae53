------------------------------- MODULE Chains -------------------------------
(***************************************************************************)
(* Active chains as the RPC drivers see them.  A chain is the sequence of  *)
(* its blocks above genesis.  The hash of a block commits to all of its    *)
(* ancestors, so the hash at a height is the chain up to that height, and  *)
(* the hash of genesis is << >>.  Every block carries the same work.       *)
(***************************************************************************)
EXTENDS Naturals, Sequences

\* getblockhash, defined for the heights up to the tip.
HasBlockAt(c, height) == height <= Len(c)

BlockHash(c, height) == SubSeq(c, 1, height)

\* c is d or has been built on it.
ExtendsChain(c, d) == HasBlockAt(c, Len(d)) /\ BlockHash(c, Len(d)) = d

Lower(m, n) == IF m < n THEN m ELSE n

\* Reference definition: the height of the highest block that two chains have
\* in common.
IsForkHeight(height, c, d) ==
  /\ height \in 0 .. Lower(Len(c), Len(d))
  /\ BlockHash(c, height) = BlockHash(d, height)
  /\ \A h \in height + 1 .. Lower(Len(c), Len(d)) :
       BlockHash(c, h) # BlockHash(d, h)
=============================================================================
