------------------------------ MODULE MCSupply -------------------------------
(***************************************************************************)
(* Two wallets with one mature coin each.  The subsidy halves at every     *)
(* second block, so the common chain ends at the first halving.            *)
(***************************************************************************)
EXTENDS Supply

MCCommonBlocks == <<
  [id |-> 1, miner |-> 1, txs |-> {}], [id |-> 2, miner |-> 2, txs |-> {}] >>
=============================================================================
