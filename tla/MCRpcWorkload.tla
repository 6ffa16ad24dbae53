---------------------------- MODULE MCRpcWorkload ---------------------------
(***************************************************************************)
(* Three parts of the RPC workload that share no state, each in behaviours *)
(* of its own, while the other two are at their ends.                      *)
(*                                                                         *)
(* find_fork_height: two chains of up to five blocks.  Blocks have no      *)
(* meaning beyond being equal or not, so the first chain is taken to be    *)
(* made of one block and the second to leave it for another.               *)
(*                                                                         *)
(* Invalid blocks: two confirmed outputs, one of which the first of two    *)
(* mempool transactions spends; the second one spends an output of the     *)
(* first.                                                                  *)
(*                                                                         *)
(* Node wrapper: four starts of a node that may prune.                     *)
(***************************************************************************)
EXTENDS ForkHeight, InvalidBlocks, NodeWrapper

VARIABLE part

mc_vars == <<vars, invalid_vars, wrapper_vars, part>>

MCBlock == {0, 1}

Straight(n, block) == [h \in 1 .. n |-> block]

SearchChains ==
  /\ Init
  /\ \E n, m, fork \in 0 .. MaxHeight :
       /\ fork <= Lower(n, m)
       /\ snapshot = [node \in Node |->
            IF node = "a" THEN Straight(n, 0)
            ELSE Straight(fork, 0) \o Straight(m - fork, 1)]

SearchOver ==
  /\ snapshot = [node \in Node |-> << >>] /\ chain = snapshot
  /\ answering = {} /\ reorged = TRUE /\ moves = MaxMoves
  /\ search = [state |-> "none", shared |-> 0, unshared |-> 1, hash |-> << >>]

MCConfirmed == { <<0, 0>>, <<0, 1>> }

MCMempool == <<
  [id |-> 100, input |-> << <<0, 0>> >>, outputs |-> 2, damaged |-> FALSE],
  [id |-> 101, input |-> << <<100, 0>> >>, outputs |-> 1, damaged |-> FALSE] >>

BlockOver ==
  /\ utxos = {} /\ mempool = << >> /\ confirmations = MaxConfirmations /\ pool = new({})
  /\ driver = [pc |-> "done", txs |-> << >>, n_total |-> 1, corrupt_at |-> 1,
               candidate |-> "None", applied |-> "None", i |-> 1,
               input |-> << >>, accepted |-> TRUE]

WrapperOver ==
  /\ STABLE = << >> /\ WEIGHTS = << >> /\ ran = {}
  /\ wrapper = [at |-> "node", drawn |-> NothingDrawn, weight |-> NothingDrawn,
                flags |-> NothingDrawn, boots |-> MaxBoots]

MCInit ==
  \/ part = "search" /\ SearchChains /\ BlockOver /\ WrapperOver
  \/ part = "block" /\ SearchOver /\ InvalidInit /\ WrapperOver
  \/ part = "wrapper" /\ SearchOver /\ BlockOver /\ WrapperInit

MCNext ==
  /\ \/ Next /\ UNCHANGED <<invalid_vars, wrapper_vars>>
     \/ InvalidNext /\ UNCHANGED <<vars, wrapper_vars>>
     \/ WrapperNext /\ UNCHANGED <<vars, invalid_vars>>
  /\ UNCHANGED part

MCSpec == MCInit /\ [][MCNext]_mc_vars /\ WF_vars(Search)
=============================================================================
