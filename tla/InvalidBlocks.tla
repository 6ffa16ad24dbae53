--------------------------- MODULE InvalidBlocks ----------------------------
(***************************************************************************)
(* The invalid-block driver of the RPC workload (workload/src/bin/         *)
(* parallel_driver_invalid_blocks.rs): one turn of the loop over blocks,   *)
(* whose variables do not outlive the turn.                                *)
(*                                                                         *)
(* The driver takes a prefix of the mempool, lists the confirmed outputs   *)
(* that prefix leaves, and splices transactions of its own into the block, *)
(* of which at most one violates consensus on purpose.  Any RPC may fail,  *)
(* and other drivers get blocks mined meanwhile.                           *)
(*                                                                         *)
(* An outpoint is a pair of a transaction id and an output number.         *)
(* Amounts, scripts and signatures are left out, except whether a          *)
(* signature was damaged.                                                  *)
(***************************************************************************)
EXTENDS Integers, Sequences, FiniteSets, SequencesExt

CONSTANTS
  Confirmed,     \* the wallet's outputs that are confirmed at first
  Mempool,       \* the transactions of the mempool, parents first
  MAX_INPUTS,
  MAX_OUTPUTS,
  MaxTotal,      \* bound: raw transactions tried per block (32 in the code)
  MaxConfirmations       \* bound: transactions confirmed by others meanwhile

\* A raw transaction's id is its place among the raw transactions; no other
\* transaction has such an id.
OtherIds == Nat \ 1 .. MaxTotal

ASSUME InvalidBlocksAssumption ==
  /\ {MAX_INPUTS, MAX_OUTPUTS, MaxTotal, MaxConfirmations} \subseteq Nat
  /\ IsFiniteSet(Confirmed) /\ Confirmed \subseteq OtherIds \X Nat
  /\ Mempool \in Seq([id : OtherIds, input : Seq(OtherIds \X Nat), outputs : Nat,
                      damaged : BOOLEAN])

VARIABLES
  utxos,         \* the wallet's outputs in the chain's set of unspent outputs
  mempool,       \* what is left of Mempool
  confirmations,         \* number of transactions confirmed by others
  driver,        \* the local variables of the loop
  pool           \* BlockUtxoSet

invalid_vars == <<utxos, mempool, confirmations, driver, pool>>

-----------------------------------------------------------------------------
(* Transactions and blocks *)

\* The kinds of corruption, `None` first.
Corruption == {"None", "MissingInput", "BadSignature", "DupInputInTx", "DupInputInBlock"}

\* Output of a transaction that nobody has ever seen.
Missing == << -1, 0 >>

Outputs(tx) == {tx.id} \X (0 .. tx.outputs - 1)

Inputs(txs) == UNION {Range(txs[k].input) : k \in DOMAIN txs}

\* What a node asks of the transactions of a block: that every one spends outputs
\* that are unspent or made further up in the block, and nothing is spent twice.
ConsensusValid(unspent, txs) ==
  \A k \in DOMAIN txs :
    /\ ~ txs[k].damaged
    /\ IsInjective(txs[k].input)
    /\ \A j \in 1 .. k - 1 : Range(txs[j].input) \cap Range(txs[k].input) = {}
    /\ \A o \in Range(txs[k].input) :
         o \in unspent \/ \E j \in 1 .. k - 1 : o \in Outputs(txs[j])

\* The mempool could be mined as it is.
ASSUME MempoolAssumption == ConsensusValid(Confirmed, Mempool)

-----------------------------------------------------------------------------
(* BlockUtxoSet *)

new(available) ==
  [available |-> available, spent |-> {}, pending |-> {}, intra_block_txids |-> {}]

take(p, picked) ==
  [p EXCEPT !.available = @ \ picked, !.pending = @ \cup picked]

commit_pending(p) ==
  [p EXCEPT !.spent = @ \cup p.pending, !.pending = {}]

\* Mutant of rollback_pending: a failed transaction's inputs count as spent.
rollback_pending_spent(p) == commit_pending(p)

\* Mutant of rollback_pending: a failed transaction's inputs are dropped.
rollback_pending_drops(p) == [p EXCEPT !.pending = {}]

rollback_pending(p) ==
  [p EXCEPT !.available = @ \cup p.pending, !.pending = {}]

add_outputs(p, tx) ==
  [p EXCEPT !.intra_block_txids = @ \cup {tx.id}, !.available = @ \cup Outputs(tx)]

\* Mutant of has_intra_block_parent: all raw transactions go anywhere.
has_intra_block_parent_never(p, tx) == FALSE

has_intra_block_parent(p, tx) ==
  \E k \in DOMAIN tx.input : tx.input[k][1] \in p.intra_block_txids

-----------------------------------------------------------------------------
(* The driver *)

InvalidInit ==
  /\ utxos = Confirmed
  /\ mempool = Mempool
  /\ confirmations = 0
  /\ driver = [pc |-> "template", txs |-> << >>, n_total |-> 1, corrupt_at |-> 1,
               candidate |-> "None", applied |-> "None", i |-> 1,
               input |-> << >>, accepted |-> FALSE]
  /\ pool = new({})

At(pc) == driver.pc = pc

\* pick_mempool_block_txs; a failed getblocktemplate is an empty prefix.
PickMempool ==
  /\ At("template")
  /\ \E n \in 0 .. Len(mempool) :
       driver' = [driver EXCEPT !.pc = "unspent", !.txs = SubSeq(mempool, 1, n)]
  /\ UNCHANGED <<utxos, mempool, confirmations, pool>>

Unconsumed(listed) == listed \ Inputs(driver.txs)

\* listunspent, nothing if it fails; then the shape of the block is drawn.
ListUnspent ==
  /\ At("unspent")
  /\ \E listed \in {utxos, {}} : pool' = new(Unconsumed(listed))
  /\ \E n \in 1 .. MaxTotal : \E k \in 1 .. n : \E candidate \in Corruption :
       driver' = [driver EXCEPT !.pc = "take", !.n_total = n, !.corrupt_at = k,
                                !.candidate = candidate]
  /\ UNCHANGED <<utxos, mempool, confirmations>>

kind == IF driver.i = driver.corrupt_at THEN driver.candidate ELSE "None"

More == driver.i <= driver.n_total

\* Any `low` to `high` of the available outputs; `take` stops when none is left.
Picks(low, high) ==
  {picked \in SUBSET pool.available : Cardinality(picked) \in low .. high}

Take(picked, extra) ==
  /\ pool' = take(pool, picked)
  /\ driver' = [driver EXCEPT !.pc = "build", !.input = SetToSeq(picked) \o extra]
  /\ UNCHANGED <<utxos, mempool, confirmations>>

Taking(kinds) == At("take") /\ More /\ kind \in kinds

TakeGeneral ==
  /\ Taking({"None", "BadSignature"})
  /\ \E picked \in Picks(1, MAX_INPUTS) : Take(picked, << >>)

TakeMissing ==
  /\ Taking({"MissingInput"})
  /\ \E picked \in Picks(0, MAX_INPUTS - 1) : Take(picked, <<Missing>>)

TakeDupInTx ==
  /\ Taking({"DupInputInTx"})
  /\ \E picked \in Picks(1, MAX_INPUTS - 1) : \E dup \in picked : Take(picked, <<dup>>)

TakeDupInBlock ==
  /\ Taking({"DupInputInBlock"})
  /\ \E conflict \in pool.spent : \E picked \in Picks(0, MAX_INPUTS - 1) :
       Take(picked, <<conflict>>)

\* Nothing is available, or nothing is spent yet: the build ends before a call.
NothingToTake ==
  /\ At("take") /\ More
  /\ \/ kind \in {"None", "BadSignature", "DupInputInTx"} /\ pool.available = {}
     \/ kind = "DupInputInBlock" /\ pool.spent = {}
  /\ pool' = rollback_pending(pool)
  /\ driver' = [driver EXCEPT !.i = @ + 1]
  /\ UNCHANGED <<utxos, mempool, confirmations>>

\* getnewaddress or signrawtransactionwithwallet fails, or the signature to
\* damage has no bytes.
BuildFails ==
  /\ At("build")
  /\ pool' = rollback_pending(pool)
  /\ driver' = [driver EXCEPT !.pc = "take", !.i = @ + 1, !.input = << >>]
  /\ UNCHANGED <<utxos, mempool, confirmations>>

\* Mutant of now_applied: the candidate is recorded whatever was built.
now_applied_candidate == driver.candidate

now_applied == IF kind # "None" THEN kind ELSE driver.applied

\* The signed transaction is spliced into the block.
BuildSucceeds ==
  /\ At("build")
  /\ \E n \in 1 .. MAX_OUTPUTS :
       LET tx == [id |-> driver.i, input |-> driver.input, outputs |-> n,
                  damaged |-> kind = "BadSignature"]
           committed == commit_pending(pool)
           end == Len(driver.txs) + 1
       IN
       /\ \E pos \in IF has_intra_block_parent(committed, tx) THEN {end} ELSE 1 .. end :
            driver' = [driver EXCEPT !.pc = "take", !.i = @ + 1, !.input = << >>,
                                     !.txs = InsertAt(@, pos, tx),
                                     !.applied = now_applied]
       /\ pool' = add_outputs(committed, tx)
  /\ UNCHANGED <<utxos, mempool, confirmations>>

\* generateblock looks the mempool's transactions up by their ids.
Known(tx) == tx.id \in {mempool[k].id : k \in DOMAIN mempool} \cup 1 .. MaxTotal

GenerateBlock ==
  /\ At("take") /\ ~ More
  /\ driver' = [driver EXCEPT
       !.pc = "done",
       !.accepted = /\ \A k \in DOMAIN driver.txs : Known(driver.txs[k])
                    /\ ConsensusValid(utxos, driver.txs)]
  /\ UNCHANGED <<utxos, mempool, confirmations, pool>>

\* A block of somebody else confirms the first transaction of the mempool.
MinedElsewhere ==
  /\ ~ At("done")
  /\ confirmations < MaxConfirmations /\ mempool # << >>
  /\ utxos' = (utxos \ Range(Head(mempool).input)) \cup Outputs(Head(mempool))
  /\ mempool' = Tail(mempool)
  /\ confirmations' = confirmations + 1
  /\ UNCHANGED <<driver, pool>>

InvalidNext ==
  \/ PickMempool
  \/ ListUnspent
  \/ TakeGeneral
  \/ TakeMissing
  \/ TakeDupInTx
  \/ TakeDupInBlock
  \/ NothingToTake
  \/ BuildFails
  \/ BuildSucceeds
  \/ GenerateBlock
  \/ MinedElsewhere

InvalidSpec == InvalidInit /\ [][InvalidNext]_invalid_vars

-----------------------------------------------------------------------------
(* Properties *)

Raw == {k \in DOMAIN driver.txs : driver.txs[k].id \in 1 .. MaxTotal}

\* No output is lost and none is offered twice, however builds fail: each one
\* is available, pending or spent, those of a raw transaction are there exactly
\* when the transaction is in the block, and what counts as spent, of which
\* DupInputInBlock picks its conflict, is spent by a transaction of the block.
PoolAccounting ==
  /\ pool.available \cap (pool.pending \cup pool.spent) = {}
  /\ pool.pending \cap pool.spent = {}
  /\ pool.available \cap Inputs(driver.txs) = {}
  /\ pool.spent \subseteq Inputs(driver.txs)
  /\ \A id \in 1 .. MaxTotal, vout \in 0 .. MAX_OUTPUTS - 1 :
       <<id, vout>> \in pool.available \cup pool.pending \cup pool.spent
         <=> \E k \in Raw : <<id, vout>> \in Outputs(driver.txs[k])

\* The asserted property: a block with a deliberate violation is never
\* accepted, whatever was mined elsewhere while it was put together.  And a
\* block without one is accepted unless others moved the chain meanwhile:
\* parents come first, also across the mempool's part, and nothing is spent
\* twice.
RejectedIfCorrupted ==
  /\ driver.applied # "None" => ~ driver.accepted
  /\ At("done") /\ driver.applied = "None" /\ confirmations = 0 => driver.accepted
=============================================================================
