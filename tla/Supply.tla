------------------------------- MODULE Supply -------------------------------
(***************************************************************************)
(* The money checks of the RPC workload: the subsidy a chain has issued    *)
(* (total_subsidy_issued_sats of workload/src/lib.rs, total_coins_until of *)
(* fuzzamoto's InflationOracle), and the two drivers that hold the         *)
(* balances of wallets against it while nodes, wallets and other drivers   *)
(* go on: anytime_supply_bound.rs and anytime_wallet_amounts.rs.           *)
(*                                                                         *)
(* Each node has one wallet, and every coin belongs to one.  A coin is the *)
(* coinbase output of a block and carries the id of that block.  The       *)
(* common chain of the beginning is taken to be mature; its coins are sent *)
(* whole, without a fee, and at most once.                                 *)
(***************************************************************************)
EXTENDS Integers, Sequences, SequencesExt, FiniteSets, FiniteSetsExt

CONSTANTS
  NumNodes,
  SUBSIDY_HALVING_INTERVAL,
  InitialSubsidy,  \* 50 BTC
  MaxHalvings,     \* 64
  CommonBlocks,    \* the chain that all nodes begin with
  MaxBlocks,       \* bound: blocks mined later on
  MaxSends,        \* bound: coins that change their wallet
  MaxRestarts      \* bound: nodes that lose blocks and their mempool

Nodes == 1 .. NumNodes

VARIABLES
  chain,           \* the active chain of each node
  mempool,         \* the transactions in the mempool of each node
  sent,            \* the transactions that wallets have made
  abandoned,       \* those of them that their wallet has abandoned
  blocks,          \* number of blocks ever mined
  restarts,        \* number of restarts that lost blocks
  check,           \* the local variables of the driver
  disturbed        \* history: did a coin or a block get lost or moved under
                   \* the driver's reads?

node_vars == <<chain, mempool, sent, abandoned, blocks, restarts>>
supply_vars == <<node_vars, check, disturbed>>

-----------------------------------------------------------------------------
(* Subsidies *)

block_subsidy_sats(height) ==
  LET halvings == height \div SUBSIDY_HALVING_INTERVAL
  IN IF halvings >= MaxHalvings THEN 0 ELSE InitialSubsidy \div 2 ^ halvings

\* Mutant of epoch_end: the halving takes effect one block late.
epoch_end_late(h) == (h \div SUBSIDY_HALVING_INTERVAL + 1) * SUBSIDY_HALVING_INTERVAL

epoch_end(h) == (h \div SUBSIDY_HALVING_INTERVAL + 1) * SUBSIDY_HALVING_INTERVAL - 1

total_subsidy_issued_sats(height) ==
  LET from[h \in 1 .. height + 1] ==
        LET last == Min({epoch_end(h), height})
        IN IF h > height \/ block_subsidy_sats(h) = 0 THEN 0
           ELSE block_subsidy_sats(h) * (last - h + 1) + from[last + 1]
  IN from[1]

total_coins_until(height) ==
  LET start(halving) == halving * SUBSIDY_HALVING_INTERVAL
      blocks_in_period(halving) ==
        Min({SUBSIDY_HALVING_INTERVAL, height - start(halving) + 1})
      subsidy(halving) == InitialSubsidy \div 2 ^ halving
      periods == {halving \in 0 .. MaxHalvings - 1 : start(halving) <= height}
  IN MapThenSumSet(LAMBDA halving : subsidy(halving) * blocks_in_period(halving), periods)

-----------------------------------------------------------------------------
(* Nodes and wallets *)

Coins(c) == {c[h].id : h \in DOMAIN c}

MinerOf(c, coin) == LET h == CHOOSE k \in DOMAIN c : c[k].id = coin IN c[h].miner

Worth(c, coin) == LET h == CHOOSE k \in DOMAIN c : c[k].id = coin IN block_subsidy_sats(h)

Confirmed(c) == UNION {c[h].txs : h \in DOMAIN c}

Mature(coin) == coin <= Len(CommonBlocks)

\* The wallet's own transactions that are in neither a block nor the mempool.
Loose(n) ==
  {tx \in sent \ abandoned : tx.from = n /\ tx \notin Confirmed(chain[n]) \cup mempool[n]}

\* The buckets of getbalances, as the sets of coins they add up.
\* `trusted` credits the inputs of Loose(n) as if they had never been sent.
trusted(n) ==
  {coin \in Coins(chain[n]) :
     /\ Mature(coin)
     /\ ~ \E tx \in mempool[n] : tx.coin = coin
     /\ IF \E tx \in Confirmed(chain[n]) : tx.coin = coin
        THEN \E tx \in Confirmed(chain[n]) : tx.coin = coin /\ tx.to = n
        ELSE MinerOf(chain[n], coin) = n}

untrusted_pending(n) == {tx.coin : tx \in {t \in mempool[n] : t.to = n}}

immature(n) ==
  {coin \in Coins(chain[n]) : ~ Mature(coin) /\ MinerOf(chain[n], coin) = n}

nonmempool(n) == {tx.coin : tx \in Loose(n)} \cap Coins(chain[n])

Sats(n, coins) == MapThenSumSet(LAMBDA coin : Worth(chain[n], coin), coins)

\* Mutant of Balance: the signed correction is not among the fields.
Balance_three(n) ==
  Sats(n, trusted(n)) + Sats(n, untrusted_pending(n)) + Sats(n, immature(n))

Balance(n) ==
  Sats(n, trusted(n)) + Sats(n, untrusted_pending(n)) + Sats(n, immature(n))
    - Sats(n, nonmempool(n))

Reading == check.pc \in {"balances", "after"}

\* Nothing is followed beyond the verdict.
Unmoved == check.pc # "done" /\ UNCHANGED <<check, disturbed>>

MoveCoins ==
  check.pc # "done" /\ disturbed' = (disturbed \/ Reading) /\ UNCHANGED check

MineBlock(n) ==
  /\ blocks < MaxBlocks
  /\ blocks' = blocks + 1
  /\ chain' = [chain EXCEPT ![n] = Append(@,
       [id |-> Len(CommonBlocks) + blocks + 1, miner |-> n, txs |-> mempool[n]])]
  /\ mempool' = [mempool EXCEPT ![n] = {}]
  /\ UNCHANGED <<sent, abandoned, restarts>> /\ Unmoved

\* n takes over the longer chain of m; what its own chain had confirmed goes
\* back to the mempool.
TakeOver(n, m) ==
  /\ Len(chain[m]) > Len(chain[n])
  /\ chain' = [chain EXCEPT ![n] = chain[m]]
  /\ mempool' = [mempool EXCEPT ![n] = (@ \cup Confirmed(chain[n])) \ Confirmed(chain[m])]
  /\ UNCHANGED <<sent, abandoned, blocks, restarts>> /\ Unmoved

\* sendtoaddress, by another driver.
SendCoin(n, m) ==
  /\ Cardinality(sent) < MaxSends
  /\ \E coin \in {c \in trusted(n) : c \notin {tx.coin : tx \in sent}} :
       LET tx == [coin |-> coin, from |-> n, to |-> m] IN
       /\ sent' = sent \cup {tx}
       /\ mempool' = [mempool EXCEPT ![n] = @ \cup {tx}]
  /\ MoveCoins /\ UNCHANGED <<chain, abandoned, blocks, restarts>>

RelayTx(n, m) ==
  /\ \E tx \in mempool[n] \ (mempool[m] \cup Confirmed(chain[m])) :
       mempool' = [mempool EXCEPT ![m] = @ \cup {tx}]
  /\ MoveCoins /\ UNCHANGED <<chain, sent, abandoned, blocks, restarts>>

\* anytime_abandontransaction.rs; refused while the wallet's own node has the
\* transaction in a block or in the mempool.
abandontransaction(n) ==
  /\ \E tx \in Loose(n) : abandoned' = abandoned \cup {tx}
  /\ MoveCoins /\ UNCHANGED <<chain, mempool, sent, blocks, restarts>>

\* A node is killed and comes back without its mempool, and without the blocks
\* it had not flushed.
RestartNode(n) ==
  /\ restarts < MaxRestarts
  /\ restarts' = restarts + 1
  /\ \E height \in Len(CommonBlocks) .. Len(chain[n]) :
       chain' = [chain EXCEPT ![n] = SubSeq(@, 1, height)]
  /\ mempool' = [mempool EXCEPT ![n] = {}]
  /\ MoveCoins /\ UNCHANGED <<sent, abandoned, blocks>>

-----------------------------------------------------------------------------
(* The drivers.  An answer that does not come is << >>. *)

Unanswered == [n \in Nodes |-> << >>]

\* anytime_supply_bound asks all nodes in turn, anytime_wallet_amounts one.
SupplyInit ==
  /\ chain = [n \in Nodes |-> CommonBlocks]
  /\ mempool = [n \in Nodes |-> {}]
  /\ sent = {} /\ abandoned = {} /\ blocks = 0 /\ restarts = 0
  /\ \E asked \in {Nodes} \cup {{n} : n \in Nodes} :
       check = [pc |-> "before", asked |-> asked, next |-> Min(asked), total |-> 0,
                before |-> Unanswered, after |-> Unanswered, processed |-> << >>]
  /\ disturbed = FALSE

\* One call to the next node, and what the driver does after the last one.
Ask(pc, c, then) ==
  /\ check.pc = pc
  /\ check' = IF check.next = Max(check.asked)
              THEN [c EXCEPT !.pc = then, !.next = Min(check.asked)]
              ELSE [c EXCEPT !.next = @ + 1]
  /\ UNCHANGED <<node_vars, disturbed>>

ReadBefore ==
  \E answer \in {<<chain[check.next]>>, << >>} :
    Ask("before", [check EXCEPT !.before[check.next] = answer], "balances")

\* The height of lastprocessedblock comes with the balance.
ReadBalance ==
  \/ Ask("balances",
         [check EXCEPT !.total = @ + Balance(check.next),
                       !.processed = <<Len(chain[check.next])>>], "after")
  \/ Ask("balances", check, "after")

ReadAfter ==
  \E answer \in {<<chain[check.next]>>, << >>} :
    Ask("after", [check EXCEPT !.after[check.next] = answer], "done")

SupplyNext ==
  \/ \E n \in Nodes :
       \/ MineBlock(n)
       \/ abandontransaction(n)
       \/ RestartNode(n)
       \/ \E m \in Nodes \ {n} : TakeOver(n, m) \/ SendCoin(n, m) \/ RelayTx(n, m)
  \/ ReadBefore
  \/ ReadBalance
  \/ ReadAfter

SupplySpec == SupplyInit /\ [][SupplyNext]_supply_vars

\* The hash of a block commits to the chain below it.
shared_tip(tips) == \E n \in Nodes : tips[n] # << >> /\ \A m \in Nodes : tips[m] = tips[n]

\* Mutant of stable_tip: the tips are compared once.
stable_tip_before == shared_tip(check.before)

stable_tip == shared_tip(check.before) /\ shared_tip(check.after) /\ check.before = check.after

HeightsOf(answers) == {Len(answers[n][1]) : n \in {m \in Nodes : answers[m] # << >>}}

\* Mutant of WalletHeights: the block the wallet answered for is left out.
WalletHeights_outside == HeightsOf(check.before) \cup HeightsOf(check.after)

WalletHeights == HeightsOf(check.before) \cup HeightsOf(check.after) \cup ToSet(check.processed)

-----------------------------------------------------------------------------
(* Properties *)

SupplyVerdict == check.pc = "done" /\ check.asked = Nodes /\ stable_tip

WithinSupply ==
  \A n \in Nodes : check.total <= total_subsidy_issued_sats(Len(check.before[n][1]))

\* "With every node on the same tip, the coins visible across all wallets
\* cannot exceed the subsidy that chain has issued", asserted of balances that
\* are read one after the other.
CoinsDoNotExceedSubsidy == SupplyVerdict => WithinSupply

\* The same as long as no coin changes its wallet during the reads, no node
\* loses blocks or its mempool during them, and no transaction has been
\* abandoned: blocks may be mined and chains may be left all the time, on
\* competing branches too.
CoinsAddUp == SupplyVerdict /\ ~ disturbed /\ abandoned = {} => WithinSupply

\* Each wallet by itself stays below what its chain had issued, although the
\* heights come from other calls than the balance, and a restart in between
\* may have taken the chain back.
WalletWithinSubsidy ==
  check.pc = "done" /\ check.asked # Nodes /\ WalletHeights # {} =>
    check.total <= total_subsidy_issued_sats(Max(WalletHeights))

\* The sums by halving period are the sums over the blocks, at every height up
\* to where nothing is issued any more: the driver's leaves out the coinbase of
\* genesis, the oracle's counts it.  Stated of the initial states, since it
\* depends on no variable.
SubsidiesAddUp ==
  SupplyInit =>
    \A height \in 0 .. (MaxHalvings + 1) * SUBSIDY_HALVING_INTERVAL :
      LET paid == MapThenSumSet(block_subsidy_sats, 1 .. height) IN
      /\ total_subsidy_issued_sats(height) = paid
      /\ total_coins_until(height) = paid + block_subsidy_sats(0)
=============================================================================
