---------------------------- MODULE Convergence -----------------------------
(***************************************************************************)
(* The convergence driver of the RPC workload (workload/src/bin/           *)
(* eventually_consistency.rs with the pruning rules of workload/src/       *)
(* lib.rs), against nodes that follow each other's chains, prune, and stop *)
(* and start answering while it looks at them.                             *)
(*                                                                         *)
(* The driver works in rounds.  It takes a snapshot of the nodes, one call *)
(* after the other; bisects, for each node that is not on the most-work    *)
(* chain, the height where its chain leaves that chain, to tell whether    *)
(* pruning keeps it from ever following; and unless every node is on the   *)
(* block the driver mined last, it extends one node's chain and waits.     *)
(*                                                                         *)
(* Work is height: every regtest block carries the same.  A pruneheight of *)
(* NotPruning is an absent one.                                            *)
(***************************************************************************)
EXTENDS Chains, Integers, FiniteSets, FiniteSetsExt, SequencesExt

CONSTANTS
  N,             \* number of nodes; they are asked in order
  MinBlocks,     \* NETWORK_LIMITED_MIN_BLOCKS
  RaceBuffer,    \* NETWORK_LIMITED_RACE_BUFFER
  MaxRounds,     \* bound: rounds the retry budget lasts for
  MaxFaults,     \* bound: nodes pruning, mining silently or not answering
  CalmRounds     \* rounds without faults that convergence takes

ASSUME ConvergenceAssumption ==
  N \in Nat \ {0} /\ {MinBlocks, RaceBuffer, MaxRounds, MaxFaults, CalmRounds} \subseteq Nat

Node == 1 .. N

\* Blocks are told apart by who mined them; 0 is somebody from before.
Miners == 0 .. N

NotPruning == -1

VARIABLES
  chain,         \* the active chain of each node
  pruneheight,   \* the lowest block each node still has, or NotPruning
  answering,     \* the nodes that answer RPCs
  settled,       \* have faults stopped?
  faults,        \* number of faults so far
  driver,        \* the local variables of the driver's main loop
  calm           \* history: whole rounds since faults stopped

vars == <<chain, pruneheight, answering, settled, faults, driver, calm>>
nodes == <<chain, pruneheight, answering, settled, faults>>

-----------------------------------------------------------------------------
\* The rules of lib.rs.  info is a node's answer to getblockchaininfo.

Info(n) == [index |-> n, tip |-> chain[n], pruneheight |-> pruneheight[n]]

blocks(info) == Len(info.tip)

\* Mutant of can_serve_block: the window is one block too small.
can_serve_block_narrow(info, height) ==
  \/ info.pruneheight = NotPruning
  \/ height >= info.pruneheight /\ blocks(info) - height < MinBlocks + RaceBuffer

\* Mutant of can_serve_block: whatever is on disk is served.
can_serve_block_on_disk(info, height) ==
  info.pruneheight = NotPruning \/ height >= info.pruneheight

can_serve_block(info, height) ==
  \/ info.pruneheight = NotPruning
  \/ height >= info.pruneheight /\ blocks(info) - height <= MinBlocks + RaceBuffer

disconnect_blocked_by_pruning(info, fork_height) ==
  info.pruneheight # NotPruning /\ fork_height + 1 < info.pruneheight

download_blocked_by_pruning(fork_height, best_chain) ==
  ~ \E k \in best_chain : can_serve_block(driver.states[k], fork_height + 1)

-----------------------------------------------------------------------------
\* The nodes.  Their own pruning rules are those the driver assumes.

ForkOf(c, d) == Max({h \in 0 .. Lower(Len(c), Len(d)) : BlockHash(c, h) = BlockHash(d, h)})

\* n switches to a chain with more work if it can take its own blocks off and
\* somebody hands it the other ones.
CanFollow(n, m) ==
  /\ Len(chain[m]) > Len(chain[n])
  /\ LET first == ForkOf(chain[n], chain[m]) + 1 IN
     /\ pruneheight[n] = NotPruning \/ first >= pruneheight[n]
     /\ \/ pruneheight[m] = NotPruning
        \/ first >= pruneheight[m] /\ Len(chain[m]) - first <= MinBlocks + RaceBuffer

\* It need not get to the tip at once.
Follow(n, m) ==
  /\ CanFollow(n, m)
  /\ \E height \in Len(chain[n]) + 1 .. Len(chain[m]) :
       chain' = [chain EXCEPT ![n] = BlockHash(chain[m], height)]
  /\ UNCHANGED <<pruneheight, answering, settled, faults, driver, calm>>

Fault == ~ settled /\ faults < MaxFaults /\ faults' = faults + 1

Prune(n, height) ==
  /\ Fault
  /\ pruneheight[n] # NotPruning
  /\ height \in pruneheight[n] + 1 .. Len(chain[n]) - MinBlocks + 1
  /\ pruneheight' = [pruneheight EXCEPT ![n] = height]
  /\ UNCHANGED <<chain, answering, settled, driver, calm>>

StopAnswering(n) ==
  /\ Fault
  /\ n \in answering /\ answering' = answering \ {n}
  /\ UNCHANGED <<chain, pruneheight, settled, driver, calm>>

StartAnswering(n) ==
  /\ ~ settled
  /\ n \notin answering /\ answering' = answering \cup {n}
  /\ UNCHANGED <<chain, pruneheight, settled, faults, driver, calm>>

\* Faults stop: every node answers from now on, and the nodes have followed
\* each other as far as they can before CONVERGENCE_WAIT is over.
Settle ==
  /\ ~ settled /\ settled' = TRUE
  /\ answering' = Node
  /\ UNCHANGED <<chain, pruneheight, faults, driver, calm>>

Quiet == \A n, m \in Node : ~ CanFollow(n, m)

-----------------------------------------------------------------------------
\* The driver.  Positions are those in `states`, 0 for none.

NoTip == << -1 >>      \* no block mined yet

\* A round that has not begun, and the two variables that outlive it; hash is
\* the first answer of a turn of the search.
NewRound(pc, tip, rounds) ==
  [pc |-> pc, next |-> 1, states |-> << >>, position |-> 0,
   shared |-> 0, unshared |-> 0, hash |-> NoTip, blocked |-> {},
   stranded |-> 0, target |-> 0, mined_tip |-> tip, rounds |-> rounds]

\* The round is forgotten: the driver sleeps.
Sleep(tip) == NewRound("wait", tip, driver.rounds)

Init ==
  /\ chain \in [Node -> Seq(Miners)]
  /\ pruneheight \in [Node -> Nat \cup {NotPruning}]
  /\ answering = Node
  /\ settled = FALSE
  /\ faults = 0
  /\ driver = NewRound("snapshot", NoTip, 1)
  /\ calm = 0

At(pc) == driver.pc = pc

Positions == 1 .. Len(driver.states)

complete == Len(driver.states) = N

\* `max_by` returns the last of the greatest.
best_position ==
  CHOOSE k \in Positions :
    \A j \in Positions : \/ blocks(driver.states[j]) < blocks(driver.states[k])
                         \/ /\ blocks(driver.states[j]) = blocks(driver.states[k])
                            /\ j <= k

best == driver.states[best_position]

best_chain == {k \in Positions : driver.states[k].tip = best.tip}

\* One call of take_round's first loop.
TakeSnapshot ==
  /\ At("snapshot") /\ driver.next <= N
  /\ driver' = [driver EXCEPT
       !.next = @ + 1,
       !.states = IF driver.next \in answering THEN Append(@, Info(driver.next)) ELSE @]
  /\ UNCHANGED <<chain, pruneheight, answering, settled, faults, calm>>

\* The next node whose chain is not the most-work chain.
Lagging(k) ==
  /\ k \in Positions \ best_chain
  /\ \A j \in driver.position + 1 .. k - 1 : j \in best_chain

\* find_fork_height is called for it.
StartSearch ==
  /\ \/ At("snapshot") /\ driver.next > N
     \/ At("next")
  /\ \E k \in Positions :
       /\ k > driver.position /\ Lagging(k)
       /\ driver' = [driver EXCEPT
            !.pc = "search", !.position = k, !.shared = 0,
            !.unshared = Lower(blocks(driver.states[k]), blocks(best)) + 1]
  /\ UNCHANGED <<chain, pruneheight, answering, settled, faults, calm>>

lagging == driver.states[driver.position]

halfway == driver.shared + (driver.unshared - driver.shared) \div 2

Searching == At("search") /\ driver.unshared - driver.shared > 1

\* getblockhash(halfway) of node n.
HasHash(n) == n \in answering /\ HasBlockAt(chain[n], halfway)

\* One turn of find_fork_height asks the lagging node, then the best one.
AskLagging ==
  /\ Searching /\ driver.hash = NoTip /\ HasHash(lagging.index)
  /\ driver' = [driver EXCEPT !.hash = BlockHash(chain[lagging.index], halfway)]
  /\ UNCHANGED <<chain, pruneheight, answering, settled, faults, calm>>

AskBest ==
  /\ Searching /\ driver.hash # NoTip /\ HasHash(best.index)
  /\ driver' =
       IF driver.hash = BlockHash(chain[best.index], halfway)
       THEN [driver EXCEPT !.hash = NoTip, !.shared = halfway]
       ELSE [driver EXCEPT !.hash = NoTip, !.unshared = halfway]
  /\ UNCHANGED <<chain, pruneheight, answering, settled, faults, calm>>

\* `fork_height` is None: the node is not blocked.
SearchFails ==
  /\ Searching
  /\ ~ HasHash(IF driver.hash = NoTip THEN lagging.index ELSE best.index)
  /\ driver' = [driver EXCEPT !.pc = "next", !.hash = NoTip, !.shared = 0, !.unshared = 0]
  /\ UNCHANGED <<chain, pruneheight, answering, settled, faults, calm>>

outpaces(k) ==
  driver.stranded = 0 \/ blocks(driver.states[k]) > blocks(driver.states[driver.stranded])

Judge ==
  LET fork_height == driver.shared
      is_blocked == \/ disconnect_blocked_by_pruning(lagging, fork_height)
                    \/ download_blocked_by_pruning(fork_height, best_chain)
  IN
  /\ At("search") /\ driver.unshared - driver.shared <= 1
  /\ driver' =
       IF is_blocked
       THEN [driver EXCEPT
               !.pc = "next", !.shared = 0, !.unshared = 0, !.blocked = @ \cup {driver.position},
               !.stranded = IF outpaces(driver.position) THEN driver.position ELSE @]
       ELSE [driver EXCEPT !.pc = "next", !.shared = 0, !.unshared = 0]
  /\ UNCHANGED <<chain, pruneheight, answering, settled, faults, calm>>

\* What the round says.
\* Mutant of extend: always the most-work chain.
extend_best == best_position

extend == IF driver.stranded # 0 THEN driver.stranded ELSE best_position

eligible == Positions \ driver.blocked

hashes_converged ==
  /\ driver.states # << >>
  /\ \A j, k \in eligible : driver.states[j].tip = driver.states[k].tip

heights_converged ==
  /\ driver.states # << >>
  /\ \A j, k \in eligible : blocks(driver.states[j]) = blocks(driver.states[k])

reachable_at ==
  /\ driver.states # << >>
  /\ \A k \in Positions : driver.states[k].tip = driver.mined_tip

\* Mutant of all_at: whoever answered will do.
all_at_reachable == reachable_at

all_at == complete /\ reachable_at

\* The asserted property of the whole run.
verdict ==
  \/ ~ complete
  \/ heights_converged /\ ~ hashes_converged
  \/ hashes_converged /\ heights_converged

RoundTaken ==
  /\ \/ At("snapshot") /\ driver.next > N
     \/ At("next")
  /\ ~ \E k \in Positions : k > driver.position /\ Lagging(k)

Converged ==
  /\ RoundTaken /\ all_at
  /\ driver' = [driver EXCEPT !.pc = "converged"]
  /\ UNCHANGED <<chain, pruneheight, answering, settled, faults, calm>>

\* The budget is used up.
GiveUp ==
  /\ RoundTaken /\ ~ all_at
  /\ driver' = [driver EXCEPT !.pc = "gave_up"]
  /\ UNCHANGED <<chain, pruneheight, answering, settled, faults, calm>>

\* Everybody who answered is there already, or nobody did: nothing is mined.
OnlyWait ==
  /\ RoundTaken /\ ~ all_at /\ driver.rounds < MaxRounds
  /\ reachable_at \/ driver.states = << >>
  /\ driver' = Sleep(driver.mined_tip)
  /\ UNCHANGED <<chain, pruneheight, answering, settled, faults, calm>>

\* getchaintips of every node that answers: its own tip, and those of chains
\* it has only heard of.
Tallest(S) == Max({0} \cup {Len(chain[n]) : n \in S})

HighestKnown(height) ==
  /\ RoundTaken /\ ~ all_at /\ driver.rounds < MaxRounds
  /\ driver.states # << >> /\ ~ reachable_at
  /\ height \in Tallest(answering) .. IF answering = {} THEN 0 ELSE Tallest(Node)
  /\ driver' = [driver EXCEPT !.pc = "extend", !.target = height]
  /\ UNCHANGED <<chain, pruneheight, answering, settled, faults, calm>>

blocks_to_mine(height) == Max({Max({driver.target, height}) + 1 - height, 1})

\* generatetoaddress: the node mines on what is its tip by now.
miner == driver.states[extend].index

mined ==
  chain[miner] \o
    [k \in 1 .. blocks_to_mine(blocks(driver.states[extend])) |-> miner]

Extend ==
  /\ At("extend")
  /\ miner \in answering
  /\ chain' = [chain EXCEPT ![miner] = mined]
  /\ driver' = Sleep(mined)
  /\ UNCHANGED <<pruneheight, answering, settled, faults, calm>>

ExtendFails ==
  /\ At("extend")
  /\ miner \notin answering
  /\ driver' = Sleep(driver.mined_tip)
  /\ UNCHANGED <<chain, pruneheight, answering, settled, faults, calm>>

\* The node mines and its answer is lost.
ExtendReplyLost ==
  /\ At("extend")
  /\ miner \in answering
  /\ Fault
  /\ chain' = [chain EXCEPT ![miner] = mined]
  /\ answering' = answering \ {miner}
  /\ driver' = Sleep(driver.mined_tip)
  /\ UNCHANGED <<pruneheight, settled, calm>>

\* CONVERGENCE_WAIT is over.
Wait ==
  /\ At("wait")
  /\ settled => Quiet
  /\ driver' = [driver EXCEPT !.pc = "snapshot", !.rounds = @ + 1]
  /\ calm' = IF settled THEN calm + 1 ELSE 0
  /\ UNCHANGED nodes

Drive ==
  \/ TakeSnapshot
  \/ StartSearch
  \/ AskLagging
  \/ AskBest
  \/ SearchFails
  \/ Judge
  \/ Converged
  \/ GiveUp
  \/ OnlyWait
  \/ \E height \in 0 .. Tallest(Node) : HighestKnown(height)
  \/ Extend
  \/ ExtendFails
  \/ ExtendReplyLost
  \/ Wait

Next ==
  \/ Drive
  \/ \E n, m \in Node : Follow(n, m)
  \/ \E n \in Node : \E height \in 1 .. Len(chain[n]) : Prune(n, height)
  \/ \E n \in Node : StopAnswering(n) \/ StartAnswering(n)
  \/ Settle

Spec == Init /\ [][Next]_vars

-----------------------------------------------------------------------------
(* Properties *)

Ended == At("converged") \/ At("gave_up")

\* A round that ends the run because every node is on the block mined last is
\* right about the present, although the nodes were asked one after the other
\* while they went on following each other, pruning and failing.
AgreementIsReal == At("converged") => \A n \in Node : chain[n] = driver.mined_tip

\* The asserted property never fails once the nodes had a whole round without
\* faults: a node behind the most-work chain by then is one the driver excuses.
NoFalseAlarm == Ended /\ calm >= 1 => verdict

\* The snapshot is what the nodes are at.
Accurate ==
  /\ complete
  /\ \A k \in Positions : driver.states[k] = Info(driver.states[k].index)

\* A node is only ever excused when the blocks are certainly out of reach: as
\* long as the nodes are where the snapshot saw them, none that the driver calls
\* blocked can go to the most-work chain.
ExcusedAreStuck ==
  Accurate =>
    \A k \in driver.blocked, j \in best_chain :
      ~ CanFollow(driver.states[k].index, driver.states[j].index)

\* Some node has pruned a block it would have to take off to leave its chain
\* for another node's.
UndoPruned ==
  \E n, m \in Node :
    /\ ~ ExtendsChain(chain[m], chain[n]) /\ ~ ExtendsChain(chain[n], chain[m])
    /\ pruneheight[n] # NotPruning
    /\ ForkOf(chain[n], chain[m]) + 1 < pruneheight[n]

\* Extending the stranded node's chain is the way out: CalmRounds after
\* faults stopped, the run ends with every node on the block mined last unless
\* undo data is gone.
ConvergesUnlessUndoPruned ==
  Ended /\ calm >= CalmRounds => At("converged") \/ UndoPruned
=============================================================================
