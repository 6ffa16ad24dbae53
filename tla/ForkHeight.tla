----------------------------- MODULE ForkHeight -----------------------------
(***************************************************************************)
(* find_fork_height of the RPC workload (workload/src/lib.rs): two active  *)
(* chains are bisected for the highest block they have in common, with one *)
(* getblockhash call to each node per turn of the loop.  Nothing stops the *)
(* nodes meanwhile: they mine, reorganise and stop answering between any   *)
(* two calls.                                                              *)
(***************************************************************************)
EXTENDS Chains

CONSTANTS
  Block,       \* what tells blocks on the same parent apart
  MaxHeight,   \* bound: length of a chain
  MaxMoves     \* bound: changes of the nodes during the search

Node == {"a", "b"}

VARIABLES
  chain,       \* the active chain of each node
  answering,   \* the nodes that answer calls
  search,      \* the local variables of find_fork_height, and its result
  snapshot,    \* history: the chains that max_height was taken from
  reorged,     \* history: has a node left a chain since?
  moves        \* how often the nodes have changed since

vars == <<chain, answering, search, snapshot, reorged, moves>>

\* "a height both nodes have a block at, i.e. at most the lower of the two tips"
max_height == Lower(Len(snapshot["a"]), Len(snapshot["b"]))

halfway(s) == s.shared + (s.unshared - s.shared) \div 2

\* Mutant of Undecided: does not stop one short.
Undecided_to_the_end(s) == s.unshared - s.shared > 0

Undecided(s) == s.unshared - s.shared > 1

Running == search.state \in {"ask_a", "ask_b"}

Init ==
  /\ snapshot \in [Node -> UNION {[1 .. n -> Block] : n \in 0 .. MaxHeight}]
  /\ chain = snapshot
  /\ answering = Node
  /\ search = [state |-> "ask_a", shared |-> 0, unshared |-> max_height + 1,
               hash |-> << >>]
  /\ reorged = FALSE
  /\ moves = 0

\* `get_block_hash(node, height).ok()?`
Answers(node) == node \in answering /\ HasBlockAt(chain[node], halfway(search))

AskFirst ==
  /\ search.state = "ask_a" /\ Undecided(search) /\ Answers("a")
  /\ search' = [search EXCEPT !.state = "ask_b",
                              !.hash = BlockHash(chain["a"], halfway(search))]
  /\ UNCHANGED <<chain, answering, snapshot, reorged, moves>>

\* Mutant of narrowed: the ends are swapped.
narrowed_swapped(s, equal) ==
  IF equal THEN [s EXCEPT !.unshared = halfway(s)]
  ELSE [s EXCEPT !.shared = halfway(s)]

narrowed(s, equal) ==
  IF equal THEN [s EXCEPT !.shared = halfway(s)]
  ELSE [s EXCEPT !.unshared = halfway(s)]

AskSecond ==
  /\ search.state = "ask_b" /\ Answers("b")
  /\ search' = [narrowed(search, search.hash = BlockHash(chain["b"], halfway(search)))
                  EXCEPT !.state = "ask_a", !.hash = << >>]
  /\ UNCHANGED <<chain, answering, snapshot, reorged, moves>>

\* A node does not answer, or no longer has a block at that height: None.
GiveUp ==
  /\ \/ search.state = "ask_a" /\ Undecided(search) /\ ~ Answers("a")
     \/ search.state = "ask_b" /\ ~ Answers("b")
  /\ search' = [search EXCEPT !.state = "none"]
  /\ UNCHANGED <<chain, answering, snapshot, reorged, moves>>

\* Some(shared)
Found ==
  /\ search.state = "ask_a" /\ ~ Undecided(search)
  /\ search' = [search EXCEPT !.state = "some"]
  /\ UNCHANGED <<chain, answering, snapshot, reorged, moves>>

Search == AskFirst \/ AskSecond \/ GiveUp \/ Found

\* The nodes, meanwhile.
Move == Running /\ moves < MaxMoves /\ moves' = moves + 1

Mine(node, block) ==
  /\ Move /\ Len(chain[node]) < MaxHeight
  /\ chain' = [chain EXCEPT ![node] = Append(@, block)]
  /\ UNCHANGED <<answering, search, snapshot, reorged>>

\* Blocks are disconnected first and connected later, so that a call can find
\* the node on a shorter chain.
Reorganise(node, height, blocks) ==
  /\ Move /\ height < Len(chain[node]) /\ height + Len(blocks) <= MaxHeight
  /\ chain' = [chain EXCEPT ![node] = BlockHash(@, height) \o blocks]
  /\ reorged' = TRUE
  /\ UNCHANGED <<answering, search, snapshot>>

StopAnswering(node) ==
  /\ Move /\ node \in answering
  /\ answering' = answering \ {node}
  /\ UNCHANGED <<chain, search, snapshot, reorged>>

Next ==
  \/ Search
  \/ \E node \in Node :
       \/ \E block \in Block : Mine(node, block)
       \/ \E height \in 0 .. Len(chain[node]) :
            \E blocks \in {<< >>} \cup {<<block>> : block \in Block} :
              Reorganise(node, height, blocks)
       \/ StopAnswering(node)

\* The driver is never kept from its next call for ever; the nodes owe nothing.
Spec == Init /\ [][Next]_vars /\ WF_vars(Search)

-----------------------------------------------------------------------------
\* Correctness.

SearchState ==
  [state : {"ask_a", "ask_b", "none", "some"}, shared : Nat, unshared : Nat,
   hash : Seq(Block)]

\* The search narrows an interval below max_height + 1.
TypeOK ==
  /\ chain \in [Node -> Seq(Block)]
  /\ snapshot \in [Node -> Seq(Block)]
  /\ answering \subseteq Node
  /\ search \in SearchState
  /\ search.shared \in 0 .. max_height
  /\ search.unshared \in search.shared + 1 .. max_height + 1
  /\ search.state = "ask_b" => Undecided(search)
  /\ reorged \in BOOLEAN
  /\ moves \in Nat

\* Nodes may mine while they are asked: as long as neither has left the chain
\* it was on, the search finds the fork point of the chains it was started on.
FindsForkHeight ==
  search.state = "some" /\ ~ reorged =>
    IsForkHeight(search.shared, snapshot["a"], snapshot["b"])

\* The search fails only when a node stopped answering or left its chain.
FailsOnlyWhenDisturbed ==
  search.state = "none" => answering # Node \/ reorged

\* However the chains move, the loop ends.
Terminates == <> ~ Running
=============================================================================
