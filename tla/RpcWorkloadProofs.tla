-------------------------- MODULE RpcWorkloadProofs -------------------------
(***************************************************************************)
(* Proofs about three parts of the RPC workload that share no state.       *)
(*                                                                         *)
(* find_fork_height is right for every pair of chains, whatever the nodes  *)
(* mine while they are asked, and fails only for a reason.                 *)
(*                                                                         *)
(* The invalid-block driver's pool of outputs and its block agree, however *)
(* many transactions are tried and whichever of them fail.  The accounting *)
(* is not inductive by itself.  That the outputs of a new raw transaction  *)
(* are new takes that ids are handed out in order (Older), that its inputs *)
(* are taken out of nothing else takes what the inputs of a transaction    *)
(* under construction are (Building).                                      *)
(*                                                                         *)
(* What that driver corrupts is rejected, what it does not is accepted.    *)
(* The verdict is about one moment, so that what leads to it is kept for   *)
(* the block under construction: a violation that went into the block is   *)
(* one that nothing spliced in later takes back (Corrupted), and a block   *)
(* without one could be handed in at any time (Sound), because the outputs *)
(* on offer are unspent or made further up in it (Sourced) and the inputs  *)
(* at hand are what the kind of the transaction says (Built).              *)
(*                                                                         *)
(* A node is only ever run with one personality.  Cardinality(ran) <= 1 is *)
(* not inductive.  PersonalityOnDisk is: whatever the node was run with is *)
(* what the files say, the weights on disk are then complete, so that no   *)
(* later boot appends to them, and the flags are only written as long as   *)
(* the node has never been run.                                            *)
(***************************************************************************)
EXTENDS ForkHeight, InvalidBlocks, NodeWrapper, FiniteSetTheorems,
  SequenceTheorems, TLAPS

-----------------------------------------------------------------------------
\* find_fork_height.

\* While no node has left its chain: both are still on what they were on, the
\* chains agree at the lower end of the interval and differ at the upper end.
Grown == \A node \in Node : ExtendsChain(chain[node], snapshot[node])

AgreesBelow ==
  BlockHash(snapshot["a"], search.shared) = BlockHash(snapshot["b"], search.shared)

DiffersAbove ==
  search.unshared <= max_height =>
    BlockHash(snapshot["a"], search.unshared) # BlockHash(snapshot["b"], search.unshared)

\* The answer in hand is about the chain that the search was started on.
AskedRight ==
  search.state = "ask_b" => search.hash = BlockHash(snapshot["a"], halfway(search))

SearchInv ==
  /\ TypeOK
  /\ ~ reorged => Grown /\ AgreesBelow /\ DiffersAbove /\ AskedRight
  /\ search.state = "some" => search.unshared = search.shared + 1
  /\ FailsOnlyWhenDisturbed

-----------------------------------------------------------------------------
\* Hashes.

\* The hash at a height is a chain.
LEMMA HashIsChain ==
  ASSUME NEW S, NEW c \in Seq(S), NEW h \in 0 .. Len(c)
  PROVE  BlockHash(c, h) \in Seq(S) /\ Len(BlockHash(c, h)) = h
BY SMT DEF BlockHash

\* A hash determines the hashes below it.
LEMMA HashOfAncestor ==
  ASSUME NEW S, NEW c \in Seq(S), NEW h \in 0 .. Len(c), NEW k \in 0 .. h
  PROVE  BlockHash(BlockHash(c, h), k) = BlockHash(c, k)
<1>1. Len(BlockHash(c, h)) = h /\ BlockHash(c, h) \in Seq(S)
  BY HashIsChain
<1>2. \A j \in 1 .. h : BlockHash(c, h)[j] = c[j]
  BY SMT DEF BlockHash
<1> DEFINE d == BlockHash(c, h)
<1>3. \A j \in 1 .. k : d[j] = c[j]
  BY <1>2, SMT
<1> HIDE DEF d
<1>4. SubSeq(d, 1, k) = [j \in 1 .. k |-> d[j]]
  BY SMT
<1>5. SubSeq(c, 1, k) = [j \in 1 .. k |-> c[j]]
  BY SMT
<1> QED
  BY <1>3, <1>4, <1>5, Zenon DEF BlockHash, d

\* A chain has the blocks of the chain that it extends.
LEMMA HashOfExtension ==
  ASSUME NEW S, NEW c \in Seq(S), NEW d \in Seq(S), ExtendsChain(c, d),
         NEW h \in 0 .. Len(d)
  PROVE  BlockHash(c, h) = BlockHash(d, h) /\ HasBlockAt(c, h)
<1>1. Len(d) \in 0 .. Len(c) /\ BlockHash(c, Len(d)) = d
  BY SMT DEF ExtendsChain, HasBlockAt
<1>2. BlockHash(BlockHash(c, Len(d)), h) = BlockHash(c, h)
  BY <1>1, HashOfAncestor
<1>3. HasBlockAt(c, h)
  BY <1>1, SMT DEF HasBlockAt
<1> QED
  BY <1>1, <1>2, <1>3

\* Mining extends a chain.
LEMMA MiningExtends ==
  ASSUME NEW S, NEW c \in Seq(S), NEW d \in Seq(S), ExtendsChain(c, d), NEW x \in S
  PROVE  ExtendsChain(Append(c, x), d)
<1>1. Len(d) \in 0 .. Len(c) /\ SubSeq(c, 1, Len(d)) = d
  BY SMT DEF ExtendsChain, HasBlockAt, BlockHash
<1>2. Len(Append(c, x)) = Len(c) + 1 /\ \A j \in 1 .. Len(c) : Append(c, x)[j] = c[j]
  BY SMT
<1>3. SubSeq(Append(c, x), 1, Len(d)) = SubSeq(c, 1, Len(d))
  BY <1>1, SMT
<1> QED
  BY <1>1, <1>2, <1>3, SMT DEF ExtendsChain, HasBlockAt, BlockHash

\* Agreement is closed downwards: below a shared block everything is shared.
LEMMA AgreementBelow ==
  ASSUME NEW S, NEW c \in Seq(S), NEW d \in Seq(S),
         NEW h \in 0 .. Len(c), h \in 0 .. Len(d), BlockHash(c, h) = BlockHash(d, h),
         NEW k \in 0 .. h
  PROVE  BlockHash(c, k) = BlockHash(d, k)
BY HashOfAncestor

-----------------------------------------------------------------------------
\* Facts about the interval.

LEMMA Bounds ==
  ASSUME TypeOK
  PROVE  /\ max_height \in Nat
         /\ max_height <= Len(snapshot["a"]) /\ max_height <= Len(snapshot["b"])
         /\ snapshot["a"] \in Seq(Block) /\ snapshot["b"] \in Seq(Block)
         /\ chain["a"] \in Seq(Block) /\ chain["b"] \in Seq(Block)
         /\ Len(snapshot["a"]) \in Nat /\ Len(snapshot["b"]) \in Nat
<1>1. /\ snapshot["a"] \in Seq(Block) /\ snapshot["b"] \in Seq(Block)
      /\ chain["a"] \in Seq(Block) /\ chain["b"] \in Seq(Block)
  BY DEF TypeOK, Node
<1>2. Len(snapshot["a"]) \in Nat /\ Len(snapshot["b"]) \in Nat
  BY <1>1
<1> QED
  BY <1>1, <1>2, SMT DEF max_height, Lower

\* halfway is strictly inside an interval that is not decided yet.
LEMMA HalfwayInside ==
  ASSUME TypeOK, Undecided(search)
  PROVE  /\ halfway(search) \in search.shared + 1 .. search.unshared - 1
         /\ halfway(search) \in 1 .. max_height
<1>1. max_height \in Nat
  BY Bounds
<1>2. /\ search.shared \in 0 .. max_height
      /\ search.unshared \in search.shared + 1 .. max_height + 1
  BY DEF TypeOK
<1> QED
  BY <1>1, <1>2, SMT DEF halfway, Undecided

-----------------------------------------------------------------------------
LEMMA InitSearchInv == Init => SearchInv
<1> SUFFICES ASSUME Init PROVE SearchInv
  OBVIOUS
<1>1. snapshot \in [Node -> Seq(Block)] /\ chain = snapshot
  <2>1. \A n \in 0 .. MaxHeight : [1 .. n -> Block] \subseteq Seq(Block)
    <3> SUFFICES ASSUME NEW n \in 0 .. MaxHeight, NEW f \in [1 .. n -> Block]
                 PROVE  f \in Seq(Block)
      OBVIOUS
    <3>1. n \in Nat
      BY SMT
    <3> QED
      BY <3>1, SMT
  <2> QED
    BY <2>1 DEF Init
<1>2. snapshot["a"] \in Seq(Block) /\ snapshot["b"] \in Seq(Block)
  BY <1>1 DEF Node
<1>3. max_height \in Nat
  BY <1>2, SMT DEF max_height, Lower
<1>4. /\ search.state = "ask_a" /\ search.shared = 0
      /\ search.unshared = max_height + 1 /\ search.hash = << >>
  BY DEF Init
<1>5. TypeOK
  <2>1. search \in SearchState
    <3>1. search = [state |-> "ask_a", shared |-> 0, unshared |-> max_height + 1,
                    hash |-> << >>]
      BY DEF Init
    <3>2. max_height + 1 \in Nat /\ << >> \in Seq(Block)
      BY <1>3, SMT
    <3> QED
      BY <3>1, <3>2, SMT DEF SearchState
  <2>2. /\ search.shared \in 0 .. max_height
        /\ search.unshared \in search.shared + 1 .. max_height + 1
    BY <1>3, <1>4, SMT
  <2>3. answering \subseteq Node /\ reorged \in BOOLEAN /\ moves \in Nat
    BY DEF Init
  <2> QED
    BY <1>1, <1>4, <2>1, <2>2, <2>3 DEF TypeOK
<1>6. Grown
  <2> SUFFICES ASSUME NEW node \in Node
               PROVE  ExtendsChain(chain[node], snapshot[node])
    BY DEF Grown
  <2>1. chain[node] = snapshot[node] /\ snapshot[node] \in Seq(Block)
    BY <1>1
  <2> QED
    BY <2>1, SMT DEF ExtendsChain, HasBlockAt, BlockHash
<1>7. AgreesBelow
  BY <1>2, <1>4, SMT DEF AgreesBelow, BlockHash
<1>8. DiffersAbove
  BY <1>3, <1>4, SMT DEF DiffersAbove
<1> QED
  BY <1>4, <1>5, <1>6, <1>7, <1>8 DEF SearchInv, AskedRight, FailsOnlyWhenDisturbed

\* A node that is still on its chain answers with a block of that chain.
LEMMA AnswersFromSnapshot ==
  ASSUME SearchInv, ~ reorged, Undecided(search), NEW node \in Node
  PROVE  /\ HasBlockAt(chain[node], halfway(search))
         /\ BlockHash(chain[node], halfway(search))
              = BlockHash(snapshot[node], halfway(search))
<1>1. TypeOK /\ Grown
  BY DEF SearchInv
<1>2. chain[node] \in Seq(Block) /\ snapshot[node] \in Seq(Block)
  BY <1>1 DEF TypeOK
<1>3. halfway(search) \in 0 .. Len(snapshot[node])
  <2>1. node = "a" \/ node = "b"
    BY DEF Node
  <2> QED
    BY <1>1, <2>1, Bounds, HalfwayInside, SMT
<1>4. ExtendsChain(chain[node], snapshot[node])
  BY <1>1 DEF Grown
<1> QED
  BY <1>2, <1>3, <1>4, HashOfExtension

LEMMA AskFirstPreserves == ASSUME SearchInv, AskFirst PROVE SearchInv'
<1>1. TypeOK /\ Undecided(search) /\ search.state = "ask_a"
  BY DEF SearchInv, AskFirst
<1>2. /\ search'.state = "ask_b" /\ search'.shared = search.shared
      /\ search'.unshared = search.unshared
      /\ search'.hash = BlockHash(chain["a"], halfway(search))
      /\ UNCHANGED <<chain, answering, snapshot, reorged, moves>>
  BY <1>1 DEF AskFirst, TypeOK, SearchState
<1>3. max_height' = max_height /\ halfway(search') = halfway(search)
      /\ (Undecided(search') <=> Undecided(search))
  BY <1>2 DEF max_height, halfway, Undecided
<1>4. search'.hash \in Seq(Block)
  <2>1. halfway(search) \in 0 .. Len(chain["a"])
    <3>1. halfway(search) \in Nat
      BY <1>1, HalfwayInside, Bounds, SMT
    <3>2. halfway(search) <= Len(chain["a"])
      BY DEF AskFirst, Answers, HasBlockAt
    <3>3. Len(chain["a"]) \in Nat
      BY <1>1, Bounds
    <3> QED
      BY <3>1, <3>2, <3>3, SMT
  <2> QED
    BY <1>1, <1>2, <2>1, Bounds, HashIsChain
<1>5. TypeOK'
  <2>1. search' \in SearchState
    <3> DEFINE hash == BlockHash(chain["a"], halfway(search))
    <3>1. search' = [search EXCEPT !.state = "ask_b", !.hash = hash]
      BY DEF AskFirst
    <3>2. hash \in Seq(Block) /\ search \in SearchState
      BY <1>1, <1>2, <1>4 DEF TypeOK
    <3> HIDE DEF hash
    <3> QED
      BY <3>1, <3>2 DEF SearchState
  <2> QED
    BY <1>1, <1>2, <1>3, <2>1 DEF TypeOK
<1>6. ASSUME ~ reorged'
      PROVE  Grown' /\ AgreesBelow' /\ DiffersAbove' /\ AskedRight'
  <2>1. ~ reorged /\ Grown /\ AgreesBelow /\ DiffersAbove
    BY <1>2, <1>6 DEF SearchInv
  <2>2. Grown' /\ AgreesBelow' /\ DiffersAbove'
    BY <1>2, <1>3, <2>1 DEF Grown, AgreesBelow, DiffersAbove
  <2>3. search'.hash = BlockHash(snapshot["a"], halfway(search))
    BY <1>1, <1>2, <2>1, AnswersFromSnapshot DEF Node
  <2> QED
    BY <1>2, <1>3, <2>2, <2>3 DEF AskedRight
<1> QED
  BY <1>2, <1>5, <1>6 DEF SearchInv, FailsOnlyWhenDisturbed

LEMMA AskSecondPreserves == ASSUME SearchInv, AskSecond PROVE SearchInv'
<1> DEFINE equal == search.hash = BlockHash(chain["b"], halfway(search))
           mid == halfway(search)
<1>1. TypeOK /\ Undecided(search) /\ search.state = "ask_b"
  BY DEF SearchInv, AskSecond, TypeOK
<1>2. /\ search'.state = "ask_a" /\ search'.hash = << >>
      /\ search'.shared = IF equal THEN mid ELSE search.shared
      /\ search'.unshared = IF equal THEN search.unshared ELSE mid
      /\ UNCHANGED <<chain, answering, snapshot, reorged, moves>>
  <2>1. search' = [narrowed(search, equal) EXCEPT !.state = "ask_a", !.hash = << >>]
    BY DEF AskSecond
  <2>2. CASE equal
    <3>1. search' = [[search EXCEPT !.shared = mid]
                       EXCEPT !.state = "ask_a", !.hash = << >>]
      BY <2>1, <2>2 DEF narrowed
    <3> QED
      BY <2>2, <3>1, <1>1 DEF AskSecond, TypeOK, SearchState
  <2>3. CASE ~ equal
    <3>1. search' = [[search EXCEPT !.unshared = mid]
                       EXCEPT !.state = "ask_a", !.hash = << >>]
      BY <2>1, <2>3 DEF narrowed
    <3> QED
      BY <2>3, <3>1, <1>1 DEF AskSecond, TypeOK, SearchState
  <2> QED
    BY <2>2, <2>3
<1>3. mid \in search.shared + 1 .. search.unshared - 1 /\ mid \in 1 .. max_height
  BY <1>1, HalfwayInside
<1>4. max_height' = max_height /\ max_height \in Nat
  BY <1>1, <1>2, Bounds DEF max_height
<1>5. TypeOK'
  <2>1. /\ search.shared \in 0 .. max_height
        /\ search.unshared \in search.shared + 1 .. max_height + 1
    BY <1>1 DEF TypeOK
  <2>2. /\ search'.shared \in 0 .. max_height
        /\ search'.unshared \in search'.shared + 1 .. max_height + 1
    <3> HIDE DEF mid, equal
    <3> QED
      BY <1>2, <1>3, <1>4, <2>1, SMT
  <2>3. search' \in SearchState
    <3>1. search \in SearchState /\ mid \in Nat /\ << >> \in Seq(Block)
      BY <1>1, <1>3, <1>4, SMT DEF TypeOK
    <3>2. \/ search' = [[search EXCEPT !.shared = mid]
                           EXCEPT !.state = "ask_a", !.hash = << >>]
          \/ search' = [[search EXCEPT !.unshared = mid]
                           EXCEPT !.state = "ask_a", !.hash = << >>]
      BY Zenon DEF AskSecond, narrowed
    <3> HIDE DEF mid
    <3> QED
      BY <3>1, <3>2 DEF SearchState
  <2> QED
    BY <1>1, <1>2, <1>4, <2>2, <2>3 DEF TypeOK
<1>6. ASSUME ~ reorged'
      PROVE  Grown' /\ AgreesBelow' /\ DiffersAbove' /\ AskedRight'
  <2>1. ~ reorged /\ Grown /\ AgreesBelow /\ DiffersAbove /\ AskedRight
    BY <1>2, <1>6 DEF SearchInv
  <2>2. /\ search.hash = BlockHash(snapshot["a"], mid)
        /\ BlockHash(chain["b"], mid) = BlockHash(snapshot["b"], mid)
    BY <1>1, <2>1, AnswersFromSnapshot DEF Node, AskedRight
  <2>3. equal <=> BlockHash(snapshot["a"], mid) = BlockHash(snapshot["b"], mid)
    BY <2>2
  <2>4. AgreesBelow' /\ DiffersAbove'
    <3> HIDE DEF mid, equal
    <3>1. CASE equal
      BY <1>2, <1>4, <2>1, <2>3, <3>1 DEF AgreesBelow, DiffersAbove
    <3>2. CASE ~ equal
      BY <1>2, <1>4, <2>1, <2>3, <3>2 DEF AgreesBelow, DiffersAbove
    <3> QED
      BY <3>1, <3>2
  <2> QED
    BY <1>2, <2>1, <2>4 DEF Grown, AskedRight
<1> QED
  BY <1>2, <1>5, <1>6 DEF SearchInv, FailsOnlyWhenDisturbed

LEMMA GiveUpPreserves == ASSUME SearchInv, GiveUp PROVE SearchInv'
<1>1. TypeOK /\ Undecided(search)
  BY DEF SearchInv, GiveUp, TypeOK
<1>2. /\ search'.state = "none" /\ search'.shared = search.shared
      /\ search'.unshared = search.unshared /\ search'.hash = search.hash
      /\ UNCHANGED <<chain, answering, snapshot, reorged, moves>>
  BY <1>1 DEF GiveUp, TypeOK, SearchState
<1>3. max_height' = max_height
  BY <1>2 DEF max_height
<1>4. TypeOK'
  <2>1. search' \in SearchState
    BY <1>1 DEF GiveUp, SearchState, TypeOK
  <2> QED
    BY <1>1, <1>2, <1>3, <2>1 DEF TypeOK
<1>5. answering # Node \/ reorged
  <2>1. PICK node \in Node : ~ Answers(node)
    BY DEF GiveUp, Node
  <2>2. reorged \/ HasBlockAt(chain[node], halfway(search))
    BY <1>1, AnswersFromSnapshot
  <2> QED
    BY <2>1, <2>2 DEF Answers
<1> QED
  BY <1>2, <1>3, <1>4, <1>5
     DEF SearchInv, FailsOnlyWhenDisturbed, Grown, AgreesBelow, DiffersAbove, AskedRight

LEMMA FoundPreserves == ASSUME SearchInv, Found PROVE SearchInv'
<1>1. TypeOK /\ ~ Undecided(search)
  BY DEF SearchInv, Found
<1>2. /\ search'.state = "some" /\ search'.shared = search.shared
      /\ search'.unshared = search.unshared /\ search'.hash = search.hash
      /\ UNCHANGED <<chain, answering, snapshot, reorged, moves>>
  BY <1>1 DEF Found, TypeOK, SearchState
<1>3. max_height' = max_height /\ max_height \in Nat
  BY <1>1, <1>2, Bounds DEF max_height
<1>4. TypeOK'
  <2>1. search' \in SearchState
    BY <1>1 DEF Found, SearchState, TypeOK
  <2> QED
    BY <1>1, <1>2, <1>3, <2>1 DEF TypeOK
<1>5. search.unshared = search.shared + 1
  <2>1. /\ search.shared \in 0 .. max_height
        /\ search.unshared \in search.shared + 1 .. max_height + 1
    BY <1>1 DEF TypeOK
  <2> QED
    BY <1>1, <1>3, <2>1, SMT DEF Undecided
<1> QED
  BY <1>2, <1>3, <1>4, <1>5
     DEF SearchInv, FailsOnlyWhenDisturbed, Grown, AgreesBelow, DiffersAbove, AskedRight

LEMMA MinePreserves ==
  ASSUME SearchInv, NEW node \in Node, NEW block \in Block, Mine(node, block)
  PROVE  SearchInv'
<1>1. /\ chain' = [chain EXCEPT ![node] = Append(@, block)]
      /\ UNCHANGED <<answering, search, snapshot, reorged>>
      /\ moves' = moves + 1 /\ Running
  BY DEF Mine, Move
<1>2. TypeOK /\ max_height' = max_height
  BY <1>1 DEF SearchInv, max_height
<1>3. chain' \in [Node -> Seq(Block)]
  BY <1>1, <1>2 DEF TypeOK
<1>4. TypeOK'
  <2>1. moves' \in Nat
    BY <1>1, <1>2, SMT DEF TypeOK
  <2> QED
    BY <1>1, <1>2, <1>3, <2>1 DEF TypeOK
<1>5. ASSUME ~ reorged' PROVE Grown'
  <2> SUFFICES ASSUME NEW n \in Node PROVE ExtendsChain(chain'[n], snapshot[n])
    BY <1>1 DEF Grown
  <2>1. ExtendsChain(chain[n], snapshot[n])
    BY <1>1, <1>5 DEF SearchInv, Grown
  <2>2. chain[n] \in Seq(Block) /\ snapshot[n] \in Seq(Block)
    BY <1>2 DEF TypeOK
  <2>3. CASE n = node
    <3>1. chain'[n] = Append(chain[n], block)
      BY <1>1, <1>2, <2>3 DEF TypeOK
    <3> QED
      BY <2>1, <2>2, <3>1, MiningExtends
  <2>4. CASE n # node
    BY <1>1, <1>2, <2>1, <2>4 DEF TypeOK
  <2> QED
    BY <2>3, <2>4
<1> QED
  BY <1>1, <1>2, <1>4, <1>5
     DEF SearchInv, FailsOnlyWhenDisturbed, AgreesBelow, DiffersAbove, AskedRight, Running

LEMMA ReorganisePreserves ==
  ASSUME SearchInv, NEW node \in Node, NEW height \in 0 .. Len(chain[node]),
         NEW blocks \in Seq(Block), Reorganise(node, height, blocks)
  PROVE  SearchInv'
<1>1. /\ chain' = [chain EXCEPT ![node] = BlockHash(@, height) \o blocks]
      /\ UNCHANGED <<answering, search, snapshot>>
      /\ moves' = moves + 1 /\ reorged' = TRUE
  BY DEF Reorganise, Move
<1>2. TypeOK /\ max_height' = max_height
  BY <1>1 DEF SearchInv, max_height
<1>3. chain' \in [Node -> Seq(Block)]
  <2>1. chain[node] \in Seq(Block)
    BY <1>2 DEF TypeOK
  <2>2. BlockHash(chain[node], height) \in Seq(Block)
    BY <2>1, HashIsChain
  <2>3. BlockHash(chain[node], height) \o blocks \in Seq(Block)
    BY <2>2
  <2> QED
    BY <1>1, <1>2, <2>3 DEF TypeOK
<1>4. TypeOK'
  <2>1. moves' \in Nat
    BY <1>1, <1>2, SMT DEF TypeOK
  <2> QED
    BY <1>1, <1>2, <1>3, <2>1 DEF TypeOK
<1> QED
  BY <1>1, <1>4 DEF SearchInv, FailsOnlyWhenDisturbed

LEMMA StopAnsweringPreserves ==
  ASSUME SearchInv, NEW node \in Node, StopAnswering(node)
  PROVE  SearchInv'
<1>1. /\ answering' = answering \ {node} /\ node \in answering
      /\ UNCHANGED <<chain, search, snapshot, reorged>>
      /\ moves' = moves + 1
  BY DEF StopAnswering, Move
<1>2. TypeOK /\ max_height' = max_height
  BY <1>1 DEF SearchInv, max_height
<1>3. moves' \in Nat
  BY <1>1, <1>2, SMT DEF TypeOK
<1>4. TypeOK'
  BY <1>1, <1>2, <1>3 DEF TypeOK
<1>5. answering' # Node
  BY <1>1
<1> QED
  BY <1>1, <1>2, <1>4, <1>5
     DEF SearchInv, FailsOnlyWhenDisturbed, Grown, AgreesBelow, DiffersAbove, AskedRight

LEMMA NextPreserves == SearchInv /\ [Next]_vars => SearchInv'
<1> SUFFICES ASSUME SearchInv, [Next]_vars PROVE SearchInv'
  OBVIOUS
<1>1. CASE Search
  BY <1>1, AskFirstPreserves, AskSecondPreserves, GiveUpPreserves, FoundPreserves
     DEF Search
<1>2. CASE \E node \in Node : \E block \in Block : Mine(node, block)
  BY <1>2, MinePreserves
<1>3. CASE \E node \in Node : \E height \in 0 .. Len(chain[node]) :
             \E blocks \in {<< >>} \cup {<<block>> : block \in Block} :
               Reorganise(node, height, blocks)
  <2>1. << >> \in Seq(Block) /\ \A block \in Block : <<block>> \in Seq(Block)
    BY SMT
  <2> QED
    BY <1>3, <2>1, ReorganisePreserves
<1>4. CASE \E node \in Node : StopAnswering(node)
  BY <1>4, StopAnsweringPreserves
<1>5. CASE UNCHANGED vars
  BY <1>5 DEF vars, SearchInv, TypeOK, FailsOnlyWhenDisturbed, Grown, AgreesBelow,
              DiffersAbove, AskedRight, max_height
<1> QED
  BY <1>1, <1>2, <1>3, <1>4, <1>5 DEF Next

\* The loop invariant of find_fork_height holds, whatever the nodes do.
THEOREM SearchInvariant == Spec => []SearchInv
BY InitSearchInv, NextPreserves, PTL DEF Spec

\* The fields of the search keep their types and the interval never empties.
THEOREM ForkHeightTypes == Spec => []TypeOK
BY SearchInvariant, PTL DEF SearchInv

\* find_fork_height returns None only if a node stopped answering or left its
\* chain during the search.
THEOREM FailureHasAReason == Spec => []FailsOnlyWhenDisturbed
BY SearchInvariant, PTL DEF SearchInv

LEMMA InvFinds == SearchInv => FindsForkHeight
<1> SUFFICES ASSUME SearchInv, search.state = "some", ~ reorged
             PROVE  IsForkHeight(search.shared, snapshot["a"], snapshot["b"])
  BY DEF FindsForkHeight
<1> DEFINE c == snapshot["a"]
           d == snapshot["b"]
           s == search.shared
<1>1. TypeOK /\ AgreesBelow /\ DiffersAbove /\ search.unshared = s + 1
  BY DEF SearchInv
<1>2. /\ s \in 0 .. max_height /\ max_height = Lower(Len(c), Len(d))
      /\ max_height \in Nat /\ max_height <= Len(c) /\ max_height <= Len(d)
      /\ c \in Seq(Block) /\ d \in Seq(Block) /\ Len(c) \in Nat /\ Len(d) \in Nat
  BY <1>1, Bounds DEF TypeOK, max_height
<1>3. BlockHash(c, s) = BlockHash(d, s)
  BY <1>1 DEF AgreesBelow
<1>4. ASSUME NEW h \in s + 1 .. max_height
      PROVE  BlockHash(c, h) # BlockHash(d, h)
  <2>1. s + 1 <= max_height /\ h \in 0 .. Len(c) /\ h \in 0 .. Len(d)
        /\ s + 1 \in 0 .. h
    BY <1>2, SMT
  <2>2. BlockHash(c, s + 1) # BlockHash(d, s + 1)
    BY <1>1, <2>1 DEF DiffersAbove
  <2>3. SUFFICES ASSUME BlockHash(c, h) = BlockHash(d, h) PROVE FALSE
    OBVIOUS
  <2>4. BlockHash(c, s + 1) = BlockHash(d, s + 1)
    BY <1>2, <2>1, <2>3, AgreementBelow
  <2> QED
    BY <2>2, <2>4
<1> QED
  BY <1>2, <1>3, <1>4 DEF IsForkHeight

\* As long as neither node leaves its chain, find_fork_height returns the
\* height of the highest block that the two chains have in common.
THEOREM FindsTheForkHeight == Spec => []FindsForkHeight
BY SearchInvariant, InvFinds, PTL

-----------------------------------------------------------------------------
\* The invalid-block driver.

Point == Nat \X Nat

OtherPoint == OtherIds \X Nat

OtherTx == [id : OtherIds, input : Seq(OtherPoint), outputs : Nat, damaged : BOOLEAN]

Tx == [id : Nat, input : Seq(Point \cup {Missing}), outputs : Nat, damaged : BOOLEAN]

DriverFields == {"pc", "txs", "n_total", "corrupt_at", "candidate", "applied", "i",
                 "input", "accepted"}

PoolFields == {"available", "spent", "pending", "intra_block_txids"}

\* All outputs the pool knows, and those the block's transactions make.
Pooled == pool.available \cup pool.pending \cup pool.spent

RawPoint == (1 .. MaxTotal) \X Nat

Made(txs) == UNION {Outputs(txs[k]) : k \in DOMAIN txs}

Typed ==
  /\ IsFiniteSet(utxos) /\ utxos \subseteq OtherPoint
  /\ mempool \in Seq(OtherTx)
  /\ DOMAIN driver = DriverFields
  /\ driver.txs \in Seq(Tx) /\ driver.input \in Seq(Point \cup {Missing})
  /\ driver.i \in Nat \ {0} /\ driver.n_total \in Nat
  /\ DOMAIN pool = PoolFields
  /\ Pooled \subseteq Point
  /\ IsFiniteSet(pool.available) /\ IsFiniteSet(pool.pending)

\* Before the first raw transaction the pool and the block hold nothing of one.
Beginning ==
  /\ driver.pc \in {"template", "unspent"} => driver.txs \in Seq(OtherTx) /\ Pooled = {}
  /\ driver.pc \in {"take", "build"} => driver.n_total <= MaxTotal

\* Outputs are pending exactly while a transaction that spends them is built.
Building ==
  /\ driver.pc # "build" => pool.pending = {}
  /\ driver.pc = "build" =>
       /\ driver.i <= driver.n_total
       /\ pool.pending \subseteq Range(driver.input)
       /\ Range(driver.input) \subseteq pool.pending \cup pool.spent \cup {Missing}

Disjoint ==
  /\ pool.available \cap (pool.pending \cup pool.spent) = {}
  /\ pool.pending \cap pool.spent = {}
  /\ (pool.available \cup pool.pending) \cap Inputs(driver.txs) = {}
  /\ pool.spent \subseteq Inputs(driver.txs)

Born == Pooled \cap RawPoint = Made(driver.txs) \cap RawPoint

\* What the block spends of raw transactions, and what they make, is older
\* than the next raw transaction.
Older ==
  \A o \in (Inputs(driver.txs) \cup Made(driver.txs)) \cap RawPoint : o[1] < driver.i

Accounts == Typed /\ Beginning /\ Building /\ Disjoint /\ Born /\ Older

-----------------------------------------------------------------------------
\* SetToSeq lists the elements of a finite set.
LEMMA SetToSeqRange ==
  ASSUME NEW S, IsFiniteSet(S)
  PROVE  /\ SetToSeq(S) \in Seq(S) /\ Range(SetToSeq(S)) = S
         /\ IsInjective(SetToSeq(S))
<1> DEFINE n == Cardinality(S)
<1> DEFINE f == SetToSeq(S)
<1>1. n \in Nat /\ ExistsBijection(1 .. n, S)
  BY FS_CardinalityType
<1>2. \E g \in [1 .. n -> S] : IsInjective(g)
  BY <1>1 DEF ExistsBijection, Bijection, Injection
<1>3. f \in [1 .. n -> S] /\ IsInjective(f)
  BY <1>2 DEF SetToSeq
<1> HIDE DEF f
<1>4. f \in Injection(1 .. n, S)
  BY <1>3 DEF Injection
<1>5. Cardinality(1 .. n) = n
  <2>1. 1 \in Int /\ n \in Int
    BY <1>1
  <2>2. Cardinality(1 .. n) = IF 1 > n THEN 0 ELSE n - 1 + 1
    BY <2>1, FS_Interval
  <2> QED
    BY <1>1, <2>2
<1>6. f \in Surjection(1 .. n, S)
  BY <1>4, <1>5, FS_Injection
<1>7. f \in Seq(S)
  BY <1>1, <1>3
<1>8. Range(f) = S
  BY <1>3, <1>6 DEF Surjection, Range
<1> QED
  BY <1>3, <1>7, <1>8 DEF f

\* A prefix of a sequence is one of elements of the same set.
LEMMA PrefixType ==
  ASSUME NEW S, NEW s \in Seq(S), NEW a \in Nat \ {0}, NEW b \in 0 .. Len(s)
  PROVE  /\ SubSeq(s, a, b) \in Seq(S)
         /\ Len(SubSeq(s, a, b)) = IF a <= b THEN b - a + 1 ELSE 0
         /\ \A k \in 1 .. b - a + 1 : SubSeq(s, a, b)[k] = s[a + k - 1]
<1>1. \A k \in 1 .. Len(s) : s[k] \in S
  OBVIOUS
<1>2. \A k \in a .. b : k \in 1 .. Len(s)
  OBVIOUS
<1>3. a \in Int /\ b \in Int /\ \A k \in a .. b : s[k] \in S
  BY <1>1, <1>2
<1> QED
  BY <1>3, SubSeqProperties

\* Inserting an element adds it and nothing else.
LEMMA InsertAtRange ==
  ASSUME NEW S, NEW s \in Seq(S), NEW e \in S, NEW pos \in 1 .. Len(s) + 1
  PROVE  /\ InsertAt(s, pos, e) \in Seq(S)
         /\ Range(InsertAt(s, pos, e)) = Range(s) \cup {e}
<1> DEFINE front == SubSeq(s, 1, pos - 1)
<1> DEFINE back == SubSeq(s, pos, Len(s))
<1>1. Len(s) \in Nat /\ pos \in Nat \ {0} /\ pos - 1 \in 0 .. Len(s) /\ Len(s) \in 0 .. Len(s)
      /\ 1 \in Nat \ {0}
  OBVIOUS
<1>2. /\ front \in Seq(S) /\ Len(front) = pos - 1
      /\ \A k \in 1 .. pos - 1 : front[k] = s[k]
  <2>1. /\ front \in Seq(S) /\ Len(front) = IF 1 <= pos - 1 THEN pos - 1 - 1 + 1 ELSE 0
        /\ \A k \in 1 .. pos - 1 - 1 + 1 : front[k] = s[1 + k - 1]
    BY <1>1, PrefixType
  <2> HIDE DEF front
  <2> QED
    BY <1>1, <2>1
<1>3. /\ back \in Seq(S) /\ Len(back) = Len(s) - pos + 1
      /\ \A k \in 1 .. Len(s) - pos + 1 : back[k] = s[pos + k - 1]
  <2>1. /\ back \in Seq(S) /\ Len(back) = IF pos <= Len(s) THEN Len(s) - pos + 1 ELSE 0
        /\ \A k \in 1 .. Len(s) - pos + 1 : back[k] = s[pos + k - 1]
    BY <1>1, PrefixType
  <2> HIDE DEF back
  <2> QED
    BY <1>1, <2>1
<1> DEFINE new_one == <<e>>
<1> DEFINE start == front \o new_one
<1>4. InsertAt(s, pos, e) = start \o back
  BY DEF InsertAt
<1> HIDE DEF front, back
<1>5. new_one \in Seq(S) /\ start \in Seq(S) /\ Range(new_one) = {e}
  BY <1>2 DEF Range
<1>6. start \o back \in Seq(S) /\ Range(start \o back) = Range(front) \cup {e} \cup Range(back)
  <2> HIDE DEF new_one
  <2>1. Range(start) = Range(front) \cup Range(new_one)
    BY <1>2, <1>5, RangeConcatenation
  <2> HIDE DEF start
  <2>2. Range(start \o back) = Range(start) \cup Range(back)
    BY <1>3, <1>5, RangeConcatenation
  <2>3. start \o back \in Seq(S)
    BY <1>3, <1>5
  <2> QED
    BY <1>5, <2>1, <2>2, <2>3
<1>7. Range(s) = Range(front) \cup Range(back)
  <2>1. /\ Range(s) = {s[k] : k \in 1 .. Len(s)}
        /\ Range(front) = {front[k] : k \in 1 .. Len(front)}
        /\ Range(back) = {back[k] : k \in 1 .. Len(back)}
    BY <1>2, <1>3, RangeEquality
  <2>2. ASSUME NEW k \in 1 .. Len(s)
        PROVE  s[k] \in Range(front) \cup Range(back)
    <3>1. CASE k <= pos - 1
      BY <1>1, <1>2, <2>1, <3>1
    <3>2. CASE k >= pos
      <4> DEFINE j == k + 1 - pos
      <4>1. j \in 1 .. Len(s) - pos + 1 /\ pos + j - 1 = k
        BY <1>1, <3>2
      <4> HIDE DEF j
      <4> QED
        BY <1>3, <2>1, <4>1
    <3> QED
      BY <1>1, <3>1, <3>2
  <2>3. ASSUME NEW k \in 1 .. Len(front) PROVE front[k] \in Range(s)
    <3>1. k \in 1 .. Len(s) /\ front[k] = s[k]
      BY <1>1, <1>2
    <3> QED
      BY <2>1, <3>1
  <2>4. ASSUME NEW k \in 1 .. Len(back) PROVE back[k] \in Range(s)
    <3> DEFINE j == pos + k - 1
    <3>1. j \in 1 .. Len(s) /\ back[k] = s[j]
      BY <1>1, <1>3
    <3> HIDE DEF j
    <3> QED
      BY <2>1, <3>1
  <2> QED
    BY <2>1, <2>2, <2>3, <2>4
<1> QED
  BY <1>4, <1>6, <1>7

-----------------------------------------------------------------------------
\* The others' transactions are transactions.
LEMMA OtherTxIsTx == OtherPoint \subseteq Point /\ OtherTx \subseteq Tx
<1>1. OtherIds \subseteq Nat
  BY DEF OtherIds
<1>2. OtherPoint \subseteq Point
  BY <1>1 DEF OtherPoint, Point
<1>3. Seq(OtherPoint) \subseteq Seq(Point \cup {Missing})
  BY <1>2, SeqMonotonic
<1> QED
  BY <1>1, <1>2, <1>3 DEF OtherTx, Tx

\* They spend and make nothing of a raw transaction.
LEMMA OthersOnly ==
  ASSUME NEW txs \in Seq(OtherTx)
  PROVE  /\ Inputs(txs) \cap RawPoint = {} /\ Made(txs) \cap RawPoint = {}
         /\ txs \in Seq(Tx)
<1>1. \A k \in DOMAIN txs : txs[k] \in OtherTx
  OBVIOUS
<1>2. \A o \in OtherPoint : o \notin RawPoint
  BY DEF OtherPoint, OtherIds, RawPoint
<1>3. ASSUME NEW k \in DOMAIN txs PROVE Range(txs[k].input) \cap RawPoint = {}
  <2>1. txs[k].input \in Seq(OtherPoint)
    BY <1>1 DEF OtherTx
  <2>2. Range(txs[k].input) \subseteq OtherPoint
    BY <2>1, RangeOfSeq
  <2> QED
    BY <1>2, <2>2
<1>4. ASSUME NEW k \in DOMAIN txs PROVE Outputs(txs[k]) \cap RawPoint = {}
  <2>1. txs[k].id \in OtherIds
    BY <1>1 DEF OtherTx
  <2> QED
    BY <2>1 DEF Outputs, OtherIds, RawPoint
<1>5. txs \in Seq(Tx)
  BY OtherTxIsTx, SeqMonotonic
<1> QED
  BY <1>3, <1>4, <1>5 DEF Inputs, Made

\* No output has the id of the transaction that does not exist.
LEMMA MissingIsNoPoint == Missing \notin Point
BY DEF Missing, Point

\* The driver begins a block with nothing.
LEMMA AccountsInit == InvalidInit => Accounts
<1> SUFFICES ASSUME InvalidInit PROVE Accounts
  OBVIOUS
<1>1. /\ DOMAIN driver = DriverFields /\ driver.pc = "template" /\ driver.txs = << >>
      /\ driver.n_total = 1 /\ driver.i = 1 /\ driver.input = << >>
  BY DEF InvalidInit, DriverFields
<1>2. /\ DOMAIN pool = PoolFields
      /\ pool.available = {} /\ pool.pending = {} /\ pool.spent = {}
  BY DEF InvalidInit, new, PoolFields
<1>3. << >> \in Seq(OtherTx) /\ << >> \in Seq(Tx) /\ << >> \in Seq(Point \cup {Missing})
      /\ Inputs(<< >>) = {} /\ Made(<< >>) = {}
  BY DEF Inputs, Made
<1>4. Pooled = {}
  BY <1>2 DEF Pooled
<1>5. Typed
  <2>1. IsFiniteSet(utxos) /\ utxos \subseteq OtherPoint /\ mempool \in Seq(OtherTx)
    BY InvalidBlocksAssumption DEF InvalidInit, OtherPoint, OtherTx
  <2> QED
    BY <1>1, <1>2, <1>3, <1>4, <2>1, FS_EmptySet DEF Typed
<1>6. Beginning /\ Building
  BY <1>1, <1>2, <1>3, <1>4 DEF Beginning, Building
<1>7. Disjoint /\ Born /\ Older
  BY <1>1, <1>2, <1>3, <1>4 DEF Disjoint, Born, Older
<1> QED
  BY <1>5, <1>6, <1>7 DEF Accounts

\* The mempool's part of the block.
LEMMA PickStep ==
  ASSUME Accounts, PickMempool
  PROVE  Accounts'
<1>1. PICK n \in 0 .. Len(mempool) :
        driver' = [driver EXCEPT !.pc = "unspent", !.txs = SubSeq(mempool, 1, n)]
  BY DEF PickMempool
<1>2. UNCHANGED <<utxos, mempool, pool>> /\ driver.pc = "template"
  BY DEF PickMempool, At
<1> DEFINE txs == SubSeq(mempool, 1, n)
<1>3. txs \in Seq(OtherTx)
  <2>1. mempool \in Seq(OtherTx) /\ 1 \in Nat \ {0}
    BY DEF Accounts, Typed
  <2> QED
    BY <2>1, PrefixType
<1>4. /\ DOMAIN driver' = DriverFields /\ driver'.pc = "unspent" /\ driver'.txs = txs
      /\ driver'.n_total = driver.n_total /\ driver'.i = driver.i
      /\ driver'.input = driver.input
  BY <1>1 DEF Accounts, Typed, DriverFields
<1> HIDE DEF txs
<1>5. Pooled = {} /\ Pooled' = {}
  BY <1>2 DEF Accounts, Beginning, Pooled
<1>6. pool.available = {} /\ pool.pending = {} /\ pool.spent = {}
  BY <1>5 DEF Pooled
<1>7. Inputs(txs) \cap RawPoint = {} /\ Made(txs) \cap RawPoint = {} /\ txs \in Seq(Tx)
  BY <1>3, OthersOnly
<1>8. Typed'
  BY <1>2, <1>4, <1>5, <1>7 DEF Accounts, Typed
<1>9. Beginning' /\ Building'
  BY <1>2, <1>3, <1>4, <1>5, <1>6 DEF Beginning, Building
<1>10. Disjoint' /\ Born' /\ Older'
  BY <1>2, <1>4, <1>5, <1>6, <1>7 DEF Disjoint, Born, Older
<1> QED
  BY <1>8, <1>9, <1>10 DEF Accounts

\* The pool of a block: confirmed outputs that its mempool part leaves.
LEMMA ListStep ==
  ASSUME Accounts, ListUnspent
  PROVE  Accounts'
<1>1. PICK listed \in {utxos, {}} : pool' = new(Unconsumed(listed))
  BY DEF ListUnspent
<1>2. PICK n \in 1 .. MaxTotal : \E k \in 1 .. n : \E candidate \in Corruption :
        driver' = [driver EXCEPT !.pc = "take", !.n_total = n, !.corrupt_at = k,
                                 !.candidate = candidate]
  BY DEF ListUnspent
<1>3. UNCHANGED <<utxos, mempool>> /\ driver.pc = "unspent"
  BY DEF ListUnspent, At
<1>4. /\ DOMAIN driver' = DriverFields /\ driver'.pc = "take" /\ driver'.txs = driver.txs
      /\ driver'.n_total = n /\ driver'.i = driver.i /\ driver'.input = driver.input
  BY <1>2 DEF Accounts, Typed, DriverFields
<1>5. /\ DOMAIN pool' = PoolFields /\ pool'.available = listed \ Inputs(driver.txs)
      /\ pool'.pending = {} /\ pool'.spent = {}
  BY <1>1 DEF new, PoolFields, Unconsumed
<1>6. Pooled' = listed \ Inputs(driver.txs)
  BY <1>5 DEF Pooled
<1>7. IsFiniteSet(Pooled') /\ Pooled' \subseteq OtherPoint
  <2>1. IsFiniteSet(listed) /\ listed \subseteq OtherPoint
    BY FS_EmptySet DEF Accounts, Typed
  <2>2. Pooled' \in SUBSET listed
    BY <1>6
  <2> QED
    BY <2>1, <2>2, FS_Subset
<1>8. n \in Nat /\ n <= MaxTotal
  BY InvalidBlocksAssumption
<1>9. Typed'
  BY <1>3, <1>4, <1>5, <1>6, <1>7, <1>8, OtherTxIsTx, FS_EmptySet DEF Accounts, Typed
<1>10. Beginning' /\ Building'
  BY <1>4, <1>5, <1>8 DEF Beginning, Building
<1>11. Disjoint'
  BY <1>4, <1>5 DEF Disjoint
<1>12. Inputs(driver.txs) \cap RawPoint = {} /\ Made(driver.txs) \cap RawPoint = {}
  BY <1>3, OthersOnly DEF Accounts, Beginning
<1>13. OtherPoint \cap RawPoint = {}
  BY DEF OtherPoint, OtherIds, RawPoint
<1>14. Born' /\ Older'
  BY <1>4, <1>7, <1>12, <1>13 DEF Born, Older
<1> QED
  BY <1>9, <1>10, <1>11, <1>14 DEF Accounts

\* Outputs are taken for a transaction under construction; what else it spends
\* is of the same outputs, or is spent already, or does not exist.
LEMMA TakeStep ==
  ASSUME Accounts, At("take"), More,
         NEW picked \in SUBSET pool.available,
         NEW extra \in Seq(Point \cup {Missing}),
         Range(extra) \subseteq picked \cup pool.spent \cup {Missing},
         Take(picked, extra)
  PROVE  Accounts'
<1>1. UNCHANGED <<utxos, mempool>> /\ driver.pc = "take" /\ driver.i <= driver.n_total
  BY DEF Take, At, More
<1>2. /\ DOMAIN driver' = DriverFields /\ driver'.pc = "build" /\ driver'.txs = driver.txs
      /\ driver'.n_total = driver.n_total /\ driver'.i = driver.i
      /\ driver'.input = SetToSeq(picked) \o extra
  BY DEF Take, Accounts, Typed, DriverFields
<1>3. /\ DOMAIN pool' = PoolFields /\ pool'.available = pool.available \ picked
      /\ pool'.pending = pool.pending \cup picked /\ pool'.spent = pool.spent
  BY DEF Take, take, Accounts, Typed, PoolFields
<1>4. pool.pending = {}
  BY <1>1 DEF Accounts, Building
<1>5. Pooled' = Pooled
  BY <1>3 DEF Pooled
<1>6. IsFiniteSet(pool.available) /\ IsFiniteSet(picked) /\ picked \subseteq Point
  <2>1. IsFiniteSet(pool.available) /\ pool.available \subseteq Point
    BY DEF Accounts, Typed, Pooled
  <2> QED
    BY <2>1, FS_Subset
<1>7. /\ driver'.input \in Seq(Point \cup {Missing})
      /\ Range(driver'.input) = picked \cup Range(extra)
  <2> DEFINE s == SetToSeq(picked)
  <2>1. s \in Seq(picked) /\ Range(s) = picked
    BY <1>6, SetToSeqRange
  <2>2. s \in Seq(Point \cup {Missing})
    <3>1. picked \subseteq Point \cup {Missing}
      BY <1>6
    <3> HIDE DEF s
    <3> QED
      BY <2>1, <3>1, SeqMonotonic
  <2>3. driver'.input = s \o extra
    BY <1>2
  <2> HIDE DEF s
  <2>4. s \o extra \in Seq(Point \cup {Missing}) /\ Range(s \o extra) = Range(s) \cup Range(extra)
    BY <2>2, RangeConcatenation
  <2> QED
    BY <2>1, <2>3, <2>4
<1>8. IsFiniteSet(pool'.available) /\ IsFiniteSet(pool'.pending)
  <2>1. pool'.available \in SUBSET pool.available /\ pool'.pending = picked
    BY <1>3, <1>4
  <2> QED
    BY <1>6, <2>1, FS_Subset
<1>9. Typed'
  BY <1>1, <1>2, <1>3, <1>5, <1>7, <1>8 DEF Accounts, Typed
<1>10. Beginning' /\ Building'
  BY <1>1, <1>2, <1>3, <1>4, <1>7 DEF Accounts, Beginning, Building
<1>11. Disjoint'
  BY <1>2, <1>3 DEF Accounts, Disjoint
<1>12. Born' /\ Older'
  BY <1>2, <1>5 DEF Accounts, Born, Older
<1> QED
  BY <1>9, <1>10, <1>11, <1>12 DEF Accounts

\* The four ways to take outputs.
LEMMA TakingSteps ==
  ASSUME Accounts, TakeGeneral \/ TakeMissing \/ TakeDupInTx \/ TakeDupInBlock
  PROVE  Accounts'
<1>1. At("take") /\ More
  BY DEF TakeGeneral, TakeMissing, TakeDupInTx, TakeDupInBlock, Taking
<1>2. << >> \in Seq(Point \cup {Missing}) /\ Range(<< >>) = {}
  BY DEF Range
<1>3. ASSUME NEW o \in Point \cup {Missing}
      PROVE  <<o>> \in Seq(Point \cup {Missing}) /\ Range(<<o>>) = {o}
  BY DEF Range
<1>4. Pooled \subseteq Point
  BY DEF Accounts, Typed
<1>5. CASE TakeGeneral
  BY <1>1, <1>2, <1>5, TakeStep DEF TakeGeneral, Picks
<1>6. CASE TakeMissing
  <2>1. PICK picked \in SUBSET pool.available : Take(picked, <<Missing>>)
    BY <1>6 DEF TakeMissing, Picks
  <2>2. <<Missing>> \in Seq(Point \cup {Missing}) /\ Range(<<Missing>>) = {Missing}
    BY <1>3
  <2> QED
    BY <1>1, <2>1, <2>2, TakeStep
<1>7. CASE TakeDupInTx
  <2>1. PICK picked \in SUBSET pool.available : \E dup \in picked : Take(picked, <<dup>>)
    BY <1>7 DEF TakeDupInTx, Picks
  <2>2. PICK dup \in picked : Take(picked, <<dup>>)
    BY <2>1
  <2>3. <<dup>> \in Seq(Point \cup {Missing}) /\ Range(<<dup>>) = {dup}
    BY <1>3, <1>4 DEF Pooled
  <2> QED
    BY <1>1, <2>2, <2>3, TakeStep
<1>8. CASE TakeDupInBlock
  <2>1. PICK conflict \in pool.spent :
          \E picked \in SUBSET pool.available : Take(picked, <<conflict>>)
    BY <1>8 DEF TakeDupInBlock, Picks
  <2>2. PICK picked \in SUBSET pool.available : Take(picked, <<conflict>>)
    BY <2>1
  <2>3. <<conflict>> \in Seq(Point \cup {Missing}) /\ Range(<<conflict>>) = {conflict}
    BY <1>3, <1>4 DEF Pooled
  <2> QED
    BY <1>1, <2>2, <2>3, TakeStep
<1> QED
  BY <1>5, <1>6, <1>7, <1>8

\* A transaction that cannot be built gives back what it took.
LEMMA RollbackStep ==
  ASSUME Accounts, NothingToTake \/ BuildFails
  PROVE  Accounts'
<1>1. UNCHANGED <<utxos, mempool>> /\ driver.pc \in {"take", "build"}
  BY DEF NothingToTake, BuildFails, At
<1>2. /\ DOMAIN driver' = DriverFields /\ driver'.pc = "take" /\ driver'.txs = driver.txs
      /\ driver'.n_total = driver.n_total /\ driver'.i = driver.i + 1
      /\ driver'.input \in {driver.input, << >>}
  BY DEF NothingToTake, BuildFails, At, Accounts, Typed, DriverFields
<1>3. /\ DOMAIN pool' = PoolFields /\ pool'.available = pool.available \cup pool.pending
      /\ pool'.pending = {} /\ pool'.spent = pool.spent
  BY DEF NothingToTake, BuildFails, rollback_pending, Accounts, Typed, PoolFields
<1>4. Pooled' = Pooled
  BY <1>3 DEF Pooled
<1>5. IsFiniteSet(pool'.available) /\ IsFiniteSet(pool'.pending)
  <2>1. IsFiniteSet(pool.available) /\ IsFiniteSet(pool.pending)
    BY DEF Accounts, Typed
  <2>2. IsFiniteSet(pool.available \cup pool.pending)
    BY <2>1, FS_Union
  <2> QED
    BY <1>3, <2>2, FS_EmptySet
<1>6. driver.i \in Nat \ {0} /\ driver.i + 1 \in Nat \ {0}
      /\ driver'.input \in Seq(Point \cup {Missing})
  <2>1. driver.i \in Nat \ {0} /\ driver.input \in Seq(Point \cup {Missing})
    BY DEF Accounts, Typed
  <2>2. << >> \in Seq(Point \cup {Missing})
    OBVIOUS
  <2>3. driver'.input \in Seq(Point \cup {Missing})
    BY <1>2, <2>1, <2>2
  <2>4. driver.i + 1 \in Nat \ {0}
    BY <2>1
  <2> QED
    BY <2>1, <2>3, <2>4
<1>7. Typed'
  BY <1>1, <1>2, <1>3, <1>4, <1>5, <1>6 DEF Accounts, Typed
<1>8. Beginning' /\ Building'
  <2>1. driver.n_total <= MaxTotal
    BY <1>1 DEF Accounts, Beginning
  <2> QED
    BY <1>2, <1>3, <2>1 DEF Beginning, Building
<1>9. Disjoint'
  <2>1. Disjoint
    BY DEF Accounts
  <2> QED
    BY <1>2, <1>3, <2>1 DEF Disjoint
<1>10. Born'
  BY <1>2, <1>4 DEF Accounts, Born
<1>11. Older'
  <2> SUFFICES ASSUME NEW o \in (Inputs(driver.txs) \cup Made(driver.txs)) \cap RawPoint
               PROVE  o[1] < driver.i + 1
    BY <1>2 DEF Older
  <2>1. o[1] < driver.i /\ o[1] \in Int
    BY DEF Accounts, Older, RawPoint
  <2> QED
    BY <1>6, <2>1
<1> QED
  BY <1>7, <1>8, <1>9, <1>10, <1>11 DEF Accounts

-----------------------------------------------------------------------------
\* A raw transaction goes into the block: its inputs are spent and its outputs
\* are available.
LEMMA BuildStep ==
  ASSUME Accounts, BuildSucceeds
  PROVE  Accounts'
<1>1. /\ UNCHANGED <<utxos, mempool>> /\ driver.pc = "build"
      /\ DOMAIN driver = DriverFields /\ DOMAIN pool = PoolFields
      /\ driver.txs \in Seq(Tx) /\ driver.input \in Seq(Point \cup {Missing})
      /\ driver.i \in 1 .. MaxTotal /\ driver.n_total \in Nat
  BY InvalidBlocksAssumption DEF BuildSucceeds, At, Accounts, Typed, Beginning, Building
<1>2. PICK n \in 1 .. MAX_OUTPUTS, pos \in 1 .. Len(driver.txs) + 1 :
        LET tx == [id |-> driver.i, input |-> driver.input, outputs |-> n,
                   damaged |-> kind = "BadSignature"]
        IN  /\ driver' = [driver EXCEPT !.pc = "take", !.i = @ + 1, !.input = << >>,
                                        !.txs = InsertAt(@, pos, tx),
                                        !.applied = now_applied]
            /\ pool' = add_outputs(commit_pending(pool), tx)
  <2>1. \A p : (IF p THEN {Len(driver.txs) + 1} ELSE 1 .. Len(driver.txs) + 1)
                  \subseteq 1 .. Len(driver.txs) + 1
    BY <1>1
  <2> QED
    BY <2>1 DEF BuildSucceeds
<1> DEFINE tx == [id |-> driver.i, input |-> driver.input, outputs |-> n,
                  damaged |-> kind = "BadSignature"]
<1>3. /\ tx \in Tx /\ tx.id = driver.i /\ tx.input = driver.input
      /\ Outputs(tx) = {driver.i} \X (0 .. n - 1)
  BY <1>1, InvalidBlocksAssumption DEF Tx, Outputs
<1>4. /\ DOMAIN driver' = DriverFields /\ driver'.pc = "take"
      /\ driver'.txs = InsertAt(driver.txs, pos, tx)
      /\ driver'.n_total = driver.n_total /\ driver'.i = driver.i + 1
      /\ driver'.input = << >>
  BY <1>1, <1>2 DEF DriverFields
<1>5. /\ DOMAIN pool' = PoolFields /\ pool'.available = pool.available \cup Outputs(tx)
      /\ pool'.pending = {} /\ pool'.spent = pool.spent \cup pool.pending
  BY <1>1, <1>2 DEF add_outputs, commit_pending, PoolFields
<1> HIDE DEF tx
<1>6. /\ driver'.txs \in Seq(Tx)
      /\ Range(driver'.txs) = Range(driver.txs) \cup {tx}
  BY <1>1, <1>3, <1>4, InsertAtRange
<1>7. /\ \A txs : Inputs(txs) = UNION {Range(t.input) : t \in Range(txs)}
      /\ \A txs : Made(txs) = UNION {Outputs(t) : t \in Range(txs)}
  BY DEF Inputs, Made, Range
<1>8. /\ Inputs(driver'.txs) = Inputs(driver.txs) \cup Range(driver.input)
      /\ Made(driver'.txs) = Made(driver.txs) \cup Outputs(tx)
  BY <1>3, <1>6, <1>7
<1>9. Outputs(tx) \subseteq RawPoint /\ \A o \in Outputs(tx) : o[1] = driver.i
      /\ IsFiniteSet(Outputs(tx))
  <2>1. Outputs(tx) \subseteq RawPoint /\ \A o \in Outputs(tx) : o[1] = driver.i
    BY <1>1, <1>3 DEF RawPoint
  <2>2. IsFiniteSet({driver.i}) /\ IsFiniteSet(0 .. n - 1)
    <3>1. 0 \in Int /\ n - 1 \in Int
      OBVIOUS
    <3> QED
      BY <3>1, FS_Singleton, FS_Interval
  <2> QED
    BY <1>3, <2>1, <2>2, FS_Product
<1>10. /\ Range(driver.input) \subseteq pool.pending \cup pool.spent \cup {Missing}
       /\ pool.pending \subseteq Range(driver.input)
       /\ pool.available \subseteq Point /\ pool.pending \subseteq Point
       /\ pool.spent \subseteq Point /\ Missing \notin Point
  BY <1>1, MissingIsNoPoint DEF Accounts, Building, Typed, Pooled
<1>11. RawPoint \subseteq Point /\ Pooled' = Pooled \cup Outputs(tx)
  BY <1>5 DEF RawPoint, Point, Pooled
<1>12. \A o \in (Pooled \cup Inputs(driver.txs) \cup Made(driver.txs)) \cap RawPoint :
         o[1] < driver.i
  BY DEF Accounts, Born, Older
<1>13. Outputs(tx) \cap (Pooled \cup Inputs(driver.txs)) = {}
  <2>1. ASSUME NEW o \in Outputs(tx), o \in Pooled \cup Inputs(driver.txs) PROVE FALSE
    <3>1. o \in RawPoint /\ o[1] = driver.i
      BY <1>9
    <3>2. o[1] < driver.i
      BY <1>12, <2>1, <3>1
    <3> QED
      BY <1>1, <3>1, <3>2
  <2> QED
    BY <2>1
<1>14. Typed'
  <2>1. IsFiniteSet(pool'.available) /\ IsFiniteSet(pool'.pending)
    <3>1. IsFiniteSet(pool.available)
      BY DEF Accounts, Typed
    <3>2. IsFiniteSet(pool.available \cup Outputs(tx))
      BY <1>9, <3>1, FS_Union
    <3> QED
      BY <1>5, <3>2, FS_EmptySet
  <2>2. Pooled' \subseteq Point
    BY <1>9, <1>11 DEF Accounts, Typed
  <2>3. << >> \in Seq(Point \cup {Missing}) /\ driver.i + 1 \in Nat \ {0}
    BY <1>1, InvalidBlocksAssumption
  <2> QED
    BY <1>1, <1>4, <1>5, <1>6, <2>1, <2>2, <2>3 DEF Accounts, Typed
<1>15. Beginning' /\ Building'
  <2>1. driver.n_total <= MaxTotal
    BY <1>1 DEF Accounts, Beginning
  <2> QED
    BY <1>4, <1>5, <2>1 DEF Beginning, Building
<1>16. Disjoint'
  <2>1. /\ pool.available \cap (pool.pending \cup pool.spent) = {}
        /\ pool.pending \cap pool.spent = {}
        /\ (pool.available \cup pool.pending) \cap Inputs(driver.txs) = {}
        /\ pool.spent \subseteq Inputs(driver.txs)
    BY DEF Accounts, Disjoint
  <2>2. Outputs(tx) \cap (pool.pending \cup pool.spent) = {} /\ Missing \notin Outputs(tx)
    BY <1>9, <1>10, <1>11, <1>13 DEF Pooled
  <2>3. pool'.available \cap (pool'.pending \cup pool'.spent) = {}
        /\ pool'.pending \cap pool'.spent = {}
    BY <1>5, <2>1, <2>2
  <2>4. (pool'.available \cup pool'.pending) \cap Inputs(driver'.txs) = {}
    BY <1>5, <1>8, <1>10, <1>13, <2>1, <2>2
  <2>5. pool'.spent \subseteq Inputs(driver'.txs)
    BY <1>5, <1>8, <1>10, <2>1
  <2> QED
    BY <2>3, <2>4, <2>5 DEF Disjoint
<1>17. Born'
  BY <1>8, <1>11 DEF Accounts, Born
<1>18. Older'
  <2> SUFFICES ASSUME NEW o \in (Inputs(driver'.txs) \cup Made(driver'.txs)) \cap RawPoint
               PROVE  o[1] < driver.i + 1
    BY <1>4 DEF Older
  <2>1. o[1] \in Int
    BY DEF RawPoint
  <2>2. CASE o \in Outputs(tx)
    BY <1>1, <1>9, <2>2
  <2>3. CASE o \in Inputs(driver.txs) \cup Made(driver.txs)
    BY <1>1, <1>12, <2>1, <2>3
  <2>4. CASE o \in Range(driver.input)
    <3>1. o \in Pooled
      BY <1>10, <1>11, <2>4 DEF Pooled
    <3> QED
      BY <1>1, <1>12, <2>1, <3>1
  <2> QED
    BY <1>8, <2>2, <2>3, <2>4
<1> QED
  BY <1>14, <1>15, <1>16, <1>17, <1>18 DEF Accounts

\* The block is handed in, or somebody else's block confirms a transaction.
LEMMA OtherSteps ==
  ASSUME Accounts, GenerateBlock \/ MinedElsewhere
  PROVE  Accounts'
<1>1. CASE GenerateBlock
  <2>1. UNCHANGED <<utxos, mempool, pool>> /\ driver.pc = "take"
    BY <1>1 DEF GenerateBlock, At
  <2>2. /\ DOMAIN driver' = DriverFields /\ driver'.pc = "done" /\ driver'.txs = driver.txs
        /\ driver'.n_total = driver.n_total /\ driver'.i = driver.i
        /\ driver'.input = driver.input
    BY <1>1 DEF GenerateBlock, Accounts, Typed, DriverFields
  <2>3. Pooled' = Pooled /\ pool' = pool
    BY <2>1 DEF Pooled
  <2> QED
    BY <2>1, <2>2, <2>3 DEF Accounts, Typed, Beginning, Building, Disjoint, Born, Older
<1>2. CASE MinedElsewhere
  <2>1. /\ UNCHANGED <<driver, pool>> /\ mempool # << >>
        /\ utxos' = (utxos \ Range(Head(mempool).input)) \cup Outputs(Head(mempool))
        /\ mempool' = Tail(mempool)
    BY <1>2 DEF MinedElsewhere
  <2>2. mempool \in Seq(OtherTx) /\ IsFiniteSet(utxos) /\ utxos \subseteq OtherPoint
    BY DEF Accounts, Typed
  <2>3. Head(mempool) \in OtherTx /\ mempool' \in Seq(OtherTx)
    BY <2>1, <2>2
  <2> DEFINE tx == Head(mempool)
  <2>4. tx.id \in OtherIds /\ tx.outputs \in Nat
    BY <2>3 DEF OtherTx
  <2>5. Outputs(tx) \subseteq OtherPoint /\ IsFiniteSet(Outputs(tx))
    <3> HIDE DEF tx
    <3>1. 0 \in Int /\ tx.outputs - 1 \in Int
      BY <2>4
    <3>2. IsFiniteSet({tx.id}) /\ IsFiniteSet(0 .. tx.outputs - 1)
      BY <3>1, FS_Singleton, FS_Interval
    <3> QED
      BY <2>4, <3>2, FS_Product DEF Outputs, OtherPoint
  <2>6. IsFiniteSet(utxos') /\ utxos' \subseteq OtherPoint
    <3>1. IsFiniteSet(utxos \ Range(tx.input))
      BY <2>2, FS_Subset
    <3> QED
      BY <2>1, <2>2, <2>5, <3>1, FS_Union
  <2>7. Pooled' = Pooled
    BY <2>1 DEF Pooled
  <2> QED
    BY <2>1, <2>3, <2>6, <2>7
    DEF Accounts, Typed, Beginning, Building, Disjoint, Born, Older
<1> QED
  BY <1>1, <1>2

-----------------------------------------------------------------------------
\* The invariant says of every raw output what the accounting says.
LEMMA AccountsMeanAccounting == Accounts => PoolAccounting
<1> SUFFICES ASSUME Accounts PROVE PoolAccounting
  OBVIOUS
<1>1. ASSUME NEW id \in 1 .. MaxTotal, NEW vout \in 0 .. MAX_OUTPUTS - 1
      PROVE  <<id, vout>> \in Pooled <=> \E k \in Raw : <<id, vout>> \in Outputs(driver.txs[k])
  <2>1. <<id, vout>> \in RawPoint
    BY DEF RawPoint
  <2>2. <<id, vout>> \in Pooled <=>
          \E k \in DOMAIN driver.txs : <<id, vout>> \in Outputs(driver.txs[k])
    BY <2>1 DEF Accounts, Born, Made
  <2>3. \A k \in DOMAIN driver.txs :
          <<id, vout>> \in Outputs(driver.txs[k]) => k \in Raw
    BY DEF Outputs, Raw
  <2> QED
    BY <2>2, <2>3 DEF Raw
<1> QED
  BY <1>1 DEF Accounts, Disjoint, Pooled, PoolAccounting

\* The accounts are always right.
LEMMA AccountsInvariant == InvalidSpec => []Accounts
<1>1. InvalidInit => Accounts
  BY AccountsInit
<1>2. Accounts /\ [InvalidNext]_invalid_vars => Accounts'
  <2> SUFFICES ASSUME Accounts, [InvalidNext]_invalid_vars PROVE Accounts'
    OBVIOUS
  <2>1. CASE UNCHANGED invalid_vars
    BY <2>1 DEF invalid_vars, Accounts, Typed, Pooled, Beginning, Building, Disjoint, Born,
                Older
  <2>2. CASE InvalidNext
    BY <2>2, PickStep, ListStep, TakingSteps, RollbackStep, BuildStep, OtherSteps
    DEF InvalidNext
  <2> QED
    BY <2>1, <2>2
<1> QED
  BY <1>1, <1>2, PTL DEF InvalidSpec

\* For any wallet, any mempool and any number of transactions per block,
\* whichever of them fail and whatever is mined meanwhile: no output is lost
\* and none is offered twice, and what counts as spent is spent by the block.
THEOREM PoolIsAccountedFor == InvalidSpec => []PoolAccounting
BY AccountsInvariant, AccountsMeanAccounting, PTL

-----------------------------------------------------------------------------
\* The invalid-block driver: what it corrupts is rejected, what it does not is
\* not.

Share(txs, j, k) == j # k /\ Range(txs[j].input) \cap Range(txs[k].input) # {}

\* No node accepts these transactions, whatever is unspent.
Flawed(txs) ==
  \E k \in DOMAIN txs :
    \/ txs[k].damaged
    \/ ~ IsInjective(txs[k].input)
    \/ Missing \in Range(txs[k].input)
    \/ \E j \in DOMAIN txs : Share(txs, j, k)

\* What is wrong with the transaction under construction, and what is not.
Built ==
  driver.pc = "build" =>
    /\ kind \in {"None", "BadSignature"} =>
         IsInjective(driver.input) /\ Range(driver.input) = pool.pending
    /\ kind = "MissingInput" => Missing \in Range(driver.input)
    /\ kind = "DupInputInTx" => ~ IsInjective(driver.input)
    /\ kind = "DupInputInBlock" => Range(driver.input) \cap pool.spent # {}

\* A violation that went into the block stays in it.
Corrupted ==
  /\ driver.candidate \in Corruption /\ driver.applied \in Corruption
  /\ driver.pc \in {"template", "unspent"} => driver.applied = "None"
  /\ driver.applied # "None" => Flawed(driver.txs)

\* Where the outputs of the pool come from.
Sourced ==
  \A o \in pool.available \cup pool.pending :
    o \in utxos \/ (o \in Made(driver.txs) /\ o[1] \in pool.intra_block_txids)

\* As long as nothing was mined elsewhere, a block without a violation could be
\* handed in at any time.
Sound ==
  confirmations = 0 =>
    /\ utxos = Confirmed /\ mempool = Mempool
    /\ \A k \in DOMAIN driver.txs : Known(driver.txs[k])
    /\ driver.applied = "None" => ConsensusValid(utxos, driver.txs)
    /\ Sourced

Verdicts ==
  /\ confirmations \in Nat
  /\ Built /\ Corrupted /\ Sound /\ RejectedIfCorrupted
  /\ driver.pc # "done" => driver.accepted = FALSE

-----------------------------------------------------------------------------
\* Where the elements of a sequence go when one is inserted at pos.
Place(pos, k) == IF k < pos THEN k ELSE k + 1

LEMMA Places ==
  ASSUME NEW n \in Nat, NEW pos \in 1 .. n + 1
  PROVE  /\ \A k \in 1 .. n : Place(pos, k) \in 1 .. n + 1 /\ Place(pos, k) # pos
         /\ \A m \in 1 .. n + 1 : m = pos \/ \E k \in 1 .. n : m = Place(pos, k)
         /\ \A j, k \in 1 .. n : Place(pos, j) < Place(pos, k) <=> j < k
         /\ \A k \in 1 .. n : pos < Place(pos, k) <=> pos <= k
<1>1. \A k \in 1 .. n : Place(pos, k) \in 1 .. n + 1 /\ Place(pos, k) # pos
  BY DEF Place
<1>2. ASSUME NEW m \in 1 .. n + 1, m # pos
      PROVE  \E k \in 1 .. n : m = Place(pos, k)
  <2>1. CASE m < pos
    <3>1. m \in 1 .. n /\ m = Place(pos, m)
      BY <2>1 DEF Place
    <3> QED
      BY <3>1
  <2>2. CASE m > pos
    <3>1. m - 1 \in 1 .. n /\ m = Place(pos, m - 1)
      BY <2>2 DEF Place
    <3> QED
      BY <3>1
  <2> QED
    BY <1>2, <2>1, <2>2
<1>3. \A j, k \in 1 .. n : Place(pos, j) < Place(pos, k) <=> j < k
  BY DEF Place
<1>4. \A k \in 1 .. n : pos < Place(pos, k) <=> pos <= k
  BY DEF Place
<1> QED
  BY <1>1, <1>2, <1>3, <1>4

LEMMA InsertAtElements ==
  ASSUME NEW S, NEW s \in Seq(S), NEW e \in S, NEW pos \in 1 .. Len(s) + 1
  PROVE  LET t == InsertAt(s, pos, e) IN
         /\ DOMAIN t = 1 .. Len(s) + 1 /\ t[pos] = e
         /\ \A k \in 1 .. Len(s) : t[Place(pos, k)] = s[k]
<1> DEFINE front == SubSeq(s, 1, pos - 1)
           back == SubSeq(s, pos, Len(s))
           t == InsertAt(s, pos, e)
<1>1. Len(s) \in Nat /\ pos \in Nat \ {0} /\ pos - 1 \in 0 .. Len(s) /\ Len(s) \in 0 .. Len(s)
      /\ 1 \in Nat \ {0}
  OBVIOUS
<1>2. /\ front \in Seq(S) /\ Len(front) = pos - 1
      /\ \A k \in 1 .. pos - 1 : front[k] = s[k]
  <2>1. /\ front \in Seq(S) /\ Len(front) = IF 1 <= pos - 1 THEN pos - 1 - 1 + 1 ELSE 0
        /\ \A k \in 1 .. pos - 1 - 1 + 1 : front[k] = s[1 + k - 1]
    BY <1>1, PrefixType
  <2> HIDE DEF front
  <2> QED
    BY <1>1, <2>1
<1>3. /\ back \in Seq(S) /\ Len(back) = Len(s) - pos + 1
      /\ \A k \in 1 .. Len(s) - pos + 1 : back[k] = s[pos + k - 1]
  <2>1. /\ back \in Seq(S) /\ Len(back) = IF pos <= Len(s) THEN Len(s) - pos + 1 ELSE 0
        /\ \A k \in 1 .. Len(s) - pos + 1 : back[k] = s[pos + k - 1]
    BY <1>1, PrefixType
  <2> HIDE DEF back
  <2> QED
    BY <1>1, <2>1
<1> DEFINE new_one == <<e>>
           start == front \o new_one
<1>4. t = start \o back
  BY DEF InsertAt
<1> HIDE DEF front, back, t
<1>5. new_one \in Seq(S) /\ Len(new_one) = 1 /\ new_one[1] = e
  OBVIOUS
<1> HIDE DEF new_one
<1>6. /\ start \in Seq(S) /\ Len(start) = pos
      /\ \A k \in 1 .. pos : start[k] = IF k <= pos - 1 THEN front[k] ELSE new_one[k - (pos - 1)]
  <2>1. /\ start \in Seq(S) /\ Len(start) = Len(front) + Len(new_one)
        /\ \A k \in 1 .. Len(front) + Len(new_one) :
             start[k] = IF k <= Len(front) THEN front[k] ELSE new_one[k - Len(front)]
    BY <1>2, <1>5, ConcatProperties
  <2>2. Len(front) + Len(new_one) = pos
    BY <1>1, <1>2, <1>5
  <2> HIDE DEF start
  <2> QED
    BY <1>2, <2>1, <2>2
<1> HIDE DEF start
<1>7. /\ t \in Seq(S) /\ Len(t) = Len(s) + 1
      /\ \A k \in 1 .. Len(s) + 1 : t[k] = IF k <= pos THEN start[k] ELSE back[k - pos]
  <2>1. /\ t \in Seq(S) /\ Len(t) = Len(start) + Len(back)
        /\ \A k \in 1 .. Len(start) + Len(back) :
             t[k] = IF k <= Len(start) THEN start[k] ELSE back[k - Len(start)]
    BY <1>3, <1>4, <1>6, ConcatProperties
  <2>2. Len(start) + Len(back) = Len(s) + 1
    BY <1>1, <1>3, <1>6
  <2> QED
    BY <1>6, <2>1, <2>2
<1>8. DOMAIN t = 1 .. Len(s) + 1
  BY <1>7
<1>9. t[pos] = e
  <2>1. t[pos] = start[pos] /\ start[pos] = new_one[pos - (pos - 1)]
    BY <1>1, <1>6, <1>7
  <2>2. pos - (pos - 1) = 1
    BY <1>1
  <2> QED
    BY <1>5, <2>1, <2>2
<1>10. ASSUME NEW k \in 1 .. Len(s) PROVE t[Place(pos, k)] = s[k]
  <2>1. CASE k < pos
    <3>1. k \in 1 .. pos - 1 /\ k \in 1 .. pos /\ k \in 1 .. Len(s) + 1 /\ k <= pos
          /\ k <= pos - 1
      BY <1>1, <2>1
    <3>2. t[k] = start[k] /\ start[k] = front[k] /\ front[k] = s[k]
      BY <1>2, <1>6, <1>7, <3>1
    <3> QED
      BY <2>1, <3>2 DEF Place
  <2>2. CASE ~ (k < pos)
    <3> DEFINE j == k + 1 - pos
    <3>1. /\ j \in 1 .. Len(s) - pos + 1 /\ pos + j - 1 = k /\ k + 1 - pos = j
          /\ k + 1 \in 1 .. Len(s) + 1 /\ ~ (k + 1 <= pos)
      BY <1>1, <2>2
    <3> HIDE DEF j
    <3>2. t[k + 1] = back[j] /\ back[j] = s[k]
      BY <1>3, <1>7, <3>1
    <3> QED
      BY <2>2, <3>2 DEF Place
  <2> QED
    BY <2>1, <2>2
<1> QED
  BY <1>8, <1>9, <1>10 DEF t

-----------------------------------------------------------------------------
\* A flaw cannot be made good by what is unspent.
LEMMA FlawedIsInvalid ==
  ASSUME NEW txs \in Seq(Tx), NEW unspent, unspent \subseteq Point, Flawed(txs)
  PROVE  ~ ConsensusValid(unspent, txs)
<1> SUFFICES ASSUME ConsensusValid(unspent, txs) PROVE FALSE
  OBVIOUS
<1>1. DOMAIN txs = 1 .. Len(txs) /\ \A k \in DOMAIN txs : txs[k] \in Tx
  OBVIOUS
<1>2. PICK k \in DOMAIN txs : \/ txs[k].damaged
                              \/ ~ IsInjective(txs[k].input)
                              \/ Missing \in Range(txs[k].input)
                              \/ \E j \in DOMAIN txs : Share(txs, j, k)
  BY DEF Flawed
<1>3. /\ ~ txs[k].damaged /\ IsInjective(txs[k].input)
      /\ \A o \in Range(txs[k].input) :
           o \in unspent \/ \E j \in 1 .. k - 1 : o \in Outputs(txs[j])
  BY DEF ConsensusValid
<1>4. CASE Missing \in Range(txs[k].input)
  <2>1. Missing \notin unspent
    BY MissingIsNoPoint
  <2>2. PICK j \in 1 .. k - 1 : Missing \in Outputs(txs[j])
    BY <1>3, <1>4, <2>1
  <2>3. j \in DOMAIN txs
    BY <1>1
  <2>4. txs[j].id \in Nat
    BY <1>1, <2>3 DEF Tx
  <2> QED
    BY <2>2, <2>4 DEF Outputs, Missing
<1>5. ASSUME NEW i \in DOMAIN txs, NEW j \in DOMAIN txs, i < j,
             Range(txs[i].input) \cap Range(txs[j].input) # {}
      PROVE  FALSE
  <2>1. i \in 1 .. j - 1
    BY <1>1, <1>5
  <2> QED
    BY <1>5, <2>1 DEF ConsensusValid
<1>6. ASSUME NEW j \in DOMAIN txs, Share(txs, j, k) PROVE FALSE
  <2>1. j < k \/ k < j
    BY <1>1, <1>6 DEF Share
  <2> QED
    BY <1>5, <1>6, <2>1 DEF Share
<1> QED
  BY <1>2, <1>3, <1>4, <1>6, Zenon

\* A flaw is not inserted away.
LEMMA FlawStays ==
  ASSUME NEW txs \in Seq(Tx), NEW tx \in Tx, NEW pos \in 1 .. Len(txs) + 1, Flawed(txs)
  PROVE  Flawed(InsertAt(txs, pos, tx))
<1> DEFINE t == InsertAt(txs, pos, tx)
<1>1. /\ DOMAIN t = 1 .. Len(txs) + 1 /\ DOMAIN txs = 1 .. Len(txs) /\ Len(txs) \in Nat
      /\ \A k \in 1 .. Len(txs) : t[Place(pos, k)] = txs[k]
  BY InsertAtElements
<1>2. /\ \A k \in 1 .. Len(txs) : Place(pos, k) \in 1 .. Len(txs) + 1
      /\ \A j, k \in 1 .. Len(txs) : Place(pos, j) < Place(pos, k) <=> j < k
  BY <1>1, Places
<1> HIDE DEF t
<1>3. PICK k \in DOMAIN txs : \/ txs[k].damaged
                              \/ ~ IsInjective(txs[k].input)
                              \/ Missing \in Range(txs[k].input)
                              \/ \E j \in DOMAIN txs : Share(txs, j, k)
  BY DEF Flawed
<1>4. Place(pos, k) \in DOMAIN t /\ t[Place(pos, k)] = txs[k]
  BY <1>1, <1>2
<1>5. ASSUME NEW j \in DOMAIN txs, Share(txs, j, k)
      PROVE  Place(pos, j) \in DOMAIN t /\ Share(t, Place(pos, j), Place(pos, k))
  <2>1. Place(pos, j) \in DOMAIN t /\ t[Place(pos, j)] = txs[j]
    BY <1>1, <1>2
  <2>2. j < k \/ k < j
    BY <1>1, <1>5 DEF Share
  <2>3. Place(pos, j) # Place(pos, k)
    <3>1. \A x \in 1 .. Len(txs) : Place(pos, x) \in Int
      BY <1>1, <1>2
    <3>2. Place(pos, j) < Place(pos, k) \/ Place(pos, k) < Place(pos, j)
      BY <1>1, <1>2, <2>2
    <3> QED
      BY <1>1, <3>1, <3>2
  <2> QED
    BY <1>4, <1>5, <2>1, <2>3 DEF Share
<1>6. Flawed(t)
  BY <1>3, <1>4, <1>5 DEF Flawed
<1> QED
  BY <1>6 DEF t

\* Neither is the one of the transaction that is inserted.
LEMMA FlawAdded ==
  ASSUME NEW txs \in Seq(Tx), NEW tx \in Tx, NEW pos \in 1 .. Len(txs) + 1,
         \/ tx.damaged
         \/ ~ IsInjective(tx.input)
         \/ Missing \in Range(tx.input)
         \/ Range(tx.input) \cap Inputs(txs) # {}
  PROVE  Flawed(InsertAt(txs, pos, tx))
<1> DEFINE t == InsertAt(txs, pos, tx)
<1>1. /\ DOMAIN t = 1 .. Len(txs) + 1 /\ DOMAIN txs = 1 .. Len(txs) /\ Len(txs) \in Nat
      /\ \A k \in 1 .. Len(txs) : t[Place(pos, k)] = txs[k]
      /\ t[pos] = tx
  BY InsertAtElements
<1>2. \A k \in 1 .. Len(txs) : Place(pos, k) \in 1 .. Len(txs) + 1 /\ Place(pos, k) # pos
  BY <1>1, Places
<1> HIDE DEF t
<1>3. pos \in DOMAIN t
  BY <1>1
<1>4. ASSUME Range(tx.input) \cap Inputs(txs) # {}
      PROVE  \E j \in DOMAIN t : Share(t, j, pos)
  <2>1. PICK k \in DOMAIN txs : Range(tx.input) \cap Range(txs[k].input) # {}
    BY <1>4 DEF Inputs
  <2>2. Place(pos, k) \in DOMAIN t /\ t[Place(pos, k)] = txs[k] /\ Place(pos, k) # pos
    BY <1>1, <1>2
  <2> QED
    BY <1>1, <2>1, <2>2 DEF Share
<1>5. Flawed(t)
  BY <1>1, <1>3, <1>4 DEF Flawed
<1> QED
  BY <1>5 DEF t

\* A transaction that spends what is unspent can go anywhere, one that spends
\* what the block makes to its end.
LEMMA ValidInsert ==
  ASSUME NEW txs \in Seq(Tx), NEW tx \in Tx, NEW pos \in 1 .. Len(txs) + 1, NEW unspent,
         ConsensusValid(unspent, txs), ~ tx.damaged, IsInjective(tx.input),
         Range(tx.input) \cap Inputs(txs) = {},
         \A o \in Range(tx.input) : o \in unspent \/ (pos = Len(txs) + 1 /\ o \in Made(txs))
  PROVE  ConsensusValid(unspent, InsertAt(txs, pos, tx))
<1> DEFINE t == InsertAt(txs, pos, tx)
<1>1. /\ DOMAIN t = 1 .. Len(txs) + 1 /\ DOMAIN txs = 1 .. Len(txs) /\ Len(txs) \in Nat
      /\ \A k \in 1 .. Len(txs) : t[Place(pos, k)] = txs[k]
      /\ t[pos] = tx
  BY InsertAtElements
<1>2. /\ \A k \in 1 .. Len(txs) : Place(pos, k) \in 1 .. Len(txs) + 1 /\ Place(pos, k) # pos
      /\ \A m \in 1 .. Len(txs) + 1 : m = pos \/ \E k \in 1 .. Len(txs) : m = Place(pos, k)
      /\ \A j, k \in 1 .. Len(txs) : Place(pos, j) < Place(pos, k) <=> j < k
  BY <1>1, Places
<1> HIDE DEF t
<1> DEFINE n == Len(txs)
<1>3. pos \in 1 .. n + 1 /\ pos \in Int /\ n \in Nat
  BY <1>1
<1>4. \A k \in 1 .. n : Range(tx.input) \cap Range(txs[k].input) = {}
  BY <1>1 DEF Inputs
<1> HIDE DEF n
<1>5. ASSUME NEW j \in 1 .. n + 1, NEW m \in 1 .. n + 1, j < m
      PROVE  Range(t[j].input) \cap Range(t[m].input) = {}
  <2>1. CASE j = pos
    <3>1. m # pos
      BY <1>3, <1>5, <2>1
    <3>2. PICK k \in 1 .. n : m = Place(pos, k)
      BY <1>2, <3>1 DEF n
    <3> QED
      BY <1>1, <1>4, <2>1, <3>2 DEF n
  <2>2. CASE m = pos
    <3>1. j # pos
      BY <1>3, <1>5, <2>2
    <3>2. PICK k \in 1 .. n : j = Place(pos, k)
      BY <1>2, <3>1 DEF n
    <3> QED
      BY <1>1, <1>4, <2>2, <3>2 DEF n
  <2>3. CASE j # pos /\ m # pos
    <3>1. PICK i \in 1 .. n : j = Place(pos, i)
      BY <1>2, <2>3 DEF n
    <3>2. PICK k \in 1 .. n : m = Place(pos, k)
      BY <1>2, <2>3 DEF n
    <3>3. i < k
      BY <1>2, <1>5, <3>1, <3>2 DEF n
    <3>4. i \in 1 .. k - 1
      BY <1>3, <3>3
    <3>5. Range(txs[i].input) \cap Range(txs[k].input) = {}
      BY <1>1, <3>4 DEF ConsensusValid, n
    <3> QED
      BY <1>1, <3>1, <3>2, <3>5 DEF n
  <2> QED
    BY <2>1, <2>2, <2>3
<1>6. ASSUME NEW m \in 1 .. n + 1, NEW o \in Range(t[m].input), o \notin unspent
      PROVE  \E j \in 1 .. m - 1 : o \in Outputs(t[j])
  <2>1. PICK i \in 1 .. n : Place(pos, i) < m /\ o \in Outputs(txs[i])
    <3>1. CASE m = pos
      <4>1. pos = n + 1 /\ o \in Made(txs)
        BY <1>1, <1>6, <3>1 DEF n
      <4>2. PICK i \in 1 .. n : o \in Outputs(txs[i])
        BY <1>1, <4>1 DEF Made, n
      <4>3. Place(pos, i) \in 1 .. n + 1 /\ Place(pos, i) # pos
        BY <1>2 DEF n
      <4>4. Place(pos, i) < m
        BY <1>3, <3>1, <4>1, <4>3
      <4> QED
        BY <4>2, <4>4
    <3>2. CASE m # pos
      <4>1. PICK k \in 1 .. n : m = Place(pos, k)
        BY <1>2, <3>2 DEF n
      <4>2. o \in Range(txs[k].input)
        BY <1>1, <4>1 DEF n
      <4>3. PICK i \in 1 .. k - 1 : o \in Outputs(txs[i])
        BY <1>1, <1>6, <4>2 DEF ConsensusValid, n
      <4>4. i \in 1 .. n /\ i < k
        BY <1>3
      <4>5. Place(pos, i) < m
        BY <1>2, <4>1, <4>4 DEF n
      <4> QED
        BY <4>3, <4>4, <4>5
    <3> QED
      BY <3>1, <3>2
  <2>2. Place(pos, i) \in 1 .. n + 1 /\ t[Place(pos, i)] = txs[i]
    BY <1>1, <1>2 DEF n
  <2>3. Place(pos, i) \in 1 .. m - 1
    BY <1>3, <2>1, <2>2
  <2> QED
    BY <2>1, <2>2, <2>3
<1>7. ASSUME NEW m \in 1 .. n + 1 PROVE ~ t[m].damaged /\ IsInjective(t[m].input)
  <2>1. CASE m = pos
    BY <1>1, <2>1
  <2>2. CASE m # pos
    <3>1. PICK k \in 1 .. n : m = Place(pos, k)
      BY <1>2, <2>2 DEF n
    <3>2. ~ txs[k].damaged /\ IsInjective(txs[k].input)
      BY <1>1 DEF ConsensusValid, n
    <3> QED
      BY <1>1, <3>1, <3>2 DEF n
  <2> QED
    BY <2>1, <2>2
<1>8. ASSUME NEW m \in DOMAIN t
      PROVE  /\ ~ t[m].damaged /\ IsInjective(t[m].input)
             /\ \A j \in 1 .. m - 1 : Range(t[j].input) \cap Range(t[m].input) = {}
             /\ \A o \in Range(t[m].input) :
                  o \in unspent \/ \E j \in 1 .. m - 1 : o \in Outputs(t[j])
  <2>1. m \in 1 .. n + 1
    BY <1>1 DEF n
  <2>2. \A j \in 1 .. m - 1 : j \in 1 .. n + 1 /\ j < m
    BY <1>3, <2>1
  <2> QED
    BY <1>5, <1>6, <1>7, <2>1, <2>2
<1>9. ConsensusValid(unspent, t)
  BY <1>8 DEF ConsensusValid
<1> QED
  BY <1>9 DEF t

-----------------------------------------------------------------------------
\* What a prefix of the mempool leaves out only stands further down.
LEMMA PrefixValid ==
  ASSUME NEW txs \in Seq(Tx), NEW n \in 0 .. Len(txs), NEW unspent,
         ConsensusValid(unspent, txs)
  PROVE  /\ ConsensusValid(unspent, SubSeq(txs, 1, n))
         /\ \A k \in DOMAIN SubSeq(txs, 1, n) :
              k \in DOMAIN txs /\ SubSeq(txs, 1, n)[k] = txs[k]
<1> DEFINE t == SubSeq(txs, 1, n)
<1>1. Len(txs) \in Nat /\ 1 \in Nat \ {0} /\ n \in Nat
  OBVIOUS
<1>2. /\ t \in Seq(Tx) /\ Len(t) = IF 1 <= n THEN n - 1 + 1 ELSE 0
      /\ \A k \in 1 .. n - 1 + 1 : t[k] = txs[1 + k - 1]
  BY <1>1, PrefixType
<1> HIDE DEF t
<1>3. Len(t) = n /\ \A k \in 1 .. n : t[k] = txs[k]
  BY <1>1, <1>2
<1>4. DOMAIN t = 1 .. n
  BY <1>2, <1>3
<1>5. \A k \in 1 .. n : k \in DOMAIN txs
  BY <1>1
<1>6. ASSUME NEW k \in 1 .. n
      PROVE  /\ ~ t[k].damaged /\ IsInjective(t[k].input)
             /\ \A j \in 1 .. k - 1 : Range(t[j].input) \cap Range(t[k].input) = {}
             /\ \A o \in Range(t[k].input) :
                  o \in unspent \/ \E j \in 1 .. k - 1 : o \in Outputs(t[j])
  <2>1. /\ ~ txs[k].damaged /\ IsInjective(txs[k].input)
        /\ \A j \in 1 .. k - 1 : Range(txs[j].input) \cap Range(txs[k].input) = {}
        /\ \A o \in Range(txs[k].input) :
             o \in unspent \/ \E j \in 1 .. k - 1 : o \in Outputs(txs[j])
    BY <1>5 DEF ConsensusValid
  <2>2. \A j \in 1 .. k - 1 : j \in 1 .. n
    BY <1>1
  <2>3. t[k] = txs[k] /\ \A j \in 1 .. k - 1 : t[j] = txs[j]
    BY <1>3, <2>2
  <2> QED
    BY <2>1, <2>3
<1>7. ConsensusValid(unspent, t)
  BY <1>4, <1>6 DEF ConsensusValid
<1> QED
  BY <1>3, <1>4, <1>5, <1>7 DEF t

\* The driver begins a block without a verdict.
LEMMA VerdictsInit == InvalidInit => Verdicts
<1> SUFFICES ASSUME InvalidInit PROVE Verdicts
  OBVIOUS
<1>1. /\ driver.pc = "template" /\ driver.txs = << >> /\ driver.candidate = "None"
      /\ driver.applied = "None" /\ driver.accepted = FALSE /\ confirmations = 0
      /\ utxos = Confirmed /\ mempool = Mempool
      /\ pool.available = {} /\ pool.pending = {}
  BY DEF InvalidInit, new
<1>2. Built /\ Corrupted
  BY <1>1 DEF Built, Corrupted, Corruption
<1>3. Sound
  <2>1. DOMAIN << >> = {}
    OBVIOUS
  <2>2. ConsensusValid(utxos, << >>)
    BY <2>1 DEF ConsensusValid
  <2> QED
    BY <1>1, <2>1, <2>2 DEF Sound, Sourced
<1>4. RejectedIfCorrupted
  BY <1>1 DEF RejectedIfCorrupted, At
<1> QED
  BY <1>1, <1>2, <1>3, <1>4 DEF Verdicts

\* The mempool's part of the block is valid, being a prefix of the mempool.
LEMMA PickVerdict ==
  ASSUME Accounts, Verdicts, PickMempool
  PROVE  Verdicts'
<1>1. PICK n \in 0 .. Len(mempool) :
        driver' = [driver EXCEPT !.pc = "unspent", !.txs = SubSeq(mempool, 1, n)]
  BY DEF PickMempool
<1>2. UNCHANGED <<utxos, mempool, confirmations, pool>> /\ driver.pc = "template"
  BY DEF PickMempool, At
<1> DEFINE txs == SubSeq(mempool, 1, n)
<1>3. /\ driver'.pc = "unspent" /\ driver'.txs = txs /\ driver'.candidate = driver.candidate
      /\ driver'.applied = driver.applied /\ driver'.accepted = driver.accepted
  BY <1>1 DEF Accounts, Typed, DriverFields
<1> HIDE DEF txs
<1>4. Pooled = {} /\ mempool \in Seq(OtherTx)
  BY <1>2 DEF Accounts, Beginning, Typed
<1>5. driver.accepted = FALSE /\ driver.applied = "None" /\ driver.candidate \in Corruption
      /\ confirmations \in Nat
  BY <1>2 DEF Verdicts, Corrupted
<1>6. RejectedIfCorrupted'
  BY <1>3, <1>5 DEF RejectedIfCorrupted, At
<1>7. Built' /\ Corrupted'
  BY <1>3, <1>5 DEF Built, Corrupted, Corruption
<1>8. ASSUME confirmations = 0
      PROVE  /\ ConsensusValid(utxos, txs)
             /\ \A k \in DOMAIN txs : k \in DOMAIN mempool /\ txs[k] = mempool[k]
  <2>1. utxos = Confirmed /\ mempool = Mempool
    BY <1>8 DEF Verdicts, Sound
  <2>2. ConsensusValid(utxos, mempool) /\ mempool \in Seq(Tx)
    BY <1>4, <2>1, MempoolAssumption, OthersOnly
  <2> QED
    BY <2>2, PrefixValid DEF txs
<1>9. Sound'
  <2> SUFFICES ASSUME confirmations = 0 PROVE Sound'
    BY <1>2 DEF Sound
  <2>1. \A k \in DOMAIN txs : txs[k].id \in {mempool[j].id : j \in DOMAIN mempool}
    BY <1>8
  <2>2. (\A k \in DOMAIN driver.txs : Known(driver.txs[k]))'
    BY <1>2, <1>3, <2>1 DEF Known
  <2>3. ConsensusValid(utxos', driver'.txs)
    BY <1>2, <1>3, <1>8
  <2>4. Sourced'
    BY <1>2, <1>4 DEF Sourced, Pooled
  <2>5. (utxos = Confirmed /\ mempool = Mempool)'
    BY <1>2 DEF Verdicts, Sound
  <2> QED
    BY <2>2, <2>3, <2>4, <2>5 DEF Sound
<1> QED
  BY <1>2, <1>3, <1>5, <1>6, <1>7, <1>9 DEF Verdicts

\* The pool begins with unspent outputs.
LEMMA ListVerdict ==
  ASSUME Accounts, Verdicts, ListUnspent
  PROVE  Verdicts'
<1>1. PICK listed \in {utxos, {}} : pool' = new(Unconsumed(listed))
  BY DEF ListUnspent
<1>2. PICK n \in 1 .. MaxTotal : \E k \in 1 .. n : \E candidate \in Corruption :
        driver' = [driver EXCEPT !.pc = "take", !.n_total = n, !.corrupt_at = k,
                                 !.candidate = candidate]
  BY DEF ListUnspent
<1>3. UNCHANGED <<utxos, mempool, confirmations>> /\ driver.pc = "unspent"
  BY DEF ListUnspent, At
<1>4. /\ driver'.pc = "take" /\ driver'.txs = driver.txs
      /\ driver'.candidate \in Corruption
      /\ driver'.applied = driver.applied /\ driver'.accepted = driver.accepted
  BY <1>2 DEF Accounts, Typed, DriverFields
<1>5. pool'.available \subseteq utxos /\ pool'.pending = {}
  BY <1>1 DEF new, Unconsumed
<1>6. driver.accepted = FALSE /\ driver.applied = "None" /\ confirmations \in Nat
  BY <1>3 DEF Verdicts, Corrupted
<1>7. RejectedIfCorrupted'
  BY <1>4, <1>6 DEF RejectedIfCorrupted, At
<1>8. Built' /\ Corrupted'
  BY <1>4, <1>6 DEF Built, Corrupted, Corruption
<1>9. Sourced'
  BY <1>3, <1>5 DEF Sourced
<1>10. Sound'
  BY <1>3, <1>4, <1>9 DEF Verdicts, Sound, Known
<1> QED
  BY <1>3, <1>4, <1>6, <1>7, <1>8, <1>10 DEF Verdicts

\* What is taken for a transaction leaves the block and the pool's outputs as
\* they are.
LEMMA TakeVerdict ==
  ASSUME Accounts, Verdicts, At("take"),
         NEW picked \in SUBSET pool.available, NEW extra, Take(picked, extra)
  PROVE  /\ Built' => Verdicts'
         /\ kind' = kind /\ pool'.pending = picked /\ pool'.spent = pool.spent
         /\ driver'.input = SetToSeq(picked) \o extra
         /\ SetToSeq(picked) \in Seq(picked) /\ Range(SetToSeq(picked)) = picked
         /\ IsInjective(SetToSeq(picked))
<1>1. UNCHANGED <<utxos, mempool, confirmations>> /\ driver.pc = "take"
  BY DEF Take, At
<1>2. /\ driver'.pc = "build" /\ driver'.txs = driver.txs /\ driver'.i = driver.i
      /\ driver'.corrupt_at = driver.corrupt_at
      /\ driver'.candidate = driver.candidate /\ driver'.applied = driver.applied
      /\ driver'.accepted = driver.accepted
      /\ driver'.input = SetToSeq(picked) \o extra
  BY DEF Take, Accounts, Typed, DriverFields
<1>3. /\ pool'.available = pool.available \ picked
      /\ pool'.pending = pool.pending \cup picked /\ pool'.spent = pool.spent
      /\ pool'.intra_block_txids = pool.intra_block_txids
  BY DEF Take, take, Accounts, Typed, PoolFields
<1>4. pool.pending = {}
  BY <1>1 DEF Accounts, Building
<1>5. driver.accepted = FALSE /\ confirmations \in Nat
  BY <1>1 DEF Verdicts
<1>6. RejectedIfCorrupted'
  BY <1>2, <1>5 DEF RejectedIfCorrupted, At
<1>7. Corrupted'
  BY <1>1, <1>2 DEF Verdicts, Corrupted
<1>8. pool'.available \cup pool'.pending = pool.available \cup pool.pending
  BY <1>3
<1>9. Sourced => Sourced'
  BY <1>1, <1>2, <1>3, <1>8 DEF Sourced
<1>10. Sound'
  BY <1>1, <1>2, <1>9 DEF Verdicts, Sound, Known
<1>11. Built' => Verdicts'
  BY <1>1, <1>2, <1>5, <1>6, <1>7, <1>10 DEF Verdicts
<1>12. kind' = kind
  BY <1>2 DEF kind
<1>13. IsFiniteSet(picked)
  <2>1. IsFiniteSet(pool.available)
    BY DEF Accounts, Typed
  <2> QED
    BY <2>1, FS_Subset
<1> QED
  BY <1>2, <1>3, <1>4, <1>11, <1>12, <1>13, SetToSeqRange

\* Appending one element to a sequence.
LEMMA Appended ==
  ASSUME NEW S, NEW s \in Seq(S), NEW e
  PROVE  /\ e \in Range(s \o <<e>>)
         /\ e \in Range(s) => ~ IsInjective(s \o <<e>>)
<1> DEFINE T == S \cup {e}
           one == <<e>>
           t == s \o one
<1>1. s \in Seq(T) /\ one \in Seq(T) /\ Len(one) = 1 /\ one[1] = e
  <2>1. S \subseteq T
    OBVIOUS
  <2>2. s \in Seq(T)
    <3> HIDE DEF T
    <3> QED
      BY <2>1, SeqMonotonic
  <2> QED
    BY <2>2
<1> HIDE DEF T, one
<1>2. /\ t \in Seq(T) /\ Len(t) = Len(s) + Len(one)
      /\ \A k \in 1 .. Len(s) + Len(one) :
           t[k] = IF k <= Len(s) THEN s[k] ELSE one[k - Len(s)]
  BY <1>1, ConcatProperties
<1> HIDE DEF t
<1> DEFINE n == Len(s)
<1>3. n \in Nat
  OBVIOUS
<1>4. Len(t) = n + 1 /\ \A k \in 1 .. n + 1 : t[k] = IF k <= n THEN s[k] ELSE one[k - n]
  BY <1>1, <1>2
<1>5. DOMAIN t = 1 .. n + 1 /\ DOMAIN s = 1 .. n
  BY <1>2, <1>4
<1> HIDE DEF n
<1>6. n + 1 \in 1 .. n + 1 /\ ~ (n + 1 <= n) /\ n + 1 - n = 1
  BY <1>3
<1> DEFINE m == n + 1
<1> HIDE DEF m
<1>7. t[m] = e /\ m \in DOMAIN t
  <2>1. t[m] = one[m - n] /\ m \in DOMAIN t
    BY <1>4, <1>5, <1>6 DEF m
  <2>2. m - n = 1
    BY <1>3, <1>6 DEF m
  <2> QED
    BY <1>1, <2>1, <2>2
<1>8. ASSUME e \in Range(s) PROVE ~ IsInjective(t)
  <2>1. PICK k \in 1 .. n : s[k] = e
    BY <1>5, <1>8 DEF Range
  <2>2. k \in 1 .. n + 1 /\ k <= n /\ k # m
    BY <1>3 DEF m
  <2>3. t[k] = e /\ k \in DOMAIN t
    BY <1>4, <1>5, <2>1, <2>2
  <2> QED
    BY <1>7, <2>2, <2>3 DEF IsInjective
<1>9. e \in Range(t)
  BY <1>7 DEF Range
<1> QED
  BY <1>8, <1>9 DEF t, one

\* Each kind of violation is one of the inputs that were taken for it.
LEMMA TakingVerdicts ==
  ASSUME Accounts, Verdicts, TakeGeneral \/ TakeMissing \/ TakeDupInTx \/ TakeDupInBlock
  PROVE  Verdicts'
<1>1. At("take")
  BY DEF TakeGeneral, TakeMissing, TakeDupInTx, TakeDupInBlock, Taking
<1>2. CASE TakeGeneral
  <2>1. PICK picked \in SUBSET pool.available : Take(picked, << >>)
    BY <1>2 DEF TakeGeneral, Picks
  <2>2. kind \in {"None", "BadSignature"}
    BY <1>2 DEF TakeGeneral, Taking
  <2>3. /\ Built' => Verdicts'
        /\ kind' = kind /\ pool'.pending = picked
        /\ driver'.input = SetToSeq(picked) \o << >>
        /\ SetToSeq(picked) \in Seq(picked) /\ Range(SetToSeq(picked)) = picked
        /\ IsInjective(SetToSeq(picked))
    BY <1>1, <2>1, TakeVerdict
  <2>4. driver'.input = SetToSeq(picked)
    <3> DEFINE s == SetToSeq(picked)
    <3>1. s \in Seq(picked)
      BY <2>3
    <3> HIDE DEF s
    <3>2. s \o << >> = s
      BY <3>1
    <3> QED
      BY <2>3, <3>2 DEF s
  <2>5. Built'
    BY <2>2, <2>3, <2>4 DEF Built
  <2> QED
    BY <2>3, <2>5
<1>3. CASE TakeMissing
  <2>1. PICK picked \in SUBSET pool.available : Take(picked, <<Missing>>)
    BY <1>3 DEF TakeMissing, Picks
  <2>2. kind = "MissingInput"
    BY <1>3 DEF TakeMissing, Taking
  <2>3. /\ Built' => Verdicts'
        /\ kind' = kind
        /\ driver'.input = SetToSeq(picked) \o <<Missing>>
        /\ SetToSeq(picked) \in Seq(picked)
    BY <1>1, <2>1, TakeVerdict
  <2>4. Missing \in Range(driver'.input)
    BY <2>3, Appended
  <2>5. Built'
    BY <2>2, <2>3, <2>4 DEF Built
  <2> QED
    BY <2>3, <2>5
<1>4. CASE TakeDupInTx
  <2>1. PICK picked \in SUBSET pool.available : \E dup \in picked : Take(picked, <<dup>>)
    BY <1>4 DEF TakeDupInTx, Picks
  <2>2. PICK dup \in picked : Take(picked, <<dup>>)
    BY <2>1
  <2>3. kind = "DupInputInTx"
    BY <1>4 DEF TakeDupInTx, Taking
  <2>4. /\ Built' => Verdicts'
        /\ kind' = kind
        /\ driver'.input = SetToSeq(picked) \o <<dup>>
        /\ SetToSeq(picked) \in Seq(picked) /\ Range(SetToSeq(picked)) = picked
    BY <1>1, <2>2, TakeVerdict
  <2>5. ~ IsInjective(driver'.input)
    BY <2>4, Appended
  <2>6. Built'
    BY <2>3, <2>4, <2>5 DEF Built
  <2> QED
    BY <2>4, <2>6
<1>5. CASE TakeDupInBlock
  <2>1. PICK conflict \in pool.spent :
          \E picked \in SUBSET pool.available : Take(picked, <<conflict>>)
    BY <1>5 DEF TakeDupInBlock, Picks
  <2>2. PICK picked \in SUBSET pool.available : Take(picked, <<conflict>>)
    BY <2>1
  <2>3. kind = "DupInputInBlock"
    BY <1>5 DEF TakeDupInBlock, Taking
  <2>4. /\ Built' => Verdicts'
        /\ kind' = kind /\ pool'.spent = pool.spent
        /\ driver'.input = SetToSeq(picked) \o <<conflict>>
        /\ SetToSeq(picked) \in Seq(picked)
    BY <1>1, <2>2, TakeVerdict
  <2>5. conflict \in Range(driver'.input) \cap pool'.spent
    BY <2>1, <2>4, Appended
  <2>6. Built'
    BY <2>3, <2>4, <2>5 DEF Built
  <2> QED
    BY <2>4, <2>6
<1> QED
  BY <1>2, <1>3, <1>4, <1>5

\* A transaction that cannot be built leaves the block as it is.
LEMMA RollbackVerdict ==
  ASSUME Accounts, Verdicts, NothingToTake \/ BuildFails
  PROVE  Verdicts'
<1>1. UNCHANGED <<utxos, mempool, confirmations>> /\ driver.pc \in {"take", "build"}
  BY DEF NothingToTake, BuildFails, At
<1>2. /\ driver'.pc = "take" /\ driver'.txs = driver.txs
      /\ driver'.candidate = driver.candidate /\ driver'.applied = driver.applied
      /\ driver'.accepted = driver.accepted
  BY DEF NothingToTake, BuildFails, At, Accounts, Typed, DriverFields
<1>3. /\ pool'.available = pool.available \cup pool.pending /\ pool'.pending = {}
      /\ pool'.intra_block_txids = pool.intra_block_txids
  BY DEF NothingToTake, BuildFails, rollback_pending, Accounts, Typed, PoolFields
<1>4. driver.accepted = FALSE /\ confirmations \in Nat
  BY <1>1 DEF Verdicts
<1>5. RejectedIfCorrupted'
  BY <1>2, <1>4 DEF RejectedIfCorrupted, At
<1>6. Built' /\ Corrupted'
  BY <1>1, <1>2 DEF Verdicts, Built, Corrupted
<1>7. pool'.available \cup pool'.pending = pool.available \cup pool.pending
  BY <1>3
<1>8. Sourced => Sourced'
  BY <1>1, <1>2, <1>3, <1>7 DEF Sourced
<1>9. Sound'
  BY <1>1, <1>2, <1>8 DEF Verdicts, Sound, Known
<1> QED
  BY <1>1, <1>2, <1>4, <1>5, <1>6, <1>9 DEF Verdicts

-----------------------------------------------------------------------------
\* A transaction with a violation makes the block one that no node accepts, one
\* without leaves a valid block valid.
LEMMA BuildVerdict ==
  ASSUME Accounts, Verdicts, BuildSucceeds
  PROVE  Verdicts'
<1>1. /\ UNCHANGED <<utxos, mempool, confirmations>> /\ driver.pc = "build"
      /\ DOMAIN driver = DriverFields /\ DOMAIN pool = PoolFields
      /\ driver.txs \in Seq(Tx) /\ driver.input \in Seq(Point \cup {Missing})
      /\ driver.i \in 1 .. MaxTotal
  BY InvalidBlocksAssumption DEF BuildSucceeds, At, Accounts, Typed, Beginning, Building
<1>2. PICK n \in 1 .. MAX_OUTPUTS :
        LET tx == [id |-> driver.i, input |-> driver.input, outputs |-> n,
                   damaged |-> kind = "BadSignature"]
            committed == commit_pending(pool)
            end == Len(driver.txs) + 1
        IN
        /\ \E pos \in IF has_intra_block_parent(committed, tx) THEN {end} ELSE 1 .. end :
             driver' = [driver EXCEPT !.pc = "take", !.i = @ + 1, !.input = << >>,
                                      !.txs = InsertAt(@, pos, tx),
                                      !.applied = now_applied]
        /\ pool' = add_outputs(committed, tx)
  BY DEF BuildSucceeds
<1> DEFINE tx == [id |-> driver.i, input |-> driver.input, outputs |-> n,
                  damaged |-> kind = "BadSignature"]
           parented == has_intra_block_parent(commit_pending(pool), tx)
           end == Len(driver.txs) + 1
<1>3. PICK pos \in IF parented THEN {end} ELSE 1 .. end :
        driver' = [driver EXCEPT !.pc = "take", !.i = @ + 1, !.input = << >>,
                                 !.txs = InsertAt(@, pos, tx), !.applied = now_applied]
  BY <1>2
<1>4. /\ tx \in Tx /\ tx.id = driver.i /\ tx.input = driver.input
      /\ Outputs(tx) = {driver.i} \X (0 .. n - 1)
      /\ tx.damaged = (kind = "BadSignature")
  <2>1. /\ tx \in Tx /\ tx.id = driver.i /\ tx.input = driver.input
        /\ Outputs(tx) = {driver.i} \X (0 .. n - 1)
    BY <1>1, InvalidBlocksAssumption DEF Tx, Outputs
  <2>2. tx.damaged = (kind = "BadSignature")
    OBVIOUS
  <2> QED
    BY <2>1, <2>2, Zenon
<1>5. /\ driver'.pc = "take" /\ driver'.txs = InsertAt(driver.txs, pos, tx)
      /\ driver'.candidate = driver.candidate /\ driver'.applied = now_applied
      /\ driver'.accepted = driver.accepted
  BY <1>1, <1>3 DEF DriverFields
<1>6. /\ pool'.available = pool.available \cup Outputs(tx) /\ pool'.pending = {}
      /\ pool'.intra_block_txids = pool.intra_block_txids \cup {driver.i}
  BY <1>1, <1>2 DEF add_outputs, commit_pending, PoolFields
<1>7. parented <=> \E k \in DOMAIN driver.input :
                     driver.input[k][1] \in pool.intra_block_txids
  BY <1>1 DEF has_intra_block_parent, commit_pending, PoolFields
<1> HIDE DEF tx, parented
<1>8. end \in Nat \ {0} /\ pos \in 1 .. end /\ (parented => pos = end)
  BY <1>1, <1>3
<1> HIDE DEF end
<1>9. driver.accepted = FALSE /\ confirmations \in Nat /\ driver.candidate \in Corruption
      /\ driver.applied \in Corruption
  BY <1>1 DEF Verdicts, Corrupted
<1>10. RejectedIfCorrupted' /\ Built'
  BY <1>5, <1>9 DEF RejectedIfCorrupted, Built, At
<1>11. kind \in Corruption /\ now_applied \in Corruption
  BY <1>9 DEF kind, now_applied, Corruption
<1>12. pos \in 1 .. Len(driver.txs) + 1
  BY <1>8 DEF end
<1>13. kind # "None" => Flawed(driver'.txs)
  <2> SUFFICES ASSUME kind # "None" PROVE Flawed(driver'.txs)
    OBVIOUS
  <2>1. Built /\ pool.spent \subseteq Inputs(driver.txs)
    BY DEF Verdicts, Accounts, Disjoint
  <2>2. \/ tx.damaged
        \/ ~ IsInjective(tx.input)
        \/ Missing \in Range(tx.input)
        \/ Range(tx.input) \cap Inputs(driver.txs) # {}
    <3>1. CASE kind = "BadSignature"
      <4>1. tx.damaged = TRUE
        BY <1>4, <3>1
      <4> QED
        BY <4>1
    <3>2. CASE kind = "MissingInput"
      BY <1>1, <1>4, <2>1, <3>2 DEF Built
    <3>3. CASE kind = "DupInputInTx"
      BY <1>1, <1>4, <2>1, <3>3 DEF Built
    <3>4. CASE kind = "DupInputInBlock"
      BY <1>1, <1>4, <2>1, <3>4 DEF Built
    <3> QED
      BY <1>11, <3>1, <3>2, <3>3, <3>4 DEF Corruption
  <2> QED
    BY <1>1, <1>4, <1>5, <1>12, <2>2, FlawAdded
<1>14. driver.applied # "None" => Flawed(driver'.txs)
  BY <1>1, <1>4, <1>5, <1>12, FlawStays DEF Verdicts, Corrupted
<1>15. Corrupted'
  BY <1>5, <1>9, <1>11, <1>13, <1>14 DEF Corrupted, now_applied
<1>16. driver'.txs \in Seq(Tx) /\ Range(driver'.txs) = Range(driver.txs) \cup {tx}
  BY <1>1, <1>4, <1>5, <1>12, InsertAtRange
<1>17. Made(driver'.txs) = Made(driver.txs) \cup Outputs(tx)
  <2>1. \A txs : Made(txs) = UNION {Outputs(t) : t \in Range(txs)}
    BY DEF Made, Range
  <2> QED
    BY <1>16, <2>1
<1>18. Sourced => Sourced'
  <2> SUFFICES ASSUME Sourced, NEW o \in pool'.available \cup pool'.pending
               PROVE  o \in utxos \/ (o \in Made(driver'.txs)
                                      /\ o[1] \in pool'.intra_block_txids)
    BY <1>1 DEF Sourced
  <2>1. CASE o \in Outputs(tx)
    BY <1>4, <1>6, <1>17, <2>1
  <2>2. CASE o \in pool.available \cup pool.pending
    BY <1>6, <1>17, <2>2 DEF Sourced
  <2> QED
    BY <1>6, <2>1, <2>2
<1>19. (\A k \in DOMAIN driver.txs : Known(driver.txs[k]))
         => (\A k \in DOMAIN driver.txs : Known(driver.txs[k]))'
  <2> SUFFICES ASSUME \A k \in DOMAIN driver.txs : Known(driver.txs[k])
               PROVE  (\A k \in DOMAIN driver.txs : Known(driver.txs[k]))'
    OBVIOUS
  <2>1. \A t \in Range(driver'.txs) : Known(t)
    BY <1>1, <1>4, <1>16 DEF Known, Range
  <2> QED
    BY <1>1, <2>1 DEF Known, Range
<1>20. ASSUME confirmations = 0, now_applied = "None"
       PROVE  ConsensusValid(utxos, driver'.txs)
  <2>1. kind = "None" /\ driver.applied = "None"
    BY <1>20 DEF now_applied
  <2>2. ConsensusValid(utxos, driver.txs) /\ Sourced
    BY <1>20, <2>1 DEF Verdicts, Sound
  <2>3. ~ tx.damaged /\ IsInjective(tx.input) /\ Range(tx.input) = pool.pending
    <3>1. tx.damaged = FALSE
      BY <1>4, <2>1
    <3>2. IsInjective(tx.input) /\ Range(tx.input) = pool.pending
      BY <1>1, <1>4, <2>1 DEF Verdicts, Built
    <3> QED
      BY <3>1, <3>2
  <2>4. Range(tx.input) \cap Inputs(driver.txs) = {}
    BY <2>3 DEF Accounts, Disjoint
  <2>5. ASSUME NEW o \in Range(tx.input), o \notin utxos
        PROVE  pos = Len(driver.txs) + 1 /\ o \in Made(driver.txs)
    <3>1. o \in Made(driver.txs) /\ o[1] \in pool.intra_block_txids
      BY <2>2, <2>3, <2>5 DEF Sourced
    <3>2. PICK k \in DOMAIN driver.input : driver.input[k] = o
      BY <1>4 DEF Range
    <3>3. parented
      BY <1>7, <3>1, <3>2
    <3> QED
      BY <1>8, <3>1, <3>3 DEF end
  <2> QED
    BY <1>1, <1>4, <1>5, <1>12, <2>2, <2>3, <2>4, <2>5, ValidInsert
<1>21. Sound'
  <2> SUFFICES ASSUME confirmations = 0 PROVE Sound'
    BY <1>1 DEF Sound
  <2>1. /\ utxos = Confirmed /\ mempool = Mempool /\ Sourced
        /\ \A k \in DOMAIN driver.txs : Known(driver.txs[k])
    BY DEF Verdicts, Sound
  <2> QED
    BY <1>1, <1>5, <1>18, <1>19, <1>20, <2>1 DEF Sound
<1> QED
  BY <1>1, <1>5, <1>9, <1>10, <1>15, <1>21 DEF Verdicts

\* The node's answer.
LEMMA HandInVerdict ==
  ASSUME Accounts, Verdicts, GenerateBlock
  PROVE  Verdicts'
<1> DEFINE verdict == /\ \A k \in DOMAIN driver.txs : Known(driver.txs[k])
                      /\ ConsensusValid(utxos, driver.txs)
<1>1. /\ UNCHANGED <<utxos, mempool, confirmations, pool>> /\ driver.pc = "take"
      /\ driver' = [driver EXCEPT !.pc = "done", !.accepted = verdict]
  BY DEF GenerateBlock, At
<1>2. verdict => ConsensusValid(utxos, driver.txs)
  OBVIOUS
<1>3. confirmations = 0 /\ driver.applied = "None" => verdict
  BY DEF Verdicts, Sound
<1> HIDE DEF verdict
<1>4. /\ driver'.pc = "done" /\ driver'.txs = driver.txs
      /\ driver'.candidate = driver.candidate /\ driver'.applied = driver.applied
      /\ driver'.accepted = verdict
  BY <1>1 DEF Accounts, Typed, DriverFields
<1>5. driver.applied # "None" => ~ verdict
  <2>1. utxos \subseteq Point /\ driver.txs \in Seq(Tx)
    BY OtherTxIsTx DEF Accounts, Typed
  <2> QED
    BY <1>2, <2>1, FlawedIsInvalid DEF Verdicts, Corrupted
<1>6. RejectedIfCorrupted'
  <2>1. (driver.applied # "None")' => ~ driver'.accepted
    BY <1>4, <1>5, Zenon
  <2>2. (At("done") /\ driver.applied = "None" /\ confirmations = 0)' => driver'.accepted
    BY <1>1, <1>3, <1>4, Zenon
  <2> QED
    BY <2>1, <2>2, Zenon DEF RejectedIfCorrupted
<1>7. Built' /\ Corrupted'
  BY <1>1, <1>4 DEF Verdicts, Built, Corrupted
<1>8. Sourced => Sourced'
  BY <1>1, <1>4 DEF Sourced
<1>9. Sound'
  BY <1>1, <1>4, <1>8 DEF Verdicts, Sound, Known
<1>10. confirmations' \in Nat
  BY <1>1 DEF Verdicts
<1> QED
  BY <1>4, <1>6, <1>7, <1>9, <1>10 DEF Verdicts

\* Once somebody else's block came in, only what is wrong with the block counts.
LEMMA MinedVerdict ==
  ASSUME Accounts, Verdicts, MinedElsewhere
  PROVE  Verdicts'
<1>1. /\ UNCHANGED <<driver, pool>> /\ driver.pc # "done"
      /\ confirmations' = confirmations + 1 /\ confirmations \in Nat
  BY DEF MinedElsewhere, At, Verdicts
<1>2. confirmations' \in Nat /\ confirmations' # 0
  BY <1>1
<1>3. driver.accepted = FALSE
  BY <1>1 DEF Verdicts
<1>4. RejectedIfCorrupted'
  BY <1>1, <1>3 DEF RejectedIfCorrupted, At
<1>5. Built' /\ Corrupted'
  BY <1>1 DEF Verdicts, Built, Corrupted, kind
<1>6. Sound'
  BY <1>2 DEF Sound
<1> QED
  BY <1>1, <1>2, <1>3, <1>4, <1>5, <1>6 DEF Verdicts

\* For any wallet, any mempool that could be mined and any number of
\* transactions per block, whichever of them fail and whatever is mined
\* meanwhile: a block with a deliberate violation is never accepted, and one
\* without is, unless others moved the chain before it was handed in.
THEOREM CorruptionIsRejected == InvalidSpec => []RejectedIfCorrupted
<1>1. InvalidInit => Verdicts
  BY VerdictsInit
<1>2. Accounts /\ Verdicts /\ [InvalidNext]_invalid_vars => Verdicts'
  <2> SUFFICES ASSUME Accounts, Verdicts, [InvalidNext]_invalid_vars PROVE Verdicts'
    OBVIOUS
  <2>1. CASE UNCHANGED invalid_vars
    <3>1. UNCHANGED <<utxos, mempool, confirmations, driver, pool>>
      BY <2>1 DEF invalid_vars
    <3>2. Built' /\ Corrupted' /\ RejectedIfCorrupted'
      BY <3>1 DEF Verdicts, Built, Corrupted, RejectedIfCorrupted, At, kind
    <3>3. Sound'
      BY <3>1 DEF Verdicts, Sound, Sourced, Known
    <3> QED
      BY <3>1, <3>2, <3>3 DEF Verdicts
  <2>2. CASE InvalidNext
    BY <2>2, PickVerdict, ListVerdict, TakingVerdicts, RollbackVerdict, BuildVerdict,
       HandInVerdict, MinedVerdict
    DEF InvalidNext
  <2> QED
    BY <2>1, <2>2
<1>3. Verdicts => RejectedIfCorrupted
  BY DEF Verdicts
<1> QED
  BY <1>1, <1>2, <1>3, AccountsInvariant, PTL DEF InvalidSpec

-----------------------------------------------------------------------------
\* The node wrapper.

\* What a file says, if anything.
Content(file) == IF file = << >> THEN NothingDrawn ELSE file[1]

OnDisk == [structural |-> Content(STABLE), weights |-> Content(WEIGHTS)]

Fields == {"at", "drawn", "weight", "flags", "boots"}

WrapperShape ==
  /\ wrapper = [field \in Fields |-> wrapper[field]]
  /\ Line("read") \/ Line("weights") => STABLE # << >>
  /\ Line("weights") => wrapper.flags = Content(STABLE)
  /\ Line("weights") => wrapper.weight = Content(WEIGHTS)

PersonalityOnDisk ==
  /\ WrapperShape
  /\ Line("truncate") \/ Line("printf") => ran = {}
  /\ \A p \in ran : /\ STABLE # << >>
                    /\ p = OnDisk
                    /\ TUNABLES \subseteq DOMAIN p.weights

-----------------------------------------------------------------------------
\* A file that was just written says what was written to it.
LEMMA Written == ASSUME NEW x PROVE << x >> # << >> /\ Content(<< x >>) = x
  BY DEF Content

\* Nothing has been drawn when the first container starts.
LEMMA PersonalityInit == WrapperInit => PersonalityOnDisk
  BY DEF WrapperInit, PersonalityOnDisk, WrapperShape, Line, Content, Fields

\* A step that leaves the files, the history and the script's place alone, or
\* starts the script over, keeps the invariant.
LEMMA StartOver ==
  ASSUME PersonalityOnDisk, UNCHANGED <<STABLE, WEIGHTS, ran>>,
         wrapper' = [field \in Fields |-> wrapper'[field]], wrapper'.at = "stable"
  PROVE  PersonalityOnDisk'
  BY DEF PersonalityOnDisk, WrapperShape, Line, Content, OnDisk, Fields

\* Every step of the script keeps the invariant.
LEMMA PersonalityStep ==
  PersonalityOnDisk /\ [WrapperNext]_wrapper_vars => PersonalityOnDisk'
<1> SUFFICES ASSUME PersonalityOnDisk, [WrapperNext]_wrapper_vars
             PROVE  PersonalityOnDisk'
  OBVIOUS
<1>1. CASE Draw
  <2>1. ran = {}
    BY <1>1 DEF Draw, needs_draw, PersonalityOnDisk
  <2>2. wrapper'.at = "truncate" /\ wrapper' = [field \in Fields |-> wrapper'[field]]
    BY <1>1 DEF Draw, PersonalityOnDisk, WrapperShape, Fields
  <2> QED
    BY <1>1, <2>1, <2>2 DEF Draw, PersonalityOnDisk, WrapperShape, Line
<1>2. CASE Truncate
  <2>1. wrapper'.at = "printf" /\ wrapper' = [field \in Fields |-> wrapper'[field]]
    BY <1>2 DEF Truncate, PersonalityOnDisk, WrapperShape, Fields
  <2> QED
    BY <1>2, <2>1 DEF Truncate, PersonalityOnDisk, WrapperShape, Line
<1>3. CASE Printf
  <2>1. wrapper'.at = "read" /\ wrapper' = [field \in Fields |-> wrapper'[field]]
    BY <1>3 DEF Printf, PersonalityOnDisk, WrapperShape, Fields
  <2>2. STABLE' # << >> /\ ran' = {}
    BY <1>3, Written DEF Printf, PersonalityOnDisk
  <2> QED
    BY <2>1, <2>2 DEF PersonalityOnDisk, WrapperShape, Line
<1>4. CASE ReadFiles
  <2>1. /\ wrapper'.at = "weights" /\ wrapper' = [field \in Fields |-> wrapper'[field]]
        /\ wrapper'.flags = STABLE[1]
        /\ wrapper'.weight = Content(WEIGHTS)
    BY <1>4 DEF ReadFiles, PersonalityOnDisk, WrapperShape, Fields, Content
  <2>2. STABLE # << >>
    BY <1>4 DEF ReadFiles, needs_draw, PersonalityOnDisk, WrapperShape
  <2> QED
    BY <1>4, <2>1, <2>2
    DEF ReadFiles, PersonalityOnDisk, WrapperShape, Line, Content, OnDisk
<1>5. CASE DrawWeight
  <2>1. PICK flag \in missing, w \in Weights :
          /\ wrapper' = [wrapper EXCEPT !.weight = With(@, flag, w)]
          /\ WEIGHTS' = << With(Content(WEIGHTS), flag, w) >>
    BY <1>5 DEF DrawWeight, Content
  <2>2. Line("weights") /\ STABLE' = STABLE /\ ran' = ran
    BY <1>5 DEF DrawWeight
  <2>3. wrapper.weight = Content(WEIGHTS) /\ wrapper.flags = Content(STABLE)
    BY <2>2 DEF PersonalityOnDisk, WrapperShape
  <2>4. ran = {}
    BY <2>1, <2>3 DEF PersonalityOnDisk, OnDisk, missing
  <2>5. Content(WEIGHTS') = With(Content(WEIGHTS), flag, w)
    BY <2>1, Written
  <2>6. /\ wrapper'.at = "weights" /\ wrapper' = [field \in Fields |-> wrapper'[field]]
        /\ wrapper'.flags = wrapper.flags
        /\ wrapper'.weight = With(Content(WEIGHTS), flag, w)
    BY <2>1, <2>2, <2>3 DEF PersonalityOnDisk, WrapperShape, Fields, Line
  <2> QED
    BY <2>2, <2>3, <2>4, <2>5, <2>6
    DEF PersonalityOnDisk, WrapperShape, Line, Content
<1>6. CASE Exec
  <2>1. /\ wrapper'.at = "node" /\ wrapper' = [field \in Fields |-> wrapper'[field]]
    BY <1>6 DEF Exec, PersonalityOnDisk, WrapperShape, Fields
  <2>2. /\ STABLE # << >>
        /\ OnDisk = [structural |-> wrapper.flags, weights |-> wrapper.weight]
        /\ TUNABLES \subseteq DOMAIN wrapper.weight
    BY <1>6 DEF Exec, PersonalityOnDisk, WrapperShape, OnDisk, missing
  <2>3. OnDisk' = OnDisk /\ ran' = ran \cup {OnDisk} /\ STABLE' = STABLE
    BY <1>6, <2>2 DEF Exec, OnDisk
  <2>4. ~ Line("read")' /\ ~ Line("weights")' /\ ~ Line("truncate")' /\ ~ Line("printf")'
    BY <2>1 DEF Line
  <2>5. WrapperShape'
    BY <2>1, <2>4 DEF WrapperShape
  <2>6. OnDisk.weights = wrapper.weight
    BY <2>2
  <2>7. ASSUME NEW p \in ran'
        PROVE  STABLE' # << >> /\ p = OnDisk' /\ TUNABLES \subseteq DOMAIN p.weights
    <3>1. p = OnDisk
      BY <2>3, <2>7 DEF PersonalityOnDisk
    <3> HIDE DEF OnDisk
    <3> QED
      BY <2>2, <2>3, <2>6, <3>1
  <2> QED
    BY <2>4, <2>5, <2>7 DEF PersonalityOnDisk
<1>7. CASE Killed
  BY <1>7, StartOver DEF Killed, Fields
<1>8. CASE UNCHANGED wrapper_vars
  BY <1>8 DEF wrapper_vars, PersonalityOnDisk, WrapperShape, Line, Content, OnDisk
<1> QED
  BY <1>1, <1>2, <1>3, <1>4, <1>5, <1>6, <1>7, <1>8 DEF WrapperNext

\* One personality on disk is one personality.
LEMMA OnDiskIsOne == PersonalityOnDisk => OnePersonality
<1> SUFFICES ASSUME PersonalityOnDisk PROVE OnePersonality
  OBVIOUS
<1>1. ran = {} \/ ran = {OnDisk}
  BY DEF PersonalityOnDisk
<1>2. Cardinality({}) = 0 /\ Cardinality({OnDisk}) = 1
  BY FS_EmptySet, FS_Singleton
<1>3. Cardinality(ran) = 0 \/ Cardinality(ran) = 1
  BY <1>1, <1>2
<1> QED
  BY <1>3 DEF OnePersonality

\* "Drawn once, reused across restarts": wherever the boots of a container are
\* cut off, its node is only ever run with one set of structural flags and one
\* set of weights.
THEOREM PersonalityIsDrawnOnce == WrapperSpec => []OnePersonality
<1>1. WrapperInit => PersonalityOnDisk
  BY PersonalityInit
<1>2. PersonalityOnDisk /\ [WrapperNext]_wrapper_vars => PersonalityOnDisk'
  BY PersonalityStep
<1>3. PersonalityOnDisk => OnePersonality
  BY OnDiskIsOne
<1> QED
  BY <1>1, <1>2, <1>3, PTL DEF WrapperSpec
=============================================================================
