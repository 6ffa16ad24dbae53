------------------------- MODULE ConvergenceProofs -------------------------
(***************************************************************************)
(* Proofs about the convergence driver: an agreement that it reports is    *)
(* real, a node that it excuses is stuck, and it raises no false alarm.    *)
(*                                                                         *)
(* The snapshot asks the nodes one after the other.  That all of them      *)
(* answered the block mined last says nothing yet of the first ones, which *)
(* may have moved on since.  The invariant is that they can only have done *)
(* so when some node that is still to be asked has a longer chain (Ahead): *)
(* chains never get shorter, so that node's answer will be another one.    *)
(*                                                                         *)
(* The search for a fork compares the chains of two nodes as they are by   *)
(* now.  Because a chain or a prune height that has changed is never again *)
(* what it was (Grown), a node that is where the snapshot saw it has been  *)
(* there all along, and then the fork stays enclosed (Enclosed), so that a *)
(* node is judged by the true height of its fork.  After a calm round all  *)
(* nodes are where they were seen, and nobody can follow anybody (Calmed); *)
(* a node that has been judged (Judged) and is not blocked could have      *)
(* followed, unless it is as high as the most-work chain already.          *)
(***************************************************************************)
EXTENDS Convergence, WellFoundedInduction, SequenceTheorems, TLAPS

Chain == Seq(Miners)

Infos == [index : Node, tip : Chain, pruneheight : Int]

DriverFields == {"pc", "next", "states", "position", "shared", "unshared", "hash",
                 "blocked", "stranded", "target", "mined_tip", "rounds"}

Typed ==
  /\ chain \in [Node -> Chain]
  /\ pruneheight \in [Node -> Int]
  /\ answering \subseteq Node
  /\ DOMAIN driver = DriverFields
  /\ driver.next \in 1 .. N + 1
  /\ driver.states \in Seq(Infos)
  /\ driver.position \in 0 .. Len(driver.states)
  /\ driver.stranded \in 0 .. Len(driver.states)
  /\ driver.target \in Int
  /\ driver.mined_tip \in Seq(Int)
  /\ driver.pc = "wait" => driver.next = 1 /\ driver.states = << >> /\ driver.stranded = 0
  /\ driver.pc = "extend" => driver.states # << >>
  /\ driver.pc \in {"next", "search"} => driver.next = N + 1

\* The positions are those of the nodes as long as all of them answered.
InOrder ==
  /\ Len(driver.states) <= driver.next - 1
  /\ Len(driver.states) = driver.next - 1 =>
       \A k \in Positions : driver.states[k].index = k

\* Everybody so far answered the block mined last.
AllSame ==
  /\ Len(driver.states) = driver.next - 1
  /\ \A k \in Positions : driver.states[k].tip = driver.mined_tip

\* Some node that is still to be asked is ahead of that block.
Ahead == \E m \in Node : m >= driver.next /\ Len(chain[m]) > Len(driver.mined_tip)

SameOrAhead ==
  driver.pc \in {"snapshot", "next", "search"} /\ AllSame =>
    Ahead \/ \A n \in Node : n < driver.next => chain[n] = driver.mined_tip

Agreement == Typed /\ InOrder /\ SameOrAhead /\ AgreementIsReal

-----------------------------------------------------------------------------
\* The search for a fork, and what is made of it.  It asks nodes that may have
\* moved on since the snapshot, so it is right about those that have not.

\* Is the node at position k where the snapshot saw it?
Still(k) == driver.states[k] = Info(driver.states[k].index)

\* Chains and prune heights only grow, so a node that is, always was.
Grown ==
  \A k \in Positions :
    LET info == driver.states[k] IN
    /\ info.tip = chain[info.index] \/ Len(info.tip) < Len(chain[info.index])
    /\ info.pruneheight <= pruneheight[info.index]

\* What a round begins with, and what is left of it when it is over.
Rested ==
  /\ driver.pc \in {"snapshot", "next", "search", "extend", "wait", "converged", "gave_up"}
  /\ driver.pc \in {"snapshot", "wait"} => driver.position = 0 /\ driver.blocked = {}
  /\ driver.pc # "search" => driver.hash = NoTip
  /\ driver.blocked \subseteq Positions

\* After a calm round nodes move only when the driver makes one mine.
Calmed ==
  /\ calm \in Nat /\ settled \in BOOLEAN
  /\ settled => answering = Node
  /\ calm >= 1 => settled
  /\ calm >= 1 /\ driver.pc # "wait" => Quiet /\ \A k \in Positions : Still(k)

\* low and high enclose the fork of two chains.
Encloses(low, high, c, d) ==
  /\ BlockHash(c, low) = BlockHash(d, low)
  /\ high <= Lower(Len(c), Len(d)) => BlockHash(c, high) # BlockHash(d, high)

Enclosed ==
  At("search") =>
    /\ driver.position \in Positions
    /\ driver.shared \in Nat /\ driver.unshared \in Nat
    /\ driver.shared < driver.unshared
    /\ driver.unshared <= Lower(blocks(lagging), blocks(best)) + 1
    /\ driver.hash # NoTip => driver.unshared - driver.shared > 1
    /\ Still(driver.position) /\ Still(best_position) =>
         /\ Encloses(driver.shared, driver.unshared, lagging.tip, best.tip)
         /\ driver.hash # NoTip => driver.hash = BlockHash(lagging.tip, halfway)

\* Has the round come past position k?
Passed(k) ==
  \/ driver.pc \in {"converged", "gave_up"}
  \/ k < driver.position
  \/ k = driver.position /\ driver.pc # "search"

\* After a calm round, a node that is behind was found to be blocked.
Judged ==
  calm >= 1 =>
    \A k \in Positions \ best_chain :
      Passed(k) => k \in driver.blocked \/ blocks(driver.states[k]) = blocks(best)

Judgement == Grown /\ Rested /\ Calmed /\ Enclosed /\ Judged /\ ExcusedAreStuck

-----------------------------------------------------------------------------
USE ConvergenceAssumption DEF Node, Miners

-----------------------------------------------------------------------------
\* Every set of naturals that has an element has a least one.
LEMMA Least ==
  ASSUME NEW T, T \subseteq Nat, T # {}
  PROVE  \E x \in T : \A y \in T : x <= y
<1> DEFINE R == {ss \in Nat \X Nat : ss[1] < ss[2]}
<1>1. IsWellFoundedOn(R, Nat)
  BY NatLessThanWellFounded DEF OpToRel
<1>2. PICK x \in T : \A y \in T : <<y, x>> \notin R
  BY <1>1, WFMin
<1>3. \A y \in T : <<y, x>> \in Nat \X Nat /\ <<y, x>>[1] = y /\ <<y, x>>[2] = x
  OBVIOUS
<1>4. \A y \in T : ~ (y < x)
  BY <1>2, <1>3
<1> QED
  BY <1>4

\* The last of the greatest of some naturals, which `max_by` returns, exists.
LEMMA LastGreatest ==
  ASSUME NEW L \in Nat \ {0}, NEW w \in [1 .. L -> Nat]
  PROVE  \E k \in 1 .. L : \A j \in 1 .. L : w[j] <= w[k] /\ (w[j] = w[k] => j <= k)
<1> DEFINE BestOf(n, k) == \A j \in 1 .. n : w[j] <= w[k] /\ (w[j] = w[k] => j <= k)
<1> DEFINE T == {n \in 1 .. L : ~ \E k \in 1 .. n : BestOf(n, k)}
<1>1. T = {}
  <2> SUFFICES ASSUME T # {} PROVE FALSE
    OBVIOUS
  <2>1. PICK n \in T : \A m \in T : n <= m
    <3>1. T \subseteq Nat
      OBVIOUS
    <3> HIDE DEF T
    <3> QED
      BY <3>1, Least
  <2>2. n \in 1 .. L /\ ~ \E k \in 1 .. n : BestOf(n, k)
    BY <2>1
  <2>3. CASE n = 1
    <3>1. BestOf(1, 1)
      OBVIOUS
    <3> QED
      BY <2>2, <2>3, <3>1
  <2>4. CASE n # 1
    <3>1. n - 1 \in 1 .. L
      BY <2>2, <2>4
    <3>2. n - 1 \notin T
      <4> HIDE DEF T
      <4> QED
        BY <2>1, <2>2
    <3>3. PICK k \in 1 .. n - 1 :
            \A j \in 1 .. n - 1 : w[j] <= w[k] /\ (w[j] = w[k] => j <= k)
      BY <3>1, <3>2
    <3> HIDE DEF T
    <3>4. /\ n \in Nat /\ n \in 1 .. n /\ k \in 1 .. n /\ k < n
          /\ \A j \in 1 .. n : j = n \/ j \in 1 .. n - 1
          /\ w[n] \in Nat /\ w[k] \in Nat /\ \A j \in 1 .. n : w[j] \in Nat
      BY <2>2
    <3>5. CASE w[n] >= w[k]
      <4>1. ASSUME NEW j \in 1 .. n PROVE w[j] <= w[n] /\ (w[j] = w[n] => j <= n)
        <5>1. CASE j = n
          BY <3>4, <5>1
        <5>2. CASE j \in 1 .. n - 1
          <6>1. w[j] <= w[k] /\ w[j] \in Nat
            BY <3>3, <3>4, <5>2
          <6>2. j <= n
            BY <3>4
          <6> QED
            BY <3>4, <3>5, <6>1, <6>2
        <5> QED
          BY <3>4, <5>1, <5>2
      <4> QED
        BY <2>2, <3>4, <4>1
    <3>6. CASE w[n] < w[k]
      <4>1. ASSUME NEW j \in 1 .. n PROVE w[j] <= w[k] /\ (w[j] = w[k] => j <= k)
        <5>1. CASE j = n
          BY <3>4, <3>6, <5>1
        <5>2. CASE j \in 1 .. n - 1
          BY <3>3, <5>2
        <5> QED
          BY <3>4, <5>1, <5>2
      <4> QED
        BY <2>2, <3>4, <4>1
    <3> QED
      BY <3>4, <3>5, <3>6
  <2> QED
    BY <2>3, <2>4
<1>2. L \in 1 .. L
  OBVIOUS
<1> QED
  BY <1>1, <1>2

\* A sequence of answers that is not empty has a most-work chain.
LEMMA BestPosition ==
  ASSUME Typed, driver.states # << >>
  PROVE  /\ best_position \in Positions
         /\ \A j \in Positions : blocks(driver.states[j]) <= blocks(best)
<1> DEFINE w == [k \in Positions |-> Len(driver.states[k].tip)]
<1>1. Len(driver.states) \in Nat \ {0} /\ Positions = 1 .. Len(driver.states)
  BY EmptySeq DEF Typed, Positions
<1>2. \A k \in Positions : driver.states[k] \in Infos
  BY <1>1 DEF Typed
<1>3. \A k \in Positions : driver.states[k].tip \in Chain /\ Len(driver.states[k].tip) \in Nat
  BY <1>2 DEF Infos, Chain
<1>4. w \in [1 .. Len(driver.states) -> Nat]
  BY <1>1, <1>3
<1>5. PICK k \in 1 .. Len(driver.states) :
        \A j \in 1 .. Len(driver.states) : w[j] <= w[k] /\ (w[j] = w[k] => j <= k)
  <2> HIDE DEF w
  <2> QED
    BY <1>1, <1>4, LastGreatest
<1>6. k \in Positions /\ \A j \in Positions :
        \/ blocks(driver.states[j]) < blocks(driver.states[k])
        \/ blocks(driver.states[j]) = blocks(driver.states[k]) /\ j <= k
  <2>1. k \in Positions
    BY <1>1
  <2>2. \A j \in Positions : w[j] = blocks(driver.states[j]) /\ blocks(driver.states[j]) \in Nat
    BY <1>3 DEF blocks
  <2>3. \A j \in Positions : w[j] <= w[k] /\ (w[j] = w[k] => j <= k)
    BY <1>1, <1>5
  <2> HIDE DEF w
  <2> QED
    BY <2>1, <2>2, <2>3
<1>7. /\ best_position \in Positions
      /\ \A j \in Positions :
           \/ blocks(driver.states[j]) < blocks(best)
           \/ blocks(driver.states[j]) = blocks(best) /\ j <= best_position
  BY <1>6 DEF best_position, best
<1>8. \A j \in Positions : blocks(driver.states[j]) \in Nat
  BY <1>3 DEF blocks
<1> QED
  BY <1>7, <1>8 DEF best

\* The greater of two integers.
LEMMA MaxOfTwo ==
  ASSUME NEW a \in Int, NEW b \in Int
  PROVE  Max({a, b}) \in Int /\ Max({a, b}) >= a /\ Max({a, b}) >= b
<1>1. \E x \in {a, b} : \A y \in {a, b} : x >= y
  OBVIOUS
<1>2. Max({a, b}) \in {a, b} /\ \A y \in {a, b} : Max({a, b}) >= y
  BY <1>1 DEF Max
<1> QED
  BY <1>2

-----------------------------------------------------------------------------
\* The variables of a round that has not begun.
LEMMA RoundFields ==
  ASSUME NEW t, NEW r, NEW pc, NEW d, d = NewRound(pc, t, r)
  PROVE  /\ DOMAIN d = DriverFields
         /\ d.pc = pc /\ d.next = 1 /\ d.states = << >> /\ d.position = 0
         /\ d.stranded = 0 /\ d.target = 0 /\ d.mined_tip = t
  BY DEF NewRound, DriverFields

\* Nothing has been mined or asked at the beginning.
LEMMA AgreementInit == Init => Agreement
<1> SUFFICES ASSUME Init PROVE Agreement
  OBVIOUS
<1>1. /\ DOMAIN driver = DriverFields
      /\ driver.pc = "snapshot" /\ driver.next = 1 /\ driver.states = << >>
      /\ driver.position = 0 /\ driver.stranded = 0 /\ driver.target = 0
      /\ driver.mined_tip = NoTip
  BY RoundFields DEF Init
<1>2. NoTip \in Seq(Int) /\ << >> \in Seq(Infos) /\ Len(<< >>) = 0
  BY DEF NoTip
<1>3. pruneheight \in [Node -> Int]
  BY DEF Init, NotPruning
<1>4. Typed
  <2>1. chain \in [Node -> Chain] /\ answering \subseteq Node
    BY DEF Init, Chain
  <2>2. driver.next \in 1 .. N + 1 /\ 0 \in 0 .. Len(driver.states)
    BY <1>1, <1>2
  <2> QED
    BY <1>1, <1>2, <1>3, <2>1, <2>2 DEF Typed
<1>5. InOrder /\ SameOrAhead /\ AgreementIsReal
  BY <1>1, <1>2 DEF InOrder, Positions, SameOrAhead, AgreementIsReal, At
<1> QED
  BY <1>4, <1>5 DEF Agreement

-----------------------------------------------------------------------------
\* A step of the driver after the snapshot that only works on its answers.
LEMMA DriverMoves ==
  ASSUME Agreement, UNCHANGED <<chain, pruneheight, answering>>,
         driver.pc \in {"snapshot", "next", "search"}, driver.next > N \/ driver.pc # "snapshot",
         DOMAIN driver' = DOMAIN driver, driver'.next = driver.next,
         driver'.states = driver.states, driver'.mined_tip = driver.mined_tip,
         driver'.position \in 0 .. Len(driver.states),
         driver'.stranded \in 0 .. Len(driver.states),
         driver'.target \in Int,
         driver'.pc \in {"next", "search", "gave_up", "extend"},
         driver'.pc = "extend" => driver.states # << >>
  PROVE  Agreement'
<1>1. driver.next = N + 1
  <2>1. /\ driver.next \in 1 .. N + 1 /\ N \in Nat
        /\ driver.pc \in {"next", "search"} => driver.next = N + 1
    BY DEF Agreement, Typed
  <2>2. CASE driver.next > N
    <3> DEFINE next == driver.next
    <3>1. next \in Nat /\ next <= N + 1 /\ next > N
      BY <2>1, <2>2
    <3> HIDE DEF next
    <3>2. next = N + 1
      BY <2>1, <3>1
    <3> QED
      BY <3>2 DEF next
  <2>3. CASE driver.pc # "snapshot"
    BY <2>1, <2>3
  <2> QED
    BY <2>2, <2>3
<1>2. Typed'
  BY <1>1 DEF Agreement, Typed
<1>3. InOrder' /\ Positions' = Positions
  BY DEF Agreement, InOrder, Positions
<1>4. SameOrAhead'
  BY <1>3 DEF Agreement, SameOrAhead, AllSame, Ahead
<1> QED
  BY <1>2, <1>3, <1>4 DEF Agreement, AgreementIsReal, At

\* The driver bisects, judges, gives up, or asks for the highest chain.
LEMMA JudgingSteps ==
  ASSUME Agreement,
         \/ StartSearch \/ AskLagging \/ AskBest \/ SearchFails \/ Judge \/ GiveUp
         \/ \E height \in 0 .. Tallest(Node) : HighestKnown(height)
  PROVE  Agreement'
<1>1. /\ DOMAIN driver = DriverFields /\ driver.states \in Seq(Infos)
      /\ driver.position \in 0 .. Len(driver.states)
      /\ driver.stranded \in 0 .. Len(driver.states)
      /\ driver.target \in Int
      /\ Positions = 1 .. Len(driver.states) /\ Len(driver.states) \in Nat
  BY DEF Agreement, Typed, Positions
<1>2. CASE StartSearch
  <2>1. PICK k \in Positions :
          driver' = [driver EXCEPT
            !.pc = "search", !.position = k, !.shared = 0,
            !.unshared = Lower(blocks(driver.states[k]), blocks(best)) + 1]
    BY <1>2 DEF StartSearch
  <2>2. UNCHANGED <<chain, pruneheight, answering>> /\ (At("snapshot") => driver.next > N)
        /\ (At("snapshot") \/ At("next"))
    BY <1>2 DEF StartSearch, At
  <2> QED
    BY <1>1, <2>1, <2>2, DriverMoves DEF At, DriverFields
<1>3. CASE AskLagging
  <2>1. /\ At("search") /\ UNCHANGED <<chain, pruneheight, answering>>
        /\ driver' = [driver EXCEPT !.hash = BlockHash(chain[lagging.index], halfway)]
    BY <1>3 DEF AskLagging, Searching
  <2> QED
    BY <1>1, <2>1, DriverMoves DEF At, DriverFields
<1>4. CASE AskBest
  <2>1. /\ At("search") /\ UNCHANGED <<chain, pruneheight, answering>>
        /\ \/ driver' = [driver EXCEPT !.hash = NoTip, !.shared = halfway]
           \/ driver' = [driver EXCEPT !.hash = NoTip, !.unshared = halfway]
    BY <1>4 DEF AskBest, Searching
  <2> QED
    BY <1>1, <2>1, DriverMoves DEF At, DriverFields
<1>5. CASE SearchFails
  <2>1. /\ At("search") /\ UNCHANGED <<chain, pruneheight, answering>>
        /\ driver' = [driver EXCEPT !.pc = "next", !.hash = NoTip, !.shared = 0, !.unshared = 0]
    BY <1>5 DEF SearchFails, Searching
  <2> QED
    BY <1>1, <2>1, DriverMoves DEF At, DriverFields
<1>6. CASE Judge
  <2>1. /\ At("search") /\ UNCHANGED <<chain, pruneheight, answering>>
        /\ DOMAIN driver' = DOMAIN driver /\ driver'.next = driver.next
        /\ driver'.states = driver.states /\ driver'.mined_tip = driver.mined_tip
        /\ driver'.position = driver.position /\ driver'.target = driver.target
        /\ driver'.stranded \in {driver.stranded, driver.position}
        /\ driver'.pc = "next"
    BY <1>1, <1>6 DEF Judge, DriverFields
  <2> QED
    BY <1>1, <2>1, DriverMoves DEF At
<1>7. CASE GiveUp
  <2>1. /\ At("snapshot") \/ At("next")
        /\ At("snapshot") => driver.next > N
        /\ UNCHANGED <<chain, pruneheight, answering>>
        /\ driver' = [driver EXCEPT !.pc = "gave_up"]
    BY <1>7 DEF GiveUp, RoundTaken, At
  <2> QED
    BY <1>1, <2>1, DriverMoves DEF At, DriverFields
<1>8. ASSUME NEW height \in 0 .. Tallest(Node), HighestKnown(height) PROVE Agreement'
  <2>1. /\ At("snapshot") \/ At("next")
        /\ At("snapshot") => driver.next > N
        /\ UNCHANGED <<chain, pruneheight, answering>> /\ driver.states # << >>
        /\ driver' = [driver EXCEPT !.pc = "extend", !.target = height]
    BY <1>8 DEF HighestKnown, RoundTaken, At
  <2>2. height \in Int
    OBVIOUS
  <2> QED
    BY <1>1, <2>1, <2>2, DriverMoves DEF At, DriverFields
<1> QED
  BY <1>2, <1>3, <1>4, <1>5, <1>6, <1>7, <1>8

\* A node whose chain is added to the snapshot, or that does not answer.
LEMMA SnapshotStep ==
  ASSUME Agreement, TakeSnapshot
  PROVE  Agreement'
<1> DEFINE n == driver.next
<1>1. /\ UNCHANGED <<chain, pruneheight, answering>>
      /\ driver.pc = "snapshot" /\ n \in Node
      /\ driver' = [driver EXCEPT
           !.next = @ + 1, !.states = IF n \in answering THEN Append(@, Info(n)) ELSE @]
  BY DEF TakeSnapshot, At, Agreement, Typed
<1>2. /\ DOMAIN driver' = DriverFields /\ driver'.pc = "snapshot" /\ driver'.next = n + 1
      /\ driver'.states = IF n \in answering THEN Append(driver.states, Info(n))
                          ELSE driver.states
      /\ driver'.mined_tip = driver.mined_tip /\ driver'.position = driver.position
      /\ driver'.stranded = driver.stranded /\ driver'.target = driver.target
  BY <1>1 DEF Agreement, Typed, DriverFields
<1> HIDE DEF n
<1>3. /\ Info(n) \in Infos /\ Info(n).index = n /\ Info(n).tip = chain[n]
      /\ driver.states \in Seq(Infos) /\ Len(driver.states) \in Nat /\ n \in Nat
      /\ DOMAIN driver.states = 1 .. Len(driver.states)
  BY <1>1 DEF Info, Infos, Agreement, Typed
<1>4. /\ Append(driver.states, Info(n)) \in Seq(Infos)
      /\ Len(Append(driver.states, Info(n))) = Len(driver.states) + 1
      /\ Append(driver.states, Info(n))[Len(driver.states) + 1] = Info(n)
      /\ \A k \in 1 .. Len(driver.states) :
           Append(driver.states, Info(n))[k] = driver.states[k]
  BY <1>3
<1>5. Typed'
  <2>1. driver'.states \in Seq(Infos)
        /\ Len(driver'.states) \in {Len(driver.states), Len(driver.states) + 1}
    BY <1>2, <1>3, <1>4
  <2>2. driver'.next \in 1 .. N + 1
    BY <1>1, <1>2
  <2>3. driver'.position \in 0 .. Len(driver'.states)
        /\ driver'.stranded \in 0 .. Len(driver'.states)
    <3>1. driver.position \in 0 .. Len(driver.states) /\ driver.stranded \in 0 .. Len(driver.states)
      BY DEF Agreement, Typed
    <3>2. Len(driver'.states) \in Nat /\ Len(driver'.states) >= Len(driver.states)
      BY <1>3, <2>1
    <3>3. \A x \in 0 .. Len(driver.states) : x \in 0 .. Len(driver'.states)
      BY <1>3, <3>2
    <3> QED
      BY <1>2, <3>1, <3>3
  <2> QED
    BY <1>1, <1>2, <2>1, <2>2, <2>3 DEF Agreement, Typed
<1>6. Len(driver.states) <= n - 1
  BY DEF Agreement, InOrder, n
<1>7. CASE n \notin answering
  <2>1. driver'.states = driver.states /\ Len(driver'.states) # driver'.next - 1
    BY <1>2, <1>3, <1>6, <1>7
  <2> QED
    BY <1>1, <1>2, <1>3, <1>5, <1>6, <2>1
    DEF Agreement, InOrder, SameOrAhead, AllSame, AgreementIsReal, At
<1>8. CASE n \in answering
  <2>1. driver'.states = Append(driver.states, Info(n))
    BY <1>2, <1>8
  <2>2. /\ Len(driver'.states) = Len(driver.states) + 1
        /\ Positions' = 1 .. Len(driver.states) + 1 /\ Positions = 1 .. Len(driver.states)
        /\ driver'.states[Len(driver.states) + 1] = Info(n)
        /\ \A k \in Positions : driver'.states[k] = driver.states[k]
    BY <1>4, <2>1 DEF Positions
  <2>3. Len(driver'.states) = driver'.next - 1 <=> Len(driver.states) = n - 1
    BY <1>2, <1>3, <2>2
  <2>4. \A k \in Positions' : k \in Positions \/ k = Len(driver.states) + 1
    BY <1>3, <2>2
  <2>5. InOrder'
    <3>1. Len(driver.states) = n - 1 => \A k \in Positions : driver.states[k].index = k
      BY DEF Agreement, InOrder, n
    <3> QED
      BY <1>2, <1>3, <1>6, <2>2, <2>3, <2>4, <3>1 DEF InOrder
  <2>6. SameOrAhead'
    <3> SUFFICES ASSUME AllSame'
                 PROVE  Ahead' \/ \A x \in Node : x < n + 1 => chain[x] = driver.mined_tip
      BY <1>1, <1>2 DEF SameOrAhead
    <3>1. Len(driver.states) = n - 1 /\ Len(driver.states) + 1 = n
      BY <1>3, <2>3 DEF AllSame
    <3>2. \A k \in Positions' : driver'.states[k].tip = driver.mined_tip
      BY <1>2 DEF AllSame
    <3>3. chain[n] = driver.mined_tip
      <4>1. n \in Positions' /\ driver'.states[n] = Info(n)
        BY <1>3, <2>2, <3>1
      <4> QED
        BY <1>3, <3>2, <4>1
    <3>4. AllSame
      <4>1. \A k \in Positions : k \in Positions'
        BY <1>3, <2>2
      <4> QED
        BY <2>2, <3>1, <3>2, <4>1 DEF AllSame, n
    <3>5. CASE \A x \in Node : x < n => chain[x] = driver.mined_tip
      <4>1. \A x \in Node : x < n + 1 => x < n \/ x = n
        BY <1>3
      <4> QED
        BY <3>3, <3>5, <4>1
    <3>6. CASE Ahead
      <4>1. PICK m \in Node : m >= n /\ Len(chain[m]) > Len(driver.mined_tip)
        BY <3>6 DEF Ahead, n
      <4>2. Len(driver.mined_tip) \in Nat
        BY DEF Agreement, Typed
      <4>3. m # n
        BY <3>3, <4>1, <4>2
      <4>4. m >= n + 1
        BY <1>3, <4>1, <4>3
      <4> QED
        BY <1>1, <1>2, <4>1, <4>4 DEF Ahead
    <3> QED
      BY <1>1, <3>4, <3>5, <3>6 DEF Agreement, SameOrAhead, n
  <2> QED
    BY <1>2, <1>5, <2>5, <2>6 DEF Agreement, AgreementIsReal, At
<1> QED
  BY <1>7, <1>8

\* The verdict that all nodes agree: with nobody left to ask, nobody is ahead.
LEMMA ConvergedStep ==
  ASSUME Agreement, Converged
  PROVE  Agreement'
<1>1. /\ UNCHANGED <<chain, pruneheight, answering>> /\ all_at
      /\ driver.pc \in {"snapshot", "next"}
      /\ driver.pc = "snapshot" => driver.next > N
      /\ driver' = [driver EXCEPT !.pc = "converged"]
  BY DEF Converged, RoundTaken, At
<1>2. /\ DOMAIN driver' = DriverFields /\ driver'.pc = "converged"
      /\ driver'.next = driver.next /\ driver'.states = driver.states
      /\ driver'.mined_tip = driver.mined_tip /\ driver'.position = driver.position
      /\ driver'.stranded = driver.stranded /\ driver'.target = driver.target
  BY <1>1 DEF Agreement, Typed, DriverFields
<1>3. driver.next = N + 1
  BY <1>1 DEF Agreement, Typed
<1>4. AllSame
  BY <1>1, <1>3 DEF all_at, complete, reachable_at, AllSame
<1>5. ~ Ahead
  BY <1>3 DEF Ahead
<1>6. \A n \in Node : chain[n] = driver.mined_tip
  <2>1. \A n \in Node : n < driver.next => chain[n] = driver.mined_tip
    BY <1>1, <1>4, <1>5 DEF Agreement, SameOrAhead
  <2>2. \A n \in Node : n < driver.next
    BY <1>3
  <2> QED
    BY <2>1, <2>2
<1> QED
  BY <1>1, <1>2, <1>3, <1>6
  DEF Agreement, Typed, InOrder, Positions, SameOrAhead, AgreementIsReal

-----------------------------------------------------------------------------
\* The blocks that the driver gets mined are blocks.
LEMMA MinedIsChain ==
  ASSUME Agreement, At("extend"), miner \in answering
  PROVE  mined \in Chain /\ mined \in Seq(Int) /\ miner \in Node
<1>1. /\ driver.states \in Seq(Infos) /\ driver.states # << >> /\ driver.target \in Int
      /\ Positions = 1 .. Len(driver.states) /\ Len(driver.states) \in Nat
      /\ miner \in Node /\ chain[miner] \in Chain
  BY DEF Agreement, Typed, Positions, At
<1>2. extend \in Positions
  <2>1. driver.stranded \in 0 .. Len(driver.states)
    BY DEF Agreement, Typed
  <2>2. CASE driver.stranded # 0
    BY <1>1, <2>1, <2>2 DEF extend
  <2>3. CASE driver.stranded = 0
    BY <1>1, <2>3, BestPosition DEF extend, Agreement
  <2> QED
    BY <2>2, <2>3
<1>3. driver.states[extend] \in Infos
  BY <1>1, <1>2
<1>4. blocks(driver.states[extend]) \in Nat
  BY <1>3 DEF blocks, Infos, Chain
<1> DEFINE h == blocks(driver.states[extend])
<1> DEFINE b == blocks_to_mine(h)
<1> DEFINE top == Max({driver.target, h})
<1>5. b \in Nat
  <2>1. h \in Int /\ driver.target \in Int
    BY <1>1, <1>4
  <2> HIDE DEF h
  <2>2. top \in Int
    BY <2>1, MaxOfTwo
  <2>3. b = Max({top + 1 - h, 1})
    BY DEF blocks_to_mine
  <2> HIDE DEF top, b
  <2>4. top + 1 - h \in Int /\ 1 \in Int
    BY <2>1, <2>2
  <2>5. b \in Int /\ b >= 1
    BY <2>3, <2>4, MaxOfTwo
  <2> QED
    BY <2>5
<1> HIDE DEF b
<1>6. [k \in 1 .. b |-> miner] \in Chain
  BY <1>1, <1>5 DEF Chain
<1>7. mined = chain[miner] \o [k \in 1 .. b |-> miner]
  BY DEF mined, b, h
<1>8. mined \in Chain
  BY <1>1, <1>6, <1>7 DEF Chain
<1>9. mined \in Seq(Int)
  <2>1. Miners \subseteq Int
    OBVIOUS
  <2> QED
    BY <1>8, <2>1, SeqMonotonic DEF Chain
<1> QED
  BY <1>1, <1>8, <1>9

\* The driver goes to sleep, with or without a block mined, and starts over.
LEMMA SleepSteps ==
  ASSUME Agreement, OnlyWait \/ Extend \/ ExtendFails \/ ExtendReplyLost \/ Wait
  PROVE  Agreement'
<1>1. CASE OnlyWait \/ Extend \/ ExtendFails \/ ExtendReplyLost
  <2>1. PICK tip \in Seq(Int) : driver' = Sleep(tip)
    <3>1. driver.mined_tip \in Seq(Int)
      BY DEF Agreement, Typed
    <3> QED
      BY <1>1, <3>1, MinedIsChain DEF OnlyWait, Extend, ExtendFails, ExtendReplyLost
  <2>2. chain' \in [Node -> Chain] /\ pruneheight' \in [Node -> Int] /\ answering' \subseteq Node
    <3>1. chain \in [Node -> Chain] /\ pruneheight \in [Node -> Int] /\ answering \subseteq Node
      BY DEF Agreement, Typed
    <3> QED
      BY <1>1, <3>1, MinedIsChain DEF OnlyWait, Extend, ExtendFails, ExtendReplyLost
  <2>3. /\ DOMAIN driver' = DriverFields
        /\ driver'.pc = "wait" /\ driver'.next = 1 /\ driver'.states = << >>
        /\ driver'.position = 0 /\ driver'.stranded = 0 /\ driver'.target = 0
        /\ driver'.mined_tip = tip
    BY <2>1, RoundFields DEF Sleep
  <2>4. << >> \in Seq(Infos) /\ Len(<< >>) = 0 /\ 1 \in 1 .. N + 1
    OBVIOUS
  <2>5. Typed'
    BY <2>2, <2>3, <2>4 DEF Typed
  <2>6. InOrder'
    BY <2>3, <2>4 DEF InOrder, Positions
  <2>7. SameOrAhead' /\ AgreementIsReal'
    BY <2>3 DEF SameOrAhead, AgreementIsReal, At
  <2> QED
    BY <2>5, <2>6, <2>7 DEF Agreement
<1>2. CASE Wait
  <2>1. /\ UNCHANGED <<chain, pruneheight, answering>> /\ driver.pc = "wait"
        /\ driver' = [driver EXCEPT !.pc = "snapshot", !.rounds = @ + 1]
    BY <1>2 DEF Wait, nodes, At
  <2>2. /\ DOMAIN driver' = DriverFields /\ driver'.pc = "snapshot"
        /\ driver'.next = 1 /\ driver'.states = << >>
        /\ driver'.mined_tip = driver.mined_tip /\ driver'.position = driver.position
        /\ driver'.stranded = driver.stranded /\ driver'.target = driver.target
        /\ driver.states = << >>
    BY <2>1 DEF Agreement, Typed, DriverFields
  <2>3. \A n \in Node : ~ (n < 1)
    OBVIOUS
  <2> QED
    BY <2>1, <2>2, <2>3
    DEF Agreement, Typed, InOrder, Positions, SameOrAhead, AgreementIsReal, At
<1> QED
  BY <1>1, <1>2

-----------------------------------------------------------------------------
\* A node follows a longer chain.  If it had been asked and was at the block
\* mined last, then that chain belongs to a node that is still to be asked.
LEMMA FollowStep ==
  ASSUME Agreement, NEW n \in Node, NEW m \in Node, Follow(n, m)
  PROVE  Agreement'
<1>1. /\ Len(chain[m]) > Len(chain[n])
      /\ UNCHANGED <<pruneheight, answering, driver>>
  BY DEF Follow, CanFollow
<1>2. PICK height \in Len(chain[n]) + 1 .. Len(chain[m]) :
        chain' = [chain EXCEPT ![n] = BlockHash(chain[m], height)]
  BY DEF Follow
<1>3. /\ \A x \in Node : chain[x] \in Chain /\ Len(chain[x]) \in Nat
      /\ Len(driver.mined_tip) \in Nat /\ driver.next \in Nat
  <2>1. chain \in [Node -> Chain] /\ driver.mined_tip \in Seq(Int) /\ driver.next \in 1 .. N + 1
    BY DEF Agreement, Typed
  <2>2. \A x \in Node : chain[x] \in Chain
    BY <2>1
  <2>3. \A x \in Node : Len(chain[x]) \in Nat
    BY <2>2 DEF Chain
  <2>4. Len(driver.mined_tip) \in Nat
    BY <2>1
  <2>5. driver.next \in Nat
    BY <2>1
  <2> QED
    BY <2>2, <2>3, <2>4, <2>5, Zenon
<1>4. height \in Nat /\ 1 <= height /\ height <= Len(chain[m]) /\ height > Len(chain[n])
  BY <1>2, <1>3
<1> DEFINE c == BlockHash(chain[m], height)
<1>5. c \in Chain /\ Len(c) = height
  <2>1. chain[m] \in Seq(Miners)
    BY <1>3 DEF Chain
  <2>2. \A i \in 1 .. height : chain[m][i] \in Miners
    <3> DEFINE d == chain[m]
    <3>1. d \in Seq(Miners) /\ Len(d) \in Nat /\ height <= Len(d)
      BY <1>3, <1>4, <2>1
    <3> HIDE DEF d
    <3>2. \A i \in 1 .. Len(d) : d[i] \in Miners
      BY <3>1
    <3>3. \A i \in 1 .. height : i \in 1 .. Len(d)
      BY <1>4, <3>1
    <3> QED
      BY <3>2, <3>3 DEF d
  <2> DEFINE low == 1
  <2>3. low \in Int /\ height \in Int /\ height - low + 1 = height /\ low <= height
    BY <1>4
  <2>4. \A i \in low .. height : chain[m][i] \in Miners
    BY <2>2
  <2> HIDE DEF low
  <2>5. /\ SubSeq(chain[m], low, height) \in Seq(Miners)
        /\ Len(SubSeq(chain[m], low, height)) = IF low <= height THEN height - low + 1 ELSE 0
    BY ONLY <2>3, <2>4, SubSeqProperties
  <2> QED
    BY <2>3, <2>5 DEF BlockHash, Chain, low
<1>6. /\ chain' \in [Node -> Chain]
      /\ \A x \in Node : x # n => chain'[x] = chain[x]
      /\ chain'[n] = c /\ Len(chain'[n]) > Len(chain[n])
  <2>1. chain \in [Node -> Chain] /\ chain' = [chain EXCEPT ![n] = c]
    BY <1>2 DEF Agreement, Typed
  <2> HIDE DEF c
  <2>2. chain' \in [Node -> Chain]
    BY <1>5, <2>1
  <2>3. chain'[n] = c /\ \A x \in Node : x # n => chain'[x] = chain[x]
    BY <2>1
  <2> QED
    BY <1>4, <1>5, <2>2, <2>3
<1> HIDE DEF c
<1>7. \A x \in Node : Len(chain'[x]) \in Nat /\ Len(chain'[x]) >= Len(chain[x])
  <2> TAKE x \in Node
  <2>1. CASE x = n
    BY <1>3, <1>4, <1>5, <1>6, <2>1
  <2>2. CASE x # n
    BY <1>3, <1>6, <2>2
  <2> QED
    BY <2>1, <2>2
<1>8. Typed' /\ InOrder'
  BY <1>1, <1>6 DEF Agreement, Typed, InOrder, Positions
<1>9. ASSUME Ahead PROVE Ahead'
  <2>1. PICK x \in Node : x >= driver.next /\ Len(chain[x]) > Len(driver.mined_tip)
    BY <1>9 DEF Ahead
  <2>2. Len(chain'[x]) > Len(driver.mined_tip)
    <3> DEFINE later == Len(chain'[x])
               now == Len(chain[x])
               tip == Len(driver.mined_tip)
    <3>1. later \in Nat /\ now \in Nat /\ tip \in Nat /\ later >= now /\ now > tip
      BY <1>3, <1>7, <2>1
    <3> HIDE DEF later, now, tip
    <3>2. later > tip
      BY <3>1
    <3> QED
      BY <3>2 DEF later, tip
  <2> QED
    BY <1>1, <2>1, <2>2 DEF Ahead
<1>10. ASSUME \A x \in Node : x < driver.next => chain[x] = driver.mined_tip
       PROVE  Ahead' \/ \A x \in Node : x < driver.next => chain'[x] = driver.mined_tip
  <2>1. CASE n < driver.next
    <3>1. Len(chain[m]) > Len(driver.mined_tip) /\ m # n
      <4>1. chain[n] = driver.mined_tip
        BY <1>10, <2>1
      <4>2. Len(chain[m]) > Len(driver.mined_tip)
        BY <1>1, <4>1, Zenon
      <4> DEFINE tip == Len(driver.mined_tip)
      <4>3. tip \in Nat
        BY <1>3
      <4> HIDE DEF tip
      <4>4. ~ (tip > tip)
        BY <4>3
      <4>5. m # n
        BY <4>1, <4>2, <4>4, Zenon DEF tip
      <4> QED
        BY <4>2, <4>5
    <3>2. ~ (m < driver.next)
      <4> SUFFICES ASSUME m < driver.next PROVE FALSE
        OBVIOUS
      <4>1. chain[m] = driver.mined_tip
        BY <1>10
      <4> DEFINE tip == Len(driver.mined_tip)
      <4>2. tip \in Nat /\ tip > tip
        BY <1>3, <3>1, <4>1
      <4> HIDE DEF tip
      <4> QED
        BY <4>2
    <3>3. m >= driver.next
      <4>1. m \in Nat /\ driver.next \in Nat
        BY <1>3
      <4> QED
        BY <3>2, <4>1
    <3>4. chain'[m] = chain[m] /\ driver' = driver
      BY <1>1, <1>6, <3>1
    <3> QED
      BY <3>1, <3>3, <3>4, Zenon DEF Ahead
  <2>2. CASE ~ (n < driver.next)
    BY <1>6, <1>10, <2>2
  <2> QED
    BY <2>1, <2>2
<1>11. SameOrAhead'
  BY <1>1, <1>9, <1>10 DEF Agreement, SameOrAhead, AllSame, Positions
<1>12. AgreementIsReal'
  <2> SUFFICES ASSUME At("converged") PROVE FALSE
    BY <1>1 DEF AgreementIsReal, At
  <2>1. chain[m] = chain[n]
    BY DEF Agreement, AgreementIsReal
  <2> QED
    BY <1>1, <1>3, <2>1
<1> QED
  BY <1>8, <1>11, <1>12 DEF Agreement

\* What else happens to the nodes changes no chain.
LEMMA FaultSteps ==
  ASSUME Agreement,
         \/ Settle
         \/ \E n \in Node : \/ StopAnswering(n) \/ StartAnswering(n)
                            \/ \E height \in 1 .. Len(chain[n]) : Prune(n, height)
  PROVE  Agreement'
<1>1. /\ UNCHANGED <<chain, driver>>
      /\ pruneheight' \in [Node -> Int] /\ answering' \subseteq Node
  <2>1. pruneheight \in [Node -> Int] /\ answering \subseteq Node
    BY DEF Agreement, Typed
  <2>2. CASE Settle
    BY <2>1, <2>2 DEF Settle
  <2>3. ASSUME NEW n \in Node, StopAnswering(n) \/ StartAnswering(n)
        PROVE  /\ UNCHANGED <<chain, driver>>
               /\ pruneheight' \in [Node -> Int] /\ answering' \subseteq Node
    BY <2>1, <2>3 DEF StopAnswering, StartAnswering
  <2>4. ASSUME NEW n \in Node, NEW height \in 1 .. Len(chain[n]), Prune(n, height)
        PROVE  /\ UNCHANGED <<chain, driver>>
               /\ pruneheight' \in [Node -> Int] /\ answering' \subseteq Node
    BY <2>1, <2>4 DEF Prune
  <2> QED
    BY <2>2, <2>3, <2>4
<1> QED
  BY <1>1 DEF Agreement, Typed, InOrder, Positions, SameOrAhead, AllSame, Ahead,
              AgreementIsReal, At

-----------------------------------------------------------------------------
HIDE DEF Node, Miners

\* What an answer of the snapshot is made of.
LEMMA Answers ==
  ASSUME Typed, NEW k \in Positions
  PROVE  LET info == driver.states[k] IN
         /\ info.index \in Node /\ info.tip \in Chain /\ info.pruneheight \in Int
         /\ blocks(info) = Len(info.tip) /\ blocks(info) \in Nat
<1>1. driver.states[k] \in Infos
  BY DEF Typed, Positions
<1>2. \A info \in Infos : info.index \in Node /\ info.tip \in Chain /\ info.pruneheight \in Int
  BY DEF Infos
<1>3. \A c \in Chain : Len(c) \in Nat
  BY DEF Chain
<1> QED
  BY <1>1, <1>2, <1>3 DEF blocks

\* A node that is where the snapshot saw it.
LEMMA StillThere ==
  ASSUME NEW k, Still(k)
  PROVE  LET info == driver.states[k] IN
         chain[info.index] = info.tip /\ pruneheight[info.index] = info.pruneheight
  BY DEF Still, Info

\* What the driver derives from its snapshot stays with the snapshot.
LEMMA SameAnswers ==
  ASSUME driver'.states = driver.states
  PROVE  /\ Positions' = Positions /\ best' = best /\ best_position' = best_position
         /\ best_chain' = best_chain
<1>1. Positions' = Positions
  BY DEF Positions
<1>2. best_position' = best_position
  BY <1>1 DEF best_position
<1>3. best' = best
  BY <1>2 DEF best
<1> QED
  BY <1>1, <1>2, <1>3 DEF best_chain

\* The hash at a height is as long as the height.
LEMMA HashIsChain ==
  ASSUME NEW c \in Chain, NEW h \in 0 .. Len(c)
  PROVE  BlockHash(c, h) \in Chain /\ Len(BlockHash(c, h)) = h
BY DEF BlockHash, Chain

\* Below a block that two chains share they share everything.
LEMMA SharedBelow ==
  ASSUME NEW c \in Chain, NEW d \in Chain, NEW h \in Nat, h <= Len(c), h <= Len(d),
         BlockHash(c, h) = BlockHash(d, h), NEW k \in 0 .. h
  PROVE  BlockHash(c, k) = BlockHash(d, k)
<1>1. c \in Seq(Miners) /\ d \in Seq(Miners) /\ Len(c) \in Nat /\ Len(d) \in Nat
  BY DEF Chain
<1>2. /\ SubSeq(c, 1, h) = [i \in 1 .. h |-> c[i]] /\ SubSeq(d, 1, h) = [i \in 1 .. h |-> d[i]]
      /\ SubSeq(c, 1, k) = [i \in 1 .. k |-> c[i]] /\ SubSeq(d, 1, k) = [i \in 1 .. k |-> d[i]]
  BY <1>1
<1>3. \A i \in 1 .. k : i \in 1 .. h
  BY <1>1
<1>4. \A i \in 1 .. h : c[i] = d[i]
  <2>1. [i \in 1 .. h |-> c[i]] = [i \in 1 .. h |-> d[i]]
    BY <1>2 DEF BlockHash
  <2> QED
    BY <2>1
<1>5. [i \in 1 .. k |-> c[i]] = [i \in 1 .. k |-> d[i]]
  BY <1>3, <1>4
<1> QED
  BY <1>2, <1>5 DEF BlockHash

\* Two heights next to each other that enclose the fork are its place.
LEMMA ForkEnclosed ==
  ASSUME NEW c \in Chain, NEW d \in Chain, NEW low \in Nat, low <= Lower(Len(c), Len(d)),
         Encloses(low, low + 1, c, d)
  PROVE  ForkOf(c, d) = low
<1> DEFINE top == Lower(Len(c), Len(d))
           S == {h \in 0 .. top : BlockHash(c, h) = BlockHash(d, h)}
<1>1. Len(c) \in Nat /\ Len(d) \in Nat
  BY DEF Chain
<1>2. top \in Nat /\ top <= Len(c) /\ top <= Len(d)
  BY <1>1 DEF Lower
<1>3. low \in S
  BY <1>2 DEF Encloses
<1>4. \A h \in S : h <= low
  <2> SUFFICES ASSUME NEW h \in S, ~ (h <= low) PROVE FALSE
    OBVIOUS
  <2>1. h \in Nat /\ h <= Len(c) /\ h <= Len(d) /\ low + 1 \in 0 .. h /\ low + 1 <= top
    BY <1>1, <1>2
  <2>2. BlockHash(c, low + 1) = BlockHash(d, low + 1)
    BY <2>1, SharedBelow
  <2> QED
    BY <2>1, <2>2 DEF Encloses
<1>5. ForkOf(c, d) = Max(S)
  BY DEF ForkOf
<1> HIDE DEF S
<1>6. S \subseteq Int
  BY DEF S
<1>7. Max(S) \in S /\ \A h \in S : Max(S) >= h
  BY <1>3, <1>4, <1>6 DEF Max
<1>8. Max(S) <= low /\ Max(S) >= low /\ Max(S) \in Int
  BY <1>3, <1>4, <1>6, <1>7
<1> QED
  <2> DEFINE m == Max(S)
  <2>1. m <= low /\ m >= low /\ m \in Int
    BY <1>8
  <2> HIDE DEF m
  <2>2. m = low
    BY <2>1
  <2> QED
    BY <1>5, <2>2 DEF m

-----------------------------------------------------------------------------
\* No node moved and no fault stopped before the first round.
LEMMA JudgementInit == Init => Judgement
<1> SUFFICES ASSUME Init PROVE Judgement
  OBVIOUS
<1>1. driver = NewRound("snapshot", NoTip, 1)
  BY DEF Init
<1>2. /\ driver.pc = "snapshot" /\ driver.states = << >> /\ driver.position = 0
      /\ driver.blocked = {} /\ driver.hash = NoTip
  BY <1>1 DEF NewRound
<1>3. Positions = {}
  BY <1>2 DEF Positions
<1>4. Grown /\ Rested /\ Enclosed /\ Judged /\ ExcusedAreStuck
  BY <1>2, <1>3 DEF Grown, Rested, Enclosed, Judged, ExcusedAreStuck, At
<1>5. Calmed
  <2>1. calm = 0 /\ settled = FALSE
    BY DEF Init
  <2>2. calm \in Nat /\ ~ (calm >= 1)
    BY <2>1
  <2> QED
    BY <2>1, <2>2, Zenon DEF Calmed
<1> QED
  BY <1>4, <1>5 DEF Judgement

\* Nodes that move only get further, and are no longer where they were seen.
LEMMA NodesMove ==
  ASSUME Typed, Typed', Judgement, UNCHANGED <<driver, calm>>, Calmed',
         \A x \in Node : chain'[x] = chain[x] \/ Len(chain'[x]) > Len(chain[x]),
         \A x \in Node : pruneheight'[x] >= pruneheight[x]
  PROVE  Judgement'
<1>1. /\ Positions' = Positions /\ best' = best /\ best_position' = best_position
      /\ best_chain' = best_chain
  BY SameAnswers
<1>2. \A k \in Positions :
        LET info == driver.states[k] IN
        /\ info.index \in Node /\ Len(info.tip) \in Nat /\ info.pruneheight \in Int
        /\ pruneheight[info.index] \in Int /\ pruneheight'[info.index] \in Int
        /\ Len(chain[info.index]) \in Nat /\ Len(chain'[info.index]) \in Nat
  <2>1. \A x \in Node : /\ chain[x] \in Chain /\ chain'[x] \in Chain
                        /\ pruneheight[x] \in Int /\ pruneheight'[x] \in Int
    BY DEF Typed
  <2>2. \A c \in Chain : Len(c) \in Nat
    BY DEF Chain
  <2> QED
    BY <2>1, <2>2, Answers
<1>3. Grown'
  <2> SUFFICES ASSUME NEW k \in Positions
               PROVE  LET info == driver.states[k] IN
                      /\ info.tip = chain'[info.index] \/ Len(info.tip) < Len(chain'[info.index])
                      /\ info.pruneheight <= pruneheight'[info.index]
    BY <1>1 DEF Grown
  <2> DEFINE info == driver.states[k]
  <2>1. /\ info.tip = chain[info.index] \/ Len(info.tip) < Len(chain[info.index])
        /\ info.pruneheight <= pruneheight[info.index]
    BY DEF Judgement, Grown
  <2>2. /\ info.index \in Node /\ Len(info.tip) \in Nat /\ info.pruneheight \in Int
        /\ pruneheight[info.index] \in Int /\ pruneheight'[info.index] \in Int
        /\ Len(chain[info.index]) \in Nat /\ Len(chain'[info.index]) \in Nat
    BY <1>2
  <2> HIDE DEF info
  <2>3. info.tip = chain'[info.index] \/ Len(info.tip) < Len(chain'[info.index])
    BY <2>1, <2>2
  <2>4. info.pruneheight <= pruneheight'[info.index]
    BY <2>1, <2>2
  <2> QED
    BY <2>3, <2>4 DEF info
<1>4. ASSUME NEW k \in Positions, Still(k)'
      PROVE  /\ Still(k) /\ chain'[driver.states[k].index] = chain[driver.states[k].index]
             /\ pruneheight'[driver.states[k].index] = pruneheight[driver.states[k].index]
  <2> DEFINE info == driver.states[k]
  <2>1. info.tip = chain'[info.index] /\ info.pruneheight = pruneheight'[info.index]
        /\ info = [index |-> info.index, tip |-> info.tip, pruneheight |-> info.pruneheight]
    BY <1>4 DEF Still, Info
  <2>2. /\ info.tip = chain[info.index] \/ Len(info.tip) < Len(chain[info.index])
        /\ info.pruneheight <= pruneheight[info.index]
    BY DEF Judgement, Grown
  <2>3. chain[info.index] = info.tip /\ pruneheight[info.index] = info.pruneheight
    BY <1>2, <2>1, <2>2
  <2> QED
    BY <2>1, <2>3 DEF Still, Info
<1>5. Enclosed'
  <2> SUFFICES ASSUME At("search") PROVE Enclosed'
    BY DEF Enclosed, At
  <2>1. lagging' = lagging /\ halfway' = halfway
    BY DEF lagging, halfway
  <2>2. driver.position \in Positions /\ driver.states # << >>
    BY DEF Judgement, Enclosed, Positions
  <2>3. best_position \in Positions
    BY <2>2, BestPosition
  <2>4. /\ Still(driver.position)' => Still(driver.position)
        /\ Still(best_position)' => Still(best_position)
    <3>1. Still(best_position)' => (\A k \in Positions : k = best_position => Still(k)')
      BY <1>1 DEF Still
    <3>2. Still(driver.position)' => (\A k \in Positions : k = driver.position => Still(k)')
      BY DEF Still
    <3> QED
      BY <1>4, <2>2, <2>3, <3>1, <3>2
  <2> QED
    BY <1>1, <2>1, <2>2, <2>4 DEF Judgement, Enclosed, At
<1>6. ExcusedAreStuck'
  <2> SUFFICES ASSUME Accurate', NEW k \in driver.blocked, NEW j \in best_chain
               PROVE  ~ CanFollow(driver.states[k].index, driver.states[j].index)'
    BY <1>1 DEF ExcusedAreStuck
  <2>1. k \in Positions /\ j \in Positions
    BY DEF Judgement, Rested, best_chain
  <2>2. complete /\ \A i \in Positions : Still(i)'
    BY <1>1 DEF Accurate, Still, complete
  <2>3. \A i \in Positions : Still(i)
    BY <1>4, <2>2
  <2>4. Accurate
    BY <2>2, <2>3 DEF Accurate, Still
  <2>5. ~ CanFollow(driver.states[k].index, driver.states[j].index)
    BY <2>4 DEF Judgement, ExcusedAreStuck
  <2>6. /\ chain'[driver.states[k].index] = chain[driver.states[k].index]
        /\ chain'[driver.states[j].index] = chain[driver.states[j].index]
        /\ pruneheight'[driver.states[k].index] = pruneheight[driver.states[k].index]
        /\ pruneheight'[driver.states[j].index] = pruneheight[driver.states[j].index]
    BY <1>4, <2>1, <2>2
  <2> QED
    BY <2>5, <2>6 DEF CanFollow
<1>7. Rested' /\ Judged'
  BY <1>1 DEF Judgement, Rested, Judged, Passed
<1> QED
  BY <1>3, <1>5, <1>6, <1>7 DEF Judgement

\* After a calm round no node follows another, so nobody moves; before one,
\* faults still can.
LEMMA NodesJudgement ==
  ASSUME Agreement, Agreement', Judgement,
         \/ Settle
         \/ \E n, m \in Node : Follow(n, m)
         \/ \E n \in Node : \/ StopAnswering(n) \/ StartAnswering(n)
                            \/ \E height \in 1 .. Len(chain[n]) : Prune(n, height)
  PROVE  Judgement'
<1>1. Typed /\ Typed'
  BY DEF Agreement
<1>2. Calmed /\ ~ (0 >= 1)
  BY DEF Judgement
<1>3. ASSUME NEW n \in Node, NEW m \in Node, Follow(n, m)
      PROVE  Judgement'
  <2>1. /\ CanFollow(n, m) /\ UNCHANGED <<pruneheight, answering, settled, driver, calm>>
        /\ \E height \in Len(chain[n]) + 1 .. Len(chain[m]) :
             chain' = [chain EXCEPT ![n] = BlockHash(chain[m], height)]
    BY <1>3 DEF Follow
  <2>2. ~ Quiet
    BY <2>1 DEF Quiet
  <2>3. Calmed'
    <3>1. calm >= 1 => driver.pc = "wait"
      BY <1>2, <2>2 DEF Calmed
    <3> QED
      BY <1>2, <2>1, <3>1, Zenon DEF Calmed
  <2>4. ASSUME NEW x \in Node
        PROVE  chain'[x] = chain[x] \/ Len(chain'[x]) > Len(chain[x])
    <3>1. PICK height \in Len(chain[n]) + 1 .. Len(chain[m]) :
            chain' = [chain EXCEPT ![n] = BlockHash(chain[m], height)]
      BY <2>1
    <3>2. chain \in [Node -> Chain] /\ chain[m] \in Chain /\ chain[n] \in Chain
      BY <1>1 DEF Typed
    <3>3. /\ Len(chain[n]) \in Nat /\ Len(chain[m]) \in Nat
          /\ height \in 0 .. Len(chain[m]) /\ height > Len(chain[n])
      BY <3>2 DEF Chain
    <3>4. Len(BlockHash(chain[m], height)) = height
      BY <3>2, <3>3, HashIsChain
    <3>5. CASE x = n
      BY <3>1, <3>2, <3>3, <3>4, <3>5
    <3>6. CASE x # n
      BY <3>1, <3>2, <3>6
    <3> QED
      BY <3>5, <3>6
  <2>5. \A x \in Node : pruneheight'[x] >= pruneheight[x]
    BY <1>1, <2>1 DEF Typed
  <2> QED
    BY <1>1, <2>1, <2>3, <2>4, <2>5, NodesMove
<1>4. ASSUME NEW n \in Node, NEW height \in 1 .. Len(chain[n]), Prune(n, height)
      PROVE  Judgement'
  <2>1. /\ settled = FALSE /\ UNCHANGED <<chain, answering, settled, driver, calm>>
        /\ height > pruneheight[n] /\ pruneheight' = [pruneheight EXCEPT ![n] = height]
    <3>1. pruneheight[n] \in Int
      BY <1>1 DEF Typed
    <3>2. height \in pruneheight[n] + 1 .. Len(chain[n]) - MinBlocks + 1
      BY <1>4 DEF Prune
    <3>3. ~ settled /\ settled \in BOOLEAN
      BY <1>2, <1>4, Zenon DEF Prune, Fault, Calmed
    <3> QED
      BY <1>4, <3>1, <3>2, <3>3 DEF Prune
  <2>2. Calmed'
    BY <1>2, <2>1, Zenon DEF Calmed
  <2>3. \A x \in Node : pruneheight'[x] >= pruneheight[x]
    BY <1>1, <2>1 DEF Typed
  <2> QED
    BY <1>1, <2>1, <2>2, <2>3, NodesMove
<1>5. CASE Settle \/ \E n \in Node : StopAnswering(n) \/ StartAnswering(n)
  <2>1. /\ ~ settled /\ UNCHANGED <<chain, pruneheight, driver, calm>>
        /\ \/ settled' = TRUE /\ answering' = Node
           \/ settled' = settled
    BY <1>5, Zenon DEF Settle, StopAnswering, StartAnswering, Fault
  <2>2. Calmed'
    <3>1. calm \in Nat /\ ~ (calm >= 1)
      BY <1>2, <2>1, Zenon DEF Calmed
    <3>2. settled' \in BOOLEAN /\ (settled' => answering' = Node)
      <4>1. CASE settled' = TRUE /\ answering' = Node
        BY <4>1
      <4>2. CASE settled' = settled
        BY <1>2, <2>1, <4>2, Zenon DEF Calmed
      <4> QED
        BY <2>1, <4>1, <4>2
    <3> QED
      BY <2>1, <3>1, <3>2, Zenon DEF Calmed
  <2>3. \A x \in Node : pruneheight'[x] >= pruneheight[x]
    BY <1>1, <2>1 DEF Typed
  <2> QED
    BY <1>1, <2>1, <2>2, <2>3, NodesMove
<1> QED
  BY <1>3, <1>4, <1>5

-----------------------------------------------------------------------------
\* A node is where it was seen when it has just been asked.
LEMMA SnapshotJudgement ==
  ASSUME Agreement, Agreement', Judgement, TakeSnapshot
  PROVE  Judgement'
<1> DEFINE n == driver.next
<1>1. /\ UNCHANGED <<chain, pruneheight, answering, settled, calm>>
      /\ driver.pc = "snapshot" /\ n <= N
      /\ driver' = [driver EXCEPT
           !.next = @ + 1, !.states = IF n \in answering THEN Append(@, Info(n)) ELSE @]
  BY DEF TakeSnapshot, At
<1>2. /\ driver'.pc = "snapshot" /\ driver'.position = 0 /\ driver'.blocked = {}
      /\ driver'.hash = NoTip
      /\ driver'.states = IF n \in answering THEN Append(driver.states, Info(n))
                          ELSE driver.states
  BY <1>1 DEF Agreement, Typed, DriverFields, Judgement, Rested
<1>3. n \in Node /\ driver.states \in Seq(Infos)
  BY <1>1 DEF Agreement, Typed, Node
<1>4. Info(n) \in Infos /\ Info(n).index = n /\ Info(n).tip = chain[n]
      /\ Info(n).pruneheight = pruneheight[n] /\ pruneheight[n] \in Int
  BY <1>3 DEF Info, Infos, Agreement, Typed
<1> HIDE DEF n
<1>5. ASSUME NEW k \in Positions'
      PROVE  \/ driver'.states[k] = Info(n)
             \/ k \in Positions /\ driver'.states[k] = driver.states[k]
  <2>1. CASE n \in answering
    <3>1. driver'.states = Append(driver.states, Info(n))
      BY <1>2, <2>1
    <3> QED
      BY <1>3, <1>4, <3>1 DEF Positions
  <2>2. CASE n \notin answering
    BY <1>2, <2>2 DEF Positions
  <2> QED
    BY <2>1, <2>2
<1>6. ASSUME NEW k \in Positions', driver'.states[k] = Info(n)
      PROVE  Still(k)'
  BY <1>1, <1>4, <1>6 DEF Still, Info
<1>7. ASSUME NEW k \in Positions, driver'.states[k] = driver.states[k], Still(k)
      PROVE  Still(k)'
  BY <1>1, <1>7 DEF Still, Info
<1>8. Grown'
  <2> SUFFICES ASSUME NEW k \in Positions'
               PROVE  LET info == driver'.states[k] IN
                      /\ info.tip = chain[info.index] \/ Len(info.tip) < Len(chain[info.index])
                      /\ info.pruneheight <= pruneheight[info.index]
    BY <1>1 DEF Grown
  <2>1. CASE driver'.states[k] = Info(n)
    BY <1>4, <2>1
  <2>2. CASE k \in Positions /\ driver'.states[k] = driver.states[k]
    BY <2>2 DEF Judgement, Grown
  <2> QED
    BY <1>5, <2>1, <2>2
<1>9. Calmed'
  <2>1. Quiet' = Quiet
    BY <1>1 DEF Quiet, CanFollow
  <2>2. Calmed /\ (calm >= 1 => Quiet /\ \A k \in Positions : Still(k))
    BY <1>1 DEF Judgement, Calmed
  <2>3. calm >= 1 => \A k \in Positions' : Still(k)'
    BY <1>5, <1>6, <1>7, <2>2
  <2> QED
    BY <1>1, <2>1, <2>2, <2>3, Zenon DEF Calmed
<1>10. Rested' /\ Enclosed' /\ ExcusedAreStuck'
  BY <1>2 DEF Rested, Enclosed, At, ExcusedAreStuck
<1>11. Judged'
  <2>1. \A k \in Positions' : ~ (k < 0) /\ k # 0
    BY DEF Positions
  <2> QED
    BY <1>2, <2>1 DEF Judged, Passed
<1> QED
  BY <1>8, <1>9, <1>10, <1>11 DEF Judgement

\* Asleep the driver knows nothing; what it does next depends on a quiet round.
LEMMA SleepJudgement ==
  ASSUME Agreement, Judgement, OnlyWait \/ Extend \/ ExtendFails \/ ExtendReplyLost \/ Wait
  PROVE  Judgement'
<1>1. /\ driver'.pc \in {"wait", "snapshot"} /\ driver'.states = << >>
      /\ driver'.position = 0 /\ driver'.blocked = {} /\ driver'.hash = NoTip
  <2>1. CASE OnlyWait \/ Extend \/ ExtendFails \/ ExtendReplyLost
    BY <2>1 DEF OnlyWait, Extend, ExtendFails, ExtendReplyLost, Sleep, NewRound
  <2>2. CASE Wait
    <3>1. driver.pc = "wait" /\ driver' = [driver EXCEPT !.pc = "snapshot", !.rounds = @ + 1]
      BY <2>2 DEF Wait, At
    <3> QED
      BY <3>1 DEF Agreement, Typed, DriverFields, Judgement, Rested
  <2> QED
    BY <2>1, <2>2
<1>2. Positions' = {}
  BY <1>1 DEF Positions
<1>3. Calmed'
  <2>1. Calmed
    BY DEF Judgement
  <2>2. CASE OnlyWait \/ Extend \/ ExtendFails \/ ExtendReplyLost
    <3>1. UNCHANGED <<settled, calm>> /\ (answering' = answering \/ ~ settled)
      BY <2>2, Zenon DEF OnlyWait, Extend, ExtendFails, ExtendReplyLost, Fault
    <3>2. driver'.pc = "wait"
      BY <2>2 DEF OnlyWait, Extend, ExtendFails, ExtendReplyLost, Sleep, NewRound
    <3> QED
      BY <2>1, <3>1, <3>2, Zenon DEF Calmed
  <2>3. CASE Wait
    <3>1. /\ UNCHANGED <<chain, pruneheight, answering, settled>> /\ (settled => Quiet)
          /\ calm' = IF settled THEN calm + 1 ELSE 0
      BY <2>3 DEF Wait, nodes
    <3>2. Quiet' = Quiet
      BY <3>1 DEF Quiet, CanFollow
    <3>3. calm' \in Nat /\ (calm' >= 1 => settled)
      <4>1. calm \in Nat /\ calm + 1 \in Nat /\ 0 \in Nat /\ ~ (0 >= 1)
        BY <2>1 DEF Calmed
      <4> QED
        BY <3>1, <4>1, Zenon
    <3> QED
      BY <1>2, <2>1, <3>1, <3>2, <3>3, Zenon DEF Calmed
  <2> QED
    BY <2>2, <2>3
<1> QED
  BY <1>1, <1>2, <1>3
  DEF Judgement, Grown, Rested, Enclosed, At, Judged, ExcusedAreStuck

-----------------------------------------------------------------------------
\* A step of the driver that leaves its snapshot and the nodes alone.
LEMMA DriverJudges ==
  ASSUME Judgement, UNCHANGED <<chain, pruneheight, answering, settled, calm>>,
         driver'.states = driver.states, driver.pc # "wait"
  PROVE  /\ Positions' = Positions /\ best' = best /\ best_position' = best_position
         /\ best_chain' = best_chain
         /\ \A k : Still(k)' <=> Still(k)
         /\ Grown' /\ Calmed' /\ (Accurate' <=> Accurate)
         /\ \A n, m : CanFollow(n, m)' <=> CanFollow(n, m)
<1>1. /\ Positions' = Positions /\ best' = best /\ best_position' = best_position
      /\ best_chain' = best_chain
  BY SameAnswers
<1>2. \A k : Still(k)' <=> Still(k)
  BY DEF Still, Info
<1>3. \A n, m : CanFollow(n, m)' <=> CanFollow(n, m)
  BY DEF CanFollow
<1>4. Quiet' <=> Quiet
  BY <1>3 DEF Quiet
<1>5. Grown' /\ (Accurate' <=> Accurate)
  BY <1>1, <1>2 DEF Judgement, Grown, Accurate, complete, Info
<1>6. Calmed'
  BY <1>1, <1>2, <1>4, Zenon DEF Judgement, Calmed
<1> QED
  BY <1>1, <1>2, <1>3, <1>5, <1>6

\* The search for the fork of the next node that is behind.
LEMMA StartJudgement ==
  ASSUME Agreement, Judgement, StartSearch
  PROVE  Judgement'
<1>1. PICK k \in Positions :
        /\ k > driver.position /\ Lagging(k)
        /\ driver' = [driver EXCEPT
            !.pc = "search", !.position = k, !.shared = 0,
            !.unshared = Lower(blocks(driver.states[k]), blocks(best)) + 1]
  BY DEF StartSearch
<1>2. /\ UNCHANGED <<chain, pruneheight, answering, settled, calm>>
      /\ driver.pc \in {"snapshot", "next"}
  BY DEF StartSearch, At
<1>3. /\ driver'.pc = "search" /\ driver'.position = k /\ driver'.shared = 0
      /\ driver'.unshared = Lower(blocks(driver.states[k]), blocks(best)) + 1
      /\ driver'.states = driver.states /\ driver'.blocked = driver.blocked
      /\ driver'.hash = driver.hash /\ driver.hash = NoTip
  BY <1>1, <1>2 DEF Agreement, Typed, DriverFields, Judgement, Rested
<1>4. /\ Positions' = Positions /\ best' = best /\ best_position' = best_position
      /\ best_chain' = best_chain /\ Grown' /\ Calmed' /\ (Accurate' <=> Accurate)
      /\ \A n, m : CanFollow(n, m)' <=> CanFollow(n, m)
  BY <1>2, <1>3, DriverJudges
<1>5. Rested' /\ ExcusedAreStuck'
  BY <1>3, <1>4 DEF Judgement, Rested, ExcusedAreStuck
<1>6. Enclosed'
  <2>1. Typed /\ driver.states # << >>
    BY <1>1 DEF Agreement, Positions
  <2>2. best_position \in Positions /\ k \in Positions
    BY <2>1, BestPosition
  <2> DEFINE top == Lower(blocks(driver.states[k]), blocks(best))
  <2>3. /\ driver.states[k].tip \in Chain /\ best.tip \in Chain
        /\ blocks(driver.states[k]) = Len(driver.states[k].tip) /\ blocks(best) = Len(best.tip)
        /\ blocks(driver.states[k]) \in Nat /\ blocks(best) \in Nat
    BY <2>1, <2>2, Answers DEF best
  <2>4. top \in Nat /\ top = Lower(Len(driver.states[k].tip), Len(best.tip))
    BY <2>3 DEF Lower
  <2>5. driver.states[k] = lagging'
    BY <1>3 DEF lagging
  <2>6. 0 < top + 1 /\ ~ (top + 1 <= top) /\ top + 1 \in Nat /\ top + 1 <= top + 1 /\ 0 \in Nat
    BY <2>4
  <2>7. BlockHash(driver.states[k].tip, 0) = BlockHash(best.tip, 0)
    BY <2>3 DEF BlockHash, Chain
  <2> HIDE DEF top
  <2>8. Encloses(0, top + 1, driver.states[k].tip, best.tip)
    BY <2>4, <2>6, <2>7 DEF Encloses
  <2>9. driver'.unshared = top + 1 /\ top = Lower(blocks(lagging'), blocks(best'))
    BY <1>3, <1>4, <2>5 DEF top
  <2>10. lagging'.tip = driver.states[k].tip
    BY <2>5
  <2>11. Encloses(driver'.shared, driver'.unshared, lagging'.tip, best'.tip)
    BY <1>3, <1>4, <2>8, <2>9, <2>10
  <2>12. driver'.position \in Positions' /\ driver'.hash = NoTip /\ driver'.shared \in Nat
         /\ driver'.unshared \in Nat /\ driver'.shared < driver'.unshared
    BY <1>3, <1>4, <2>6, <2>9
  <2>13. driver'.unshared <= Lower(blocks(lagging'), blocks(best')) + 1
    BY <2>6, <2>9
  <2> QED
    BY <2>11, <2>12, <2>13 DEF Enclosed
<1>7. Judged'
  <2> SUFFICES ASSUME calm >= 1, NEW j \in Positions \ best_chain, Passed(j)'
               PROVE  j \in driver.blocked \/ blocks(driver.states[j]) = blocks(best)
    BY <1>2, <1>3, <1>4 DEF Judged
  <2>1. j < k
    BY <1>3 DEF Passed
  <2>2. driver.position \in Nat /\ j \in Nat /\ k \in Nat
    BY DEF Agreement, Typed, Positions
  <2>3. ~ (j \in driver.position + 1 .. k - 1)
    BY <1>1 DEF Lagging
  <2>4. j < driver.position \/ j = driver.position
    BY <2>1, <2>2, <2>3
  <2>5. Passed(j)
    BY <1>2, <2>4 DEF Passed
  <2> QED
    BY <2>5 DEF Judgement, Judged
<1> QED
  BY <1>4, <1>5, <1>6, <1>7 DEF Judgement

\* Where a turn of the search asks.
LEMMA HalfwayBetween ==
  ASSUME Judgement, Typed, Searching
  PROVE  /\ halfway \in Nat /\ driver.shared < halfway /\ halfway < driver.unshared
         /\ halfway <= blocks(lagging) /\ halfway <= blocks(best)
         /\ lagging.tip \in Chain /\ best.tip \in Chain
         /\ blocks(lagging) = Len(lagging.tip) /\ blocks(best) = Len(best.tip)
         /\ lagging.index \in Node /\ best.index \in Node
         /\ driver.position \in Positions /\ best_position \in Positions
         /\ driver.shared \in Nat /\ driver.unshared \in Nat
<1>1. /\ driver.position \in Positions /\ driver.shared \in Nat /\ driver.unshared \in Nat
      /\ driver.unshared - driver.shared > 1
      /\ driver.unshared <= Lower(blocks(lagging), blocks(best)) + 1
  BY DEF Searching, Judgement, Enclosed
<1>2. driver.states # << >>
  BY <1>1 DEF Positions
<1>3. best_position \in Positions
  BY <1>2, BestPosition
<1>4. /\ lagging.tip \in Chain /\ best.tip \in Chain
      /\ blocks(lagging) = Len(lagging.tip) /\ blocks(best) = Len(best.tip)
      /\ blocks(lagging) \in Nat /\ blocks(best) \in Nat
      /\ lagging.index \in Node /\ best.index \in Node
  BY <1>1, <1>3, Answers DEF best, lagging
<1> DEFINE low == driver.shared
           high == driver.unshared
           top == Lower(blocks(lagging), blocks(best))
           middle == low + (high - low) \div 2
<1>5. top \in Nat /\ top <= blocks(lagging) /\ top <= blocks(best)
  BY <1>4 DEF Lower
<1>6. low \in Nat /\ high \in Nat /\ high - low > 1 /\ high <= top + 1 /\ halfway = middle
  BY <1>1 DEF halfway
<1> HIDE DEF low, high, top
<1>7. middle \in Nat /\ low < middle /\ middle < high
  BY <1>6
<1> HIDE DEF middle
<1>8. middle <= top
  BY <1>5, <1>6, <1>7
<1>9. middle <= blocks(lagging) /\ middle <= blocks(best)
  BY <1>4, <1>5, <1>7, <1>8
<1> QED
  BY <1>1, <1>3, <1>4, <1>6, <1>7, <1>9 DEF low, high

\* A turn of the search keeps the fork enclosed.
LEMMA SearchJudgement ==
  ASSUME Agreement, Judgement, AskLagging \/ AskBest
  PROVE  Judgement'
<1>1. /\ Searching /\ UNCHANGED <<chain, pruneheight, answering, settled, calm>>
      /\ driver.pc = "search"
  BY DEF AskLagging, AskBest, Searching, At
<1>2. /\ driver'.pc = "search" /\ driver'.position = driver.position
      /\ driver'.states = driver.states /\ driver'.blocked = driver.blocked
  BY <1>1 DEF AskLagging, AskBest, Agreement, Typed, DriverFields
<1>3. /\ Positions' = Positions /\ best' = best /\ best_position' = best_position
      /\ best_chain' = best_chain /\ Grown' /\ Calmed' /\ (Accurate' <=> Accurate)
      /\ \A n, m : CanFollow(n, m)' <=> CanFollow(n, m)
      /\ \A k : Still(k)' <=> Still(k)
  BY <1>1, <1>2, DriverJudges
<1>4. Rested' /\ ExcusedAreStuck' /\ Judged'
  BY <1>1, <1>2, <1>3 DEF Judgement, Rested, ExcusedAreStuck, Judged, Passed
<1>5. lagging' = lagging
  BY <1>2 DEF lagging
<1>6. /\ halfway \in Nat /\ driver.shared < halfway /\ halfway < driver.unshared
      /\ halfway <= blocks(lagging) /\ halfway <= blocks(best)
      /\ driver.position \in Positions /\ driver.shared \in Nat /\ driver.unshared \in Nat
  BY <1>1, HalfwayBetween DEF Agreement
<1>7. /\ driver.unshared - driver.shared > 1
      /\ driver.unshared <= Lower(blocks(lagging), blocks(best)) + 1
      /\ Still(driver.position) /\ Still(best_position) =>
           /\ Encloses(driver.shared, driver.unshared, lagging.tip, best.tip)
           /\ driver.hash # NoTip => driver.hash = BlockHash(lagging.tip, halfway)
  BY <1>1 DEF Searching, At, Judgement, Enclosed
<1>8. CASE AskLagging
  <2>1. /\ driver'.shared = driver.shared /\ driver'.unshared = driver.unshared
        /\ driver'.hash = BlockHash(chain[lagging.index], halfway)
    BY <1>1, <1>8 DEF AskLagging, Agreement, Typed, DriverFields
  <2>2. halfway' = halfway
    BY <2>1 DEF halfway
  <2>3. Still(driver.position) => driver'.hash = BlockHash(lagging.tip, halfway)
    BY <2>1, StillThere DEF lagging
  <2>4. Enclosed'
    BY <1>2, <1>3, <1>5, <1>6, <1>7, <2>1, <2>2, <2>3 DEF Enclosed
  <2> QED
    BY <1>3, <1>4, <2>4 DEF Judgement
<1>9. CASE AskBest
  <2> DEFINE agree == driver.hash = BlockHash(chain[best.index], halfway)
  <2>1. /\ driver.hash # NoTip
        /\ driver' = IF agree
                     THEN [driver EXCEPT !.hash = NoTip, !.shared = halfway]
                     ELSE [driver EXCEPT !.hash = NoTip, !.unshared = halfway]
    BY <1>9 DEF AskBest
  <2>2. DOMAIN driver = DriverFields
    BY DEF Agreement, Typed
  <2>3. Still(driver.position) /\ Still(best_position) =>
          /\ chain[best.index] = best.tip
          /\ agree <=> BlockHash(lagging.tip, halfway) = BlockHash(best.tip, halfway)
    BY <1>7, <2>1, StillThere DEF best
  <2> HIDE DEF agree
  <2>4. driver'.hash = NoTip
    BY <2>1, <2>2 DEF DriverFields
  <2>5. CASE agree
    <3>1. driver'.shared = halfway /\ driver'.unshared = driver.unshared
      BY <2>1, <2>2, <2>5 DEF DriverFields
    <3>2. Still(driver.position) /\ Still(best_position) =>
            Encloses(halfway, driver.unshared, lagging.tip, best.tip)
      BY <1>7, <2>3, <2>5 DEF Encloses
    <3>3. Enclosed'
      BY <1>2, <1>3, <1>5, <1>6, <1>7, <2>4, <3>1, <3>2 DEF Enclosed
    <3> QED
      BY <1>3, <1>4, <3>3 DEF Judgement
  <2>6. CASE ~ agree
    <3>1. driver'.shared = driver.shared /\ driver'.unshared = halfway
      BY <2>1, <2>2, <2>6 DEF DriverFields
    <3>2. Still(driver.position) /\ Still(best_position) =>
            Encloses(driver.shared, halfway, lagging.tip, best.tip)
      BY <1>7, <2>3, <2>6 DEF Encloses
    <3>3. halfway <= Lower(blocks(lagging), blocks(best)) + 1
      <4> DEFINE top == Lower(blocks(lagging), blocks(best))
      <4>1. top \in Int
        <5>1. blocks(lagging) \in Nat /\ blocks(best) \in Nat
          BY <1>1, HalfwayBetween DEF Agreement, Chain
        <5> QED
          BY <5>1 DEF Lower
      <4>2. driver.unshared <= top + 1
        BY <1>7
      <4> HIDE DEF top
      <4>3. halfway <= top + 1
        BY <1>6, <4>1, <4>2
      <4> QED
        BY <4>3 DEF top
    <3>4. Enclosed'
      BY <1>2, <1>3, <1>5, <1>6, <2>4, <3>1, <3>2, <3>3 DEF Enclosed
    <3> QED
      BY <1>3, <1>4, <3>4 DEF Judgement
  <2> QED
    BY <2>5, <2>6
<1> QED
  BY <1>8, <1>9

\* After a calm round nothing fails.
LEMMA FailureJudgement ==
  ASSUME Agreement, Judgement, SearchFails
  PROVE  Judgement'
<1>1. /\ Searching /\ UNCHANGED <<chain, pruneheight, answering, settled, calm>>
      /\ driver.pc = "search"
      /\ ~ HasHash(IF driver.hash = NoTip THEN lagging.index ELSE best.index)
      /\ driver' = [driver EXCEPT !.pc = "next", !.hash = NoTip, !.shared = 0, !.unshared = 0]
  BY DEF SearchFails, Searching, At
<1>2. /\ driver'.pc = "next" /\ driver'.position = driver.position /\ driver'.hash = NoTip
      /\ driver'.states = driver.states /\ driver'.blocked = driver.blocked
  BY <1>1 DEF Agreement, Typed, DriverFields
<1>3. /\ Positions' = Positions /\ best' = best /\ best_position' = best_position
      /\ best_chain' = best_chain /\ Grown' /\ Calmed' /\ (Accurate' <=> Accurate)
      /\ \A n, m : CanFollow(n, m)' <=> CanFollow(n, m)
  BY <1>1, <1>2, DriverJudges
<1>4. Rested' /\ ExcusedAreStuck' /\ Enclosed'
  BY <1>2, <1>3 DEF Judgement, Rested, ExcusedAreStuck, Enclosed, At
<1>5. ~ (calm >= 1)
  <2> SUFFICES ASSUME calm >= 1 PROVE FALSE
    OBVIOUS
  <2>1. settled /\ answering = Node /\ \A k \in Positions : Still(k)
    BY <1>1, Zenon DEF Judgement, Calmed
  <2>2. /\ halfway <= blocks(lagging) /\ halfway <= blocks(best)
        /\ blocks(lagging) = Len(lagging.tip) /\ blocks(best) = Len(best.tip)
        /\ lagging.index \in Node /\ best.index \in Node
        /\ driver.position \in Positions /\ best_position \in Positions
    BY <1>1, HalfwayBetween DEF Agreement
  <2>3. chain[lagging.index] = lagging.tip /\ chain[best.index] = best.tip
    BY <2>1, <2>2, StillThere DEF lagging, best
  <2> QED
    BY <1>1, <2>1, <2>2, <2>3 DEF HasHash, HasBlockAt
<1>6. Judged'
  BY <1>1, <1>5 DEF Judged
<1> QED
  BY <1>3, <1>4, <1>6 DEF Judgement

\* What the driver says of a node that is behind, and of one that is not, is
\* what the nodes themselves do: as long as both are where they were seen.
LEMMA BlockedOrNot ==
  ASSUME Judgement, Typed, At("search"), driver.unshared - driver.shared <= 1,
         Still(driver.position), Still(best_position), NEW j \in best_chain, Still(j)
  PROVE  CanFollow(lagging.index, driver.states[j].index) <=>
           /\ blocks(best) > blocks(lagging)
           /\ ~ disconnect_blocked_by_pruning(lagging, driver.shared)
           /\ can_serve_block(driver.states[j], driver.shared + 1)
<1>1. /\ driver.position \in Positions /\ driver.shared \in Nat /\ driver.unshared \in Nat
      /\ driver.shared < driver.unshared
      /\ driver.unshared <= Lower(blocks(lagging), blocks(best)) + 1
      /\ Encloses(driver.shared, driver.unshared, lagging.tip, best.tip)
  BY DEF Judgement, Enclosed
<1>2. j \in Positions /\ driver.states[j].tip = best.tip
  BY DEF best_chain
<1>3. best_position \in Positions
  <2>1. driver.states # << >>
    BY <1>1 DEF Positions
  <2> QED
    BY <2>1, BestPosition
<1>4. /\ lagging.tip \in Chain /\ best.tip \in Chain /\ lagging.pruneheight \in Int
      /\ blocks(lagging) = Len(lagging.tip) /\ blocks(best) = Len(best.tip)
      /\ blocks(lagging) \in Nat /\ blocks(best) \in Nat
      /\ driver.states[j].pruneheight \in Int
      /\ blocks(driver.states[j]) = Len(best.tip)
  BY <1>1, <1>2, <1>3, Answers DEF best, lagging
<1>5. driver.unshared = driver.shared + 1
  BY <1>1
<1>6. driver.shared <= Lower(Len(lagging.tip), Len(best.tip))
  <2> DEFINE top == Lower(Len(lagging.tip), Len(best.tip))
  <2>1. top \in Nat
    BY <1>4 DEF Lower
  <2>2. driver.shared + 1 <= top + 1
    BY <1>1, <1>4, <1>5
  <2> HIDE DEF top
  <2>3. driver.shared <= top
    BY <1>1, <2>1, <2>2
  <2> QED
    BY <2>3 DEF top
<1>7. ForkOf(lagging.tip, best.tip) = driver.shared
  BY <1>1, <1>4, <1>5, <1>6, ForkEnclosed
<1>8. /\ chain[lagging.index] = lagging.tip /\ pruneheight[lagging.index] = lagging.pruneheight
      /\ chain[driver.states[j].index] = best.tip
      /\ pruneheight[driver.states[j].index] = driver.states[j].pruneheight
  BY <1>2, StillThere DEF lagging
<1> DEFINE first == driver.shared + 1
<1>9. CanFollow(lagging.index, driver.states[j].index) <=>
        /\ Len(best.tip) > Len(lagging.tip)
        /\ lagging.pruneheight = NotPruning \/ first >= lagging.pruneheight
        /\ \/ driver.states[j].pruneheight = NotPruning
           \/ /\ first >= driver.states[j].pruneheight
              /\ Len(best.tip) - first <= MinBlocks + RaceBuffer
  BY <1>7, <1>8 DEF CanFollow
<1>10. first \in Int
  BY <1>1
<1>11. ~ disconnect_blocked_by_pruning(lagging, driver.shared) <=>
         lagging.pruneheight = NotPruning \/ first >= lagging.pruneheight
  BY <1>4, <1>10 DEF disconnect_blocked_by_pruning
<1>12. can_serve_block(driver.states[j], first) <=>
         \/ driver.states[j].pruneheight = NotPruning
         \/ /\ first >= driver.states[j].pruneheight
            /\ Len(best.tip) - first <= MinBlocks + RaceBuffer
  BY <1>4 DEF can_serve_block
<1> HIDE DEF first
<1>13. CanFollow(lagging.index, driver.states[j].index) <=>
         /\ blocks(best) > blocks(lagging)
         /\ ~ disconnect_blocked_by_pruning(lagging, driver.shared)
         /\ can_serve_block(driver.states[j], first)
  BY <1>4, <1>9, <1>11, <1>12, Zenon
<1> QED
  BY <1>13 DEF first

\* A node is blocked when it cannot follow any chain with the most work, and
\* one that is behind and could have followed would have done so by now.
LEMMA JudgeJudgement ==
  ASSUME Agreement, Judgement, Judge
  PROVE  Judgement'
<1> DEFINE fork_height == driver.shared
           is_blocked == \/ disconnect_blocked_by_pruning(lagging, fork_height)
                         \/ download_blocked_by_pruning(fork_height, best_chain)
<1>1. /\ UNCHANGED <<chain, pruneheight, answering, settled, calm>>
      /\ At("search") /\ driver.unshared - driver.shared <= 1 /\ driver.pc = "search"
      /\ driver' =
           IF is_blocked
           THEN [driver EXCEPT
                   !.pc = "next", !.shared = 0, !.unshared = 0,
                   !.blocked = @ \cup {driver.position},
                   !.stranded = IF outpaces(driver.position) THEN driver.position ELSE @]
           ELSE [driver EXCEPT !.pc = "next", !.shared = 0, !.unshared = 0]
  BY DEF Judge, At
<1>2. /\ driver.position \in Positions /\ Typed
      /\ driver.hash # NoTip => driver.unshared - driver.shared > 1
      /\ driver.unshared \in Nat /\ driver.shared \in Nat
  BY <1>1 DEF Judgement, Enclosed, Agreement
<1>3. driver.hash = NoTip
  <2>1. ~ (driver.unshared - driver.shared > 1)
    BY <1>1, <1>2
  <2> QED
    BY <1>2, <2>1
<1>4. best_position \in Positions /\ \A j \in Positions : blocks(driver.states[j]) <= blocks(best)
  <2>1. driver.states # << >>
    BY <1>2 DEF Positions
  <2> QED
    BY <1>2, <2>1, BestPosition
<1>5. is_blocked <=> \/ disconnect_blocked_by_pruning(lagging, driver.shared)
                     \/ ~ \E j \in best_chain : can_serve_block(driver.states[j], driver.shared + 1)
  BY DEF download_blocked_by_pruning
<1> HIDE DEF is_blocked
<1>6. /\ driver'.pc = "next" /\ driver'.position = driver.position /\ driver'.hash = NoTip
      /\ driver'.states = driver.states
      /\ driver'.blocked = IF is_blocked THEN driver.blocked \cup {driver.position}
                           ELSE driver.blocked
  BY <1>1, <1>2, <1>3 DEF Typed, DriverFields
<1>7. /\ Positions' = Positions /\ best' = best /\ best_position' = best_position
      /\ best_chain' = best_chain /\ Grown' /\ Calmed' /\ (Accurate' <=> Accurate)
      /\ \A n, m : CanFollow(n, m)' <=> CanFollow(n, m)
  BY <1>1, <1>6, DriverJudges
<1>8. Rested' /\ Enclosed'
  BY <1>2, <1>6, <1>7 DEF Judgement, Rested, Enclosed, At
<1>9. best_chain \subseteq Positions /\ lagging = driver.states[driver.position]
  BY DEF best_chain, lagging
<1>10. ASSUME is_blocked, Accurate, NEW j \in best_chain
       PROVE  ~ CanFollow(lagging.index, driver.states[j].index)
  <2>1. Still(driver.position) /\ Still(best_position) /\ Still(j)
    BY <1>2, <1>4, <1>9, <1>10 DEF Accurate, Still
  <2>2. \/ disconnect_blocked_by_pruning(lagging, driver.shared)
        \/ ~ can_serve_block(driver.states[j], driver.shared + 1)
    BY <1>5, <1>10
  <2> QED
    BY <1>1, <1>2, <2>1, <2>2, BlockedOrNot
<1>11. ExcusedAreStuck'
  <2> SUFFICES ASSUME Accurate, NEW k \in driver'.blocked, NEW j \in best_chain
               PROVE  ~ CanFollow(driver.states[k].index, driver.states[j].index)
    BY <1>6, <1>7 DEF ExcusedAreStuck
  <2>1. CASE k \in driver.blocked
    BY <2>1 DEF Judgement, ExcusedAreStuck
  <2>2. CASE k = driver.position /\ is_blocked
    BY <1>9, <1>10, <2>2
  <2> QED
    BY <1>6, <2>1, <2>2
<1>12. ASSUME calm >= 1, ~ is_blocked
       PROVE  blocks(lagging) = blocks(best)
  <2>1. Quiet /\ \A k \in Positions : Still(k)
    BY <1>1, <1>12, Zenon DEF Judgement, Calmed
  <2>2. PICK j \in best_chain : can_serve_block(driver.states[j], driver.shared + 1)
    BY <1>5, <1>12
  <2>3. /\ Still(driver.position) /\ Still(best_position) /\ Still(j)
        /\ j \in Positions /\ lagging.index \in Node /\ driver.states[j].index \in Node
    BY <1>2, <1>4, <1>9, <2>1, Answers
  <2>4. ~ CanFollow(lagging.index, driver.states[j].index)
    BY <2>1, <2>3 DEF Quiet
  <2>5. ~ (blocks(best) > blocks(lagging))
    BY <1>1, <1>2, <1>5, <1>12, <2>2, <2>3, <2>4, BlockedOrNot
  <2>6. blocks(best) \in Nat /\ blocks(lagging) \in Nat
    BY <1>2, <1>4, Answers DEF best, lagging
  <2>7. blocks(lagging) <= blocks(best)
    BY <1>2, <1>4, <1>9
  <2> QED
    BY <2>5, <2>6, <2>7
<1>13. Judged'
  <2> SUFFICES ASSUME calm >= 1, NEW k \in Positions \ best_chain, Passed(k)'
               PROVE  k \in driver'.blocked \/ blocks(driver.states[k]) = blocks(best)
    BY <1>1, <1>6, <1>7 DEF Judged
  <2>1. k < driver.position \/ k = driver.position
    BY <1>6 DEF Passed
  <2>2. CASE k < driver.position
    <3>1. k \in driver.blocked \/ blocks(driver.states[k]) = blocks(best)
      BY <2>2 DEF Judgement, Judged, Passed
    <3> QED
      BY <1>6, <3>1
  <2>3. CASE k = driver.position
    BY <1>6, <1>9, <1>12, <2>3
  <2> QED
    BY <2>1, <2>2, <2>3
<1> QED
  BY <1>7, <1>8, <1>11, <1>13 DEF Judgement

\* A round is over when every node that is behind has been judged.
LEMMA AllJudged ==
  ASSUME Agreement, Judgement, RoundTaken, NEW k \in Positions \ best_chain
  PROVE  Passed(k)
<1>1. driver.pc \in {"snapshot", "next"} /\ driver.position \in Nat
      /\ ~ \E i \in Positions : i > driver.position /\ Lagging(i)
  BY DEF RoundTaken, At, Agreement, Typed
<1>2. ~ (k > driver.position)
  <2> SUFFICES ASSUME k > driver.position PROVE FALSE
    OBVIOUS
  <2> DEFINE T == {i \in Positions \ best_chain : i > driver.position}
  <2>1. T \subseteq Nat /\ T # {}
    BY DEF Positions
  <2>2. PICK i \in T : \A j \in T : i <= j
    <3> HIDE DEF T
    <3> QED
      BY <2>1, Least
  <2>3. i \in Positions /\ i \in Nat /\ i > driver.position /\ i \notin best_chain
        /\ i \in 1 .. Len(driver.states) /\ Len(driver.states) \in Nat
    BY DEF Positions, Agreement, Typed
  <2>4. ASSUME NEW j \in driver.position + 1 .. i - 1 PROVE j \in best_chain
    <3>1. j \in 1 .. Len(driver.states) /\ j > driver.position /\ ~ (i <= j)
      BY <1>1, <2>3
    <3> QED
      BY <2>2, <3>1 DEF Positions
  <2>5. Lagging(i)
    BY <2>3, <2>4 DEF Lagging
  <2> QED
    BY <1>1, <2>3, <2>5
<1>3. k \in Nat
  BY DEF Positions
<1>4. k < driver.position \/ k = driver.position
  BY <1>1, <1>2, <1>3
<1> QED
  BY <1>1, <1>4 DEF Passed

\* What the driver does when a round is over.
LEMMA RoundJudgement ==
  ASSUME Agreement, Judgement,
         Converged \/ GiveUp \/ \E height \in 0 .. Tallest(Node) : HighestKnown(height)
  PROVE  Judgement'
<1>1. /\ RoundTaken /\ UNCHANGED <<chain, pruneheight, answering, settled, calm>>
      /\ driver.pc \in {"snapshot", "next"}
  BY DEF Converged, GiveUp, HighestKnown, RoundTaken, At
<1>2. /\ driver'.pc \in {"converged", "gave_up", "extend"}
      /\ driver'.position = driver.position /\ driver'.hash = driver.hash
      /\ driver'.states = driver.states /\ driver'.blocked = driver.blocked
  BY DEF Converged, GiveUp, HighestKnown, Agreement, Typed, DriverFields
<1>3. /\ Positions' = Positions /\ best' = best /\ best_position' = best_position
      /\ best_chain' = best_chain /\ Grown' /\ Calmed' /\ (Accurate' <=> Accurate)
      /\ \A n, m : CanFollow(n, m)' <=> CanFollow(n, m)
  BY <1>1, <1>2, DriverJudges
<1>4. Rested' /\ ExcusedAreStuck' /\ Enclosed'
  BY <1>1, <1>2, <1>3 DEF Judgement, Rested, ExcusedAreStuck, Enclosed, At
<1>5. Judged'
  BY <1>1, <1>2, <1>3, AllJudged DEF Judgement, Judged
<1> QED
  BY <1>3, <1>4, <1>5 DEF Judgement

\* An alarm is a height that differs, of a node that was not excused.
LEMMA JudgementSilent ==
  ASSUME Agreement, Judgement
  PROVE  NoFalseAlarm
<1> SUFFICES ASSUME Ended, calm >= 1, complete PROVE verdict
  BY DEF NoFalseAlarm, verdict
<1>1. driver.states # << >>
  BY DEF complete
<1>2. ASSUME NEW k \in eligible PROVE blocks(driver.states[k]) = blocks(best)
  <2>1. k \in Positions /\ k \notin driver.blocked
    BY DEF eligible
  <2>2. CASE k \in best_chain
    BY <2>2 DEF best_chain, blocks
  <2>3. CASE k \notin best_chain
    <3>1. Passed(k)
      BY DEF Ended, At, Passed
    <3> QED
      BY <2>1, <2>3, <3>1 DEF Judgement, Judged
  <2> QED
    BY <2>2, <2>3
<1>3. heights_converged
  BY <1>1, <1>2 DEF heights_converged
<1> QED
  BY <1>3 DEF verdict

-----------------------------------------------------------------------------
\* Both invariants together.
LEMMA ConvergenceInvariants == Spec => [](Agreement /\ Judgement)
<1>1. Init => Agreement /\ Judgement
  BY AgreementInit, JudgementInit
<1>2. Agreement /\ Judgement /\ [Next]_vars => (Agreement /\ Judgement)'
  <2> SUFFICES ASSUME Agreement, Judgement, [Next]_vars PROVE Agreement' /\ Judgement'
    OBVIOUS
  <2>1. CASE Drive
    <3>1. Agreement'
      BY <2>1, SnapshotStep, JudgingSteps, ConvergedStep, SleepSteps DEF Drive
    <3> QED
      BY <2>1, <3>1, SnapshotJudgement, StartJudgement, SearchJudgement, FailureJudgement,
         JudgeJudgement, RoundJudgement, SleepJudgement DEF Drive
  <2>2. CASE UNCHANGED vars
    <3>1. Agreement'
      BY <2>2 DEF vars, Agreement, Typed, InOrder, Positions, SameOrAhead, AllSame, Ahead,
                  AgreementIsReal, At
    <3>2. Calmed'
      BY <2>2, Zenon DEF vars, Judgement, Calmed, Quiet, CanFollow, Positions, Still, Info
    <3>3. UNCHANGED <<driver, calm, chain, pruneheight>> /\ Typed /\ Typed'
      BY <2>2, <3>1 DEF vars, Agreement
    <3>4. \A x \in Node : pruneheight'[x] >= pruneheight[x]
      BY <3>3 DEF Typed
    <3> QED
      BY <3>1, <3>2, <3>3, <3>4, NodesMove
  <2>3. CASE \/ Settle
             \/ \E n, m \in Node : Follow(n, m)
             \/ \E n \in Node : \/ StopAnswering(n) \/ StartAnswering(n)
                                \/ \E height \in 1 .. Len(chain[n]) : Prune(n, height)
    <3>1. Agreement'
      BY <2>3, FollowStep, FaultSteps
    <3> QED
      BY <2>3, <3>1, NodesJudgement
  <2> QED
    BY <2>1, <2>2, <2>3 DEF Next
<1> QED
  BY <1>1, <1>2, PTL DEF Spec

\* For any number of nodes and rounds, and whatever they do between two calls:
\* when the driver ends the run because every node is on the block mined last,
\* every node is.
THEOREM AgreementsAreReal == Spec => []AgreementIsReal
<1>1. Agreement => AgreementIsReal
  BY DEF Agreement
<1> QED
  BY <1>1, ConvergenceInvariants, PTL

\* The search looks for a fork in chains that go on growing, of nodes that may
\* fail in the middle of it, and takes the pruning rules of lib.rs for those of
\* the nodes.  Still, when the nodes are where the snapshot saw them, none that
\* is excused could go to a chain with the most work.
THEOREM ExcusesHold == Spec => []ExcusedAreStuck
<1>1. Judgement => ExcusedAreStuck
  BY DEF Judgement
<1> QED
  BY <1>1, ConvergenceInvariants, PTL

\* Whatever was pruned, mined and lost before, the assertion at the end of the
\* run does not fail after a round without faults: every node that is behind is
\* one that the driver found blocked.
THEOREM NoAlarmAfterCalm == Spec => []NoFalseAlarm
BY ConvergenceInvariants, JudgementSilent, PTL
=============================================================================
