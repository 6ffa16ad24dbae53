-------------------------- MODULE IrBuilderProofs --------------------------
(***************************************************************************)
(* Theorems about IrBuilder, for every number of nodes and connections,    *)
(* every set of requests and every number of faults.                       *)
(***************************************************************************)
EXTENDS IrBuilder, CompilerDataProofs

Fields == {"initialized", "poisoned", "syncing", "connections",
           "connection_metas", "recent_blocks"}

\* The first k connections exist, each beside its meta and to the peer that
\* the meta names.
Placed(k) ==
  /\ service.connection_metas = metas(k)
  /\ DOMAIN service.connections = 1 .. k
  /\ \A n \in 1 .. k : /\ DOMAIN service.connections[n] = {"peer", "alive"}
                       /\ service.connections[n].peer = meta(n)

\* The inductive invariant: whatever init last got to, what it made is placed,
\* and when an init was answered nothing is missing.
PlacedInv ==
  /\ DOMAIN service = Fields
  /\ DOMAIN workload = {"ready", "requests", "faults", "rewritten"}
  /\ \E k \in 0 .. num_connections :
       Placed(k) /\ (workload.ready => k = num_connections /\ service.initialized)

\* At first no connection is there.
LEMMA InitPlaced == IrInit => PlacedInv
<1> SUFFICES ASSUME IrInit PROVE PlacedInv
  OBVIOUS
<1>1. /\ DOMAIN service = Fields
      /\ DOMAIN workload = {"ready", "requests", "faults", "rewritten"}
  BY DEF IrInit, Fields
<1>2. Placed(0) /\ ~ workload.ready
  BY DEF IrInit, Placed, metas
<1>3. 0 \in 0 .. num_connections
  BY IrBuilderAssumption
<1> QED
  BY <1>1, <1>2, <1>3 DEF PlacedInv

\* Steps that leave the connections alone.
LEMMA ElsewherePlaced ==
  ASSUME PlacedInv,
         DOMAIN service' = Fields,
         DOMAIN workload' = DOMAIN workload,
         service'.connections = service.connections,
         service'.connection_metas = service.connection_metas,
         service'.initialized = service.initialized,
         workload'.ready = workload.ready
  PROVE  PlacedInv'
  BY DEF PlacedInv, Placed, metas, meta

\* What init leaves when it has made k connections.
LEMMA EstablishedPlaced ==
  ASSUME PlacedInv, NEW k \in 0 .. num_connections
  PROVE  /\ DOMAIN established(k) = Fields
         /\ established(k).connections = [n \in 1 .. k |-> connect(meta(n))]
         /\ established(k).connection_metas = metas(k)
         /\ established(k).initialized = service.initialized
  BY DEF PlacedInv, established, Fields

\* Such connections are placed.
LEMMA MadePlaced ==
  ASSUME NEW k \in 0 .. num_connections,
         service'.connections = [n \in 1 .. k |-> connect(meta(n))],
         service'.connection_metas = metas(k)
  PROVE  Placed(k)'
<1>1. DOMAIN service'.connections = 1 .. k
  OBVIOUS
<1>2. ASSUME NEW n \in 1 .. k
      PROVE  /\ DOMAIN service'.connections[n] = {"peer", "alive"}
             /\ service'.connections[n].peer = meta(n)
  <2>1. service'.connections[n] = [peer |-> meta(n), alive |-> TRUE]
    BY <1>2 DEF connect
  <2> QED
    BY <2>1
<1> QED
  BY <1>1, <1>2 DEF Placed, metas, meta

\* The steps of init, one by one: one that fails half way,
LEMMA InitFailsPlaced ==
  ASSUME PlacedInv, NEW k \in 0 .. num_connections - 1, InitFails(k)
  PROVE  PlacedInv'
<1>1. k \in 0 .. num_connections
  BY IrBuilderAssumption
<1>2. service' = established(k) /\ workload' = workload /\ ~ workload.ready
  BY DEF InitFails
<1>3. Placed(k)'
  BY <1>1, <1>2, EstablishedPlaced, MadePlaced
<1>4. DOMAIN service' = Fields
  BY <1>1, <1>2, EstablishedPlaced
<1> QED
  BY <1>1, <1>2, <1>3, <1>4 DEF PlacedInv

\* and one that gets to its end.
LEMMA InitSucceedsPlaced ==
  ASSUME PlacedInv, NEW answered \in BOOLEAN, InitSucceeds(answered)
  PROVE  PlacedInv'
<1>1. num_connections \in 0 .. num_connections
  BY IrBuilderAssumption
<1> DEFINE made == established(num_connections)
<1>2. service' = [made EXCEPT !.initialized = TRUE]
  BY DEF InitSucceeds
<1>3. /\ DOMAIN made = Fields
      /\ made.connections = [n \in 1 .. num_connections |-> connect(meta(n))]
      /\ made.connection_metas = metas(num_connections)
  BY <1>1, EstablishedPlaced
<1> HIDE DEF made
<1>4. /\ DOMAIN service' = Fields
      /\ service'.initialized
      /\ service'.connections = made.connections
      /\ service'.connection_metas = made.connection_metas
  BY <1>2, <1>3 DEF Fields
<1>5. Placed(num_connections)'
  BY <1>1, <1>3, <1>4, MadePlaced
<1>6. DOMAIN workload' = DOMAIN workload
  BY DEF InitSucceeds
<1> QED
  BY <1>1, <1>4, <1>5, <1>6 DEF PlacedInv

\* Connections that fail a ping come back where they were.
LEMMA SyncPlaced ==
  ASSUME PlacedInv, Sync
  PROVE  PlacedInv'
<1>1. PICK S \in SUBSET {k \in DOMAIN service.connections :
                            ~ service.connections[k].alive} :
        \E recent_blocks \in {synced, service.recent_blocks} :
          service' = [service EXCEPT !.syncing = FALSE,
                                     !.connections = pinged(S),
                                     !.recent_blocks = recent_blocks]
  BY DEF Sync
<1>2. /\ DOMAIN service' = Fields
      /\ service'.connections = pinged(S)
      /\ service'.connection_metas = service.connection_metas
      /\ service'.initialized = service.initialized
  BY <1>1 DEF PlacedInv, Fields
<1>3. workload' = workload
  BY DEF Sync
<1>4. PICK k \in 0 .. num_connections :
        Placed(k) /\ (workload.ready => k = num_connections /\ service.initialized)
  BY DEF PlacedInv
<1>5. \A n \in 1 .. k : service.connection_metas[n] = meta(n)
  BY <1>4 DEF Placed, metas
<1>6. Placed(k)'
  BY <1>2, <1>4, <1>5 DEF Placed, pinged, reconnect, connect, metas, meta
<1> QED
  BY <1>2, <1>3, <1>4, <1>6 DEF PlacedInv

\* A dropped connection keeps its place.
LEMMA DropPlaced ==
  ASSUME PlacedInv, NEW c \in DOMAIN service.connections, Drop(c)
  PROVE  PlacedInv'
<1>1. /\ service' = [service EXCEPT !.connections[c].alive = FALSE]
      /\ workload' = [workload EXCEPT !.faults = @ + 1]
  BY DEF Drop
<1>2. /\ DOMAIN service' = Fields
      /\ service'.connections = [service.connections EXCEPT ![c].alive = FALSE]
      /\ service'.connection_metas = service.connection_metas
      /\ service'.initialized = service.initialized
  BY <1>1 DEF PlacedInv, Fields
<1>3. DOMAIN workload' = DOMAIN workload /\ workload'.ready = workload.ready
  BY <1>1 DEF PlacedInv
<1>4. PICK k \in 0 .. num_connections :
        Placed(k) /\ (workload.ready => k = num_connections /\ service.initialized)
  BY DEF PlacedInv
<1>5. Placed(k)'
  BY <1>2, <1>4 DEF Placed, metas, meta
<1> QED
  BY <1>2, <1>3, <1>4, <1>5 DEF PlacedInv

\* Every step keeps the connections placed.
LEMMA NextPlaced == PlacedInv /\ [IrNext]_vars => PlacedInv'
<1> SUFFICES ASSUME PlacedInv, [IrNext]_vars PROVE PlacedInv'
  OBVIOUS
<1>1. ASSUME NEW k \in 0 .. num_connections - 1, InitFails(k) PROVE PlacedInv'
  BY <1>1, InitFailsPlaced
<1>2. ASSUME NEW answered \in BOOLEAN, InitSucceeds(answered) PROVE PlacedInv'
  BY <1>2, InitSucceedsPlaced
<1>3. ASSUME NEW name \in Requests \cap GeneratorNames, apply_generator(name)
      PROVE PlacedInv'
  <2>1. service' = [service EXCEPT !.poisoned = builder'.result # "ok"]
    BY <1>3 DEF apply_generator
  <2>2. workload' = [workload EXCEPT !.requests = @ + 1]
    BY <1>3 DEF apply_generator
  <2> QED
    BY <2>1, <2>2, ElsewherePlaced DEF PlacedInv, Fields
<1>4. ASSUME NEW name \in Requests \cap MutatorNames, apply_mutator(name)
      PROVE PlacedInv'
  <2>1. /\ service' = service
        /\ workload' = [workload EXCEPT !.requests = @ + 1, !.rewritten = TRUE]
    BY <1>4 DEF apply_mutator
  <2> QED
    BY <2>1, ElsewherePlaced DEF PlacedInv, Fields
<1>5. ASSUME Compile PROVE PlacedInv'
  BY <1>5, ElsewherePlaced DEF Compile, PlacedInv
<1>6. ASSUME Send PROVE PlacedInv'
  <2>1. service' = [service EXCEPT !.syncing = TRUE] /\ workload' = workload
    BY <1>6 DEF Send
  <2> QED
    BY <2>1, ElsewherePlaced DEF PlacedInv, Fields
<1>7. ASSUME Sync PROVE PlacedInv'
  BY <1>7, SyncPlaced
<1>8. ASSUME NEW c \in DOMAIN service.connections, Drop(c) PROVE PlacedInv'
  BY <1>8, DropPlaced
<1>9. ASSUME NEW block \in node.sent, Accept(block) PROVE PlacedInv'
  BY <1>9, ElsewherePlaced DEF Accept, PlacedInv
<1>10. ASSUME UNCHANGED vars PROVE PlacedInv'
  BY <1>10, ElsewherePlaced DEF vars, PlacedInv
<1> QED
  BY <1>1, <1>2, <1>3, <1>4, <1>5, <1>6, <1>7, <1>8, <1>9, <1>10 DEF IrNext

\* The invariant says what the clients rely on.
LEMMA PlacedIsInPlace == PlacedInv => ConnectionsInPlace
<1> SUFFICES ASSUME PlacedInv, workload.ready
             PROVE  /\ service.initialized
                    /\ [k \in DOMAIN service.connections |-> service.connections[k].peer]
                         = metas(num_connections)
  BY DEF ConnectionsInPlace
<1>1. Placed(num_connections) /\ service.initialized
  BY DEF PlacedInv
<1> QED
  BY <1>1 DEF Placed, metas

\* Once the clients run, every connection is where the program's context says
\* it is, whatever the number of nodes, of failed and repeated inits, of drops
\* and of reconnects.
THEOREM ConnectionsStayInPlace == IrSpec => []ConnectionsInPlace
<1>1. IrInit => PlacedInv
  BY InitPlaced
<1>2. PlacedInv /\ [IrNext]_vars => PlacedInv'
  BY NextPlaced
<1>3. PlacedInv => ConnectionsInPlace
  BY PlacedIsInPlace
<1> QED
  BY <1>1, <1>2, <1>3, PTL DEF IrSpec

-----------------------------------------------------------------------------
\* Programs that grow.

\* a's instructions begin with those of b.
Extends(b, a) ==
  /\ Len(b.instructions) <= Len(a.instructions)
  /\ \A k \in 1 .. Len(b.instructions) : a.instructions[k] = b.instructions[k]

\* What changes in a builder that appends an instruction successfully.
LEMMA AppendExtends ==
  ASSUME NEW b, RoundInv(b), NEW i \in InstructionType
  PROVE  /\ Extends(b, append(b, i))
         /\ append(b, i).result = "ok" =>
              /\ append(b, i) = accept(b, i)
              /\ append(b, i).instructions = Append(b.instructions, i)
              /\ Untorn(b) => Untorn(append(b, i))
              /\ Validate(b, i) = "ok"
              /\ is_block_end(i.operation) => ClosesCurrentBlock(b, i)
<1> DEFINE a == append(b, i)
           p == b.instructions
<1>1. /\ DOMAIN b = FieldNames /\ p \in Seq(InstructionType)
      /\ Len(p) \in Nat /\ Len(b.contexts) \in Nat
      /\ b.contexts \in Seq(InstructionContext)
  <2>1. b \in Builder
    BY DEF RoundInv, SafeInv, Inv
  <2> QED
    BY <2>1 DEF Builder, FieldNames, InstructionType
<1>2. CASE Validate(b, i) # "ok"
  <2>1. a = [b EXCEPT !.result = Validate(b, i)]
    BY <1>2 DEF append
  <2> HIDE DEF a
  <2>2. a.instructions = p /\ a.result # "ok"
    BY <1>1, <1>2, <2>1 DEF FieldNames
  <2> QED
    BY <1>1, <2>2 DEF Extends, a
<1>3. CASE Validate(b, i) = "ok" /\ is_block_end(i.operation) /\ ~ ClosesCurrentBlock(b, i)
  <2>1. a = refuse_block_end(b)
    BY <1>3 DEF append
  <2>2. a.instructions = p /\ a.result # "ok"
    BY <1>1, <2>1 DEF refuse_block_end, exit_scope, push_context, FieldNames
  <2> HIDE DEF a
  <2> QED
    BY <1>1, <2>2 DEF Extends, a
<1>4. CASE /\ Validate(b, i) = "ok"
           /\ is_block_end(i.operation) => ClosesCurrentBlock(b, i)
  <2>1. a = accept(b, i)
    BY <1>4 DEF append
  <2> HIDE DEF a
  <2>2. /\ a.instructions = Append(p, i)
        /\ a.contexts = Append(b.contexts, Last(b.active_scopes).context)
    BY <1>1, <2>1, AcceptRecords
  <2>3. Extends(b, a)
    BY <1>1, <2>2 DEF Extends
  <2>4. Untorn(b) => Untorn(a)
    BY <1>1, <2>2 DEF Untorn
  <2> QED
    BY <1>4, <2>1, <2>2, <2>3, <2>4 DEF a
<1> QED
  BY <1>2, <1>3, <1>4

\* Grown(b, a): a is a builder that b may have become by appending.
Grown(b, a) ==
  /\ RoundInv(a) /\ Extends(b, a)
  /\ Untorn(b) /\ a.result = "ok" => Untorn(a)

\* One append more, if the last one was accepted.
LEMMA GrownStep ==
  ASSUME NEW b, RoundInv(b), NEW a, Grown(b, a), NEW i \in InstructionType
  PROVE  Grown(b, AppendNext(a, i))
<1>1. CASE a.result # "ok"
  BY <1>1 DEF AppendNext
<1>2. CASE a.result = "ok"
  <2> DEFINE c == append(a, i)
  <2>1. AppendNext(a, i) = c
    BY <1>2 DEF AppendNext
  <2>2. RoundInv(c)
    BY RoundStep DEF Grown
  <2>3. Extends(a, c) /\ (c.result = "ok" => (Untorn(a) => Untorn(c)))
    BY AppendExtends DEF Grown
  <2> HIDE DEF c
  <2>4. Extends(b, c)
    <3>1. Len(b.instructions) \in Nat /\ Len(a.instructions) \in Nat /\ Len(c.instructions) \in Nat
      <4>1. \A x : RoundInv(x) => Len(x.instructions) \in Nat
        BY DEF RoundInv, SafeInv, Inv, Builder
      <4> QED
        BY <2>2, <4>1 DEF Grown
    <3> QED
      BY <2>3, <3>1 DEF Extends, Grown
  <2> QED
    BY <1>2, <2>1, <2>2, <2>3, <2>4 DEF Grown
<1> QED
  BY <1>1, <1>2

\* append_all, whatever it is given and whether it succeeds or not.
LEMMA AppendAllGrows ==
  ASSUME NEW b, RoundInv(b), NEW s \in Seq(InstructionType)
  PROVE  /\ \A n \in 0 .. Len(s) : Grown(b, Appended(b, s)[n])
         /\ Grown(b, append_all(b, s))
<1> DEFINE f == Appended(b, s)
           T == {k \in 0 .. Len(s) : ~ Grown(b, f[k])}
<1>1. T = {}
  <2>1. SUFFICES ASSUME T # {} PROVE FALSE
    OBVIOUS
  <2>2. PICK k \in T : \A j \in T : k <= j
    <3>1. T \subseteq Nat
      OBVIOUS
    <3> HIDE DEF T
    <3> QED
      BY <2>1, <3>1, LeastOne
  <2>3. f[0] = b /\ \A j \in 1 .. Len(s) : f[j] = AppendNext(f[j - 1], s[j])
    BY AppendedIs
  <2> HIDE DEF f
  <2>4. Grown(b, b)
    <3>1. Len(b.instructions) \in Nat
      BY DEF RoundInv, SafeInv, Inv, Builder
    <3> QED
      BY <3>1 DEF Grown, Extends
  <2>5. k \in 0 .. Len(s) /\ ~ Grown(b, f[k])
    BY <2>2
  <2>6. k \in 1 .. Len(s) /\ k - 1 \in 0 .. Len(s)
    BY <2>3, <2>4, <2>5
  <2>7. Grown(b, f[k - 1])
    <3>1. ~ (k <= k - 1)
      BY <2>6
    <3>2. k - 1 \notin T
      <4> HIDE DEF T
      <4> QED
        BY <2>2, <3>1
    <3> QED
      BY <2>6, <3>2
  <2>8. s[k] \in InstructionType
    BY <2>6
  <2> QED
    BY <2>3, <2>5, <2>6, <2>7, <2>8, GrownStep
<1>2. \A n \in 0 .. Len(s) : Grown(b, f[n])
  BY <1>1
<1>3. append_all(b, s) = f[Len(s)]
  BY AppendAllIs
<1> QED
  BY <1>2, <1>3

\* Two sequences are appended one after the other.
LEMMA AppendAllConcat ==
  ASSUME NEW b, NEW S, NEW s \in Seq(S), NEW t \in Seq(S)
  PROVE  append_all(b, s \o t) = append_all(append_all(b, s), t)
<1> DEFINE st == s \o t
           M == Len(s)
           N == Len(t)
<1>1. /\ st \in Seq(S) /\ Len(st) = M + N /\ M \in Nat /\ N \in Nat
      /\ \A k \in 1 .. M : st[k] = s[k]
      /\ \A k \in 1 .. N : t[k] = st[M + k]
  OBVIOUS
<1> HIDE DEF st
<1>2. append_all(b, st) = Appended(b, st)[M + N]
  BY <1>1, AppendAllIs
<1>3. append_all(b, s) = Appended(b, s)[M]
  BY AppendAllIs
<1>4. \A c : append_all(c, t) = Appended(c, t)[N]
  BY AppendAllIs
<1> HIDE DEF M, N
<1>5. Appended(b, s)[M] = Appended(b, st)[M]
  <2>1. M \in 0 .. Len(s) /\ M <= Len(st) /\ Len(s) = M /\ Len(st) \in Nat
    BY <1>1 DEF M
  <2>2. \A k \in 1 .. M : s[k] = st[k]
    BY <1>1
  <2> QED
    BY <2>1, <2>2, AppendedBeginning
<1>6. Appended(b, st)[M + N] = Appended(Appended(b, st)[M], t)[N]
  <2>1. /\ Len(st) \in Nat /\ M \in 0 .. Len(st) /\ Len(t) \in Nat /\ N \in 0 .. Len(t)
        /\ M + N <= Len(st)
    BY <1>1 DEF N
  <2>2. \A k \in 1 .. N : t[k] = st[M + k]
    BY <1>1
  <2> QED
    BY <2>1, <2>2, AppendedRest
<1> QED
  BY <1>2, <1>3, <1>4, <1>5, <1>6 DEF st

\* An error is final.
LEMMA AppendAllStops ==
  ASSUME NEW b, NEW S, NEW s \in Seq(S), b.result # "ok"
  PROVE  append_all(b, s) = b
<1>1. Appended(b, s)[0] = b
  BY AppendedIs
<1>2. Appended(b, s)[Len(s)] = Appended(b, s)[0]
  <2>1. 0 \in 0 .. Len(s) /\ Len(s) \in 0 .. Len(s) /\ Len(s) \in Nat
    OBVIOUS
  <2> QED
    BY <1>1, <2>1, AppendedStops
<1> QED
  BY <1>1, <1>2, AppendAllIs

\* Nothing appended changes nothing.
LEMMA AppendAllNone ==
  ASSUME NEW b
  PROVE  append_all(b, << >>) = b
<1>1. Len(<< >>) = 0 /\ << >> \in Seq({})
  OBVIOUS
<1>2. append_all(b, << >>) = Appended(b, << >>)[Len(<< >>)]
  BY <1>1, AppendAllIs
<1>3. Appended(b, << >>)[0] = b
  BY <1>1, AppendedIs
<1> QED
  BY <1>1, <1>2, <1>3


-----------------------------------------------------------------------------
\* Code that leaves as many scopes open as it found.

GeneratedInstruction == [operation : GeneratedOperation, inputs : Seq(Nat)]

Code == Seq(GeneratedInstruction)

\* What generators write is what callers may append.
LEMMA CodeIsCallers == GeneratedInstruction \subseteq InstructionType /\ Code \subseteq Seq(InstructionType)
<1>1. GeneratedInstruction \subseteq InstructionType
  BY GeneratorsAreCallers DEF GeneratedInstruction, InstructionType
<1> QED
  BY <1>1 DEF Code

Ready(b) == RoundInv(b) /\ b.result = "ok"

\* By how many scopes the stack grows.
Delta(op) == IF is_block_begin(op) THEN 1 ELSE IF is_block_end(op) THEN -1 ELSE 0

\* If all of s is accepted, the stack has then d scopes more.
Raises(s, d) ==
  \A b : Ready(b) /\ append_all(b, s).result = "ok" =>
           Len(append_all(b, s).active_scopes) = Len(b.active_scopes) + d

Nests(s, d) == s \in Code /\ d \in Int /\ Raises(s, d)

\* The height of a stack is a number.
LEMMA HeightType ==
  ASSUME NEW b, RoundInv(b)
  PROVE  /\ b.active_scopes \in Seq(ScopeType) /\ Len(b.active_scopes) \in Nat
         /\ Len(b.active_scopes) >= 1
<1>1. Inv(b) /\ b \in Builder
  BY DEF RoundInv, SafeInv, Inv
<1>2. b.active_scopes \in Seq(ScopeType)
  BY <1>1, BuilderFields
<1>3. b.active_scopes # << >>
  BY <1>1 DEF Inv, StackInv
<1> QED
  BY <1>2, <1>3

\* A sequence that is accepted leaves a builder to go on with.
LEMMA ReadyAfter ==
  ASSUME NEW b, Ready(b), NEW s \in Seq(InstructionType), append_all(b, s).result = "ok"
  PROVE  Ready(append_all(b, s))
BY AppendAllGrows DEF Ready, Grown

\* One instruction more.
LEMMA AppendRaises ==
  ASSUME NEW b, Ready(b), NEW i \in InstructionType, append(b, i).result = "ok"
  PROVE  Len(append(b, i).active_scopes) = Len(b.active_scopes) + Delta(i.operation)
<1> DEFINE op == i.operation
           st == b.active_scopes
<1>1. append(b, i) = accept(b, i)
  BY AppendExtends DEF Ready
<1>2. b \in Builder
  BY DEF Ready, RoundInv, SafeInv, Inv
<1>3. accept(b, i).active_scopes = Above(b, op)
  BY <1>2, AcceptFields
<1>4. st \in Seq(ScopeType) /\ Len(st) \in Nat /\ Len(st) >= 1
  BY HeightType DEF Ready
<1>5. is_block_begin(op) => ~ is_block_end(op)
  BY BeginIsNotEnd
<1>6. CASE is_block_begin(op)
  <2>1. Below(b, op) = st /\ Delta(op) = 1
    BY <1>5, <1>6 DEF Below, Delta
  <2>2. Above(b, op) = Append(st, Scope(Len(b.instructions) + 1, b.scope_counter + 1,
                                        entered_context_after_execution(op)))
    BY <1>6, <2>1 DEF Above
  <2>3. Len(Above(b, op)) = Len(st) + 1
    BY <1>4, <2>2
  <2> QED
    BY <1>1, <1>3, <2>1, <2>3
<1>7. CASE is_block_end(op)
  <2>1. Above(b, op) = Front(st) /\ Delta(op) = -1
    BY <1>5, <1>7 DEF Above, Below, Delta
  <2>2. Len(Front(st)) = Len(st) - 1
    BY <1>4 DEF Front
  <2> QED
    BY <1>1, <1>3, <1>4, <2>1, <2>2
<1>8. CASE ~ is_block_begin(op) /\ ~ is_block_end(op)
  <2>1. Above(b, op) = st /\ Delta(op) = 0
    BY <1>8 DEF Above, Below, Delta
  <2> QED
    BY <1>1, <1>3, <1>4, <2>1
<1> QED
  BY <1>6, <1>7, <1>8

\* Nothing raises the stack by nothing.
LEMMA NestsNone == Nests(<< >>, 0)
<1>1. \A b : append_all(b, << >>) = b
  BY AppendAllNone
<1>2. \A b : Ready(b) => Len(b.active_scopes) \in Nat
  BY HeightType DEF Ready
<1>3. << >> \in Code
  BY DEF Code
<1> QED
  BY <1>1, <1>2, <1>3 DEF Nests, Raises

\* One instruction raises it by its own difference.
LEMMA NestsOne ==
  ASSUME NEW i \in GeneratedInstruction
  PROVE  Nests(<<i>>, Delta(i.operation))
<1>1. i \in InstructionType /\ <<i>> \in Code /\ Delta(i.operation) \in Int
  BY CodeIsCallers DEF Code, Delta
<1>2. \A b : append_all(b, <<i>>) = AppendNext(b, i)
  <2>1. <<i>> = Append(<< >>, i) /\ << >> \in Seq(InstructionType)
    OBVIOUS
  <2>2. \A b : append_all(b, Append(<< >>, i)) = AppendNext(append_all(b, << >>), i)
    BY <1>1, <2>1, AppendAllOneMore
  <2>3. \A b : append_all(b, << >>) = b
    BY AppendAllNone
  <2> QED
    BY <2>1, <2>2, <2>3
<1>3. ASSUME NEW b, Ready(b), append_all(b, <<i>>).result = "ok"
      PROVE  Len(append_all(b, <<i>>).active_scopes) = Len(b.active_scopes) + Delta(i.operation)
  <2>1. append_all(b, <<i>>) = append(b, i)
    BY <1>2, <1>3 DEF AppendNext, Ready
  <2> QED
    BY <1>1, <1>3, <2>1, AppendRaises
<1> QED
  BY <1>1, <1>3 DEF Nests, Raises

\* Two pieces of code, one after the other.
LEMMA NestsConcat ==
  ASSUME NEW s, NEW d, Nests(s, d), NEW t, NEW e, Nests(t, e)
  PROVE  Nests(s \o t, d + e)
<1>1. s \in Code /\ t \in Code /\ d \in Int /\ e \in Int
  BY DEF Nests
<1>2. s \in Seq(InstructionType) /\ t \in Seq(InstructionType)
  BY <1>1, CodeIsCallers
<1>3. s \o t \in Code /\ d + e \in Int
  BY <1>1 DEF Code
<1>4. ASSUME NEW b, Ready(b), append_all(b, s \o t).result = "ok"
      PROVE  Len(append_all(b, s \o t).active_scopes) = Len(b.active_scopes) + (d + e)
  <2> DEFINE c == append_all(b, s)
             a == append_all(c, t)
  <2>1. append_all(b, s \o t) = a
    BY <1>2, AppendAllConcat
  <2>2. c.result = "ok"
    BY <1>2, <1>4, <2>1, AppendAllStops
  <2>3. Ready(c)
    BY <1>2, <1>4, <2>2, ReadyAfter
  <2>4. Len(c.active_scopes) = Len(b.active_scopes) + d
    BY <1>4, <2>2 DEF Nests, Raises
  <2>5. Len(a.active_scopes) = Len(c.active_scopes) + e
    BY <1>4, <2>1, <2>3 DEF Nests, Raises
  <2>6. Len(b.active_scopes) \in Nat
    BY <1>4, HeightType DEF Ready
  <2> DEFINE h == Len(b.active_scopes)
  <2>7. (h + d) + e = h + (d + e)
    <3>1. h \in Nat
      BY <2>6
    <3> HIDE DEF h
    <3> QED
      BY <1>1, <3>1
  <2> HIDE DEF a, c, h
  <2>8. Len(a.active_scopes) = h + (d + e)
    BY <2>4, <2>5, <2>7 DEF h
  <2> QED
    BY <2>1, <2>8 DEF h
<1> QED
  BY <1>3, <1>4 DEF Nests, Raises

\* One instruction more.
LEMMA NestsAppend ==
  ASSUME NEW s, NEW d, Nests(s, d), NEW i \in GeneratedInstruction
  PROVE  Nests(Append(s, i), d + Delta(i.operation))
<1>1. Append(s, i) = s \o <<i>>
  BY DEF Nests, Code
<1> QED
  BY <1>1, NestsOne, NestsConcat

\* Two, three and four instructions written out.
LEMMA NestsTwo ==
  ASSUME NEW i \in GeneratedInstruction, NEW j \in GeneratedInstruction
  PROVE  Nests(<<i, j>>, Delta(i.operation) + Delta(j.operation))
<1>1. <<i, j>> = Append(<<i>>, j)
  OBVIOUS
<1> QED
  BY <1>1, NestsOne, NestsAppend

\* Three instructions.
LEMMA NestsThree ==
  ASSUME NEW i \in GeneratedInstruction, NEW j \in GeneratedInstruction,
         NEW k \in GeneratedInstruction
  PROVE  Nests(<<i, j, k>>, (Delta(i.operation) + Delta(j.operation)) + Delta(k.operation))
<1>1. <<i, j, k>> = Append(<<i, j>>, k)
  OBVIOUS
<1> QED
  BY <1>1, NestsTwo, NestsAppend

\* Four instructions.
LEMMA NestsFour ==
  ASSUME NEW i \in GeneratedInstruction, NEW j \in GeneratedInstruction,
         NEW k \in GeneratedInstruction, NEW l \in GeneratedInstruction
  PROVE  Nests(<<i, j, k, l>>, ((Delta(i.operation) + Delta(j.operation))
                                  + Delta(k.operation)) + Delta(l.operation))
<1>1. <<i, j, k, l>> = Append(<<i, j, k>>, l)
  OBVIOUS
<1> QED
  BY <1>1, NestsThree, NestsAppend

\* Code without blocks.
LEMMA FlatNests ==
  ASSUME NEW s \in Code, \A k \in 1 .. Len(s) : Delta(s[k].operation) = 0
  PROVE  Nests(s, 0)
<1>1. s \in Seq(InstructionType) /\ Len(s) \in Nat
  BY CodeIsCallers DEF Code
<1>2. ASSUME NEW b, Ready(b), append_all(b, s).result = "ok"
      PROVE  Len(append_all(b, s).active_scopes) = Len(b.active_scopes)
  <2> DEFINE f == Appended(b, s)
             T == {k \in 0 .. Len(s) : Len(f[k].active_scopes) # Len(b.active_scopes)}
  <2>1. f[0] = b /\ \A n \in 1 .. Len(s) : f[n] = AppendNext(f[n - 1], s[n])
    BY <1>1, AppendedIs
  <2>2. append_all(b, s) = f[Len(s)]
    BY <1>1, AppendAllIs
  <2>3. \A n \in 0 .. Len(s) : f[n].result = "ok"
    <3>1. ASSUME NEW n \in 0 .. Len(s), f[n].result # "ok" PROVE FALSE
      <4>1. Len(s) \in n .. Len(s)
        BY <1>1
      <4>2. f[Len(s)] = f[n]
        BY <1>1, <3>1, <4>1, AppendedStops
      <4> QED
        BY <1>2, <2>2, <3>1, <4>2
    <3> QED
      BY <3>1
  <2>4. \A n \in 0 .. Len(s) : RoundInv(f[n])
    BY <1>1, <1>2, AppendAllGrows DEF Ready, Grown
  <2> HIDE DEF f
  <2>5. SUFFICES ASSUME T # {} PROVE FALSE
    <3>1. Len(s) \in 0 .. Len(s)
      BY <1>1
    <3> QED
      BY <2>2, <2>5, <3>1
  <2>6. PICK k \in T : \A j \in T : k <= j
    <3>1. T \subseteq Nat
      OBVIOUS
    <3> HIDE DEF T
    <3> QED
      BY <2>5, <3>1, LeastOne
  <2>7. k \in 0 .. Len(s) /\ Len(f[k].active_scopes) # Len(b.active_scopes)
    BY <2>6
  <2>8. k \in 1 .. Len(s) /\ k - 1 \in 0 .. Len(s)
    BY <1>1, <2>1, <2>7
  <2>9. Len(f[k - 1].active_scopes) = Len(b.active_scopes)
    <3>1. ~ (k <= k - 1)
      BY <2>8
    <3>2. k - 1 \notin T
      <4> HIDE DEF T
      <4> QED
        BY <2>6, <3>1
    <3> QED
      BY <2>8, <3>2
  <2>10. f[k] = append(f[k - 1], s[k])
    BY <2>1, <2>3, <2>8 DEF AppendNext
  <2>11. Ready(f[k - 1]) /\ s[k] \in InstructionType /\ f[k].result = "ok"
    BY <1>1, <2>3, <2>4, <2>7, <2>8 DEF Ready
  <2>12. Len(f[k].active_scopes) = Len(f[k - 1].active_scopes) + Delta(s[k].operation)
    BY <2>10, <2>11, AppendRaises
  <2>13. Len(b.active_scopes) \in Nat
    BY <1>2, HeightType DEF Ready
  <2> QED
    BY <2>7, <2>8, <2>9, <2>12, <2>13
<1>3. \A b : Ready(b) => Len(b.active_scopes) \in Nat
  BY HeightType DEF Ready
<1> QED
  BY <1>2, <1>3 DEF Nests, Raises


-----------------------------------------------------------------------------
\* What the operators that make code return.

\* Repeating a step, from base.
LEMMA IterationExists ==
  ASSUME NEW D, NEW base \in D, NEW N \in Nat, NEW step \in [1 .. N -> [D -> D]]
  PROVE  \E f \in [0 .. N -> D] :
           /\ f[0] = base
           /\ \A n \in 1 .. N : f[n] = step[n][f[n - 1]]
<1> DEFINE P(f, m) == /\ f \in [0 .. m -> D] /\ f[0] = base
                      /\ \A n \in 1 .. m : f[n] = step[n][f[n - 1]]
           T == {m \in 0 .. N : ~ \E f : P(f, m)}
<1>1. SUFFICES ASSUME T # {} PROVE FALSE
  <2>1. N \in 0 .. N
    OBVIOUS
  <2>2. T = {} => \E f : P(f, N)
    <3> HIDE DEF P
    <3> QED
      BY <2>1
  <2>3. ASSUME NEW f, P(f, N)
        PROVE  f \in [0 .. N -> D] /\ f[0] = base /\ \A n \in 1 .. N : f[n] = step[n][f[n - 1]]
    BY <2>3
  <2> HIDE DEF P, T
  <2> QED
    BY <1>1, <2>2, <2>3
<1>2. PICK m \in T : \A j \in T : m <= j
  <2>1. T \subseteq Nat
    OBVIOUS
  <2> HIDE DEF T
  <2> QED
    BY <1>1, <2>1, LeastOne
<1>3. m \in 0 .. N /\ \A f : ~ P(f, m)
  BY <1>2
<1>4. m # 0
  <2>1. P([n \in 0 .. 0 |-> base], 0)
    OBVIOUS
  <2> HIDE DEF P
  <2> QED
    BY <1>3, <2>1
<1>5. m \in 1 .. N /\ m - 1 \in 0 .. N /\ ~ (m <= m - 1) /\ m \in Nat /\ m - 1 \in Nat
  BY <1>3, <1>4
<1>6. m - 1 \notin T
  <2> HIDE DEF T
  <2> QED
    BY <1>2, <1>5
<1>7. \E f : P(f, m - 1)
  BY <1>5, <1>6
<1>8. PICK f : P(f, m - 1)
  <2> HIDE DEF P
  <2> QED
    BY <1>7
<1> DEFINE g == [n \in 0 .. m |-> IF n = m THEN step[m][f[m - 1]] ELSE f[n]]
<1>9. m - 1 \in 0 .. m - 1 /\ f[m - 1] \in D /\ step[m][f[m - 1]] \in D
  BY <1>5, <1>8
<1>10. /\ \A n \in 0 .. m - 1 : n \in 0 .. m /\ n # m /\ g[n] = f[n]
       /\ g[m] = step[m][f[m - 1]] /\ DOMAIN g = 0 .. m
  <2>1. m \in 0 .. m /\ \A n \in 0 .. m - 1 : n \in 0 .. m /\ n # m
    BY <1>5
  <2> QED
    BY <2>1
<1>11. g \in [0 .. m -> D]
  BY <1>5, <1>8, <1>9
<1>12. g[0] = base
  <2>1. 0 \in 0 .. m - 1
    BY <1>5
  <2> HIDE DEF g
  <2> QED
    BY <1>8, <1>10, <2>1
<1>13. ASSUME NEW n \in 1 .. m PROVE g[n] = step[n][g[n - 1]]
  <2>1. n - 1 \in 0 .. m - 1
    BY <1>5
  <2>2. CASE n = m
    <3> HIDE DEF g
    <3> QED
      BY <1>10, <2>1, <2>2
  <2>3. CASE n # m
    <3>1. n \in 1 .. m - 1 /\ n \in 0 .. m - 1
      BY <1>5, <2>3
    <3> HIDE DEF g
    <3> QED
      BY <1>8, <1>10, <2>1, <3>1
  <2> QED
    BY <2>2, <2>3
<1>14. P(g, m)
  BY <1>11, <1>12, <1>13
<1> HIDE DEF P
<1> QED
  BY <1>3, <1>14

Iterates(f, D, base, N, step) ==
  /\ f \in [0 .. N -> D]
  /\ f[0] = base
  /\ \A n \in 1 .. N : f[n] = step[n][f[n - 1]]

\* A function defined by iteration exists, and is the one that CHOOSE finds.
LEMMA IterationFound ==
  ASSUME NEW D, NEW base \in D, NEW N \in Nat, NEW step \in [1 .. N -> [D -> D]]
  PROVE  \E f : Iterates(f, D, base, N, step)
<1>1. \E f \in [0 .. N -> D] :
        /\ f[0] = base
        /\ \A n \in 1 .. N : f[n] = step[n][f[n - 1]]
  BY IterationExists
<1> QED
  BY <1>1 DEF Iterates

\* What holds at first and after every step always holds.
LEMMA IterationStays ==
  ASSUME NEW D, NEW N \in Nat, NEW f, f[0] \in D,
         \A n \in 1 .. N : f[n - 1] \in D => f[n] \in D
  PROVE  f[N] \in D
<1> DEFINE T == {m \in 0 .. N : f[m] \notin D}
<1>1. SUFFICES ASSUME T # {} PROVE FALSE
  BY <1>1
<1>2. PICK m \in T : \A j \in T : m <= j
  <2>1. T \subseteq Nat
    OBVIOUS
  <2> HIDE DEF T
  <2> QED
    BY <1>1, <2>1, LeastOne
<1>3. m \in 1 .. N /\ m - 1 \in 0 .. N /\ ~ (m <= m - 1)
  BY <1>2
<1>4. m - 1 \notin T
  <2> HIDE DEF T
  <2> QED
    BY <1>2, <1>3
<1> QED
  BY <1>2, <1>3, <1>4

\* How many variables a piece of code defines is a number.
LEMMA WidthType ==
  ASSUME NEW s \in Seq(InstructionType)
  PROVE  /\ width(s) \in Nat
         /\ \A k \in DOMAIN s :
              num_outputs(s[k].operation) + num_inner_outputs(s[k].operation) >= 1
                => width(s) >= 1
<1> DEFINE N == Len(s)
           n(k) == num_outputs(s[k].operation) + num_inner_outputs(s[k].operation)
           f == [k \in 1 .. N |-> {k} \X (1 .. n(k))]
           S == {{k} \X (1 .. n(k)) : k \in 1 .. N}
<1>1. N \in Nat /\ DOMAIN s = 1 .. N
  OBVIOUS
<1>2. ASSUME NEW k \in 1 .. N PROVE n(k) \in Int /\ IsFiniteSet({k} \X (1 .. n(k)))
  <2>1. s[k].operation \in Operation
    <3>1. s[k] \in InstructionType
      OBVIOUS
    <3> QED
      BY <3>1 DEF InstructionType
  <2>2. n(k) \in Int
    BY <2>1, OutputsType, InnerOutputsType DEF num_outputs, num_inner_outputs
  <2> DEFINE m == n(k)
  <2>3. IsFiniteSet({k})
    BY FS_Singleton
  <2>4. IsFiniteSet(1 .. m)
    <3>1. m \in Int /\ 1 \in Int
      BY <2>2
    <3> HIDE DEF m
    <3> QED
      BY <3>1, FS_Interval
  <2> HIDE DEF m
  <2>5. IsFiniteSet({k} \X (1 .. m))
    BY <2>3, <2>4, FS_Product
  <2> QED
    BY <2>2, <2>5 DEF m
<1>3. IsFiniteSet(S)
  <2>1. IsFiniteSet(1 .. N)
    BY <1>1, FS_Interval
  <2>2. f \in Surjection(1 .. N, S)
    BY DEF Surjection
  <2> HIDE DEF f, S
  <2> QED
    BY <2>1, <2>2, FS_Surjection
<1>4. \A T \in S : IsFiniteSet(T)
  BY <1>2
<1>5. IsFiniteSet(UNION S)
  <2> HIDE DEF S
  <2> QED
    BY <1>3, <1>4, FS_UNION
<1>6. width(s) = Cardinality(UNION S)
  BY <1>1 DEF width
<1>7. ASSUME NEW k \in 1 .. N, n(k) >= 1 PROVE Cardinality(UNION S) # 0
  <2> DEFINE m == n(k)
  <2>1. m \in Int /\ m >= 1
    BY <1>2, <1>7
  <2>2. {k} \X (1 .. m) \in S
    OBVIOUS
  <2> HIDE DEF S, m
  <2>3. <<k, 1>> \in {k} \X (1 .. m)
    BY <2>1
  <2>4. UNION S # {}
    BY <2>2, <2>3
  <2> QED
    BY <1>5, <2>4, FS_EmptySet
<1>8. width(s) \in Nat
  <2> HIDE DEF S
  <2> QED
    BY <1>5, <1>6, FS_CardinalityType
<1>9. ASSUME NEW k \in DOMAIN s, n(k) >= 1 PROVE width(s) >= 1
  <2>1. k \in 1 .. N
    BY <1>1
  <2>2. Cardinality(UNION S) # 0
    BY <1>7, <1>9, <2>1
  <2> DEFINE c == Cardinality(UNION S)
  <2>3. width(s) = c /\ c # 0 /\ c \in Nat
    BY <1>6, <1>8, <2>2
  <2> HIDE DEF S, n, c, N
  <2> QED
    BY <2>3
<1> HIDE DEF S, N, f
<1> QED
  BY <1>8, <1>9

\* The variables that code defines can be counted.
LEMMA CodeWidth ==
  ASSUME NEW s \in Code
  PROVE  width(s) \in Nat /\ Len(s) \in Nat
BY CodeIsCallers, WidthType DEF Code

-----------------------------------------------------------------------------
\* Instructions of the generators, by what they do to the stack.

Opens(i) == i \in GeneratedInstruction /\ Delta(i.operation) = 1

Closes(i) == i \in GeneratedInstruction /\ Delta(i.operation) = -1

Flat(i) == i \in GeneratedInstruction /\ Delta(i.operation) = 0

OpeningName ==
  { "BeginWitnessStack", "BeginBuildTx", "BeginBuildTxInputs", "BeginBuildTxOutputs",
    "BeginBuildInventory", "BeginBuildCoinbaseTx", "BeginBuildCoinbaseTxOutputs",
    "BeginBlockTransactions", "BeginBuildFilterLoad", "BeginBuildAddrList",
    "BeginBuildAddrListV2" }

ClosingName ==
  { "EndWitnessStack", "EndBuildTx", "EndBuildTxInputs", "EndBuildTxOutputs",
    "EndBuildInventory", "EndBuildCoinbaseTx", "EndBuildCoinbaseTxOutputs",
    "EndBlockTransactions", "EndBuildFilterLoad", "EndBuildAddrList",
    "EndBuildAddrListV2" }

FlatName ==
  TxInvs \cup BlockInvs \cup
  { "LoadBytes", "LoadSize", "LoadPrivateKey", "LoadSigHashFlags", "LoadAmount",
    "LoadSequence", "LoadTxVersion", "LoadLockTime", "LoadBlockVersion", "LoadNonce",
    "LoadCompactFilterType", "LoadBlockHeight", "LoadFilterLoad", "LoadFilterAdd",
    "LoadMsgType", "LoadTime", "BuildPayToScriptHash", "BuildPayToWitnessScriptHash",
    "BuildPayToAnchor", "BuildOpReturnScripts", "BuildPayToPubKey",
    "BuildPayToPubKeyHash", "BuildPayToWitnessPubKeyHash", "BuildPayToTaproot",
    "AddTxOutput", "AddCoinbaseTxOutput", "AddTxInput", "TakeTxo", "TaprootTxoUseAnnex",
    "SendInv", "SendTx", "BuildCoinbaseTxInput", "AddTx", "SendHeader", "SendBlock",
    "TakeCoinbaseTxo", "BuildBlock", "SendBlockNoWit", "BuildCompactBlock",
    "SendCompactBlock", "SendGetCFilters", "SendGetCFHeaders", "SendGetCFCheckpt",
    "SendGetData", "AddTxToFilter", "AddTxoToFilter", "SendFilterLoad",
    "BuildFilterAddFromTx", "BuildFilterAddFromTxo", "SendFilterAdd", "SendFilterClear",
    "AddAddr", "AddAddrV2", "SendAddr", "SendAddrV2", "SendGetAddr", "SendRawMessage" }

PlainName ==
  OperationName \
    { "Nop", "AdvanceTime", "Probe", "LoadNode", "LoadConnection",
      "LoadConnectionType", "LoadAddr", "LoadTxo", "LoadHeader",
      "LoadTaprootAnnex", "BuildTaprootTree" }

\* An instruction of an operation without a payload.
LEMMA PlainInstruction ==
  ASSUME NEW name \in PlainName, NEW inputs \in Seq(Nat)
  PROVE  I(name, inputs) \in GeneratedInstruction /\ I(name, inputs).operation.name = name
<1>1. Op(name, << >>) \in GeneratedOperation
  BY DEF GeneratedOperation, PlainName
<1>2. I(name, inputs) = [operation |-> Op(name, << >>), inputs |-> inputs]
  BY DEF I, Instruction
<1>3. Op(name, << >>).name = name
  BY DEF Op
<1> HIDE DEF GeneratedOperation
<1> QED
  BY <1>1, <1>2, <1>3 DEF GeneratedInstruction

\* The operations that open a block,
LEMMA IsOpening ==
  ASSUME NEW name \in OpeningName, NEW inputs \in Seq(Nat)
  PROVE  Opens(I(name, inputs))
<1>1. name \in PlainName
  BY DEF PlainName, OperationName, OpeningName
<1>2. \A op : op.name = name => is_block_begin(op)
  BY DEF is_block_begin, OpeningName
<1> QED
  BY <1>1, <1>2, PlainInstruction DEF Opens, Delta

\* those that close one,
LEMMA IsClosing ==
  ASSUME NEW name \in ClosingName, NEW inputs \in Seq(Nat)
  PROVE  Closes(I(name, inputs))
<1>1. name \in PlainName
  BY DEF PlainName, OperationName, ClosingName
<1>2. \A op : op.name = name => is_block_end(op) /\ ~ is_block_begin(op)
  BY DEF is_block_begin, is_block_end, ClosingName
<1> QED
  BY <1>1, <1>2, PlainInstruction DEF Closes, Delta

\* and those that do neither.
LEMMA IsFlat ==
  ASSUME NEW name \in FlatName, NEW inputs \in Seq(Nat)
  PROVE  Flat(I(name, inputs))
<1>1. name \in PlainName
  BY DEF PlainName, OperationName, FlatName, TxInvs, BlockInvs, Loads, ScriptBuilders,
         Sends, Adds
<1>2. \A op : op.name = name => ~ is_block_end(op) /\ ~ is_block_begin(op)
  BY DEF is_block_begin, is_block_end, FlatName, TxInvs, BlockInvs
<1> QED
  BY <1>1, <1>2, PlainInstruction DEF Flat, Delta

\* The loads that carry something.
LEMMA IsLoad ==
  ASSUME NEW name, NEW value,
         \/ name = "LoadConnection" /\ value \in 0 .. num_connections - 1
         \/ name = "LoadTxo" /\ value \in Txos
         \/ name = "LoadHeader" /\ value \in Headers
         \/ name = "LoadAddr" /\ value \in {"V1", "V2"}
         \/ name \in {"LoadTaprootAnnex", "BuildTaprootTree"} /\ value = TRUE
  PROVE  Flat(Load(name, value))
<1>1. Op(name, <<value>>) \in GeneratedOperation
  BY DEF GeneratedOperation
<1>2. Load(name, value) = [operation |-> Op(name, <<value>>), inputs |-> << >>]
  BY DEF Load, Instruction
<1>3. Op(name, <<value>>).name = name
  BY DEF Op
<1>4. Load(name, value) \in GeneratedInstruction
  <2>1. << >> \in Seq(Nat)
    OBVIOUS
  <2> QED
    BY <1>1, <1>2, <2>1 DEF GeneratedInstruction
<1>5. Delta(Op(name, <<value>>)) = 0
  BY <1>3 DEF Delta, is_block_begin, is_block_end
<1> QED
  BY <1>2, <1>4, <1>5 DEF Flat

\* A sequence of two elements.
LEMMA Pair ==
  ASSUME NEW G, NEW y \in G, NEW z \in G
  PROVE  <<y, z>> = <<y>> \o <<z>>
<1> DEFINE a == <<y>>
           b == <<z>>
           s == <<y, z>>
<1>1. a \in Seq(G) /\ b \in Seq(G) /\ Len(a) = 1 /\ Len(b) = 1 /\ a[1] = y /\ b[1] = z
  OBVIOUS
<1>2. s \in Seq(G) /\ Len(s) = 2 /\ s[1] = y /\ s[2] = z
  OBVIOUS
<1> HIDE DEF a, b, s
<1> DEFINE t == a \o b
<1>3. t \in Seq(G) /\ Len(t) = 2 /\ t[1] = y /\ t[2] = z
  <2>1. t \in Seq(G) /\ Len(t) = Len(a) + Len(b)
        /\ \A k \in 1 .. Len(a) + Len(b) : t[k] = IF k <= Len(a) THEN a[k] ELSE b[k - Len(a)]
    BY <1>1, ConcatProperties
  <2> HIDE DEF t
  <2>2. \A k \in 1 .. 2 : t[k] = IF k <= 1 THEN a[k] ELSE b[k - 1]
    <3>1. Len(a) + Len(b) = 2
      BY <1>1
    <3> QED
      BY <1>1, <2>1, <3>1
  <2>3. t[1] = a[1] /\ t[2] = b[1]
    <3>1. 1 \in 1 .. 2 /\ 2 \in 1 .. 2 /\ 2 - 1 = 1 /\ 1 <= 1 /\ ~ (2 <= 1)
      OBVIOUS
    <3>2. t[1] = IF 1 <= 1 THEN a[1] ELSE b[1 - 1]
      BY <2>2, <3>1
    <3>3. t[2] = IF 2 <= 1 THEN a[2] ELSE b[2 - 1]
      BY <2>2, <3>1
    <3> QED
      BY <3>1, <3>2, <3>3
  <2> QED
    BY <1>1, <2>1, <2>3
<1> HIDE DEF t
<1>4. s = [k \in 1 .. 2 |-> s[k]] /\ t = [k \in 1 .. 2 |-> t[k]]
  BY <1>2, <1>3
<1>5. \A k \in 1 .. 2 : s[k] = t[k]
  BY <1>2, <1>3
<1> QED
  BY <1>4, <1>5 DEF a, b, s, t

\* Concatenation, as an operator of its own: the provers rearrange it better.
cat(s, t) == s \o t

\* Concatenation, as an operator of its own: code followed by code is code,
LEMMA CatClosed ==
  ASSUME NEW G, NEW s \in Seq(G), NEW t \in Seq(G)
  PROVE  cat(s, t) \in Seq(G)
BY ConcatProperties DEF cat

\* and it does not matter what is concatenated first.
LEMMA CatAssoc ==
  ASSUME NEW G, NEW s \in Seq(G), NEW t \in Seq(G), NEW u \in Seq(G)
  PROVE  cat(cat(s, t), u) = cat(s, cat(t, u))
BY ConcatAssociative DEF cat

\* The same code, grouped by what opens it and what follows it.
Ungrouped(a, c, d, f, m, y, z) == (a \o (c \o (d \o f))) \o m \o (y \o z)

Grouped(a, c, d, f, m, y, z) == a \o (c \o (d \o (f \o m \o y)) \o z)

AllCode(G, a, c, d, f, m, y, z) ==
  /\ a \in Seq(G) /\ c \in Seq(G) /\ d \in Seq(G) /\ f \in Seq(G)
  /\ m \in Seq(G) /\ y \in Seq(G) /\ z \in Seq(G)

\* Pieces of code, bracketed as a block needs them.
LEMMA Regroup ==
  ASSUME NEW G, NEW a, NEW c, NEW d, NEW f, NEW m, NEW y, NEW z,
         AllCode(G, a, c, d, f, m, y, z)
  PROVE  Ungrouped(a, c, d, f, m, y, z) = Grouped(a, c, d, f, m, y, z)
<1> DEFINE df == cat(d, f)
           cdf == cat(c, df)
           fm == cat(f, m)
           X == cat(d, fm)
           Y == cat(c, X)
           yz == cat(y, z)
<1>0. /\ a \in Seq(G) /\ c \in Seq(G) /\ d \in Seq(G) /\ f \in Seq(G)
      /\ m \in Seq(G) /\ y \in Seq(G) /\ z \in Seq(G)
  BY DEF AllCode
<1>1. /\ df \in Seq(G) /\ cdf \in Seq(G) /\ fm \in Seq(G) /\ yz \in Seq(G)
      /\ X \in Seq(G) /\ Y \in Seq(G)
  BY <1>0, CatClosed
<1>2. cat(df, m) = X
  BY <1>0, CatAssoc
<1>3. cat(cdf, m) = cat(c, cat(df, m))
  BY <1>0, <1>1, CatAssoc
<1>4. cat(cat(a, cdf), m) = cat(a, cat(cdf, m))
  BY <1>0, <1>1, CatAssoc
<1>5. cat(cat(a, Y), yz) = cat(a, cat(Y, yz))
  BY <1>0, <1>1, CatAssoc
<1>6. cat(Y, yz) = cat(cat(Y, y), z)
  BY <1>0, <1>1, CatAssoc
<1>7. cat(Y, y) = cat(c, cat(X, y))
  BY <1>0, <1>1, CatAssoc
<1>8. cat(X, y) = cat(d, cat(fm, y))
  BY <1>0, <1>1, CatAssoc
<1>9. cat(cat(cat(a, cdf), m), yz) = cat(a, cat(cat(c, cat(d, cat(fm, y))), z))
  BY <1>2, <1>3, <1>4, <1>5, <1>6, <1>7, <1>8
<1> QED
  BY <1>9 DEF cat, Ungrouped, Grouped

\* The same with something behind the block.
LEMMA RegroupTail ==
  ASSUME NEW G, NEW a \in Seq(G), NEW s \in Seq(G), NEW c \in Seq(G), NEW d \in Seq(G)
  PROVE  (a \o s \o c) \o d = a \o s \o (c \o d)
<1>1. cat(cat(cat(a, s), c), d) = cat(cat(a, s), cat(c, d))
  <2> DEFINE t == cat(a, s)
  <2>1. t \in Seq(G)
    BY CatClosed
  <2> QED
    BY <2>1, CatAssoc
<1> QED
  BY <1>1 DEF cat


-----------------------------------------------------------------------------
\* Balanced code: it closes what it opens.

Balanced(s) == Nests(s, 0)

BalancedCode == {s \in Code : Balanced(s)}

\* Balanced sequences are code.
LEMMA BalancedIsCode ==
  ASSUME NEW s, Balanced(s)
  PROVE  s \in BalancedCode /\ s \in Code /\ width(s) \in Nat /\ Len(s) \in Nat
<1>1. s \in Code
  BY DEF Balanced, Nests
<1> QED
  BY <1>1, CodeWidth DEF BalancedCode

\* Balanced pieces after each other are balanced.
LEMMA BalancedTwo ==
  ASSUME NEW s, Balanced(s), NEW t, Balanced(t)
  PROVE  Balanced(s \o t)
<1>1. Nests(s \o t, 0 + 0)
  <2>1. Nests(s, 0) /\ Nests(t, 0)
    BY DEF Balanced
  <2> QED
    BY <2>1, NestsConcat
<1>2. 0 + 0 = 0
  OBVIOUS
<1> QED
  BY <1>1, <1>2 DEF Balanced

\* Three of them.
LEMMA BalancedThree ==
  ASSUME NEW s, Balanced(s), NEW t, Balanced(t), NEW u, Balanced(u)
  PROVE  Balanced(s \o t \o u)
BY BalancedTwo

\* Instructions that neither open nor close: one,
LEMMA FlatOne ==
  ASSUME NEW i, Flat(i)
  PROVE  Balanced(<<i>>)
BY NestsOne DEF Flat, Balanced

\* two,
LEMMA FlatTwo ==
  ASSUME NEW i, Flat(i), NEW j, Flat(j)
  PROVE  Balanced(<<i, j>>)
<1>1. <<i, j>> = <<i>> \o <<j>>
  BY DEF Flat
<1> QED
  BY <1>1, FlatOne, BalancedTwo

\* and three of them.
LEMMA FlatThree ==
  ASSUME NEW i, Flat(i), NEW j, Flat(j), NEW k, Flat(k)
  PROVE  Balanced(<<i, j, k>>)
<1>1. <<i, j, k>> = <<i>> \o <<j, k>>
  OBVIOUS
<1> QED
  BY <1>1, FlatOne, FlatTwo, BalancedTwo

\* A block and what is in it.
LEMMA BlockBalanced ==
  ASSUME NEW i, Opens(i), NEW s, Balanced(s), NEW j, Closes(j)
  PROVE  Balanced(<<i>> \o s \o <<j>>)
<1>1. Nests(<<i>>, 1)
  BY NestsOne DEF Opens
<1>2. Nests(<<j>>, -1)
  BY NestsOne DEF Closes
<1>3. Nests(s, 0)
  BY DEF Balanced
<1>4. Nests(<<i>> \o s, 1 + 0)
  BY <1>1, <1>3, NestsConcat
<1>5. Nests((<<i>> \o s) \o <<j>>, (1 + 0) + (-1))
  BY <1>2, <1>4, NestsConcat
<1>6. (1 + 0) + (-1) = 0
  OBVIOUS
<1> QED
  BY <1>5, <1>6 DEF Balanced

\* A block around one instruction.
LEMMA BlockOne ==
  ASSUME NEW i, Opens(i), NEW k, Flat(k), NEW j, Closes(j)
  PROVE  Balanced(<<i, k, j>>)
<1>1. <<i, k, j>> = <<i>> \o <<k>> \o <<j>>
  OBVIOUS
<1> QED
  BY <1>1, FlatOne, BlockBalanced

\* A block around nothing.
LEMMA BlockNone ==
  ASSUME NEW i, Opens(i), NEW j, Closes(j)
  PROVE  Balanced(<<i, j>>)
<1>1. <<i, j>> = <<i>> \o << >> \o <<j>>
  OBVIOUS
<1> QED
  BY <1>1, NestsNone, BlockBalanced DEF Balanced

\* One block ends where the next begins.
LEMMA CloseAndOpen ==
  ASSUME NEW i, Closes(i), NEW j, Opens(j)
  PROVE  Balanced(<<i, j>>)
<1>1. Nests(<<i, j>>, Delta(i.operation) + Delta(j.operation))
  BY NestsTwo DEF Opens, Closes
<1>2. Delta(i.operation) + Delta(j.operation) = 0
  BY DEF Opens, Closes
<1> QED
  BY <1>1, <1>2 DEF Balanced

\* Flat instructions, as many as there are.
LEMMA FlatMany ==
  ASSUME NEW n \in Nat, NEW s, DOMAIN s = 1 .. n, s = [k \in 1 .. n |-> s[k]],
         \A k \in 1 .. n : Flat(s[k])
  PROVE  Balanced(s)
<1>1. s \in Code /\ Len(s) = n
  BY DEF Code, Flat
<1>2. \A k \in 1 .. Len(s) : Delta(s[k].operation) = 0
  BY <1>1 DEF Flat
<1> QED
  BY <1>1, <1>2, FlatNests DEF Balanced

\* What holds at first and after every step, if it may depend on the step.
LEMMA IterationLeads ==
  ASSUME NEW D, NEW N \in Nat, NEW f, f[0] \in D[0],
         \A n \in 1 .. N : f[n - 1] \in D[n - 1] => f[n] \in D[n]
  PROVE  f[N] \in D[N]
<1> DEFINE T == {m \in 0 .. N : f[m] \notin D[m]}
<1>1. SUFFICES ASSUME T # {} PROVE FALSE
  BY <1>1
<1>2. PICK m \in T : \A j \in T : m <= j
  <2>1. T \subseteq Nat
    OBVIOUS
  <2> HIDE DEF T
  <2> QED
    BY <1>1, <2>1, LeastOne
<1>3. m \in 1 .. N /\ m - 1 \in 0 .. N /\ ~ (m <= m - 1)
  BY <1>2
<1>4. m - 1 \notin T
  <2> HIDE DEF T
  <2> QED
    BY <1>2, <1>3
<1> QED
  BY <1>2, <1>3, <1>4

\* Balanced pieces make a balanced whole.
LEMMA FlattenBalanced ==
  ASSUME NEW N \in Nat, NEW seqs, seqs = [k \in 1 .. N |-> seqs[k]],
         \A k \in 1 .. N : Balanced(seqs[k])
  PROVE  Balanced(FlattenSeq(seqs))
<1>1. Len(seqs) = N /\ DOMAIN seqs = 1 .. N
  OBVIOUS
<1>2. CASE N = 0
  <2>1. seqs = << >>
    BY <1>1, <1>2
  <2>2. FlattenSeq(seqs) = << >>
    BY <1>1, <1>2, <2>1 DEF FlattenSeq
  <2> QED
    BY <2>2, NestsNone DEF Balanced
<1>3. CASE N # 0
  <2> DEFINE Rec(g) == g = [i \in 1 .. N |-> IF i = 1 THEN seqs[i] ELSE g[i - 1] \o seqs[i]]
             f == CHOOSE g : Rec(g)
             L == N - 1
             step == [n \in 1 .. L |-> [s \in BalancedCode |-> s \o seqs[n + 1]]]
  <2>1. FlattenSeq(seqs) = f[N]
    BY <1>1, <1>3 DEF FlattenSeq
  <2>2. L \in Nat /\ 1 \in 1 .. N /\ N \in 1 .. N /\ N = L + 1
    BY <1>3
  <2>3. \A n \in 1 .. L : n + 1 \in 1 .. N
    BY <2>2
  <2>4. seqs[1] \in BalancedCode
    BY <2>2, BalancedIsCode
  <2>5. step \in [1 .. L -> [BalancedCode -> BalancedCode]]
    <3>1. ASSUME NEW n \in 1 .. L, NEW s \in BalancedCode
          PROVE  s \o seqs[n + 1] \in BalancedCode
      <4>1. Balanced(s) /\ Balanced(seqs[n + 1])
        BY <2>3, <3>1 DEF BalancedCode
      <4> QED
        BY <4>1, BalancedTwo, BalancedIsCode
    <3> QED
      BY <3>1
  <2>6. \E g \in [0 .. L -> BalancedCode] :
          g[0] = seqs[1] /\ \A n \in 1 .. L : g[n] = step[n][g[n - 1]]
    <3> HIDE DEF L, step
    <3> QED
      BY <2>2, <2>4, <2>5, IterationExists
  <2>7. PICK g \in [0 .. L -> BalancedCode] :
          g[0] = seqs[1] /\ \A n \in 1 .. L : g[n] = step[n][g[n - 1]]
    BY <2>6
  <2>8. \A n \in 1 .. L : g[n] = g[n - 1] \o seqs[n + 1]
    <3> TAKE n \in 1 .. L
    <3>1. n - 1 \in 0 .. L
      BY <2>2
    <3>2. g[n - 1] \in BalancedCode
      BY <3>1
    <3>3. g[n] = step[n][g[n - 1]]
      BY <2>7
    <3> QED
      BY <3>2, <3>3
  <2> HIDE DEF step
  <2> DEFINE h == [i \in 1 .. N |-> g[i - 1]]
  <2>9. Rec(h)
    <3> DEFINE k == [i \in 1 .. N |-> IF i = 1 THEN seqs[i] ELSE h[i - 1] \o seqs[i]]
    <3>1. ASSUME NEW i \in 1 .. N PROVE h[i] = k[i]
      <4>1. CASE i = 1
        BY <2>7, <4>1
      <4>2. CASE i # 1
        <5>1. i - 1 \in 1 .. L /\ i - 1 \in 1 .. N /\ (i - 1) + 1 = i
          BY <2>2, <4>2
        <5>2. g[i - 1] = g[i - 1 - 1] \o seqs[i]
          BY <2>8, <5>1
        <5> QED
          BY <4>2, <5>1, <5>2
      <4> QED
        BY <4>1, <4>2
    <3>2. DOMAIN h = 1 .. N /\ DOMAIN k = 1 .. N /\ h = [i \in 1 .. N |-> h[i]]
          /\ k = [i \in 1 .. N |-> k[i]]
      OBVIOUS
    <3>3. h = k
      <4> HIDE DEF h, k
      <4> QED
        BY <3>1, <3>2
    <3> HIDE DEF h
    <3> QED
      BY <3>3
  <2>10. Rec(f)
    <3> HIDE DEF h, Rec
    <3> QED
      BY <2>9
  <2>11. \A i \in 1 .. N : f[i] = IF i = 1 THEN seqs[i] ELSE f[i - 1] \o seqs[i]
    <3> HIDE DEF f
    <3> DEFINE k == [i \in 1 .. N |-> IF i = 1 THEN seqs[i] ELSE f[i - 1] \o seqs[i]]
    <3>1. f = k
      BY <2>10
    <3>2. \A i \in 1 .. N : k[i] = IF i = 1 THEN seqs[i] ELSE f[i - 1] \o seqs[i]
      OBVIOUS
    <3> HIDE DEF k
    <3> QED
      BY <3>1, <3>2
  <2> HIDE DEF f
  <2> DEFINE r == [n \in 0 .. L |-> f[n + 1]]
  <2>12. r[0] \in BalancedCode /\ r[L] = f[N]
    <3>1. 0 \in 0 .. L /\ L \in 0 .. L /\ 0 + 1 = 1
      BY <2>2
    <3>2. f[1] = seqs[1]
      BY <2>2, <2>11
    <3> QED
      BY <2>2, <2>4, <3>1, <3>2
  <2>13. ASSUME NEW n \in 1 .. L, r[n - 1] \in BalancedCode PROVE r[n] \in BalancedCode
    <3>1. n \in 0 .. L /\ n - 1 \in 0 .. L /\ n + 1 \in 1 .. N /\ n + 1 # 1
          /\ (n - 1) + 1 = n /\ (n + 1) - 1 = n
      BY <2>2
    <3>2. r[n] = f[n + 1] /\ r[n - 1] = f[n]
      BY <3>1
    <3>3. f[n + 1] = f[n] \o seqs[n + 1]
      BY <2>11, <3>1
    <3>4. Balanced(f[n]) /\ Balanced(seqs[n + 1])
      BY <2>13, <3>1, <3>2 DEF BalancedCode
    <3> QED
      BY <3>2, <3>3, <3>4, BalancedTwo, BalancedIsCode
  <2>14. r[L] \in BalancedCode
    <3> HIDE DEF r, L
    <3> QED
      BY <2>2, <2>12, <2>13, IterationStays
  <2> QED
    BY <2>1, <2>12, <2>14 DEF BalancedCode
<1> QED
  BY <1>2, <1>3


-----------------------------------------------------------------------------
\* Transactions.

KnownType ==
  { "PayToWitnessScriptHash", "PayToScriptHash", "PayToAnchor", "PayToPubKey",
    "PayToPubKeyHash", "PayToWitnessPubKeyHash", "PayToTaproot", "OpReturn" }

\* Scripts, output by output.
LEMMA ScriptsBalanced ==
  ASSUME NEW type \in KnownType, NEW v \in Nat
  PROVE  Balanced(scripts_of(type, v))
<1>0. << >> \in Seq(Nat) /\ <<v + 1>> \in Seq(Nat) /\ <<v + 2>> \in Seq(Nat)
      /\ <<v + 1, v + 2>> \in Seq(Nat) /\ <<v + 1, v + 3>> \in Seq(Nat)
  OBVIOUS
<1>1. CASE type \in {"PayToWitnessScriptHash", "PayToScriptHash"}
  <2> DEFINE name == IF type = "PayToScriptHash" THEN "BuildPayToScriptHash"
                     ELSE "BuildPayToWitnessScriptHash"
  <2>1. name \in FlatName
    BY DEF FlatName
  <2> HIDE DEF name
  <2>2. Flat(I("LoadBytes", << >>)) /\ Flat(I(name, <<v + 1, v + 3>>))
    <3>1. "LoadBytes" \in FlatName
      BY DEF FlatName
    <3> QED
      BY <1>0, <2>1, <3>1, IsFlat
  <2>3. Opens(I("BeginWitnessStack", << >>))
    <3>1. "BeginWitnessStack" \in OpeningName
      BY DEF OpeningName
    <3> QED
      BY <1>0, <3>1, IsOpening
  <2>4. Closes(I("EndWitnessStack", <<v + 2>>))
    <3>1. "EndWitnessStack" \in ClosingName
      BY DEF ClosingName
    <3> QED
      BY <1>0, <3>1, IsClosing
  <2>5. scripts_of(type, v) =
          << I("LoadBytes", << >>), I("BeginWitnessStack", << >>),
             I("EndWitnessStack", <<v + 2>>), I(name, <<v + 1, v + 3>>) >>
    BY <1>1 DEF scripts_of, name
  <2> DEFINE i == I("LoadBytes", << >>)
             j == I("BeginWitnessStack", << >>)
             k == I("EndWitnessStack", <<v + 2>>)
             l == I(name, <<v + 1, v + 3>>)
  <2>6. scripts_of(type, v) = <<i, j, k, l>> /\ Flat(i) /\ Opens(j) /\ Closes(k) /\ Flat(l)
    BY <2>2, <2>3, <2>4, <2>5
  <2> HIDE DEF i, j, k, l
  <2>7. <<i, j, k, l>> = <<i>> \o <<j, k>> \o <<l>>
    OBVIOUS
  <2>8. Balanced(<<i>>) /\ Balanced(<<j, k>>) /\ Balanced(<<l>>)
    BY <2>6, FlatOne, BlockNone
  <2> QED
    BY <2>6, <2>7, <2>8, BalancedThree
<1>2. CASE type = "PayToAnchor"
  <2>1. scripts_of(type, v) = << I("BuildPayToAnchor", << >>) >>
    BY <1>2 DEF scripts_of
  <2>2. "BuildPayToAnchor" \in FlatName
    BY DEF FlatName
  <2> QED
    BY <1>0, <2>1, <2>2, IsFlat, FlatOne
<1>3. CASE type = "OpReturn"
  <2>1. scripts_of(type, v) = << I("LoadSize", << >>), I("BuildOpReturnScripts", <<v + 1>>) >>
    BY <1>3 DEF scripts_of
  <2>2. "LoadSize" \in FlatName /\ "BuildOpReturnScripts" \in FlatName
    BY DEF FlatName
  <2>3. Flat(I("LoadSize", << >>)) /\ Flat(I("BuildOpReturnScripts", <<v + 1>>))
    BY <1>0, <2>2, IsFlat
  <2> QED
    BY <2>1, <2>3, FlatTwo
<1>4. CASE type \in {"PayToPubKey", "PayToPubKeyHash", "PayToWitnessPubKeyHash"}
  <2> DEFINE name == CASE type = "PayToPubKey" -> "BuildPayToPubKey"
                       [] type = "PayToPubKeyHash" -> "BuildPayToPubKeyHash"
                       [] OTHER -> "BuildPayToWitnessPubKeyHash"
  <2>1. name \in FlatName
    BY <1>4 DEF FlatName
  <2>2. scripts_of(type, v) =
          << I("LoadPrivateKey", << >>), I("LoadSigHashFlags", << >>),
             I(name, <<v + 1, v + 2>>) >>
    BY <1>4 DEF scripts_of
  <2> HIDE DEF name
  <2>3. "LoadPrivateKey" \in FlatName /\ "LoadSigHashFlags" \in FlatName
    BY DEF FlatName
  <2>4. Flat(I("LoadPrivateKey", << >>)) /\ Flat(I("LoadSigHashFlags", << >>))
        /\ Flat(I(name, <<v + 1, v + 2>>))
    BY <1>0, <2>1, <2>3, IsFlat
  <2> QED
    BY <2>2, <2>4, FlatThree
<1>5. CASE type = "PayToTaproot"
  <2>1. scripts_of(type, v) = << Load("BuildTaprootTree", TRUE), I("BuildPayToTaproot", <<v + 1>>) >>
    BY <1>5 DEF scripts_of
  <2>2. "BuildPayToTaproot" \in FlatName
    BY DEF FlatName
  <2>3. Flat(Load("BuildTaprootTree", TRUE))
    BY IsLoad
  <2>4. Flat(I("BuildPayToTaproot", <<v + 1>>))
    BY <1>0, <2>2, IsFlat
  <2> QED
    BY <2>1, <2>3, <2>4, FlatTwo
<1> QED
  BY <1>1, <1>2, <1>3, <1>4, <1>5 DEF KnownType

OutputAdd == {"AddTxOutput", "AddCoinbaseTxOutput"}

\* The code of one output of a transaction.
LEMMA OutputBalanced ==
  ASSUME NEW type \in KnownType, NEW v \in Nat, NEW mut_outputs \in Nat,
         NEW add \in OutputAdd
  PROVE  Balanced(add_output(mut_outputs, type, add, v))
<1> DEFINE s == scripts_of(type, v)
           scripts == v + Len(s)
<1>1. Balanced(s) /\ Len(s) \in Nat
  BY ScriptsBalanced, BalancedIsCode
<1>2. scripts \in Nat
  BY <1>1
<1>3. add_output(mut_outputs, type, add, v) =
        s \o << I("LoadAmount", << >>), I(add, <<mut_outputs, scripts, scripts + 1>>) >>
  BY DEF add_output
<1> HIDE DEF s, scripts
<1>4. Flat(I("LoadAmount", << >>)) /\ Flat(I(add, <<mut_outputs, scripts, scripts + 1>>))
  <2>1. "LoadAmount" \in FlatName /\ add \in FlatName
    BY DEF FlatName, OutputAdd
  <2>2. << >> \in Seq(Nat) /\ <<mut_outputs, scripts, scripts + 1>> \in Seq(Nat)
    BY <1>2
  <2> QED
    BY <2>1, <2>2, IsFlat
<1> QED
  BY <1>1, <1>3, <1>4, FlatTwo, BalancedTwo

\* All outputs of a transaction.
LEMMA OutputsBalanced ==
  ASSUME NEW types \in Seq(KnownType), NEW v \in Nat, NEW mut_outputs \in Nat,
         NEW add \in OutputAdd
  PROVE  Balanced(build_outputs(mut_outputs, types, add, v))
<1> DEFINE N == Len(types)
           one(n, s) == add_output(mut_outputs, types[n], add, v + width(s))
           Rec(g) == g = [n \in 0 .. N |-> IF n = 0 THEN << >> ELSE g[n - 1] \o one(n, g[n - 1])]
           f == CHOOSE g : Rec(g)
           step == [n \in 1 .. N |-> [s \in BalancedCode |-> s \o one(n, s)]]
<1>1. build_outputs(mut_outputs, types, add, v) = f[N]
  BY DEF build_outputs
<1>2. N \in Nat
  OBVIOUS
<1>3. ASSUME NEW n \in 1 .. N, NEW s \in BalancedCode
      PROVE  s \o one(n, s) \in BalancedCode
  <2>1. types[n] \in KnownType /\ Balanced(s) /\ width(s) \in Nat
    BY BalancedIsCode DEF BalancedCode
  <2>2. Balanced(one(n, s))
    <3>1. v + width(s) \in Nat
      BY <2>1
    <3> QED
      BY <2>1, <3>1, OutputBalanced
  <2> HIDE DEF one
  <2> QED
    BY <2>1, <2>2, BalancedTwo, BalancedIsCode
<1>4. << >> \in BalancedCode
  BY NestsNone, BalancedIsCode DEF Balanced
<1> HIDE DEF one, N
<1>5. step \in [1 .. N -> [BalancedCode -> BalancedCode]]
  BY <1>3
<1>6. \E g \in [0 .. N -> BalancedCode] :
        g[0] = << >> /\ \A n \in 1 .. N : g[n] = step[n][g[n - 1]]
  <2> HIDE DEF step, Rec, f
  <2>1. \E g : Iterates(g, BalancedCode, << >>, N, step)
    BY <1>2, <1>4, <1>5, IterationFound
  <2> QED
    BY <2>1 DEF Iterates
<1>7. \E g : Rec(g)
  <2>1. PICK g \in [0 .. N -> BalancedCode] :
          g[0] = << >> /\ \A n \in 1 .. N : g[n] = step[n][g[n - 1]]
    BY <1>6
  <2>2. ASSUME NEW n \in 1 .. N PROVE g[n] = g[n - 1] \o one(n, g[n - 1])
    <3>1. n - 1 \in 0 .. N
      BY <1>2
    <3>2. g[n - 1] \in BalancedCode /\ g[n] = step[n][g[n - 1]]
      BY <2>1, <3>1
    <3> QED
      BY <3>2
  <2> HIDE DEF step
  <2>3. g = [n \in 0 .. N |-> IF n = 0 THEN << >> ELSE g[n - 1] \o one(n, g[n - 1])]
    <3>1. ASSUME NEW n \in 0 .. N
          PROVE  g[n] = IF n = 0 THEN << >> ELSE g[n - 1] \o one(n, g[n - 1])
      <4>1. n = 0 \/ n \in 1 .. N
        BY <1>2
      <4> QED
        BY <2>1, <2>2, <4>1
    <3> QED
      BY <3>1
  <2> QED
    BY <2>3
<1>8. Rec(f)
  <2> HIDE DEF Rec
  <2> QED
    BY <1>7
<1>9. \A n \in 0 .. N : f[n] = IF n = 0 THEN << >> ELSE f[n - 1] \o one(n, f[n - 1])
  <2> HIDE DEF f
  <2> DEFINE k == [n \in 0 .. N |-> IF n = 0 THEN << >> ELSE f[n - 1] \o one(n, f[n - 1])]
  <2>1. f = k
    BY <1>8
  <2>2. \A n \in 0 .. N : k[n] = IF n = 0 THEN << >> ELSE f[n - 1] \o one(n, f[n - 1])
    OBVIOUS
  <2> HIDE DEF k
  <2> QED
    BY <2>1, <2>2
<1> HIDE DEF f, step
<1>10. f[0] \in BalancedCode
  <2>1. 0 \in 0 .. N
    BY <1>2
  <2> QED
    BY <1>4, <1>9, <2>1
<1>11. ASSUME NEW n \in 1 .. N, f[n - 1] \in BalancedCode PROVE f[n] \in BalancedCode
  <2>1. n \in 0 .. N /\ n # 0
    BY <1>2
  <2>2. f[n] = f[n - 1] \o one(n, f[n - 1])
    BY <1>9, <2>1
  <2> QED
    BY <1>3, <1>11, <2>2
<1>12. f[N] \in BalancedCode
  BY <1>2, <1>10, <1>11, IterationStays
<1> QED
  BY <1>1, <1>12 DEF BalancedCode

\* All inputs.
LEMMA InputsBalanced ==
  ASSUME NEW funding \in Seq(Nat), NEW v \in Nat, NEW mut_inputs \in Nat
  PROVE  Balanced(add_inputs(mut_inputs, funding, v))
<1> DEFINE N == Len(funding)
           seqs == [k \in 1 .. N |->
             << I("LoadSequence", << >>), I("AddTxInput", <<mut_inputs, funding[k], v + k>>) >>]
<1>1. N \in Nat
  OBVIOUS
<1>2. ASSUME NEW k \in 1 .. N PROVE Balanced(seqs[k])
  <2>1. "LoadSequence" \in FlatName /\ "AddTxInput" \in FlatName
    BY DEF FlatName
  <2>2. << >> \in Seq(Nat) /\ <<mut_inputs, funding[k], v + k>> \in Seq(Nat)
    OBVIOUS
  <2>3. Flat(I("LoadSequence", << >>)) /\ Flat(I("AddTxInput", <<mut_inputs, funding[k], v + k>>))
    BY <2>1, <2>2, IsFlat
  <2> QED
    BY <2>3, FlatTwo
<1>3. seqs = [k \in 1 .. N |-> seqs[k]]
  OBVIOUS
<1>4. add_inputs(mut_inputs, funding, v) = FlattenSeq(seqs)
  BY DEF add_inputs
<1> HIDE DEF seqs, N
<1> QED
  BY <1>1, <1>2, <1>3, <1>4, FlattenBalanced


-----------------------------------------------------------------------------
\* What takes the outputs of a transaction, and how many there are then.

Taken(n) == [code : BalancedCode, outputs : {s \in Seq(Nat) : Len(s) = n}]

TakeOne(tx, types, annexed, acc, k) ==
  LET txo == tx + width(acc.code) + 1
  IN  IF types[k] = "PayToTaproot" /\ k \in annexed
      THEN [code |-> acc.code \o
              << I("TakeTxo", <<tx>>), Load("LoadTaprootAnnex", TRUE),
                 I("TaprootTxoUseAnnex", <<txo, txo + 1>>) >>,
            outputs |-> Append(acc.outputs, txo + 2)]
      ELSE [code |-> Append(acc.code, I("TakeTxo", <<tx>>)),
            outputs |-> Append(acc.outputs, txo)]

\* One output taken more.
LEMMA TakeOneMore ==
  ASSUME NEW tx \in Nat, NEW types, NEW annexed, NEW k \in Nat, NEW n \in Nat,
         NEW acc \in Taken(n)
  PROVE  TakeOne(tx, types, annexed, acc, k) \in Taken(n + 1)
<1> DEFINE txo == tx + width(acc.code) + 1
           take == I("TakeTxo", <<tx>>)
           load == Load("LoadTaprootAnnex", TRUE)
           use == I("TaprootTxoUseAnnex", <<txo, txo + 1>>)
<1>1. /\ acc.code \in BalancedCode /\ Balanced(acc.code) /\ acc.code \in Code
      /\ acc.outputs \in Seq(Nat) /\ Len(acc.outputs) = n
  BY BalancedIsCode DEF Taken, BalancedCode
<1>2. width(acc.code) \in Nat
  BY <1>1, BalancedIsCode
<1>3. txo \in Nat
  BY <1>2
<1> HIDE DEF txo
<1>4. Flat(take)
  <2>1. "TakeTxo" \in FlatName /\ <<tx>> \in Seq(Nat)
    BY DEF FlatName
  <2> QED
    BY <2>1, IsFlat
<1>5. Flat(load)
  BY IsLoad
<1>6. Flat(use)
  <2>1. "TaprootTxoUseAnnex" \in FlatName /\ <<txo, txo + 1>> \in Seq(Nat)
    BY <1>3 DEF FlatName
  <2> QED
    BY <2>1, IsFlat
<1> HIDE DEF take, load, use
<1>7. Balanced(acc.code \o <<take, load, use>>)
  BY <1>1, <1>4, <1>5, <1>6, FlatThree, BalancedTwo
<1>8. Balanced(Append(acc.code, take))
  <2>1. Append(acc.code, take) = acc.code \o <<take>>
    BY <1>1 DEF Code
  <2> QED
    BY <1>1, <1>4, <2>1, FlatOne, BalancedTwo
<1>9. \A x \in Nat : Append(acc.outputs, x) \in {s \in Seq(Nat) : Len(s) = n + 1}
  BY <1>1
<1>10. CASE types[k] = "PayToTaproot" /\ k \in annexed
  <2>1. TakeOne(tx, types, annexed, acc, k)
          = [code |-> acc.code \o <<take, load, use>>, outputs |-> Append(acc.outputs, txo + 2)]
    BY <1>10 DEF TakeOne, take, load, use, txo
  <2>2. acc.code \o <<take, load, use>> \in BalancedCode
    BY <1>7, BalancedIsCode
  <2>3. Append(acc.outputs, txo + 2) \in {s \in Seq(Nat) : Len(s) = n + 1}
    BY <1>3, <1>9
  <2> QED
    BY <2>1, <2>2, <2>3 DEF Taken
<1>11. CASE ~ (types[k] = "PayToTaproot" /\ k \in annexed)
  <2>1. TakeOne(tx, types, annexed, acc, k)
          = [code |-> Append(acc.code, take), outputs |-> Append(acc.outputs, txo)]
    BY <1>11 DEF TakeOne, take, load, use, txo
  <2>2. Append(acc.code, take) \in BalancedCode
    BY <1>8, BalancedIsCode
  <2>3. Append(acc.outputs, txo) \in {s \in Seq(Nat) : Len(s) = n + 1}
    BY <1>3, <1>9
  <2> QED
    BY <2>1, <2>2, <2>3 DEF Taken
<1> QED
  BY <1>10, <1>11

\* Taking outputs opens nothing.
LEMMA TakesBalanced ==
  ASSUME NEW tx \in Nat, NEW types, Len(types) \in Nat, NEW annexed
  PROVE  take_outputs(tx, types, annexed) \in Taken(Len(types))
<1> DEFINE N == Len(types)
           base == [code |-> << >>, outputs |-> << >>]
           one(n, acc) == TakeOne(tx, types, annexed, acc, n)
           Rec(g) == g = [n \in 0 .. N |-> IF n = 0 THEN base ELSE one(n, g[n - 1])]
           f == CHOOSE g : Rec(g)
           D == UNION {Taken(n) : n \in Nat}
           step == [n \in 1 .. N |-> [acc \in D |-> one(n, acc)]]
<1>1. take_outputs(tx, types, annexed) = f[N]
  BY DEF take_outputs, TakeOne
<1>2. N \in Nat
  OBVIOUS
<1> HIDE DEF N
<1>3. base \in Taken(0)
  <2>1. << >> \in BalancedCode
    BY NestsNone, BalancedIsCode DEF Balanced
  <2>2. << >> \in {s \in Seq(Nat) : Len(s) = 0}
    OBVIOUS
  <2> QED
    BY <2>1, <2>2 DEF Taken
<1> HIDE DEF base
<1>4. ASSUME NEW n \in 1 .. N, NEW m \in Nat, NEW acc \in Taken(m)
      PROVE  one(n, acc) \in Taken(m + 1)
  <2>1. n \in Nat
    BY <1>2
  <2> QED
    BY <2>1, TakeOneMore
<1> HIDE DEF one
<1>5. step \in [1 .. N -> [D -> D]]
  <2>1. ASSUME NEW n \in 1 .. N, NEW acc \in D PROVE one(n, acc) \in D
    <3>1. PICK m \in Nat : acc \in Taken(m)
      OBVIOUS
    <3>2. m + 1 \in Nat
      OBVIOUS
    <3> QED
      BY <1>4, <3>1, <3>2
  <2> HIDE DEF D
  <2> QED
    BY <2>1
<1>6. base \in D
  BY <1>3
<1> HIDE DEF D
<1>7. \E g \in [0 .. N -> D] : g[0] = base /\ \A n \in 1 .. N : g[n] = step[n][g[n - 1]]
  <2> HIDE DEF step, Rec, f
  <2>1. \E g : Iterates(g, D, base, N, step)
    BY <1>2, <1>5, <1>6, IterationFound
  <2> QED
    BY <2>1 DEF Iterates
<1>8. \E g : Rec(g)
  <2>1. PICK g \in [0 .. N -> D] : g[0] = base /\ \A n \in 1 .. N : g[n] = step[n][g[n - 1]]
    BY <1>7
  <2>2. ASSUME NEW n \in 1 .. N PROVE g[n] = one(n, g[n - 1])
    <3>1. n - 1 \in 0 .. N
      BY <1>2
    <3>2. g[n - 1] \in D /\ g[n] = step[n][g[n - 1]]
      BY <2>1, <3>1
    <3> QED
      BY <3>2
  <2> HIDE DEF step
  <2>3. g = [n \in 0 .. N |-> IF n = 0 THEN base ELSE one(n, g[n - 1])]
    <3>1. ASSUME NEW n \in 0 .. N PROVE g[n] = IF n = 0 THEN base ELSE one(n, g[n - 1])
      <4>1. n = 0 \/ n \in 1 .. N
        BY <1>2
      <4> QED
        BY <2>1, <2>2, <4>1
    <3> QED
      BY <3>1
  <2> QED
    BY <2>3
<1>9. Rec(f)
  <2> HIDE DEF Rec
  <2> QED
    BY <1>8
<1>10. \A n \in 0 .. N : f[n] = IF n = 0 THEN base ELSE one(n, f[n - 1])
  <2> HIDE DEF f
  <2> DEFINE k == [n \in 0 .. N |-> IF n = 0 THEN base ELSE one(n, f[n - 1])]
  <2>1. f = k
    BY <1>9
  <2>2. \A n \in 0 .. N : k[n] = IF n = 0 THEN base ELSE one(n, f[n - 1])
    OBVIOUS
  <2> HIDE DEF k
  <2> QED
    BY <2>1, <2>2
<1> HIDE DEF f, step
<1> DEFINE T == [n \in 0 .. N |-> Taken(n)]
<1>11. f[0] \in T[0]
  <2>1. 0 \in 0 .. N
    BY <1>2
  <2> QED
    BY <1>3, <1>10, <2>1
<1>12. ASSUME NEW n \in 1 .. N, f[n - 1] \in T[n - 1] PROVE f[n] \in T[n]
  <2>1. n \in 0 .. N /\ n # 0 /\ n - 1 \in 0 .. N /\ n - 1 \in Nat /\ (n - 1) + 1 = n
    BY <1>2
  <2>2. f[n] = one(n, f[n - 1]) /\ f[n - 1] \in Taken(n - 1)
    BY <1>10, <1>12, <2>1
  <2>3. one(n, f[n - 1]) \in Taken((n - 1) + 1)
    BY <1>4, <2>1, <2>2
  <2> QED
    BY <2>1, <2>2, <2>3
<1>13. f[N] \in T[N]
  <2> HIDE DEF T
  <2> QED
    BY <1>2, <1>11, <1>12, IterationLeads
<1>14. N \in 0 .. N
  BY <1>2
<1> QED
  BY <1>1, <1>13, <1>14 DEF N

-----------------------------------------------------------------------------
\* A transaction, its variable, and those of its n outputs.

Built(n) == [code : BalancedCode, tx : Nat, outputs : {s \in Seq(Nat) : Len(s) = n}]

\* A transaction whose outputs are known.
LEMMA TxOfBalanced ==
  ASSUME NEW v \in Nat, NEW inputs \in Nat, NEW outputs \in Nat, NEW funding \in Seq(Nat),
         NEW filling, Balanced(filling), NEW n \in Nat, NEW taking \in Taken(n)
  PROVE  tx_of(v, inputs, outputs, funding, filling, taking) \in Built(n)
<1> DEFINE h1 == I("LoadTxVersion", << >>)
           h2 == I("LoadLockTime", << >>)
           h3 == I("BeginBuildTx", <<v + 1, v + 2>>)
           h4 == I("BeginBuildTxInputs", << >>)
           ins == add_inputs(v + 4, funding, v + 4)
           m1 == I("EndBuildTxInputs", <<v + 4>>)
           m2 == I("BeginBuildTxOutputs", <<inputs>>)
           e1 == I("EndBuildTxOutputs", <<inputs + 1>>)
           e2 == I("EndBuildTx", <<v + 3, inputs, outputs>>)
           code == <<h1, h2, h3, h4>> \o ins \o <<m1, m2>> \o filling \o <<e1, e2>> \o taking.code
<1>0. << >> \in Seq(Nat) /\ <<v + 1, v + 2>> \in Seq(Nat) /\ <<v + 4>> \in Seq(Nat)
      /\ <<inputs>> \in Seq(Nat) /\ <<inputs + 1>> \in Seq(Nat)
      /\ <<v + 3, inputs, outputs>> \in Seq(Nat)
  OBVIOUS
<1>1. Flat(h1) /\ Flat(h2)
  <2>1. "LoadTxVersion" \in FlatName /\ "LoadLockTime" \in FlatName
    BY DEF FlatName
  <2> QED
    BY <1>0, <2>1, IsFlat
<1>2. Opens(h3) /\ Opens(h4) /\ Opens(m2)
  <2>1. "BeginBuildTx" \in OpeningName /\ "BeginBuildTxInputs" \in OpeningName
        /\ "BeginBuildTxOutputs" \in OpeningName
    BY DEF OpeningName
  <2> QED
    BY <1>0, <2>1, IsOpening
<1>3. Closes(m1) /\ Closes(e1) /\ Closes(e2)
  <2>1. "EndBuildTxInputs" \in ClosingName /\ "EndBuildTxOutputs" \in ClosingName
        /\ "EndBuildTx" \in ClosingName
    BY DEF ClosingName
  <2> QED
    BY <1>0, <2>1, IsClosing
<1>4. Balanced(ins)
  <2>1. v + 4 \in Nat
    OBVIOUS
  <2> QED
    BY <2>1, InputsBalanced
<1>5. /\ Balanced(taking.code)
      /\ taking.outputs \in {s \in Seq(Nat) : Len(s) = n}
  BY DEF Taken, BalancedCode
<1>6. tx_of(v, inputs, outputs, funding, filling, taking)
        = [code |-> code, tx |-> outputs + 1, outputs |-> taking.outputs]
  BY DEF tx_of
<1> HIDE DEF h1, h2, h3, h4, ins, m1, m2, e1, e2
<1>7. Nests(<<h1, h2, h3, h4>>, 2)
  <2>1. Nests(<<h1, h2, h3, h4>>, ((Delta(h1.operation) + Delta(h2.operation))
                                     + Delta(h3.operation)) + Delta(h4.operation))
    BY <1>1, <1>2, NestsFour DEF Flat, Opens
  <2>2. ((Delta(h1.operation) + Delta(h2.operation)) + Delta(h3.operation)) + Delta(h4.operation) = 2
    BY <1>1, <1>2 DEF Flat, Opens
  <2> QED
    BY <2>1, <2>2
<1>8. Nests(<<m1, m2>>, 0)
  BY <1>2, <1>3, CloseAndOpen DEF Balanced
<1>9. Nests(<<e1, e2>>, -2)
  <2>1. Nests(<<e1, e2>>, Delta(e1.operation) + Delta(e2.operation))
    BY <1>3, NestsTwo DEF Closes
  <2>2. Delta(e1.operation) + Delta(e2.operation) = -2
    BY <1>3 DEF Closes
  <2> QED
    BY <2>1, <2>2
<1>10. Nests(ins, 0) /\ Nests(filling, 0) /\ Nests(taking.code, 0)
  BY <1>4, <1>5 DEF Balanced
<1>11. Balanced(code)
  <2> DEFINE c1 == <<h1, h2, h3, h4>> \o ins
             c2 == c1 \o <<m1, m2>>
             c3 == c2 \o filling
             c4 == c3 \o <<e1, e2>>
  <2>1. Nests(c1, 2)
    <3>1. Nests(c1, 2 + 0)
      BY <1>7, <1>10, NestsConcat
    <3> HIDE DEF c1
    <3> QED
      BY <3>1
  <2> HIDE DEF c1
  <2>2. Nests(c2, 2)
    <3>1. Nests(c2, 2 + 0)
      BY <1>8, <2>1, NestsConcat
    <3> HIDE DEF c2
    <3> QED
      BY <3>1
  <2> HIDE DEF c2
  <2>3. Nests(c3, 2)
    <3>1. Nests(c3, 2 + 0)
      BY <1>10, <2>2, NestsConcat
    <3> HIDE DEF c3
    <3> QED
      BY <3>1
  <2> HIDE DEF c3
  <2>4. Nests(c4, 0)
    <3>1. Nests(c4, 2 + (-2))
      BY <1>9, <2>3, NestsConcat
    <3> HIDE DEF c4
    <3> QED
      BY <3>1
  <2> HIDE DEF c4
  <2>5. Balanced(c4 \o taking.code)
    BY <1>5, <2>4, BalancedTwo DEF Balanced
  <2> QED
    BY <2>5 DEF c1, c2, c3, c4
<1>12. code \in BalancedCode
  BY <1>11, BalancedIsCode
<1> HIDE DEF code
<1> QED
  BY <1>5, <1>6, <1>12 DEF Built

\* A transaction that build_tx writes.
LEMMA TxBalanced ==
  ASSUME NEW v \in Nat, NEW funding \in Seq(Nat), NEW types \in Seq(KnownType), NEW annexed
  PROVE  build_tx(v, funding, types, annexed) \in Built(Len(types))
<1> DEFINE inputs == v + 5 + Len(funding)
           filling == build_outputs(inputs + 1, types, "AddTxOutput", inputs + 1)
           outputs == inputs + 2 + width(filling)
           taking == take_outputs(outputs + 1, types, annexed)
<1>1. build_tx(v, funding, types, annexed) = tx_of(v, inputs, outputs, funding, filling, taking)
  BY DEF build_tx, filled_tx
<1>2. inputs \in Nat /\ inputs + 1 \in Nat /\ Len(types) \in Nat
  OBVIOUS
<1> HIDE DEF inputs
<1>3. Balanced(filling)
  BY <1>2, OutputsBalanced DEF OutputAdd
<1>4. width(filling) \in Nat
  BY <1>3, BalancedIsCode
<1> HIDE DEF filling
<1>5. outputs \in Nat /\ outputs + 1 \in Nat
  BY <1>2, <1>4
<1> HIDE DEF outputs
<1>6. taking \in Taken(Len(types))
  BY <1>2, <1>5, TakesBalanced
<1> HIDE DEF taking
<1> QED
  BY <1>1, <1>2, <1>3, <1>5, <1>6, TxOfBalanced

\* Sending a transaction, alone or announced in an inventory.
LEMMA SendTxBalanced ==
  ASSUME NEW conn \in Nat, NEW tx \in Nat, NEW v \in Nat
  PROVE  Balanced(send_tx(conn, tx, v))
<1> DEFINE a == I("BeginBuildInventory", << >>)
           b == I("AddWtxidInv", <<v + 1, tx>>)
           c == I("EndBuildInventory", <<v + 1>>)
           d == I("SendInv", <<conn, v + 2>>)
           e == I("SendTx", <<conn, tx>>)
<1>0. << >> \in Seq(Nat) /\ <<v + 1, tx>> \in Seq(Nat) /\ <<v + 1>> \in Seq(Nat)
      /\ <<conn, v + 2>> \in Seq(Nat) /\ <<conn, tx>> \in Seq(Nat)
  OBVIOUS
<1>1. Opens(a)
  <2>1. "BeginBuildInventory" \in OpeningName
    BY DEF OpeningName
  <2> QED
    BY <1>0, <2>1, IsOpening
<1>2. Closes(c)
  <2>1. "EndBuildInventory" \in ClosingName
    BY DEF ClosingName
  <2> QED
    BY <1>0, <2>1, IsClosing
<1>3. Flat(b) /\ Flat(d) /\ Flat(e)
  <2>1. "AddWtxidInv" \in FlatName /\ "SendInv" \in FlatName /\ "SendTx" \in FlatName
    BY DEF FlatName, TxInvs
  <2> QED
    BY <1>0, <2>1, IsFlat
<1>4. send_tx(conn, tx, v) = <<a, b, c, d, e>>
  BY DEF send_tx
<1> HIDE DEF a, b, c, d, e
<1>5. <<a, b, c, d, e>> = <<a, b, c>> \o <<d, e>>
  OBVIOUS
<1> QED
  BY <1>1, <1>2, <1>3, <1>4, <1>5, BlockOne, FlatTwo, BalancedTwo

\* Sending several of them.
LEMMA SendTxsBalanced ==
  ASSUME NEW conn \in Nat, NEW txs \in Seq(Nat), NEW v \in Nat
  PROVE  Balanced(send_txs(conn, txs, v))
<1> DEFINE N == Len(txs)
           seqs == [k \in 1 .. N |-> send_tx(conn, txs[k], v + 2 * (k - 1))]
<1>1. N \in Nat
  OBVIOUS
<1>2. ASSUME NEW k \in 1 .. N PROVE Balanced(seqs[k])
  <2>1. txs[k] \in Nat /\ v + 2 * (k - 1) \in Nat
    OBVIOUS
  <2> QED
    BY <2>1, SendTxBalanced
<1>3. seqs = [k \in 1 .. N |-> seqs[k]] /\ send_txs(conn, txs, v) = FlattenSeq(seqs)
  BY DEF send_txs
<1> HIDE DEF seqs, N
<1> QED
  BY <1>1, <1>2, <1>3, FlattenBalanced


-----------------------------------------------------------------------------
\* What a chain of transactions has become after some of them.

Linked == [code : BalancedCode, funding : Seq(Nat), txs : Seq(Nat)]

LinkOne(v, acc) ==
  LET t == build_tx(v + width(acc.code), acc.funding, <<"PayToWitnessScriptHash">>, {})
  IN  [code |-> acc.code \o t.code, funding |-> t.outputs, txs |-> Append(acc.txs, t.tx)]

\* One link more of a chain of transactions.
LEMMA LinkOneMore ==
  ASSUME NEW v \in Nat, NEW acc \in Linked
  PROVE  LinkOne(v, acc) \in Linked
<1> DEFINE types == <<"PayToWitnessScriptHash">>
           t == build_tx(v + width(acc.code), acc.funding, types, {})
<1>1. acc.code \in BalancedCode /\ acc.funding \in Seq(Nat) /\ acc.txs \in Seq(Nat)
  BY DEF Linked
<1>2. Balanced(acc.code) /\ width(acc.code) \in Nat
  BY <1>1, BalancedIsCode DEF BalancedCode
<1>3. types \in Seq(KnownType) /\ Len(types) \in Nat
  BY DEF KnownType
<1>4. v + width(acc.code) \in Nat
  BY <1>2
<1>5. LinkOne(v, acc) = [code |-> acc.code \o t.code, funding |-> t.outputs,
                         txs |-> Append(acc.txs, t.tx)]
  BY DEF LinkOne
<1> HIDE DEF types
<1>6. t \in Built(Len(types))
  BY <1>1, <1>3, <1>4, TxBalanced
<1> HIDE DEF t
<1>7. t.code \in BalancedCode /\ t.tx \in Nat /\ t.outputs \in Seq(Nat)
  BY <1>6 DEF Built
<1>8. acc.code \o t.code \in BalancedCode
  <2>1. Balanced(t.code)
    BY <1>7 DEF BalancedCode
  <2> QED
    BY <1>2, <2>1, BalancedTwo, BalancedIsCode
<1>9. Append(acc.txs, t.tx) \in Seq(Nat)
  BY <1>1, <1>7
<1> QED
  BY <1>5, <1>7, <1>8, <1>9 DEF Linked

\* A chain of transactions, each spending the one before.
LEMMA ChainBalanced ==
  ASSUME NEW v \in Nat, NEW funding \in Seq(Nat)
  PROVE  chain_from(v, funding) \in Linked
<1> DEFINE N == ChainLength
           base == [code |-> << >>, funding |-> funding, txs |-> << >>]
           one(acc) == LinkOne(v, acc)
           Rec(g) == g = [n \in 0 .. N |-> IF n = 0 THEN base ELSE one(g[n - 1])]
           f == CHOOSE g : Rec(g)
           step == [n \in 1 .. N |-> [acc \in Linked |-> one(acc)]]
<1>1. chain_from(v, funding) = f[N]
  BY DEF chain_from, LinkOne
<1>2. N \in Nat
  BY GeneratorAssumption
<1> HIDE DEF N
<1>3. base \in Linked
  <2>1. << >> \in BalancedCode
    BY NestsNone, BalancedIsCode DEF Balanced
  <2>2. << >> \in Seq(Nat)
    OBVIOUS
  <2> QED
    BY <2>1, <2>2 DEF Linked
<1> HIDE DEF base
<1>4. \A acc \in Linked : one(acc) \in Linked
  BY LinkOneMore
<1> HIDE DEF one
<1>5. step \in [1 .. N -> [Linked -> Linked]]
  BY <1>4
<1>7. \E g \in [0 .. N -> Linked] : g[0] = base /\ \A n \in 1 .. N : g[n] = step[n][g[n - 1]]
  <2> HIDE DEF step, Rec, f
  <2>1. \E g : Iterates(g, Linked, base, N, step)
    BY <1>2, <1>3, <1>5, IterationFound
  <2> QED
    BY <2>1 DEF Iterates
<1>8. \E g : Rec(g)
  <2>1. PICK g \in [0 .. N -> Linked] : g[0] = base /\ \A n \in 1 .. N : g[n] = step[n][g[n - 1]]
    BY <1>7
  <2>2. ASSUME NEW n \in 1 .. N PROVE g[n] = one(g[n - 1])
    <3>1. n - 1 \in 0 .. N
      BY <1>2
    <3>2. g[n - 1] \in Linked /\ g[n] = step[n][g[n - 1]]
      BY <2>1, <3>1
    <3> QED
      BY <3>2
  <2> HIDE DEF step
  <2>3. g = [n \in 0 .. N |-> IF n = 0 THEN base ELSE one(g[n - 1])]
    <3>1. ASSUME NEW n \in 0 .. N PROVE g[n] = IF n = 0 THEN base ELSE one(g[n - 1])
      <4>1. n = 0 \/ n \in 1 .. N
        BY <1>2
      <4> QED
        BY <2>1, <2>2, <4>1
    <3> QED
      BY <3>1
  <2> QED
    BY <2>3
<1>9. Rec(f)
  <2> HIDE DEF Rec
  <2> QED
    BY <1>8
<1>10. \A n \in 0 .. N : f[n] = IF n = 0 THEN base ELSE one(f[n - 1])
  <2> HIDE DEF f
  <2> DEFINE k == [n \in 0 .. N |-> IF n = 0 THEN base ELSE one(f[n - 1])]
  <2>1. f = k
    BY <1>9
  <2>2. \A n \in 0 .. N : k[n] = IF n = 0 THEN base ELSE one(f[n - 1])
    OBVIOUS
  <2> HIDE DEF k
  <2> QED
    BY <2>1, <2>2
<1> HIDE DEF f, step
<1>11. f[0] \in Linked
  <2>1. 0 \in 0 .. N
    BY <1>2
  <2> QED
    BY <1>3, <1>10, <2>1
<1>12. ASSUME NEW n \in 1 .. N, f[n - 1] \in Linked PROVE f[n] \in Linked
  <2>1. n \in 0 .. N /\ n # 0
    BY <1>2
  <2> QED
    BY <1>4, <1>10, <1>12, <2>1
<1>13. f[N] \in Linked
  BY <1>2, <1>11, <1>12, IterationStays
<1> QED
  BY <1>1, <1>13

\* A transaction for each Txo, sent at once.
SpendOne(conn, txo, v, s) ==
  LET t == build_tx(v + width(s), <<txo>>, <<"OpReturn">>, {})
  IN  s \o t.code \o send_tx(conn, t.tx, v + width(s) + width(t.code))

\* One transaction more that spends what was built.
LEMMA SpendOneMore ==
  ASSUME NEW conn \in Nat, NEW txo \in Nat, NEW v \in Nat, NEW s \in BalancedCode
  PROVE  SpendOne(conn, txo, v, s) \in BalancedCode
<1> DEFINE types == <<"OpReturn">>
           t == build_tx(v + width(s), <<txo>>, types, {})
           u == send_tx(conn, t.tx, v + width(s) + width(t.code))
<1>1. Balanced(s) /\ width(s) \in Nat
  BY BalancedIsCode DEF BalancedCode
<1>2. types \in Seq(KnownType) /\ Len(types) \in Nat /\ <<txo>> \in Seq(Nat)
  BY DEF KnownType
<1>3. v + width(s) \in Nat
  BY <1>1
<1>4. SpendOne(conn, txo, v, s) = s \o t.code \o u
  BY DEF SpendOne
<1> HIDE DEF types
<1>5. t \in Built(Len(types))
  BY <1>2, <1>3, TxBalanced
<1> HIDE DEF t
<1>6. Balanced(t.code) /\ t.tx \in Nat
  BY <1>5 DEF Built, BalancedCode
<1>7. width(t.code) \in Nat
  BY <1>6, BalancedIsCode
<1>8. Balanced(u)
  <2>1. v + width(s) + width(t.code) \in Nat
    BY <1>3, <1>7
  <2> QED
    BY <1>6, <2>1, SendTxBalanced
<1> HIDE DEF u
<1> QED
  BY <1>1, <1>4, <1>6, <1>8, BalancedThree, BalancedIsCode

\* Transactions that are sent each in its turn.
LEMMA SendEachBalanced ==
  ASSUME NEW conn \in Nat, NEW funding \in Seq(Nat), NEW v \in Nat
  PROVE  Balanced(send_each(conn, funding, v))
<1> DEFINE N == Len(funding)
           one(n, s) == SpendOne(conn, funding[n], v, s)
           Rec(g) == g = [n \in 0 .. N |-> IF n = 0 THEN << >> ELSE one(n, g[n - 1])]
           f == CHOOSE g : Rec(g)
           step == [n \in 1 .. N |-> [s \in BalancedCode |-> one(n, s)]]
<1>1. send_each(conn, funding, v) = f[N]
  BY DEF send_each, SpendOne
<1>2. N \in Nat
  OBVIOUS
<1>3. ASSUME NEW n \in 1 .. N, NEW s \in BalancedCode PROVE one(n, s) \in BalancedCode
  <2>1. funding[n] \in Nat
    OBVIOUS
  <2> QED
    BY <2>1, SpendOneMore
<1> HIDE DEF N
<1>4. << >> \in BalancedCode
  BY NestsNone, BalancedIsCode DEF Balanced
<1> HIDE DEF one
<1>5. step \in [1 .. N -> [BalancedCode -> BalancedCode]]
  BY <1>3
<1>6. \E g \in [0 .. N -> BalancedCode] :
        g[0] = << >> /\ \A n \in 1 .. N : g[n] = step[n][g[n - 1]]
  <2> HIDE DEF step, Rec, f
  <2>1. \E g : Iterates(g, BalancedCode, << >>, N, step)
    BY <1>2, <1>4, <1>5, IterationFound
  <2> QED
    BY <2>1 DEF Iterates
<1>7. \E g : Rec(g)
  <2>1. PICK g \in [0 .. N -> BalancedCode] :
          g[0] = << >> /\ \A n \in 1 .. N : g[n] = step[n][g[n - 1]]
    BY <1>6
  <2>2. ASSUME NEW n \in 1 .. N PROVE g[n] = one(n, g[n - 1])
    <3>1. n - 1 \in 0 .. N
      BY <1>2
    <3>2. g[n - 1] \in BalancedCode /\ g[n] = step[n][g[n - 1]]
      BY <2>1, <3>1
    <3> QED
      BY <3>2
  <2> HIDE DEF step
  <2>3. g = [n \in 0 .. N |-> IF n = 0 THEN << >> ELSE one(n, g[n - 1])]
    <3>1. ASSUME NEW n \in 0 .. N PROVE g[n] = IF n = 0 THEN << >> ELSE one(n, g[n - 1])
      <4>1. n = 0 \/ n \in 1 .. N
        BY <1>2
      <4> QED
        BY <2>1, <2>2, <4>1
    <3> QED
      BY <3>1
  <2> QED
    BY <2>3
<1>8. Rec(f)
  <2> HIDE DEF Rec
  <2> QED
    BY <1>7
<1>9. \A n \in 0 .. N : f[n] = IF n = 0 THEN << >> ELSE one(n, f[n - 1])
  <2> HIDE DEF f
  <2> DEFINE k == [n \in 0 .. N |-> IF n = 0 THEN << >> ELSE one(n, f[n - 1])]
  <2>1. f = k
    BY <1>8
  <2>2. \A n \in 0 .. N : k[n] = IF n = 0 THEN << >> ELSE one(n, f[n - 1])
    OBVIOUS
  <2> HIDE DEF k
  <2> QED
    BY <2>1, <2>2
<1> HIDE DEF f, step
<1>10. f[0] \in BalancedCode
  <2>1. 0 \in 0 .. N
    BY <1>2
  <2> QED
    BY <1>4, <1>9, <2>1
<1>11. ASSUME NEW n \in 1 .. N, f[n - 1] \in BalancedCode PROVE f[n] \in BalancedCode
  <2>1. n \in 0 .. N /\ n # 0
    BY <1>2
  <2> QED
    BY <1>3, <1>9, <1>11, <2>1
<1>12. f[N] \in BalancedCode
  BY <1>2, <1>10, <1>11, IterationStays
<1> QED
  BY <1>1, <1>12 DEF BalancedCode

-----------------------------------------------------------------------------
\* What the searches find.

\* The variables of a builder can be counted, and those available are numbers.
LEMMA BuilderSizes ==
  ASSUME NEW b, RoundInv(b)
  PROVE  /\ newest(b) \in Nat
         /\ b.instructions \in Seq(InstructionType)
         /\ \A type : available(b, type) \subseteq 1 .. Len(b.variables)
         /\ \A type : available(b, type) \subseteq Nat
<1>1. b \in Builder
  BY DEF RoundInv, SafeInv, Inv
<1>2. Len(b.variables) \in Nat /\ b.instructions \in Seq(InstructionType)
  BY <1>1 DEF Builder, InstructionType
<1>3. \A type : available(b, type) \subseteq 1 .. Len(b.variables)
  BY DEF available
<1>4. 1 .. Len(b.variables) \subseteq Nat
  BY <1>2
<1> QED
  BY <1>2, <1>3, <1>4 DEF newest

\* What is drawn at random are sequences of what it is drawn from.
LEMMA DrawsType ==
  ASSUME NEW S, S \subseteq Nat
  PROVE  draws(S) \subseteq Seq(Nat)
<1>1. CASE S = {}
  BY <1>1 DEF draws
<1>2. CASE S # {}
  <2>1. ASSUME NEW s \in draws(S) PROVE s \in Seq(Nat)
    <3>1. PICK n \in 1 .. MaxPicks : s \in [1 .. n -> S]
      BY <1>2 DEF draws
    <3>2. n \in Nat
      BY GeneratorAssumption
    <3>3. s \in [1 .. n -> Nat]
      BY <3>1
    <3> QED
      BY <3>2, <3>3
  <2> QED
    BY <2>1
<1> QED
  BY <1>1, <1>2

\* What is drawn to be spent.
LEMMA UtxosType ==
  ASSUME NEW b, RoundInv(b)
  PROVE  get_random_utxos(b) \subseteq Seq(Nat)
<1>1. b.instructions \in Seq(InstructionType)
  BY BuilderSizes
<1>2. utxos(b) \subseteq Nat
  <2>1. ASSUME NEW v \in utxos(b) PROVE v \in Nat
    <3>1. PICK k \in DOMAIN b.instructions : v = width(SubSeq(b.instructions, 1, k))
      BY DEF utxos
    <3>2. SubSeq(b.instructions, 1, k) \in Seq(InstructionType)
      <4>1. k \in 1 .. Len(b.instructions)
        BY <1>1, <3>1
      <4> QED
        BY <1>1, <4>1, SubSeqProperties
    <3> QED
      BY <3>1, <3>2, WidthType
  <2> QED
    BY <2>1
<1> QED
  BY <1>2, DrawsType DEF get_random_utxos

\* Variables that are drawn.
LEMMA DrawnType ==
  ASSUME NEW b, RoundInv(b), NEW type
  PROVE  get_random_variables(b, type) \subseteq Seq(Nat)
BY BuilderSizes, DrawsType DEF get_random_variables

\* Lists of output types.
LEMMA OutputListsType == OutputLists \subseteq Seq(KnownType)
<1>1. OutputTypes \subseteq KnownType
  BY GeneratorAssumption DEF KnownType
<1>2. ASSUME NEW s \in OutputLists PROVE s \in Seq(KnownType)
  <2>1. PICK n \in 1 .. MaxPicks : s \in [1 .. n -> OutputTypes]
    BY DEF OutputLists
  <2>2. n \in Nat
    BY GeneratorAssumption
  <2>3. s \in [1 .. n -> KnownType]
    BY <1>1, <2>1
  <2> QED
    BY <2>2, <2>3
<1> QED
  BY <1>2

\* A connection is in the program or loaded first.
LEMMA ConnectionFound ==
  ASSUME NEW b, RoundInv(b), NEW v \in Nat, NEW c \in get_or_create_random_connection(b, v)
  PROVE  c.var \in Nat /\ Balanced(c.code) /\ Len(c.code) \in Nat /\ v + Len(c.code) \in Nat
<1>1. c.var \in Nat /\ Balanced(c.code)
  <2>1. CASE available(b, "Connection") # {}
    <3>1. PICK d \in available(b, "Connection") : c = [code |-> << >>, var |-> d]
      BY <2>1 DEF get_or_create_random_connection
    <3>2. d \in Nat
      BY BuilderSizes
    <3> QED
      BY <3>1, <3>2, NestsNone DEF Balanced
  <2>2. CASE available(b, "Connection") = {}
    <3>1. PICK n \in 0 .. num_connections - 1 :
            c = [code |-> <<Load("LoadConnection", n)>>, var |-> v + 1]
      BY <2>2 DEF get_or_create_random_connection
    <3>2. Flat(Load("LoadConnection", n))
      BY IsLoad
    <3>3. Balanced(<<Load("LoadConnection", n)>>)
      BY <3>2, FlatOne
    <3> QED
      BY <3>1, <3>3
  <2> QED
    BY <2>1, <2>2
<1>2. Len(c.code) \in Nat
  BY <1>1, BalancedIsCode
<1> QED
  BY <1>1, <1>2

\* First s, then a connection, then what is sent over it.
LEMMA OnConnection ==
  ASSUME NEW s, Balanced(s), NEW c, NEW t, Balanced(c), Balanced(t)
  PROVE  Balanced(s \o c \o t)
BY BalancedThree


-----------------------------------------------------------------------------
\* The generators of transactions.

\* Code that is empty is balanced.
LEMMA NothingBalanced == Balanced(<< >>)
BY NestsNone DEF Balanced

\* The generators, one by one.  One transaction:
LEMMA SingleTxBalanced ==
  ASSUME NEW b, RoundInv(b), NEW s \in SingleTxGenerator(b)
  PROVE  Balanced(s)
<1>1. CASE utxos(b) = {}
  BY <1>1, NothingBalanced DEF SingleTxGenerator, Funded, MissingVariables
<1>2. CASE utxos(b) # {}
  <2>1. PICK funding \in get_random_utxos(b), types \in OutputLists,
             annexed \in SUBSET (1 .. MaxPicks) :
          LET t == build_tx(newest(b), funding, types, annexed) IN
          \/ s = t.code
          \/ \E c \in get_or_create_random_connection(b, newest(b) + width(t.code)) :
               s = t.code \o c.code
                     \o send_tx(c.var, t.tx, newest(b) + width(t.code) + Len(c.code))
    <3> DEFINE FromFunding(funding) == UNION {sent_or_not(b, t) : t \in single_txs(newest(b), funding)}
    <3>1. PICK funding \in get_random_utxos(b) : s \in FromFunding(funding)
      BY <1>2 DEF SingleTxGenerator, Funded
    <3>2. PICK t \in single_txs(newest(b), funding) : s \in sent_or_not(b, t)
      BY <3>1
    <3> HIDE DEF FromFunding
    <3>3. \/ s = t.code
          \/ \E c \in get_or_create_random_connection(b, newest(b) + width(t.code)) :
               s = t.code \o c.code
                     \o send_tx(c.var, t.tx, newest(b) + width(t.code) + Len(c.code))
      BY <3>2 DEF sent_or_not, on_connection
    <3>4. PICK types \in OutputLists, annexed \in SUBSET (1 .. MaxPicks) :
            t = build_tx(newest(b), funding, types, annexed)
      <4>1. t \in single_txs(newest(b), funding)
        OBVIOUS
      <4> QED
        BY <4>1 DEF single_txs
    <3> QED
      BY <3>3, <3>4
  <2> DEFINE t == build_tx(newest(b), funding, types, annexed)
             v == newest(b) + width(t.code)
  <2>2. t \in Built(Len(types)) /\ Len(types) \in Nat
    <3>1. funding \in Seq(Nat) /\ types \in Seq(KnownType) /\ newest(b) \in Nat
      BY UtxosType, OutputListsType, BuilderSizes
    <3> QED
      BY <3>1, TxBalanced
  <2>3. \/ s = t.code
        \/ \E c \in get_or_create_random_connection(b, v) :
             s = t.code \o c.code \o send_tx(c.var, t.tx, v + Len(c.code))
    BY <2>1
  <2> HIDE DEF t
  <2>4. Balanced(t.code) /\ t.tx \in Nat
    BY <2>2 DEF Built, BalancedCode
  <2>5. v \in Nat
    BY <2>4, BuilderSizes, BalancedIsCode
  <2> HIDE DEF v
  <2>6. ASSUME NEW c \in get_or_create_random_connection(b, v),
               s = t.code \o c.code \o send_tx(c.var, t.tx, v + Len(c.code))
        PROVE  Balanced(s)
    <3>1. c.var \in Nat /\ Balanced(c.code) /\ v + Len(c.code) \in Nat
      BY <2>5, <2>6, ConnectionFound
    <3>2. Balanced(send_tx(c.var, t.tx, v + Len(c.code)))
      BY <2>4, <3>1, SendTxBalanced
    <3> QED
      BY <2>4, <2>6, <3>1, <3>2, BalancedThree
  <2> QED
    BY <2>3, <2>4, <2>6
<1> QED
  BY <1>1, <1>2

\* A transaction and one that spends it.
LEMMA OneParentOneChildBalanced ==
  ASSUME NEW b, RoundInv(b), NEW s \in OneParentOneChildGenerator(b)
  PROVE  Balanced(s)
<1>1. CASE utxos(b) = {}
  BY <1>1, NothingBalanced DEF OneParentOneChildGenerator, Funded, MissingVariables
<1>2. CASE utxos(b) # {}
  <2>1. PICK funding \in get_random_utxos(b) :
          LET parent == build_tx(newest(b), funding,
                                 <<"PayToWitnessScriptHash", "PayToAnchor">>, {})
              child == build_tx(newest(b) + width(parent.code), <<Last(parent.outputs)>>,
                                <<"PayToWitnessScriptHash">>, {})
              code == parent.code \o child.code
          IN  \E c \in get_or_create_random_connection(b, newest(b) + width(code)) :
                s = code \o c.code \o send_txs(c.var, <<child.tx, parent.tx>>,
                                               newest(b) + width(code) + Len(c.code))
    BY <1>2 DEF OneParentOneChildGenerator, Funded, on_connection
  <2> DEFINE two == <<"PayToWitnessScriptHash", "PayToAnchor">>
             one == <<"PayToWitnessScriptHash">>
             parent == build_tx(newest(b), funding, two, {})
             child == build_tx(newest(b) + width(parent.code), <<Last(parent.outputs)>>, one, {})
             code == parent.code \o child.code
             v == newest(b) + width(code)
  <2>2. PICK c \in get_or_create_random_connection(b, v) :
          s = code \o c.code \o send_txs(c.var, <<child.tx, parent.tx>>, v + Len(c.code))
    BY <2>1
  <2>3. two \in Seq(KnownType) /\ Len(two) = 2 /\ one \in Seq(KnownType) /\ Len(one) = 1
    BY DEF KnownType
  <2>4. funding \in Seq(Nat) /\ newest(b) \in Nat
    BY UtxosType, BuilderSizes
  <2> HIDE DEF one, two
  <2>5. parent \in Built(2)
    BY <2>3, <2>4, TxBalanced
  <2> HIDE DEF parent
  <2>6. Balanced(parent.code) /\ parent.tx \in Nat
    BY <2>5 DEF Built, BalancedCode
  <2>7. <<Last(parent.outputs)>> \in Seq(Nat)
    <3>1. parent.outputs \in Seq(Nat) /\ Len(parent.outputs) = 2
      BY <2>5 DEF Built
    <3> QED
      BY <3>1 DEF Last
  <2>8. newest(b) + width(parent.code) \in Nat
    BY <2>4, <2>6, BalancedIsCode
  <2>9. child \in Built(1)
    BY <2>3, <2>7, <2>8, TxBalanced
  <2> HIDE DEF child
  <2>10. Balanced(child.code) /\ child.tx \in Nat
    BY <2>9 DEF Built, BalancedCode
  <2>11. Balanced(code)
    BY <2>6, <2>10, BalancedTwo
  <2> HIDE DEF code
  <2>12. v \in Nat
    BY <2>4, <2>11, BalancedIsCode
  <2> HIDE DEF v
  <2>13. c.var \in Nat /\ Balanced(c.code) /\ v + Len(c.code) \in Nat
    BY <2>12, ConnectionFound
  <2>14. <<child.tx, parent.tx>> \in Seq(Nat)
    BY <2>6, <2>10
  <2>15. Balanced(send_txs(c.var, <<child.tx, parent.tx>>, v + Len(c.code)))
    BY <2>13, <2>14, SendTxsBalanced
  <2> QED
    BY <2>2, <2>11, <2>13, <2>15, BalancedThree
<1> QED
  BY <1>1, <1>2

\* A chain of transactions that are sent one by one.
LEMMA LongChainBalanced ==
  ASSUME NEW b, RoundInv(b), NEW s \in LongChainGenerator(b)
  PROVE  Balanced(s)
<1>1. CASE utxos(b) = {}
  BY <1>1, NothingBalanced DEF LongChainGenerator, Funded, MissingVariables
<1>2. CASE utxos(b) # {}
  <2>1. PICK funding \in get_random_utxos(b) :
          LET chain == chain_from(newest(b), funding) IN
          \E c \in get_or_create_random_connection(b, newest(b) + width(chain.code)) :
            s = chain.code \o c.code
                  \o send_txs(c.var, chain.txs, newest(b) + width(chain.code) + Len(c.code))
    BY <1>2 DEF LongChainGenerator, Funded, on_connection
  <2> DEFINE chain == chain_from(newest(b), funding)
             v == newest(b) + width(chain.code)
  <2>2. PICK c \in get_or_create_random_connection(b, v) :
          s = chain.code \o c.code \o send_txs(c.var, chain.txs, v + Len(c.code))
    BY <2>1
  <2>3. funding \in Seq(Nat) /\ newest(b) \in Nat
    BY UtxosType, BuilderSizes
  <2>4. chain \in Linked
    BY <2>3, ChainBalanced
  <2> HIDE DEF chain
  <2>5. Balanced(chain.code) /\ chain.txs \in Seq(Nat)
    BY <2>4 DEF Linked, BalancedCode
  <2>6. v \in Nat
    BY <2>3, <2>5, BalancedIsCode
  <2> HIDE DEF v
  <2>7. c.var \in Nat /\ Balanced(c.code) /\ v + Len(c.code) \in Nat
    BY <2>6, ConnectionFound
  <2>8. Balanced(send_txs(c.var, chain.txs, v + Len(c.code)))
    BY <2>5, <2>7, SendTxsBalanced
  <2> QED
    BY <2>2, <2>5, <2>7, <2>8, BalancedThree
<1> QED
  BY <1>1, <1>2

\* Nothing before the connection.
LEMMA AfterNothing ==
  ASSUME NEW b, RoundInv(b), NEW v, v = newest(b) + width(<< >>),
         NEW c \in get_or_create_random_connection(b, v)
  PROVE  c.var \in Nat /\ Balanced(<< >> \o c.code) /\ Balanced(c.code)
         /\ v \in Nat /\ v + Len(c.code) \in Nat
<1>1. v \in Nat
  BY BuilderSizes, NothingBalanced, BalancedIsCode
<1>2. c.var \in Nat /\ Balanced(c.code) /\ v + Len(c.code) \in Nat
  BY <1>1, ConnectionFound
<1> QED
  BY <1>1, <1>2, NothingBalanced, BalancedTwo

\* A transaction with many outputs, and what spends them.
LEMMA LargeTxBalanced ==
  ASSUME NEW b, RoundInv(b), NEW s \in LargeTxGenerator(b)
  PROVE  Balanced(s)
<1>1. CASE utxos(b) = {}
  BY <1>1, NothingBalanced DEF LargeTxGenerator, Funded, MissingVariables
<1>2. CASE utxos(b) # {}
  <2> DEFINE v == newest(b) + width(<< >>)
  <2>1. PICK funding \in get_random_utxos(b), c \in get_or_create_random_connection(b, v) :
            s = << >> \o c.code \o send_each(c.var, funding, v + Len(c.code))
    BY <1>2 DEF LargeTxGenerator, Funded, on_connection
  <2>2. c.var \in Nat /\ Balanced(<< >> \o c.code) /\ v + Len(c.code) \in Nat
    BY AfterNothing
  <2> HIDE DEF v
  <2>3. funding \in Seq(Nat)
    BY UtxosType
  <2>4. Balanced(send_each(c.var, funding, v + Len(c.code)))
    BY <2>2, <2>3, SendEachBalanced
  <2> QED
    BY <2>1, <2>2, <2>4, BalancedTwo
<1> QED
  BY <1>1, <1>2

\* A coinbase transaction.
LEMMA CoinbaseTxBalanced ==
  ASSUME NEW v \in Nat, NEW s \in CoinbaseTxGenerator(v)
  PROVE  Balanced(s)
<1>1. PICK types \in OutputLists :
        LET filling == build_outputs(v + 6, types, "AddCoinbaseTxOutput", v + 6) IN
        s = << I("LoadTxVersion", << >>), I("LoadLockTime", << >>),
               I("BeginBuildCoinbaseTx", <<v + 1, v + 2>>), I("LoadSequence", << >>),
               I("BuildCoinbaseTxInput", <<v + 4>>), I("BeginBuildCoinbaseTxOutputs", <<v + 5>>) >>
            \o filling
            \o << I("EndBuildCoinbaseTxOutputs", <<v + 6>>),
                  I("EndBuildCoinbaseTx", <<v + 3, v + 5, v + 7 + width(filling)>>) >>
  BY DEF CoinbaseTxGenerator
<1> DEFINE filling == build_outputs(v + 6, types, "AddCoinbaseTxOutput", v + 6)
           w == v + 7 + width(filling)
           a == I("LoadTxVersion", << >>)
           b == I("LoadLockTime", << >>)
           c == I("BeginBuildCoinbaseTx", <<v + 1, v + 2>>)
           d == I("LoadSequence", << >>)
           e == I("BuildCoinbaseTxInput", <<v + 4>>)
           f == I("BeginBuildCoinbaseTxOutputs", <<v + 5>>)
           y == I("EndBuildCoinbaseTxOutputs", <<v + 6>>)
           z == I("EndBuildCoinbaseTx", <<v + 3, v + 5, w>>)
<1>2. s = <<a, b, c, d, e, f>> \o filling \o <<y, z>>
  BY <1>1
<1>3. Balanced(filling)
  <2>1. types \in Seq(KnownType) /\ v + 6 \in Nat
    BY OutputListsType
  <2> QED
    BY <2>1, OutputsBalanced DEF OutputAdd
<1>4. w \in Nat
  <2> HIDE DEF filling
  <2>1. width(filling) \in Nat
    BY <1>3, BalancedIsCode
  <2> QED
    BY <2>1
<1> HIDE DEF filling, w
<1>5. << >> \in Seq(Nat) /\ <<v + 1, v + 2>> \in Seq(Nat) /\ <<v + 4>> \in Seq(Nat)
      /\ <<v + 5>> \in Seq(Nat) /\ <<v + 6>> \in Seq(Nat) /\ <<v + 3, v + 5, w>> \in Seq(Nat)
  BY <1>4
<1>6. Flat(a) /\ Flat(b) /\ Flat(d) /\ Flat(e)
  <2>1. "LoadTxVersion" \in FlatName /\ "LoadLockTime" \in FlatName
        /\ "LoadSequence" \in FlatName /\ "BuildCoinbaseTxInput" \in FlatName
    BY DEF FlatName
  <2> QED
    BY <1>5, <2>1, IsFlat
<1>7. Opens(c) /\ Opens(f)
  <2>1. "BeginBuildCoinbaseTx" \in OpeningName /\ "BeginBuildCoinbaseTxOutputs" \in OpeningName
    BY DEF OpeningName
  <2> QED
    BY <1>5, <2>1, IsOpening
<1>8. Closes(y) /\ Closes(z)
  <2>1. "EndBuildCoinbaseTx" \in ClosingName /\ "EndBuildCoinbaseTxOutputs" \in ClosingName
    BY DEF ClosingName
  <2> QED
    BY <1>5, <2>1, IsClosing
<1> HIDE DEF a, b, c, d, e, f, y, z
<1>9. Balanced(<<f>> \o filling \o <<y>>)
  BY <1>3, <1>7, <1>8, BlockBalanced
<1>10. Balanced(<<d, e>> \o (<<f>> \o filling \o <<y>>))
  BY <1>6, <1>9, FlatTwo, BalancedTwo
<1>11. Balanced(<<c>> \o (<<d, e>> \o (<<f>> \o filling \o <<y>>)) \o <<z>>)
  BY <1>7, <1>8, <1>10, BlockBalanced
<1>12. Balanced(<<a, b>> \o (<<c>> \o (<<d, e>> \o (<<f>> \o filling \o <<y>>)) \o <<z>>))
  BY <1>6, <1>11, FlatTwo, BalancedTwo
<1>13. s = <<a, b>> \o (<<c>> \o (<<d, e>> \o (<<f>> \o filling \o <<y>>)) \o <<z>>)
  <2> DEFINE G == GeneratedInstruction
  <2>1. a \in G /\ b \in G /\ c \in G /\ d \in G /\ e \in G /\ f \in G /\ y \in G /\ z \in G
    BY <1>6, <1>7, <1>8 DEF Flat, Opens, Closes
  <2>2. filling \in Seq(G)
    BY <1>3 DEF Balanced, Nests, Code
  <2> HIDE DEF G
  <2>3. <<a, b, c, d, e, f>> = <<a, b>> \o (<<c>> \o (<<d, e>> \o <<f>>))
    OBVIOUS
  <2>4. <<y, z>> = <<y>> \o <<z>>
    BY <2>1, Pair
  <2>6. <<a, b>> \in Seq(G) /\ <<c>> \in Seq(G) /\ <<d, e>> \in Seq(G) /\ <<f>> \in Seq(G)
        /\ <<y>> \in Seq(G) /\ <<z>> \in Seq(G)
    BY <2>1
  <2> DEFINE ab == <<a, b>> cc == <<c>> de == <<d, e>> ff == <<f>> yy == <<y>> zz == <<z>>
  <2>7. s = (ab \o (cc \o (de \o ff))) \o filling \o (yy \o zz)
    BY <1>2, <2>3, <2>4
  <2>8. ab \in Seq(G) /\ cc \in Seq(G) /\ de \in Seq(G) /\ ff \in Seq(G) /\ yy \in Seq(G) /\ zz \in Seq(G)
    BY <2>6
  <2> HIDE DEF ab, cc, de, ff, yy, zz
  <2>10. s = ab \o (cc \o (de \o (ff \o filling \o yy)) \o zz)
    <3>1. s = Ungrouped(ab, cc, de, ff, filling, yy, zz)
      BY <2>7 DEF Ungrouped
    <3>2. s = Grouped(ab, cc, de, ff, filling, yy, zz)
      <4>1. AllCode(G, ab, cc, de, ff, filling, yy, zz)
        BY <2>2, <2>8 DEF AllCode
      <4> QED
        BY <3>1, <4>1, Regroup
    <3> QED
      BY <3>2 DEF Grouped
  <2> QED
    BY <2>10 DEF ab, cc, de, ff, yy, zz
<1> QED
  BY <1>12, <1>13


-----------------------------------------------------------------------------
\* The generators of blocks.

\* The coinbase transaction of a block.
LEMMA CoinbaseFound ==
  ASSUME NEW b, RoundInv(b), NEW v \in Nat, NEW c \in coinbases(b, v)
  PROVE  c.var \in Nat /\ Balanced(c.code)
<1>1. CASE available(b, "CoinbaseTx") # {}
  <2>1. PICK d \in available(b, "CoinbaseTx") : c = [code |-> << >>, var |-> d]
    BY <1>1 DEF coinbases
  <2>2. d \in Nat
    BY BuilderSizes
  <2> QED
    BY <2>1, <2>2, NothingBalanced
<1>2. CASE available(b, "CoinbaseTx") = {}
  <2>1. PICK s \in CoinbaseTxGenerator(v) : c = [code |-> s, var |-> v + width(s)]
    BY <1>2 DEF coinbases
  <2>2. Balanced(s) /\ width(s) \in Nat
    BY CoinbaseTxBalanced, BalancedIsCode
  <2> QED
    BY <2>1, <2>2
<1> QED
  BY <1>1, <1>2

\* The transactions of a block.
LEMMA FilledBalanced ==
  ASSUME NEW v \in Nat, NEW txs \in Seq(Nat)
  PROVE  Balanced(fill_block(v, txs))
<1> DEFINE a == I("BeginBlockTransactions", << >>)
           s == [k \in 1 .. Len(txs) |-> I("AddTx", <<v + 1, txs[k]>>)]
           c == I("EndBlockTransactions", <<v + 1>>)
           d == I("LoadBlockVersion", << >>)
<1>0. << >> \in Seq(Nat) /\ <<v + 1>> \in Seq(Nat) /\ Len(txs) \in Nat
  OBVIOUS
<1>1. Opens(a)
  <2>1. "BeginBlockTransactions" \in OpeningName
    BY DEF OpeningName
  <2> QED
    BY <1>0, <2>1, IsOpening
<1>2. Closes(c)
  <2>1. "EndBlockTransactions" \in ClosingName
    BY DEF ClosingName
  <2> QED
    BY <1>0, <2>1, IsClosing
<1>3. Flat(d)
  <2>1. "LoadBlockVersion" \in FlatName
    BY DEF FlatName
  <2> QED
    BY <1>0, <2>1, IsFlat
<1>4. Balanced(s)
  <2>1. \A k \in 1 .. Len(txs) : Flat(s[k])
    <3>1. ASSUME NEW k \in 1 .. Len(txs) PROVE Flat(I("AddTx", <<v + 1, txs[k]>>))
      <4>1. "AddTx" \in FlatName /\ <<v + 1, txs[k]>> \in Seq(Nat)
        BY DEF FlatName
      <4> QED
        BY <4>1, IsFlat
    <3> QED
      BY <3>1
  <2>2. DOMAIN s = 1 .. Len(txs) /\ s = [k \in 1 .. Len(txs) |-> s[k]]
    OBVIOUS
  <2> HIDE DEF s
  <2> QED
    BY <1>0, <2>1, <2>2, FlatMany
<1> HIDE DEF a, s, c, d
<1>5. <<c, d>> = <<c>> \o <<d>>
  <2>1. c \in GeneratedInstruction /\ d \in GeneratedInstruction
    BY <1>1, <1>2, <1>3 DEF Opens, Closes, Flat
  <2> QED
    BY <2>1, Pair
<1>6. Balanced((<<a>> \o s \o <<c>>) \o <<d>>)
  BY <1>1, <1>2, <1>3, <1>4, BlockBalanced, FlatOne, BalancedTwo
<1>7. (<<a>> \o s \o <<c>>) \o <<d>> = <<a>> \o s \o <<c, d>>
  <2> DEFINE G == GeneratedInstruction
  <2>1. <<a>> \in Seq(G) /\ s \in Seq(G) /\ <<c>> \in Seq(G) /\ <<d>> \in Seq(G)
    BY <1>1, <1>2, <1>3, <1>4 DEF Opens, Closes, Flat, Balanced, Nests, Code
  <2> DEFINE aa == <<a>> cc == <<c>> dd == <<d>>
  <2>2. aa \in Seq(G) /\ s \in Seq(G) /\ cc \in Seq(G) /\ dd \in Seq(G)
    BY <2>1
  <2> HIDE DEF G, aa, cc, dd
  <2>3. (aa \o s \o cc) \o dd = aa \o s \o (cc \o dd)
    <3> DEFINE t == aa \o s
    <3>1. t \in Seq(G)
      BY <2>2, ConcatProperties
    <3> HIDE DEF t
    <3>2. (t \o cc) \o dd = t \o (cc \o dd)
      BY <2>2, <3>1, ConcatAssociative
    <3> QED
      BY <3>2 DEF t
  <2> QED
    BY <1>5, <2>3 DEF aa, cc, dd
<1> QED
  BY <1>6, <1>7 DEF fill_block, a, s, c, d

\* A block that is announced and sent.
LEMMA AnnouncedBalanced ==
  ASSUME NEW conn \in Nat, NEW w \in Nat, w >= 2
  PROVE  Balanced(announce_block(conn, w))
<1>1. "SendHeader" \in FlatName /\ "SendBlock" \in FlatName /\ "TakeCoinbaseTxo" \in FlatName
  BY DEF FlatName
<1>2. <<conn, w - 2>> \in Seq(Nat) /\ <<conn, w - 1>> \in Seq(Nat) /\ <<w>> \in Seq(Nat)
  OBVIOUS
<1> QED
  BY <1>1, <1>2, IsFlat, FlatThree DEF announce_block

\* A block on top of a header.
LEMMA BlockFromHeader ==
  ASSUME NEW b, RoundInv(b), NEW s, Balanced(s), NEW header \in Nat,
         NEW r \in build_block_from_header(b, s, header)
  PROVE  Balanced(r)
<1> DEFINE v == newest(b) + width(s)
           build(c, time) == I("BuildBlock", <<c.var, header, time, v + 3, v + 2>>)
           code(c, time, txs) == with_block(s, v, header, time, txs, c)
<1>1. CASE available(b, "Time") = {}
  BY <1>1 DEF build_block_from_header
<1>2. CASE available(b, "Time") # {}
  <2>1. PICK time \in available(b, "Time"), txs \in get_random_variables(b, "ConstTx"),
             c \in coinbases(b, v + 3) :
          r \in announced_block(b, code(c, time, txs))
    <3>1. PICK x \in built_blocks(b, s, header) : r \in announced_block(b, x)
      BY <1>2 DEF build_block_from_header
    <3>2. PICK time \in available(b, "Time"), txs \in get_random_variables(b, "ConstTx"),
               c \in coinbases(b, v + 3) : x = code(c, time, txs)
      <4>1. x \in built_blocks(b, s, header)
        OBVIOUS
      <4> QED
        BY <4>1 DEF built_blocks
    <3> HIDE DEF code
    <3> QED
      BY <3>1, <3>2
  <2> DEFINE w == newest(b) + width(code(c, time, txs))
  <2>2. PICK d \in get_or_create_random_connection(b, w) :
          r = code(c, time, txs) \o d.code \o announce_block(d.var, w)
    <3> HIDE DEF code
    <3> QED
      BY <2>1 DEF announced_block
  <2>3. newest(b) \in Nat /\ width(s) \in Nat /\ v \in Nat /\ v + 3 \in Nat
    BY BuilderSizes, BalancedIsCode
  <2>4. txs \in Seq(Nat)
    BY DrawnType
  <2>5. time \in Nat
    BY BuilderSizes
  <2>6. newest(b) >= 1
    <3>1. time \in 1 .. Len(b.variables)
      BY BuilderSizes
    <3> QED
      BY <2>3, <3>1 DEF newest
  <2> HIDE DEF v
  <2>7. c.var \in Nat /\ Balanced(c.code)
    BY <2>3, CoinbaseFound
  <2>8. Balanced(fill_block(v, txs))
    BY <2>3, <2>4, FilledBalanced
  <2> DEFINE i == build(c, time)
             t == s \o fill_block(v, txs) \o c.code
  <2>9. Flat(i)
    <3>1. "BuildBlock" \in FlatName
      BY DEF FlatName
    <3>2. <<c.var, header, time, v + 3, v + 2>> \in Seq(Nat)
      BY <2>3, <2>5, <2>7
    <3> QED
      BY <3>1, <3>2, IsFlat
  <2> HIDE DEF i
  <2>10. Balanced(t)
    BY <2>7, <2>8, BalancedThree
  <2> HIDE DEF t
  <2>11. code(c, time, txs) = t \o <<i>>
    BY DEF t, i, with_block
  <2> HIDE DEF code
  <2>12. Balanced(code(c, time, txs))
    BY <2>9, <2>10, <2>11, FlatOne, BalancedTwo
  <2>13. width(code(c, time, txs)) >= 1
    <3> DEFINE u == code(c, time, txs)
    <3>1. u = Append(t, i) /\ t \in Seq(GeneratedInstruction) /\ i \in GeneratedInstruction
      BY <2>9, <2>10, <2>11 DEF Balanced, Nests, Code, Flat
    <3>2. u \in Code /\ Len(t) + 1 \in DOMAIN u /\ u[Len(t) + 1] = i
      <4> HIDE DEF u
      <4> QED
        BY <3>1 DEF Code
    <3> HIDE DEF u
    <3>3. num_outputs(i.operation) + num_inner_outputs(i.operation) >= 1
      <4>1. i.operation.name = "BuildBlock"
        BY DEF i, I, Instruction, Op
      <4>2. get_output_variables(i.operation) = <<"Header", "Block", "ConstCoinbaseTx">>
        BY <4>1 DEF get_output_variables, Loads, ScriptBuilders
      <4>3. get_inner_output_variables(i.operation) = << >>
        BY <4>1 DEF get_inner_output_variables
      <4> HIDE DEF i
      <4>4. num_outputs(i.operation) = 3 /\ num_inner_outputs(i.operation) = 0
        BY <4>2, <4>3 DEF num_outputs, num_inner_outputs
      <4> QED
        BY <4>4
    <3>4. u \in Seq(InstructionType)
      BY <3>2, CodeIsCallers
    <3>5. width(u) >= 1
      BY <3>2, <3>3, <3>4, WidthType
    <3> QED
      BY <3>5 DEF u
  <2>14. w \in Nat /\ w >= 2
    <3> DEFINE u == width(code(c, time, txs))
    <3>1. u \in Nat /\ u >= 1
      BY <2>12, <2>13, BalancedIsCode
    <3> HIDE DEF u
    <3>2. newest(b) + u \in Nat /\ newest(b) + u >= 2
      BY <2>3, <2>6, <3>1
    <3> QED
      BY <3>2 DEF u
  <2>15. d.var \in Nat /\ Balanced(d.code)
    BY <2>14, ConnectionFound
  <2> HIDE DEF w
  <2>16. Balanced(announce_block(d.var, w))
    BY <2>14, <2>15, AnnouncedBalanced
  <2> QED
    BY <2>2, <2>12, <2>15, <2>16, BalancedThree
<1> QED
  BY <1>1, <1>2

\* There is at most one nearest variable, and it is a number.
LEMMA NearestOne ==
  ASSUME NEW N \in Nat, NEW S, S \subseteq 1 .. N
  PROVE  nearest(S) \subseteq Nat
<1>1. CASE S = {}
  BY <1>1 DEF nearest
<1>2. CASE S # {}
  <2> DEFINE T == {N - v : v \in S}
  <2>1. T \subseteq Nat /\ T # {}
    <3>1. \A v \in S : v \in 1 .. N
      OBVIOUS
    <3>2. \A v \in 1 .. N : N - v \in Nat
      OBVIOUS
    <3>3. \A x \in T : x \in Nat
      BY <3>1, <3>2
    <3> QED
      BY <1>2, <3>3
  <2>2. PICK x \in T : \A y \in T : x <= y
    <3> HIDE DEF T
    <3> QED
      BY <2>1, LeastOne
  <2>3. PICK v \in S : x = N - v
    BY <2>2
  <2>4. \A w \in S : w <= v
    <3> TAKE w \in S
    <3>1. x <= N - w
      BY <2>2
    <3>2. v \in 1 .. N /\ w \in 1 .. N
      OBVIOUS
    <3> QED
      BY <2>3, <3>1, <3>2
  <2>5. nearest(S) = {CHOOSE u \in S : \A w \in S : w <= u}
    BY <1>2 DEF nearest
  <2>6. (CHOOSE u \in S : \A w \in S : w <= u) \in S
    BY <2>4
  <2>7. 1 .. N \subseteq Nat
    OBVIOUS
  <2> DEFINE u == CHOOSE u \in S : \A w \in S : w <= u
  <2>8. u \in S /\ nearest(S) = {u}
    BY <2>5, <2>6
  <2> HIDE DEF u, T
  <2> QED
    BY <2>7, <2>8
<1> QED
  BY <1>1, <1>2

\* A block on any header of the program.
LEMMA BlockBuilt ==
  ASSUME NEW b, RoundInv(b), NEW s \in BlockGenerator(b)
  PROVE  Balanced(s)
<1> DEFINE sentheaders == get_nearest_sent_header(b)
<1>1. \/ s \in MissingVariables
      \/ \E h \in available(b, "Header") \cup sentheaders : s \in build_block_from_header(b, << >>, h)
  BY DEF BlockGenerator
<1>2. CASE s \in MissingVariables
  BY <1>2, NothingBalanced DEF MissingVariables
<1>3. ASSUME NEW h \in available(b, "Header") \cup sentheaders,
             s \in build_block_from_header(b, << >>, h)
      PROVE  Balanced(s)
  <2>1. sentheaders \subseteq Nat
    <3>1. available(b, "Header") \subseteq 1 .. newest(b) /\ newest(b) \in Nat
      BY BuilderSizes DEF newest
    <3>2. \A S : S \subseteq available(b, "Header") => nearest(S) \subseteq Nat
      BY <3>1, NearestOne
    <3> QED
      BY <3>2 DEF get_nearest_sent_header
  <2>2. h \in Nat
    BY <2>1, BuilderSizes
  <2> QED
    BY <1>3, <2>2, NothingBalanced, BlockFromHeader
<1> QED
  BY <1>1, <1>2, <1>3


\* A block on the tip that the service knows of.
LEMMA TipBlockBuilt ==
  ASSUME NEW b, RoundInv(b), NEW recent, recent = << >> \/ Last(recent).header_var \in Nat,
         NEW s \in TipBlockGenerator(b, recent)
  PROVE  Balanced(s)
<1> DEFINE tip == tip_header(b, recent)
<1>1. s \in build_block_from_header(b, tip.code, tip.var)
  BY DEF TipBlockGenerator
<1>2. Balanced(tip.code) /\ tip.var \in Nat
  <2>1. CASE recent # << >>
    <3>1. tip = [code |-> << >>, var |-> Last(recent).header_var]
      BY <2>1 DEF tip_header
    <3> QED
      BY <2>1, <3>1, NothingBalanced
  <2>2. CASE recent = << >>
    <3>1. tip = [code |-> <<Load("LoadHeader", Max(Headers))>>, var |-> newest(b) + 1]
      BY <2>2 DEF tip_header
    <3>2. Max(Headers) \in Headers
      BY GeneratorAssumption DEF Max
    <3>3. Flat(Load("LoadHeader", Max(Headers)))
      BY <3>2, IsLoad
    <3>4. newest(b) \in Nat
      BY BuilderSizes
    <3> QED
      BY <3>1, <3>3, <3>4, FlatOne
  <2> QED
    BY <2>1, <2>2
<1> HIDE DEF tip
<1> QED
  BY <1>1, <1>2, BlockFromHeader

\* A generator that loads one value.
LEMMA LoadedBalanced ==
  ASSUME NEW b, NEW s \in TxoGenerator(b) \cup HeaderGenerator(b)
  PROVE  Balanced(s)
<1>1. \/ s = << >>
      \/ \E txo \in Txos : s = <<Load("LoadTxo", txo)>>
      \/ \E h \in Headers : s = <<Load("LoadHeader", h)>>
  BY DEF TxoGenerator, HeaderGenerator, MissingVariables
<1>2. ASSUME NEW txo \in Txos PROVE Balanced(<<Load("LoadTxo", txo)>>)
  BY IsLoad, FlatOne
<1>3. ASSUME NEW h \in Headers PROVE Balanced(<<Load("LoadHeader", h)>>)
  BY IsLoad, FlatOne
<1> QED
  BY <1>1, <1>2, <1>3, NothingBalanced

-----------------------------------------------------------------------------
\* The generators of single messages.

\* A block that is there is sent again.
LEMMA SendBlockBalanced ==
  ASSUME NEW b, RoundInv(b), NEW s \in SendBlockGenerator(b)
  PROVE  Balanced(s)
<1> DEFINE v == newest(b) + width(<< >>)
<1>1. \/ s = << >>
      \/ \E op \in {"SendBlock", "SendBlockNoWit"}, block \in available(b, "Block") :
         \E c \in get_or_create_random_connection(b, v) :
           s = << >> \o c.code \o << I(op, <<c.var, block>>) >>
  <2>1. \/ s = << >>
        \/ \E op \in {"SendBlock", "SendBlockNoWit"}, block \in available(b, "Block") :
             s \in send_block(b, op, block)
    BY DEF SendBlockGenerator, MissingVariables
  <2>2. ASSUME NEW op, NEW block, s \in send_block(b, op, block)
        PROVE  \E c \in get_or_create_random_connection(b, v) :
                 s = << >> \o c.code \o << I(op, <<c.var, block>>) >>
    BY <2>2 DEF send_block, on_connection
  <2> QED
    BY <2>1, <2>2
<1>2. ASSUME NEW op \in {"SendBlock", "SendBlockNoWit"}, NEW block \in available(b, "Block"),
             NEW c \in get_or_create_random_connection(b, v)
      PROVE  Balanced(<< >> \o c.code \o << I(op, <<c.var, block>>) >>)
  <2>1. c.var \in Nat /\ Balanced(<< >> \o c.code)
    BY AfterNothing
  <2>2. op \in FlatName
    BY DEF FlatName
  <2>3. <<c.var, block>> \in Seq(Nat)
    BY <2>1, BuilderSizes
  <2>4. Balanced(<< I(op, <<c.var, block>>) >>)
    BY <2>2, <2>3, IsFlat, FlatOne
  <2> QED
    BY <2>1, <2>4, BalancedTwo
<1> HIDE DEF v
<1> QED
  BY <1>1, <1>2, NothingBalanced

\* A compact block.
LEMMA CompactBlockBalanced ==
  ASSUME NEW b, RoundInv(b), NEW s \in CompactBlockGenerator(b)
  PROVE  Balanced(s)
<1> DEFINE v == newest(b) + width(<< >>)
           code(c, block) ==
             LET w == v + Len(c.code) IN
             << I("LoadNonce", << >>), I("BuildCompactBlock", <<block, w + 1>>),
                I("SendCompactBlock", <<c.var, w + 2>>) >>
<1>1. \/ s = << >>
      \/ \E block \in available(b, "Block"), c \in get_or_create_random_connection(b, v) :
           s = << >> \o c.code \o code(c, block)
  <2>1. \/ s = << >>
        \/ \E block \in available(b, "Block") : s \in send_compact_block(b, block)
    BY DEF CompactBlockGenerator, MissingVariables
  <2>2. ASSUME NEW block, s \in send_compact_block(b, block)
        PROVE  \E c \in get_or_create_random_connection(b, v) :
                 s = << >> \o c.code \o code(c, block)
    BY <2>2 DEF send_compact_block, on_connection
  <2> HIDE DEF code
  <2> QED
    BY <2>1, <2>2
<1>2. ASSUME NEW block \in available(b, "Block"), NEW c \in get_or_create_random_connection(b, v)
      PROVE  Balanced(<< >> \o c.code \o code(c, block))
  <2> DEFINE w == v + Len(c.code)
  <2>1. c.var \in Nat /\ Balanced(<< >> \o c.code) /\ w \in Nat
    BY AfterNothing
  <2>2. code(c, block) = << I("LoadNonce", << >>), I("BuildCompactBlock", <<block, w + 1>>),
                            I("SendCompactBlock", <<c.var, w + 2>>) >>
    OBVIOUS
  <2> HIDE DEF w, code
  <2>3. "LoadNonce" \in FlatName /\ "BuildCompactBlock" \in FlatName /\ "SendCompactBlock" \in FlatName
    BY DEF FlatName
  <2>4. << >> \in Seq(Nat) /\ <<block, w + 1>> \in Seq(Nat) /\ <<c.var, w + 2>> \in Seq(Nat)
    BY <2>1, BuilderSizes
  <2>5. Balanced(code(c, block))
    BY <2>2, <2>3, <2>4, IsFlat, FlatThree
  <2> QED
    BY <2>1, <2>5, BalancedTwo
<1> HIDE DEF v, code
<1> QED
  BY <1>1, <1>2, NothingBalanced

\* Queries for compact filters.
LEMMA FilterQueryBalanced ==
  ASSUME NEW b, RoundInv(b), NEW s \in CompactFilterQueryGenerator(b)
  PROVE  Balanced(s)
<1> DEFINE v == newest(b) + width(<< >>)
           ops == {"SendGetCFilters", "SendGetCFHeaders", "SendGetCFCheckpt"}
           code(c, op, header) ==
             LET w == v + Len(c.code) IN
             << I("LoadCompactFilterType", << >>), I("LoadBlockHeight", << >>),
                I(op, IF op = "SendGetCFCheckpt" THEN <<c.var, w + 1, header>>
                      ELSE <<c.var, w + 1, w + 2, header>>) >>
<1>1. \/ s = << >>
      \/ \E op \in ops, header \in available(b, "Header"),
            c \in get_or_create_random_connection(b, v) :
           s = << >> \o c.code \o code(c, op, header)
  <2>1. \/ s = << >>
        \/ \E op \in ops, header \in available(b, "Header") : s \in query_filters(b, op, header)
    BY DEF CompactFilterQueryGenerator, MissingVariables
  <2>2. ASSUME NEW op, NEW header, s \in query_filters(b, op, header)
        PROVE  \E c \in get_or_create_random_connection(b, v) :
                 s = << >> \o c.code \o code(c, op, header)
    BY <2>2 DEF query_filters, on_connection
  <2> HIDE DEF code, ops
  <2> QED
    BY <2>1, <2>2
<1>2. ASSUME NEW op \in ops, NEW header \in available(b, "Header"),
             NEW c \in get_or_create_random_connection(b, v)
      PROVE  Balanced(<< >> \o c.code \o code(c, op, header))
  <2> DEFINE w == v + Len(c.code)
             ins == IF op = "SendGetCFCheckpt" THEN <<c.var, w + 1, header>>
                    ELSE <<c.var, w + 1, w + 2, header>>
  <2>1. c.var \in Nat /\ Balanced(<< >> \o c.code) /\ w \in Nat
    BY AfterNothing
  <2>2. code(c, op, header) = << I("LoadCompactFilterType", << >>), I("LoadBlockHeight", << >>),
                                 I(op, ins) >>
    OBVIOUS
  <2>3. "LoadCompactFilterType" \in FlatName /\ "LoadBlockHeight" \in FlatName /\ op \in FlatName
    BY DEF FlatName
  <2> HIDE DEF w, code
  <2>4. << >> \in Seq(Nat) /\ ins \in Seq(Nat)
    <3>1. header \in Nat
      BY BuilderSizes
    <3> QED
      BY <2>1, <3>1
  <2> HIDE DEF ins
  <2>5. Balanced(code(c, op, header))
    BY <2>2, <2>3, <2>4, IsFlat, FlatThree
  <2> QED
    BY <2>1, <2>5, BalancedTwo
<1> HIDE DEF v, code
<1> QED
  BY <1>1, <1>2, NothingBalanced

\* A request for transactions and blocks.
LEMMA GetDataBalanced ==
  ASSUME NEW b, RoundInv(b), NEW s \in GetDataGenerator(b)
  PROVE  Balanced(s)
<1> DEFINE v == newest(b) + width(<< >>)
<1>1. \/ s = << >>
      \/ \E inv \in available(b, "ConstInventory"), c \in get_or_create_random_connection(b, v) :
           s = << >> \o c.code \o << I("SendGetData", <<c.var, inv>>) >>
  BY DEF GetDataGenerator, on_connection, MissingVariables
<1>2. ASSUME NEW inv \in available(b, "ConstInventory"),
             NEW c \in get_or_create_random_connection(b, v)
      PROVE  Balanced(<< >> \o c.code \o << I("SendGetData", <<c.var, inv>>) >>)
  <2>1. c.var \in Nat /\ Balanced(<< >> \o c.code)
    BY AfterNothing
  <2>2. "SendGetData" \in FlatName
    BY DEF FlatName
  <2>3. <<c.var, inv>> \in Seq(Nat)
    BY <2>1, BuilderSizes
  <2>4. Balanced(<< I("SendGetData", <<c.var, inv>>) >>)
    BY <2>2, <2>3, IsFlat, FlatOne
  <2> QED
    BY <2>1, <2>4, BalancedTwo
<1> HIDE DEF v
<1> QED
  BY <1>1, <1>2, NothingBalanced

\* One message to a connection.
LEMMA ToConnectionBalanced ==
  ASSUME NEW b, RoundInv(b),
         NEW s \in BloomFilterClearGenerator(b) \cup GetAddrGenerator(b)
  PROVE  Balanced(s)
<1> DEFINE v == newest(b) + width(<< >>)
<1>1. \E op \in {"SendFilterClear", "SendGetAddr"}, c \in get_or_create_random_connection(b, v) :
        s = << >> \o c.code \o << I(op, <<c.var>>) >>
  BY DEF BloomFilterClearGenerator, GetAddrGenerator, on_connection
<1>2. ASSUME NEW op \in {"SendFilterClear", "SendGetAddr"},
             NEW c \in get_or_create_random_connection(b, v)
      PROVE  Balanced(<< >> \o c.code \o << I(op, <<c.var>>) >>)
  <2>1. c.var \in Nat /\ Balanced(<< >> \o c.code)
    BY AfterNothing
  <2>2. op \in FlatName
    BY DEF FlatName
  <2>3. <<c.var>> \in Seq(Nat)
    BY <2>1
  <2>4. Balanced(<< I(op, <<c.var>>) >>)
    BY <2>2, <2>3, IsFlat, FlatOne
  <2> QED
    BY <2>1, <2>4, BalancedTwo
<1> HIDE DEF v
<1> QED
  BY <1>1, <1>2

\* A message of random type and content.
LEMMA SendMessageBalanced ==
  ASSUME NEW b, RoundInv(b), NEW s \in SendMessageGenerator(b)
  PROVE  Balanced(s)
<1> DEFINE v == newest(b) + width(<< >>)
           code(c) ==
             LET w == v + Len(c.code) IN
             << I("LoadMsgType", << >>), I("LoadBytes", << >>),
                I("SendRawMessage", <<c.var, w + 1, w + 2>>) >>
<1>1. \E c \in get_or_create_random_connection(b, v) : s = << >> \o c.code \o code(c)
  BY DEF SendMessageGenerator, on_connection
<1>2. ASSUME NEW c \in get_or_create_random_connection(b, v)
      PROVE  Balanced(<< >> \o c.code \o code(c))
  <2> DEFINE w == v + Len(c.code)
  <2>1. c.var \in Nat /\ Balanced(<< >> \o c.code) /\ w \in Nat
    BY AfterNothing
  <2>2. code(c) = << I("LoadMsgType", << >>), I("LoadBytes", << >>),
                     I("SendRawMessage", <<c.var, w + 1, w + 2>>) >>
    OBVIOUS
  <2> HIDE DEF w, code
  <2>3. "LoadMsgType" \in FlatName /\ "LoadBytes" \in FlatName /\ "SendRawMessage" \in FlatName
    BY DEF FlatName
  <2>4. << >> \in Seq(Nat) /\ <<c.var, w + 1, w + 2>> \in Seq(Nat)
    BY <2>1
  <2>5. Balanced(code(c))
    BY <2>2, <2>3, <2>4, IsFlat, FlatThree
  <2> QED
    BY <2>1, <2>5, BalancedTwo
<1> HIDE DEF v, code
<1> QED
  BY <1>1, <1>2


\* One flat instruction for each of the variables.
LEMMA EachBalanced ==
  ASSUME NEW vs \in Seq(Nat), NEW w \in Nat, NEW f,
         \A k \in 1 .. Len(vs) : f[k] \in FlatName
  PROVE  Balanced([k \in 1 .. Len(vs) |-> I(f[k], <<w, vs[k]>>)])
<1> DEFINE s == [k \in 1 .. Len(vs) |-> I(f[k], <<w, vs[k]>>)]
<1>1. Len(vs) \in Nat
  OBVIOUS
<1>2. ASSUME NEW k \in 1 .. Len(vs) PROVE Flat(I(f[k], <<w, vs[k]>>))
  <2>1. <<w, vs[k]>> \in Seq(Nat)
    OBVIOUS
  <2> QED
    BY <2>1, IsFlat
<1>3. \A k \in 1 .. Len(vs) : Flat(s[k])
  BY <1>2
<1>4. DOMAIN s = 1 .. Len(vs) /\ s = [k \in 1 .. Len(vs) |-> s[k]]
  OBVIOUS
<1> HIDE DEF s
<1>5. Balanced(s)
  BY <1>1, <1>3, <1>4, FlatMany
<1> QED
  BY <1>5 DEF s

\* The entries of an inventory.
LEMMA AnnouncementsBalanced ==
  ASSUME NEW w \in Nat, NEW vs \in Seq(Nat), NEW ops, ops \subseteq FlatName,
         NEW s \in announcements(w, vs, ops)
  PROVE  Balanced(s)
<1>1. PICK f \in [1 .. Len(vs) -> ops] :
        s = [k \in 1 .. Len(vs) |-> I(f[k], <<w, vs[k]>>)]
  BY DEF announcements
<1>2. \A k \in 1 .. Len(vs) : f[k] \in FlatName
  OBVIOUS
<1>3. Balanced([k \in 1 .. Len(vs) |-> I(f[k], <<w, vs[k]>>)])
  BY <1>2, EachBalanced
<1> QED
  BY <1>1, <1>3

\* An inventory of transactions or blocks.
LEMMA InventoryBalanced ==
  ASSUME NEW b, RoundInv(b), NEW s \in InventoryGenerator(b)
  PROVE  Balanced(s)
<1> DEFINE inventories == get_nearest_variable(b, "MutInventory")
<1>1. CASE inventories = {}
  BY <1>1, NothingBalanced DEF InventoryGenerator, MissingVariables
<1>2. CASE inventories # {}
  <2> DEFINE w == Max(inventories)
  <2>1. PICK txvars \in get_random_variables(b, "ConstTx"),
             blockvars \in get_random_variables(b, "Block") :
          \E txs \in announcements(w, txvars, TxInvs), blocks \in announcements(w, blockvars, BlockInvs) :
            s = txs \o blocks
    BY <1>2 DEF InventoryGenerator
  <2>2. PICK txs \in announcements(w, txvars, TxInvs), blocks \in announcements(w, blockvars, BlockInvs) :
          s = txs \o blocks
    BY <2>1
  <2>3. w \in Nat
    <3>1. newest(b) \in Nat /\ available(b, "MutInventory") \subseteq 1 .. newest(b)
      BY BuilderSizes DEF newest
    <3>2. inventories \subseteq Nat
      BY <3>1, NearestOne DEF get_nearest_variable
    <3>3. PICK u : inventories = {u}
      BY <1>2 DEF get_nearest_variable, nearest
    <3>4. u \in Nat
      BY <3>2, <3>3
    <3> HIDE DEF inventories
    <3>5. \A y \in inventories : u >= y
      BY <3>3, <3>4
    <3>6. (CHOOSE x \in inventories : \A y \in inventories : x >= y) \in inventories
      BY <3>3, <3>5
    <3> QED
      BY <3>2, <3>6 DEF Max
  <2> HIDE DEF w
  <2>4. txvars \in Seq(Nat) /\ blockvars \in Seq(Nat)
    BY DrawnType
  <2>5. TxInvs \subseteq FlatName /\ BlockInvs \subseteq FlatName
    BY DEF FlatName
  <2>6. Balanced(txs) /\ Balanced(blocks)
    BY <2>2, <2>3, <2>4, <2>5, AnnouncementsBalanced
  <2> QED
    BY <2>2, <2>6, BalancedTwo
<1> QED
  BY <1>1, <1>2

\* A filter that is populated.
LEMMA FilterBlockBalanced ==
  ASSUME NEW v \in Nat, NEW txs \in Seq(Nat), NEW txos \in Seq(Nat)
  PROVE  Balanced(populate_filter(v, txs, txos))
<1> DEFINE a == I("BeginBuildFilterLoad", <<v + 1>>)
           s == [k \in 1 .. Len(txs) |-> I("AddTxToFilter", <<v + 2, txs[k]>>)]
           t == [k \in 1 .. Len(txos) |-> I("AddTxoToFilter", <<v + 2, txos[k]>>)]
           c == I("EndBuildFilterLoad", <<v + 2>>)
<1>0. <<v + 1>> \in Seq(Nat) /\ <<v + 2>> \in Seq(Nat)
      /\ Len(txs) \in Nat /\ Len(txos) \in Nat
  OBVIOUS
<1>1. Opens(a)
  <2>1. "BeginBuildFilterLoad" \in OpeningName
    BY DEF OpeningName
  <2> QED
    BY <1>0, <2>1, IsOpening
<1>2. Closes(c)
  <2>1. "EndBuildFilterLoad" \in ClosingName
    BY DEF ClosingName
  <2> QED
    BY <1>0, <2>1, IsClosing
<1>3. Balanced(s)
  <2> DEFINE f == [k \in 1 .. Len(txs) |-> "AddTxToFilter"]
  <2>1. \A k \in 1 .. Len(txs) : f[k] \in FlatName
    BY DEF FlatName
  <2>2. s = [k \in 1 .. Len(txs) |-> I(f[k], <<v + 2, txs[k]>>)] /\ v + 2 \in Nat
    OBVIOUS
  <2> HIDE DEF s, f
  <2> QED
    BY <2>1, <2>2, EachBalanced
<1>4. Balanced(t)
  <2> DEFINE f == [k \in 1 .. Len(txos) |-> "AddTxoToFilter"]
  <2>1. \A k \in 1 .. Len(txos) : f[k] \in FlatName
    BY DEF FlatName
  <2>2. t = [k \in 1 .. Len(txos) |-> I(f[k], <<v + 2, txos[k]>>)] /\ v + 2 \in Nat
    OBVIOUS
  <2> HIDE DEF t, f
  <2> QED
    BY <2>1, <2>2, EachBalanced
<1> HIDE DEF a, s, t, c
<1>5. Balanced(<<a>> \o (s \o t) \o <<c>>)
  BY <1>1, <1>2, <1>3, <1>4, BalancedTwo, BlockBalanced
<1>6. <<a>> \o (s \o t) \o <<c>> = <<a>> \o s \o t \o <<c>>
  <2> DEFINE G == GeneratedInstruction
             aa == <<a>>
             cc == <<c>>
  <2>1. aa \in Seq(G) /\ s \in Seq(G) /\ t \in Seq(G) /\ cc \in Seq(G)
    BY <1>1, <1>2, <1>3, <1>4 DEF Opens, Closes, Balanced, Nests, Code
  <2> HIDE DEF G, aa, cc
  <2>2. aa \o (s \o t) \o cc = aa \o s \o t \o cc
    BY <2>1
  <2> QED
    BY <2>2 DEF aa, cc
<1> QED
  BY <1>5, <1>6 DEF populate_filter, a, s, t, c

\* A filter that is loaded, empty or populated.
LEMMA BloomFilterLoadBalanced ==
  ASSUME NEW b, RoundInv(b), NEW s \in BloomFilterLoadGenerator(b)
  PROVE  Balanced(s)
<1> DEFINE v == newest(b) + width(<< >>)
           short(c) ==
             LET w == v + Len(c.code) IN
             << I("LoadFilterLoad", << >>), I("SendFilterLoad", <<c.var, w + 1>>) >>
           long(c, txs, txos) ==
             LET w == v + Len(c.code) IN
             << I("LoadFilterLoad", << >>) >> \o populate_filter(w, txs, txos)
               \o << I("SendFilterLoad", <<c.var, w + 3>>) >>
<1>1. \E c \in get_or_create_random_connection(b, v) :
        \/ s = << >> \o c.code \o short(c)
        \/ \E txs \in get_random_variables(b, "ConstTx"), txos \in get_random_variables(b, "Txo") :
             s = << >> \o c.code \o long(c, txs, txos)
  <2>1. \/ s \in load_filter(b)
        \/ \E txs \in get_random_variables(b, "ConstTx"), txos \in get_random_variables(b, "Txo") :
             s \in load_populated_filter(b, txs, txos)
    BY DEF BloomFilterLoadGenerator
  <2>2. s \in load_filter(b) =>
          \E c \in get_or_create_random_connection(b, v) : s = << >> \o c.code \o short(c)
    BY DEF load_filter, on_connection
  <2>3. ASSUME NEW txs, NEW txos, s \in load_populated_filter(b, txs, txos)
        PROVE  \E c \in get_or_create_random_connection(b, v) :
                 s = << >> \o c.code \o long(c, txs, txos)
    BY <2>3 DEF load_populated_filter, on_connection
  <2> HIDE DEF short, long, v
  <2> QED
    BY <2>1, <2>2, <2>3
<1>2. PICK c \in get_or_create_random_connection(b, v) :
        \/ s = << >> \o c.code \o short(c)
        \/ \E txs \in get_random_variables(b, "ConstTx"), txos \in get_random_variables(b, "Txo") :
             s = << >> \o c.code \o long(c, txs, txos)
  BY <1>1
<1> DEFINE w == v + Len(c.code)
           load == I("LoadFilterLoad", << >>)
<1>3. c.var \in Nat /\ Balanced(<< >> \o c.code) /\ w \in Nat
  BY AfterNothing
<1>4. Flat(load)
  <2>1. "LoadFilterLoad" \in FlatName /\ << >> \in Seq(Nat)
    BY DEF FlatName
  <2> QED
    BY <2>1, IsFlat
<1>5. \A n \in Nat : Flat(I("SendFilterLoad", <<c.var, n>>))
  <2>1. "SendFilterLoad" \in FlatName /\ \A n \in Nat : <<c.var, n>> \in Seq(Nat)
    BY <1>3 DEF FlatName
  <2> QED
    BY <2>1, IsFlat
<1>6. Balanced(short(c))
  <2>1. short(c) = <<load, I("SendFilterLoad", <<c.var, w + 1>>)>>
    OBVIOUS
  <2>2. Flat(I("SendFilterLoad", <<c.var, w + 1>>))
    <3>1. w + 1 \in Nat
      BY <1>3
    <3> QED
      BY <1>5, <3>1
  <2> HIDE DEF short, load, w
  <2> QED
    BY <1>4, <2>1, <2>2, FlatTwo
<1>7. ASSUME NEW txs \in get_random_variables(b, "ConstTx"), NEW txos \in get_random_variables(b, "Txo")
      PROVE  Balanced(long(c, txs, txos))
  <2>1. long(c, txs, txos) = <<load>> \o populate_filter(w, txs, txos)
                               \o <<I("SendFilterLoad", <<c.var, w + 3>>)>>
    OBVIOUS
  <2>2. Flat(I("SendFilterLoad", <<c.var, w + 3>>))
    <3>1. w + 3 \in Nat
      BY <1>3
    <3> QED
      BY <1>5, <3>1
  <2>3. txs \in Seq(Nat) /\ txos \in Seq(Nat)
    BY DrawnType
  <2>4. Balanced(populate_filter(w, txs, txos))
    BY <1>3, <2>3, FilterBlockBalanced
  <2> HIDE DEF long, load, w
  <2> QED
    BY <1>4, <2>1, <2>2, <2>4, FlatOne, BalancedThree
<1> HIDE DEF short, long, w, load
<1> QED
  BY <1>2, <1>3, <1>6, <1>7, BalancedTwo

\* Data added to a filter, or nothing when the generator gives up.
LEMMA BloomFilterAddBalanced ==
  ASSUME NEW b, RoundInv(b), NEW s \in BloomFilterAddGenerator(b)
  PROVE  Balanced(s)
<1> DEFINE v == newest(b) + width(<< >>)
           code(c, op, inputs) ==
             << I(op, inputs), I("SendFilterAdd", <<c.var, v + Len(c.code) + 1>>) >>
           ops == {"LoadFilterAdd", "BuildFilterAddFromTx", "BuildFilterAddFromTxo"}
<1>1. \E c \in get_or_create_random_connection(b, v) :
        \/ s = << >> \o c.code \o << >>
        \/ \E op \in ops, inputs \in Seq(Nat) : s = << >> \o c.code \o code(c, op, inputs)
  <2>1. s \in gives_up(b) \/ \E d \in filter_data(b) : s \in add_to_filter(b, d.op, d.inputs)
    BY DEF BloomFilterAddGenerator
  <2>2. s \in gives_up(b) =>
          \E c \in get_or_create_random_connection(b, v) : s = << >> \o c.code \o << >>
    BY DEF gives_up, on_connection
  <2>3. ASSUME NEW op, NEW inputs, s \in add_to_filter(b, op, inputs)
        PROVE  \E c \in get_or_create_random_connection(b, v) :
                 s = << >> \o c.code \o code(c, op, inputs)
    BY <2>3 DEF add_to_filter, on_connection
  <2>4. ASSUME NEW d \in filter_data(b) PROVE d.op \in ops /\ d.inputs \in Seq(Nat)
    <3>1. << >> \in Seq(Nat) /\ \A x \in available(b, "ConstTx") \cup available(b, "Txo") : <<x>> \in Seq(Nat)
      BY BuilderSizes
    <3>2. \/ d = [op |-> "LoadFilterAdd", inputs |-> << >>]
          \/ \E tx \in available(b, "ConstTx") :
               d = [op |-> "BuildFilterAddFromTx", inputs |-> <<tx>>]
          \/ \E txo \in available(b, "Txo") :
               d = [op |-> "BuildFilterAddFromTxo", inputs |-> <<txo>>]
      BY DEF filter_data
    <3>3. CASE d = [op |-> "LoadFilterAdd", inputs |-> << >>]
      BY <3>1, <3>3
    <3>4. ASSUME NEW x \in available(b, "ConstTx") \cup available(b, "Txo"), NEW op \in ops,
                 d = [op |-> op, inputs |-> <<x>>]
          PROVE  d.op \in ops /\ d.inputs \in Seq(Nat)
      <4>1. <<x>> \in Seq(Nat)
        BY <3>1
      <4> HIDE DEF ops
      <4> QED
        BY <3>4, <4>1
    <3> QED
      BY <3>2, <3>3, <3>4
  <2> HIDE DEF code, v, ops
  <2> QED
    BY <2>1, <2>2, <2>3, <2>4
<1>2. PICK c \in get_or_create_random_connection(b, v) :
        \/ s = << >> \o c.code \o << >>
        \/ \E op \in ops, inputs \in Seq(Nat) : s = << >> \o c.code \o code(c, op, inputs)
  BY <1>1
<1> DEFINE w == v + Len(c.code)
<1>3. c.var \in Nat /\ Balanced(<< >> \o c.code) /\ w \in Nat
  BY AfterNothing
<1>4. ASSUME NEW op \in ops, NEW inputs \in Seq(Nat) PROVE Balanced(code(c, op, inputs))
  <2>1. op \in FlatName /\ "SendFilterAdd" \in FlatName
    BY DEF FlatName
  <2>2. <<c.var, w + 1>> \in Seq(Nat)
    BY <1>3
  <2>3. Flat(I(op, inputs)) /\ Flat(I("SendFilterAdd", <<c.var, w + 1>>))
    BY <2>1, <2>2, IsFlat
  <2>4. code(c, op, inputs) = <<I(op, inputs), I("SendFilterAdd", <<c.var, w + 1>>)>>
    OBVIOUS
  <2> HIDE DEF code, w
  <2> QED
    BY <2>3, <2>4, FlatTwo
<1> HIDE DEF code, ops
<1> QED
  BY <1>2, <1>3, <1>4, BalancedTwo, NothingBalanced

\* The records of an address list.
LEMMA AddressesBalanced ==
  ASSUME NEW version \in {"V1", "V2"}, NEW begin \in OpeningName, NEW add \in FlatName,
         NEW end \in ClosingName, NEW send \in FlatName, NEW conn \in Nat, NEW v \in Nat,
         NEW count \in Nat
  PROVE  Balanced(address_list(version, begin, add, end, send, conn, v, count))
<1> DEFINE seqs == [k \in 1 .. count |->
             << Load("LoadAddr", version), I(add, <<v + 1, v + 1 + k>>) >>]
           a == I(begin, << >>)
           y == I(end, <<v + 1>>)
           z == I(send, <<conn, v + count + 2>>)
<1>1. address_list(version, begin, add, end, send, conn, v, count)
        = <<a>> \o FlattenSeq(seqs) \o <<y, z>>
  BY DEF address_list
<1>2. ASSUME NEW k \in 1 .. count PROVE Balanced(seqs[k])
  <2>1. Flat(Load("LoadAddr", version))
    BY IsLoad
  <2>2. <<v + 1, v + 1 + k>> \in Seq(Nat)
    OBVIOUS
  <2>3. Flat(I(add, <<v + 1, v + 1 + k>>))
    BY <2>2, IsFlat
  <2> QED
    BY <2>1, <2>3, FlatTwo
<1>3. seqs = [k \in 1 .. count |-> seqs[k]]
  OBVIOUS
<1> DEFINE s == FlattenSeq(seqs)
<1>4. Balanced(s)
  <2> HIDE DEF seqs
  <2> QED
    BY <1>2, <1>3, FlattenBalanced
<1>5. << >> \in Seq(Nat) /\ <<v + 1>> \in Seq(Nat) /\ <<conn, v + count + 2>> \in Seq(Nat)
  OBVIOUS
<1>6. Opens(a) /\ Closes(y) /\ Flat(z)
  BY <1>5, IsOpening, IsClosing, IsFlat
<1> HIDE DEF a, y, z, s
<1>7. Balanced((<<a>> \o s \o <<y>>) \o <<z>>)
  BY <1>4, <1>6, BlockBalanced, FlatOne, BalancedTwo
<1>8. (<<a>> \o s \o <<y>>) \o <<z>> = <<a>> \o s \o <<y, z>>
  <2> DEFINE G == GeneratedInstruction
             aa == <<a>>
             yy == <<y>>
             zz == <<z>>
  <2>1. aa \in Seq(G) /\ s \in Seq(G) /\ yy \in Seq(G) /\ zz \in Seq(G)
    BY <1>4, <1>6 DEF Opens, Closes, Flat, Balanced, Nests, Code
  <2>2. <<y, z>> = yy \o zz
    <3>1. y \in G /\ z \in G
      BY <1>6 DEF Closes, Flat
    <3> QED
      BY <3>1, Pair
  <2> HIDE DEF G, aa, yy, zz
  <2>3. (aa \o s \o yy) \o zz = aa \o s \o (yy \o zz)
    <3> DEFINE t == aa \o s
    <3>1. t \in Seq(G)
      BY <2>1, ConcatProperties
    <3> HIDE DEF t
    <3>2. (t \o yy) \o zz = t \o (yy \o zz)
      <4>1. cat(cat(t, yy), zz) = cat(t, cat(yy, zz))
        BY <2>1, <3>1, CatAssoc
      <4> QED
        BY <4>1 DEF cat
    <3> QED
      BY <3>2 DEF t
  <2> QED
    BY <2>2, <2>3 DEF aa, yy, zz
<1> QED
  BY <1>1, <1>7, <1>8 DEF s

\* An address list of either version.
LEMMA AddrRelayBalanced ==
  ASSUME NEW b, RoundInv(b), NEW s \in AddrRelayGenerator(b) \cup AddrRelayV2Generator(b)
  PROVE  Balanced(s)
<1> DEFINE v == newest(b) + width(<< >>)
           one(c, n) == address_list("V1", "BeginBuildAddrList", "AddAddr", "EndBuildAddrList",
                                     "SendAddr", c.var, v + Len(c.code), n)
           two(c, n) == address_list("V2", "BeginBuildAddrListV2", "AddAddrV2",
                                     "EndBuildAddrListV2", "SendAddrV2", c.var, v + Len(c.code), n)
<1>1. \E count \in 1 .. MaxPicks, c \in get_or_create_random_connection(b, v) :
        s = << >> \o c.code \o one(c, count) \/ s = << >> \o c.code \o two(c, count)
  BY DEF AddrRelayGenerator, AddrRelayV2Generator, on_connection
<1>2. ASSUME NEW count \in 1 .. MaxPicks, NEW c \in get_or_create_random_connection(b, v)
      PROVE  /\ Balanced(<< >> \o c.code \o one(c, count))
             /\ Balanced(<< >> \o c.code \o two(c, count))
  <2>1. c.var \in Nat /\ Balanced(<< >> \o c.code) /\ v + Len(c.code) \in Nat
    BY AfterNothing
  <2>2. count \in Nat
    BY GeneratorAssumption
  <2>3. "BeginBuildAddrList" \in OpeningName /\ "BeginBuildAddrListV2" \in OpeningName
        /\ "EndBuildAddrList" \in ClosingName /\ "EndBuildAddrListV2" \in ClosingName
        /\ "AddAddr" \in FlatName /\ "AddAddrV2" \in FlatName
        /\ "SendAddr" \in FlatName /\ "SendAddrV2" \in FlatName
    BY DEF OpeningName, ClosingName, FlatName
  <2>4. Balanced(one(c, count)) /\ Balanced(two(c, count))
    BY <2>1, <2>2, <2>3, AddressesBalanced
  <2> HIDE DEF one, two
  <2> QED
    BY <2>1, <2>4, BalancedTwo
<1> HIDE DEF one, two, v
<1> QED
  BY <1>1, <1>2

-----------------------------------------------------------------------------
\* Every generator closes what it opens, whatever program it finds and however
\* its choices fall, those that give up half way included.
THEOREM GeneratorsCloseWhatTheyOpen ==
  ASSUME NEW b, RoundInv(b), NEW recent, recent = << >> \/ Last(recent).header_var \in Nat,
         NEW name \in GeneratorNames, NEW s \in generate(name, b, recent)
  PROVE  Balanced(s)
<1>1. CASE name = "SingleTxGenerator"
  BY <1>1, SingleTxBalanced DEF generate
<1>2. CASE name = "GetDataGenerator"
  BY <1>2, GetDataBalanced DEF generate
<1>3. CASE name = "TxoGenerator"
  BY <1>3, LoadedBalanced DEF generate
<1>4. CASE name = "HeaderGenerator"
  BY <1>4, LoadedBalanced DEF generate
<1>5. CASE name = "OneParentOneChildGenerator"
  BY <1>5, OneParentOneChildBalanced DEF generate
<1>6. CASE name = "LongChainGenerator"
  BY <1>6, LongChainBalanced DEF generate
<1>7. CASE name = "LargeTxGenerator"
  BY <1>7, LargeTxBalanced DEF generate
<1>8. CASE name = "BlockGenerator"
  BY <1>8, BlockBuilt DEF generate
<1>9. CASE name = "TipBlockGenerator"
  BY <1>9, TipBlockBuilt DEF generate
<1>10. CASE name = "SendBlockGenerator"
  BY <1>10, SendBlockBalanced DEF generate
<1>11. CASE name = "InventoryGenerator"
  BY <1>11, InventoryBalanced DEF generate
<1>12. CASE name = "CompactBlockGenerator"
  BY <1>12, CompactBlockBalanced DEF generate
<1>13. CASE name = "CompactFilterQueryGenerator"
  BY <1>13, FilterQueryBalanced DEF generate
<1>14. CASE name = "BloomFilterLoadGenerator"
  BY <1>14, BloomFilterLoadBalanced DEF generate
<1>15. CASE name = "BloomFilterAddGenerator"
  BY <1>15, BloomFilterAddBalanced DEF generate
<1>16. CASE name = "BloomFilterClearGenerator"
  BY <1>16, ToConnectionBalanced DEF generate
<1>17. CASE name = "AddrRelayGenerator"
  BY <1>17, AddrRelayBalanced DEF generate
<1>18. CASE name = "AddrRelayV2Generator"
  BY <1>18, AddrRelayBalanced DEF generate
<1>19. CASE name = "GetAddrGenerator"
  BY <1>19, ToConnectionBalanced DEF generate
<1>20. CASE name = "SendMessageGenerator"
  BY <1>20, SendMessageBalanced DEF generate
<1> QED
  BY <1>1, <1>2, <1>3, <1>4, <1>5, <1>6, <1>7, <1>8, <1>9, <1>10, <1>11, <1>12, <1>13,
     <1>14, <1>15, <1>16, <1>17, <1>18, <1>19, <1>20 DEF GeneratorNames


-----------------------------------------------------------------------------
\* What a program becomes when a sequence is appended to it.

\* The first k elements of s behind p, one by one.
LEMMA AppendEnd ==
  ASSUME NEW S, NEW p \in Seq(S), NEW s \in Seq(S), NEW k \in 1 .. Len(s)
  PROVE  Append(p \o SubSeq(s, 1, k - 1), s[k]) = p \o SubSeq(s, 1, k)
<1> DEFINE P == Len(p)
           N == Len(s)
           t == SubSeq(s, 1, k - 1)
           u == SubSeq(s, 1, k)
<1>1. P \in Nat /\ N \in Nat /\ k \in 1 .. N /\ s[k] \in S
  OBVIOUS
<1>2. /\ t \in Seq(S) /\ Len(t) = k - 1 /\ \A j \in 1 .. k - 1 : t[j] = s[j]
      /\ u \in Seq(S) /\ Len(u) = k /\ \A j \in 1 .. k : u[j] = s[j]
  BY <1>1, SubSeqProperties
<1> DEFINE pt == p \o t
           pu == p \o u
<1> HIDE DEF t, u
<1>3. /\ pt \in Seq(S) /\ Len(pt) = P + (k - 1)
      /\ \A j \in 1 .. P + (k - 1) : pt[j] = IF j <= P THEN p[j] ELSE t[j - P]
      /\ pu \in Seq(S) /\ Len(pu) = P + k
      /\ \A j \in 1 .. P + k : pu[j] = IF j <= P THEN p[j] ELSE u[j - P]
  BY <1>1, <1>2
<1> HIDE DEF pt, pu, P, N
<1> DEFINE a == Append(pt, s[k])
<1>4. /\ a \in Seq(S) /\ Len(a) = P + k
      /\ \A j \in 1 .. P + (k - 1) : a[j] = pt[j]
      /\ a[P + k] = s[k]
  BY <1>1, <1>3
<1> HIDE DEF a
<1>5. ASSUME NEW j \in 1 .. P + k PROVE a[j] = pu[j]
  <2>1. CASE j = P + k
    BY <1>1, <1>2, <1>3, <1>4, <2>1
  <2>2. CASE j \in 1 .. P + (k - 1)
    <3>1. CASE j <= P
      BY <1>1, <1>3, <1>4, <2>2, <3>1
    <3>2. CASE ~ (j <= P)
      <4>1. j - P \in 1 .. k - 1
        BY <1>1, <2>2, <3>2
      <4>2. t[j - P] = u[j - P]
        BY <1>1, <1>2, <4>1
      <4> QED
        BY <1>1, <1>3, <1>4, <2>2, <3>2, <4>2
    <3> QED
      BY <3>1, <3>2
  <2> QED
    BY <1>1, <2>1, <2>2
<1>6. a = pu
  BY <1>3, <1>4, <1>5
<1> QED
  BY <1>6 DEF a, pt, pu, t, u

\* If all of s is accepted, the program has s at its end.
LEMMA AppendAllAppends ==
  ASSUME NEW b, Ready(b), NEW s \in Seq(InstructionType), append_all(b, s).result = "ok"
  PROVE  append_all(b, s).instructions = b.instructions \o s
<1> DEFINE f == Appended(b, s)
           p == b.instructions
           T == {k \in 0 .. Len(s) : f[k].instructions # p \o SubSeq(s, 1, k)}
<1>1. s \in Seq(InstructionType) /\ Len(s) \in Nat
  OBVIOUS
<1>2. f[0] = b /\ \A n \in 1 .. Len(s) : f[n] = AppendNext(f[n - 1], s[n])
  BY <1>1, AppendedIs
<1>3. append_all(b, s) = f[Len(s)]
  BY <1>1, AppendAllIs
<1>4. \A n \in 0 .. Len(s) : f[n].result = "ok"
  <2>1. ASSUME NEW n \in 0 .. Len(s), f[n].result # "ok" PROVE FALSE
    <3>1. Len(s) \in n .. Len(s)
      BY <1>1
    <3>2. f[Len(s)] = f[n]
      BY <1>1, <2>1, <3>1, AppendedStops
    <3> QED
      BY <1>3, <2>1, <3>2
  <2> QED
    BY <2>1
<1>5. \A n \in 0 .. Len(s) : RoundInv(f[n])
  BY <1>1, AppendAllGrows DEF Ready, Grown
<1>6. p \in Seq(InstructionType)
  BY DEF Ready, RoundInv, SafeInv, Inv, Builder, InstructionType
<1> HIDE DEF f, p
<1>7. SUFFICES ASSUME T # {} PROVE FALSE
  <2>1. Len(s) \in 0 .. Len(s)
    BY <1>1
  <2>2. T = {} => f[Len(s)].instructions = p \o SubSeq(s, 1, Len(s))
    BY <2>1
  <2>3. SubSeq(s, 1, Len(s)) = s
    BY <1>1
  <2> QED
    BY <1>3, <1>7, <2>2, <2>3 DEF p
<1>8. PICK k \in T : \A j \in T : k <= j
  <2>1. T \subseteq Nat
    OBVIOUS
  <2> HIDE DEF T
  <2> QED
    BY <1>7, <2>1, LeastOne
<1>9. k \in 0 .. Len(s) /\ f[k].instructions # p \o SubSeq(s, 1, k)
  BY <1>8
<1>10. k # 0
  <2>1. SubSeq(s, 1, 0) = << >> /\ p \o << >> = p
    BY <1>1, <1>6
  <2>2. f[0].instructions = p
    BY <1>2 DEF p
  <2> QED
    BY <1>9, <2>1, <2>2
<1>11. k \in 1 .. Len(s) /\ k - 1 \in 0 .. Len(s)
  BY <1>1, <1>9, <1>10
<1>12. f[k - 1].instructions = p \o SubSeq(s, 1, k - 1)
  <2>1. ~ (k <= k - 1)
    BY <1>11
  <2>2. k - 1 \notin T
    <3> HIDE DEF T
    <3> QED
      BY <1>8, <2>1
  <2> QED
    BY <1>11, <2>2
<1>13. f[k] = append(f[k - 1], s[k])
  BY <1>2, <1>4, <1>11 DEF AppendNext
<1>14. RoundInv(f[k - 1]) /\ s[k] \in InstructionType /\ f[k].result = "ok"
  BY <1>1, <1>4, <1>5, <1>9, <1>11
<1>15. f[k].instructions = Append(f[k - 1].instructions, s[k])
  BY <1>13, <1>14, AppendExtends
<1>16. Append(p \o SubSeq(s, 1, k - 1), s[k]) = p \o SubSeq(s, 1, k)
  BY <1>1, <1>6, <1>11, AppendEnd
<1> QED
  BY <1>9, <1>12, <1>15, <1>16

\* The builder everything starts from.
LEMMA NewIsReady == Ready(new) /\ Untorn(new) /\ new.instructions = << >>
                    /\ Len(new.active_scopes) = 1
<1>1. new.result = "ok" /\ new.instructions = << >> /\ new.contexts = << >>
  BY NewIs
<1>2. Len(new.active_scopes) = 1
  BY NewIs
<1> QED
  BY <1>1, <1>2, RoundInitially DEF Ready, Untorn

\* A program that is accepted is the program of the builder it makes.
LEMMA FromProgramIs ==
  ASSUME NEW p \in Seq(InstructionType), from_program(p).result = "ok"
  PROVE  /\ Ready(from_program(p)) /\ Untorn(from_program(p))
         /\ from_program(p).instructions = p
<1>1. append_all(new, p).result = "ok"
  BY DEF from_program
<1>2. append_all(new, p).instructions = << >> \o p
  BY <1>1, NewIsReady, AppendAllAppends
<1>3. << >> \o p = p
  OBVIOUS
<1>4. Ready(append_all(new, p))
  BY <1>1, NewIsReady, ReadyAfter
<1>5. Untorn(append_all(new, p))
  BY <1>1, NewIsReady, AppendAllGrows DEF Grown, Ready
<1> QED
  BY <1>2, <1>3, <1>4, <1>5 DEF from_program

\* Any program, accepted or not, leaves a builder that keeps its invariant.
LEMMA FromAnyProgram ==
  ASSUME NEW p \in Seq(InstructionType)
  PROVE  RoundInv(from_program(p))
BY NewIsReady, AppendAllGrows DEF from_program, Ready, Grown

-----------------------------------------------------------------------------
\* Programs of one shape: position by position they open, close and send alike.

SameShape(p, q) ==
  /\ q \in Code /\ Len(q) = Len(p)
  /\ \A k \in 1 .. Len(p) :
       /\ Delta(q[k].operation) = Delta(p[k].operation)
       /\ q[k].operation.name \in Sends <=> p[k].operation.name \in Sends

\* Programs of one shape leave the same number of blocks open.
LEMMA SameHeight ==
  ASSUME NEW b, Ready(b), NEW p \in Code, NEW q, SameShape(p, q),
         append_all(b, p).result = "ok", append_all(b, q).result = "ok"
  PROVE  Len(append_all(b, q).active_scopes) = Len(append_all(b, p).active_scopes)
<1> DEFINE f == Appended(b, p)
           g == Appended(b, q)
           N == Len(p)
           T == {k \in 0 .. N : Len(g[k].active_scopes) # Len(f[k].active_scopes)}
<1>1. p \in Seq(InstructionType) /\ q \in Seq(InstructionType) /\ N \in Nat /\ Len(q) = N
  BY CodeIsCallers DEF Code, SameShape
<1>2. /\ f[0] = b /\ \A n \in 1 .. N : f[n] = AppendNext(f[n - 1], p[n])
      /\ g[0] = b /\ \A n \in 1 .. N : g[n] = AppendNext(g[n - 1], q[n])
  BY <1>1, AppendedIs
<1>3. append_all(b, p) = f[N] /\ append_all(b, q) = g[N]
  BY <1>1, AppendAllIs
<1>4. \A n \in 0 .. N : f[n].result = "ok" /\ g[n].result = "ok"
  <2>1. ASSUME NEW n \in 0 .. N PROVE f[n].result = "ok" /\ g[n].result = "ok"
    <3>1. N \in n .. N
      BY <1>1
    <3>2. f[n].result # "ok" => f[N] = f[n]
      BY <1>1, <3>1, AppendedStops
    <3>3. g[n].result # "ok" => g[N] = g[n]
      BY <1>1, <3>1, AppendedStops
    <3> QED
      BY <1>3, <3>2, <3>3
  <2> QED
    BY <2>1
<1>5. \A n \in 0 .. N : RoundInv(f[n]) /\ RoundInv(g[n])
  BY <1>1, AppendAllGrows DEF Ready, Grown
<1>6. \A k \in 1 .. N : Delta(q[k].operation) = Delta(p[k].operation)
  BY DEF SameShape
<1> HIDE DEF f, g
<1>7. SUFFICES ASSUME T # {} PROVE FALSE
  <2>1. N \in 0 .. N
    BY <1>1
  <2> QED
    BY <1>3, <1>7, <2>1
<1>8. PICK k \in T : \A j \in T : k <= j
  <2>1. T \subseteq Nat
    BY <1>1
  <2> HIDE DEF T
  <2> QED
    BY <1>7, <2>1, LeastOne
<1>9. k \in 0 .. N /\ Len(g[k].active_scopes) # Len(f[k].active_scopes)
  BY <1>8
<1> HIDE DEF N
<1>10. k \in 1 .. N /\ k - 1 \in 0 .. N
  BY <1>1, <1>2, <1>9
<1>11. Len(g[k - 1].active_scopes) = Len(f[k - 1].active_scopes)
  <2>1. ~ (k <= k - 1)
    BY <1>10
  <2>2. k - 1 \notin T
    <3> HIDE DEF T
    <3> QED
      BY <1>8, <2>1
  <2> QED
    BY <1>10, <2>2
<1>12. f[k] = append(f[k - 1], p[k]) /\ g[k] = append(g[k - 1], q[k])
  BY <1>2, <1>4, <1>10 DEF AppendNext
<1>13. /\ Ready(f[k - 1]) /\ p[k] \in InstructionType /\ f[k].result = "ok"
       /\ Ready(g[k - 1]) /\ q[k] \in InstructionType /\ g[k].result = "ok"
  BY <1>1, <1>4, <1>5, <1>9, <1>10 DEF Ready, N
<1>14. /\ Len(f[k].active_scopes) = Len(f[k - 1].active_scopes) + Delta(p[k].operation)
       /\ Len(g[k].active_scopes) = Len(g[k - 1].active_scopes) + Delta(q[k].operation)
  BY <1>12, <1>13, AppendRaises
<1> QED
  BY <1>6, <1>9, <1>10, <1>11, <1>14

-----------------------------------------------------------------------------
\* Mutators keep the shape.

\* The input of an instruction becomes another number.
LEMMA ReplaceInput ==
  ASSUME NEW p \in Code, NEW k \in 1 .. Len(p), NEW n \in 1 .. Len(p[k].inputs),
         NEW v \in Nat
  PROVE  SameShape(p, [p EXCEPT ![k].inputs[n] = v])
<1> DEFINE q == [p EXCEPT ![k].inputs[n] = v]
           i == [p[k] EXCEPT !.inputs[n] = v]
           ins == [p[k].inputs EXCEPT ![n] = v]
<1>1. p \in Seq(GeneratedInstruction) /\ p[k] \in GeneratedInstruction
  BY DEF Code
<1>2. p[k].operation \in GeneratedOperation /\ p[k].inputs \in Seq(Nat)
  BY <1>1 DEF GeneratedInstruction
<1>3. ins \in Seq(Nat)
  BY <1>2
<1>4. i = [p[k] EXCEPT !.inputs = ins]
  OBVIOUS
<1> HIDE DEF ins
<1>5. i \in GeneratedInstruction /\ i.operation = p[k].operation
  BY <1>1, <1>3, <1>4 DEF GeneratedInstruction
<1>6. q = [p EXCEPT ![k] = i]
  OBVIOUS
<1> HIDE DEF i, q
<1>7. q \in Seq(GeneratedInstruction) /\ Len(q) = Len(p)
      /\ \A j \in 1 .. Len(p) : q[j] = IF j = k THEN i ELSE p[j]
  BY <1>1, <1>5, <1>6
<1>8. \A j \in 1 .. Len(p) : q[j].operation = p[j].operation
  BY <1>5, <1>7
<1> QED
  BY <1>7, <1>8 DEF SameShape, Code, q

\* The operation of an instruction becomes another one that opens, closes and
\* sends like it.
LEMMA ReplaceOperation ==
  ASSUME NEW p \in Code, NEW k \in 1 .. Len(p), NEW op \in GeneratedOperation,
         Delta(op) = Delta(p[k].operation),
         op.name \in Sends <=> p[k].operation.name \in Sends
  PROVE  SameShape(p, [p EXCEPT ![k].operation = op])
<1> DEFINE q == [p EXCEPT ![k].operation = op]
           i == [p[k] EXCEPT !.operation = op]
<1>1. p \in Seq(GeneratedInstruction) /\ p[k] \in GeneratedInstruction
  BY DEF Code
<1>2. i \in GeneratedInstruction /\ i.operation = op
  BY <1>1 DEF GeneratedInstruction
<1>3. q = [p EXCEPT ![k] = i]
  OBVIOUS
<1> HIDE DEF i, q
<1>4. q \in Seq(GeneratedInstruction) /\ Len(q) = Len(p)
      /\ \A j \in 1 .. Len(p) : q[j] = IF j = k THEN i ELSE p[j]
  BY <1>1, <1>2, <1>3
<1>5. \A j \in 1 .. Len(p) :
        /\ Delta(q[j].operation) = Delta(p[j].operation)
        /\ q[j].operation.name \in Sends <=> p[j].operation.name \in Sends
  BY <1>2, <1>4
<1> QED
  BY <1>4, <1>5 DEF SameShape, Code, q


\* InputMutator keeps the shape: what it replaces is an input.
LEMMA InputMutatorKeepsShape ==
  ASSUME NEW p \in Code, NEW q \in InputMutator(p)
  PROVE  SameShape(p, q)
<1> DEFINE Targets == {k \in 1 .. Len(p) : is_input_mutable(p[k])}
           Upto(k) == from_program(SubSeq(p, 1, k - 1))
           Candidates(k, n) == available(Upto(k), Upto(k).variables[p[k].inputs[n]].var)
                              \ {p[k].inputs[n]}
           Here(k, n) == {[p EXCEPT ![k].inputs[n] = v] : v \in Candidates(k, n)}
           At(k) == UNION {Here(k, n) : n \in 1 .. Len(p[k].inputs)}
<1>1. q \in UNION {At(k) : k \in Targets}
  BY DEF InputMutator
<1> HIDE DEF At
<1>2. PICK k \in Targets : q \in At(k)
  BY <1>1
<1>3. k \in 1 .. Len(p)
  BY <1>2
<1>4. q \in UNION {Here(k, n) : n \in 1 .. Len(p[k].inputs)}
  BY <1>2 DEF At
<1> HIDE DEF Here
<1>5. PICK n \in 1 .. Len(p[k].inputs) : q \in Here(k, n)
  BY <1>4
<1> HIDE DEF Candidates
<1>6. PICK v \in Candidates(k, n) : q = [p EXCEPT ![k].inputs[n] = v]
  BY <1>5 DEF Here
<1>7. v \in 1 .. Len(Upto(k).variables)
  BY <1>6 DEF Candidates, available
<1>8. SubSeq(p, 1, k - 1) \in Seq(InstructionType)
  <2>1. p \in Seq(InstructionType)
    BY CodeIsCallers DEF Code
  <2> QED
    BY <1>3, <2>1, SubSeqProperties
<1>9. RoundInv(Upto(k))
  BY <1>8, FromAnyProgram
<1> HIDE DEF Upto
<1>10. Len(Upto(k).variables) \in Nat
  BY <1>9, BuilderFields, VariableIds DEF RoundInv, SafeInv, Inv
<1>11. v \in Nat
  BY <1>7, <1>10
<1> QED
  BY <1>3, <1>5, <1>6, <1>11, ReplaceInput

\* What an operation may turn into is an operation of the same kind.
LEMMA InterchangeableGroups ==
  ASSUME NEW op \in GeneratedOperation, NEW group \in Interchangeable, op.name \in group,
         NEW name \in group
  PROVE  /\ Op(name, op.args) \in GeneratedOperation
         /\ Delta(Op(name, op.args)) = Delta(op)
         /\ name \in Sends <=> op.name \in Sends
<1> DEFINE All == {"SendTxNoWit", "SendTx"} \cup TxInvs \cup BlockInvs
                  \cup {"BuildPayToPubKey", "BuildPayToPubKeyHash", "BuildPayToWitnessPubKeyHash"}
<1>1. op.name \in All /\ name \in All
  BY DEF Interchangeable
<1>2. All \subseteq OperationName \ { "Nop", "AdvanceTime", "Probe", "LoadNode",
         "LoadConnection", "LoadConnectionType", "LoadAddr", "LoadTxo", "LoadHeader",
         "LoadTaprootAnnex", "BuildTaprootTree" }
  BY DEF OperationName, TxInvs, BlockInvs, Adds, Sends, ScriptBuilders
<1>3. op = Op(op.name, << >>)
  <2>1. op.name \notin {"LoadConnection", "LoadTxo", "LoadHeader", "LoadAddr",
                        "LoadTaprootAnnex", "BuildTaprootTree"}
    BY <1>1, <1>2
  <2> HIDE DEF All
  <2>2. \A n, a : Op(n, a).name = n
    BY DEF Op
  <2>3. CASE op \in {Op(n, << >>) : n \in PlainName}
    BY <2>2, <2>3
  <2>4. CASE op \in {Op("LoadConnection", <<n>>) : n \in 0 .. num_connections - 1}
    BY <2>1, <2>2, <2>4
  <2>5. CASE op \in {Op("LoadTxo", <<txo>>) : txo \in Txos}
    <3>1. PICK txo \in Txos : op = Op("LoadTxo", <<txo>>)
      BY <2>5
    <3>2. op.name = "LoadTxo"
      BY <2>2, <3>1
    <3> QED
      BY <2>1, <3>2
  <2>6. CASE op \in {Op("LoadHeader", <<header>>) : header \in Headers}
    BY <2>1, <2>2, <2>6
  <2>7. CASE op \in {Op("LoadAddr", <<version>>) : version \in {"V1", "V2"}}
    BY <2>1, <2>2, <2>7
  <2>8. CASE op \in {Op(n, <<TRUE>>) : n \in {"LoadTaprootAnnex", "BuildTaprootTree"}}
    BY <2>1, <2>2, <2>8
  <2> QED
    BY <2>3, <2>4, <2>5, <2>6, <2>7, <2>8 DEF GeneratedOperation, PlainName
<1>4. op.args = << >>
  BY <1>3 DEF Op
<1>5. Op(name, << >>) \in GeneratedOperation
  BY <1>1, <1>2 DEF GeneratedOperation
<1>6. Op(name, op.args).name = name
  BY DEF Op
<1>7. \A o : o.name \in All => Delta(o) = 0
  BY DEF Delta, is_block_begin, is_block_end, TxInvs, BlockInvs
<1>8. name \in Sends <=> op.name \in Sends
  BY DEF Interchangeable, TxInvs, BlockInvs, Sends
<1> HIDE DEF All
<1> QED
  BY <1>1, <1>4, <1>5, <1>6, <1>7, <1>8

\* An operation turns into one that opens, closes and sends like it.
LEMMA MutationsKeepShape ==
  ASSUME NEW op \in GeneratedOperation, NEW new_op \in mutations(op)
  PROVE  /\ new_op \in GeneratedOperation
         /\ Delta(new_op) = Delta(op)
         /\ new_op.name \in Sends <=> op.name \in Sends
<1> DEFINE Others == (UNION {group \in Interchangeable : op.name \in group}) \ {op.name}
<1>1. CASE new_op \in {Op(name, op.args) : name \in Others}
  <2>1. PICK name \in Others : new_op = Op(name, op.args)
    BY <1>1
  <2>2. PICK group \in Interchangeable : op.name \in group /\ name \in group
    BY <2>1
  <2>3. new_op.name = name
    BY <2>1 DEF Op
  <2> QED
    BY <2>1, <2>2, <2>3, InterchangeableGroups
<1>2. CASE op.name = "LoadConnection"
           /\ new_op \in {Op(op.name, <<c>>) : c \in 0 .. num_connections - 1}
  <2>1. new_op.name = op.name
    BY <1>2 DEF Op
  <2>2. new_op \in GeneratedOperation
    BY <1>2 DEF GeneratedOperation
  <2>3. Delta(new_op) = Delta(op)
    BY <2>1 DEF Delta, is_block_begin, is_block_end
  <2> QED
    BY <2>1, <2>2, <2>3
<1>3. CASE op.name = "LoadTaprootAnnex" /\ new_op \in {Op(op.name, <<TRUE>>)}
  <2>1. new_op.name = op.name
    BY <1>3 DEF Op
  <2>2. new_op \in GeneratedOperation
    BY <1>3 DEF GeneratedOperation
  <2>3. Delta(new_op) = Delta(op)
    BY <2>1 DEF Delta, is_block_begin, is_block_end
  <2> QED
    BY <2>1, <2>2, <2>3
<1> HIDE DEF Others
<1> QED
  BY <1>1, <1>2, <1>3 DEF mutations, Others

\* OperationMutator keeps the shape.
LEMMA OperationMutatorKeepsShape ==
  ASSUME NEW p \in Code, NEW q \in OperationMutator(p)
  PROVE  SameShape(p, q)
<1> DEFINE At(k) == {[p EXCEPT ![k].operation = op] : op \in mutations(p[k].operation)}
<1>1. q \in UNION {At(k) : k \in 1 .. Len(p)}
  BY DEF OperationMutator
<1> HIDE DEF At
<1>2. PICK k \in 1 .. Len(p) : q \in At(k)
  BY <1>1
<1>3. PICK op \in mutations(p[k].operation) : q = [p EXCEPT ![k].operation = op]
  BY <1>2 DEF At
<1>4. p[k].operation \in GeneratedOperation
  <2>1. p \in Seq(GeneratedInstruction)
    BY DEF Code
  <2>2. p[k] \in GeneratedInstruction
    BY <1>2, <2>1
  <2> QED
    BY <2>2 DEF GeneratedInstruction
<1>5. /\ op \in GeneratedOperation /\ Delta(op) = Delta(p[k].operation)
      /\ op.name \in Sends <=> p[k].operation.name \in Sends
  BY <1>3, <1>4, MutationsKeepShape
<1> QED
  BY <1>2, <1>3, <1>5, ReplaceOperation

\* Whatever a mutator makes of a program has its shape.
LEMMA MutatorsKeepShape ==
  ASSUME NEW p \in Code, NEW name \in MutatorNames, NEW q \in mutate(name, p)
  PROVE  SameShape(p, q)
<1>1. CASE name = "InputMutator"
  BY <1>1, InputMutatorKeepsShape DEF mutate
<1>2. CASE name = "OperationMutator"
  BY <1>2, OperationMutatorKeepsShape DEF mutate
<1> QED
  BY <1>1, <1>2 DEF MutatorNames


-----------------------------------------------------------------------------
\* What the service reads of the compiler.

Lookups(c) ==
  /\ DOMAIN c = DOMAIN new_compiler
  /\ \E S : c.variables \in Seq(S)
  /\ \A block \in DOMAIN c.block_tx_var_map : c.block_tx_var_map[block].header_var \in Nat

\* An instruction that is compiled leaves them in order.
LEMMA CompiledLookups ==
  ASSUME NEW c, Lookups(c), NEW i, i.operation \in Operation, NEW now
  PROVE  Lookups(compile_instruction(c, i, now))
<1> DEFINE types == appends(i.operation)
           uvs == updated_variables(c, i)
           more == [k \in 1 .. Len(types) |->
                      [rust |-> types[k], data |-> appended_data(c, i, now)[k]]]
           e == compile_instruction(c, i, now)
<1>1. PICK S : c.variables \in Seq(S)
  BY DEF Lookups
<1>2. Len(types) \in Nat
  BY AppendsDefined
<1>3. /\ DOMAIN e = DOMAIN c
      /\ e.variables = uvs \o more
      /\ e.block_tx_var_map = update_block_map(c, i, now)
  BY DEF compile_instruction, Lookups, new_compiler
<1>4. \E U : uvs \in Seq(U)
  <2>1. CASE i.operation.name \notin Updates
    BY <1>1, <2>1 DEF updated_variables
  <2>2. CASE i.operation.name \in Updates
    <3> DEFINE cvs == c.variables
               j == i.inputs[1]
               d == updated(c, i)
               w == [cvs[j] EXCEPT !.data = d]
               U == S \cup {w}
    <3>1. uvs = [cvs EXCEPT ![j].data = d]
      BY <2>2 DEF updated_variables
    <3> HIDE DEF d, j
    <3>2. uvs = [cvs EXCEPT ![j] = w]
      BY <3>1
    <3>3. cvs \in Seq(U) /\ w \in U
      BY <1>1
    <3> HIDE DEF w, U, uvs
    <3>4. uvs \in Seq(U)
      <4>1. cvs \in [1 .. Len(cvs) -> U] /\ Len(cvs) \in Nat
        BY <3>3
      <4> DEFINE m == Len(cvs)
      <4>2. cvs \in [1 .. m -> U] /\ m \in Nat
        BY <4>1
      <4> HIDE DEF m, cvs
      <4>3. uvs \in [1 .. m -> U]
        BY <3>2, <3>3, <4>2
      <4> QED
        BY <4>2, <4>3
    <3> QED
      BY <3>4
  <2> QED
    BY <2>1, <2>2
<1>5. PICK U : uvs \in Seq(U)
  BY <1>4
<1>6. more \in Seq({more[k] : k \in 1 .. Len(types)})
  BY <1>2
<1> HIDE DEF uvs, more
<1> DEFINE W == U \cup {more[k] : k \in 1 .. Len(types)}
<1>7. uvs \in Seq(W) /\ more \in Seq(W)
  BY <1>5, <1>6
<1> HIDE DEF W
<1>8. e.variables \in Seq(W)
  BY <1>3, <1>7
<1>9. \A block \in DOMAIN e.block_tx_var_map : e.block_tx_var_map[block].header_var \in Nat
  <2> DEFINE entry == [header_var |-> Len(c.variables) + 1,
                       block_var |-> Len(c.variables) + 2,
                       tx_vars |-> [k \in DOMAIN get_input(c, i, 5) |-> get_input(c, i, 5)[k].var]]
             map == c.block_tx_var_map
  <2>1. entry.header_var \in Nat
    BY <1>1
  <2> HIDE DEF entry
  <2>2. CASE i.operation.name # "BuildBlock"
    BY <1>3, <2>2 DEF Lookups, update_block_map
  <2>3. CASE i.operation.name = "BuildBlock"
    <3>1. e.block_tx_var_map = or_insert(map, build_block(c, i, now), entry)
      BY <1>3, <2>3 DEF update_block_map, entry
    <3>2. \A block \in DOMAIN map : map[block].header_var \in Nat
      BY DEF Lookups
    <3> HIDE DEF map, e
    <3> QED
      BY <2>1, <3>1, <3>2 DEF or_insert
  <2> QED
    BY <2>2, <2>3
<1> QED
  BY <1>3, <1>8, <1>9 DEF Lookups


-----------------------------------------------------------------------------
\* The program between requests.

\* A builder whose last append was accepted, whose program a generator could
\* have written and which has no block open.
Whole(b) ==
  /\ b.result = "ok" /\ Untorn(b) /\ Len(b.active_scopes) = 1
  /\ b.instructions \in Code

HeaderKept == \/ service.recent_blocks = << >>
              \/ Last(service.recent_blocks).header_var \in Nat

\* The inductive invariant.  A panic poisons the lock; nobody looks at the
\* program afterwards.
WholeInv ==
  /\ PlacedInv
  /\ RoundInv(builder)
  /\ ~ service.poisoned => Whole(builder)
  /\ HeaderKept
  /\ Lookups(compiler)
  /\ compiler.last_compiled_instruction \in Nat
  /\ DOMAIN call = DOMAIN Idle
  /\ call.running => call.next \in Nat \ {0}

\* They are in order in a new compiler.
LEMMA NewLookups == Lookups(new_compiler) /\ new_compiler.last_compiled_instruction = 0
<1>1. << >> \in Seq({})
  OBVIOUS
<1>2. new_compiler.variables = << >> /\ new_compiler.block_tx_var_map = << >>
      /\ new_compiler.last_compiled_instruction = 0
  BY DEF new_compiler
<1> QED
  BY <1>1, <1>2 DEF Lookups

\* An empty program is whole.
LEMMA NewIsWhole == RoundInv(new) /\ Whole(new)
<1>1. << >> \in Code
  BY DEF Code
<1> QED
  BY <1>1, NewIsReady DEF Whole, Ready

\* The invariant holds at first.
LEMMA InitWhole == IrInit => WholeInv
<1> SUFFICES ASSUME IrInit PROVE WholeInv
  OBVIOUS
<1>1. PlacedInv
  BY InitPlaced
<1>2. builder = new /\ compiler = new_compiler /\ call = Idle
  BY DEF IrInit, CompilerInit, Init
<1>3. service.recent_blocks = << >>
  BY DEF IrInit
<1>4. ~ call.running
  BY <1>2 DEF Idle
<1> QED
  BY <1>1, <1>2, <1>3, <1>4, NewIsWhole, NewLookups DEF WholeInv, HeaderKept

\* Steps that touch neither the program nor the compiler.
LEMMA ElsewhereWhole ==
  ASSUME WholeInv, PlacedInv', builder' = builder, compiler' = compiler, call' = call,
         service'.poisoned = service.poisoned,
         HeaderKept'
  PROVE  WholeInv'
BY DEF WholeInv

\* Nor the recent block.
LEMMA SameRecent ==
  ASSUME WholeInv, service'.recent_blocks = service.recent_blocks
  PROVE  HeaderKept'
BY DEF WholeInv, HeaderKept

\* A failed init leaves the program alone.
LEMMA InitFailsWhole ==
  ASSUME WholeInv, PlacedInv', NEW k \in 0 .. num_connections - 1, InitFails(k)
  PROVE  WholeInv'
<1>1. /\ service' = established(k)
      /\ builder' = builder /\ compiler' = compiler /\ call' = call
  BY DEF InitFails, compiler_vars
<1>2. DOMAIN service = Fields
  BY DEF WholeInv, PlacedInv
<1>3. service'.poisoned = service.poisoned /\ service'.recent_blocks = service.recent_blocks
  BY <1>1, <1>2 DEF established, Fields
<1> QED
  BY <1>1, <1>3, ElsewhereWhole, SameRecent

\* The program init begins with.
LEMMA FirstInstruction ==
  LET b == append(new, I("LoadTime", << >>)) IN RoundInv(b) /\ Whole(b)
<1> DEFINE i == I("LoadTime", << >>)
           b == append(new, i)
<1>1. i \in GeneratedInstruction /\ i.operation.name = "LoadTime"
  <2>1. "LoadTime" \in PlainName
    BY DEF PlainName, OperationName, Loads
  <2>2. << >> \in Seq(Nat)
    OBVIOUS
  <2> QED
    BY <2>1, <2>2, PlainInstruction
<1>2. i.inputs = << >>
  BY DEF I, Instruction
<1> HIDE DEF i
<1>3. i \in InstructionType
  BY <1>1, CodeIsCallers
<1>4. Validate(new, i) = "ok"
  <2>1. num_inputs(i.operation) = Len(i.inputs)
    BY <1>1, <1>2 DEF num_inputs, get_input_variables, TxInvs, BlockInvs
  <2>2. InputsInScope(new, i) /\ check_input_types(new, i)
    BY <1>2 DEF InputsInScope, check_input_types
  <2>3. check_payload(i.operation) = "ok"
    BY <1>1 DEF check_payload
  <2> QED
    BY <2>1, <2>2, <2>3 DEF Validate
<1>5. ~ is_block_end(i.operation) /\ Delta(i.operation) = 0
  BY <1>1 DEF is_block_end, Delta, is_block_begin
<1>6. b = accept(new, i)
  BY <1>4, <1>5 DEF append
<1>7. DOMAIN new = FieldNames
  BY NewIs DEF FieldNames
<1>8. b.result = "ok"
  BY <1>6, <1>7, AcceptRecords
<1>9. RoundInv(b)
  BY <1>3, NewIsWhole, RoundStep
<1>10. Len(b.active_scopes) = 1
  BY <1>3, <1>5, <1>8, NewIsReady, AppendRaises
<1>11. b.instructions = Append(<< >>, i) /\ Untorn(b)
  BY <1>3, <1>8, NewIsReady, AppendExtends DEF Ready
<1>12. b.instructions \in Code
  BY <1>1, <1>11 DEF Code
<1> QED
  BY <1>8, <1>9, <1>10, <1>11, <1>12 DEF Whole, i

\* An init begins a new program.
LEMMA InitSucceedsWhole ==
  ASSUME WholeInv, PlacedInv', NEW answered \in BOOLEAN, InitSucceeds(answered)
  PROVE  WholeInv'
<1> DEFINE made == established(num_connections)
<1>1. /\ service' = [made EXCEPT !.initialized = TRUE]
      /\ builder' = append(new, I("LoadTime", << >>))
      /\ compiler' = new_compiler /\ call' = call
  BY DEF InitSucceeds
<1>2. DOMAIN service = Fields
  BY DEF WholeInv, PlacedInv
<1>3. DOMAIN made = Fields /\ made.recent_blocks = service.recent_blocks
  BY <1>2 DEF established, Fields
<1> HIDE DEF made
<1>4. service'.recent_blocks = service.recent_blocks
  BY <1>1, <1>3 DEF Fields
<1>5. HeaderKept'
  BY <1>4, SameRecent
<1>6. RoundInv(builder)' /\ Whole(builder)'
  BY <1>1, FirstInstruction
<1> QED
  BY <1>1, <1>5, <1>6, NewLookups DEF WholeInv

\* A generator appends what it appends, and if nothing panics every block it
\* opened is closed.
LEMMA GeneratorWhole ==
  ASSUME WholeInv, PlacedInv', NEW name \in GeneratorNames, apply_generator(name)
  PROVE  WholeInv'
<1>1. PICK s \in generate(name, builder, service.recent_blocks) :
        builder' = append_all(builder, s)
  BY DEF apply_generator
<1>2. /\ service' = [service EXCEPT !.poisoned = builder'.result # "ok"]
      /\ compiler' = compiler /\ call' = call /\ ~ service.poisoned
  BY DEF apply_generator, MayMutate, Unlocked
<1>3. DOMAIN service = Fields
  BY DEF WholeInv, PlacedInv
<1>4. service'.recent_blocks = service.recent_blocks
      /\ service'.poisoned = (builder'.result # "ok")
  BY <1>2, <1>3 DEF Fields
<1>5. RoundInv(builder) /\ HeaderKept /\ Whole(builder)
  BY <1>2 DEF WholeInv
<1>6. Balanced(s)
  <2> DEFINE recent == service.recent_blocks
  <2>1. recent = << >> \/ Last(recent).header_var \in Nat
    BY <1>5 DEF HeaderKept
  <2>2. s \in generate(name, builder, recent)
    BY <1>1
  <2> HIDE DEF recent
  <2> QED
    BY <1>5, <2>1, <2>2, GeneratorsCloseWhatTheyOpen
<1>7. s \in Code /\ s \in Seq(InstructionType) /\ Nests(s, 0)
  BY <1>6, CodeIsCallers DEF Balanced, Nests
<1>8. Grown(builder, builder')
  BY <1>1, <1>5, <1>7, AppendAllGrows
<1>9. RoundInv(builder)'
  BY <1>8 DEF Grown
<1>10. ASSUME builder'.result = "ok" PROVE Whole(builder)'
  <2>1. Ready(builder)
    BY <1>5 DEF Ready, Whole
  <2>2. Len(builder'.active_scopes) = Len(builder.active_scopes) + 0
    BY <1>1, <1>7, <1>10, <2>1 DEF Nests, Raises
  <2>3. Len(builder'.active_scopes) = 1
    BY <1>5, <2>2 DEF Whole
  <2>4. Untorn(builder')
    BY <1>5, <1>8, <1>10 DEF Grown, Whole
  <2>5. builder'.instructions = builder.instructions \o s
    BY <1>1, <1>7, <1>10, <2>1, AppendAllAppends
  <2>6. builder'.instructions \in Code
    BY <1>5, <1>7, <2>5 DEF Whole, Code
  <2> QED
    BY <1>10, <2>3, <2>4, <2>6 DEF Whole
<1>11. HeaderKept'
  BY <1>4, SameRecent
<1> QED
  BY <1>2, <1>4, <1>9, <1>10, <1>11 DEF WholeInv

\* A mutator's program replaces the old one only if the builder accepts it.
LEMMA MutatorWhole ==
  ASSUME WholeInv, PlacedInv', NEW name \in MutatorNames, apply_mutator(name)
  PROVE  WholeInv'
<1>1. PICK q \in mutate(name, builder.instructions) :
        from_program(q).result = "ok" /\ builder' = from_program(q)
  BY DEF apply_mutator
<1>2. service' = service /\ compiler' = compiler /\ call' = call /\ ~ service.poisoned
  BY DEF apply_mutator, MayMutate, Unlocked
<1>3. RoundInv(builder) /\ Whole(builder)
  BY <1>2 DEF WholeInv
<1> DEFINE p == builder.instructions
<1>4. p \in Code /\ SameShape(p, q)
  BY <1>1, <1>3, MutatorsKeepShape DEF Whole
<1>5. q \in Code /\ q \in Seq(InstructionType) /\ p \in Seq(InstructionType)
  BY <1>4, CodeIsCallers DEF SameShape
<1>6. /\ Ready(builder') /\ Untorn(builder') /\ builder'.instructions = q
  BY <1>1, <1>5, FromProgramIs
<1>7. Len(builder'.active_scopes) = 1
  <2>1. from_program(p) = Repaired(builder)
    BY <1>3 DEF RoundInv, Whole
  <2>2. DOMAIN builder = FieldNames
    BY <1>3 DEF RoundInv, SafeInv, Inv, Builder, FieldNames
  <2>3. Repaired(builder).result = "ok"
        /\ Repaired(builder).active_scopes = builder.active_scopes
    BY <2>2 DEF Repaired, FieldNames
  <2>4. append_all(new, p).result = "ok" /\ append_all(new, q).result = "ok"
    BY <1>1, <2>1, <2>3 DEF from_program
  <2> HIDE DEF p
  <2>5. Len(append_all(new, q).active_scopes) = Len(append_all(new, p).active_scopes)
    BY <1>4, <2>4, NewIsReady, SameHeight
  <2> QED
    BY <1>1, <1>3, <2>1, <2>3, <2>5 DEF from_program, Whole
<1>8. HeaderKept'
  BY <1>2, SameRecent
<1> QED
  BY <1>2, <1>5, <1>6, <1>7, <1>8 DEF WholeInv, Whole, Ready


\* Compiling leaves the program alone.
LEMMA CompileWhole ==
  ASSUME WholeInv, PlacedInv', Compile
  PROVE  WholeInv'
<1>1. service' = service
  BY DEF Compile
<1>2. HeaderKept'
  BY <1>1, SameRecent
<1>3. CASE CompileFrom
  <2>1. /\ builder' = builder /\ compiler' = compiler
        /\ call' = [running |-> TRUE, next |-> compiler.last_compiled_instruction + 1,
                    actions_before |-> Len(compiler.actions)]
    BY <1>3 DEF CompileFrom
  <2>2. DOMAIN call' = DOMAIN Idle /\ call'.next = compiler.last_compiled_instruction + 1
    BY <2>1 DEF Idle
  <2>3. call'.next \in Nat \ {0}
    BY <2>2 DEF WholeInv
  <2> QED
    BY <1>1, <1>2, <2>1, <2>2, <2>3 DEF WholeInv
<1>4. ASSUME NEW now \in Second, CompileInstruction(now) PROVE WholeInv'
  <2> DEFINE p == builder.instructions
             i == p[call.next]
  <2>1. /\ call.running /\ call.next <= Len(p)
        /\ builder' = builder
        /\ compiler' = compile_instruction(compiler, i, now)
        /\ call' = [call EXCEPT !.next = @ + 1]
    BY <1>4 DEF CompileInstruction
  <2>2. Len(p) \in Nat /\ \A k \in 1 .. Len(p) : p[k].operation \in Operation
    BY BuilderLengths DEF WholeInv, RoundInv
  <2>3. call.next \in 1 .. Len(p)
    BY <2>1, <2>2 DEF WholeInv
  <2>4. i.operation \in Operation
    BY <2>2, <2>3
  <2>5. Lookups(compiler')
    BY <2>1, <2>4, CompiledLookups DEF WholeInv
  <2>6. compiler'.last_compiled_instruction = compiler.last_compiled_instruction
    BY <2>1 DEF compile_instruction, WholeInv, Lookups, new_compiler
  <2>7. /\ DOMAIN call' = DOMAIN Idle
        /\ call'.next = call.next + 1
    BY <2>1 DEF WholeInv, Idle
  <2>8. call'.next \in Nat \ {0}
    BY <2>3, <2>2, <2>7
  <2> QED
    BY <1>1, <1>2, <2>1, <2>5, <2>6, <2>7, <2>8 DEF WholeInv
<1>5. CASE CompileError
  <2>1. builder' = builder /\ compiler' = compiler /\ call' = Idle
    BY <1>5 DEF CompileError
  <2>2. ~ call'.running
    BY <2>1 DEF Idle
  <2> QED
    BY <1>1, <1>2, <2>1, <2>2 DEF WholeInv
<1> QED
  BY <1>3, <1>4, <1>5 DEF Compile

\* So does sending,
LEMMA SendWhole ==
  ASSUME WholeInv, PlacedInv', Send
  PROVE  WholeInv'
<1>1. /\ builder' = builder /\ call' = Idle
      /\ compiler' = [compiler EXCEPT
                        !.last_compiled_instruction = Len(builder.instructions)]
      /\ service' = [service EXCEPT !.syncing = TRUE]
  BY DEF Send, CompileReturn
<1>2. DOMAIN service = Fields
  BY DEF WholeInv, PlacedInv
<1>3. service'.poisoned = service.poisoned /\ service'.recent_blocks = service.recent_blocks
  BY <1>1, <1>2 DEF Fields
<1>4. HeaderKept'
  BY <1>3, SameRecent
<1>5. ~ call'.running
  BY <1>1 DEF Idle
<1>6. Len(builder.instructions) \in Nat
  BY BuilderLengths DEF WholeInv, RoundInv
<1>7. /\ DOMAIN compiler' = DOMAIN compiler
      /\ compiler'.variables = compiler.variables
      /\ compiler'.block_tx_var_map = compiler.block_tx_var_map
      /\ compiler'.last_compiled_instruction = Len(builder.instructions)
  BY <1>1 DEF WholeInv, Lookups, new_compiler
<1>8. Lookups(compiler')
  BY <1>7 DEF WholeInv, Lookups
<1> QED
  BY <1>1, <1>3, <1>4, <1>5, <1>6, <1>7, <1>8 DEF WholeInv

\* asking for the tip, which may make a header of the compiler the recent one,
LEMMA SyncWhole ==
  ASSUME WholeInv, PlacedInv', Sync
  PROVE  WholeInv'
<1>0. PICK S \in SUBSET {k \in DOMAIN service.connections : ~ service.connections[k].alive} :
        \E recent \in {synced, service.recent_blocks} :
          service' = [service EXCEPT !.syncing = FALSE,
                                     !.connections = pinged(S),
                                     !.recent_blocks = recent]
  BY DEF Sync
<1>1. PICK recent \in {synced, service.recent_blocks} :
        service' = [service EXCEPT !.syncing = FALSE,
                                   !.connections = pinged(S),
                                   !.recent_blocks = recent]
  BY <1>0
<1>2. builder' = builder /\ compiler' = compiler /\ call' = call
  BY DEF Sync, compiler_vars
<1>3. DOMAIN service = Fields
  BY DEF WholeInv, PlacedInv
<1>4. service'.poisoned = service.poisoned /\ service'.recent_blocks = recent
  BY <1>1, <1>3 DEF Fields
<1>5. recent = << >> \/ Last(recent).header_var \in Nat
  <2>1. CASE recent = service.recent_blocks
    BY <2>1 DEF WholeInv, HeaderKept
  <2>2. CASE recent = synced /\ node.tip \in DOMAIN compiler.block_tx_var_map
    <3> DEFINE v == compiler.block_tx_var_map[node.tip].header_var
               entry == [height |-> node.heights[node.tip], header_var |-> v,
                         instr |-> compiler.variable_indices[v]]
    <3>1. v \in Nat
      BY <2>2 DEF WholeInv, Lookups
    <3>2. recent = <<entry>>
      BY <2>2 DEF synced
    <3>3. entry.header_var = v
      OBVIOUS
    <3> HIDE DEF entry, v
    <3>4. Last(recent) = entry
      BY <3>2 DEF Last
    <3> QED
      BY <3>1, <3>3, <3>4
  <2>3. CASE recent = synced /\ node.tip \notin DOMAIN compiler.block_tx_var_map
    BY <2>3 DEF synced, WholeInv, HeaderKept
  <2> QED
    BY <1>1, <2>1, <2>2, <2>3
<1>6. HeaderKept'
  BY <1>4, <1>5 DEF HeaderKept
<1> QED
  BY <1>2, <1>4, <1>6, ElsewhereWhole

\* and a dropped connection.
LEMMA DropWhole ==
  ASSUME WholeInv, PlacedInv', NEW k \in DOMAIN service.connections, Drop(k)
  PROVE  WholeInv'
<1>1. /\ service' = [service EXCEPT !.connections[k].alive = FALSE]
      /\ builder' = builder /\ compiler' = compiler /\ call' = call
  BY DEF Drop, compiler_vars
<1>2. DOMAIN service = Fields
  BY DEF WholeInv, PlacedInv
<1>3. service'.poisoned = service.poisoned /\ service'.recent_blocks = service.recent_blocks
  BY <1>1, <1>2 DEF Fields
<1> QED
  BY <1>1, <1>3, ElsewhereWhole, SameRecent

\* Every step keeps the program whole.
LEMMA NextWhole == WholeInv /\ [IrNext]_vars => WholeInv'
<1> SUFFICES ASSUME WholeInv, [IrNext]_vars PROVE WholeInv'
  OBVIOUS
<1>0. PlacedInv'
  BY NextPlaced DEF WholeInv
<1>1. ASSUME NEW k \in 0 .. num_connections - 1, InitFails(k) PROVE WholeInv'
  BY <1>0, <1>1, InitFailsWhole
<1>2. ASSUME NEW answered \in BOOLEAN, InitSucceeds(answered) PROVE WholeInv'
  BY <1>0, <1>2, InitSucceedsWhole
<1>3. ASSUME NEW name \in Requests \cap GeneratorNames, apply_generator(name)
      PROVE WholeInv'
  BY <1>0, <1>3, GeneratorWhole
<1>4. ASSUME NEW name \in Requests \cap MutatorNames, apply_mutator(name)
      PROVE WholeInv'
  BY <1>0, <1>4, MutatorWhole
<1>5. ASSUME Compile PROVE WholeInv'
  BY <1>0, <1>5, CompileWhole
<1>6. ASSUME Send PROVE WholeInv'
  BY <1>0, <1>6, SendWhole
<1>7. ASSUME Sync PROVE WholeInv'
  BY <1>0, <1>7, SyncWhole
<1>8. ASSUME NEW c \in DOMAIN service.connections, Drop(c) PROVE WholeInv'
  BY <1>0, <1>8, DropWhole
<1>9. ASSUME NEW block \in node.sent, Accept(block) PROVE WholeInv'
  <2>1. service' = service /\ builder' = builder /\ compiler' = compiler /\ call' = call
    BY <1>9 DEF Accept, compiler_vars
  <2> QED
    BY <1>0, <2>1, ElsewhereWhole, SameRecent
<1>10. ASSUME UNCHANGED vars PROVE WholeInv'
  <2>1. service' = service /\ builder' = builder /\ compiler' = compiler /\ call' = call
    BY <1>10 DEF vars, compiler_vars
  <2> QED
    BY <1>0, <2>1, ElsewhereWhole, SameRecent
<1> QED
  BY <1>1, <1>2, <1>3, <1>4, <1>5, <1>6, <1>7, <1>8, <1>9, <1>10 DEF IrNext

\* A whole program can be finalized, and its instructions rebuild it.
LEMMA WholeIsWhole == WholeInv => ProgramIsWhole
<1> SUFFICES ASSUME WholeInv, Unlocked
             PROVE  finalize(builder) = "ok" /\ builder = from_program(builder.instructions)
  BY DEF ProgramIsWhole
<1>1. RoundInv(builder) /\ Whole(builder)
  BY DEF WholeInv, Unlocked
<1>2. from_program(builder.instructions) = Repaired(builder)
  BY <1>1 DEF RoundInv, Whole
<1>3. Repaired(builder) = builder
  <2>1. builder \in Builder
    BY <1>1 DEF RoundInv, SafeInv, Inv
  <2>2. builder.result = "ok"
    BY <1>1 DEF Whole
  <2> QED
    BY <2>1, <2>2 DEF Repaired, Builder
<1>4. Len(builder.active_scopes) = Cardinality(builder.active_scopes_set)
  BY <1>1, SameSize DEF RoundInv, SafeInv
<1>5. finalize(builder) = "ok"
  BY <1>1, <1>4 DEF finalize, Whole
<1> QED
  BY <1>2, <1>3, <1>5

\* Whatever clients request and however the choices of generators and mutators
\* fall, every request finds a program without an open block, which is the one
\* its instructions rebuild.
THEOREM ProgramStaysWhole == IrSpec => []ProgramIsWhole
<1>1. IrInit => WholeInv
  BY InitWhole
<1>2. WholeInv /\ [IrNext]_vars => WholeInv'
  BY NextWhole
<1>3. WholeInv => ProgramIsWhole
  BY WholeIsWhole
<1> QED
  BY <1>1, <1>2, <1>3, PTL DEF IrSpec


-----------------------------------------------------------------------------
\* What has been sent of the program.

Sequence(l) == \E S : l \in Seq(S)

\* As many messages are sent as sending instructions are compiled, and of a
\* call that runs as many actions are there as it has come to.
Once ==
  LET sending == Sending(builder.instructions)
      last == compiler.last_compiled_instruction
  IN  /\ Sequence(sent) /\ Sequence(compiler.actions)
      /\ last \in 0 .. Len(builder.instructions)
      /\ Len(sent) = Rank(sending, last)
      /\ ~ call.running => Len(compiler.actions) = Len(sent)
      /\ call.running =>
           /\ call.actions_before = Len(sent)
           /\ call.next \in last + 1 .. Len(builder.instructions) + 1
           /\ Len(compiler.actions) = Rank(sending, call.next - 1)

\* Nothing is compiled before the clients run, and nothing after a panic.
OnceInv ==
  /\ WholeInv
  /\ Sequence(errors)
  /\ call.running => ~ service.poisoned
  /\ ~ workload.ready => /\ ~ call.running /\ sent = << >>
                         /\ compiler.actions = << >>
                         /\ compiler.last_compiled_instruction = 0
  /\ Healthy => Once

\* Before anything is compiled nothing is sent.
LEMMA NothingSent ==
  ASSUME RoundInv(builder), sent = << >>, compiler.actions = << >>,
         compiler.last_compiled_instruction = 0, ~ call.running
  PROVE  Once
<1>1. Len(builder.instructions) \in Nat
  BY BuilderLengths DEF RoundInv
<1>2. << >> \in Seq({}) /\ Len(<< >>) = 0
  OBVIOUS
<1>3. Sequence(sent) /\ Sequence(compiler.actions)
  BY <1>2 DEF Sequence
<1>4. Rank(Sending(builder.instructions), 0) = 0
  BY RankStep
<1> QED
  BY <1>1, <1>2, <1>3, <1>4 DEF Once

\* The invariant holds at first.
LEMMA InitOnce == IrInit => OnceInv
<1> SUFFICES ASSUME IrInit PROVE OnceInv
  OBVIOUS
<1>1. WholeInv
  BY InitWhole
<1>2. compiler = new_compiler /\ call = Idle /\ sent = << >> /\ errors = << >>
  BY DEF IrInit, CompilerInit
<1>3. ~ call.running /\ compiler.actions = << >> /\ compiler.last_compiled_instruction = 0
  BY <1>2 DEF Idle, new_compiler
<1>4. << >> \in Seq({})
  OBVIOUS
<1>5. Sequence(errors)
  BY <1>2, <1>4 DEF Sequence
<1>6. Once
  BY <1>1, <1>2, <1>3, NothingSent DEF WholeInv
<1> QED
  BY <1>1, <1>2, <1>3, <1>5, <1>6 DEF OnceInv

\* A program that grows at its end, or changes where it sends nothing.
SendsAlike(p, q) ==
  /\ Len(p) <= Len(q)
  /\ \A k \in 1 .. Len(p) : q[k].operation.name \in Sends <=> p[k].operation.name \in Sends

\* Such programs have as many sending instructions up to any position of the shorter.
LEMMA AlikeRanks ==
  ASSUME NEW p, NEW q, Len(p) \in Nat, Len(q) \in Nat, SendsAlike(p, q),
         NEW d \in 0 .. Len(p)
  PROVE  Rank(Sending(q), d) = Rank(Sending(p), d)
<1> DEFINE P == Len(p)
           Q == Len(q)
<1>1. P \in Nat /\ Q \in Nat /\ P <= Q /\ d \in Nat /\ d <= P
  BY DEF SendsAlike
<1>2. \A k \in 1 .. P : q[k].operation.name \in Sends <=> p[k].operation.name \in Sends
  BY DEF SendsAlike
<1>3. /\ Sending(p) = {k \in 1 .. P : p[k].operation.name \in Sends}
      /\ Sending(q) = {k \in 1 .. Q : q[k].operation.name \in Sends}
  BY DEF Sending
<1> HIDE DEF P, Q
<1>4. \A k \in 1 .. d : k \in Sending(q) <=> k \in Sending(p)
  BY <1>1, <1>2, <1>3
<1> QED
  BY <1>1, <1>4, RankOf

\* What has been sent of the one has been sent of the other.
LEMMA OnceOn ==
  ASSUME Once, RoundInv(builder), RoundInv(builder'),
         SendsAlike(builder.instructions, builder'.instructions),
         compiler' = compiler, call' = call, sent' = sent
  PROVE  Once'
<1> DEFINE p == builder.instructions
           q == builder'.instructions
           last == compiler.last_compiled_instruction
<1>1. Len(p) \in Nat /\ Len(q) \in Nat
  BY BuilderLengths DEF RoundInv
<1>2. Len(p) <= Len(q)
  BY DEF SendsAlike
<1>3. last \in 0 .. Len(p)
  BY DEF Once
<1>4. Rank(Sending(q), last) = Rank(Sending(p), last)
  BY <1>1, <1>3, AlikeRanks
<1>5. ASSUME call.running
      PROVE  /\ call.next \in last + 1 .. Len(q) + 1
             /\ Rank(Sending(q), call.next - 1) = Rank(Sending(p), call.next - 1)
  <2>1. call.next \in last + 1 .. Len(p) + 1
    BY <1>5 DEF Once
  <2>2. call.next - 1 \in 0 .. Len(p)
    BY <1>1, <1>3, <2>1
  <2> QED
    BY <1>1, <1>2, <1>3, <2>1, <2>2, AlikeRanks
<1> HIDE DEF p, q, last
<1>6. /\ Sequence(sent) /\ Sequence(compiler.actions)
      /\ Len(sent) = Rank(Sending(p), last)
      /\ ~ call.running => Len(compiler.actions) = Len(sent)
      /\ call.running =>
           /\ call.actions_before = Len(sent)
           /\ Len(compiler.actions) = Rank(Sending(p), call.next - 1)
  BY DEF Once, p, last
<1>7. last \in 0 .. Len(q)
  BY <1>1, <1>2, <1>3
<1> DEFINE sending == Sending(q)
           actions == compiler.actions
<1>8. /\ Sequence(sent') /\ Sequence(actions)
      /\ last \in 0 .. Len(q)
      /\ Len(sent') = Rank(sending, last)
      /\ ~ call.running => Len(actions) = Len(sent')
      /\ call.running =>
           /\ call.actions_before = Len(sent')
           /\ call.next \in last + 1 .. Len(q) + 1
           /\ Len(actions) = Rank(sending, call.next - 1)
  BY <1>4, <1>5, <1>6, <1>7
<1> QED
  BY <1>8 DEF Once, q, last


\* Steps that touch neither the compiler nor what is sent.
LEMMA ElsewhereOnce ==
  ASSUME OnceInv, WholeInv', SendsAlike(builder.instructions, builder'.instructions),
         compiler' = compiler, call' = call, sent' = sent, errors' = errors,
         call.running => ~ service'.poisoned,
         workload'.ready = workload.ready
  PROVE  OnceInv'
<1>1. Healthy' = Healthy
  BY DEF Healthy
<1>2. ASSUME Healthy PROVE Once'
  BY <1>2, OnceOn DEF OnceInv, WholeInv
<1> QED
  BY <1>1, <1>2 DEF OnceInv, Sequence

\* A program sends like itself.
LEMMA SameSends ==
  ASSUME WholeInv, builder' = builder
  PROVE  SendsAlike(builder.instructions, builder'.instructions)
<1>1. Len(builder.instructions) \in Nat
  BY BuilderLengths DEF WholeInv, RoundInv
<1> QED
  BY <1>1 DEF SendsAlike

\* A failed init sends nothing.
LEMMA InitFailsOnce ==
  ASSUME OnceInv, WholeInv', NEW k \in 0 .. num_connections - 1, InitFails(k)
  PROVE  OnceInv'
<1>1. /\ service' = established(k) /\ workload' = workload /\ ~ workload.ready
      /\ builder' = builder /\ compiler' = compiler /\ call' = call
      /\ sent' = sent /\ errors' = errors
  BY DEF InitFails, compiler_vars
<1>2. ~ call.running
  BY <1>1 DEF OnceInv
<1> QED
  BY <1>1, <1>2, ElsewhereOnce, SameSends DEF OnceInv

\* An init that succeeds before the clients run finds nothing sent.
LEMMA InitSucceedsOnce ==
  ASSUME OnceInv, WholeInv', NEW answered \in BOOLEAN, InitSucceeds(answered)
  PROVE  OnceInv'
<1>1. /\ compiler' = new_compiler /\ call' = call /\ sent' = sent /\ errors' = errors
      /\ ~ workload.ready
  BY DEF InitSucceeds
<1>2. ~ call'.running /\ sent' = << >>
  BY <1>1 DEF OnceInv
<1>3. compiler'.actions = << >> /\ compiler'.last_compiled_instruction = 0
  BY <1>1 DEF new_compiler
<1>4. RoundInv(builder')
  BY DEF WholeInv
<1>5. (RoundInv(builder) /\ sent = << >> /\ compiler.actions = << >>
         /\ compiler.last_compiled_instruction = 0 /\ ~ call.running => Once)'
  BY NothingSent, PTL
<1>6. Once'
  BY <1>2, <1>3, <1>4, <1>5
<1> QED
  BY <1>1, <1>2, <1>3, <1>6 DEF OnceInv, Sequence

\* A generator appends behind what has been compiled.
LEMMA GeneratorOnce ==
  ASSUME OnceInv, WholeInv', NEW name \in GeneratorNames, apply_generator(name)
  PROVE  OnceInv'
<1>1. PICK s \in generate(name, builder, service.recent_blocks) :
        builder' = append_all(builder, s)
  BY DEF apply_generator
<1>2. /\ workload' = [workload EXCEPT !.requests = @ + 1]
      /\ compiler' = compiler /\ call' = call /\ sent' = sent /\ errors' = errors
      /\ ~ call.running
  BY DEF apply_generator, MayMutate, Unlocked, Enterable
<1>3. workload'.ready = workload.ready
  BY <1>2 DEF OnceInv, WholeInv, PlacedInv
<1>4. RoundInv(builder) /\ HeaderKept
  BY DEF OnceInv, WholeInv
<1>5. s \in Seq(InstructionType)
  <2> DEFINE recent == service.recent_blocks
  <2>1. recent = << >> \/ Last(recent).header_var \in Nat
    BY <1>4 DEF HeaderKept
  <2>2. s \in generate(name, builder, recent)
    BY <1>1
  <2> HIDE DEF recent
  <2>3. Balanced(s)
    BY <1>4, <2>1, <2>2, GeneratorsCloseWhatTheyOpen
  <2> QED
    BY <2>3, CodeIsCallers DEF Balanced, Nests
<1>6. Extends(builder, builder')
  BY <1>1, <1>4, <1>5, AppendAllGrows DEF Grown
<1>7. SendsAlike(builder.instructions, builder'.instructions)
  BY <1>6 DEF Extends, SendsAlike
<1> QED
  BY <1>2, <1>3, <1>7, ElsewhereOnce

\* A mutator changes nothing that sends.
LEMMA MutatorOnce ==
  ASSUME OnceInv, WholeInv', NEW name \in MutatorNames, apply_mutator(name)
  PROVE  OnceInv'
<1>1. PICK q \in mutate(name, builder.instructions) :
        from_program(q).result = "ok" /\ builder' = from_program(q)
  BY DEF apply_mutator
<1>2. /\ service' = service /\ ~ service.poisoned
      /\ workload' = [workload EXCEPT !.requests = @ + 1, !.rewritten = TRUE]
      /\ compiler' = compiler /\ call' = call /\ sent' = sent /\ errors' = errors
  BY DEF apply_mutator, MayMutate, Unlocked
<1>3. workload'.ready = workload.ready
  BY <1>2 DEF OnceInv, WholeInv, PlacedInv
<1> DEFINE p == builder.instructions
<1>4. p \in Code
  BY <1>2 DEF OnceInv, WholeInv, Whole
<1>5. SameShape(p, q)
  BY <1>1, <1>4, MutatorsKeepShape
<1>6. builder'.instructions = q
  BY <1>1, <1>5, CodeIsCallers, FromProgramIs DEF SameShape
<1>7. Len(p) \in Nat
  BY <1>4 DEF Code
<1>8. SendsAlike(p, q)
  BY <1>5, <1>7 DEF SameShape, SendsAlike
<1> QED
  BY <1>2, <1>3, <1>6, <1>8, ElsewhereOnce

\* No generator writes a Probe.
LEMMA NoProbes ==
  ASSUME NEW op \in GeneratedOperation
  PROVE  op.name # "Probe"
<1>1. \A n, a : Op(n, a).name = n
  BY DEF Op
<1>2. CASE op \in {Op(n, << >>) : n \in PlainName}
  BY <1>1, <1>2 DEF PlainName
<1>3. CASE op \in {Op("LoadConnection", <<n>>) : n \in 0 .. num_connections - 1}
  <2>1. PICK n \in 0 .. num_connections - 1 : op = Op("LoadConnection", <<n>>)
    BY <1>3
  <2> QED
    BY <1>1, <2>1
<1>4. CASE op \in {Op("LoadTxo", <<txo>>) : txo \in Txos}
  <2>1. PICK txo \in Txos : op = Op("LoadTxo", <<txo>>)
    BY <1>4
  <2> QED
    BY <1>1, <2>1
<1>5. CASE op \in {Op("LoadHeader", <<header>>) : header \in Headers}
  <2>1. PICK header \in Headers : op = Op("LoadHeader", <<header>>)
    BY <1>5
  <2> QED
    BY <1>1, <2>1
<1>6. CASE op \in {Op("LoadAddr", <<version>>) : version \in {"V1", "V2"}}
  BY <1>1, <1>6
<1>7. CASE op \in {Op(n, <<TRUE>>) : n \in {"LoadTaprootAnnex", "BuildTaprootTree"}}
  BY <1>1, <1>7
<1> QED
  BY <1>2, <1>3, <1>4, <1>5, <1>6, <1>7 DEF GeneratedOperation, PlainName

\* A call that compiles adds an action for a sending instruction and no other.
LEMMA CompileOnce ==
  ASSUME OnceInv, WholeInv', Compile
  PROVE  OnceInv'
<1>1. service' = service /\ workload' = workload
  BY DEF Compile
<1>2. RoundInv(builder)
  BY DEF OnceInv, WholeInv
<1>3. CASE Unlocked /\ workload.ready /\ service.initialized /\ CompileFrom
  <2>1. /\ builder' = builder /\ compiler' = compiler /\ sent' = sent /\ errors' = errors
        /\ call' = [running |-> TRUE, next |-> compiler.last_compiled_instruction + 1,
                    actions_before |-> Len(compiler.actions)]
        /\ ~ call.running
    BY <1>3 DEF CompileFrom, Enterable
  <2>2. /\ call'.running /\ call'.next = compiler.last_compiled_instruction + 1
        /\ call'.actions_before = Len(compiler.actions)
    BY <2>1
  <2>3. ASSUME Healthy PROVE Once'
    <3> DEFINE last == compiler.last_compiled_instruction
               p == builder.instructions
    <3>1. Once
      BY <2>3 DEF OnceInv
    <3>2. /\ Sequence(sent) /\ Sequence(compiler.actions)
          /\ last \in 0 .. Len(p)
          /\ Len(sent) = Rank(Sending(p), last)
          /\ Len(compiler.actions) = Len(sent)
      BY <2>1, <3>1 DEF Once
    <3>3. Len(p) \in Nat
      BY <1>2, BuilderLengths DEF RoundInv
    <3>4. call'.next \in last + 1 .. Len(p) + 1 /\ call'.next - 1 = last
      BY <2>2, <3>2, <3>3
    <3> QED
      BY <2>1, <2>2, <3>2, <3>4 DEF Once
  <2>4. Healthy' = Healthy /\ ~ service.poisoned
    BY <1>3, <2>1 DEF Healthy, Unlocked
  <2> QED
    BY <1>1, <1>3, <2>1, <2>2, <2>3, <2>4 DEF OnceInv
<1>4. ASSUME NEW now \in Second, CompileInstruction(now) PROVE OnceInv'
  <2> DEFINE p == builder.instructions
             i == p[call.next]
             last == compiler.last_compiled_instruction
             l == compiler.actions
             more == emitted(compiler, i)
  <2>1. /\ call.running /\ call.next <= Len(p)
        /\ builder' = builder /\ sent' = sent /\ errors' = errors
        /\ compiler' = compile_instruction(compiler, i, now)
        /\ call' = [call EXCEPT !.next = @ + 1]
    BY <1>4 DEF CompileInstruction
  <2>2. /\ call'.running /\ call'.next = call.next + 1
        /\ call'.actions_before = call.actions_before
    BY <2>1 DEF OnceInv, WholeInv, Idle
  <2>3. /\ compiler'.actions = l \o more
        /\ compiler'.last_compiled_instruction = last
    BY <2>1 DEF compile_instruction, OnceInv, WholeInv, Lookups, new_compiler
  <2>4. Healthy' = Healthy /\ ~ service.poisoned /\ workload.ready
    BY <2>1 DEF Healthy, OnceInv
  <2>5. ASSUME Healthy PROVE Once'
    <3>1. Once /\ Len(p) \in Nat
      BY <1>2, <2>5, BuilderLengths DEF OnceInv, RoundInv
    <3>2. /\ Sequence(sent) /\ Sequence(l)
          /\ last \in 0 .. Len(p)
          /\ Len(sent) = Rank(Sending(p), last)
          /\ call.actions_before = Len(sent)
          /\ call.next \in last + 1 .. Len(p) + 1
          /\ Len(l) = Rank(Sending(p), call.next - 1)
      BY <2>1, <3>1 DEF Once
    <3>3. call.next \in 1 .. Len(p) /\ call.next - 1 \in Nat
      BY <2>1, <3>1, <3>2
    <3>4. i.operation.name # "Probe"
      <4>1. p \in Seq(GeneratedInstruction)
        BY <2>4 DEF OnceInv, WholeInv, Whole, Code
      <4>2. i \in GeneratedInstruction
        BY <3>3, <4>1
      <4> QED
        BY <4>2, NoProbes DEF GeneratedInstruction
    <3>5. call.next \in Sending(p) <=> i.operation.name \in Sends
      BY <3>3 DEF Sending
    <3>6. (\E S : more \in Seq(S))
          /\ Len(more) = IF i.operation.name \in Sends THEN 1 ELSE 0
      <4> DEFINE x == [conn |-> get_input(compiler, i, 1), message |-> i.operation.name,
                       payload |-> contents(compiler, i, 2)]
      <4>1. more = IF i.operation.name \in Sends THEN <<x>> ELSE << >>
        BY <3>4, EmittedTable
      <4> HIDE DEF x, more
      <4>2. <<x>> \in Seq({x}) /\ Len(<<x>>) = 1 /\ << >> \in Seq({x}) /\ Len(<< >>) = 0
        OBVIOUS
      <4> DEFINE sends == i.operation.name \in Sends
      <4>3. more = IF sends THEN <<x>> ELSE << >>
        BY <4>1
      <4> HIDE DEF sends
      <4>4. more \in Seq({x}) /\ Len(more) = IF sends THEN 1 ELSE 0
        <5>1. CASE sends
          BY <4>2, <4>3, <5>1
        <5>2. CASE ~ sends
          BY <4>2, <4>3, <5>2
        <5> QED
          BY <5>1, <5>2
      <4> QED
        BY <4>4 DEF sends
    <3> DEFINE sending == Sending(p)
               n == call.next
    <3>7. Rank(sending, (n - 1) + 1) = Rank(sending, n - 1) + (IF (n - 1) + 1 \in sending THEN 1 ELSE 0)
      BY <3>3, RankStep
    <3>8. (n - 1) + 1 = n /\ (n + 1) - 1 = n
      BY <3>3
    <3> HIDE DEF more, l, sending, n
    <3>9. PICK S : l \in Seq(S)
      BY <3>2 DEF Sequence
    <3>10. PICK T : more \in Seq(T)
      BY <3>6
    <3> DEFINE U == S \cup T
    <3>11. l \in Seq(U) /\ more \in Seq(U)
      BY <3>9, <3>10
    <3> HIDE DEF U
    <3>12. l \o more \in Seq(U) /\ Len(l \o more) = Len(l) + Len(more)
      BY <3>11
    <3>13. Sequence(l \o more)
      BY <3>12 DEF Sequence
    <3>14. Len(l \o more) = Rank(sending, n)
      BY <3>2, <3>5, <3>6, <3>7, <3>8, <3>12 DEF sending, n
    <3>15. call'.next \in last + 1 .. Len(p) + 1 /\ call'.next - 1 = n
      BY <2>2, <3>1, <3>2, <3>3, <3>8 DEF n
    <3> HIDE DEF p, last
    <3>16. /\ Sequence(sent') /\ Sequence(compiler'.actions)
           /\ compiler'.last_compiled_instruction \in 0 .. Len(p)
           /\ Len(sent') = Rank(Sending(p), last)
           /\ call'.running /\ call'.actions_before = Len(sent')
           /\ call'.next \in last + 1 .. Len(p) + 1
           /\ Len(compiler'.actions) = Rank(Sending(p), call'.next - 1)
      BY <2>1, <2>2, <2>3, <3>2, <3>13, <3>14, <3>15 DEF sending
    <3> QED
      BY <2>1, <2>3, <3>16 DEF Once, p, last
  <2> QED
    BY <1>1, <2>1, <2>2, <2>4, <2>5 DEF OnceInv
<1>5. CASE CompileError
  <2> DEFINE e == outcome(compiler, builder.instructions[call.next])
  <2>1. compiler' = compiler /\ call' = Idle /\ sent' = sent /\ errors' = Append(errors, e)
        /\ call.running
    BY <1>5 DEF CompileError
  <2> HIDE DEF e
  <2>2. PICK S : errors \in Seq(S)
    BY DEF OnceInv, Sequence
  <2> DEFINE U == S \cup {e}
  <2>3. errors \in Seq(U) /\ e \in U
    BY <2>2
  <2> HIDE DEF U
  <2>4. errors' \in Seq(U) /\ errors' # << >>
    BY <2>1, <2>3
  <2>5. ~ Healthy' /\ ~ call'.running /\ workload.ready
    BY <2>1, <2>4 DEF Healthy, Idle, OnceInv
  <2> QED
    BY <1>1, <2>4, <2>5 DEF OnceInv, Sequence
<1> QED
  BY <1>3, <1>4, <1>5 DEF Compile


\* When it returns, the actions since its start go out.
LEMMA SendOnce ==
  ASSUME OnceInv, WholeInv', Send
  PROVE  OnceInv'
<1> DEFINE p == builder.instructions
           last == compiler.last_compiled_instruction
           l == compiler.actions
           a == call.actions_before
           rest == SubSeq(l, a + 1, Len(l))
<1>1. /\ call.running /\ call.next > Len(p)
      /\ builder' = builder /\ call' = Idle /\ errors' = errors /\ workload' = workload
      /\ compiler' = [compiler EXCEPT !.last_compiled_instruction = Len(p)]
      /\ sent' = sent \o rest
  BY DEF Send, CompileReturn
<1>2. /\ compiler'.actions = l /\ compiler'.last_compiled_instruction = Len(p)
      /\ ~ call'.running
  BY <1>1 DEF OnceInv, WholeInv, Lookups, new_compiler, Idle
<1>3. workload.ready /\ Healthy' = Healthy
  BY <1>1 DEF OnceInv, Healthy
<1>4. ASSUME Healthy PROVE Once'
  <2>1. Once /\ Len(p) \in Nat
    BY <1>4, BuilderLengths DEF OnceInv, WholeInv, RoundInv
  <2>2. /\ Sequence(sent) /\ Sequence(l)
        /\ last \in 0 .. Len(p)
        /\ Len(sent) = Rank(Sending(p), last)
        /\ a = Len(sent)
        /\ call.next \in last + 1 .. Len(p) + 1
        /\ Len(l) = Rank(Sending(p), call.next - 1)
    BY <1>1, <2>1 DEF Once
  <2>3. call.next - 1 = Len(p)
    <3> DEFINE m == Len(p)
               k == call.next
    <3>1. k > m /\ m \in Nat /\ last \in 0 .. m /\ k \in last + 1 .. m + 1
      BY <1>1, <2>1, <2>2
    <3> HIDE DEF m, k, last
    <3>2. k - 1 = m
      BY <3>1
    <3> QED
      BY <3>2 DEF m, k
  <2> DEFINE n == Len(p)
             sending == Sending(p)
  <2>4. /\ n \in Nat /\ last \in Nat /\ last <= n
        /\ a = Rank(sending, last) /\ Len(l) = Rank(sending, n)
    BY <2>1, <2>2, <2>3
  <2> HIDE DEF n, sending, last, a
  <2>5. a \in Nat /\ a <= Len(l)
    <3>1. Rank(sending, last) <= Rank(sending, n) /\ Rank(sending, last) \in Nat
      BY <2>4, RankGrows, RankStep
    <3> QED
      BY <2>4, <3>1
  <2>6. PICK S : l \in Seq(S)
    BY <2>2 DEF Sequence
  <2>7. PICK T : sent \in Seq(T)
    BY <2>2 DEF Sequence
  <2> HIDE DEF l
  <2>8. Len(l) \in Nat
    BY <2>6
  <2>9. rest \in Seq(S) /\ Len(rest) = Len(l) - a
    <3>1. /\ a + 1 \in 1 .. Len(l) + 1 /\ Len(l) \in a .. Len(l)
      BY <2>5, <2>8
    <3>2. /\ rest \in Seq(S)
          /\ Len(rest) = IF a + 1 <= Len(l) THEN Len(l) - (a + 1) + 1 ELSE 0
      BY <2>5, <2>6, <2>8, <3>1, SubSeqProperties
    <3> QED
      BY <2>5, <2>8, <3>2
  <2> HIDE DEF rest
  <2> DEFINE U == S \cup T
  <2>10. sent \in Seq(U) /\ rest \in Seq(U)
    BY <2>7, <2>9
  <2> HIDE DEF U
  <2>11. sent' \in Seq(U) /\ Len(sent') = Len(sent) + Len(rest)
    BY <1>1, <2>10
  <2>12. Len(sent') = Len(l)
    BY <2>2, <2>5, <2>8, <2>9, <2>11
  <2>13. Sequence(sent')
    BY <2>11 DEF Sequence
  <2>14. /\ Len(sent') = Rank(Sending(p), Len(p)) /\ Len(p) \in 0 .. Len(p)
    BY <2>1, <2>4, <2>12 DEF n, sending
  <2> HIDE DEF p
  <2> QED
    BY <1>1, <1>2, <2>2, <2>12, <2>13, <2>14 DEF Once, p
<1> QED
  BY <1>1, <1>2, <1>3, <1>4 DEF OnceInv

\* Asking for the tip sends nothing,
LEMMA SyncOnce ==
  ASSUME OnceInv, WholeInv', Sync
  PROVE  OnceInv'
<1>0. PICK S \in SUBSET {k \in DOMAIN service.connections : ~ service.connections[k].alive} :
        \E recent \in {synced, service.recent_blocks} :
          service' = [service EXCEPT !.syncing = FALSE,
                                     !.connections = pinged(S),
                                     !.recent_blocks = recent]
  BY DEF Sync
<1>1. service'.poisoned = service.poisoned
  BY <1>0 DEF OnceInv, WholeInv, PlacedInv, Fields
<1>2. /\ builder' = builder /\ compiler' = compiler /\ call' = call
      /\ sent' = sent /\ errors' = errors /\ workload' = workload
  BY DEF Sync, compiler_vars
<1> QED
  BY <1>1, <1>2, ElsewhereOnce, SameSends DEF OnceInv

\* nor does a dropped connection.
LEMMA DropOnce ==
  ASSUME OnceInv, WholeInv', NEW k \in DOMAIN service.connections, Drop(k)
  PROVE  OnceInv'
<1>1. /\ service' = [service EXCEPT !.connections[k].alive = FALSE]
      /\ workload' = [workload EXCEPT !.faults = @ + 1]
      /\ builder' = builder /\ compiler' = compiler /\ call' = call
      /\ sent' = sent /\ errors' = errors
  BY DEF Drop, compiler_vars
<1>2. service'.poisoned = service.poisoned /\ workload'.ready = workload.ready
  BY <1>1 DEF OnceInv, WholeInv, PlacedInv, Fields
<1> QED
  BY <1>1, <1>2, ElsewhereOnce, SameSends DEF OnceInv

\* Every step keeps the count.
LEMMA NextOnce == OnceInv /\ [IrNext]_vars => OnceInv'
<1> SUFFICES ASSUME OnceInv, [IrNext]_vars PROVE OnceInv'
  OBVIOUS
<1>0. WholeInv'
  BY NextWhole DEF OnceInv
<1>1. ASSUME NEW k \in 0 .. num_connections - 1, InitFails(k) PROVE OnceInv'
  BY <1>0, <1>1, InitFailsOnce
<1>2. ASSUME NEW answered \in BOOLEAN, InitSucceeds(answered) PROVE OnceInv'
  BY <1>0, <1>2, InitSucceedsOnce
<1>3. ASSUME NEW name \in Requests \cap GeneratorNames, apply_generator(name)
      PROVE OnceInv'
  BY <1>0, <1>3, GeneratorOnce
<1>4. ASSUME NEW name \in Requests \cap MutatorNames, apply_mutator(name)
      PROVE OnceInv'
  BY <1>0, <1>4, MutatorOnce
<1>5. ASSUME Compile PROVE OnceInv'
  BY <1>0, <1>5, CompileOnce
<1>6. ASSUME Send PROVE OnceInv'
  BY <1>0, <1>6, SendOnce
<1>7. ASSUME Sync PROVE OnceInv'
  BY <1>0, <1>7, SyncOnce
<1>8. ASSUME NEW c \in DOMAIN service.connections, Drop(c) PROVE OnceInv'
  BY <1>0, <1>8, DropOnce
<1>9. ASSUME NEW block \in node.sent, Accept(block) PROVE OnceInv'
  <2>1. /\ service' = service /\ builder' = builder /\ compiler' = compiler /\ call' = call
        /\ sent' = sent /\ errors' = errors /\ workload' = workload
    BY <1>9 DEF Accept, compiler_vars
  <2> QED
    BY <1>0, <2>1, ElsewhereOnce, SameSends DEF OnceInv
<1>10. ASSUME UNCHANGED vars PROVE OnceInv'
  <2>1. /\ service' = service /\ builder' = builder /\ compiler' = compiler /\ call' = call
        /\ sent' = sent /\ errors' = errors /\ workload' = workload
    BY <1>10 DEF vars, compiler_vars
  <2> QED
    BY <1>0, <2>1, ElsewhereOnce, SameSends DEF OnceInv
<1> QED
  BY <1>1, <1>2, <1>3, <1>4, <1>5, <1>6, <1>7, <1>8, <1>9, <1>10 DEF IrNext

\* Whatever is appended or rewritten between two compile requests, as many
\* messages have been sent as the compiled part of the program has sending
\* instructions: none goes out twice and none is skipped.
THEOREM MessagesGoOutOnce == IrSpec => []SentOncePerInstruction
<1>1. IrInit => OnceInv
  BY InitOnce
<1>2. OnceInv /\ [IrNext]_vars => OnceInv'
  BY NextOnce
<1>3. OnceInv => SentOncePerInstruction
  BY DEF OnceInv, Once, SentOncePerInstruction
<1> QED
  BY <1>1, <1>2, <1>3, PTL DEF IrSpec



-----------------------------------------------------------------------------
\* Programs that the builder cannot tell apart: a changed program is accepted
\* if the original is and what was changed passes the checks where it stands.

\* The builder does the same for both operations.
Like(op, other) ==
  /\ get_input_variables(other) = get_input_variables(op)
  /\ get_output_variables(other) = get_output_variables(op)
  /\ get_inner_output_variables(other) = get_inner_output_variables(op)
  /\ entered_context_after_execution(other) = entered_context_after_execution(op)
  /\ check_payload(other) = check_payload(op)
  /\ is_block_begin(other) <=> is_block_begin(op)
  /\ is_block_end(other) <=> is_block_end(op)
  /\ other.name = "Nop" <=> op.name = "Nop"
  /\ \A end : is_matching_block_begin(end, other) <=> is_matching_block_begin(end, op)
  /\ \A begin : is_matching_block_begin(other, begin) <=> is_matching_block_begin(op, begin)

\* Builders with the same scopes and variables.
Twins(b, c) ==
  /\ c.active_scopes = b.active_scopes /\ c.active_scopes_set = b.active_scopes_set
  /\ c.scope_counter = b.scope_counter /\ c.variables = b.variables
  /\ Len(c.instructions) = Len(b.instructions)
  /\ \A k \in 1 .. Len(b.instructions) :
       Like(b.instructions[k].operation, c.instructions[k].operation)

\* An operation is like itself.
LEMMA LikeItself == \A op : Like(op, op)
BY DEF Like

\* The checks look at scopes and variables only.
LEMMA TwinsValidate ==
  ASSUME NEW b, NEW c, Twins(b, c), NEW i, NEW j,
         j.inputs = i.inputs, Like(i.operation, j.operation)
  PROVE  Validate(c, j) = Validate(b, i)
<1>1. num_inputs(j.operation) = num_inputs(i.operation)
  BY DEF Like, num_inputs
<1>2. InputsInScope(c, j) <=> InputsInScope(b, i)
  BY DEF InputsInScope, is_variable_in_scope, is_scope_active, Twins
<1>3. check_input_types(c, j) <=> check_input_types(b, i)
  BY DEF check_input_types, Twins, Like
<1>4. check_payload(j.operation) = check_payload(i.operation)
  BY DEF Like
<1> QED
  BY <1>1, <1>2, <1>3, <1>4 DEF Validate

\* Twins close the same block.
LEMMA TwinsClose ==
  ASSUME NEW b, RoundInv(b), NEW c, Twins(b, c), NEW i, NEW j,
         Like(i.operation, j.operation), ClosesCurrentBlock(b, i)
  PROVE  ClosesCurrentBlock(c, j)
<1> DEFINE st == b.active_scopes
           begin == Last(st).begin
           p == b.instructions
           q == c.instructions
<1>1. begin # None /\ is_matching_block_begin(i.operation, p[begin].operation)
  BY DEF ClosesCurrentBlock, current_scope
<1>2. begin \in 1 .. Len(p)
  <2>1. StackInv(st, p, b.scope_counter) /\ st \in Seq(ScopeType) /\ Len(st) \in Nat /\ Len(st) >= 1
    BY HeightType DEF RoundInv, SafeInv, Inv
  <2>2. Last(st) = st[Len(st)]
    BY DEF Last
  <2>3. Len(st) # 1
    BY <1>1, <2>1, <2>2 DEF StackInv
  <2> DEFINE top == Len(st)
  <2>4. \A k \in 2 .. top : st[k].begin \in 1 .. Len(p)
    BY <2>1 DEF StackInv
  <2>5. top \in Nat /\ top >= 1 /\ top # 1
    BY <2>1, <2>3
  <2> HIDE DEF top
  <2>6. st[top].begin \in 1 .. Len(p)
    BY <2>4, <2>5
  <2> QED
    BY <2>2, <2>6 DEF top
<1>3. Last(c.active_scopes).begin = begin
  BY DEF Twins
<1> HIDE DEF begin
<1>4. is_matching_block_begin(j.operation, q[begin].operation)
  <2>1. Like(p[begin].operation, q[begin].operation)
    BY <1>2 DEF Twins
  <2>2. is_matching_block_begin(i.operation, q[begin].operation)
    BY <1>1, <2>1 DEF Like
  <2> QED
    BY <2>2 DEF Like
<1> QED
  BY <1>1, <1>3, <1>4 DEF ClosesCurrentBlock, current_scope

\* The fields of a builder that has accepted an instruction.
LEMMA AcceptedFields ==
  ASSUME NEW b, DOMAIN b = FieldNames, NEW i
  PROVE  LET op == i.operation
             a == accept(b, i)
         IN  /\ a.active_scopes = Above(b, op) /\ a.active_scopes_set = AboveSet(b, op)
             /\ a.scope_counter = CounterAfter(b, op) /\ a.variables = VariablesAfter(b, op)
             /\ a.instructions = Append(b.instructions, i) /\ a.result = "ok"
<1> DEFINE op == i.operation
           r == [active_scopes |-> Above(b, op), active_scopes_set |-> AboveSet(b, op),
                 scope_counter |-> CounterAfter(b, op), variables |-> VariablesAfter(b, op),
                 instructions |-> Append(b.instructions, i),
                 contexts |-> Append(b.contexts, Last(b.active_scopes).context),
                 result |-> "ok"]
<1>1. accept(b, i) = r
  BY AcceptIs
<1>2. /\ r.active_scopes = Above(b, op) /\ r.active_scopes_set = AboveSet(b, op)
      /\ r.scope_counter = CounterAfter(b, op) /\ r.variables = VariablesAfter(b, op)
      /\ r.instructions = Append(b.instructions, i) /\ r.result = "ok"
  OBVIOUS
<1> HIDE DEF r
<1> QED
  BY <1>1, <1>2

\* What is accepted by one of them is accepted by the other.
LEMMA TwinsAppend ==
  ASSUME NEW b, Ready(b), NEW c, RoundInv(c), Twins(b, c),
         NEW i \in InstructionType, NEW j \in InstructionType,
         Like(i.operation, j.operation), append(b, i).result = "ok",
         Validate(b, j) = "ok"
  PROVE  append(c, j).result = "ok" /\ Twins(append(b, i), append(c, j))
<1> DEFINE op == i.operation
           other == j.operation
<1>1. /\ append(b, i) = accept(b, i)
      /\ is_block_end(op) => ClosesCurrentBlock(b, i)
  BY AppendExtends DEF Ready
<1>2. Validate(c, j) = "ok"
  BY TwinsValidate, LikeItself
<1>3. is_block_end(other) => ClosesCurrentBlock(c, j)
  BY <1>1, TwinsClose DEF Like, Ready
<1>4. append(c, j) = accept(c, j)
  BY <1>2, <1>3 DEF append
<1>5. /\ DOMAIN b = FieldNames /\ DOMAIN c = FieldNames
      /\ b.instructions \in Seq(InstructionType) /\ c.instructions \in Seq(InstructionType)
  <2>1. b \in Builder /\ c \in Builder
    BY DEF Ready, RoundInv, SafeInv, Inv
  <2> QED
    BY <2>1 DEF Builder, FieldNames, InstructionType
<1> DEFINE r == accept(b, i)
           s == accept(c, j)
<1>6. /\ r.active_scopes = Above(b, op) /\ r.active_scopes_set = AboveSet(b, op)
      /\ r.scope_counter = CounterAfter(b, op) /\ r.variables = VariablesAfter(b, op)
      /\ r.instructions = Append(b.instructions, i)
  BY <1>5, AcceptedFields
<1>7. /\ s.active_scopes = Above(c, other) /\ s.active_scopes_set = AboveSet(c, other)
      /\ s.scope_counter = CounterAfter(c, other) /\ s.variables = VariablesAfter(c, other)
      /\ s.instructions = Append(c.instructions, j) /\ s.result = "ok"
  BY <1>5, AcceptedFields
<1> HIDE DEF r, s
<1>8. Below(c, other) = Below(b, op)
  BY DEF Below, Twins, Like
<1>9. Above(c, other) = Above(b, op)
  <2>1. /\ Len(c.instructions) = Len(b.instructions) /\ c.scope_counter = b.scope_counter
        /\ is_block_begin(other) <=> is_block_begin(op)
        /\ entered_context_after_execution(other) = entered_context_after_execution(op)
    BY DEF Twins, Like
  <2> HIDE DEF op, other
  <2> QED
    BY <1>8, <2>1 DEF Above
<1>10. AboveSet(c, other) = AboveSet(b, op) /\ CounterAfter(c, other) = CounterAfter(b, op)
  <2>1. /\ c.active_scopes = b.active_scopes /\ c.active_scopes_set = b.active_scopes_set
        /\ c.scope_counter = b.scope_counter
        /\ is_block_begin(other) <=> is_block_begin(op)
        /\ is_block_end(other) <=> is_block_end(op)
    BY DEF Twins, Like
  <2> HIDE DEF op, other
  <2>2. AboveSet(c, other) = AboveSet(b, op)
    BY <2>1 DEF AboveSet
  <2>3. CounterAfter(c, other) = CounterAfter(b, op)
    BY <2>1 DEF CounterAfter
  <2> QED
    BY <2>2, <2>3
<1>11. VariablesAfter(c, other) = VariablesAfter(b, op)
  <2>1. OuterId(c, other) = OuterId(b, op) /\ InnerId(c, other) = InnerId(b, op)
    BY <1>8 DEF OuterId, InnerId, Twins, Like
  <2> QED
    BY <2>1 DEF VariablesAfter, Twins, Like
<1>12. /\ Len(s.instructions) = Len(r.instructions)
       /\ \A k \in 1 .. Len(r.instructions) :
            Like(r.instructions[k].operation, s.instructions[k].operation)
  <2> DEFINE p == b.instructions
             q == c.instructions
             N == Len(p)
  <2>1. Len(q) = N /\ N \in Nat /\ \A k \in 1 .. N : Like(p[k].operation, q[k].operation)
    BY <1>5 DEF Twins
  <2>2. /\ Len(r.instructions) = N + 1 /\ r.instructions[N + 1] = i
        /\ \A k \in 1 .. N : r.instructions[k] = p[k]
    BY <1>5, <1>6
  <2>3. /\ Len(s.instructions) = N + 1 /\ s.instructions[N + 1] = j
        /\ \A k \in 1 .. N : s.instructions[k] = q[k]
    BY <1>5, <1>7, <2>1
  <2> HIDE DEF N, p, q
  <2>4. ASSUME NEW k \in 1 .. N + 1
        PROVE  Like(r.instructions[k].operation, s.instructions[k].operation)
    <3>1. CASE k = N + 1
      BY <2>2, <2>3, <3>1
    <3>2. CASE k \in 1 .. N
      BY <2>1, <2>2, <2>3, <3>2
    <3> QED
      BY <2>1, <3>1, <3>2
  <2> QED
    BY <2>2, <2>3, <2>4
<1>13. Twins(r, s)
  BY <1>6, <1>7, <1>9, <1>10, <1>11, <1>12 DEF Twins
<1> QED
  BY <1>1, <1>4, <1>7, <1>13 DEF r, s


\* The program q is p with instructions that the builder cannot tell from p's
\* but by what they read, and where it reads something else, it may.
Twin(p, q) ==
  /\ q \in Seq(InstructionType) /\ Len(q) = Len(p)
  /\ \A k \in 1 .. Len(p) :
       /\ Like(p[k].operation, q[k].operation)
       /\ Validate(Appended(new, p)[k - 1], q[k]) = "ok"

\* A program that is accepted is accepted from each of its builders to the next.
LEMMA AcceptedSteps ==
  ASSUME NEW p \in Seq(InstructionType), from_program(p).result = "ok"
  PROVE  /\ \A n \in 0 .. Len(p) : Ready(Appended(new, p)[n])
         /\ \A n \in 1 .. Len(p) :
              /\ Appended(new, p)[n] = append(Appended(new, p)[n - 1], p[n])
              /\ Validate(Appended(new, p)[n - 1], p[n]) = "ok"
         /\ from_program(p) = Appended(new, p)[Len(p)]
<1> DEFINE f == Appended(new, p)
           N == Len(p)
<1>1. N \in Nat /\ \A n \in 1 .. N : p[n] \in InstructionType
  OBVIOUS
<1>2. f[0] = new /\ \A n \in 1 .. N : f[n] = AppendNext(f[n - 1], p[n])
  BY <1>1, AppendedIs
<1>3. from_program(p) = f[N]
  BY AppendAllIs DEF from_program
<1>4. \A n \in 0 .. N : f[n].result = "ok"
  <2>1. ASSUME NEW n \in 0 .. N, f[n].result # "ok" PROVE FALSE
    <3>1. N \in n .. N
      BY <1>1
    <3>2. f[N] = f[n]
      BY <1>1, <2>1, <3>1, AppendedStops
    <3> QED
      BY <1>3, <2>1, <3>2
  <2> QED
    BY <2>1
<1>5. \A n \in 0 .. N : RoundInv(f[n])
  BY NewIsReady, AppendAllGrows DEF Ready, Grown
<1> HIDE DEF f, N
<1>6. \A n \in 0 .. N : Ready(f[n])
  BY <1>4, <1>5 DEF Ready
<1>7. ASSUME NEW n \in 1 .. N
      PROVE  f[n] = append(f[n - 1], p[n]) /\ Validate(f[n - 1], p[n]) = "ok"
  <2>1. n - 1 \in 0 .. N /\ n \in 0 .. N
    BY <1>1
  <2>2. f[n] = append(f[n - 1], p[n])
    BY <1>2, <1>4, <2>1 DEF AppendNext
  <2>3. RoundInv(f[n - 1]) /\ append(f[n - 1], p[n]).result = "ok"
    BY <1>4, <1>5, <2>1, <2>2
  <2> QED
    BY <1>1, <2>2, <2>3, AppendExtends
<1> QED
  BY <1>3, <1>6, <1>7 DEF f, N

\* A twin of a valid program is valid.
LEMMA TwinIsValid ==
  ASSUME NEW p \in Seq(InstructionType), is_statically_valid(p), NEW q, Twin(p, q)
  PROVE  is_statically_valid(q)
<1> DEFINE f == Appended(new, p)
           g == Appended(new, q)
           N == Len(p)
           T == {k \in 0 .. N : ~ (g[k].result = "ok" /\ Twins(f[k], g[k]))}
<1>1. from_program(p).result = "ok" /\ finalize(from_program(p)) = "ok"
  BY DEF is_statically_valid
<1>2. /\ q \in Seq(InstructionType) /\ Len(q) = N /\ N \in Nat
      /\ \A k \in 1 .. N : p[k] \in InstructionType /\ q[k] \in InstructionType
  BY DEF Twin
<1>3. /\ \A n \in 0 .. N : Ready(f[n])
      /\ \A n \in 1 .. N : f[n] = append(f[n - 1], p[n])
      /\ from_program(p) = f[N]
  BY <1>1, AcceptedSteps
<1>4. /\ g[0] = new /\ \A n \in 1 .. N : g[n] = AppendNext(g[n - 1], q[n])
      /\ f[0] = new
  BY <1>2, AppendedIs
<1>5. from_program(q) = g[N]
  BY <1>2, AppendAllIs DEF from_program
<1>6. \A n \in 0 .. N : RoundInv(g[n])
  BY <1>2, NewIsReady, AppendAllGrows DEF Ready, Grown
<1>7. \A k \in 1 .. N : Like(p[k].operation, q[k].operation) /\ Validate(f[k - 1], q[k]) = "ok"
  BY DEF Twin
<1> HIDE DEF f, g, N
<1>8. T = {}
  <2> SUFFICES ASSUME T # {} PROVE FALSE
    OBVIOUS
  <2>1. PICK k \in T : \A j \in T : k <= j
    <3>1. T \subseteq Nat
      BY <1>2
    <3> HIDE DEF T
    <3> QED
      BY <3>1, LeastOne
  <2>2. k \in 0 .. N /\ ~ (g[k].result = "ok" /\ Twins(f[k], g[k]))
    BY <2>1
  <2>3. k # 0
    <3>1. new.result = "ok" /\ Twins(new, new)
      BY NewIsReady, LikeItself DEF Twins, Ready
    <3> QED
      BY <1>4, <2>2, <3>1
  <2>4. k \in 1 .. N /\ k - 1 \in 0 .. N
    BY <1>2, <2>2, <2>3
  <2>5. g[k - 1].result = "ok" /\ Twins(f[k - 1], g[k - 1])
    <3>1. ~ (k <= k - 1)
      BY <2>4
    <3>2. k - 1 \notin T
      <4> HIDE DEF T
      <4> QED
        BY <2>1, <3>1
    <3> QED
      BY <2>4, <3>2
  <2>6. f[k] = append(f[k - 1], p[k]) /\ g[k] = append(g[k - 1], q[k])
    BY <1>3, <1>4, <2>4, <2>5 DEF AppendNext
  <2>7. Ready(f[k - 1]) /\ RoundInv(g[k - 1]) /\ Ready(f[k])
    BY <1>3, <1>6, <2>2, <2>4
  <2>8. append(f[k - 1], p[k]).result = "ok"
    BY <2>6, <2>7 DEF Ready
  <2>9. append(g[k - 1], q[k]).result = "ok" /\ Twins(append(f[k - 1], p[k]), append(g[k - 1], q[k]))
    BY <1>2, <1>7, <2>4, <2>5, <2>7, <2>8, TwinsAppend
  <2> QED
    BY <2>2, <2>6, <2>9
<1>9. g[N].result = "ok" /\ Twins(f[N], g[N])
  <2>1. N \in 0 .. N
    BY <1>2
  <2> QED
    BY <1>8, <2>1
<1>10. finalize(g[N]) = "ok"
  <2>1. finalize(f[N]) = "ok"
    BY <1>1, <1>3
  <2> QED
    BY <1>9, <2>1 DEF finalize, Twins
<1> QED
  BY <1>5, <1>9, <1>10 DEF is_statically_valid

\* The n-th input becomes v.
Rewired(i, n, v) == [i EXCEPT !.inputs[n] = v]

\* The checks on an instruction that reads another variable of the same type.
LEMMA OtherInputValidates ==
  ASSUME NEW b, RoundInv(b), NEW i \in InstructionType, Validate(b, i) = "ok",
         NEW n \in 1 .. Len(i.inputs),
         NEW v \in available(b, b.variables[i.inputs[n]].var)
  PROVE  /\ Rewired(i, n, v) \in InstructionType /\ Rewired(i, n, v).operation = i.operation
         /\ Validate(b, Rewired(i, n, v)) = "ok"
<1> DEFINE ins == [i.inputs EXCEPT ![n] = v]
           op == i.operation
           j == Rewired(i, n, v)
<1>1. i.inputs \in Seq(Nat) /\ Len(i.inputs) \in Nat
  BY DEF InstructionType
<1>2. /\ v \in 1 .. Len(b.variables) /\ is_variable_in_scope(b, v)
      /\ b.variables[v].var = b.variables[i.inputs[n]].var
  BY DEF available
<1>3. v \in Nat
  <2>1. Len(b.variables) \in Nat
    BY BuilderFields, VariableIds DEF RoundInv, SafeInv, Inv
  <2> QED
    BY <1>2, <2>1
<1>4. /\ ins \in Seq(Nat) /\ Len(ins) = Len(i.inputs)
      /\ \A k \in 1 .. Len(ins) : ins[k] = IF k = n THEN v ELSE i.inputs[k]
  BY <1>1, <1>3
<1>5. j = [i EXCEPT !.inputs = ins]
  BY DEF Rewired
<1> HIDE DEF ins, j
<1>6. j \in InstructionType /\ j.operation = op /\ j.inputs = ins
  BY <1>4, <1>5 DEF InstructionType
<1>7. /\ num_inputs(op) = Len(i.inputs) /\ InputsInScope(b, i)
      /\ check_input_types(b, i) /\ check_payload(op) = "ok"
  BY DEF Validate
<1>8. InputsInScope(b, j)
  BY <1>2, <1>4, <1>6, <1>7 DEF InputsInScope
<1>9. check_input_types(b, j)
  BY <1>2, <1>4, <1>6, <1>7 DEF check_input_types
<1>10. Validate(b, j) = "ok"
  BY <1>4, <1>6, <1>7, <1>8, <1>9 DEF Validate
<1> QED
  BY <1>6, <1>10 DEF j


\* The builder of the beginning of a program.
LEMMA BeginningBuilt ==
  ASSUME NEW p \in Seq(InstructionType), NEW k \in 1 .. Len(p)
  PROVE  from_program(SubSeq(p, 1, k - 1)) = Appended(new, p)[k - 1]
<1> DEFINE t == SubSeq(p, 1, k - 1)
           n == k - 1
<1>1. Len(p) \in Nat /\ k \in 1 .. Len(p)
  OBVIOUS
<1>2. /\ t \in Seq(InstructionType) /\ Len(t) = n /\ n \in Nat /\ n <= Len(p)
      /\ \A j \in 1 .. n : t[j] = p[j]
  BY <1>1, SubSeqProperties
<1> HIDE DEF t, n
<1>3. from_program(t) = Appended(new, t)[n]
  BY <1>2, AppendAllIs DEF from_program
<1>4. n \in 0 .. Len(t)
  BY <1>2
<1>5. Appended(new, t)[n] = Appended(new, p)[n]
  BY <1>1, <1>2, <1>4, AppendedBeginning
<1> QED
  BY <1>3, <1>5 DEF t, n

\* One instruction of a valid program is replaced.
LEMMA ReplacedTwin ==
  ASSUME NEW p \in Seq(InstructionType), from_program(p).result = "ok",
         NEW k \in 1 .. Len(p), NEW i \in InstructionType,
         Like(p[k].operation, i.operation),
         Validate(Appended(new, p)[k - 1], i) = "ok"
  PROVE  Twin(p, [p EXCEPT ![k] = i])
<1> DEFINE q == [p EXCEPT ![k] = i]
           f == Appended(new, p)
<1>1. q \in Seq(InstructionType) /\ Len(q) = Len(p)
      /\ \A j \in 1 .. Len(p) : q[j] = IF j = k THEN i ELSE p[j]
  OBVIOUS
<1>2. \A j \in 1 .. Len(p) : Validate(f[j - 1], p[j]) = "ok"
  BY AcceptedSteps
<1> HIDE DEF q, f
<1>3. ASSUME NEW j \in 1 .. Len(p)
      PROVE  Like(p[j].operation, q[j].operation) /\ Validate(f[j - 1], q[j]) = "ok"
  <2>1. CASE j = k
    BY <1>1, <2>1 DEF f
  <2>2. CASE j # k
    BY <1>1, <1>2, <2>2, LikeItself
  <2> QED
    BY <2>1, <2>2
<1> QED
  BY <1>1, <1>3 DEF Twin, q, f

\* Another variable of the same type that is in scope.
LEMMA InputMutatorValid ==
  ASSUME NEW p \in Seq(InstructionType), is_statically_valid(p), NEW q \in InputMutator(p)
  PROVE  is_statically_valid(q)
<1> DEFINE Targets == {k \in 1 .. Len(p) : is_input_mutable(p[k])}
           Upto(k) == from_program(SubSeq(p, 1, k - 1))
           Candidates(k, n) == available(Upto(k), Upto(k).variables[p[k].inputs[n]].var)
                              \ {p[k].inputs[n]}
           Here(k, n) == {[p EXCEPT ![k].inputs[n] = v] : v \in Candidates(k, n)}
           At(k) == UNION {Here(k, n) : n \in 1 .. Len(p[k].inputs)}
<1>1. q \in UNION {At(k) : k \in Targets}
  BY DEF InputMutator
<1> HIDE DEF At
<1>2. PICK k \in Targets : q \in At(k)
  BY <1>1
<1>3. k \in 1 .. Len(p) /\ p[k] \in InstructionType
  BY <1>2
<1>4. q \in UNION {Here(k, n) : n \in 1 .. Len(p[k].inputs)}
  BY <1>2 DEF At
<1> HIDE DEF Here
<1>5. PICK n \in 1 .. Len(p[k].inputs) : q \in Here(k, n)
  BY <1>4
<1> HIDE DEF Candidates
<1>6. PICK v \in Candidates(k, n) : q = [p EXCEPT ![k].inputs[n] = v]
  BY <1>5 DEF Here
<1> DEFINE b == Appended(new, p)[k - 1]
           j == Rewired(p[k], n, v)
<1>7. from_program(p).result = "ok"
  BY DEF is_statically_valid
<1>8. Upto(k) = b
  BY <1>3, BeginningBuilt
<1>9. RoundInv(b) /\ Validate(b, p[k]) = "ok"
  <2>1. k - 1 \in 0 .. Len(p)
    BY <1>3
  <2> QED
    BY <1>3, <1>7, <2>1, AcceptedSteps DEF Ready
<1> HIDE DEF b, Upto, j
<1>10. v \in available(b, b.variables[p[k].inputs[n]].var)
  BY <1>6, <1>8 DEF Candidates
<1>11. j \in InstructionType /\ j.operation = p[k].operation /\ Validate(b, j) = "ok"
  <2> DEFINE i == p[k]
  <2>1. i \in InstructionType /\ RoundInv(b) /\ Validate(b, i) = "ok"
    BY <1>3, <1>9
  <2>2. n \in 1 .. Len(i.inputs)
    BY <1>5
  <2>3. v \in available(b, b.variables[i.inputs[n]].var)
    BY <1>10
  <2> HIDE DEF i
  <2>4. /\ Rewired(i, n, v) \in InstructionType /\ Rewired(i, n, v).operation = i.operation
        /\ Validate(b, Rewired(i, n, v)) = "ok"
    BY <2>1, <2>2, <2>3, OtherInputValidates
  <2> QED
    BY <2>4 DEF i, j
<1>12. q = [p EXCEPT ![k] = j]
  BY <1>6 DEF j, Rewired
<1>13. Twin(p, q)
  BY <1>3, <1>7, <1>11, <1>12, LikeItself, ReplacedTwin DEF b
<1> QED
  BY <1>13, TwinIsValid

\* The operations that turn into each other have the same tables.
LEMMA InterchangeableAlike ==
  ASSUME NEW op, NEW other, NEW group \in Interchangeable,
         op.name \in group, other.name \in group
  PROVE  Like(op, other)
<1> DEFINE Pay == {"BuildPayToPubKey", "BuildPayToPubKeyHash", "BuildPayToWitnessPubKeyHash"}
           Txs == {"SendTxNoWit", "SendTx"}
           All == Txs \cup TxInvs \cup BlockInvs \cup Pay
<1>1. /\ group = Txs \/ group = TxInvs \/ group = BlockInvs \/ group = Pay
      /\ op.name \in All /\ other.name \in All
  BY DEF Interchangeable
<1>2. get_input_variables(other) = get_input_variables(op)
  <2>1. \A o : o.name \in Txs => get_input_variables(o) = <<"Connection", "ConstTx">>
    <3>1. \A o : o.name = "SendTx" => get_input_variables(o) = <<"Connection", "ConstTx">>
      BY DEF get_input_variables, TxInvs, BlockInvs
    <3>2. \A o : o.name = "SendTxNoWit" => get_input_variables(o) = <<"Connection", "ConstTx">>
      BY DEF get_input_variables, TxInvs, BlockInvs
    <3> QED
      BY <3>1, <3>2
  <2>2. \A o : o.name \in TxInvs => get_input_variables(o) = <<"MutInventory", "ConstTx">>
    BY DEF get_input_variables, TxInvs, BlockInvs
  <2>3. \A o : o.name \in BlockInvs => get_input_variables(o) = <<"MutInventory", "Block">>
    BY DEF get_input_variables, TxInvs, BlockInvs
  <2>4. \A o : o.name \in Pay => get_input_variables(o) = <<"PrivateKey", "SigHashFlags">>
    <3>1. \A o : o.name = "BuildPayToPubKey" => get_input_variables(o) = <<"PrivateKey", "SigHashFlags">>
      BY DEF get_input_variables, TxInvs, BlockInvs
    <3>2. \A o : o.name = "BuildPayToPubKeyHash" => get_input_variables(o) = <<"PrivateKey", "SigHashFlags">>
      BY DEF get_input_variables, TxInvs, BlockInvs
    <3>3. \A o : o.name = "BuildPayToWitnessPubKeyHash" => get_input_variables(o) = <<"PrivateKey", "SigHashFlags">>
      BY DEF get_input_variables, TxInvs, BlockInvs
    <3> QED
      BY <3>1, <3>2, <3>3
  <2> HIDE DEF Pay, Txs, All
  <2> QED
    BY <1>1, <2>1, <2>2, <2>3, <2>4
<1>3. get_output_variables(other) = get_output_variables(op)
  <2>1. \A o : o.name \in All \ Pay => get_output_variables(o) = << >>
    BY DEF get_output_variables, Loads, ScriptBuilders, TxInvs, BlockInvs
  <2>2. \A o : o.name \in Pay => get_output_variables(o) = <<"Scripts">>
    BY DEF get_output_variables, Loads, ScriptBuilders
  <2>3. op.name \in Pay <=> other.name \in Pay
    BY <1>1 DEF TxInvs, BlockInvs
  <2> HIDE DEF Pay, Txs, All
  <2> QED
    BY <1>1, <2>1, <2>2, <2>3
<1>4. \A o : o.name \in All => get_inner_output_variables(o) = << >>
  BY DEF get_inner_output_variables, TxInvs, BlockInvs
<1>5. entered_context_after_execution(other) = entered_context_after_execution(op)
  BY <1>1 DEF entered_context_after_execution, TxInvs, BlockInvs
<1>6. \A o : o.name \in All => check_payload(o) = "ok" /\ o.name # "Nop"
  BY DEF check_payload, TxInvs, BlockInvs
<1>7. \A o : o.name \in All => ~ is_block_begin(o) /\ ~ is_block_end(o)
  BY DEF is_block_begin, is_block_end, TxInvs, BlockInvs
<1>8. ASSUME NEW o, o.name \in All, NEW end
      PROVE  ~ is_matching_block_begin(end, o) /\ ~ is_matching_block_begin(o, end)
  BY <1>8 DEF is_matching_block_begin, TxInvs, BlockInvs
<1> HIDE DEF Pay, Txs, All
<1> QED
  BY <1>1, <1>2, <1>3, <1>4, <1>5, <1>6, <1>7, <1>8 DEF Like

\* An operation with another payload that the builder accepts.
LEMMA NamesakesAlike ==
  ASSUME NEW op, NEW other, other.name = op.name, op.name # "Nop",
         check_payload(other) = check_payload(op)
  PROVE  Like(op, other)
<1>1. get_input_variables(other) = get_input_variables(op)
  BY DEF get_input_variables
<1>2. get_output_variables(other) = get_output_variables(op)
  <2>1. loaded_variable(other) = loaded_variable(op)
    BY DEF loaded_variable
  <2> QED
    BY <2>1 DEF get_output_variables
<1>3. get_inner_output_variables(other) = get_inner_output_variables(op)
  BY DEF get_inner_output_variables
<1>4. entered_context_after_execution(other) = entered_context_after_execution(op)
  BY DEF entered_context_after_execution
<1>5. /\ is_block_begin(other) <=> is_block_begin(op)
      /\ is_block_end(other) <=> is_block_end(op)
  BY DEF is_block_begin, is_block_end
<1>6. /\ \A end : is_matching_block_begin(end, other) <=> is_matching_block_begin(end, op)
      /\ \A begin : is_matching_block_begin(other, begin) <=> is_matching_block_begin(op, begin)
  BY DEF is_matching_block_begin
<1> QED
  BY <1>1, <1>2, <1>3, <1>4, <1>5, <1>6 DEF Like

\* What OperationMutator makes of an operation.
LEMMA MutationsAlike ==
  ASSUME NEW op \in GeneratedOperation, NEW other \in mutations(op)
  PROVE  Like(op, other)
<1> DEFINE Others == (UNION {group \in Interchangeable : op.name \in group}) \ {op.name}
<1>1. CASE other \in {Op(name, op.args) : name \in Others}
  <2>1. PICK name \in Others : other = Op(name, op.args)
    BY <1>1
  <2>2. PICK group \in Interchangeable : op.name \in group /\ name \in group
    BY <2>1
  <2>3. other.name = name
    BY <2>1 DEF Op
  <2> QED
    BY <2>2, <2>3, InterchangeableAlike
<1>2. CASE op.name = "LoadConnection"
           /\ other \in {Op(op.name, <<c>>) : c \in 0 .. num_connections - 1}
  <2>1. num_connections \in Nat
    BY IrBuilderAssumption
  <2>2. other.name = op.name
    BY <1>2 DEF Op
  <2>3. \A c \in 0 .. num_connections - 1 : check_payload(Op("LoadConnection", <<c>>)) = "ok"
    BY <2>1 DEF check_payload, Op
  <2>4. check_payload(other) = "ok"
    BY <1>2, <2>3
  <2>5. op \in {Op("LoadConnection", <<c>>) : c \in 0 .. num_connections - 1}
    <3>1. \A n, a : Op(n, a).name = n
      BY DEF Op
    <3> QED
      BY <1>2, <3>1 DEF GeneratedOperation
  <2>6. check_payload(op) = "ok"
    BY <2>3, <2>5
  <2> QED
    BY <1>2, <2>2, <2>4, <2>6, NamesakesAlike
<1>3. CASE op.name = "LoadTaprootAnnex" /\ other \in {Op(op.name, <<TRUE>>)}
  <2>1. other.name = op.name
    BY <1>3 DEF Op
  <2>2. check_payload(other) = check_payload(op)
    BY <1>3, <2>1 DEF check_payload
  <2> QED
    BY <1>3, <2>1, <2>2, NamesakesAlike
<1> HIDE DEF Others
<1> QED
  BY <1>1, <1>2, <1>3 DEF mutations, Others

\* Another operation that the builder cannot tell from the one there was.
LEMMA OperationMutatorValid ==
  ASSUME NEW p \in Code, is_statically_valid(p), NEW q \in OperationMutator(p)
  PROVE  is_statically_valid(q)
<1> DEFINE At(k) == {[p EXCEPT ![k].operation = op] : op \in mutations(p[k].operation)}
<1>1. q \in UNION {At(k) : k \in 1 .. Len(p)}
  BY DEF OperationMutator
<1> HIDE DEF At
<1>2. PICK k \in 1 .. Len(p) : q \in At(k)
  BY <1>1
<1>3. PICK op \in mutations(p[k].operation) : q = [p EXCEPT ![k].operation = op]
  BY <1>2 DEF At
<1> DEFINE i == p[k]
           j == [i EXCEPT !.operation = op]
           b == Appended(new, p)[k - 1]
<1>4. p \in Seq(InstructionType) /\ i \in GeneratedInstruction
  BY CodeIsCallers DEF Code
<1>5. i.operation \in GeneratedOperation /\ i.inputs \in Seq(Nat) /\ DOMAIN i = {"operation", "inputs"}
  BY <1>4 DEF GeneratedInstruction
<1>6. op \in GeneratedOperation /\ Like(i.operation, op)
  BY <1>3, <1>5, MutationsKeepShape, MutationsAlike
<1>7. from_program(p).result = "ok"
  BY DEF is_statically_valid
<1>8. Validate(b, i) = "ok"
  BY <1>4, <1>7, AcceptedSteps
<1>9. q = [p EXCEPT ![k] = j]
  BY <1>3
<1>10. j \in GeneratedInstruction /\ j.operation = op /\ j.inputs = i.inputs
  BY <1>4, <1>5, <1>6 DEF GeneratedInstruction
<1> HIDE DEF i, j, b
<1>11. j \in InstructionType
  BY <1>10, CodeIsCallers
<1>12. Twins(b, b)
  BY LikeItself DEF Twins
<1>13. Validate(b, j) = "ok"
  BY <1>6, <1>8, <1>10, <1>12, TwinsValidate
<1>14. Twin(p, q)
  BY <1>4, <1>6, <1>7, <1>9, <1>10, <1>11, <1>13, ReplacedTwin DEF b, i
<1> QED
  BY <1>4, <1>14, TwinIsValid

\* Between two requests the program is valid.
LEMMA WholeIsValid ==
  ASSUME WholeInv, Unlocked
  PROVE  builder.instructions \in Code /\ is_statically_valid(builder.instructions)
<1>1. Whole(builder) /\ RoundInv(builder)
  BY DEF WholeInv, Unlocked
<1>2. from_program(builder.instructions) = Repaired(builder)
  BY <1>1 DEF RoundInv, Whole
<1>3. Repaired(builder) = builder
  <2>1. builder \in Builder
    BY <1>1 DEF RoundInv, SafeInv, Inv
  <2>2. builder.result = "ok"
    BY <1>1 DEF Whole
  <2> QED
    BY <2>1, <2>2 DEF Repaired, Builder
<1>4. Len(builder.active_scopes) = Cardinality(builder.active_scopes_set)
  BY <1>1, SameSize DEF RoundInv, SafeInv
<1>5. finalize(builder) = "ok"
  BY <1>1, <1>4 DEF finalize, Whole
<1> QED
  BY <1>1, <1>2, <1>3, <1>5 DEF is_statically_valid, Whole

\* Whatever a mutator picks in whatever program clients have made, the builder
\* accepts the result: an input becomes a variable of the same type that is in
\* scope there, and an operation one with the same tables.
THEOREM RewritesStayValid == IrSpec => []RewritesAreValid
<1>1. IrInit => WholeInv
  BY InitWhole
<1>2. WholeInv /\ [IrNext]_vars => WholeInv'
  BY NextWhole
<1>3. WholeInv => RewritesAreValid
  <2> SUFFICES ASSUME WholeInv, MayMutate, NEW name \in Requests \cap MutatorNames,
                      NEW p \in mutate(name, builder.instructions)
               PROVE  is_statically_valid(p)
    BY DEF RewritesAreValid
  <2>1. builder.instructions \in Code /\ is_statically_valid(builder.instructions)
    BY WholeIsValid DEF MayMutate
  <2>2. builder.instructions \in Seq(InstructionType)
    BY <2>1, CodeIsCallers
  <2>3. CASE name = "InputMutator"
    BY <2>1, <2>2, <2>3, InputMutatorValid DEF mutate
  <2>4. CASE name = "OperationMutator"
    BY <2>1, <2>4, OperationMutatorValid DEF mutate
  <2> QED
    BY <2>3, <2>4 DEF MutatorNames
<1> QED
  BY <1>1, <1>2, <1>3, PTL DEF IrSpec
=============================================================================
