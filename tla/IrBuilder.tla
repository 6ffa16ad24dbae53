----------------------------- MODULE IrBuilder -----------------------------
(***************************************************************************)
(* The ir-builder service (ir-builder/src/main.rs) and its clients.        *)
(*                                                                         *)
(* The service keeps a program, the compiler that compiles it bit by bit,  *)
(* the connections the messages go to and what it knows of recent blocks.  *)
(* Clients ask it to initialise, to mutate the program and to compile; a   *)
(* mutex makes a request one critical section.  A mutation is one step; a  *)
(* compile request takes the steps of Compiler and two of its own, because *)
(* the nodes go on while it runs.                                          *)
(*                                                                         *)
(* External: a node accepts any block it was sent whose parent it has, and *)
(* moves to it if it is higher; it may drop a connection at any time.      *)
(***************************************************************************)
EXTENDS Generators

CONSTANTS
  Requests,      \* the mutation requests that clients make
  num_outbound,  \* connections that the nodes open to the service
  num_inbound,   \* connections that the service opens to the nodes
  MaxRequests,   \* bound: mutation requests
  MaxFaults      \* bound: dropped connections and lost answers

ASSUME IrBuilderAssumption ==
  /\ Requests \subseteq GeneratorNames \cup MutatorNames
  /\ num_outbound \in Nat /\ num_inbound \in Nat
  /\ num_connections = num_outbound + num_inbound
  /\ num_nodes \in Nat \ {0}

VARIABLES
  service,       \* the fields of IrBuilderState beside builder and compiler
  node,          \* the blocks sent to the nodes, the heights of those accepted
  workload       \* what the clients have done and seen

vars == <<compiler_vars, service, node, workload>>

\* The tip of the chain that the context was taken from.
Snapshot == [snapshot |-> Max(Headers)]

IrInit ==
  /\ CompilerInit
  /\ service = [initialized |-> FALSE, poisoned |-> FALSE, syncing |-> FALSE,
                connections |-> << >>, connection_metas |-> << >>,
                recent_blocks |-> << >>]
  /\ node = [sent |-> {}, heights |-> Snapshot :> Snapshot.snapshot, tip |-> Snapshot]
  /\ workload = [ready |-> FALSE, requests |-> 0, faults |-> 0, rewritten |-> FALSE]

\* Who holds the mutex?  Nobody gets it again after a panic.
Unlocked == Enterable /\ ~ service.syncing /\ ~ service.poisoned

Fault == workload.faults < MaxFaults

-----------------------------------------------------------------------------
\* init, requested by the health checker until it sees an answer.

\* The k-th connection: the outbound ones come first, the nodes take turns.
meta(k) ==
  IF k <= num_outbound
  THEN [is_inbound |-> FALSE, node_num |-> ((k - 1) % num_nodes) + 1]
  ELSE [is_inbound |-> TRUE, node_num |-> ((k - 1 - num_outbound) % num_nodes) + 1]

connect(m) == [peer |-> m, alive |-> TRUE]

metas(k) == [n \in 1 .. k |-> meta(n)]

\* Mutant of established: the connections of an earlier init stay.
established_appends(k) ==
  [service EXCEPT
     !.connections = @ \o [n \in 1 .. k |-> connect(meta(n))],
     !.connection_metas = @ \o metas(k)]

\* The connections are cleared, then k of them are made.
established(k) ==
  [service EXCEPT !.connections = [n \in 1 .. k |-> connect(meta(n))],
                  !.connection_metas = metas(k)]

\* A connection cannot be made: builder and compiler stay what they were.
InitFails(k) ==
  /\ Unlocked /\ ~ workload.ready
  /\ k < num_connections
  /\ service' = established(k)
  /\ UNCHANGED <<compiler_vars, node, workload>>

InitSucceeds(answered) ==
  /\ Unlocked /\ ~ workload.ready
  /\ answered \/ Fault
  /\ service' = [established(num_connections) EXCEPT !.initialized = TRUE]
  /\ builder' = append(new, I("LoadTime", << >>))
  /\ compiler' = new_compiler
  /\ workload' = [workload EXCEPT !.ready = answered,
                                  !.faults = IF answered THEN @ ELSE @ + 1]
  /\ UNCHANGED <<call, sent, errors, node>>

-----------------------------------------------------------------------------
\* mutate.

MayMutate ==
  /\ Unlocked /\ workload.ready /\ service.initialized
  /\ workload.requests < MaxRequests

\* An error is answered like a success, with what was appended left in place.
apply_generator(name) ==
  /\ MayMutate
  /\ \E s \in generate(name, builder, service.recent_blocks) :
       builder' = append_all(builder, s)
  /\ service' = [service EXCEPT !.poisoned = builder'.result # "ok"]
  /\ workload' = [workload EXCEPT !.requests = @ + 1]
  /\ UNCHANGED <<compiler, call, sent, errors, node>>

\* Mutant of apply_mutator: the new program is compiled from its start.
apply_mutator_recompiles(name) ==
  /\ MayMutate
  /\ finalize(builder) = "ok"
  /\ \E p \in mutate(name, builder.instructions) :
       /\ from_program(p).result = "ok"
       /\ builder' = from_program(p)
  /\ compiler' = [compiler EXCEPT !.last_compiled_instruction = 0]
  /\ workload' = [workload EXCEPT !.requests = @ + 1, !.rewritten = TRUE]
  /\ UNCHANGED <<call, sent, errors, service, node>>

\* The builder is replaced if the new program is valid.
apply_mutator(name) ==
  /\ MayMutate
  /\ finalize(builder) = "ok"
  /\ \E p \in mutate(name, builder.instructions) :
       /\ from_program(p).result = "ok"
       /\ builder' = from_program(p)
  /\ workload' = [workload EXCEPT !.requests = @ + 1, !.rewritten = TRUE]
  /\ UNCHANGED <<compiler, call, sent, errors, service, node>>

-----------------------------------------------------------------------------
\* compile.

\* compile_from, as far as it changes nothing else.
Compile ==
  /\ \/ Unlocked /\ workload.ready /\ service.initialized /\ CompileFrom
     \/ \E now \in Second : CompileInstruction(now)
     \/ CompileError
  /\ UNCHANGED <<service, node, workload>>

\* The messages among the new actions go out; what a dead connection swallows
\* is not noticed.
Send ==
  /\ CompileReturn
  /\ service' = [service EXCEPT !.syncing = TRUE]
  /\ node' = [node EXCEPT !.sent = @ \cup
       {sent'[k].payload[1] : k \in
          {k \in Len(sent) + 1 .. Len(sent') :
             /\ sent'[k].message \in {"SendBlock", "SendBlockNoWit"}
             /\ service.connections[sent'[k].conn + 1].alive}}]
  /\ UNCHANGED workload

reconnect(m) == connect(m)

\* Some compiles ping; of the connections that fail, those in S come back.
pinged(S) ==
  [k \in DOMAIN service.connections |->
     IF k \in S THEN reconnect(service.connection_metas[k])
     ELSE service.connections[k]]

\* Mutant of synced: the block's variable instead of its header's.
synced_block_var ==
  IF node.tip \in DOMAIN compiler.block_tx_var_map
  THEN LET v == compiler.block_tx_var_map[node.tip].block_var
       IN  <<[height |-> node.heights[node.tip], header_var |-> v,
              instr |-> compiler.variable_indices[v]]>>
  ELSE service.recent_blocks

\* If the tip is a block of the program, it becomes the recent block.
synced ==
  IF node.tip \in DOMAIN compiler.block_tx_var_map
  THEN LET v == compiler.block_tx_var_map[node.tip].header_var
       IN  <<[height |-> node.heights[node.tip], header_var |-> v,
              instr |-> compiler.variable_indices[v]]>>
  ELSE service.recent_blocks

\* The end of a compile request; the RPCs that ask for the tip may fail.
Sync ==
  /\ service.syncing
  /\ \E S \in SUBSET {k \in DOMAIN service.connections : ~ service.connections[k].alive} :
     \E recent_blocks \in {synced, service.recent_blocks} :
       service' = [service EXCEPT !.syncing = FALSE,
                                  !.connections = pinged(S),
                                  !.recent_blocks = recent_blocks]
  /\ UNCHANGED <<compiler_vars, node, workload>>

-----------------------------------------------------------------------------
\* The nodes.

Drop(k) ==
  /\ workload.ready /\ Fault
  /\ service.connections[k].alive
  /\ service' = [service EXCEPT !.connections[k].alive = FALSE]
  /\ workload' = [workload EXCEPT !.faults = @ + 1]
  /\ UNCHANGED <<compiler_vars, node>>

height_of(header) ==
  IF "header_of" \in DOMAIN header THEN node.heights[header.header_of]
  ELSE header.args[1]

Accept(block) ==
  LET height == height_of(block.prev) + 1 IN
  /\ block \notin DOMAIN node.heights
  /\ "header_of" \in DOMAIN block.prev => block.prev.header_of \in DOMAIN node.heights
  /\ node' = [node EXCEPT !.heights = (block :> height) @@ @,
                          !.tip = IF height > node.heights[node.tip] THEN block ELSE @]
  /\ UNCHANGED <<compiler_vars, service, workload>>

IrNext ==
  \/ \E k \in 0 .. num_connections - 1 : InitFails(k)
  \/ \E answered \in BOOLEAN : InitSucceeds(answered)
  \/ \E name \in Requests \cap GeneratorNames : apply_generator(name)
  \/ \E name \in Requests \cap MutatorNames : apply_mutator(name)
  \/ Compile
  \/ Send
  \/ Sync
  \/ \E k \in DOMAIN service.connections : Drop(k)
  \/ \E block \in node.sent : Accept(block)

IrSpec == IrInit /\ [][IrNext]_vars

-----------------------------------------------------------------------------
\* Correctness.

\* Between two requests the program is whole: every block a generator opened
\* is closed again, whether it succeeded or gave up half way, no block end was
\* ever refused, and the builder is the one its instructions rebuild, so that
\* the next mutator finds a program it can finalize.
ProgramIsWhole ==
  Unlocked /\ service.initialized =>
    finalize(builder) = "ok" /\ builder = from_program(builder.instructions)

\* As long as no mutator has rewritten it, every program compiles, and no
\* generator panics: the `expect`s of the generators hold in whatever program
\* earlier requests have left, and their payloads fit.
GeneratedProgramsCompile ==
  ~ workload.rewritten => ~ service.poisoned /\ errors = << >>

\* The recent block is real: its variable is a header of the program in scope,
\* the compiler has a header of an accepted block of that height there, and
\* the instruction noted is the one that built it.  Mutators do not change
\* that, although they rewrite what has been compiled.
RecentBlockIsReal ==
  Healthy =>
    \A k \in DOMAIN service.recent_blocks :
      LET r == service.recent_blocks[k] IN
      /\ r.header_var \in available(builder, "Header")
      /\ \E block \in DOMAIN node.heights \ {Snapshot} :
           /\ compiler.variables[r.header_var].data = [header_of |-> block]
           /\ node.heights[block] = r.height
      /\ builder.instructions[r.instr + 1].operation.name = "BuildBlock"
      /\ r.header_var \in Defines(builder.instructions, r.instr + 1)

\* The Txos that the compiled transactions spend, one element per input.
Spent ==
  LET p == SubSeq(builder.instructions, 1, Compiled)
      inputs == SelectSeq(p, LAMBDA i : i.operation.name = "AddTxInput")
  IN  [k \in 1 .. Len(inputs) |-> compiler.variables[inputs[k].inputs[2]].data.prev_out]

Distinct(s) == \A j, k \in DOMAIN s : s[j] = s[k] => j = k

\* No output of a transaction of the program is spent twice, whoever spends
\* it: generators take each output once, choose among what is unspent in
\* the whole program, and takes hand out the outputs in turn.
OwnOutputsSpentOnce ==
  ~ workload.rewritten =>
    Distinct(SelectSeq(Spent, LAMBDA txo : txo.n # 0))

\* Once the clients run, connection k is what the context of the program says
\* it is, after any number of inits, drops and reconnects.
ConnectionsInPlace ==
  workload.ready =>
    /\ service.initialized
    /\ [k \in DOMAIN service.connections |-> service.connections[k].peer]
         = metas(num_connections)

\* A mutator never makes a program that the builder refuses: what it changes
\* keeps its type, and what it reads instead is in scope there.
RewritesAreValid ==
  MayMutate =>
    \A name \in Requests \cap MutatorNames :
      \A p \in mutate(name, builder.instructions) :
        is_statically_valid(p)

\* Mutations between two compiles never make a message of an earlier compile
\* go out again or be skipped: one is sent per sending instruction compiled.
SentOncePerInstruction ==
  Healthy => Len(sent) = Rank(Sending(builder.instructions), compiler.last_compiled_instruction)
=============================================================================
