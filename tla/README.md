# TLA+ models of the Bitcoin Core Antithesis workloads

The repository tests Bitcoin Core under fault injection. It holds two
workloads. The *IR workload* (`src/workloads/ir-workload`) builds programs in
an intermediate representation, compiles them to P2P messages and sends them
to the nodes; it is a streaming variant of fuzzamoto. The *RPC workload*
(`src/workloads/initial-rpc-workload`) is a set of drivers that call RPCs and
assert what must hold of the cluster. This directory holds TLA+ models of the
parts of the two that keep state and take decisions, the TLC configurations
that check them, and TLAPS proofs about them.

## The parts of the system

| part | state | operations | what is hard | what makes it correct |
|---|---|---|---|---|
| operation tables (`operation.rs`, `variable.rs`, `instruction.rs`) | none | signature of each operation, block pairing, entered context | several tables that must agree | the tables agree with each other and with the compiler's |
| program builder (`builder.rs`) | instructions, variables, stack and set of scopes, context stack | `append`, `build`/`finalize`, `from_program`, `append_program`, searches over variables | an append may be refused half way; scopes are kept three times | lexical scoping, scope accounting, no panic, round trip |
| compiler (`compiler.rs`, `metadata.rs`) | variables, actions, index maps, cursor | `compile_from`, one handler per family of operations | incremental, keeps effects of failed calls, late lookups | aligned with the builder, sends each message once, spends resolve |
| generators (`generators/`) | none (fields are parameters) | `generate` appends 1 to 100 instructions | errors half way leave the instructions appended so far | blocks closed again, no panic, whatever the program before |
| mutators (`mutators/`) | none | rewrite the inputs or an operation of a program, splice two programs | what was compiled already stays as it was; variables are renumbered | valid programs stay valid, a splice holds both programs |
| minimizers (`minimizers/`) | last good and current program, a position | `next`, `success`, `failure` | two programs kept apart between the calls, one of them changed in place | a refused step is undone, nothing is left untried, it ends |
| program utilities (`lib.rs`, `instruction.rs`) | none | `is_statically_valid`, `nop`, `remove_nops`, context search | renumbering every later input | a program means the same without its nops |
| ir-builder service (`ir-builder/src/main.rs`) | builder, compiler, metadata, connections and their metas, behind a mutex | `init`, `mutate`, `compile` requests from any number of clients | failure half way through init, reconnects under the lock, poisoning | connections and metas agree, metadata describes the current program, every call ends |
| P2P connections (`fuzzamoto/src/connections.rs`) | socket, nonce counter | `version_handshake`, `send`, `ping`, `send_and_recv` | who begins, late pongs, full buffers, writes cut off | a pong means that everything sent before was processed; every method returns |
| scenarios, targets, oracles, runners (`fuzzamoto/src`) | glue | run one program, judge the result | none in concurrency | verdicts of the oracles |
| IR workload drivers (`ir-workload/workload`) | none | one request each; start-up; final consistency check | retry of init after a lost answer, no time limit | init is answered once, the check ends |
| convergence driver (`eventually_consistency.rs`, `lib.rs`) | last mined tip, round counter | snapshot, bisection, extend a chain, judge | nodes sync, prune and fail between the calls of a snapshot | ends with one chain where pruning allows it; no false alarm |
| invalid-block driver (`parallel_driver_invalid_blocks.rs`) | pool of outputs: available, pending, spent | take, commit, rollback, splice into the block | builds fail half way | a block called corrupt is invalid, any other is valid |
| money checks (`anytime_wallet_amounts.rs`, `anytime_supply_bound.rs`) | none | sum, compare with issued subsidy | two snapshots around reads of several wallets | sums right at every height; no false alarm |
| other RPC drivers, health checkers | none | straight lines of RPC calls | none of their own | - |
| node wrapper (`bitcoin-node-wrapper.sh`), compose files, workflows | two files in the datadir | draw once, re-roll at each boot | a kill between any two commands | structural flags and weights never change once a node ran with them |

The parts meet as follows. A driver sends a JSON request to the ir-builder
service. A `mutate` request lets a generator append to the service's builder,
or a mutator rewrite the program, from which the builder is rebuilt. A
`compile` request hands the builder to the compiler, which compiles the
instructions appended since its last call, and sends the resulting messages
over the connections. Generators read back the compiler's metadata to refer
to earlier blocks. Builder, compiler and metadata agree only because they all
count variables in the same way: that agreement is what the first modules are
about. The RPC drivers have nothing in common but the nodes that they ask, and
each of them has a module of its own.

## Modules

| module | models | lines up with the code |
|---|---|---|
| `Operations` | `operation.rs`, `variable.rs`, part of `instruction.rs` | one operator per table, with the source's name; an operation is a record of its name and the payload the builder or the compiler looks at |
| `LexicalScoping` | nothing: the abstract specification of the builder | frames of variables, entered and left like blocks |
| `ProgramBuilder` | `builder.rs` | `builder` is the struct, `append` is the method from its first check to its last assignment, errors and panics are values of `result`; `Lexical` is the refinement mapping, frames are read off the stack of scopes |
| `ProgramUtilities` | `remove_nops` and nops (`lib.rs`, `instruction.rs`), `append_program`, `mutators/{concat,combine}.rs` | one operator per function, from programs to programs |
| `Minimization` | nothing: the abstract specification of a minimizer | each offer is the best program so far less one piece |
| `Minimizers` | `minimizers/{cutting,instr_block,nopping}.rs` and a loop that drives one | `minimizer` is the struct, `caller` the loop: ask for a candidate, report either verdict, in the end remove the nops |
| `Compiler` | `compiler.rs`, `metadata.rs` | `compiler` is the struct, `reads` and `appends` are the Rust types that the handlers downcast to and push, `compile_instruction` is one turn of the loop of `compile_from`, `CompileError` its `?` |
| `Generators` | `generators/*.rs` and `mutators/{input,operation}.rs`, the searches of `builder.rs`, the registry in `ir-builder/src/main.rs` | a generator is an operator from a builder to the set of the instruction sequences it may append, whole or up to an early error; a mutator maps a program to the programs it may become |
| `IrBuilder` | `ir-builder/src/main.rs`, one request at a time, with programs | extends `Generators` and `Compiler`: builder and compiler are theirs, `service` holds the other fields of `IrBuilderState`, `node` what the nodes accepted, `workload` what clients did; `init`, `apply_generator`, `apply_mutator`, `Compile` .. `Sync` are the handlers |
| `IrService` | `ir-builder/src/main.rs` again, with threads, mutex and clients and without programs; the client's `call` and the init loop of `health_checker.rs` | `call` is what a client sees, `thread` where its thread is, `service` the state behind the mutex; one action per step that another thread, a node or a fault can come before |
| `Connections` | `fuzzamoto/src/connections.rs` | `conn` is the struct and the method under way as the messages it still waits for (`first`), writes (`out`) and waits for at last (`last`); `to_node` and `to_us` are the socket's buffers |
| `Chains` | active chains as RPCs show them | a chain is the sequence of its blocks, the hash at a height is the chain up to there |
| `ForkHeight` | `find_fork_height` of the RPC workload's `lib.rs` | one action per `getblockhash` call; between any two of them the nodes mine, reorganise or stop answering |
| `Convergence` | `eventually_consistency.rs` and the pruning rules of `lib.rs` | `driver` holds the local variables of `main`, `take_round` and `find_fork_height`; one action per RPC call and per decision between two of them |
| `InvalidBlocks` | `parallel_driver_invalid_blocks.rs` | `pool` is `BlockUtxoSet` with its methods as operators, `driver` the variables of the loop over blocks |
| `Supply` | `anytime_supply_bound.rs`, `anytime_wallet_amounts.rs`, the subsidy sums of `lib.rs` and of the inflation oracle | `check` holds the variables of a driver, one action per RPC call; `trusted`, `untrusted_pending`, `immature` and `nonmempool` are the fields of `getbalances` |
| `NodeWrapper` | `bitcoin-node-wrapper.sh` | `STABLE` and `WEIGHTS` are the two files, `wrapper.at` is the line of the script, `Killed` comes between any two commands |
| `*Proofs` | - | theorems about the module of that name; `CompilerDataProofs` goes on from `CompilerProofs`, `IrServiceProofs` is about `Connections` too, `RpcWorkloadProofs` about `ForkHeight`, `InvalidBlocks` and `NodeWrapper`, which share no state |
| `MC*` | - | small instances for TLC. `MCRpcWorkload` and `MCIrService` put modules that share no state side by side, each in behaviours of its own (`part`) |

`Compiler` extends `ProgramBuilder` and runs beside it: `Submit` is the
builder's append, `CompileFrom`, `CompileInstruction`, `CompileError` and
`CompileReturn` are a call of `compile_from` cut at its instructions. The
service calls both under one lock, so nothing is appended while a call runs;
the guard of `Submit` says so. A panic poisons the lock and ends everything.

`IrBuilder` puts the whole service together: `apply_generator` and
`apply_mutator` are the mutate requests, and a compile request is
`CompileFrom`, some `CompileInstruction`, then `Send` (the loop over the
returned actions) and `Sync` (ping, reconnect and
`sync_metadata_from_compiler_and_rpc`). The mutex is the guard `Unlocked`.
What goes on while it is held is outside: nodes accept blocks and drop
connections. Both are external. A node accepts a block that was sent on a live
connection if it has the parent, and moves to it if it is higher; that is the
least Bitcoin Core must do for the metadata to change, and whether it finds
the block valid only matters in that it may never accept it. A generator is
deterministic but for its random numbers, so it is an operator from a builder
to the set of the instruction sequences it may append, cut short where it
returns early; `apply_generator` picks one and appends it, and a refused append
is the panic of `force_append`. Variables drawn at random are taken in the
order of the program, at most `MaxPicks` of them.

`IrService` looks at the same file from the other side. A request is a call of
a client, which has no time limit, and a thread that waits for the mutex, goes
through its handler step by step and answers, if anybody still listens. A
client's connection may break while its thread goes on; the health checker
then tries init again and the two attempts compete for the mutex. Programs are
left out but for a number that says which init they stem from: what matters is
whether the metadata is about the same one. `accept` has no time limit in the
code and has none here. The container may restart at any time and comes back
without state.

`Connections` is one of those connections in detail. All methods have one
form: perhaps wait for a message, write some, perhaps wait for another. The
buffers of the socket hold `Capacity` messages in each direction; reads and
writes fail when thirty seconds pass with the other side silent or full, which
is possible whenever the node is stalled, has nothing to answer, or cannot
send. A write that times out may have written a part of a message. The node is
external: it takes messages in order, answers pings, and may chat, stall and
disconnect.

`Convergence` uses `Chains` too. Its nodes are external: a node follows
another one's chain if that has more work, if its own blocks down to the fork
still have their undo data, and if the other node still serves the first block
above the fork. These are the rules of Bitcoin Core that the driver's
`can_serve_block`, `disconnect_blocked_by_pruning` and
`download_blocked_by_pruning` stand for, and they are stated on the nodes'
state, while the driver applies its own to a snapshot that may be old. Nodes
follow, prune and fail between any two calls. `InvalidBlocks` has an external
part as well: what a node checks when it connects a block, and other drivers
that get the mempool mined meanwhile. In `Supply` the nodes, their wallets and
the other drivers (`parallel_driver_tx_cross_node.rs`,
`anytime_abandontransaction.rs`) are the environment of the two drivers
modelled.

Data are symbolic. A script is the list of what it is built from, a message is
its name and its parts, a block is its parent, its height, its time and its
transactions. Two blocks built from the same parts are the same block, which
is what makes two header variables collide in `block_tx_var_map`. Outside
`Supply` amounts and fees are left out, and witnesses everywhere; `LoadAddr`,
`LoadTaprootAnnex` and `BuildTaprootTree` keep the part of their payload that
decides whether the compiler refuses them.

## Runs

| run | what it explores | what it shows |
|---|---|---|
| `builder` | every sequence of five appends over ten operations, with all inputs, refused ones included | scope accounting, no panic, round trip through `from_program`, variables out of scope stay so, refinement of `LexicalScoping` |
| `minimizers` | every valid program of up to six instructions over two kinds of block that nest, a load, an add and a nop; each minimizer on it with every sequence of verdicts, then `remove_nops`; every splice with two other programs | refinement of `Minimization`; minimization ends; nothing is left untried; blocks stay whole; a program means the same without its nops; a splice holds both programs |
| `compiler` | three instances. Address lists: two loads and a nop, then every program of up to five instructions over lists, records the compiler refuses, probes and sends. Outputs: a transaction with two taproot outputs that are taken, given annexes and spent. Blocks: blocks on blocks, with equal and different times, probes and reloaded connections. Every split into batches, one failing call | the compiler's variables are the builder's, every message is sent once to the right connection; outputs rotate, constants never change; the metadata describes the program |
| `compiler_retry` | the address lists of `compiler` | violation: see the first finding |
| `generators` | the service with one node and a connection in each direction. On a program with an output, a transaction and a block: each of the 20 registered generators with each outcome and all output types, then compiles; or two requests among the two mutators, TipBlockGenerator and OneParentOneChildGenerator, before, between and after compiles that may fail. Or from the start: init that fails at any connection or is answered to nobody, two requests, drops, pings, failing RPCs, a node that moves meanwhile | no generator panics or leaves a block open, whether it succeeds or gives up, and the program compiles; rewrites are valid; late lookups resolve in what was compiled before a rewrite, each instruction's message goes out once, no output of the program is spent twice; the recent block's variable is a header of the program for an accepted block of that height; connection k is what the context says |
| `ir_service` | three attempts at init and three requests of drivers, a connection of each kind, two faults out of broken clients, lost dials, drops, failing handshakes and restarts. And one connection of either type with two messages, two pings, buffers of three messages, a node that chats three times and stalls or disconnects once | only an init that gets the mutex late hurts; every call ends unless a node forgot the dial. A pong means that all was processed; every method returns; none fails without a reason |
| `ir_service_reinit` | the same calls | violation: see the third finding |
| `rpc_workload` | the fork search on every pair of chains of up to five blocks, with two mined blocks, reorganisations or lost nodes anywhere. Blocks of up to three raw transactions on two confirmed outputs and a mempool with a conflict and a chain, with every corruption, every failing call and one block mined elsewhere. Four boots of a node that may prune, each cut off anywhere | the height found is the fork's as long as nobody leaves its chain, and the search ends; a block called corrupt is invalid, any other is valid, no output is lost or offered twice; a node only ever runs with one personality |
| `convergence` | three nodes on branches of their own, node 3 prunes and is ahead of its serve window; three rounds with one fault anywhere, or four without | the driver ends well only if every node is on the block mined last, although its snapshot is torn; an excused node is stuck; no false alarm once faults stopped; one chain after three rounds unless undo data is gone |
| `convergence_two_pruned` | two pruned nodes ahead of an unpruned one, six rounds | violation: see the second finding |
| `supply` | two nodes with a wallet and a mature coin each, a subsidy that halves at every second block; two blocks on any branches, one coin sent to the other wallet, relayed, confirmed, reorganised away or abandoned, one restart that loses blocks and mempool, between any two reads of either driver | coins add up as long as none moves or gets lost during the reads; a single wallet never exceeds its chain's subsidy; both sums of subsidies are right at every height |
| `supply_transfers` | the same without new blocks or restarts | violation: see the fourth finding |

Bounds. Five appends are enough for two nested blocks and a refused end in
each; the interesting errors of the builder need at most three. The minimizers
get six instructions: two blocks, one in the other or one after the other,
with something to take out of each. In the compiler runs a fixed preamble
brings the program to the point where the interesting operations apply, and
four or five instructions follow it: enough for a list with two records that
is sent twice, for both outputs of a transaction to be taken in both orders
and one twice, and for two blocks of which one builds on the other.
One call may fail (`MaxErrors`) in `compiler`, whose properties end there, and two
in `compiler_retry`, where the failing call is retried.

In `generators`, `ChainLength` 2 stands for the 25 transactions of
LongChainGenerator, which form a loop whose turns are all alike. The programs
it starts from are made by three generators, so that there is something to
pick for each of them; with `MaxPicks` 1 a generator draws one variable of a
kind, and two requests are enough for one output to be spent by two
transactions, or for a block to be built on a block. Two faults are a lost
answer to init and a drop, or two drops. In `ir_service` three attempts at init
are one that is given up, one that succeeds and one more, and three requests
are a compile that sets the metadata, the mutate that reads it and one that
finds the mutex poisoned. Two pings are needed for the pong of one to be there
when the other is waited for, and buffers of three messages fill up within a
handshake.

In the fork search, chains of five blocks give a bisection of up to three
turns. In `convergence` a serve window of one block (`MinBlocks` 1,
`RaceBuffer` 0) stands for the 288 and 2 of the code: branches of two blocks
are already beyond it. Three rounds are one whose snapshot is disturbed, one
that extends a stranded chain and one that finds everybody on it; an equal
height race takes one round more, hence `CalmRounds` 3. Calm means that faults
have stopped and that the nodes followed each other as far as they can within
one `CONVERGENCE_WAIT`. Among the invalid blocks three raw transactions are a
parent, a child and a corruption in any order. Four boots of the wrapper are
one cut off before the first file, one before the second, and two complete
ones to compare. Six halvings of a subsidy of 8 pass the point where it
rounds down to nothing.

The deadlock check is off everywhere: programs stop growing at their bound, and
drivers, calls and boots come to an end.

Fairness. The fork search's own steps are weakly fair: it is a sequential loop
whose calls return or fail. So is the loop that drives a minimizer. In
`IrService` some thread that can run does, and a node that was told to dial
and keeps running dials; no fairness is assumed of the mutex, which the code's
`std::sync::Mutex` does not promise either. In `Connections` the thread's reads
and writes come to an end, because both time limits are set to thirty seconds,
and a node that is not stalled works. Nothing in builder or compiler waits.
The convergence runs state convergence as an invariant of the rounds after
faults stopped, which is stronger than liveness: it says within how many.

## Findings

`compiler_retry`: `compile_from` leaves through `?` in the middle of a batch.
Variables, actions and the instruction count of the instructions before the
failing one stay, the cursor does not move, and the actions are never
returned. The next call compiles those instructions again: their variables are
appended behind the indices that the builder knows, so every later lookup is
off. The comment on the cursor (compiler.rs:46) says that it tracks the number
of instructions already compiled. The service reaches this when the
InputMutator puts an address record of version 1 into an addrv2 list, and from
then on every `compile` request fails.

`convergence_two_pruned`: of several stranded nodes the driver always extends
the one with the most work (eventually_consistency.rs:318 and :328). With two
pruned nodes on branches longer than their serve windows and an unpruned node
behind them, the two pruned ones are stranded in turns and overtake each other
for ever. The unpruned node, whose chain both could follow, is excused round
after round and never extended. The comment at eventually_consistency.rs:242
calls extending the stranded node's chain the way out, and says that a node is
excluded if that fails too.

`ir_service_reinit`: `init` replaces builder, compiler and context
(main.rs:685) and keeps the metadata, whose recent block names a variable of
the program before. The field is called "Per-testcase metadata" (main.rs:354).
A second init gets there when the client of the first attempt lost its
connection while its thread waited for the mutex: the retry succeeds, drivers
run, and the first attempt gets the mutex at last. The next
TipBlockGenerator then appends with a variable that may not exist or not be a
header, `force_append` panics, the mutex is poisoned, and every later request
ends with its thread.

`supply_transfers`: `anytime_supply_bound` reads one wallet after the other and
asserts the bound if all nodes had one tip before and after
(anytime_supply_bound.rs:120). A coin that is sent to another wallet and
relayed between the two reads moves no tip and is counted in both. The first
line of the file says that the coins visible across all wallets cannot exceed
the subsidy. `CoinsAddUp` says when they do not.

Seen while modelling, not counted as findings because no line of the
repository says otherwise, or because nothing in it gets there:

- `InventoryGenerator` looks for an open inventory, and since every generator
  closes what it opens the service always answers it with `MissingVariables`
  (as a success that mutated nothing).
- `TxoGenerator` may load the same output twice, so that two transactions
  spend it; hence `OwnOutputsSpentOnce` is about the program's own outputs.
- `current_tip_height` is never read.
- `BlockTxnGenerator`, which nothing registers, returns `MissingVariables` with
  a block open.
- The OperationMutator computes `lock_time - 144` for a lock time of 0, which
  wraps in the release build.
- `AdvanceTime` outputs a variable (operation.rs:753) and its handler appends
  none (compiler.rs:1946), so every later lookup is off by one. No generator
  the service registers appends it.
- The block minimizer pairs an end with the nearest beginning of its type. With
  a block inside a block of the same type it pairs the wrong ones, and it never
  tries the inner blocks of an outermost block that was refused. No generator
  nests blocks of one type.
- A node that restarts after `addconnection` and before it dials leaves `init`
  or `compile` in `accept`, with the mutex held, for good: the exception `Stuck`
  of `EveryCallEnds`. After a restart of the service itself nobody calls
  `init` again, and every request is refused.
- An abandoned transaction that another node still has in its mempool is
  counted by both wallets even when nothing moves, and a restart that loses
  blocks can hide that the tip has changed and come back: hence the premises of
  `CoinsAddUp`.

## Proofs

Eight modules hold theorems. None assumes more than the named assumptions on
constants in the modules they are about, and all hold for every value of the
constants, bounds included.

`ProgramBuilderProofs`: `SafeInv`, the conjunction of `TypeOK`, `ScopeInv`,
`result # "panic"` and finiteness of the set of scopes, is inductive
(`SpecSafeInv`), and from it follow `TypeCorrect`, `ScopeAccounting`,
`NoPanic` and `ScopesAreNotReused`. The only assumption is
`OperationAssumption`, that a nop carries two natural numbers. `NeverPanics`
is not inductive: that the global scope is never popped follows from a fact
about variables (`VariableInv`): a block end needs an input of a `Mut` type,
such variables are defined only inside blocks, so an end whose inputs are in
scope finds a scope above the global one. The lemmas follow `append`: what
validation establishes, what each of `enter_scope`, `exit_scope`,
`define_variables` and `push_context` preserves, then `AppendPreserves`.
`BuilderScopesLexically` is the refinement of `LexicalScoping`: the frames are
read off the stack of scopes and the variables' scope ids; an accepted append
enters, leaves, defines or discards (`AcceptFields`, `AcceptFrames`,
`AcceptReads`), a refused end abandons a frame, any other refusal stutters.
`ProgramsRoundTrip`: until a block end is refused, the builder is the one its
own instructions build. The invariant (`RoundInv`) also says that there are
never fewer contexts than instructions, so that a refused end is remembered
for ever; a step of it is that building one instruction more is one append
more (`AppendAllOneMore`), and that `append` does not look at the result of
the append before (`RepairedAgrees`).

`CompilerProofs`: `CompilerAligned` and `CompilerSpendsResolve`. Until a call
fails the compiler's variables are those of the builder up to the cursor, each
with the Rust type that its handlers downcast to, and the first call that
fails has refused a payload: no lookup before it misses, and what a
transaction's inputs and scripts refer to is there. The assumption
(`CompilerAssumption`) is that the alphabet does not contain `AdvanceTime`,
whose table and handler disagree (see above) and which no generator in the
service's list appends. `CompilerInv` ties three things together. `Layout`
says which of the builder's variables each instruction defined, `Represents`
that the compiler has, for the instructions compiled so far, exactly the
values that represent them, and `GoodValues` (in it) that a structured value
refers only to values that are there, of the type that is needed. The last is
what alignment alone does not give: `EndBuildTx` does not ask the builder for
the Txos of its inputs, it follows indices that `AddTxInput` noted several
instructions earlier. Types agree because `reads` and `appends` agree with the
operations' tables for every operation, which is a case split over all of
them.

`CompilerDataProofs`: `CompilerSendsOnce`, `CompilerTakesRotate` and
`CompilerMetadata`, under the same assumption. The properties tell
instructions by their positions: the k-th action is that of the instruction
with k positions of its kind up to it (`Rank`), so no fold over the program is
needed. They are not inductive, since what is sent depends on values made long
before. `KeptInv` adds to `CompilerInv` what each value has to do with the
program, for the instructions compiled so far: a connection is the one its
load names, a list is as long as there are instructions that add to it, a
transaction under the cursor `Txo` has been turned as often as it was taken
from, and a taken output is that of its turn (`DataKept`); the maps hold the
first load of a connection and the variables of a block (`ConnectionMapKept`,
`BlockMapKept`); indices and actions count what came before (`IndicesKept`,
`ActionsKept`), and what the callers were given is all of it (`SentKept`). A
step disturbs only the variables that `updated_variables` and the new values
touch, and for each kind of operation it is shown which these are.

`MinimizersProofs`: `MinimizersMinimize` is the refinement of `Minimization`,
for every program that can be built and every sequence of verdicts;
`MinimizersAreThorough` that a minimizer that gives up had its last possible
step refused; `MinimizersKeepBlocksWhole` that no candidate tears a block
apart. `MinInv` has a part for each minimizer. The cutting minimizer keeps an
interval whose closing means a refusal. The nopping minimizer works downwards:
what is ahead is untouched, what is behind and still there was refused as it
is now (`Trial`), since later acceptances only change what is below. The block
minimizer is the same for outermost blocks (`BlocksAt`), provided that no
block lies inside one of its own type, which is what `SelfNested` excludes and
the generators keep to. That blocks nest at all is the builder's doing: its
stack of scopes is as high as blocks are open (`StackIsDepth`).

`IrBuilderProofs`: `ConnectionsStayInPlace`. Once the health checker has seen
an answer, the connection at each index is the one the context promises. The
inductive invariant `PlacedInv` says that the connections and their metas
always have the same length and describe the same peers, whatever happens, and
that an answered or unanswered init left all of them there. It needs the first
part at every moment, because `reconnect` takes the peer from the metas, and
the assumption that the context's `num_connections` is the sum of the two
kinds (4 and 4 in `init`, 8 in `health_checker.rs`).

`IrBuilderProofs`, the program: `ProgramStaysWhole`. A request finds a program
without an open block, and one that its own instructions rebuild. The heart of
it is `GeneratorsCloseWhatTheyOpen`: whatever the program and however random
choices fall, what one of the twenty generators appends leaves the stack of
scopes as high as it was. It does not matter for this whether the builder
accepts the sequence, only that if it does, begins and ends balance, so each
piece of code that generators are put together from has a number by which it
raises the stack (`Nests`), and the number of a concatenation is a sum. A
piece that is iterated (outputs, takes, links of a chain) is a function of its
length, and is shown to be balanced by way of the least length that is not.
Mutators are different: a mutated program is built anew from its start, and
the builder may refuse it; if it does not, it has begins and ends at the same
places as the program before (`SameShape`, `SameHeight`). The invariant
(`WholeInv`) also needs that the header variable that the service keeps is a
variable, hence what the compiler's map of blocks holds (`Lookups`). After a
panic, which poisons the mutex, nothing is claimed about the program.
The assumptions are that callers of the builder may append what generators
append (`GeneratorsAreCallers`) and that the context has a highest header.

`IrBuilderProofs`, the messages: `MessagesGoOutOnce`. As many messages went out
as sending instructions were compiled. `OnceInv` adds to `WholeInv` the actions
of a call that is still running and what the call noted at its start. That it
survives a mutator, which rewrites instructions that have been compiled, is
again the shape: an operation that sends turns only into one that sends. That
the count survives an init is because clients do not run before one was
answered.

`IrBuilderProofs`, the mutators: `RewritesStayValid`. A mutated program is built
anew, instruction by instruction, beside the program that was accepted before.
The two builders are twins (`Twins`): they have the same scopes, and variables
of the same types in the same scopes, and differ only in operations that the
builder cannot tell apart (`Like`: what an operation takes, opens, closes and
makes are the same). Twins accept the same instructions and stay twins
(`AcceptedSteps`, `TwinIsValid`). What is left to show is that each exchange
that a mutator may draw is between operations that are alike
(`InterchangeableAlike`, `MutationsAlike`), and that an input that the input
mutator draws among the variables of the current scopes is accepted where the
old one was (`OtherInputValidates`): the scopes are those of the beginning of
the program up to that instruction, which is why it does not matter what the
rest of the program defines.

`IrServiceProofs`, the service: `OnlyLateInitsCanHurt`. Without an init that gets the mutex
after the health checker was answered, no request panics, the metadata is
about the program there is, and a service that was not restarted keeps all its
connections. That speaks of the states between two requests; in the middle of
one it rests on what the thread that holds the mutex may be doing (`Steps`),
how many connections it has made (`Progress`), and that nobody was told of a
service while an init is under way (`Undisturbed`).

`IrServiceProofs`, a connection: `PongMeansAllProcessed`. When `ping` or `send_and_recv`
succeeds, the node has processed everything sent before, whatever timed out
earlier. The argument is about what is in flight: what was written is
processed or on its way (`Delivered`), no nonce in flight is one still to be
given out (`Fresh`), and while a pong is awaited every message on its way is
in front of the ping (`Ordered`). `FailuresHaveAReason`: as long as the node
did not stall or disconnect and nothing was cut off, a method fails at most by
full buffers in both directions. An action property of this kind is about all
timeouts that do not happen: the invariant is that what a method waits for is
on its way to us, or what makes the node send it is on its way there or still
to be written (`Underway`), so a timeout is never the only step left.

`ConvergenceProofs`: `AgreementsAreReal`. That all nodes answered the block
mined last says nothing yet of the first ones asked, which may have moved on.
The invariant is that they can have done so only when a node that is still to
be asked has a longer chain (`Ahead`); chains never get shorter, so its answer
will be another one. Typing the driver needs that a tallest chain exists,
which is a well-founded argument on naturals (`Least`, `LastGreatest`).
`ExcusesHold`: a node that is excused cannot go to a chain with the most work
while the nodes are where the snapshot saw them. The search for its fork reads
chains that change under it. What saves it is that a chain that was left is
never come back to (`Grown`): who is where it was seen has been there all
along, and then the fork stays between the search's bounds (`Enclosed`).
`NoAlarmAfterCalm`: the assertion at the end holds after one round without
faults, for every number of nodes. In a calm round the nodes are where they
were seen and none of them can follow another (`Calmed`); a node that was
judged and found free could have followed, unless it is already as high
(`Judged`).

`RpcWorkloadProofs`, the fork search: `ForkHeightTypes` (the interval of the
bisection stays inside `0 .. max_height + 1` and never empties),
`FailureHasAReason` (None is returned only if a node stopped answering or left
the chain it had) and `FindsTheForkHeight` (as long as neither node leaves its
chain, what is returned is the height of the highest common block). The
invariant: while nobody left its chain, the two chains of the beginning agree
at `shared` and, unless it is `max_height + 1`, differ at `unshared`. That
agreement at a height implies agreement below it is a lemma about sequences.

`RpcWorkloadProofs`, the invalid-block driver: `PoolIsAccountedFor`. Every
output is available, pending or spent and never two of them, a raw output is
in the pool exactly when its transaction is in the block, and spent outputs
are spent by the block. It needs that transactions get their ids in order, so
that outputs of a new one are new (`Older`), and what the inputs of a
transaction under construction are (`Building`). `CorruptionIsRejected`: a
block with a violation is never accepted, and one without is accepted unless
the chain moved. The first half is that a violation is never taken back by
what is spliced in later (`Corrupted`, `FlawStays`); it needs that what counts
as spent is spent by the block, or a conflict would be none. The second half
is that the block could be handed in at any time (`Sound`), which
`ValidInsert` keeps: a transaction that spends only unspent outputs may go
anywhere, one that spends the block's own goes to the end, and the pool tells
which (`Sourced`). It assumes that the mempool at the start could be mined as
it is (`MempoolAssumption`), which is Bitcoin Core's promise, and that no
transaction of others has the id of a raw one.

`RpcWorkloadProofs`, the node wrapper: `PersonalityIsDrawnOnce`. What a node
was run with is what the files say, the weights on disk are then complete, and
flags are written only as long as the node never ran (`PersonalityOnDisk`).

Model-checked only:

- liveness (`Terminates`, `MinimizationEnds`, `EveryCallEnds`,
  `MethodsReturn`), which is out of the prover's reach;
- `SplicesIntact` and the meaning of a program without its nops,
  which fold over a program and would need induction over it;
- `ConvergesUnlessUndoPruned`: three rounds are enough for the nodes, windows
  and faults of the run, and the second finding shows that no number of rounds
  is enough for all of them;
- `GeneratedProgramsCompile`, `OwnOutputsSpentOnce` and `RecentBlockIsReal`,
  which are about the variables that generators choose, not only about what
  they open and close: each of the instructions of each of the generators would
  have to be shown to find its inputs in scope and of the right types;
- everything about `Supply`, whose properties are sums over sets.

## What could follow

The models were planned from the inside out: the builder, what is built on it,
the service, its threads and connections, and the drivers of the RPC workload.
What is left is smaller:

1. `RecentBlockIsReal` and `GeneratedProgramsCompile` for every program, from the
   variables that each generator chooses.
2. `IrBuilder` without its programs as an implementation of `IrService`: the two
   agree on the handlers, but take different steps as atomic.

## Not modelled

- `fuzzamoto/src` apart from its connections and the sum of its inflation
  oracle: traits and glue around a process of its own, `GenericScenario`,
  targets and runners. It is library code that nothing in the repository runs.
- The RPC drivers that are straight lines of calls, `tx_bulkdata` among them:
  they keep no state between calls, and what they assert is a property of
  Bitcoin Core.
- `check_money`, the ranges and signs of single amounts.
- The forty attempts of `eventually_consistent`, which are a matter of real time.
- The payloads that neither builder nor compiler looks at, lock times among
  them.
- Bytes on the wire and the encoding of messages, proof of work, script
  execution and everything else inside Bitcoin Core; logging; the Antithesis
  SDK (a choice it makes is a nondeterministic choice here); images, workflows
  and recipes.

PROJECT.json lists every part with its status, and the hazards with the
properties that are about them.
