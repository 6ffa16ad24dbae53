------------------------------ MODULE Compiler ------------------------------
(***************************************************************************)
(* The incremental compiler of the fuzzamoto IR (fuzzamoto-ir/src/         *)
(* compiler.rs), running beside the program builder it compiles from.      *)
(*                                                                         *)
(* The compiler keeps one dynamically typed value per variable: its Rust   *)
(* type, which get_input checks with a downcast, and its data.  Data are   *)
(* symbolic: what a hash, a script or a message is made of, not its bytes. *)
(* Kept of them is what the compiler decides on: the kind of an address    *)
(* record, how a script is signed and from which variables, the outputs a  *)
(* transaction still has to hand out.  Amounts, fees and witnesses are     *)
(* left out.                                                               *)
(*                                                                         *)
(* Payloads (the args of an operation) beyond those of Operations:         *)
(*   LoadAddr         <<"V1">>, <<"V2">> or <<"Invalid">>, a V2 record that *)
(*                    BIP-0155 forbids                                     *)
(*   LoadTaprootAnnex <<TRUE>> if the annex starts with 0x50               *)
(*   BuildTaprootTree <<TRUE>> if its key, leaf and path are valid         *)
(***************************************************************************)
EXTENDS ProgramBuilder

CONSTANTS
  Second,        \* the times a block can be stamped with
  MaxErrors      \* bound: compile_from calls that fail

VARIABLES
  compiler,      \* the compiler's fields
  call,          \* the compile_from call in progress, or the last one
  sent,          \* what compile_from has returned to its callers, in order
  errors         \* history: the errors compile_from has returned

\* Callers append operations of the IR, and no AdvanceTime: the builder defines a
\* variable for it and compile_from pushes none.  Its generator is in no list of
\* the service.
ASSUME CompilerAssumption ==
  \A op \in Operation : op.name \in OperationName \ {"AdvanceTime"}

compiler_vars == <<builder, compiler, call, sent, errors>>

-----------------------------------------------------------------------------
\* The Rust types behind the IR's types, as the handlers write them.

\* What handle_load_operations pushes for a load.
loaded_rust(op) ==
  CASE op.name \in {"LoadBytes", "LoadTaprootAnnex"} -> "Vec<u8>"
    [] op.name = "LoadMsgType" -> "[char_12]"
    [] op.name \in {"LoadNode", "LoadConnection", "LoadSize"} -> "usize"
    [] op.name = "LoadConnectionType" -> "String"
    [] op.name = "LoadDuration" -> "Duration"
    [] op.name = "LoadAddr" -> "AddrRecord"
    [] op.name \in {"LoadBlockHeight", "LoadTxVersion", "LoadLockTime",
                    "LoadSequence"} -> "u32"
    [] op.name \in {"LoadCompactFilterType", "LoadSigHashFlags"} -> "u8"
    [] op.name = "LoadTime" -> "LiveTime"
    [] op.name = "LoadTxo" -> "Txo"
    [] op.name \in {"LoadAmount", "LoadNonce"} -> "u64"
    [] op.name = "LoadBlockVersion" -> "i32"
    [] op.name = "LoadHeader" -> "Header"
    [] op.name = "LoadFilterLoad" -> "FilterLoad"
    [] op.name = "LoadFilterAdd" -> "FilterAdd"
    [] op.name = "LoadPrivateKey" -> "[u8_32]"

\* The types a handler downcasts its inputs to.
reads(op) ==
  CASE op.name \in TxInvs -> <<"Vec<Inventory>", "Tx">>
    [] op.name \in BlockInvs -> <<"Vec<Inventory>", "Block">>
    [] op.name = "EndBuildInventory" -> <<"Vec<Inventory>">>
    [] op.name = "AddAddr" -> <<"AddrList", "AddrRecord">>
    [] op.name = "AddAddrV2" -> <<"AddrListV2", "AddrRecord">>
    [] op.name = "EndBuildAddrList" -> <<"AddrList">>
    [] op.name = "EndBuildAddrListV2" -> <<"AddrListV2">>
    [] op.name = "AddWitness" -> <<"Witness", "Vec<u8>">>
    [] op.name = "EndWitnessStack" -> <<"Witness">>
    [] op.name \in {"BeginBuildFilterLoad", "EndBuildFilterLoad"} ->
         <<"FilterLoad">>
    [] op.name = "AddTxToFilter" -> <<"FilterLoad", "Tx">>
    [] op.name = "AddTxoToFilter" -> <<"FilterLoad", "Txo">>
    [] op.name \in {"BuildFilterAddFromTx", "TakeTxo", "TakeCoinbaseTxo"} ->
         <<"Tx">>
    [] op.name = "BuildFilterAddFromTxo" -> <<"Txo">>
    [] op.name = "BuildCompactBlock" -> <<"Block", "u64">>
    [] op.name = "TaprootScriptsUseAnnex" -> <<"Scripts", "Vec<u8>">>
    [] op.name = "TaprootTxoUseAnnex" -> <<"Txo", "Vec<u8>">>
    [] op.name \in {"BuildPayToWitnessScriptHash", "BuildPayToScriptHash"} ->
         <<"Vec<u8>", "Witness">>
    [] op.name = "BuildRawScripts" -> <<"Vec<u8>", "Vec<u8>", "Witness">>
    [] op.name = "BuildOpReturnScripts" -> <<"usize">>
    [] op.name = "BuildPayToTaproot" -> <<"TaprootSpendInfo">>
    [] op.name \in {"BuildPayToPubKey", "BuildPayToPubKeyHash",
                    "BuildPayToWitnessPubKeyHash"} -> <<"[u8_32]", "u8">>
    [] op.name \in {"BeginBuildTx", "BeginBuildCoinbaseTx"} -> <<"u32", "u32">>
    [] op.name = "EndBuildTx" -> <<"Tx", "TxInputs", "TxOutputs">>
    [] op.name \in {"EndBuildTxInputs", "BeginBuildTxOutputs"} -> <<"TxInputs">>
    [] op.name = "AddTxInput" -> <<"TxInputs", "Txo", "u32">>
    [] op.name \in {"EndBuildTxOutputs", "EndBuildCoinbaseTxOutputs"} ->
         <<"TxOutputs">>
    [] op.name \in {"AddTxOutput", "AddCoinbaseTxOutput"} ->
         <<"TxOutputs", "Scripts", "u64">>
    [] op.name = "EndBuildCoinbaseTx" -> <<"Tx", "CoinbaseInput", "TxOutputs">>
    [] op.name = "BuildCoinbaseTxInput" -> <<"u32">>
    [] op.name = "BeginBuildCoinbaseTxOutputs" -> <<"CoinbaseInput">>
    [] op.name = "AddTx" -> <<"BlockTransactions", "Tx">>
    [] op.name = "EndBlockTransactions" -> <<"BlockTransactions">>
    [] op.name = "BuildBlock" ->
         <<"CoinbaseTx", "Header", "LiveTime", "i32", "BlockTransactions">>
    [] op.name = "BeginBuildBlockTxn" -> <<"Block">>
    [] op.name = "AddTxToBlockTxn" -> <<"bip152::BlockTransactions", "Tx">>
    [] op.name = "EndBuildBlockTxn" -> <<"bip152::BlockTransactions">>
    [] op.name = "SendBlockTxn" -> <<"usize", "bip152::BlockTransactions">>
    [] op.name = "SendRawMessage" -> <<"usize", "[char_12]", "Vec<u8>">>
    [] op.name \in {"SendTx", "SendTxNoWit"} -> <<"usize", "Tx">>
    [] op.name \in {"SendGetData", "SendInv"} -> <<"usize", "Vec<Inventory>">>
    [] op.name \in {"SendGetAddr", "SendFilterClear"} -> <<"usize">>
    [] op.name = "SendAddr" -> <<"usize", "Vec<u32_Address>">>
    [] op.name = "SendAddrV2" -> <<"usize", "Vec<AddrV2Message>">>
    [] op.name = "SendHeader" -> <<"usize", "Header">>
    [] op.name \in {"SendBlock", "SendBlockNoWit"} -> <<"usize", "Block">>
    [] op.name \in {"SendGetCFilters", "SendGetCFHeaders"} ->
         <<"usize", "u8", "u32", "Header">>
    [] op.name = "SendGetCFCheckpt" -> <<"usize", "u8", "Header">>
    [] op.name = "SendFilterLoad" -> <<"usize", "FilterLoad">>
    [] op.name = "SendFilterAdd" -> <<"usize", "FilterAdd">>
    [] op.name = "SendCompactBlock" -> <<"usize", "CmpctBlock">>
    [] OTHER -> << >>    \* SetTime and AdvanceTime read nothing

\* Mutant of appends: nops append nothing.
appends_no_nops(op) ==
  IF op.name = "Nop" THEN << >>
  ELSE [k \in 1 .. num_outputs(op) + num_inner_outputs(op) |-> "usize"]

\* The types of the values a handler appends, in order.
appends(op) ==
  CASE op.name = "Nop" -> [k \in 1 .. op.args[1] + op.args[2] |-> "Nop"]
    [] op.name \in Loads -> <<loaded_rust(op)>>
    [] op.name \in {"BeginBuildInventory", "EndBuildInventory"} ->
         <<"Vec<Inventory>">>
    [] op.name = "BeginBuildAddrList" -> <<"AddrList">>
    [] op.name = "BeginBuildAddrListV2" -> <<"AddrListV2">>
    [] op.name = "EndBuildAddrList" -> <<"Vec<u32_Address>">>
    [] op.name = "EndBuildAddrListV2" -> <<"Vec<AddrV2Message>">>
    [] op.name \in {"BeginWitnessStack", "EndWitnessStack"} -> <<"Witness">>
    [] op.name \in {"BeginBuildFilterLoad", "EndBuildFilterLoad"} ->
         <<"FilterLoad">>
    [] op.name \in {"BuildFilterAddFromTx", "BuildFilterAddFromTxo"} ->
         <<"FilterAdd">>
    [] op.name = "BuildCompactBlock" -> <<"CmpctBlock">>
    [] op.name \in ScriptBuilders \cup {"TaprootScriptsUseAnnex"} ->
         <<"Scripts">>
    [] op.name \in {"TaprootTxoUseAnnex", "TakeTxo", "TakeCoinbaseTxo"} ->
         <<"Txo">>
    [] op.name = "BuildTaprootTree" -> <<"TaprootSpendInfo">>
    [] op.name \in {"BeginBuildTx", "EndBuildTx", "BeginBuildCoinbaseTx"} ->
         <<"Tx">>
    [] op.name \in {"BeginBuildTxInputs", "EndBuildTxInputs"} -> <<"TxInputs">>
    [] op.name \in {"BeginBuildTxOutputs", "EndBuildTxOutputs",
                    "BeginBuildCoinbaseTxOutputs",
                    "EndBuildCoinbaseTxOutputs"} -> <<"TxOutputs">>
    [] op.name = "BuildCoinbaseTxInput" -> <<"CoinbaseInput">>
    [] op.name = "EndBuildCoinbaseTx" -> <<"CoinbaseTx">>
    [] op.name \in {"BeginBlockTransactions", "EndBlockTransactions"} ->
         <<"BlockTransactions">>
    [] op.name = "BuildBlock" -> <<"Header", "Block", "Tx">>
    [] op.name \in {"BeginBuildBlockTxn", "EndBuildBlockTxn"} ->
         <<"bip152::BlockTransactions">>
    [] OTHER -> << >>    \* adds, sends, Probe, SetTime and AdvanceTime

-----------------------------------------------------------------------------
\* The data a handler appends, in order.  c is the compiler, i the instruction.

has(c, v, rust) == v \in 1 .. Len(c.variables) /\ c.variables[v].rust = rust

get_input(c, i, k) == c.variables[i.inputs[k]].data

\* What an input contributes to what is built from it.
content(c, i, k) ==
  IF c.variables[i.inputs[k]].rust = "Tx" THEN get_input(c, i, k).body
  ELSE get_input(c, i, k)

contents(c, i, from) ==
  [k \in 1 .. Len(i.inputs) - from + 1 |-> content(c, i, k + from - 1)]

\* `vars` are the variables a signing request refers to, `annex` the one of
\* the annex (None: no annex); both are looked up when a spend is signed.
Scripts(script, signing, vars) ==
  [script |-> script, signing |-> signing, vars |-> vars, annex |-> None]

handle_load_operations(op) ==
  CASE op.name = "Nop" -> [k \in 1 .. op.args[1] + op.args[2] |-> op]
    [] op.name = "LoadTxo" ->
         <<[prev_out |-> [tx |-> op, n |-> 0],
            scripts |-> Scripts(<<op.name>>, "None", << >>)]>>
    [] op.name = "LoadFilterLoad" -> << {} >>
    [] op.name = "LoadConnection" -> op.args
    [] OTHER -> <<op>>

handle_taproot_conversions(c, i) ==
  IF i.operation.name = "TaprootScriptsUseAnnex"
  THEN <<[get_input(c, i, 1) EXCEPT !.annex = i.inputs[2]]>>
  ELSE <<[get_input(c, i, 1) EXCEPT !.scripts.annex = i.inputs[2]]>>

handle_script_building_operations(c, i) ==
  LET script == <<i.operation.name>> \o contents(c, i, 1) IN
  CASE i.operation.name = "BuildPayToTaproot" ->
         <<Scripts(script, "Taproot", i.inputs)>>
    [] i.operation.name \in {"BuildPayToPubKey", "BuildPayToPubKeyHash",
                             "BuildPayToWitnessPubKeyHash"} ->
         <<Scripts(script, "Legacy", i.inputs)>>
    [] OTHER -> <<Scripts(script, "None", << >>)>>

Tx(body, txos) == [body |-> body, txos |-> txos, output_selector |-> 0]

\* One Txo per output; `outputs` are the scripts that lock them.
txos_of(body, outputs) ==
  [n \in 1 .. Len(outputs) |->
     [prev_out |-> [tx |-> body, n |-> n], scripts |-> outputs[n]]]

\* The inputs' Txos and sequences are looked up now, not when they were added.
finalize_tx(c, i) ==
  LET inputs == get_input(c, i, 2)
      outputs == get_input(c, i, 3)
      body == [header |-> get_input(c, i, 1).body,
               inputs |-> [k \in 1 .. Len(inputs) |->
                  <<c.variables[inputs[k].txo_var].data.prev_out,
                    c.variables[inputs[k].sequence_var].data>>],
               outputs |-> [k \in 1 .. Len(outputs) |-> outputs[k].script]]
  IN  Tx(body, txos_of(body, outputs))

\* A transaction hands out its outputs in turn; one without outputs hands out
\* the empty Txo.
take_txo(tx) ==
  IF tx.txos = << >>
  THEN [prev_out |-> [tx |-> "zeros", n |-> 0],
        scripts |-> Scripts(<<"empty">>, "None", << >>)]
  ELSE tx.txos[1 + (tx.output_selector % Len(tx.txos))]

handle_transaction_building_operations(c, i) ==
  CASE i.operation.name = "BeginBuildTx" -> <<Tx(contents(c, i, 1), << >>)>>
    [] i.operation.name = "EndBuildTx" -> <<finalize_tx(c, i)>>
    [] i.operation.name \in {"EndBuildTxInputs", "EndBuildTxOutputs"} ->
         <<get_input(c, i, 1)>>
    [] i.operation.name \in {"TakeTxo", "TakeCoinbaseTxo"} ->
         <<take_txo(get_input(c, i, 1))>>
    [] OTHER -> << << >> >>        \* BeginBuildTxInputs, BeginBuildTxOutputs

handle_coinbase_building_operations(c, i) ==
  CASE i.operation.name = "BeginBuildCoinbaseTx" ->
         <<Tx(contents(c, i, 1), << >>)>>
    [] i.operation.name = "BuildCoinbaseTxInput" -> <<contents(c, i, 1)>>
    [] i.operation.name = "BeginBuildCoinbaseTxOutputs" -> << << >> >>
    [] i.operation.name = "EndBuildCoinbaseTxOutputs" -> <<get_input(c, i, 1)>>
    [] i.operation.name = "EndBuildCoinbaseTx" ->
         <<[header |-> get_input(c, i, 1).body, input |-> get_input(c, i, 2),
            scripts |-> get_input(c, i, 3)]>>

\* The block stands for its own hash; `now` is read off the clock.
build_block(c, i, now) ==
  LET coinbase == get_input(c, i, 1)
      txs == get_input(c, i, 5)
  IN  [prev |-> get_input(c, i, 2), time |-> now, version |-> get_input(c, i, 4),
       coinbase |-> [coinbase EXCEPT
                       !.scripts = [k \in DOMAIN @ |-> @[k].script]],
       txs |-> [k \in 1 .. Len(txs) |-> txs[k].body]]

handle_block_building_operations(c, i, now) ==
  CASE i.operation.name = "BeginBlockTransactions" -> << << >> >>
    [] i.operation.name = "EndBlockTransactions" -> <<get_input(c, i, 1)>>
    [] i.operation.name = "BuildBlock" ->
         LET block == build_block(c, i, now) IN
         <<[header_of |-> block], block,
           Tx([coinbase_of |-> block],
              txos_of([coinbase_of |-> block], get_input(c, i, 1).scripts))>>

\* Inventories, address lists, witness stacks, filters and blocktxn lists are
\* copied when their block ends and start empty: but for a filter, which starts
\* as a copy, and a blocktxn list, which starts with the block it answers for.
handle_list_operations(c, i) ==
  CASE i.operation.name \in {"EndBuildInventory", "EndBuildAddrList",
         "EndBuildAddrListV2", "EndWitnessStack", "BeginBuildFilterLoad",
         "EndBuildFilterLoad", "EndBuildBlockTxn"} -> <<get_input(c, i, 1)>>
    [] i.operation.name = "BeginBuildBlockTxn" -> <<contents(c, i, 1)>>
    [] OTHER -> << << >> >>

\* compile_instruction's dispatch, for the values it appends.
appended_data(c, i, now) ==
  LET name == i.operation.name IN
  CASE name \in Loads \cup {"Nop"} -> handle_load_operations(i.operation)
    [] name \in {"TaprootScriptsUseAnnex", "TaprootTxoUseAnnex"} ->
         handle_taproot_conversions(c, i)
    [] name \in ScriptBuilders -> handle_script_building_operations(c, i)
    [] name \in {"BeginBuildTx", "EndBuildTx", "BeginBuildTxInputs",
                 "EndBuildTxInputs", "BeginBuildTxOutputs",
                 "EndBuildTxOutputs", "TakeTxo", "TakeCoinbaseTxo"} ->
         handle_transaction_building_operations(c, i)
    [] name \in {"BeginBuildCoinbaseTx", "EndBuildCoinbaseTx",
                 "BuildCoinbaseTxInput", "BeginBuildCoinbaseTxOutputs",
                 "EndBuildCoinbaseTxOutputs"} ->
         handle_coinbase_building_operations(c, i)
    [] name \in {"BeginBlockTransactions", "EndBlockTransactions",
                 "BuildBlock"} -> handle_block_building_operations(c, i, now)
    [] name \in {"BuildFilterAddFromTx", "BuildFilterAddFromTxo",
                 "BuildCompactBlock", "BuildTaprootTree"} ->
         <<[built |-> i.operation, from |-> contents(c, i, 1)]>>
    [] OTHER -> handle_list_operations(c, i)

\* Mutant of added: an input's two variables are swapped.
added_swapped(c, i) ==
  IF i.operation.name = "AddTxInput"
  THEN [txo_var |-> i.inputs[3], sequence_var |-> i.inputs[2]]
  ELSE content(c, i, 2)

\* What the adding operations put into the collection, their first input.
added(c, i) ==
  CASE i.operation.name = "AddTxInput" ->
         [txo_var |-> i.inputs[2], sequence_var |-> i.inputs[3]]
    [] i.operation.name = "AddTx" ->
         [body |-> content(c, i, 2), var |-> i.inputs[2]]
    [] i.operation.name = "AddTxoToFilter" -> get_input(c, i, 2).prev_out
    [] i.operation.name \in TxInvs \cup BlockInvs ->
         [kind |-> i.operation.name, of |-> content(c, i, 2)]
    [] OTHER -> content(c, i, 2)

\* The data of the first input afterwards.
updated(c, i) ==
  LET old == get_input(c, i, 1) IN
  CASE i.operation.name \in {"AddTxToFilter", "AddTxoToFilter"} ->
         old \cup {added(c, i)}
    [] i.operation.name \in Adds \ {"AddTxToFilter", "AddTxoToFilter"} ->
         Append(old, added(c, i))
    [] i.operation.name \in {"TakeTxo", "TakeCoinbaseTxo"} ->
         IF old.txos = << >> THEN old ELSE [old EXCEPT !.output_selector = @ + 1]

Updates == Adds \cup {"TakeTxo", "TakeCoinbaseTxo"}

\* The action a sending operation (or a Probe) emits.
emitted(c, i) ==
  CASE i.operation.name \in Sends ->
         <<[conn |-> get_input(c, i, 1), message |-> i.operation.name,
            payload |-> contents(c, i, 2)]>>
    [] i.operation.name = "Probe" ->
         <<[conn |-> None, message |-> "Probe", payload |-> << >>]>>
    [] OTHER -> << >>

-----------------------------------------------------------------------------
\* compile_instruction: the errors, found before anything has changed.

\* get_input finds a variable of the right Rust type for every input.
Downcasts(c, i) ==
  \A k \in 1 .. Len(reads(i.operation)) :
     has(c, i.inputs[k], reads(i.operation)[k])

\* Payloads the IR's types let through and the handlers do not.
Misfits(c, i) ==
  \/ i.operation.name = "AddAddr" /\ get_input(c, i, 2).args # <<"V1">>
  \/ i.operation.name = "AddAddrV2" /\ get_input(c, i, 2).args # <<"V2">>
  \/ /\ i.operation.name = "TaprootScriptsUseAnnex"
     /\ get_input(c, i, 1).signing # "Taproot"
  \/ /\ i.operation.name = "TaprootTxoUseAnnex"
     /\ get_input(c, i, 1).scripts.signing # "Taproot"
  \/ i.operation.name = "BuildTaprootTree" /\ i.operation.args # <<TRUE>>

\* Signing one spent Txo.  Only the annex is looked up without an unwrap.
sign_outcome(c, scripts) ==
  CASE scripts.signing = "None" -> "ok"
    [] scripts.signing = "Legacy" ->
         IF has(c, scripts.vars[1], "[u8_32]") /\ has(c, scripts.vars[2], "u8")
         THEN "ok" ELSE "panic"
    [] scripts.signing = "Taproot" ->
         IF ~ has(c, scripts.vars[1], "TaprootSpendInfo") THEN "panic"
         ELSE IF /\ scripts.annex # None
                 /\ \/ ~ has(c, scripts.annex, "Vec<u8>")
                    \/ c.variables[scripts.annex].data.args # <<TRUE>>
         THEN "MiscError"
         ELSE "ok"

\* All inputs are filled in first, then signed one by one.
finalize_tx_outcome(c, i) ==
  LET inputs == get_input(c, i, 2)
      signed == [k \in 1 .. Len(inputs) |->
                   sign_outcome(c, c.variables[inputs[k].txo_var].data.scripts)]
      failed == {k \in 1 .. Len(inputs) : signed[k] # "ok"}
  IN  IF \E k \in 1 .. Len(inputs) :
           ~ has(c, inputs[k].txo_var, "Txo") \/ ~ has(c, inputs[k].sequence_var, "u32")
      THEN "panic"
      ELSE IF failed = {} THEN "ok"
      ELSE signed[CHOOSE k \in failed : \A m \in failed : k <= m]

outcome(c, i) ==
  IF ~ Downcasts(c, i) THEN "IncorrectVariableType"
  ELSE IF Misfits(c, i) THEN "MiscError"
  ELSE IF i.operation.name = "EndBuildTx" THEN finalize_tx_outcome(c, i)
  ELSE "ok"

\* compile_instruction and the bookkeeping of compile_from's loop.  Probes are
\* neither counted as instructions nor recorded as actions.

\* Mutant of or_insert: the latest entry wins.
insert(map, key, value) ==
  [k \in DOMAIN map \cup {key} |-> IF k = key THEN value ELSE map[k]]

or_insert(map, key, value) ==
  [k \in DOMAIN map \cup {key} |-> IF k \in DOMAIN map THEN map[k] ELSE value]

update_connection_map(c, i) ==
  IF i.operation.name # "LoadConnection" THEN c.connection_map
  ELSE or_insert(c.connection_map, i.operation.args[1], Len(c.variables) + 1)

update_block_map(c, i, now) ==
  IF i.operation.name # "BuildBlock" THEN c.block_tx_var_map
  ELSE or_insert(c.block_tx_var_map, build_block(c, i, now),
         [header_var |-> Len(c.variables) + 1,
          block_var |-> Len(c.variables) + 2,
          tx_vars |-> [k \in DOMAIN get_input(c, i, 5) |-> get_input(c, i, 5)[k].var]])

\* Mutant of updated_variables: takes do not advance the selector.
updated_variables_no_rotation(c, i) ==
  IF i.operation.name \in Adds
  THEN [c.variables EXCEPT ![i.inputs[1]].data = updated(c, i)]
  ELSE c.variables

updated_variables(c, i) ==
  IF i.operation.name \in Updates
  THEN [c.variables EXCEPT ![i.inputs[1]].data = updated(c, i)]
  ELSE c.variables

compile_instruction(c, i, now) ==
  LET types == appends(i.operation)
      counts == i.operation.name # "Probe"
      times(n) == [k \in 1 .. n |-> c.instructions]
  IN  [c EXCEPT
        !.variables = updated_variables(c, i) \o
          [k \in 1 .. Len(types) |->
             [rust |-> types[k], data |-> appended_data(c, i, now)[k]]],
        !.actions = @ \o emitted(c, i),
        !.action_indices = IF counts THEN @ \o times(Len(emitted(c, i))) ELSE @,
        !.variable_indices = @ \o times(Len(types)),
        !.connection_map = update_connection_map(c, i),
        !.block_tx_var_map = update_block_map(c, i, now),
        !.instructions = IF counts THEN @ + 1 ELSE @]

-----------------------------------------------------------------------------
\* compile_from, one instruction a step.  The builder and the compiler sit
\* behind one lock: nothing is appended while a call runs.

new_compiler ==
  [variables |-> << >>, actions |-> << >>, action_indices |-> << >>,
   variable_indices |-> << >>, connection_map |-> << >>,
   block_tx_var_map |-> << >>, instructions |-> 0,
   last_compiled_instruction |-> 0]

Idle == [running |-> FALSE, next |-> 0, actions_before |-> 0]

CompilerInit ==
  /\ Init
  /\ compiler = new_compiler
  /\ call = Idle
  /\ sent = << >>
  /\ errors = << >>

\* The ways to give an operation inputs of the types it reads.
InputChoices(types) ==
  LET OfType(t) == {v \in 1 .. Len(builder.variables) : builder.variables[v].var = t}
  IN  FoldLeft(LAMBDA S, t : {Append(s, v) : s \in S, v \in OfType(t)},
               { << >> }, types)

\* A panic poisons the lock: no later call gets in.
Enterable == ~ call.running /\ "panic" \notin Range(errors)

\* A caller appends an instruction.
Submit(op, inputs) ==
  /\ Enterable
  /\ inputs \in Seq(1 .. Len(builder.variables))
  /\ AppendInstruction(op, inputs)
  /\ UNCHANGED <<compiler, call, sent, errors>>

\* A caller calls compile_from.
CompileFrom ==
  /\ Enterable
  /\ Len(errors) < MaxErrors
  /\ call' = [running |-> TRUE, next |-> compiler.last_compiled_instruction + 1,
              actions_before |-> Len(compiler.actions)]
  /\ UNCHANGED <<builder, compiler, sent, errors>>

CompileInstruction(now) ==
  /\ call.running
  /\ call.next <= Len(builder.instructions)
  /\ outcome(compiler, builder.instructions[call.next]) = "ok"
  /\ compiler' = compile_instruction(compiler, builder.instructions[call.next], now)
  /\ call' = [call EXCEPT !.next = @ + 1]
  /\ UNCHANGED <<builder, sent, errors>>

\* `compile_instruction(..)?`: the call ends, what it has done so far stays.
CompileError ==
  /\ call.running
  /\ call.next <= Len(builder.instructions)
  /\ outcome(compiler, builder.instructions[call.next]) # "ok"
  /\ call' = Idle
  /\ errors' = Append(errors, outcome(compiler, builder.instructions[call.next]))
  /\ UNCHANGED <<builder, compiler, sent>>

\* Mutant of CompileReturn: all actions are returned, not the new ones.
CompileReturn_all ==
  /\ call.running
  /\ call.next > Len(builder.instructions)
  /\ compiler' = [compiler EXCEPT
                    !.last_compiled_instruction = Len(builder.instructions)]
  /\ sent' = sent \o compiler.actions
  /\ call' = Idle
  /\ UNCHANGED <<builder, errors>>

\* The end of the loop: the new actions go to the caller.
CompileReturn ==
  /\ call.running
  /\ call.next > Len(builder.instructions)
  /\ compiler' = [compiler EXCEPT
                    !.last_compiled_instruction = Len(builder.instructions)]
  /\ sent' = sent \o SubSeq(compiler.actions, call.actions_before + 1,
                            Len(compiler.actions))
  /\ call' = Idle
  /\ UNCHANGED <<builder, errors>>

CompilerNext ==
  \/ \E op \in Operation :
       \E inputs \in InputChoices(get_input_variables(op)) : Submit(op, inputs)
  \/ CompileFrom
  \/ \E now \in Second : CompileInstruction(now)
  \/ CompileError
  \/ CompileReturn

CompilerSpec == CompilerInit /\ [][CompilerNext]_compiler_vars

-----------------------------------------------------------------------------
\* Correctness.

\* The Rust type of the values that stand for variables of an IR type.
representation(t) ==
  CASE t \in {"Bytes", "TaprootAnnex"} -> "Vec<u8>"
    [] t = "MsgType" -> "[char_12]"
    [] t \in {"Node", "Connection", "Size"} -> "usize"
    [] t = "ConnectionType" -> "String"
    [] t \in {"BlockHeight", "TxVersion", "LockTime", "Sequence"} -> "u32"
    [] t \in {"CompactFilterType", "SigHashFlags"} -> "u8"
    [] t = "Time" -> "LiveTime"
    [] t \in {"ConstAmount", "Nonce"} -> "u64"
    [] t = "BlockVersion" -> "i32"
    [] t = "PrivateKey" -> "[u8_32]"
    [] t = "MutAddrList" -> "AddrList"
    [] t = "ConstAddrList" -> "Vec<u32_Address>"
    [] t = "MutAddrListV2" -> "AddrListV2"
    [] t = "ConstAddrListV2" -> "Vec<AddrV2Message>"
    [] t \in {"MutWitnessStack", "ConstWitnessStack"} -> "Witness"
    [] t \in {"MutTx", "ConstTx", "ConstCoinbaseTx"} -> "Tx"
    [] t \in {"MutTxInputs", "ConstTxInputs"} -> "TxInputs"
    [] t \in {"MutTxOutputs", "ConstTxOutputs"} -> "TxOutputs"
    [] t = "CompactBlock" -> "CmpctBlock"
    [] t \in {"MutInventory", "ConstInventory"} -> "Vec<Inventory>"
    [] t \in {"MutBlockTransactions", "ConstBlockTransactions"} ->
         "BlockTransactions"
    [] t \in {"MutFilterLoad", "ConstFilterLoad"} -> "FilterLoad"
    [] t \in {"MutBlockTxn", "ConstBlockTxn"} -> "bip152::BlockTransactions"
    [] OTHER -> t      \* the same name on both sides

Healthy == errors = << >>

\* While nothing has failed: the instructions compiled so far.
Compiled == IF call.running THEN call.next - 1
            ELSE compiler.last_compiled_instruction

\* The compiler's variables are the builder's, one for one: each has the Rust
\* type that stands for the type the builder knows it by, and when everything
\* is compiled there are as many.  Two sets of tables, in two files, agree.
Aligned ==
  Healthy =>
    /\ \A v \in 1 .. Len(compiler.variables) :
         /\ v <= Len(builder.variables)
         /\ compiler.variables[v].rust = representation(builder.variables[v].var)
    /\ Compiled = Len(builder.instructions) =>
         Len(compiler.variables) = Len(builder.variables)

\* What the builder accepts, the compiler can look up: compile_from may refuse
\* a payload, but as long as it has refused nothing it never misses a variable,
\* never finds one of the wrong type, and never panics on one: the Txos and
\* sequences that AddTxInput noted and the keys that a script noted are there
\* when EndBuildTx comes to them.
SpendsResolve == Healthy \/ errors[1] = "MiscError"

\* How many members of a set of positions come no later than d.
Rank(S, d) == Cardinality(S \cap 1 .. d)

\* The positions of instructions that are counted, that send, that emit an
\* action, that load connection id, that extend variable v, that take from it.
Counted(p) == {d \in 1 .. Len(p) : p[d].operation.name # "Probe"}

Sending(p) == {d \in 1 .. Len(p) : p[d].operation.name \in Sends}

Emitting(p) == {d \in 1 .. Len(p) : p[d].operation.name \in Sends \cup {"Probe"}}

LoadsOf(p, id) == {d \in 1 .. Len(p) : /\ p[d].operation.name = "LoadConnection"
                                      /\ p[d].operation.args[1] = id}

AddsTo(p, v) == {d \in 1 .. Len(p) : /\ p[d].operation.name \in Adds
                                    /\ p[d].inputs[1] = v}

TakesFrom(p, v) == {d \in 1 .. Len(p) : /\ p[d].operation.name \in {"TakeTxo", "TakeCoinbaseTxo"}
                                       /\ p[d].inputs[1] = v}

\* The instruction that defines variable v.
DefinerOf(p, v) ==
  LET before == VariablesBefore(p)
  IN  CHOOSE d \in 1 .. Len(p) : v \in before[d] + 1 .. before[d + 1]

\* The connection a variable of the program stands for.
ConnectionOf(p, v) == p[DefinerOf(p, v)].operation.args[1]

\* How many elements were added to the list that variable v is the copy of.
Additions(p, v) ==
  LET d == DefinerOf(p, v)
  IN  Rank(AddsTo(p, p[d].inputs[1]), d)

ListSends == {"SendGetData", "SendInv", "SendAddr", "SendAddrV2"}

\* The action is what instruction d of p asks for: addressed to the connection
\* the program names, a list holding what the program added to it, once.
AsksFor(p, d, action) ==
  /\ action.message = p[d].operation.name
  /\ action.message \in Sends =>
       action.conn = ConnectionOf(p, p[d].inputs[1])
  /\ action.message \in ListSends =>
       Len(action.payload[1]) = Additions(p, p[d].inputs[2])

\* Each sending instruction (and Probe) of the compiled program has been handed
\* to the caller exactly once, in program order: there are as many actions as
\* there are such instructions, and the k-th action is the k-th instruction's.
SentExactlyOnce ==
  LET p == builder.instructions
      n == compiler.last_compiled_instruction
      emitting == Emitting(p)
  IN  Healthy =>
        /\ Len(sent) = Rank(emitting, n)
        /\ \A d \in emitting \cap 1 .. n :
             AsksFor(p, d, sent[Rank(emitting, d)])

\* A connection's variable is the first that loads it.
ConnectionsPointRight(p, map) ==
  \A id \in DOMAIN map :
    \E d \in LoadsOf(p, id) : /\ map[id] = FirstVariable(p, d)
                              /\ \A k \in LoadsOf(p, id) : d <= k

\* A block's variables hold that block, its header and the transactions added
\* to it.
BlocksPointRight(vs, cvs, map) ==
  \A block \in DOMAIN map :
    LET e == map[block] IN
    /\ vs[e.header_var].var = "Header"
    /\ vs[e.block_var].var = "Block"
    /\ cvs[e.block_var].data = block
    /\ cvs[e.header_var].data = [header_of |-> block]
    /\ \A k \in DOMAIN e.tx_vars :
         /\ vs[e.tx_vars[k]].var = "ConstTx"
         /\ cvs[e.tx_vars[k]].data.body = block.txs[k]

\* The index of a variable is the number of counted instructions before the one
\* that defines it; the index of an action, before the one that emits it.
IndicesPointRight(p, n, c) ==
  LET before == VariablesBefore(p)
      counted == Counted(p)
      sending == Sending(p)
  IN  /\ Len(c.variable_indices) = Len(c.variables)
      /\ \A d \in 1 .. n : \A v \in before[d] + 1 .. before[d + 1] :
           c.variable_indices[v] = Rank(counted, d - 1)
      /\ Len(c.action_indices) = Rank(sending, n)
      /\ \A d \in sending \cap 1 .. n :
           c.action_indices[Rank(sending, d)] = Rank(counted, d - 1)

\* What the generators read from the metadata is true of the program.
MetadataPointsRight ==
  Healthy =>
    /\ ConnectionsPointRight(builder.instructions, compiler.connection_map)
    /\ BlocksPointRight(builder.variables, compiler.variables, compiler.block_tx_var_map)
    /\ IndicesPointRight(builder.instructions, Compiled, compiler)

\* No output of a transaction is handed out again before all the others have
\* been: two takes give the same Txo only if they are a whole turn apart.
TakesRotate ==
  LET p == SubSeq(builder.instructions, 1, Compiled)
      before == VariablesBefore(p)
      taken(d) == compiler.variables[before[d] + 1].data.prev_out
  IN  Healthy =>
        \A t \in {v \in 1 .. Len(compiler.variables) : compiler.variables[v].rust = "Tx"} :
          LET takes == TakesFrom(p, t)
              turn(d) == Rank(takes, d - 1)
              n == Len(compiler.variables[t].data.txos)
          IN  n > 0 =>
                \A j, k \in takes :
                  (taken(j) = taken(k)) <=> (turn(j) % n = turn(k) % n)

\* compiler.rs on last_compiled_instruction: "Tracks the number of instructions
\* already compiled (for incremental compilation)"; `instructions` counts them
\* too, but for probes.
TracksCompiledInstructions ==
  ~ call.running => compiler.instructions = Rank(Counted(builder.instructions), compiler.last_compiled_instruction)

=============================================================================
