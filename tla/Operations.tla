----------------------------- MODULE Operations -----------------------------
(***************************************************************************)
(* The instruction set of the fuzzamoto IR (fuzzamoto-ir/src/operation.rs, *)
(* instruction.rs and variable.rs): which operations exist, what they read,*)
(* what they define, and which of them open and close a block.             *)
(*                                                                         *)
(* An operation is a record [name, args].  Payloads are dropped except for *)
(* the ones the builder looks at: the index of LoadNode and LoadConnection,*)
(* the kind of LoadConnectionType (0 "outbound", 1 "inbound", anything     *)
(* else is some other string) and the two output counts of Nop.            *)
(*                                                                         *)
(* Every operator below is the translation of one `match` of the source.   *)
(* The tables are independent in the source, so that they agree with each  *)
(* other is something to check: BlockTablesAgree, at the end.              *)
(***************************************************************************)
EXTENDS Naturals, Sequences

Op(name, args) == [name |-> name, args |-> args]

\* Operations that only load a constant.
Loads ==
  { "LoadBytes", "LoadMsgType", "LoadNode", "LoadConnection",
    "LoadConnectionType", "LoadDuration", "LoadAddr", "LoadBlockHeight",
    "LoadCompactFilterType", "LoadTime", "LoadTxo", "LoadTaprootAnnex",
    "LoadAmount", "LoadTxVersion", "LoadBlockVersion", "LoadLockTime",
    "LoadSequence", "LoadSize", "LoadHeader", "LoadFilterLoad",
    "LoadFilterAdd", "LoadPrivateKey", "LoadSigHashFlags", "LoadNonce" }

\* The type of what they load.
loaded_variable(op) ==
  CASE op.name = "LoadBytes" -> "Bytes"
    [] op.name = "LoadMsgType" -> "MsgType"
    [] op.name = "LoadNode" -> "Node"
    [] op.name = "LoadConnection" -> "Connection"
    [] op.name = "LoadConnectionType" -> "ConnectionType"
    [] op.name = "LoadDuration" -> "Duration"
    [] op.name = "LoadAddr" -> "AddrRecord"
    [] op.name = "LoadBlockHeight" -> "BlockHeight"
    [] op.name = "LoadCompactFilterType" -> "CompactFilterType"
    [] op.name = "LoadTime" -> "Time"
    [] op.name = "LoadTxo" -> "Txo"
    [] op.name = "LoadTaprootAnnex" -> "TaprootAnnex"
    [] op.name = "LoadAmount" -> "ConstAmount"
    [] op.name = "LoadTxVersion" -> "TxVersion"
    [] op.name = "LoadBlockVersion" -> "BlockVersion"
    [] op.name = "LoadLockTime" -> "LockTime"
    [] op.name = "LoadSequence" -> "Sequence"
    [] op.name = "LoadSize" -> "Size"
    [] op.name = "LoadHeader" -> "Header"
    [] op.name = "LoadFilterLoad" -> "ConstFilterLoad"
    [] op.name = "LoadFilterAdd" -> "FilterAdd"
    [] op.name = "LoadPrivateKey" -> "PrivateKey"
    [] op.name = "LoadSigHashFlags" -> "SigHashFlags"
    [] op.name = "LoadNonce" -> "Nonce"

ScriptBuilders ==
  { "BuildPayToWitnessScriptHash", "BuildPayToScriptHash", "BuildRawScripts",
    "BuildOpReturnScripts", "BuildPayToAnchor", "BuildPayToTaproot",
    "BuildPayToPubKey", "BuildPayToPubKeyHash", "BuildPayToWitnessPubKeyHash" }

TxInvs == { "AddTxidInv", "AddTxidWithWitnessInv", "AddWtxidInv" }

BlockInvs == { "AddCompactBlockInv", "AddBlockInv", "AddBlockWithWitnessInv",
               "AddFilteredBlockInv" }

Sends ==
  { "SendRawMessage", "SendTx", "SendTxNoWit", "SendGetData", "SendInv",
    "SendGetAddr", "SendAddr", "SendAddrV2", "SendHeader", "SendBlock",
    "SendBlockNoWit", "SendGetCFilters", "SendGetCFHeaders",
    "SendGetCFCheckpt", "SendFilterLoad", "SendFilterAdd", "SendFilterClear",
    "SendCompactBlock", "SendBlockTxn" }

\* Operations that extend the collection under construction in a block.
Adds ==
  TxInvs \cup BlockInvs \cup
  { "AddTxInput", "AddTxOutput", "AddCoinbaseTxOutput", "AddWitness", "AddTx",
    "AddAddr", "AddAddrV2", "AddTxToBlockTxn", "AddTxToFilter",
    "AddTxoToFilter" }

is_block_begin(op) ==
  op.name \in
    { "BeginBuildTx", "BeginBuildInventory", "BeginBuildAddrList",
      "BeginBuildAddrListV2", "BeginBuildTxInputs", "BeginBuildTxOutputs",
      "BeginWitnessStack", "BeginBlockTransactions", "BeginBuildFilterLoad",
      "BeginBuildCoinbaseTx", "BeginBuildBlockTxn",
      "BeginBuildCoinbaseTxOutputs" }

is_block_end(op) ==
  op.name \in
    { "EndBuildTx", "EndBuildTxInputs", "EndBuildTxOutputs",
      "EndBuildInventory", "EndBuildAddrList", "EndBuildAddrListV2",
      "EndWitnessStack", "EndBlockTransactions", "EndBuildFilterLoad",
      "EndBuildCoinbaseTx", "EndBuildBlockTxn", "EndBuildCoinbaseTxOutputs" }

\* Does the block end `op` close a block opened by `other`?
is_matching_block_begin(op, other) ==
  <<other.name, op.name>> \in
    { <<"BeginBuildTx", "EndBuildTx">>,
      <<"BeginBuildTxInputs", "EndBuildTxInputs">>,
      <<"BeginBuildTxOutputs", "EndBuildTxOutputs">>,
      <<"BeginBuildInventory", "EndBuildInventory">>,
      <<"BeginBuildAddrList", "EndBuildAddrList">>,
      <<"BeginBuildAddrListV2", "EndBuildAddrListV2">>,
      <<"BeginWitnessStack", "EndWitnessStack">>,
      <<"BeginBlockTransactions", "EndBlockTransactions">>,
      <<"BeginBuildFilterLoad", "EndBuildFilterLoad">>,
      <<"BeginBuildCoinbaseTx", "EndBuildCoinbaseTx">>,
      <<"BeginBuildCoinbaseTxOutputs", "EndBuildCoinbaseTxOutputs">>,
      <<"BeginBuildBlockTxn", "EndBuildBlockTxn">> }

\* Variables defined in the scope the instruction is appended to.
get_output_variables(op) ==
  CASE op.name = "Nop" -> [i \in 1 .. op.args[1] |-> "Nop"]
    [] op.name \in Loads -> <<loaded_variable(op)>>
    [] op.name = "AdvanceTime" -> <<"Time">>
    [] op.name \in ScriptBuilders \cup {"TaprootScriptsUseAnnex"} ->
         <<"Scripts">>
    [] op.name \in {"TakeTxo", "TakeCoinbaseTxo", "TaprootTxoUseAnnex"} ->
         <<"Txo">>
    [] op.name \in {"BuildFilterAddFromTx", "BuildFilterAddFromTxo"} ->
         <<"FilterAdd">>
    [] op.name = "BuildTaprootTree" -> <<"TaprootSpendInfo">>
    [] op.name = "BuildCompactBlock" -> <<"CompactBlock">>
    [] op.name = "BuildCoinbaseTxInput" -> <<"CoinbaseInput">>
    [] op.name = "BuildBlock" -> <<"Header", "Block", "ConstCoinbaseTx">>
    [] op.name = "EndBuildTx" -> <<"ConstTx">>
    [] op.name = "EndBuildTxInputs" -> <<"ConstTxInputs">>
    [] op.name \in {"EndBuildTxOutputs", "EndBuildCoinbaseTxOutputs"} ->
         <<"ConstTxOutputs">>
    [] op.name = "EndBuildCoinbaseTx" -> <<"CoinbaseTx">>
    [] op.name = "EndBuildInventory" -> <<"ConstInventory">>
    [] op.name = "EndBuildAddrList" -> <<"ConstAddrList">>
    [] op.name = "EndBuildAddrListV2" -> <<"ConstAddrListV2">>
    [] op.name = "EndWitnessStack" -> <<"ConstWitnessStack">>
    [] op.name = "EndBlockTransactions" -> <<"ConstBlockTransactions">>
    [] op.name = "EndBuildFilterLoad" -> <<"ConstFilterLoad">>
    [] op.name = "EndBuildBlockTxn" -> <<"ConstBlockTxn">>
    [] OTHER -> << >>   \* sends, adds, block begins, SetTime and Probe

\* The mutable variable a block begin defines inside the block it opens.
get_inner_output_variables(op) ==
  CASE op.name = "Nop" -> [i \in 1 .. op.args[2] |-> "Nop"]
    [] op.name \in {"BeginBuildTx", "BeginBuildCoinbaseTx"} -> <<"MutTx">>
    [] op.name = "BeginBuildTxInputs" -> <<"MutTxInputs">>
    [] op.name \in {"BeginBuildTxOutputs", "BeginBuildCoinbaseTxOutputs"} ->
         <<"MutTxOutputs">>
    [] op.name = "BeginWitnessStack" -> <<"MutWitnessStack">>
    [] op.name = "BeginBuildInventory" -> <<"MutInventory">>
    [] op.name = "BeginBuildAddrList" -> <<"MutAddrList">>
    [] op.name = "BeginBuildAddrListV2" -> <<"MutAddrListV2">>
    [] op.name = "BeginBlockTransactions" -> <<"MutBlockTransactions">>
    [] op.name = "BeginBuildFilterLoad" -> <<"MutFilterLoad">>
    [] op.name = "BeginBuildBlockTxn" -> <<"MutBlockTxn">>
    [] OTHER -> << >>

\* Types of the variables an operation reads, in order.
get_input_variables(op) ==
  CASE op.name = "SendRawMessage" -> <<"Connection", "MsgType", "Bytes">>
    [] op.name = "AdvanceTime" -> <<"Time", "Duration">>
    [] op.name = "SetTime" -> <<"Time">>
    [] op.name \in {"BuildPayToWitnessScriptHash", "BuildPayToScriptHash"} ->
         <<"Bytes", "ConstWitnessStack">>
    [] op.name = "BuildRawScripts" -> <<"Bytes", "Bytes", "ConstWitnessStack">>
    [] op.name = "BuildOpReturnScripts" -> <<"Size">>
    [] op.name \in {"BuildPayToPubKey", "BuildPayToPubKeyHash",
                    "BuildPayToWitnessPubKeyHash"} ->
         <<"PrivateKey", "SigHashFlags">>
    [] op.name = "BuildPayToTaproot" -> <<"TaprootSpendInfo">>
    [] op.name \in {"BeginBuildTx", "BeginBuildCoinbaseTx"} ->
         <<"TxVersion", "LockTime">>
    [] op.name = "EndBuildTx" -> <<"MutTx", "ConstTxInputs", "ConstTxOutputs">>
    [] op.name = "EndBuildTxInputs" -> <<"MutTxInputs">>
    [] op.name \in {"EndBuildTxOutputs", "EndBuildCoinbaseTxOutputs"} ->
         <<"MutTxOutputs">>
    [] op.name = "AddTxInput" -> <<"MutTxInputs", "Txo", "Sequence">>
    [] op.name \in {"AddTxOutput", "AddCoinbaseTxOutput"} ->
         <<"MutTxOutputs", "Scripts", "ConstAmount">>
    [] op.name = "BeginBuildTxOutputs" -> <<"ConstTxInputs">>
    [] op.name = "EndBuildCoinbaseTx" ->
         <<"MutTx", "CoinbaseInput", "ConstTxOutputs">>
    [] op.name = "BuildCoinbaseTxInput" -> <<"Sequence">>
    [] op.name = "BeginBuildCoinbaseTxOutputs" -> <<"CoinbaseInput">>
    [] op.name \in {"TakeTxo", "BuildFilterAddFromTx"} -> <<"ConstTx">>
    [] op.name = "TakeCoinbaseTxo" -> <<"ConstCoinbaseTx">>
    [] op.name = "AddWitness" -> <<"MutWitnessStack", "Bytes">>
    [] op.name = "EndWitnessStack" -> <<"MutWitnessStack">>
    [] op.name \in {"SendTx", "SendTxNoWit"} -> <<"Connection", "ConstTx">>
    [] op.name = "EndBuildInventory" -> <<"MutInventory">>
    [] op.name = "EndBuildAddrList" -> <<"MutAddrList">>
    [] op.name = "EndBuildAddrListV2" -> <<"MutAddrListV2">>
    [] op.name \in TxInvs -> <<"MutInventory", "ConstTx">>
    [] op.name \in BlockInvs -> <<"MutInventory", "Block">>
    [] op.name = "AddAddr" -> <<"MutAddrList", "AddrRecord">>
    [] op.name = "AddAddrV2" -> <<"MutAddrListV2", "AddrRecord">>
    [] op.name = "BuildBlock" ->
         <<"CoinbaseTx", "Header", "Time", "BlockVersion",
           "ConstBlockTransactions">>
    [] op.name = "AddTx" -> <<"MutBlockTransactions", "ConstTx">>
    [] op.name = "EndBlockTransactions" -> <<"MutBlockTransactions">>
    [] op.name \in {"SendGetData", "SendInv"} ->
         <<"Connection", "ConstInventory">>
    [] op.name \in {"SendGetAddr", "SendFilterClear"} -> <<"Connection">>
    [] op.name = "SendAddr" -> <<"Connection", "ConstAddrList">>
    [] op.name = "SendAddrV2" -> <<"Connection", "ConstAddrListV2">>
    [] op.name = "SendHeader" -> <<"Connection", "Header">>
    [] op.name \in {"SendBlock", "SendBlockNoWit"} -> <<"Connection", "Block">>
    [] op.name \in {"SendGetCFilters", "SendGetCFHeaders"} ->
         <<"Connection", "CompactFilterType", "BlockHeight", "Header">>
    [] op.name = "SendGetCFCheckpt" ->
         <<"Connection", "CompactFilterType", "Header">>
    [] op.name = "SendBlockTxn" -> <<"Connection", "ConstBlockTxn">>
    [] op.name = "BeginBuildBlockTxn" -> <<"Block">>
    [] op.name = "AddTxToBlockTxn" -> <<"MutBlockTxn", "ConstTx">>
    [] op.name = "EndBuildBlockTxn" -> <<"MutBlockTxn">>
    [] op.name = "BeginBuildFilterLoad" -> <<"ConstFilterLoad">>
    [] op.name = "AddTxToFilter" -> <<"MutFilterLoad", "ConstTx">>
    [] op.name = "AddTxoToFilter" -> <<"MutFilterLoad", "Txo">>
    [] op.name = "EndBuildFilterLoad" -> <<"MutFilterLoad">>
    [] op.name = "BuildFilterAddFromTxo" -> <<"Txo">>
    [] op.name = "BuildCompactBlock" -> <<"Block", "Nonce">>
    [] op.name = "SendFilterLoad" -> <<"Connection", "ConstFilterLoad">>
    [] op.name = "SendFilterAdd" -> <<"Connection", "FilterAdd">>
    [] op.name = "SendCompactBlock" -> <<"Connection", "CompactBlock">>
    [] op.name = "TaprootScriptsUseAnnex" -> <<"Scripts", "TaprootAnnex">>
    [] op.name = "TaprootTxoUseAnnex" -> <<"Txo", "TaprootAnnex">>
    [] OTHER -> << >>   \* loads, Nop, Probe and the blocks without a header

\* The context in force inside the block that a block begin opens.
entered_context_after_execution(op) ==
  CASE op.name = "BeginBuildTx" -> "BuildTx"
    [] op.name = "BeginBuildTxInputs" -> "BuildTxInputs"
    [] op.name = "BeginBuildTxOutputs" -> "BuildTxOutputs"
    [] op.name = "BeginWitnessStack" -> "WitnessStack"
    [] op.name = "BeginBuildInventory" -> "Inventory"
    [] op.name = "BeginBuildAddrList" -> "AddrList"
    [] op.name = "BeginBuildAddrListV2" -> "AddrListV2"
    [] op.name = "BeginBlockTransactions" -> "BlockTransactions"
    [] op.name = "BeginBuildFilterLoad" -> "BuildFilter"
    [] op.name = "BeginBuildCoinbaseTx" -> "BuildCoinbaseTx"
    [] op.name = "BeginBuildBlockTxn" -> "BuildBlockTxn"
    [] op.name = "BeginBuildCoinbaseTxOutputs" -> "BuildCoinbaseTxOutputs"

num_inputs(op) == Len(get_input_variables(op))

num_outputs(op) == Len(get_output_variables(op))

num_inner_outputs(op) == Len(get_inner_output_variables(op))

\* variable.rs: the types of variables.
Variable ==
  { "Nop", "Bytes", "MsgType", "Node", "Connection", "ConnectionType",
    "Duration", "HandshakeParams", "AddrRecord", "MutAddrList",
    "ConstAddrList", "MutAddrListV2", "ConstAddrListV2", "Time", "Size",
    "BlockHeight", "CompactFilterType", "Scripts", "MutWitnessStack",
    "ConstWitnessStack", "PrivateKey", "SigHashFlags", "Txo", "MutTx",
    "ConstTx", "MutTxInputs", "ConstTxInputs", "MutTxOutputs",
    "ConstTxOutputs", "ConstAmount", "CompactBlock", "Nonce", "TxVersion",
    "LockTime", "Sequence", "MutInventory", "ConstInventory",
    "MutBlockTransactions", "ConstBlockTransactions", "Block", "Header",
    "BlockVersion", "MutFilterLoad", "ConstFilterLoad", "FilterAdd",
    "CoinbaseInput", "CoinbaseTx", "MutBlockTxn", "ConstBlockTxn",
    "ConstCoinbaseTx", "TaprootSpendInfo", "TaprootAnnex" }

\* instruction.rs: the contexts instructions execute in.
InstructionContext ==
  { "Global", "BuildTx", "BuildTxInputs", "BuildTxOutputs", "WitnessStack",
    "Inventory", "AddrList", "AddrListV2", "BlockTransactions", "BuildFilter",
    "BuildCoinbaseTx", "BuildCoinbaseTxOutputs", "BuildBlockTxn" }

\* Types only a block begin introduces, and only inside its own block.
MutVariable ==
  { "MutTx", "MutTxInputs", "MutTxOutputs", "MutWitnessStack", "MutInventory",
    "MutAddrList", "MutAddrListV2", "MutBlockTransactions", "MutFilterLoad",
    "MutBlockTxn" }

-----------------------------------------------------------------------------
\* Every variant of the enum.
OperationName ==
  Loads \cup ScriptBuilders \cup Sends \cup Adds \cup
  { "Nop", "AdvanceTime", "SetTime", "Probe", "TakeTxo", "TakeCoinbaseTxo",
    "BuildTaprootTree", "TaprootScriptsUseAnnex", "TaprootTxoUseAnnex",
    "BuildFilterAddFromTx", "BuildFilterAddFromTxo", "BuildCompactBlock",
    "BuildCoinbaseTxInput", "BuildBlock",
    "BeginBuildTx", "EndBuildTx", "BeginBuildTxInputs", "EndBuildTxInputs",
    "BeginBuildTxOutputs", "EndBuildTxOutputs", "BeginWitnessStack",
    "EndWitnessStack", "BeginBuildInventory", "EndBuildInventory",
    "BeginBuildAddrList", "EndBuildAddrList", "BeginBuildAddrListV2",
    "EndBuildAddrListV2", "BeginBlockTransactions", "EndBlockTransactions",
    "BeginBuildFilterLoad", "EndBuildFilterLoad", "BeginBuildCoinbaseTx",
    "EndBuildCoinbaseTx", "BeginBuildCoinbaseTxOutputs",
    "EndBuildCoinbaseTxOutputs", "BeginBuildBlockTxn", "EndBuildBlockTxn" }

\* The separate tables agree about blocks: begins and ends pair off one to
\* one, and an end reads the type its begin defines inside the block.
ASSUME BlockTablesAgree ==
  LET All == {Op(n, <<1, 1>>) : n \in OperationName}
      B == {op \in All : is_block_begin(op)}
      E == {op \in All : is_block_end(op)}
  IN  /\ \A b \in B : /\ num_inner_outputs(b) = 1
                     /\ num_outputs(b) = 0
                     /\ \E e \in E : is_matching_block_begin(e, b)
      /\ \A e \in E : \E b \in B :
           /\ is_matching_block_begin(e, b)
           /\ get_input_variables(e)[1] = get_inner_output_variables(b)[1]
           /\ \A c \in B \ {b} : ~ is_matching_block_begin(e, c)
      /\ \A op \in All \ B : op.name # "Nop" => num_inner_outputs(op) = 0
=============================================================================
