--------------------------- MODULE CompilerProofs ---------------------------
(***************************************************************************)
(* Proofs about the compiler beside its builder, for every alphabet of     *)
(* operations (but AdvanceTime), every program callers append, every       *)
(* sequence of batches and every number of failed calls: the compiler's    *)
(* variables stay aligned with the builder's, and the only error it ever   *)
(* starts with is the refusal of a payload.                                *)
(***************************************************************************)
EXTENDS Compiler, ProgramBuilderProofs, NaturalsInduction, WellFoundedInduction

-----------------------------------------------------------------------------
\* The tables of two files, compared entry by entry.

\* The variables an operation defines, in the order of their indices.
Defined(op) == get_output_variables(op) \o get_inner_output_variables(op)

\* How the compiler represents each type, one by one.
LEMMA RepresentationTable ==
  /\ representation("BlockHeight") = "u32"
  /\ representation("BlockVersion") = "i32"
  /\ representation("Bytes") = "Vec<u8>"
  /\ representation("CompactBlock") = "CmpctBlock"
  /\ representation("CompactFilterType") = "u8"
  /\ representation("Connection") = "usize"
  /\ representation("ConnectionType") = "String"
  /\ representation("ConstAddrList") = "Vec<u32_Address>"
  /\ representation("ConstAddrListV2") = "Vec<AddrV2Message>"
  /\ representation("ConstAmount") = "u64"
  /\ representation("ConstBlockTransactions") = "BlockTransactions"
  /\ representation("ConstBlockTxn") = "bip152::BlockTransactions"
  /\ representation("ConstCoinbaseTx") = "Tx"
  /\ representation("ConstFilterLoad") = "FilterLoad"
  /\ representation("ConstInventory") = "Vec<Inventory>"
  /\ representation("ConstTx") = "Tx"
  /\ representation("ConstTxInputs") = "TxInputs"
  /\ representation("ConstTxOutputs") = "TxOutputs"
  /\ representation("ConstWitnessStack") = "Witness"
  /\ representation("LockTime") = "u32"
  /\ representation("MsgType") = "[char_12]"
  /\ representation("MutAddrList") = "AddrList"
  /\ representation("MutAddrListV2") = "AddrListV2"
  /\ representation("MutBlockTransactions") = "BlockTransactions"
  /\ representation("MutBlockTxn") = "bip152::BlockTransactions"
  /\ representation("MutFilterLoad") = "FilterLoad"
  /\ representation("MutInventory") = "Vec<Inventory>"
  /\ representation("MutTx") = "Tx"
  /\ representation("MutTxInputs") = "TxInputs"
  /\ representation("MutTxOutputs") = "TxOutputs"
  /\ representation("MutWitnessStack") = "Witness"
  /\ representation("Node") = "usize"
  /\ representation("Nonce") = "u64"
  /\ representation("PrivateKey") = "[u8_32]"
  /\ representation("Sequence") = "u32"
  /\ representation("SigHashFlags") = "u8"
  /\ representation("Size") = "usize"
  /\ representation("TaprootAnnex") = "Vec<u8>"
  /\ representation("Time") = "LiveTime"
  /\ representation("TxVersion") = "u32"
  /\ representation("Duration") = "Duration"
  /\ representation("AddrRecord") = "AddrRecord"
  /\ representation("Header") = "Header"
  /\ representation("FilterAdd") = "FilterAdd"
  /\ representation("Block") = "Block"
  /\ representation("CoinbaseInput") = "CoinbaseInput"
  /\ representation("CoinbaseTx") = "CoinbaseTx"
  /\ representation("TaprootSpendInfo") = "TaprootSpendInfo"
  /\ representation("Scripts") = "Scripts"
  /\ representation("Txo") = "Txo"
  /\ representation("Nop") = "Nop"
BY DEF representation

\* The types that a handler downcasts its inputs to are those that stand for
\* the types the builder checks them to have; SetTime reads nothing.
LEMMA ReadTable ==
  ASSUME NEW op, op.name \in OperationName \ {"AdvanceTime"}
  PROVE  /\ Len(reads(op)) <= num_inputs(op)
         /\ \A k \in 1 .. Len(reads(op)) :
              reads(op)[k] = representation(get_input_variables(op)[k])
<1> DEFINE Agree == /\ Len(reads(op)) <= num_inputs(op)
                    /\ \A k \in 1 .. Len(reads(op)) :
                         reads(op)[k] = representation(get_input_variables(op)[k])
<1>1. CASE op.name = "AddAddr"
  <2>1. /\ reads(op) = <<"AddrList", "AddrRecord">>
        /\ get_input_variables(op) = <<"MutAddrList", "AddrRecord">>
    BY <1>1 DEF reads, get_input_variables, TxInvs, BlockInvs
  <2> QED
    BY <2>1, RepresentationTable DEF num_inputs
<1>2. CASE op.name = "AddAddrV2"
  <2>1. /\ reads(op) = <<"AddrListV2", "AddrRecord">>
        /\ get_input_variables(op) = <<"MutAddrListV2", "AddrRecord">>
    BY <1>2 DEF reads, get_input_variables, TxInvs, BlockInvs
  <2> QED
    BY <2>1, RepresentationTable DEF num_inputs
<1>3. CASE op.name \in BlockInvs
  <2>1. /\ reads(op) = <<"Vec<Inventory>", "Block">>
        /\ get_input_variables(op) = <<"MutInventory", "Block">>
    BY <1>3 DEF reads, get_input_variables, TxInvs, BlockInvs
  <2> QED
    BY <2>1, RepresentationTable DEF num_inputs
<1>4. CASE op.name \in {"AddCoinbaseTxOutput", "AddTxOutput"}
  <2>1. /\ reads(op) = <<"TxOutputs", "Scripts", "u64">>
        /\ get_input_variables(op) = <<"MutTxOutputs", "Scripts", "ConstAmount">>
    BY <1>4 DEF reads, get_input_variables, TxInvs, BlockInvs
  <2> QED
    BY <2>1, RepresentationTable DEF num_inputs
<1>5. CASE op.name = "AddTx"
  <2>1. /\ reads(op) = <<"BlockTransactions", "Tx">>
        /\ get_input_variables(op) = <<"MutBlockTransactions", "ConstTx">>
    BY <1>5 DEF reads, get_input_variables, TxInvs, BlockInvs
  <2> QED
    BY <2>1, RepresentationTable DEF num_inputs
<1>6. CASE op.name = "AddTxInput"
  <2>1. /\ reads(op) = <<"TxInputs", "Txo", "u32">>
        /\ get_input_variables(op) = <<"MutTxInputs", "Txo", "Sequence">>
    BY <1>6 DEF reads, get_input_variables, TxInvs, BlockInvs
  <2> QED
    BY <2>1, RepresentationTable DEF num_inputs
<1>7. CASE op.name = "AddTxToBlockTxn"
  <2>1. /\ reads(op) = <<"bip152::BlockTransactions", "Tx">>
        /\ get_input_variables(op) = <<"MutBlockTxn", "ConstTx">>
    BY <1>7 DEF reads, get_input_variables, TxInvs, BlockInvs
  <2> QED
    BY <2>1, RepresentationTable DEF num_inputs
<1>8. CASE op.name = "AddTxToFilter"
  <2>1. /\ reads(op) = <<"FilterLoad", "Tx">>
        /\ get_input_variables(op) = <<"MutFilterLoad", "ConstTx">>
    BY <1>8 DEF reads, get_input_variables, TxInvs, BlockInvs
  <2> QED
    BY <2>1, RepresentationTable DEF num_inputs
<1>9. CASE op.name \in TxInvs
  <2>1. /\ reads(op) = <<"Vec<Inventory>", "Tx">>
        /\ get_input_variables(op) = <<"MutInventory", "ConstTx">>
    BY <1>9 DEF reads, get_input_variables, TxInvs, BlockInvs
  <2> QED
    BY <2>1, RepresentationTable DEF num_inputs
<1>10. CASE op.name = "AddTxoToFilter"
  <2>1. /\ reads(op) = <<"FilterLoad", "Txo">>
        /\ get_input_variables(op) = <<"MutFilterLoad", "Txo">>
    BY <1>10 DEF reads, get_input_variables, TxInvs, BlockInvs
  <2> QED
    BY <2>1, RepresentationTable DEF num_inputs
<1>11. CASE op.name = "AddWitness"
  <2>1. /\ reads(op) = <<"Witness", "Vec<u8>">>
        /\ get_input_variables(op) = <<"MutWitnessStack", "Bytes">>
    BY <1>11 DEF reads, get_input_variables, TxInvs, BlockInvs
  <2> QED
    BY <2>1, RepresentationTable DEF num_inputs
<1>12. CASE op.name \in Loads \cup {"BeginBlockTransactions",
         "BeginBuildAddrList", "BeginBuildAddrListV2", "BeginBuildInventory",
         "BeginBuildTxInputs", "BeginWitnessStack", "BuildPayToAnchor",
         "BuildTaprootTree", "Nop", "Probe"}
  <2>1. /\ reads(op) = << >>
        /\ get_input_variables(op) = << >>
    BY <1>12 DEF reads, get_input_variables, TxInvs, BlockInvs, Loads
  <2> QED
    BY <2>1, RepresentationTable DEF num_inputs
<1>13. CASE op.name = "BeginBuildBlockTxn"
  <2>1. /\ reads(op) = <<"Block">>
        /\ get_input_variables(op) = <<"Block">>
    BY <1>13 DEF reads, get_input_variables, TxInvs, BlockInvs
  <2> QED
    BY <2>1, RepresentationTable DEF num_inputs
<1>14. CASE op.name \in {"BeginBuildCoinbaseTx", "BeginBuildTx"}
  <2>1. /\ reads(op) = <<"u32", "u32">>
        /\ get_input_variables(op) = <<"TxVersion", "LockTime">>
    BY <1>14 DEF reads, get_input_variables, TxInvs, BlockInvs
  <2> QED
    BY <2>1, RepresentationTable DEF num_inputs
<1>15. CASE op.name = "BeginBuildCoinbaseTxOutputs"
  <2>1. /\ reads(op) = <<"CoinbaseInput">>
        /\ get_input_variables(op) = <<"CoinbaseInput">>
    BY <1>15 DEF reads, get_input_variables, TxInvs, BlockInvs
  <2> QED
    BY <2>1, RepresentationTable DEF num_inputs
<1>16. CASE op.name = "BeginBuildFilterLoad"
  <2>1. /\ reads(op) = <<"FilterLoad">>
        /\ get_input_variables(op) = <<"ConstFilterLoad">>
    BY <1>16 DEF reads, get_input_variables, TxInvs, BlockInvs
  <2> QED
    BY <2>1, RepresentationTable DEF num_inputs
<1>17. CASE op.name = "BeginBuildTxOutputs"
  <2>1. /\ reads(op) = <<"TxInputs">>
        /\ get_input_variables(op) = <<"ConstTxInputs">>
    BY <1>17 DEF reads, get_input_variables, TxInvs, BlockInvs
  <2> QED
    BY <2>1, RepresentationTable DEF num_inputs
<1>18. CASE op.name = "BuildBlock"
  <2>1. /\ reads(op) = <<"CoinbaseTx", "Header", "LiveTime", "i32", "BlockTransactions">>
        /\ get_input_variables(op) = <<"CoinbaseTx", "Header", "Time", "BlockVersion", "ConstBlockTransactions">>
    BY <1>18 DEF reads, get_input_variables, TxInvs, BlockInvs
  <2> QED
    BY <2>1, RepresentationTable DEF num_inputs
<1>19. CASE op.name = "BuildCoinbaseTxInput"
  <2>1. /\ reads(op) = <<"u32">>
        /\ get_input_variables(op) = <<"Sequence">>
    BY <1>19 DEF reads, get_input_variables, TxInvs, BlockInvs
  <2> QED
    BY <2>1, RepresentationTable DEF num_inputs
<1>20. CASE op.name = "BuildCompactBlock"
  <2>1. /\ reads(op) = <<"Block", "u64">>
        /\ get_input_variables(op) = <<"Block", "Nonce">>
    BY <1>20 DEF reads, get_input_variables, TxInvs, BlockInvs
  <2> QED
    BY <2>1, RepresentationTable DEF num_inputs
<1>21. CASE op.name \in {"BuildFilterAddFromTx", "TakeTxo"}
  <2>1. /\ reads(op) = <<"Tx">>
        /\ get_input_variables(op) = <<"ConstTx">>
    BY <1>21 DEF reads, get_input_variables, TxInvs, BlockInvs
  <2> QED
    BY <2>1, RepresentationTable DEF num_inputs
<1>22. CASE op.name = "BuildFilterAddFromTxo"
  <2>1. /\ reads(op) = <<"Txo">>
        /\ get_input_variables(op) = <<"Txo">>
    BY <1>22 DEF reads, get_input_variables, TxInvs, BlockInvs
  <2> QED
    BY <2>1, RepresentationTable DEF num_inputs
<1>23. CASE op.name = "BuildOpReturnScripts"
  <2>1. /\ reads(op) = <<"usize">>
        /\ get_input_variables(op) = <<"Size">>
    BY <1>23 DEF reads, get_input_variables, TxInvs, BlockInvs
  <2> QED
    BY <2>1, RepresentationTable DEF num_inputs
<1>24. CASE op.name \in {"BuildPayToPubKey", "BuildPayToPubKeyHash",
         "BuildPayToWitnessPubKeyHash"}
  <2>1. /\ reads(op) = <<"[u8_32]", "u8">>
        /\ get_input_variables(op) = <<"PrivateKey", "SigHashFlags">>
    BY <1>24 DEF reads, get_input_variables, TxInvs, BlockInvs
  <2> QED
    BY <2>1, RepresentationTable DEF num_inputs
<1>25. CASE op.name \in {"BuildPayToScriptHash", "BuildPayToWitnessScriptHash"}
  <2>1. /\ reads(op) = <<"Vec<u8>", "Witness">>
        /\ get_input_variables(op) = <<"Bytes", "ConstWitnessStack">>
    BY <1>25 DEF reads, get_input_variables, TxInvs, BlockInvs
  <2> QED
    BY <2>1, RepresentationTable DEF num_inputs
<1>26. CASE op.name = "BuildPayToTaproot"
  <2>1. /\ reads(op) = <<"TaprootSpendInfo">>
        /\ get_input_variables(op) = <<"TaprootSpendInfo">>
    BY <1>26 DEF reads, get_input_variables, TxInvs, BlockInvs
  <2> QED
    BY <2>1, RepresentationTable DEF num_inputs
<1>27. CASE op.name = "BuildRawScripts"
  <2>1. /\ reads(op) = <<"Vec<u8>", "Vec<u8>", "Witness">>
        /\ get_input_variables(op) = <<"Bytes", "Bytes", "ConstWitnessStack">>
    BY <1>27 DEF reads, get_input_variables, TxInvs, BlockInvs
  <2> QED
    BY <2>1, RepresentationTable DEF num_inputs
<1>28. CASE op.name = "EndBlockTransactions"
  <2>1. /\ reads(op) = <<"BlockTransactions">>
        /\ get_input_variables(op) = <<"MutBlockTransactions">>
    BY <1>28 DEF reads, get_input_variables, TxInvs, BlockInvs
  <2> QED
    BY <2>1, RepresentationTable DEF num_inputs
<1>29. CASE op.name = "EndBuildAddrList"
  <2>1. /\ reads(op) = <<"AddrList">>
        /\ get_input_variables(op) = <<"MutAddrList">>
    BY <1>29 DEF reads, get_input_variables, TxInvs, BlockInvs
  <2> QED
    BY <2>1, RepresentationTable DEF num_inputs
<1>30. CASE op.name = "EndBuildAddrListV2"
  <2>1. /\ reads(op) = <<"AddrListV2">>
        /\ get_input_variables(op) = <<"MutAddrListV2">>
    BY <1>30 DEF reads, get_input_variables, TxInvs, BlockInvs
  <2> QED
    BY <2>1, RepresentationTable DEF num_inputs
<1>31. CASE op.name = "EndBuildBlockTxn"
  <2>1. /\ reads(op) = <<"bip152::BlockTransactions">>
        /\ get_input_variables(op) = <<"MutBlockTxn">>
    BY <1>31 DEF reads, get_input_variables, TxInvs, BlockInvs
  <2> QED
    BY <2>1, RepresentationTable DEF num_inputs
<1>32. CASE op.name = "EndBuildCoinbaseTx"
  <2>1. /\ reads(op) = <<"Tx", "CoinbaseInput", "TxOutputs">>
        /\ get_input_variables(op) = <<"MutTx", "CoinbaseInput", "ConstTxOutputs">>
    BY <1>32 DEF reads, get_input_variables, TxInvs, BlockInvs
  <2> QED
    BY <2>1, RepresentationTable DEF num_inputs
<1>33. CASE op.name \in {"EndBuildCoinbaseTxOutputs", "EndBuildTxOutputs"}
  <2>1. /\ reads(op) = <<"TxOutputs">>
        /\ get_input_variables(op) = <<"MutTxOutputs">>
    BY <1>33 DEF reads, get_input_variables, TxInvs, BlockInvs
  <2> QED
    BY <2>1, RepresentationTable DEF num_inputs
<1>34. CASE op.name = "EndBuildFilterLoad"
  <2>1. /\ reads(op) = <<"FilterLoad">>
        /\ get_input_variables(op) = <<"MutFilterLoad">>
    BY <1>34 DEF reads, get_input_variables, TxInvs, BlockInvs
  <2> QED
    BY <2>1, RepresentationTable DEF num_inputs
<1>35. CASE op.name = "EndBuildInventory"
  <2>1. /\ reads(op) = <<"Vec<Inventory>">>
        /\ get_input_variables(op) = <<"MutInventory">>
    BY <1>35 DEF reads, get_input_variables, TxInvs, BlockInvs
  <2> QED
    BY <2>1, RepresentationTable DEF num_inputs
<1>36. CASE op.name = "EndBuildTx"
  <2>1. /\ reads(op) = <<"Tx", "TxInputs", "TxOutputs">>
        /\ get_input_variables(op) = <<"MutTx", "ConstTxInputs", "ConstTxOutputs">>
    BY <1>36 DEF reads, get_input_variables, TxInvs, BlockInvs
  <2> QED
    BY <2>1, RepresentationTable DEF num_inputs
<1>37. CASE op.name = "EndBuildTxInputs"
  <2>1. /\ reads(op) = <<"TxInputs">>
        /\ get_input_variables(op) = <<"MutTxInputs">>
    BY <1>37 DEF reads, get_input_variables, TxInvs, BlockInvs
  <2> QED
    BY <2>1, RepresentationTable DEF num_inputs
<1>38. CASE op.name = "EndWitnessStack"
  <2>1. /\ reads(op) = <<"Witness">>
        /\ get_input_variables(op) = <<"MutWitnessStack">>
    BY <1>38 DEF reads, get_input_variables, TxInvs, BlockInvs
  <2> QED
    BY <2>1, RepresentationTable DEF num_inputs
<1>39. CASE op.name = "SendAddr"
  <2>1. /\ reads(op) = <<"usize", "Vec<u32_Address>">>
        /\ get_input_variables(op) = <<"Connection", "ConstAddrList">>
    BY <1>39 DEF reads, get_input_variables, TxInvs, BlockInvs
  <2> QED
    BY <2>1, RepresentationTable DEF num_inputs
<1>40. CASE op.name = "SendAddrV2"
  <2>1. /\ reads(op) = <<"usize", "Vec<AddrV2Message>">>
        /\ get_input_variables(op) = <<"Connection", "ConstAddrListV2">>
    BY <1>40 DEF reads, get_input_variables, TxInvs, BlockInvs
  <2> QED
    BY <2>1, RepresentationTable DEF num_inputs
<1>41. CASE op.name \in {"SendBlock", "SendBlockNoWit"}
  <2>1. /\ reads(op) = <<"usize", "Block">>
        /\ get_input_variables(op) = <<"Connection", "Block">>
    BY <1>41 DEF reads, get_input_variables, TxInvs, BlockInvs
  <2> QED
    BY <2>1, RepresentationTable DEF num_inputs
<1>42. CASE op.name = "SendBlockTxn"
  <2>1. /\ reads(op) = <<"usize", "bip152::BlockTransactions">>
        /\ get_input_variables(op) = <<"Connection", "ConstBlockTxn">>
    BY <1>42 DEF reads, get_input_variables, TxInvs, BlockInvs
  <2> QED
    BY <2>1, RepresentationTable DEF num_inputs
<1>43. CASE op.name = "SendCompactBlock"
  <2>1. /\ reads(op) = <<"usize", "CmpctBlock">>
        /\ get_input_variables(op) = <<"Connection", "CompactBlock">>
    BY <1>43 DEF reads, get_input_variables, TxInvs, BlockInvs
  <2> QED
    BY <2>1, RepresentationTable DEF num_inputs
<1>44. CASE op.name = "SendFilterAdd"
  <2>1. /\ reads(op) = <<"usize", "FilterAdd">>
        /\ get_input_variables(op) = <<"Connection", "FilterAdd">>
    BY <1>44 DEF reads, get_input_variables, TxInvs, BlockInvs
  <2> QED
    BY <2>1, RepresentationTable DEF num_inputs
<1>45. CASE op.name \in {"SendFilterClear", "SendGetAddr"}
  <2>1. /\ reads(op) = <<"usize">>
        /\ get_input_variables(op) = <<"Connection">>
    BY <1>45 DEF reads, get_input_variables, TxInvs, BlockInvs
  <2> QED
    BY <2>1, RepresentationTable DEF num_inputs
<1>46. CASE op.name = "SendFilterLoad"
  <2>1. /\ reads(op) = <<"usize", "FilterLoad">>
        /\ get_input_variables(op) = <<"Connection", "ConstFilterLoad">>
    BY <1>46 DEF reads, get_input_variables, TxInvs, BlockInvs
  <2> QED
    BY <2>1, RepresentationTable DEF num_inputs
<1>47. CASE op.name = "SendGetCFCheckpt"
  <2>1. /\ reads(op) = <<"usize", "u8", "Header">>
        /\ get_input_variables(op) = <<"Connection", "CompactFilterType", "Header">>
    BY <1>47 DEF reads, get_input_variables, TxInvs, BlockInvs
  <2> QED
    BY <2>1, RepresentationTable DEF num_inputs
<1>48. CASE op.name \in {"SendGetCFHeaders", "SendGetCFilters"}
  <2>1. /\ reads(op) = <<"usize", "u8", "u32", "Header">>
        /\ get_input_variables(op) = <<"Connection", "CompactFilterType", "BlockHeight", "Header">>
    BY <1>48 DEF reads, get_input_variables, TxInvs, BlockInvs
  <2> QED
    BY <2>1, RepresentationTable DEF num_inputs
<1>49. CASE op.name \in {"SendGetData", "SendInv"}
  <2>1. /\ reads(op) = <<"usize", "Vec<Inventory>">>
        /\ get_input_variables(op) = <<"Connection", "ConstInventory">>
    BY <1>49 DEF reads, get_input_variables, TxInvs, BlockInvs
  <2> QED
    BY <2>1, RepresentationTable DEF num_inputs
<1>50. CASE op.name = "SendHeader"
  <2>1. /\ reads(op) = <<"usize", "Header">>
        /\ get_input_variables(op) = <<"Connection", "Header">>
    BY <1>50 DEF reads, get_input_variables, TxInvs, BlockInvs
  <2> QED
    BY <2>1, RepresentationTable DEF num_inputs
<1>51. CASE op.name = "SendRawMessage"
  <2>1. /\ reads(op) = <<"usize", "[char_12]", "Vec<u8>">>
        /\ get_input_variables(op) = <<"Connection", "MsgType", "Bytes">>
    BY <1>51 DEF reads, get_input_variables, TxInvs, BlockInvs
  <2> QED
    BY <2>1, RepresentationTable DEF num_inputs
<1>52. CASE op.name \in {"SendTx", "SendTxNoWit"}
  <2>1. /\ reads(op) = <<"usize", "Tx">>
        /\ get_input_variables(op) = <<"Connection", "ConstTx">>
    BY <1>52 DEF reads, get_input_variables, TxInvs, BlockInvs
  <2> QED
    BY <2>1, RepresentationTable DEF num_inputs
<1>53. CASE op.name = "SetTime"
  <2>1. /\ reads(op) = << >>
        /\ get_input_variables(op) = <<"Time">>
    BY <1>53 DEF reads, get_input_variables, TxInvs, BlockInvs, Loads
  <2> QED
    BY <2>1, RepresentationTable DEF num_inputs
<1>54. CASE op.name = "TakeCoinbaseTxo"
  <2>1. /\ reads(op) = <<"Tx">>
        /\ get_input_variables(op) = <<"ConstCoinbaseTx">>
    BY <1>54 DEF reads, get_input_variables, TxInvs, BlockInvs
  <2> QED
    BY <2>1, RepresentationTable DEF num_inputs
<1>55. CASE op.name = "TaprootScriptsUseAnnex"
  <2>1. /\ reads(op) = <<"Scripts", "Vec<u8>">>
        /\ get_input_variables(op) = <<"Scripts", "TaprootAnnex">>
    BY <1>55 DEF reads, get_input_variables, TxInvs, BlockInvs
  <2> QED
    BY <2>1, RepresentationTable DEF num_inputs
<1>56. CASE op.name = "TaprootTxoUseAnnex"
  <2>1. /\ reads(op) = <<"Txo", "Vec<u8>">>
        /\ get_input_variables(op) = <<"Txo", "TaprootAnnex">>
    BY <1>56 DEF reads, get_input_variables, TxInvs, BlockInvs
  <2> QED
    BY <2>1, RepresentationTable DEF num_inputs
<1> QED
  BY <1>1, <1>2, <1>3, <1>4, <1>5, <1>6, <1>7, <1>8, <1>9, <1>10, <1>11,
     <1>12, <1>13, <1>14, <1>15, <1>16, <1>17, <1>18, <1>19, <1>20, <1>21,
     <1>22, <1>23, <1>24, <1>25, <1>26, <1>27, <1>28, <1>29, <1>30, <1>31,
     <1>32, <1>33, <1>34, <1>35, <1>36, <1>37, <1>38, <1>39, <1>40, <1>41,
     <1>42, <1>43, <1>44, <1>45, <1>46, <1>47, <1>48, <1>49, <1>50, <1>51,
     <1>52, <1>53, <1>54, <1>55,
     <1>56
    DEF OperationName, Loads, ScriptBuilders, Sends, Adds, TxInvs, BlockInvs

\* What a load pushes represents what it loads.
LEMMA LoadTable ==
  ASSUME NEW op, op.name \in Loads
  PROVE  loaded_rust(op) = representation(loaded_variable(op))
<1>1. CASE op.name = "LoadBytes"
  BY <1>1, RepresentationTable DEF loaded_rust, loaded_variable
<1>2. CASE op.name = "LoadMsgType"
  BY <1>2, RepresentationTable DEF loaded_rust, loaded_variable
<1>3. CASE op.name = "LoadNode"
  BY <1>3, RepresentationTable DEF loaded_rust, loaded_variable
<1>4. CASE op.name = "LoadConnection"
  BY <1>4, RepresentationTable DEF loaded_rust, loaded_variable
<1>5. CASE op.name = "LoadConnectionType"
  BY <1>5, RepresentationTable DEF loaded_rust, loaded_variable
<1>6. CASE op.name = "LoadDuration"
  BY <1>6, RepresentationTable DEF loaded_rust, loaded_variable
<1>7. CASE op.name = "LoadAddr"
  BY <1>7, RepresentationTable DEF loaded_rust, loaded_variable
<1>8. CASE op.name = "LoadBlockHeight"
  BY <1>8, RepresentationTable DEF loaded_rust, loaded_variable
<1>9. CASE op.name = "LoadCompactFilterType"
  BY <1>9, RepresentationTable DEF loaded_rust, loaded_variable
<1>10. CASE op.name = "LoadTime"
  BY <1>10, RepresentationTable DEF loaded_rust, loaded_variable
<1>11. CASE op.name = "LoadTxo"
  BY <1>11, RepresentationTable DEF loaded_rust, loaded_variable
<1>12. CASE op.name = "LoadTaprootAnnex"
  BY <1>12, RepresentationTable DEF loaded_rust, loaded_variable
<1>13. CASE op.name = "LoadAmount"
  BY <1>13, RepresentationTable DEF loaded_rust, loaded_variable
<1>14. CASE op.name = "LoadTxVersion"
  BY <1>14, RepresentationTable DEF loaded_rust, loaded_variable
<1>15. CASE op.name = "LoadBlockVersion"
  BY <1>15, RepresentationTable DEF loaded_rust, loaded_variable
<1>16. CASE op.name = "LoadLockTime"
  BY <1>16, RepresentationTable DEF loaded_rust, loaded_variable
<1>17. CASE op.name = "LoadSequence"
  BY <1>17, RepresentationTable DEF loaded_rust, loaded_variable
<1>18. CASE op.name = "LoadSize"
  BY <1>18, RepresentationTable DEF loaded_rust, loaded_variable
<1>19. CASE op.name = "LoadHeader"
  BY <1>19, RepresentationTable DEF loaded_rust, loaded_variable
<1>20. CASE op.name = "LoadFilterLoad"
  BY <1>20, RepresentationTable DEF loaded_rust, loaded_variable
<1>21. CASE op.name = "LoadFilterAdd"
  BY <1>21, RepresentationTable DEF loaded_rust, loaded_variable
<1>22. CASE op.name = "LoadPrivateKey"
  BY <1>22, RepresentationTable DEF loaded_rust, loaded_variable
<1>23. CASE op.name = "LoadSigHashFlags"
  BY <1>23, RepresentationTable DEF loaded_rust, loaded_variable
<1>24. CASE op.name = "LoadNonce"
  BY <1>24, RepresentationTable DEF loaded_rust, loaded_variable
<1> QED
  BY <1>1, <1>2, <1>3, <1>4, <1>5, <1>6, <1>7, <1>8, <1>9, <1>10, <1>11,
     <1>12, <1>13, <1>14, <1>15, <1>16, <1>17, <1>18, <1>19, <1>20, <1>21,
     <1>22, <1>23, <1>24 DEF Loads

\* What a handler appends represents what the builder defines, but for Nop.
LEMMA AppendTable ==
  ASSUME NEW op, op.name \in OperationName \ {"AdvanceTime", "Nop"}
  PROVE  /\ Len(appends(op)) = Len(Defined(op))
         /\ \A k \in 1 .. Len(appends(op)) : appends(op)[k] = representation(Defined(op)[k])
<1>1. CASE op.name \in TxInvs \cup BlockInvs \cup Sends \cup {"AddAddr",
         "AddAddrV2", "AddCoinbaseTxOutput", "AddTx", "AddTxInput",
         "AddTxOutput", "AddTxToBlockTxn", "AddTxToFilter", "AddTxoToFilter",
         "AddWitness", "Probe", "SetTime"}
  <2>1. appends(op) = << >>
    BY <1>1 DEF appends, Loads, ScriptBuilders, Sends, Adds, TxInvs, BlockInvs
  <2>2. /\ get_output_variables(op) = << >>
        /\ get_inner_output_variables(op) = << >>
    BY <1>1
    DEF get_output_variables, get_inner_output_variables, Loads, ScriptBuilders, Sends, Adds, TxInvs, BlockInvs
  <2>3. Defined(op) = << >>
    BY <2>2 DEF Defined
  <2> QED
    BY <2>1, <2>3, RepresentationTable
<1>2. CASE op.name = "BeginBlockTransactions"
  <2>1. appends(op) = <<"BlockTransactions">>
    BY <1>2 DEF appends, Loads, ScriptBuilders
  <2>2. /\ get_output_variables(op) = << >>
        /\ get_inner_output_variables(op) = <<"MutBlockTransactions">>
    BY <1>2
    DEF get_output_variables, get_inner_output_variables, Loads, ScriptBuilders
  <2>3. Defined(op) = <<"MutBlockTransactions">>
    BY <2>2 DEF Defined
  <2> QED
    BY <2>1, <2>3, RepresentationTable
<1>3. CASE op.name = "BeginBuildAddrList"
  <2>1. appends(op) = <<"AddrList">>
    BY <1>3 DEF appends, Loads, ScriptBuilders
  <2>2. /\ get_output_variables(op) = << >>
        /\ get_inner_output_variables(op) = <<"MutAddrList">>
    BY <1>3
    DEF get_output_variables, get_inner_output_variables, Loads, ScriptBuilders
  <2>3. Defined(op) = <<"MutAddrList">>
    BY <2>2 DEF Defined
  <2> QED
    BY <2>1, <2>3, RepresentationTable
<1>4. CASE op.name = "BeginBuildAddrListV2"
  <2>1. appends(op) = <<"AddrListV2">>
    BY <1>4 DEF appends, Loads, ScriptBuilders
  <2>2. /\ get_output_variables(op) = << >>
        /\ get_inner_output_variables(op) = <<"MutAddrListV2">>
    BY <1>4
    DEF get_output_variables, get_inner_output_variables, Loads, ScriptBuilders
  <2>3. Defined(op) = <<"MutAddrListV2">>
    BY <2>2 DEF Defined
  <2> QED
    BY <2>1, <2>3, RepresentationTable
<1>5. CASE op.name = "BeginBuildBlockTxn"
  <2>1. appends(op) = <<"bip152::BlockTransactions">>
    BY <1>5 DEF appends, Loads, ScriptBuilders
  <2>2. /\ get_output_variables(op) = << >>
        /\ get_inner_output_variables(op) = <<"MutBlockTxn">>
    BY <1>5
    DEF get_output_variables, get_inner_output_variables, Loads, ScriptBuilders
  <2>3. Defined(op) = <<"MutBlockTxn">>
    BY <2>2 DEF Defined
  <2> QED
    BY <2>1, <2>3, RepresentationTable
<1>6. CASE op.name \in {"BeginBuildCoinbaseTx", "BeginBuildTx"}
  <2>1. appends(op) = <<"Tx">>
    BY <1>6 DEF appends, Loads, ScriptBuilders
  <2>2. /\ get_output_variables(op) = << >>
        /\ get_inner_output_variables(op) = <<"MutTx">>
    BY <1>6
    DEF get_output_variables, get_inner_output_variables, Loads, ScriptBuilders
  <2>3. Defined(op) = <<"MutTx">>
    BY <2>2 DEF Defined
  <2> QED
    BY <2>1, <2>3, RepresentationTable
<1>7. CASE op.name \in {"BeginBuildCoinbaseTxOutputs", "BeginBuildTxOutputs"}
  <2>1. appends(op) = <<"TxOutputs">>
    BY <1>7 DEF appends, Loads, ScriptBuilders
  <2>2. /\ get_output_variables(op) = << >>
        /\ get_inner_output_variables(op) = <<"MutTxOutputs">>
    BY <1>7
    DEF get_output_variables, get_inner_output_variables, Loads, ScriptBuilders
  <2>3. Defined(op) = <<"MutTxOutputs">>
    BY <2>2 DEF Defined
  <2> QED
    BY <2>1, <2>3, RepresentationTable
<1>8. CASE op.name = "BeginBuildFilterLoad"
  <2>1. appends(op) = <<"FilterLoad">>
    BY <1>8 DEF appends, Loads, ScriptBuilders
  <2>2. /\ get_output_variables(op) = << >>
        /\ get_inner_output_variables(op) = <<"MutFilterLoad">>
    BY <1>8
    DEF get_output_variables, get_inner_output_variables, Loads, ScriptBuilders
  <2>3. Defined(op) = <<"MutFilterLoad">>
    BY <2>2 DEF Defined
  <2> QED
    BY <2>1, <2>3, RepresentationTable
<1>9. CASE op.name = "BeginBuildInventory"
  <2>1. appends(op) = <<"Vec<Inventory>">>
    BY <1>9 DEF appends, Loads, ScriptBuilders
  <2>2. /\ get_output_variables(op) = << >>
        /\ get_inner_output_variables(op) = <<"MutInventory">>
    BY <1>9
    DEF get_output_variables, get_inner_output_variables, Loads, ScriptBuilders
  <2>3. Defined(op) = <<"MutInventory">>
    BY <2>2 DEF Defined
  <2> QED
    BY <2>1, <2>3, RepresentationTable
<1>10. CASE op.name = "BeginBuildTxInputs"
  <2>1. appends(op) = <<"TxInputs">>
    BY <1>10 DEF appends, Loads, ScriptBuilders
  <2>2. /\ get_output_variables(op) = << >>
        /\ get_inner_output_variables(op) = <<"MutTxInputs">>
    BY <1>10
    DEF get_output_variables, get_inner_output_variables, Loads, ScriptBuilders
  <2>3. Defined(op) = <<"MutTxInputs">>
    BY <2>2 DEF Defined
  <2> QED
    BY <2>1, <2>3, RepresentationTable
<1>11. CASE op.name = "BeginWitnessStack"
  <2>1. appends(op) = <<"Witness">>
    BY <1>11 DEF appends, Loads, ScriptBuilders
  <2>2. /\ get_output_variables(op) = << >>
        /\ get_inner_output_variables(op) = <<"MutWitnessStack">>
    BY <1>11
    DEF get_output_variables, get_inner_output_variables, Loads, ScriptBuilders
  <2>3. Defined(op) = <<"MutWitnessStack">>
    BY <2>2 DEF Defined
  <2> QED
    BY <2>1, <2>3, RepresentationTable
<1>12. CASE op.name = "BuildBlock"
  <2>1. appends(op) = <<"Header", "Block", "Tx">>
    BY <1>12 DEF appends, Loads, ScriptBuilders
  <2>2. /\ get_output_variables(op) = <<"Header", "Block", "ConstCoinbaseTx">>
        /\ get_inner_output_variables(op) = << >>
    BY <1>12
    DEF get_output_variables, get_inner_output_variables, Loads, ScriptBuilders
  <2>3. Defined(op) = <<"Header", "Block", "ConstCoinbaseTx">>
    BY <2>2 DEF Defined
  <2> QED
    BY <2>1, <2>3, RepresentationTable
<1>13. CASE op.name = "BuildCoinbaseTxInput"
  <2>1. appends(op) = <<"CoinbaseInput">>
    BY <1>13 DEF appends, Loads, ScriptBuilders
  <2>2. /\ get_output_variables(op) = <<"CoinbaseInput">>
        /\ get_inner_output_variables(op) = << >>
    BY <1>13
    DEF get_output_variables, get_inner_output_variables, Loads, ScriptBuilders
  <2>3. Defined(op) = <<"CoinbaseInput">>
    BY <2>2 DEF Defined
  <2> QED
    BY <2>1, <2>3, RepresentationTable
<1>14. CASE op.name = "BuildCompactBlock"
  <2>1. appends(op) = <<"CmpctBlock">>
    BY <1>14 DEF appends, Loads, ScriptBuilders
  <2>2. /\ get_output_variables(op) = <<"CompactBlock">>
        /\ get_inner_output_variables(op) = << >>
    BY <1>14
    DEF get_output_variables, get_inner_output_variables, Loads, ScriptBuilders
  <2>3. Defined(op) = <<"CompactBlock">>
    BY <2>2 DEF Defined
  <2> QED
    BY <2>1, <2>3, RepresentationTable
<1>15. CASE op.name \in {"BuildFilterAddFromTx", "BuildFilterAddFromTxo"}
  <2>1. appends(op) = <<"FilterAdd">>
    BY <1>15 DEF appends, Loads, ScriptBuilders
  <2>2. /\ get_output_variables(op) = <<"FilterAdd">>
        /\ get_inner_output_variables(op) = << >>
    BY <1>15
    DEF get_output_variables, get_inner_output_variables, Loads, ScriptBuilders
  <2>3. Defined(op) = <<"FilterAdd">>
    BY <2>2 DEF Defined
  <2> QED
    BY <2>1, <2>3, RepresentationTable
<1>16. CASE op.name \in ScriptBuilders \cup {"TaprootScriptsUseAnnex"}
  <2>1. appends(op) = <<"Scripts">>
    BY <1>16 DEF appends, Loads, ScriptBuilders
  <2>2. /\ get_output_variables(op) = <<"Scripts">>
        /\ get_inner_output_variables(op) = << >>
    BY <1>16
    DEF get_output_variables, get_inner_output_variables, Loads, ScriptBuilders
  <2>3. Defined(op) = <<"Scripts">>
    BY <2>2 DEF Defined
  <2> QED
    BY <2>1, <2>3, RepresentationTable
<1>17. CASE op.name = "BuildTaprootTree"
  <2>1. appends(op) = <<"TaprootSpendInfo">>
    BY <1>17 DEF appends, Loads, ScriptBuilders
  <2>2. /\ get_output_variables(op) = <<"TaprootSpendInfo">>
        /\ get_inner_output_variables(op) = << >>
    BY <1>17
    DEF get_output_variables, get_inner_output_variables, Loads, ScriptBuilders
  <2>3. Defined(op) = <<"TaprootSpendInfo">>
    BY <2>2 DEF Defined
  <2> QED
    BY <2>1, <2>3, RepresentationTable
<1>18. CASE op.name = "EndBlockTransactions"
  <2>1. appends(op) = <<"BlockTransactions">>
    BY <1>18 DEF appends, Loads, ScriptBuilders
  <2>2. /\ get_output_variables(op) = <<"ConstBlockTransactions">>
        /\ get_inner_output_variables(op) = << >>
    BY <1>18
    DEF get_output_variables, get_inner_output_variables, Loads, ScriptBuilders
  <2>3. Defined(op) = <<"ConstBlockTransactions">>
    BY <2>2 DEF Defined
  <2> QED
    BY <2>1, <2>3, RepresentationTable
<1>19. CASE op.name = "EndBuildAddrList"
  <2>1. appends(op) = <<"Vec<u32_Address>">>
    BY <1>19 DEF appends, Loads, ScriptBuilders
  <2>2. /\ get_output_variables(op) = <<"ConstAddrList">>
        /\ get_inner_output_variables(op) = << >>
    BY <1>19
    DEF get_output_variables, get_inner_output_variables, Loads, ScriptBuilders
  <2>3. Defined(op) = <<"ConstAddrList">>
    BY <2>2 DEF Defined
  <2> QED
    BY <2>1, <2>3, RepresentationTable
<1>20. CASE op.name = "EndBuildAddrListV2"
  <2>1. appends(op) = <<"Vec<AddrV2Message>">>
    BY <1>20 DEF appends, Loads, ScriptBuilders
  <2>2. /\ get_output_variables(op) = <<"ConstAddrListV2">>
        /\ get_inner_output_variables(op) = << >>
    BY <1>20
    DEF get_output_variables, get_inner_output_variables, Loads, ScriptBuilders
  <2>3. Defined(op) = <<"ConstAddrListV2">>
    BY <2>2 DEF Defined
  <2> QED
    BY <2>1, <2>3, RepresentationTable
<1>21. CASE op.name = "EndBuildBlockTxn"
  <2>1. appends(op) = <<"bip152::BlockTransactions">>
    BY <1>21 DEF appends, Loads, ScriptBuilders
  <2>2. /\ get_output_variables(op) = <<"ConstBlockTxn">>
        /\ get_inner_output_variables(op) = << >>
    BY <1>21
    DEF get_output_variables, get_inner_output_variables, Loads, ScriptBuilders
  <2>3. Defined(op) = <<"ConstBlockTxn">>
    BY <2>2 DEF Defined
  <2> QED
    BY <2>1, <2>3, RepresentationTable
<1>22. CASE op.name = "EndBuildCoinbaseTx"
  <2>1. appends(op) = <<"CoinbaseTx">>
    BY <1>22 DEF appends, Loads, ScriptBuilders
  <2>2. /\ get_output_variables(op) = <<"CoinbaseTx">>
        /\ get_inner_output_variables(op) = << >>
    BY <1>22
    DEF get_output_variables, get_inner_output_variables, Loads, ScriptBuilders
  <2>3. Defined(op) = <<"CoinbaseTx">>
    BY <2>2 DEF Defined
  <2> QED
    BY <2>1, <2>3, RepresentationTable
<1>23. CASE op.name \in {"EndBuildCoinbaseTxOutputs", "EndBuildTxOutputs"}
  <2>1. appends(op) = <<"TxOutputs">>
    BY <1>23 DEF appends, Loads, ScriptBuilders
  <2>2. /\ get_output_variables(op) = <<"ConstTxOutputs">>
        /\ get_inner_output_variables(op) = << >>
    BY <1>23
    DEF get_output_variables, get_inner_output_variables, Loads, ScriptBuilders
  <2>3. Defined(op) = <<"ConstTxOutputs">>
    BY <2>2 DEF Defined
  <2> QED
    BY <2>1, <2>3, RepresentationTable
<1>24. CASE op.name = "EndBuildFilterLoad"
  <2>1. appends(op) = <<"FilterLoad">>
    BY <1>24 DEF appends, Loads, ScriptBuilders
  <2>2. /\ get_output_variables(op) = <<"ConstFilterLoad">>
        /\ get_inner_output_variables(op) = << >>
    BY <1>24
    DEF get_output_variables, get_inner_output_variables, Loads, ScriptBuilders
  <2>3. Defined(op) = <<"ConstFilterLoad">>
    BY <2>2 DEF Defined
  <2> QED
    BY <2>1, <2>3, RepresentationTable
<1>25. CASE op.name = "EndBuildInventory"
  <2>1. appends(op) = <<"Vec<Inventory>">>
    BY <1>25 DEF appends, Loads, ScriptBuilders
  <2>2. /\ get_output_variables(op) = <<"ConstInventory">>
        /\ get_inner_output_variables(op) = << >>
    BY <1>25
    DEF get_output_variables, get_inner_output_variables, Loads, ScriptBuilders
  <2>3. Defined(op) = <<"ConstInventory">>
    BY <2>2 DEF Defined
  <2> QED
    BY <2>1, <2>3, RepresentationTable
<1>26. CASE op.name = "EndBuildTx"
  <2>1. appends(op) = <<"Tx">>
    BY <1>26 DEF appends, Loads, ScriptBuilders
  <2>2. /\ get_output_variables(op) = <<"ConstTx">>
        /\ get_inner_output_variables(op) = << >>
    BY <1>26
    DEF get_output_variables, get_inner_output_variables, Loads, ScriptBuilders
  <2>3. Defined(op) = <<"ConstTx">>
    BY <2>2 DEF Defined
  <2> QED
    BY <2>1, <2>3, RepresentationTable
<1>27. CASE op.name = "EndBuildTxInputs"
  <2>1. appends(op) = <<"TxInputs">>
    BY <1>27 DEF appends, Loads, ScriptBuilders
  <2>2. /\ get_output_variables(op) = <<"ConstTxInputs">>
        /\ get_inner_output_variables(op) = << >>
    BY <1>27
    DEF get_output_variables, get_inner_output_variables, Loads, ScriptBuilders
  <2>3. Defined(op) = <<"ConstTxInputs">>
    BY <2>2 DEF Defined
  <2> QED
    BY <2>1, <2>3, RepresentationTable
<1>28. CASE op.name = "EndWitnessStack"
  <2>1. appends(op) = <<"Witness">>
    BY <1>28 DEF appends, Loads, ScriptBuilders
  <2>2. /\ get_output_variables(op) = <<"ConstWitnessStack">>
        /\ get_inner_output_variables(op) = << >>
    BY <1>28
    DEF get_output_variables, get_inner_output_variables, Loads, ScriptBuilders
  <2>3. Defined(op) = <<"ConstWitnessStack">>
    BY <2>2 DEF Defined
  <2> QED
    BY <2>1, <2>3, RepresentationTable
<1>29. CASE op.name \in Loads
  <2>1. loaded_rust(op) = representation(loaded_variable(op))
    BY <1>29, LoadTable
  <2>2. op.name \in Loads /\ op.name # "Nop" /\ ~ is_block_begin(op)
    BY <1>29 DEF Loads, is_block_begin
  <2>3. appends(op) = <<loaded_rust(op)>>
    BY <2>2, SMTT(60) DEF appends, Loads, ScriptBuilders
  <2>4. get_output_variables(op) = <<loaded_variable(op)>>
    BY <2>2 DEF get_output_variables, Loads, ScriptBuilders
  <2>5. get_inner_output_variables(op) = << >>
    BY <2>2 DEF get_inner_output_variables, Loads
  <2>6. Defined(op) = <<loaded_variable(op)>>
    BY <2>4, <2>5 DEF Defined
  <2> QED
    BY <2>1, <2>3, <2>6
<1>30. CASE op.name \in {"TakeCoinbaseTxo", "TakeTxo", "TaprootTxoUseAnnex"}
  <2>1. appends(op) = <<"Txo">>
    BY <1>30 DEF appends, Loads, ScriptBuilders
  <2>2. /\ get_output_variables(op) = <<"Txo">>
        /\ get_inner_output_variables(op) = << >>
    BY <1>30
    DEF get_output_variables, get_inner_output_variables, Loads, ScriptBuilders
  <2>3. Defined(op) = <<"Txo">>
    BY <2>2 DEF Defined
  <2> QED
    BY <2>1, <2>3, RepresentationTable
<1> QED
  BY <1>1, <1>2, <1>3, <1>4, <1>5, <1>6, <1>7, <1>8, <1>9, <1>10, <1>11,
     <1>12, <1>13, <1>14, <1>15, <1>16, <1>17, <1>18, <1>19, <1>20, <1>21,
     <1>22, <1>23, <1>24, <1>25, <1>26, <1>27, <1>28, <1>29,
     <1>30 DEF OperationName,
    Loads, ScriptBuilders, Sends, Adds, TxInvs, BlockInvs

\* The same with Nop, for the operations callers append.
LEMMA AppendsDefined ==
  ASSUME NEW op \in Operation
  PROVE  /\ Defined(op) \in Seq(Variable)
         /\ Len(appends(op)) = Len(Defined(op))
         /\ \A k \in 1 .. Len(appends(op)) : appends(op)[k] = representation(Defined(op)[k])
<1>1. Defined(op) \in Seq(Variable)
  BY OutputsType, InnerOutputsType DEF Defined
<1>2. op.name \in OperationName \ {"AdvanceTime"}
  BY CompilerAssumption
<1>3. CASE op.name # "Nop"
  BY <1>1, <1>2, <1>3, AppendTable
<1>4. CASE op.name = "Nop"
  <2> DEFINE m == op.args[1]
             n == op.args[2]
             both == [k \in 1 .. m + n |-> "Nop"]
  <2>1. m \in Nat /\ n \in Nat
    BY <1>4, OperationAssumption
  <2>2. /\ appends(op) = both
        /\ Defined(op) = [k \in 1 .. m |-> "Nop"] \o [k \in 1 .. n |-> "Nop"]
    BY <1>4 DEF appends, Defined, get_output_variables, get_inner_output_variables,
      Loads, ScriptBuilders
  <2> HIDE DEF m, n
  <2>3. [k \in 1 .. m |-> "Nop"] \o [k \in 1 .. n |-> "Nop"] = both
    BY <2>1
  <2>4. \A k \in 1 .. Len(both) : both[k] = representation(both[k])
    BY <2>1, RepresentationTable
  <2> HIDE DEF both
  <2> QED
    BY <1>1, <2>2, <2>3, <2>4
<1> QED
  BY <1>3, <1>4

-----------------------------------------------------------------------------
\* The layout of a program's variables.

\* Instruction i reads variables among the first m of vs, of the right types.
ReadsBefore(vs, m, i) ==
  /\ Len(i.inputs) = num_inputs(i.operation)
  /\ \A n \in 1 .. Len(i.inputs) :
       /\ i.inputs[n] \in 1 .. m
       /\ vs[i.inputs[n]].var = get_input_variables(i.operation)[n]

\* After instruction k of p there are off[k] of the variables vs: those it
\* defines come right behind those of the instructions before it.
Layout(off, vs, p) ==
  /\ off \in [0 .. Len(p) -> 0 .. Len(vs)]
  /\ off[0] = 0 /\ off[Len(p)] = Len(vs)
  /\ \A k \in 1 .. Len(p) :
       /\ off[k] = off[k - 1] + Len(Defined(p[k].operation))
       /\ \A n \in 1 .. Len(Defined(p[k].operation)) :
            vs[off[k - 1] + n].var = Defined(p[k].operation)[n]
       /\ ReadsBefore(vs, off[k - 1], p[k])

\* What is laid out stays where it is, and more comes behind it.
LayoutGrows(off, vs, p, off2, vs2, p2) ==
  /\ Layout(off2, vs2, p2)
  /\ Len(p) <= Len(p2) /\ Len(vs) <= Len(vs2)
  /\ \A k \in 0 .. Len(p) : off2[k] = off[k]
  /\ \A k \in 1 .. Len(p) : p2[k] = p[k]
  /\ \A v \in 1 .. Len(vs) : vs2[v].var = vs[v].var

\* Variables defined behind others, whatever scope they go to.
LEMMA TaggedVars ==
  ASSUME NEW T, NEW vs \in Seq(T), NEW types \in Seq(Variable), NEW id
  PROVE  /\ Len(vs \o Tagged(types, id)) = Len(vs) + Len(types)
         /\ \A v \in 1 .. Len(vs) : (vs \o Tagged(types, id))[v] = vs[v]
         /\ \A n \in 1 .. Len(types) :
              (vs \o Tagged(types, id))[Len(vs) + n].var = types[n]
<1> DEFINE more == Tagged(types, id)
           U == T \cup {[var |-> t, scope_id |-> id] : t \in Variable}
<1>1. Len(vs) \in Nat /\ Len(types) \in Nat /\ \A k \in 1 .. Len(types) : types[k] \in Variable
  BY ElementOfSeq
<1>2. /\ more \in Seq(U) /\ Len(more) = Len(types)
      /\ \A k \in 1 .. Len(types) : more[k].var = types[k]
  BY <1>1 DEF Tagged
<1>3. vs \in Seq(U)
  OBVIOUS
<1> HIDE DEF more, U
<1>4. /\ Len(vs \o more) = Len(vs) + Len(more)
      /\ \A v \in 1 .. Len(vs) + Len(more) :
           (vs \o more)[v] = IF v <= Len(vs) THEN vs[v] ELSE more[v - Len(vs)]
  BY ONLY <1>2, <1>3, ConcatProperties, Zenon
<1>5. \A v \in 1 .. Len(vs) : (vs \o more)[v] = vs[v]
  BY <1>1, <1>2, <1>4
<1>6. ASSUME NEW n \in 1 .. Len(types) PROVE (vs \o more)[Len(vs) + n].var = types[n]
  <2>1. Len(vs) + n \in 1 .. Len(vs) + Len(more) /\ ~ (Len(vs) + n <= Len(vs))
        /\ (Len(vs) + n) - Len(vs) = n
    BY <1>1, <1>2
  <2>2. (vs \o more)[Len(vs) + n] = more[n]
    BY <1>4, <2>1
  <2> QED
    BY <1>2, <2>2
<1> QED
  BY <1>2, <1>4, <1>5, <1>6 DEF more

\* What an accepted instruction defines comes behind everything else.
LEMMA AcceptDefines ==
  ASSUME NEW b \in Builder, NEW i \in InstructionType
  PROVE  LET vs2 == accept(b, i).variables
         IN  /\ Len(vs2) = Len(b.variables) + Len(Defined(i.operation))
             /\ \A v \in 1 .. Len(b.variables) : vs2[v] = b.variables[v]
             /\ \A n \in 1 .. Len(Defined(i.operation)) :
                  vs2[Len(b.variables) + n].var = Defined(i.operation)[n]
<1> DEFINE op == i.operation
           vs == b.variables
           outs == get_output_variables(op)
           inns == get_inner_output_variables(op)
           outer == OuterId(b, op)
           inner == InnerId(b, op)
           v1 == vs \o Tagged(outs, outer)
           v2 == v1 \o Tagged(inns, inner)
<1>1. op \in Operation /\ outs \in Seq(Variable) /\ inns \in Seq(Variable)
  <2>1. op \in Operation
    BY DEF InstructionType
  <2> QED
    BY <2>1, OutputsType, InnerOutputsType
<1>2. accept(b, i).variables = v2 /\ vs \in Seq(VariableType0)
  BY AcceptFields, BuilderFields
<1>3. Defined(op) = outs \o inns
  BY DEF Defined
<1> DEFINE T == VariableType0 \cup {[var |-> t, scope_id |-> outer] : t \in Variable}
<1> HIDE DEF vs, outs, inns, outer, inner, op
<1>4. /\ v1 \in Seq(T)
      /\ Len(v1) = Len(vs) + Len(outs)
      /\ \A v \in 1 .. Len(vs) : v1[v] = vs[v]
      /\ \A n \in 1 .. Len(outs) : v1[Len(vs) + n].var = outs[n]
  <2>1. Tagged(outs, outer) \in Seq(T)
    <3>1. Len(outs) \in Nat /\ \A k \in 1 .. Len(outs) : outs[k] \in Variable
      BY <1>1, ElementOfSeq
    <3>2. \A k \in 1 .. Len(outs) : [var |-> outs[k], scope_id |-> outer] \in T
      BY <3>1
    <3> HIDE DEF T
    <3> QED
      BY <3>1, <3>2 DEF Tagged
  <2>3. vs \in Seq(T)
    BY <1>2
  <2> HIDE DEF T
  <2>2. v1 \in Seq(T)
    BY <2>1, <2>3
  <2>4. /\ Len(v1) = Len(vs) + Len(outs)
        /\ \A v \in 1 .. Len(vs) : v1[v] = vs[v]
        /\ \A n \in 1 .. Len(outs) : v1[Len(vs) + n].var = outs[n]
    BY ONLY <1>1, <2>3, TaggedVars
  <2> QED
    BY <2>2, <2>4
<1> HIDE DEF T, v1
<1>5. /\ Len(v2) = Len(v1) + Len(inns)
      /\ \A v \in 1 .. Len(v1) : v2[v] = v1[v]
      /\ \A n \in 1 .. Len(inns) : v2[Len(v1) + n].var = inns[n]
  <2>1. v1 \in Seq(T)
    BY <1>4
  <2> QED
    BY ONLY <1>1, <2>1, TaggedVars
<1> HIDE DEF v2
<1>6. Len(vs) \in Nat /\ Len(outs) \in Nat /\ Len(inns) \in Nat
  BY <1>1, <1>2
<1>7. /\ Len(outs \o inns) = Len(outs) + Len(inns)
      /\ \A n \in 1 .. Len(outs) + Len(inns) :
           (outs \o inns)[n] = IF n <= Len(outs) THEN outs[n] ELSE inns[n - Len(outs)]
  BY ONLY <1>1, ConcatProperties, Zenon
<1>8. ASSUME NEW v \in 1 .. Len(vs)
      PROVE  v2[v] = vs[v]
  <2>1. v \in 1 .. Len(v1)
    BY <1>4, <1>6, SMT
  <2>2. v2[v] = v1[v]
    BY <1>5, <2>1, Zenon
  <2>3. v1[v] = vs[v]
    BY <1>4, Zenon
  <2> QED
    BY <2>2, <2>3
<1>9. ASSUME NEW n \in 1 .. Len(outs) + Len(inns)
      PROVE  v2[Len(vs) + n].var = (outs \o inns)[n]
  <2>1. CASE n <= Len(outs)
    <3>1. n \in 1 .. Len(outs) /\ Len(vs) + n \in 1 .. Len(v1)
      BY <1>4, <1>6, <2>1
    <3>2. v2[Len(vs) + n] = v1[Len(vs) + n] /\ v1[Len(vs) + n].var = outs[n]
      BY <1>4, <1>5, <3>1
    <3> QED
      BY <1>7, <2>1, <3>2
  <2>2. CASE ~ (n <= Len(outs))
    <3>1. n - Len(outs) \in 1 .. Len(inns) /\ Len(vs) + n = Len(v1) + (n - Len(outs))
      BY <1>4, <1>6, <2>2
    <3>2. v2[Len(vs) + n].var = inns[n - Len(outs)]
      BY <1>5, <3>1
    <3> QED
      BY <1>7, <2>2, <3>2
  <2> QED
    BY <2>1, <2>2
<1>10. /\ Len(accept(b, i).variables) = Len(vs) + Len(outs \o inns)
       /\ \A v \in 1 .. Len(vs) : accept(b, i).variables[v] = vs[v]
       /\ \A n \in 1 .. Len(outs \o inns) :
            accept(b, i).variables[Len(vs) + n].var = (outs \o inns)[n]
  BY <1>2, <1>4, <1>5, <1>6, <1>7, <1>8, <1>9
<1> QED
  BY <1>3, <1>10 DEF vs, op

\* A validated instruction reads variables that are there, of its types.
LEMMA ValidatedReads ==
  ASSUME NEW b, NEW i, Validate(b, i) = "ok"
  PROVE  ReadsBefore(b.variables, Len(b.variables), i)
<1>1. num_inputs(i.operation) = Len(i.inputs) /\ InputsInScope(b, i) /\ check_input_types(b, i)
  BY DEF Validate
<1> QED
  BY <1>1 DEF InputsInScope, check_input_types, ReadsBefore

\* Laid-out variables are read as before when more come behind them.
LEMMA ReadsBeforeGrows ==
  ASSUME NEW m \in Nat, NEW n \in Nat, m <= n, NEW vs, NEW vs2,
         \A v \in 1 .. m : vs2[v].var = vs[v].var,
         NEW i, ReadsBefore(vs, m, i)
  PROVE  ReadsBefore(vs2, n, i)
BY DEF ReadsBefore

\* An append lays out what it accepts, and nothing else.
LEMMA AppendLayout ==
  ASSUME NEW b, Inv(b), NEW i \in InstructionType,
         NEW off, Layout(off, b.variables, b.instructions)
  PROVE  \E off2 : LayoutGrows(off, b.variables, b.instructions, off2,
                               append(b, i).variables, append(b, i).instructions)
<1> DEFINE vs == b.variables
           p == b.instructions
           vs2 == append(b, i).variables
           p2 == append(b, i).instructions
           D(k) == Len(Defined(p[k].operation))
<1>1. /\ b \in Builder /\ vs \in Seq(VariableType0) /\ p \in Seq(InstructionType)
      /\ Len(vs) \in Nat /\ Len(p) \in Nat
  BY BuilderFields, VariableIds, ElementOfSeq DEF Inv
<1>2. CASE vs2 = vs /\ p2 = p
  <2>1. LayoutGrows(off, vs, p, off, vs2, p2)
    BY <1>1, <1>2 DEF LayoutGrows
  <2> QED
    BY <2>1
<1>3. CASE Validate(b, i) = "ok" /\ append(b, i) = accept(b, i)
  <2> DEFINE n == Len(p) + 1
             off2 == [k \in 0 .. n |-> IF k = n THEN Len(vs2) ELSE off[k]]
  <2>1. /\ Len(vs2) = Len(vs) + Len(Defined(i.operation))
        /\ \A v \in 1 .. Len(vs) : vs2[v] = vs[v]
        /\ \A k \in 1 .. Len(Defined(i.operation)) :
             vs2[Len(vs) + k].var = Defined(i.operation)[k]
    BY <1>1, <1>3, AcceptDefines
  <2>v. \A v \in 1 .. Len(vs) : vs2[v].var = vs[v].var
    BY <2>1
  <2>2. p2 = Append(p, i)
    BY <1>1, <1>3, AcceptFields
  <2>3. Len(p2) = n /\ p2[n] = i /\ \A k \in 1 .. Len(p) : p2[k] = p[k]
    BY <1>1, <2>2
  <2>4. Len(Defined(i.operation)) \in Nat
    <3>1. i.operation \in Operation
      BY DEF InstructionType
    <3> QED
      BY <3>1, AppendsDefined
  <2>5. ReadsBefore(vs, Len(vs), i)
    BY <1>3, ValidatedReads
  <2> HIDE DEF vs, p, vs2, p2
  <2>6. /\ off \in [0 .. Len(p) -> 0 .. Len(vs)]
        /\ off[0] = 0 /\ off[Len(p)] = Len(vs)
        /\ \A k \in 1 .. Len(p) :
             /\ off[k] = off[k - 1] + Len(Defined(p[k].operation))
             /\ \A m \in 1 .. Len(Defined(p[k].operation)) :
                  vs[off[k - 1] + m].var = Defined(p[k].operation)[m]
             /\ ReadsBefore(vs, off[k - 1], p[k])
    BY DEF Layout, vs, p
  <2>7. \A k \in 0 .. Len(p) : /\ off[k] \in Nat /\ off[k] <= Len(vs)
                               /\ off2[k] = off[k]
    BY <1>1, <2>6
  <2>8. Len(vs2) \in Nat /\ Len(vs) <= Len(vs2)
    BY <1>1, <2>1, <2>4
  <2>9. off2 \in [0 .. n -> 0 .. Len(vs2)] /\ off2[0] = 0 /\ off2[n] = Len(vs2)
    <3>1. \A k \in 0 .. n : k # n => k \in 0 .. Len(p)
      BY <1>1
    <3>2. 0 \in 0 .. Len(p)
      BY <1>1
    <3> QED
      BY <1>1, <2>6, <2>7, <2>8, <3>1, <3>2
  <2> HIDE DEF off2
  <2>10. ASSUME NEW k \in 1 .. n
         PROVE  /\ off2[k] = off2[k - 1] + Len(Defined(p2[k].operation))
                /\ \A m \in 1 .. Len(Defined(p2[k].operation)) :
                     vs2[off2[k - 1] + m].var = Defined(p2[k].operation)[m]
                /\ ReadsBefore(vs2, off2[k - 1], p2[k])
    <3>1. CASE k = n
      <4>1. off2[k - 1] = Len(vs) /\ p2[k] = i
        BY <1>1, <2>3, <2>6, <2>7, <3>1
      <4>2. ReadsBefore(vs2, Len(vs), i)
        BY <2>v, <2>5 DEF ReadsBefore
      <4> QED
        BY <2>1, <2>9, <3>1, <4>1, <4>2
    <3>2. CASE k # n
      <4>1. k \in 1 .. Len(p) /\ k \in 0 .. Len(p) /\ k - 1 \in 0 .. Len(p)
        BY <1>1, <3>2
      <4>2. /\ p2[k] = p[k] /\ off2[k] = off[k] /\ off2[k - 1] = off[k - 1]
            /\ off[k] \in Nat /\ off[k - 1] \in Nat /\ off[k] <= Len(vs)
            /\ off[k - 1] <= Len(vs)
        BY <2>3, <2>7, <4>1
      <4>3. \A v \in 1 .. off[k - 1] : vs2[v].var = vs[v].var
        BY <1>1, <2>v, <4>2
      <4>4. ReadsBefore(vs2, off2[k - 1], p2[k])
        <5>1. ReadsBefore(vs, off[k - 1], p[k]) /\ off[k - 1] <= off[k - 1]
          BY <2>6, <4>1, <4>2
        <5>2. ReadsBefore(vs2, off[k - 1], p[k])
          BY <4>2, <4>3, <5>1, ReadsBeforeGrows
        <5> QED
          BY <4>2, <5>2
      <4>5. ASSUME NEW m \in 1 .. Len(Defined(p[k].operation))
            PROVE  vs2[off[k - 1] + m].var = Defined(p[k].operation)[m]
        <5>1. off[k] = off[k - 1] + Len(Defined(p[k].operation))
          BY <2>6, <4>1
        <5>2. Len(Defined(p[k].operation)) \in Nat
          <6>1. p[k] \in InstructionType
            BY <1>1, <4>1, ElementOfSeq DEF p
          <6>2. p[k].operation \in Operation
            BY <6>1 DEF InstructionType
          <6> QED
            BY <6>2, AppendsDefined
        <5>3. off[k - 1] + m \in 1 .. Len(vs)
          BY <1>1, <4>2, <5>1, <5>2
        <5> QED
          BY <2>1, <2>6, <4>1, <5>3
      <4> QED
        BY <2>6, <4>1, <4>2, <4>4, <4>5
    <3> QED
      BY <3>1, <3>2
  <2>11. Layout(off2, vs2, p2)
    BY <2>3, <2>9, <2>10 DEF Layout
  <2>12. LayoutGrows(off, vs, p, off2, vs2, p2)
    <3>1. Len(p) <= Len(p2)
      BY <1>1, <2>3
    <3> QED
      BY <2>v, <2>3, <2>7, <2>8, <2>11, <3>1 DEF LayoutGrows
  <2> QED
    BY <2>12 DEF vs, p, vs2, p2
<1>4. CASE Validate(b, i) # "ok"
  <2>1. append(b, i) = [b EXCEPT !.result = Validate(b, i)]
    BY <1>4 DEF append
  <2>2. vs2 = vs /\ p2 = p
    BY <1>1, <2>1 DEF Builder
  <2> QED
    BY <1>2, <2>2
<1>5. CASE append(b, i) = refuse_block_end(b)
  <2>1. vs2 = vs /\ p2 = p
    BY <1>1, <1>5 DEF refuse_block_end, exit_scope, push_context, Builder
  <2> QED
    BY <1>2, <2>1
<1> QED
  BY <1>3, <1>4, <1>5 DEF append

-----------------------------------------------------------------------------
\* The values that refer to variables, or that such values are taken from.

\* Variable v of vs is there and has this Rust type.
Holds(vs, v, rust) == v \in 1 .. Len(vs) /\ vs[v].rust = rust

\* What a script is signed with can be looked up; the annex is looked up with
\* an error, not an unwrap.
GoodScripts(vs, s) ==
  /\ DOMAIN s = {"script", "signing", "vars", "annex"}
  /\ s.signing \in {"None", "Legacy", "Taproot"}
  /\ s.signing = "Legacy" => /\ Holds(vs, s.vars[1], "[u8_32]")
                             /\ Holds(vs, s.vars[2], "u8")
  /\ s.signing = "Taproot" => Holds(vs, s.vars[1], "TaprootSpendInfo")

GoodTxo(vs, t) ==
  DOMAIN t = {"prev_out", "scripts"} /\ GoodScripts(vs, t.scripts)

GoodInput(vs, x) ==
  Holds(vs, x.txo_var, "Txo") /\ Holds(vs, x.sequence_var, "u32")

GoodInputs(vs, l) == \E S : l \in Seq(S) /\ \A x \in S : GoodInput(vs, x)

GoodOutputs(vs, l) == \E S : l \in Seq(S) /\ \A x \in S : GoodScripts(vs, x)

GoodTxos(vs, l) == \E S : l \in Seq(S) /\ \A x \in S : GoodTxo(vs, x)

GoodTx(vs, t) ==
  /\ DOMAIN t = {"body", "txos", "output_selector"}
  /\ t.output_selector \in Nat
  /\ GoodTxos(vs, t.txos)

GoodValue(vs, rust, d) ==
  /\ rust = "Scripts" => GoodScripts(vs, d)
  /\ rust = "Txo" => GoodTxo(vs, d)
  /\ rust = "TxInputs" => GoodInputs(vs, d)
  /\ rust = "TxOutputs" => GoodOutputs(vs, d)
  /\ rust = "Tx" => GoodTx(vs, d)
  /\ rust = "CoinbaseTx" => GoodOutputs(vs, d.scripts)

Structured == {"Scripts", "Txo", "TxInputs", "TxOutputs", "Tx", "CoinbaseTx"}

\* What a value refers to is still there when variables come behind or change
\* their data.
LEMMA HoldsOn ==
  ASSUME NEW vs, NEW vs2, Len(vs) \in Nat, Len(vs2) \in Nat, Len(vs) <= Len(vs2),
         \A v \in 1 .. Len(vs) : vs2[v].rust = vs[v].rust,
         NEW v, NEW rust, Holds(vs, v, rust)
  PROVE  Holds(vs2, v, rust)
BY DEF Holds

\* The same for each kind of value.
LEMMA GoodOn ==
  ASSUME NEW vs, NEW vs2, Len(vs) \in Nat, Len(vs2) \in Nat, Len(vs) <= Len(vs2),
         \A v \in 1 .. Len(vs) : vs2[v].rust = vs[v].rust,
         NEW rust, NEW d, GoodValue(vs, rust, d)
  PROVE  GoodValue(vs2, rust, d)
<1>h. \A v, r : Holds(vs, v, r) => Holds(vs2, v, r)
  BY HoldsOn
<1>1. ASSUME NEW s, GoodScripts(vs, s) PROVE GoodScripts(vs2, s)
  BY <1>h, <1>1 DEF GoodScripts
<1>2. ASSUME NEW t, GoodTxo(vs, t) PROVE GoodTxo(vs2, t)
  BY <1>1, <1>2 DEF GoodTxo
<1>3. ASSUME NEW l, GoodInputs(vs, l) PROVE GoodInputs(vs2, l)
  <2>1. PICK S : l \in Seq(S) /\ \A x \in S : GoodInput(vs, x)
    BY <1>3 DEF GoodInputs
  <2>2. \A x \in S : GoodInput(vs2, x)
    BY <1>h, <2>1 DEF GoodInput
  <2> QED
    BY <2>1, <2>2 DEF GoodInputs
<1>4. ASSUME NEW l, GoodOutputs(vs, l) PROVE GoodOutputs(vs2, l)
  <2>1. PICK S : l \in Seq(S) /\ \A x \in S : GoodScripts(vs, x)
    BY <1>4 DEF GoodOutputs
  <2> QED
    BY <1>1, <2>1 DEF GoodOutputs
<1>5. ASSUME NEW l, GoodTxos(vs, l) PROVE GoodTxos(vs2, l)
  <2>1. PICK S : l \in Seq(S) /\ \A x \in S : GoodTxo(vs, x)
    BY <1>5 DEF GoodTxos
  <2> QED
    BY <1>2, <2>1 DEF GoodTxos
<1>6. GoodTx(vs, d) => GoodTx(vs2, d)
  BY <1>5 DEF GoodTx
<1> QED
  BY <1>1, <1>2, <1>3, <1>4, <1>6 DEF GoodValue

\* Collections start empty, and grow by what is added.
LEMMA EmptyIsGood ==
  ASSUME NEW vs
  PROVE  GoodInputs(vs, << >>) /\ GoodOutputs(vs, << >>) /\ GoodTxos(vs, << >>)
<1> DEFINE E == {}
<1>1. << >> \in Seq(E) /\ \A x : x \notin E
  OBVIOUS
<1> HIDE DEF E
<1>2. GoodInputs(vs, << >>)
  BY <1>1, Zenon DEF GoodInputs
<1>3. GoodOutputs(vs, << >>)
  BY <1>1, Zenon DEF GoodOutputs
<1>4. GoodTxos(vs, << >>)
  BY <1>1, Zenon DEF GoodTxos
<1> QED
  BY <1>2, <1>3, <1>4

LEMMA AppendIsGood ==
  ASSUME NEW vs, NEW l, NEW x
  PROVE  /\ GoodInputs(vs, l) /\ GoodInput(vs, x) => GoodInputs(vs, Append(l, x))
         /\ GoodOutputs(vs, l) /\ GoodScripts(vs, x) => GoodOutputs(vs, Append(l, x))
<1>g. ASSUME NEW S, l \in Seq(S) PROVE Append(l, x) \in Seq(S \cup {x})
  <2>1. l \in Seq(S \cup {x})
    BY <1>g
  <2> QED
    BY <2>1
<1>1. ASSUME GoodInputs(vs, l), GoodInput(vs, x) PROVE GoodInputs(vs, Append(l, x))
  <2>1. PICK S : l \in Seq(S) /\ \A y \in S : GoodInput(vs, y)
    BY <1>1 DEF GoodInputs
  <2>2. \A y \in S \cup {x} : GoodInput(vs, y)
    BY <1>1, <2>1
  <2>3. Append(l, x) \in Seq(S \cup {x})
    BY <1>g, <2>1
  <2> QED
    BY <2>2, <2>3 DEF GoodInputs
<1>2. ASSUME GoodOutputs(vs, l), GoodScripts(vs, x) PROVE GoodOutputs(vs, Append(l, x))
  <2>1. PICK S : l \in Seq(S) /\ \A y \in S : GoodScripts(vs, y)
    BY <1>2 DEF GoodOutputs
  <2>2. \A y \in S \cup {x} : GoodScripts(vs, y)
    BY <1>2, <2>1
  <2>3. Append(l, x) \in Seq(S \cup {x})
    BY <1>g, <2>1
  <2> QED
    BY <2>2, <2>3 DEF GoodOutputs
<1> QED
  BY <1>1, <1>2

\* Good outputs make good Txos, whatever transaction they belong to.
LEMMA TxosAreGood ==
  ASSUME NEW vs, NEW outputs, GoodOutputs(vs, outputs), NEW body
  PROVE  GoodTx(vs, Tx(body, txos_of(body, outputs)))
<1> DEFINE t(n) == [prev_out |-> [tx |-> body, n |-> n], scripts |-> outputs[n]]
           S == {t(n) : n \in 1 .. Len(outputs)}
<1>1. PICK R : outputs \in Seq(R) /\ \A x \in R : GoodScripts(vs, x)
  BY DEF GoodOutputs
<1>2. Len(outputs) \in Nat /\ \A n \in 1 .. Len(outputs) : GoodScripts(vs, outputs[n])
  BY <1>1, ElementOfSeq
<1>3. \A x \in S : GoodTxo(vs, x)
  <2> SUFFICES ASSUME NEW n \in 1 .. Len(outputs) PROVE GoodTxo(vs, t(n))
    OBVIOUS
  <2> QED
    BY <1>2 DEF GoodTxo
<1>4. txos_of(body, outputs) \in Seq(S)
  <2>1. txos_of(body, outputs) = [n \in 1 .. Len(outputs) |-> t(n)]
    BY DEF txos_of
  <2>2. \A n \in 1 .. Len(outputs) : t(n) \in S
    OBVIOUS
  <2> HIDE DEF t, S
  <2> QED
    BY <1>2, <2>1, <2>2
<1>5. GoodTxos(vs, txos_of(body, outputs))
  BY <1>3, <1>4 DEF GoodTxos
<1> QED
  BY <1>5 DEF GoodTx, Tx

\* What a transaction hands out is a good Txo, and it stays a good transaction.
LEMMA TakesAreGood ==
  ASSUME NEW vs, NEW t, GoodTx(vs, t)
  PROVE  /\ GoodTxo(vs, take_txo(t))
         /\ GoodTx(vs, IF t.txos = << >> THEN t
                       ELSE [t EXCEPT !.output_selector = @ + 1])
<1>1. PICK S : t.txos \in Seq(S) /\ \A x \in S : GoodTxo(vs, x)
  BY DEF GoodTx, GoodTxos
<1>2. CASE t.txos = << >>
  <2>1. GoodTxo(vs, take_txo(t))
    BY <1>2 DEF take_txo, GoodTxo, GoodScripts, Scripts
  <2> QED
    BY <1>2, <2>1
<1>3. CASE t.txos # << >>
  <2> DEFINE n == Len(t.txos)
             m == t.output_selector
  <2>1. n \in Nat /\ n # 0 /\ m \in Nat
    BY <1>1, <1>3 DEF GoodTx
  <2>2. take_txo(t) = t.txos[1 + (m % n)]
    BY <1>3 DEF take_txo
  <2>3. 1 + (m % n) \in 1 .. n
    <3> HIDE DEF m, n
    <3> QED
      BY <2>1
  <2>4. t.txos[1 + (m % n)] \in S
    <3> HIDE DEF m
    <3> QED
      BY <1>1, <2>3, ElementOfSeq
  <2>5. GoodTxo(vs, take_txo(t))
    BY <1>1, <2>2, <2>4
  <2>6. GoodTx(vs, [t EXCEPT !.output_selector = @ + 1])
    BY DEF GoodTx
  <2> QED
    BY <1>3, <2>5, <2>6
<1> QED
  BY <1>2, <1>3

-----------------------------------------------------------------------------
\* The values of a compiler c whose variables are good, behind an instruction i
\* whose inputs are there and of the types the handler asks for.

GoodValues(vs) ==
  /\ \E S : vs \in Seq(S)
  /\ \A v \in 1 .. Len(vs) : /\ DOMAIN vs[v] = {"rust", "data"}
                             /\ GoodValue(vs, vs[v].rust, vs[v].data)

\* An input that is there is good.
LEMMA InputIsGood ==
  ASSUME NEW c, GoodValues(c.variables), NEW i, Downcasts(c, i),
         NEW k \in 1 .. Len(reads(i.operation))
  PROVE  /\ i.inputs[k] \in 1 .. Len(c.variables)
         /\ c.variables[i.inputs[k]].rust = reads(i.operation)[k]
         /\ GoodValue(c.variables, reads(i.operation)[k], get_input(c, i, k))
<1>1. has(c, i.inputs[k], reads(i.operation)[k])
  BY DEF Downcasts
<1> QED
  BY <1>1 DEF has, GoodValues, get_input

\* What handlers append, one group after the other: scripts.
LEMMA BuiltScripts ==
  ASSUME NEW c, GoodValues(c.variables), NEW i, Downcasts(c, i), NEW now,
         i.operation.name \in ScriptBuilders
  PROVE  /\ appends(i.operation) = <<"Scripts">>
         /\ \E s : /\ appended_data(c, i, now) = <<s>>
                   /\ GoodScripts(c.variables, s)
<1> DEFINE op == i.operation
           vs == c.variables
           script == <<op.name>> \o contents(c, i, 1)
<1>1. appends(op) = <<"Scripts">>
  BY DEF appends, Loads, ScriptBuilders
<1>2. appended_data(c, i, now) = handle_script_building_operations(c, i)
  BY DEF appended_data, Loads, ScriptBuilders
<1>3. CASE op.name = "BuildPayToTaproot"
  <2>1. reads(op) = <<"TaprootSpendInfo">>
    BY <1>3 DEF reads, TxInvs, BlockInvs
  <2>2. Holds(vs, i.inputs[1], "TaprootSpendInfo")
    <3>1. 1 \in 1 .. Len(reads(op)) /\ reads(op)[1] = "TaprootSpendInfo"
      BY <2>1
    <3> QED
      BY <3>1, InputIsGood DEF Holds
  <2>3. handle_script_building_operations(c, i) = <<Scripts(script, "Taproot", i.inputs)>>
    BY <1>3 DEF handle_script_building_operations
  <2>4. GoodScripts(vs, Scripts(script, "Taproot", i.inputs))
    BY <2>2 DEF GoodScripts, Scripts
  <2> HIDE DEF script
  <2> QED
    BY <1>1, <1>2, <2>3, <2>4
<1>4. CASE op.name \in {"BuildPayToPubKey", "BuildPayToPubKeyHash",
                        "BuildPayToWitnessPubKeyHash"}
  <2>1. reads(op) = <<"[u8_32]", "u8">>
    BY <1>4 DEF reads, TxInvs, BlockInvs
  <2>2. Holds(vs, i.inputs[1], "[u8_32]") /\ Holds(vs, i.inputs[2], "u8")
    <3>1. /\ 1 \in 1 .. Len(reads(op)) /\ reads(op)[1] = "[u8_32]"
          /\ 2 \in 1 .. Len(reads(op)) /\ reads(op)[2] = "u8"
      BY <2>1
    <3> QED
      BY <3>1, InputIsGood DEF Holds
  <2>3. handle_script_building_operations(c, i) = <<Scripts(script, "Legacy", i.inputs)>>
    BY <1>4 DEF handle_script_building_operations
  <2>4. GoodScripts(vs, Scripts(script, "Legacy", i.inputs))
    BY <2>2 DEF GoodScripts, Scripts
  <2> HIDE DEF script
  <2> QED
    BY <1>1, <1>2, <2>3, <2>4
<1>5. CASE op.name \notin {"BuildPayToTaproot", "BuildPayToPubKey",
                           "BuildPayToPubKeyHash", "BuildPayToWitnessPubKeyHash"}
  <2>3. handle_script_building_operations(c, i) = <<Scripts(script, "None", << >>)>>
    BY <1>5 DEF handle_script_building_operations
  <2>4. GoodScripts(vs, Scripts(script, "None", << >>))
    BY DEF GoodScripts, Scripts
  <2> HIDE DEF script
  <2> QED
    BY <1>1, <1>2, <2>3, <2>4
<1> QED
  BY <1>3, <1>4, <1>5

\* An annex changes nothing of how a script is signed.
LEMMA AnnexedScripts ==
  ASSUME NEW c, GoodValues(c.variables), NEW i, Downcasts(c, i), NEW now,
         i.operation.name = "TaprootScriptsUseAnnex"
  PROVE  /\ appends(i.operation) = <<"Scripts">>
         /\ \E s : /\ appended_data(c, i, now) = <<s>>
                   /\ GoodScripts(c.variables, s)
<1> DEFINE op == i.operation
           vs == c.variables
           s == [get_input(c, i, 1) EXCEPT !.annex = i.inputs[2]]
<1>1. appends(op) = <<"Scripts">>
  BY DEF appends, Loads, ScriptBuilders
<1>2. appended_data(c, i, now) = <<s>>
  BY DEF appended_data, handle_taproot_conversions, Loads, ScriptBuilders
<1>3. reads(op) = <<"Scripts", "Vec<u8>">>
  BY DEF reads, TxInvs, BlockInvs
<1>4. GoodScripts(vs, get_input(c, i, 1))
  BY <1>3, InputIsGood DEF GoodValue
<1>5. GoodScripts(vs, s)
  BY <1>4 DEF GoodScripts
<1> HIDE DEF s
<1> QED
  BY <1>1, <1>2, <1>5

\* Txos: loaded, annexed, or taken from a transaction.
LEMMA AppendedTxos ==
  ASSUME NEW c, GoodValues(c.variables), NEW i, Downcasts(c, i), NEW now,
         i.operation.name \in {"LoadTxo", "TaprootTxoUseAnnex", "TakeTxo", "TakeCoinbaseTxo"}
  PROVE  /\ appends(i.operation) = <<"Txo">>
         /\ \E t : /\ appended_data(c, i, now) = <<t>>
                   /\ GoodTxo(c.variables, t)
<1> DEFINE op == i.operation
           vs == c.variables
<1>1. CASE op.name = "LoadTxo"
  <2> DEFINE t == [prev_out |-> [tx |-> op, n |-> 0],
                   scripts |-> Scripts(<<op.name>>, "None", << >>)]
  <2>1. appends(op) = <<"Txo">>
    <3>1. appends(op) = <<loaded_rust(op)>>
      BY <1>1 DEF appends, Loads, ScriptBuilders
    <3>2. loaded_rust(op) = "Txo"
      BY <1>1 DEF loaded_rust
    <3> QED
      BY <3>1, <3>2
  <2>2. appended_data(c, i, now) = <<t>>
    <3>1. appended_data(c, i, now) = handle_load_operations(op)
      BY <1>1 DEF appended_data, Loads, ScriptBuilders
    <3> QED
      BY <1>1, <3>1 DEF handle_load_operations
  <2>3. GoodTxo(vs, t)
    BY DEF GoodTxo, GoodScripts, Scripts
  <2> HIDE DEF t
  <2> QED
    BY <2>1, <2>2, <2>3
<1>2. CASE op.name = "TaprootTxoUseAnnex"
  <2> DEFINE t == [get_input(c, i, 1) EXCEPT !.scripts.annex = i.inputs[2]]
  <2>1. appends(op) = <<"Txo">>
    BY <1>2 DEF appends, Loads, ScriptBuilders
  <2>2. appended_data(c, i, now) = <<t>>
    BY <1>2 DEF appended_data, handle_taproot_conversions, Loads, ScriptBuilders
  <2>3. reads(op) = <<"Txo", "Vec<u8>">>
    BY <1>2 DEF reads, TxInvs, BlockInvs
  <2>4. GoodTxo(vs, get_input(c, i, 1))
    BY <2>3, InputIsGood DEF GoodValue
  <2>5. GoodTxo(vs, t)
    BY <2>4 DEF GoodTxo, GoodScripts
  <2> HIDE DEF t
  <2> QED
    BY <2>1, <2>2, <2>5
<1>3. CASE op.name \in {"TakeTxo", "TakeCoinbaseTxo"}
  <2> DEFINE t == take_txo(get_input(c, i, 1))
  <2>1. appends(op) = <<"Txo">>
    BY <1>3 DEF appends, Loads, ScriptBuilders
  <2>2. appended_data(c, i, now) = <<t>>
    <3>1. appended_data(c, i, now) = handle_transaction_building_operations(c, i)
      BY <1>3 DEF appended_data, Loads, ScriptBuilders
    <3> QED
      BY <1>3, <3>1 DEF handle_transaction_building_operations
  <2>3. reads(op) = <<"Tx">>
    BY <1>3 DEF reads, TxInvs, BlockInvs
  <2>4. GoodTx(vs, get_input(c, i, 1))
    BY <2>3, InputIsGood DEF GoodValue
  <2>5. GoodTxo(vs, t)
    BY <2>4, TakesAreGood
  <2> HIDE DEF t
  <2> QED
    BY <2>1, <2>2, <2>5
<1> QED
  BY <1>1, <1>2, <1>3

\* Transactions: begun without outputs, or ended with those it was given.
LEMMA AppendedTxs ==
  ASSUME NEW c, GoodValues(c.variables), NEW i, Downcasts(c, i), NEW now,
         i.operation.name \in {"BeginBuildTx", "BeginBuildCoinbaseTx", "EndBuildTx"}
  PROVE  /\ appends(i.operation) = <<"Tx">>
         /\ \E t : /\ appended_data(c, i, now) = <<t>>
                   /\ GoodTx(c.variables, t)
<1> DEFINE op == i.operation
           vs == c.variables
<1>1. appends(op) = <<"Tx">>
  BY DEF appends, Loads, ScriptBuilders
<1>2. CASE op.name \in {"BeginBuildTx", "BeginBuildCoinbaseTx"}
  <2> DEFINE t == Tx(contents(c, i, 1), << >>)
  <2>1. appended_data(c, i, now) = <<t>>
    BY <1>2 DEF appended_data, handle_transaction_building_operations,
      handle_coinbase_building_operations, Loads, ScriptBuilders
  <2>2. GoodTx(vs, t)
    BY EmptyIsGood DEF GoodTx, Tx
  <2> HIDE DEF t
  <2> QED
    BY <1>1, <2>1, <2>2
<1>3. CASE op.name = "EndBuildTx"
  <2> DEFINE t == finalize_tx(c, i)
  <2>1. appended_data(c, i, now) = <<t>>
    <3>1. appended_data(c, i, now) = handle_transaction_building_operations(c, i)
      BY <1>3 DEF appended_data, Loads, ScriptBuilders
    <3> QED
      BY <1>3, <3>1 DEF handle_transaction_building_operations
  <2>2. reads(op) = <<"Tx", "TxInputs", "TxOutputs">>
    BY <1>3 DEF reads, TxInvs, BlockInvs
  <2>3. GoodOutputs(vs, get_input(c, i, 3))
    BY <2>2, InputIsGood DEF GoodValue
  <2>4. GoodTx(vs, t)
    <3>1. PICK body : t = Tx(body, txos_of(body, get_input(c, i, 3)))
      BY DEF finalize_tx
    <3> QED
      BY <2>3, <3>1, TxosAreGood
  <2> HIDE DEF t
  <2> QED
    BY <1>1, <2>1, <2>4
<1> QED
  BY <1>2, <1>3

\* Inputs and outputs: begun empty, ended as they are.
LEMMA AppendedLists ==
  ASSUME NEW c, GoodValues(c.variables), NEW i, Downcasts(c, i), NEW now
  PROVE  /\ i.operation.name \in {"BeginBuildTxInputs", "EndBuildTxInputs"} =>
              /\ appends(i.operation) = <<"TxInputs">>
              /\ \E l : /\ appended_data(c, i, now) = <<l>>
                        /\ GoodInputs(c.variables, l)
         /\ i.operation.name \in {"BeginBuildTxOutputs", "EndBuildTxOutputs",
                                  "BeginBuildCoinbaseTxOutputs", "EndBuildCoinbaseTxOutputs"} =>
              /\ appends(i.operation) = <<"TxOutputs">>
              /\ \E l : /\ appended_data(c, i, now) = <<l>>
                        /\ GoodOutputs(c.variables, l)
<1> DEFINE op == i.operation
           vs == c.variables
<1>1. CASE op.name = "BeginBuildTxInputs"
  <2>1. appends(op) = <<"TxInputs">>
    BY <1>1 DEF appends, Loads, ScriptBuilders
  <2>2. appended_data(c, i, now) = << << >> >>
    BY <1>1 DEF appended_data, handle_transaction_building_operations, Loads, ScriptBuilders
  <2> QED
    BY <1>1, <2>1, <2>2, EmptyIsGood
<1>2. CASE op.name = "EndBuildTxInputs"
  <2>1. appends(op) = <<"TxInputs">> /\ reads(op) = <<"TxInputs">>
    BY <1>2 DEF appends, reads, Loads, ScriptBuilders, TxInvs, BlockInvs
  <2>2. appended_data(c, i, now) = <<get_input(c, i, 1)>>
    <3>1. appended_data(c, i, now) = handle_transaction_building_operations(c, i)
      BY <1>2 DEF appended_data, Loads, ScriptBuilders
    <3> QED
      BY <1>2, <3>1 DEF handle_transaction_building_operations
  <2>3. GoodInputs(vs, get_input(c, i, 1))
    BY <2>1, InputIsGood DEF GoodValue
  <2> QED
    BY <1>2, <2>1, <2>2, <2>3
<1>3. CASE op.name \in {"BeginBuildTxOutputs", "BeginBuildCoinbaseTxOutputs"}
  <2>1. appends(op) = <<"TxOutputs">>
    BY <1>3 DEF appends, Loads, ScriptBuilders
  <2>2. appended_data(c, i, now) = << << >> >>
    BY <1>3 DEF appended_data, handle_transaction_building_operations,
      handle_coinbase_building_operations, Loads, ScriptBuilders
  <2> QED
    BY <1>3, <2>1, <2>2, EmptyIsGood
<1>4. CASE op.name \in {"EndBuildTxOutputs", "EndBuildCoinbaseTxOutputs"}
  <2>1. appends(op) = <<"TxOutputs">> /\ reads(op) = <<"TxOutputs">>
    BY <1>4 DEF appends, reads, Loads, ScriptBuilders, TxInvs, BlockInvs
  <2>2. appended_data(c, i, now) = <<get_input(c, i, 1)>>
    BY <1>4 DEF appended_data, handle_transaction_building_operations,
      handle_coinbase_building_operations, Loads, ScriptBuilders
  <2>3. GoodOutputs(vs, get_input(c, i, 1))
    BY <2>1, InputIsGood DEF GoodValue
  <2> QED
    BY <1>4, <2>1, <2>2, <2>3
<1> QED
  BY <1>1, <1>2, <1>3, <1>4

\* A coinbase transaction keeps its outputs, and its block makes Txos of them.
LEMMA AppendedCoinbases ==
  ASSUME NEW c, GoodValues(c.variables), NEW i, Downcasts(c, i), NEW now
  PROVE  /\ i.operation.name = "EndBuildCoinbaseTx" =>
              /\ appends(i.operation) = <<"CoinbaseTx">>
              /\ \E d : /\ appended_data(c, i, now) = <<d>>
                        /\ GoodOutputs(c.variables, d.scripts)
         /\ i.operation.name = "BuildBlock" =>
              /\ appends(i.operation) = <<"Header", "Block", "Tx">>
              /\ \E h, b, t : /\ appended_data(c, i, now) = <<h, b, t>>
                              /\ GoodTx(c.variables, t)
<1> DEFINE op == i.operation
           vs == c.variables
<1>1. ASSUME op.name = "EndBuildCoinbaseTx"
      PROVE  /\ appends(op) = <<"CoinbaseTx">>
             /\ \E d : appended_data(c, i, now) = <<d>> /\ GoodOutputs(vs, d.scripts)
  <2> DEFINE d == [header |-> get_input(c, i, 1).body, input |-> get_input(c, i, 2),
                   scripts |-> get_input(c, i, 3)]
  <2>1. appends(op) = <<"CoinbaseTx">> /\ reads(op) = <<"Tx", "CoinbaseInput", "TxOutputs">>
    BY <1>1 DEF appends, reads, Loads, ScriptBuilders, TxInvs, BlockInvs
  <2>2. appended_data(c, i, now) = <<d>>
    <3>1. appended_data(c, i, now) = handle_coinbase_building_operations(c, i)
      BY <1>1 DEF appended_data, Loads, ScriptBuilders
    <3> QED
      BY <1>1, <3>1 DEF handle_coinbase_building_operations
  <2>3. GoodOutputs(vs, d.scripts)
    BY <2>1, InputIsGood DEF GoodValue
  <2> HIDE DEF d
  <2> QED
    BY <2>1, <2>2, <2>3
<1>2. ASSUME op.name = "BuildBlock"
      PROVE  /\ appends(op) = <<"Header", "Block", "Tx">>
             /\ \E h, b, t : appended_data(c, i, now) = <<h, b, t>> /\ GoodTx(vs, t)
  <2> DEFINE b == build_block(c, i, now)
             h == [header_of |-> b]
             outputs == get_input(c, i, 1).scripts
             t == Tx([coinbase_of |-> b], txos_of([coinbase_of |-> b], outputs))
  <2>1. /\ appends(op) = <<"Header", "Block", "Tx">>
        /\ reads(op) = <<"CoinbaseTx", "Header", "LiveTime", "i32", "BlockTransactions">>
    BY <1>2 DEF appends, reads, Loads, ScriptBuilders, TxInvs, BlockInvs
  <2>2. appended_data(c, i, now) = <<h, b, t>>
    <3>1. appended_data(c, i, now) = handle_block_building_operations(c, i, now)
      BY <1>2 DEF appended_data, Loads, ScriptBuilders
    <3> QED
      BY <1>2, <3>1 DEF handle_block_building_operations
  <2>3. GoodOutputs(vs, outputs)
    BY <2>1, InputIsGood DEF GoodValue
  <2>4. GoodTx(vs, t)
    BY <2>3, TxosAreGood
  <2> HIDE DEF b, h, t
  <2> QED
    BY <2>1, <2>2, <2>4
<1> QED
  BY <1>1, <1>2

\* A load pushes a value of its own, but for a Txo.
LEMMA OtherLoads ==
  ASSUME NEW op, op.name \in Loads \ {"LoadTxo"}
  PROVE  loaded_rust(op) \notin Structured
<1>1. CASE op.name \in {"LoadBytes", "LoadTaprootAnnex", "LoadMsgType", "LoadNode",
                        "LoadConnection", "LoadSize", "LoadConnectionType"}
  BY <1>1 DEF loaded_rust, Structured
<1>2. CASE op.name \in {"LoadDuration", "LoadAddr", "LoadBlockHeight", "LoadTxVersion",
                        "LoadLockTime", "LoadSequence", "LoadCompactFilterType",
                        "LoadSigHashFlags"}
  BY <1>2 DEF loaded_rust, Structured
<1>3. CASE op.name \in {"LoadTime", "LoadAmount", "LoadNonce", "LoadBlockVersion",
                        "LoadHeader", "LoadFilterLoad", "LoadFilterAdd",
                        "LoadPrivateKey"}
  BY <1>3 DEF loaded_rust, Structured
<1> QED
  BY <1>1, <1>2, <1>3 DEF Loads

\* The operations that append structured values.
Structures ==
  ScriptBuilders \cup
  { "TaprootScriptsUseAnnex", "LoadTxo", "TaprootTxoUseAnnex", "TakeTxo",
    "TakeCoinbaseTxo", "BeginBuildTx", "BeginBuildCoinbaseTx", "EndBuildTx",
    "BeginBuildTxInputs", "EndBuildTxInputs", "BeginBuildTxOutputs",
    "EndBuildTxOutputs", "BeginBuildCoinbaseTxOutputs",
    "EndBuildCoinbaseTxOutputs", "EndBuildCoinbaseTx", "BuildBlock" }

\* The others append values that refer to nothing.
LEMMA OtherAppends ==
  ASSUME NEW op, op.name \in OperationName \ ({"AdvanceTime", "Nop"} \cup Structures)
  PROVE  \A k \in 1 .. Len(appends(op)) : appends(op)[k] \notin Structured
<1> DEFINE Plain == \A k \in 1 .. Len(appends(op)) : appends(op)[k] \notin Structured
<1>1. CASE op.name \in Loads
  <2>1. loaded_rust(op) \notin Structured
    BY <1>1, OtherLoads DEF Structures
  <2>2. appends(op) = <<loaded_rust(op)>>
    <3>1. op.name \in Loads /\ op.name # "Nop"
      BY <1>1
    <3> QED
      BY <3>1, SMTT(60) DEF appends, Loads, ScriptBuilders
  <2> QED
    BY <2>1, <2>2
<1>2. CASE op.name \in Sends \cup Adds \cup {"Probe", "SetTime"}
  <2>1. appends(op) = << >>
    BY <1>2 DEF appends, Loads, ScriptBuilders, Sends, Adds, TxInvs, BlockInvs
  <2> QED
    BY <2>1
<1>3. CASE op.name \in {"BuildFilterAddFromTx", "BuildFilterAddFromTxo"}
  <2>1. appends(op) = <<"FilterAdd">>
    BY <1>3 DEF appends, Loads, ScriptBuilders
  <2> QED
    BY <2>1 DEF Structured
<1>4. CASE op.name = "BuildCompactBlock"
  <2>1. appends(op) = <<"CmpctBlock">>
    BY <1>4 DEF appends, Loads, ScriptBuilders
  <2> QED
    BY <2>1 DEF Structured
<1>5. CASE op.name = "BuildTaprootTree"
  <2>1. appends(op) = <<"TaprootSpendInfo">>
    BY <1>5 DEF appends, Loads, ScriptBuilders
  <2> QED
    BY <2>1 DEF Structured
<1>6. CASE op.name = "BuildCoinbaseTxInput"
  <2>1. appends(op) = <<"CoinbaseInput">>
    BY <1>6 DEF appends, Loads, ScriptBuilders
  <2> QED
    BY <2>1 DEF Structured
<1>7. CASE op.name \in {"BeginWitnessStack", "EndWitnessStack"}
  <2>1. appends(op) = <<"Witness">>
    BY <1>7 DEF appends, Loads, ScriptBuilders
  <2> QED
    BY <2>1 DEF Structured
<1>8. CASE op.name \in {"BeginBuildInventory", "EndBuildInventory"}
  <2>1. appends(op) = <<"Vec<Inventory>">>
    BY <1>8 DEF appends, Loads, ScriptBuilders
  <2> QED
    BY <2>1 DEF Structured
<1>9. CASE op.name = "BeginBuildAddrList"
  <2>1. appends(op) = <<"AddrList">>
    BY <1>9 DEF appends, Loads, ScriptBuilders
  <2> QED
    BY <2>1 DEF Structured
<1>10. CASE op.name = "EndBuildAddrList"
  <2>1. appends(op) = <<"Vec<u32_Address>">>
    BY <1>10 DEF appends, Loads, ScriptBuilders
  <2> QED
    BY <2>1 DEF Structured
<1>11. CASE op.name = "BeginBuildAddrListV2"
  <2>1. appends(op) = <<"AddrListV2">>
    BY <1>11 DEF appends, Loads, ScriptBuilders
  <2> QED
    BY <2>1 DEF Structured
<1>12. CASE op.name = "EndBuildAddrListV2"
  <2>1. appends(op) = <<"Vec<AddrV2Message>">>
    BY <1>12 DEF appends, Loads, ScriptBuilders
  <2> QED
    BY <2>1 DEF Structured
<1>13. CASE op.name \in {"BeginBlockTransactions", "EndBlockTransactions"}
  <2>1. appends(op) = <<"BlockTransactions">>
    BY <1>13 DEF appends, Loads, ScriptBuilders
  <2> QED
    BY <2>1 DEF Structured
<1>14. CASE op.name \in {"BeginBuildFilterLoad", "EndBuildFilterLoad"}
  <2>1. appends(op) = <<"FilterLoad">>
    BY <1>14 DEF appends, Loads, ScriptBuilders
  <2> QED
    BY <2>1 DEF Structured
<1>15. CASE op.name \in {"BeginBuildBlockTxn", "EndBuildBlockTxn"}
  <2>1. appends(op) = <<"bip152::BlockTransactions">>
    BY <1>15 DEF appends, Loads, ScriptBuilders
  <2> QED
    BY <2>1 DEF Structured
<1> QED
  BY <1>1, <1>2, <1>3, <1>4, <1>5, <1>6, <1>7, <1>8, <1>9, <1>10, <1>11, <1>12,
     <1>13, <1>14, <1>15 DEF OperationName, Structures

\* Every value a handler appends is good.
LEMMA AppendedIsGood ==
  ASSUME NEW c, GoodValues(c.variables), NEW i, Downcasts(c, i), NEW now,
         i.operation \in Operation
  PROVE  \A k \in 1 .. Len(appends(i.operation)) :
           GoodValue(c.variables, appends(i.operation)[k], appended_data(c, i, now)[k])
<1> DEFINE op == i.operation
           vs == c.variables
           Good == \A k \in 1 .. Len(appends(op)) :
                     GoodValue(vs, appends(op)[k], appended_data(c, i, now)[k])
<1>o. op.name \in OperationName \ {"AdvanceTime"}
  BY CompilerAssumption
<1>p. ASSUME NEW rust, rust \notin Structured, NEW d PROVE GoodValue(vs, rust, d)
  BY <1>p DEF GoodValue, Structured
<1>1. CASE op.name = "Nop"
  <2>1. op.args[1] \in Nat /\ op.args[2] \in Nat
    BY <1>1, OperationAssumption
  <2>2. appends(op) = [k \in 1 .. op.args[1] + op.args[2] |-> "Nop"]
    BY <1>1 DEF appends, Loads, ScriptBuilders
  <2>3. \A k \in 1 .. Len(appends(op)) : appends(op)[k] = "Nop"
    BY <2>1, <2>2
  <2> QED
    BY <1>p, <2>3 DEF Structured
<1>2. CASE op.name \notin {"Nop"} \cup Structures
  BY <1>o, <1>p, <1>2, OtherAppends
<1>3. CASE op.name \in ScriptBuilders \cup {"TaprootScriptsUseAnnex"}
  <2>1. PICK s : /\ appends(op) = <<"Scripts">> /\ appended_data(c, i, now) = <<s>>
                 /\ GoodScripts(vs, s)
    BY <1>3, BuiltScripts, AnnexedScripts
  <2> QED
    BY <2>1 DEF GoodValue
<1>4. CASE op.name \in {"LoadTxo", "TaprootTxoUseAnnex", "TakeTxo", "TakeCoinbaseTxo"}
  <2>1. PICK t : /\ appends(op) = <<"Txo">> /\ appended_data(c, i, now) = <<t>>
                 /\ GoodTxo(vs, t)
    BY <1>4, AppendedTxos
  <2> QED
    BY <2>1 DEF GoodValue
<1>5. CASE op.name \in {"BeginBuildTx", "BeginBuildCoinbaseTx", "EndBuildTx"}
  <2>1. PICK t : /\ appends(op) = <<"Tx">> /\ appended_data(c, i, now) = <<t>>
                 /\ GoodTx(vs, t)
    BY <1>5, AppendedTxs
  <2> QED
    BY <2>1 DEF GoodValue
<1>6. CASE op.name \in {"BeginBuildTxInputs", "EndBuildTxInputs"}
  <2>1. PICK l : /\ appends(op) = <<"TxInputs">> /\ appended_data(c, i, now) = <<l>>
                 /\ GoodInputs(vs, l)
    BY <1>6, AppendedLists
  <2> QED
    BY <2>1 DEF GoodValue
<1>7. CASE op.name \in {"BeginBuildTxOutputs", "EndBuildTxOutputs",
                        "BeginBuildCoinbaseTxOutputs", "EndBuildCoinbaseTxOutputs"}
  <2>1. PICK l : /\ appends(op) = <<"TxOutputs">> /\ appended_data(c, i, now) = <<l>>
                 /\ GoodOutputs(vs, l)
    BY <1>7, AppendedLists
  <2> QED
    BY <2>1 DEF GoodValue
<1>8. CASE op.name = "EndBuildCoinbaseTx"
  <2>1. PICK d : /\ appends(op) = <<"CoinbaseTx">> /\ appended_data(c, i, now) = <<d>>
                 /\ GoodOutputs(vs, d.scripts)
    BY <1>8, AppendedCoinbases
  <2> QED
    BY <2>1 DEF GoodValue
<1>9. CASE op.name = "BuildBlock"
  <2>1. PICK h, b, t : /\ appends(op) = <<"Header", "Block", "Tx">>
                       /\ appended_data(c, i, now) = <<h, b, t>>
                       /\ GoodTx(vs, t)
    BY <1>9, AppendedCoinbases
  <2>2. GoodValue(vs, "Header", h) /\ GoodValue(vs, "Block", b) /\ GoodValue(vs, "Tx", t)
    BY <2>1 DEF GoodValue
  <2> QED
    BY <2>1, <2>2
<1> QED
  BY <1>1, <1>2, <1>3, <1>4, <1>5, <1>6, <1>7, <1>8, <1>9 DEF Structures

\* What an update leaves in its first input is good.
LEMMA UpdatedIsGood ==
  ASSUME NEW c, GoodValues(c.variables), NEW i, Downcasts(c, i),
         i.operation.name \in Updates
  PROVE  /\ i.inputs[1] \in 1 .. Len(c.variables)
         /\ GoodValue(c.variables, c.variables[i.inputs[1]].rust, updated(c, i))
<1> DEFINE op == i.operation
           vs == c.variables
           old == get_input(c, i, 1)
<1>i. \A k \in 1 .. Len(reads(op)) :
        /\ i.inputs[k] \in 1 .. Len(vs)
        /\ vs[i.inputs[k]].rust = reads(op)[k]
        /\ GoodValue(vs, reads(op)[k], get_input(c, i, k))
  BY InputIsGood
<1>1. CASE op.name \in {"TakeTxo", "TakeCoinbaseTxo"}
  <2>1. reads(op) = <<"Tx">>
    BY <1>1 DEF reads, TxInvs, BlockInvs
  <2>2. 1 \in 1 .. Len(reads(op)) /\ reads(op)[1] = "Tx"
    BY <2>1
  <2>3. i.inputs[1] \in 1 .. Len(vs) /\ vs[i.inputs[1]].rust = "Tx" /\ GoodTx(vs, old)
    BY <1>i, <2>2 DEF GoodValue
  <2>4. updated(c, i) = IF old.txos = << >> THEN old
                        ELSE [old EXCEPT !.output_selector = @ + 1]
    BY <1>1 DEF updated, Adds, TxInvs, BlockInvs
  <2>5. GoodTx(vs, updated(c, i))
    BY <2>3, <2>4, TakesAreGood
  <2> QED
    BY <2>3, <2>5 DEF GoodValue
<1>2. CASE op.name = "AddTxInput"
  <2>1. reads(op) = <<"TxInputs", "Txo", "u32">>
    BY <1>2 DEF reads, TxInvs, BlockInvs
  <2>2. /\ 1 \in 1 .. Len(reads(op)) /\ reads(op)[1] = "TxInputs"
        /\ 2 \in 1 .. Len(reads(op)) /\ reads(op)[2] = "Txo"
        /\ 3 \in 1 .. Len(reads(op)) /\ reads(op)[3] = "u32"
    BY <2>1
  <2>3. /\ i.inputs[1] \in 1 .. Len(vs) /\ vs[i.inputs[1]].rust = "TxInputs"
        /\ GoodInputs(vs, old)
        /\ Holds(vs, i.inputs[2], "Txo") /\ Holds(vs, i.inputs[3], "u32")
    BY <1>i, <2>2 DEF GoodValue, Holds
  <2>4. updated(c, i) = Append(old, added(c, i))
    BY <1>2 DEF updated, Adds, TxInvs, BlockInvs
  <2>5. added(c, i) = [txo_var |-> i.inputs[2], sequence_var |-> i.inputs[3]]
    BY <1>2 DEF added, TxInvs, BlockInvs
  <2>6. GoodInput(vs, added(c, i))
    BY <2>3, <2>5 DEF GoodInput
  <2>7. GoodInputs(vs, updated(c, i))
    BY <2>3, <2>4, <2>6, AppendIsGood
  <2> QED
    BY <2>3, <2>7 DEF GoodValue
<1>3. CASE op.name \in {"AddTxOutput", "AddCoinbaseTxOutput"}
  <2>1. reads(op) = <<"TxOutputs", "Scripts", "u64">>
    BY <1>3 DEF reads, TxInvs, BlockInvs
  <2>2. /\ 1 \in 1 .. Len(reads(op)) /\ reads(op)[1] = "TxOutputs"
        /\ 2 \in 1 .. Len(reads(op)) /\ reads(op)[2] = "Scripts"
    BY <2>1
  <2>3. /\ i.inputs[1] \in 1 .. Len(vs) /\ vs[i.inputs[1]].rust = "TxOutputs"
        /\ GoodOutputs(vs, old)
        /\ vs[i.inputs[2]].rust = "Scripts" /\ GoodScripts(vs, get_input(c, i, 2))
    BY <1>i, <2>2 DEF GoodValue
  <2>4. updated(c, i) = Append(old, added(c, i))
    BY <1>3 DEF updated, Adds, TxInvs, BlockInvs
  <2>5. added(c, i) = get_input(c, i, 2)
    <3>1. added(c, i) = content(c, i, 2)
      BY <1>3 DEF added, TxInvs, BlockInvs
    <3> QED
      BY <2>3, <3>1 DEF content
  <2>7. GoodOutputs(vs, updated(c, i))
    BY <2>3, <2>4, <2>5, AppendIsGood
  <2> QED
    BY <2>3, <2>7 DEF GoodValue
<1>4. CASE op.name \in Adds \ {"AddTxInput", "AddTxOutput", "AddCoinbaseTxOutput"}
  <2>1. 1 \in 1 .. Len(reads(op)) /\ reads(op)[1] \notin Structured
    <3>1. CASE op.name \in TxInvs
      <4>1. reads(op) = <<"Vec<Inventory>", "Tx">>
        BY <3>1 DEF reads, TxInvs, BlockInvs
      <4> QED
        BY <4>1 DEF Structured
    <3>2. CASE op.name \in BlockInvs
      <4>1. reads(op) = <<"Vec<Inventory>", "Block">>
        BY <3>2 DEF reads, TxInvs, BlockInvs
      <4> QED
        BY <4>1 DEF Structured
    <3>3. CASE op.name = "AddWitness"
      <4>1. reads(op) = <<"Witness", "Vec<u8>">>
        BY <3>3 DEF reads, TxInvs, BlockInvs
      <4> QED
        BY <4>1 DEF Structured
    <3>4. CASE op.name = "AddTx"
      <4>1. reads(op) = <<"BlockTransactions", "Tx">>
        BY <3>4 DEF reads, TxInvs, BlockInvs
      <4> QED
        BY <4>1 DEF Structured
    <3>5. CASE op.name = "AddAddr"
      <4>1. reads(op) = <<"AddrList", "AddrRecord">>
        BY <3>5 DEF reads, TxInvs, BlockInvs
      <4> QED
        BY <4>1 DEF Structured
    <3>6. CASE op.name = "AddAddrV2"
      <4>1. reads(op) = <<"AddrListV2", "AddrRecord">>
        BY <3>6 DEF reads, TxInvs, BlockInvs
      <4> QED
        BY <4>1 DEF Structured
    <3>7. CASE op.name = "AddTxToBlockTxn"
      <4>1. reads(op) = <<"bip152::BlockTransactions", "Tx">>
        BY <3>7 DEF reads, TxInvs, BlockInvs
      <4> QED
        BY <4>1 DEF Structured
    <3>8. CASE op.name = "AddTxToFilter"
      <4>1. reads(op) = <<"FilterLoad", "Tx">>
        BY <3>8 DEF reads, TxInvs, BlockInvs
      <4> QED
        BY <4>1 DEF Structured
    <3>9. CASE op.name = "AddTxoToFilter"
      <4>1. reads(op) = <<"FilterLoad", "Txo">>
        BY <3>9 DEF reads, TxInvs, BlockInvs
      <4> QED
        BY <4>1 DEF Structured
    <3> QED
      BY <1>4, <3>1, <3>2, <3>3, <3>4, <3>5, <3>6, <3>7, <3>8, <3>9 DEF Adds
  <2>2. i.inputs[1] \in 1 .. Len(vs) /\ vs[i.inputs[1]].rust \notin Structured
    BY <1>i, <2>1
  <2> QED
    BY <2>2 DEF GoodValue, Structured
<1> QED
  BY <1>1, <1>2, <1>3, <1>4 DEF Updates, Adds

-----------------------------------------------------------------------------
\* Compiling one instruction.

\* cvs are the values of the first variables of vs, those of the first n
\* instructions.
Represents(off, n, vs, cvs) ==
  /\ GoodValues(cvs)
  /\ Len(cvs) = off[n]
  /\ \A v \in 1 .. Len(cvs) : cvs[v].rust = representation(vs[v].var)

\* What the builder has checked, the handler's downcasts find.
LEMMA DowncastsSucceed ==
  ASSUME NEW vs, NEW p, NEW off, Layout(off, vs, p), NEW n \in 1 .. Len(p),
         NEW c, Represents(off, n - 1, vs, c.variables), p[n].operation \in Operation
  PROVE  Downcasts(c, p[n])
<1> DEFINE i == p[n]
           op == i.operation
<1>1. ReadsBefore(vs, off[n - 1], i)
  BY DEF Layout
<1>2. op.name \in OperationName \ {"AdvanceTime"}
  BY CompilerAssumption
<1>3. /\ Len(reads(op)) <= num_inputs(op)
      /\ \A k \in 1 .. Len(reads(op)) :
           reads(op)[k] = representation(get_input_variables(op)[k])
  BY <1>2, ReadTable
<1>4. Len(i.inputs) = num_inputs(op) /\ Len(c.variables) = off[n - 1]
  BY <1>1 DEF ReadsBefore, Represents
<1>5. ASSUME NEW k \in 1 .. Len(reads(op))
      PROVE  has(c, i.inputs[k], reads(op)[k])
  <2>1. k \in 1 .. Len(i.inputs)
    BY <1>3, <1>4
  <2>2. /\ i.inputs[k] \in 1 .. Len(c.variables)
        /\ vs[i.inputs[k]].var = get_input_variables(op)[k]
    BY <1>1, <1>4, <2>1 DEF ReadsBefore
  <2>3. c.variables[i.inputs[k]].rust = representation(get_input_variables(op)[k])
    BY <2>2 DEF Represents
  <2> QED
    BY <1>3, <2>2, <2>3 DEF has
<1> QED
  BY <1>5 DEF Downcasts

\* A handler that finds its inputs refuses a payload, or does its work.
LEMMA OnlyPayloadsRefused ==
  ASSUME NEW c, GoodValues(c.variables), NEW i, Downcasts(c, i)
  PROVE  outcome(c, i) \in {"ok", "MiscError"}
<1> DEFINE vs == c.variables
           inputs == get_input(c, i, 2)
           signed == [k \in 1 .. Len(inputs) |->
                        sign_outcome(c, c.variables[inputs[k].txo_var].data.scripts)]
           failed == {k \in 1 .. Len(inputs) : signed[k] # "ok"}
           first == CHOOSE k \in failed : \A m \in failed : k <= m
<1>1. ASSUME i.operation.name = "EndBuildTx"
      PROVE  finalize_tx_outcome(c, i) \in {"ok", "MiscError"}
  <2>1. reads(i.operation) = <<"Tx", "TxInputs", "TxOutputs">>
    BY <1>1 DEF reads, TxInvs, BlockInvs
  <2>2. GoodInputs(vs, inputs)
    <3>1. 2 \in 1 .. Len(reads(i.operation)) /\ reads(i.operation)[2] = "TxInputs"
      BY <2>1
    <3> QED
      BY <3>1, InputIsGood DEF GoodValue
  <2>3. PICK S : inputs \in Seq(S) /\ \A x \in S : GoodInput(vs, x)
    BY <2>2 DEF GoodInputs
  <2>4. Len(inputs) \in Nat /\ \A k \in 1 .. Len(inputs) : GoodInput(vs, inputs[k])
    BY <2>3, ElementOfSeq
  <2>5. \A k \in 1 .. Len(inputs) :
          has(c, inputs[k].txo_var, "Txo") /\ has(c, inputs[k].sequence_var, "u32")
    BY <2>4 DEF GoodInput, Holds, has
  <2>6. ASSUME NEW k \in 1 .. Len(inputs) PROVE signed[k] \in {"ok", "MiscError"}
    <3> DEFINE scripts == c.variables[inputs[k].txo_var].data.scripts
    <3>1. has(c, inputs[k].txo_var, "Txo")
      BY <2>5
    <3>2. GoodScripts(vs, scripts)
      BY <3>1 DEF has, GoodValues, GoodValue, GoodTxo
    <3>3. sign_outcome(c, scripts) \in {"ok", "MiscError"}
      <4> HIDE DEF scripts
      <4>1. CASE scripts.signing = "None"
        BY <4>1 DEF sign_outcome
      <4>2. CASE scripts.signing = "Legacy"
        <5>1. has(c, scripts.vars[1], "[u8_32]") /\ has(c, scripts.vars[2], "u8")
          BY <3>2, <4>2 DEF GoodScripts, Holds, has
        <5> QED
          BY <4>2, <5>1 DEF sign_outcome
      <4>3. CASE scripts.signing = "Taproot"
        <5>1. has(c, scripts.vars[1], "TaprootSpendInfo")
          BY <3>2, <4>3 DEF GoodScripts, Holds, has
        <5> QED
          BY <4>3, <5>1 DEF sign_outcome
      <4> QED
        BY <3>2, <4>1, <4>2, <4>3 DEF GoodScripts
    <3> QED
      BY <3>3
  <2> HIDE DEF signed
  <2>7. failed # {} => first \in failed
    <3>1. ASSUME failed # {} PROVE first \in failed
      <4>1. failed \subseteq Nat
        BY <2>4
      <4>2. \E k \in failed : \A m \in failed : k <= m
        <5> HIDE DEF failed
        <5> QED
          BY <3>1, <4>1, LeastOne
      <4> HIDE DEF failed
      <4> QED
        BY <4>2
    <3> QED
      BY <3>1
  <2>8. finalize_tx_outcome(c, i) = IF failed = {} THEN "ok" ELSE signed[first]
    BY <2>5 DEF finalize_tx_outcome, signed
  <2>9. failed # {} => signed[first] \in {"ok", "MiscError"}
    <3> HIDE DEF first
    <3> QED
      BY <2>6, <2>7
  <2> HIDE DEF first, failed
  <2> QED
    BY <2>8, <2>9
<1> QED
  BY <1>1 DEF outcome

\* A compiled instruction's values represent what the builder defined for it.
LEMMA CompileRepresents ==
  ASSUME NEW vs, NEW p, NEW off, Layout(off, vs, p), NEW n \in 1 .. Len(p),
         Len(p) \in Nat, Len(vs) \in Nat, p[n].operation \in Operation,
         NEW c, "variables" \in DOMAIN c, Represents(off, n - 1, vs, c.variables), NEW now
  PROVE  Represents(off, n, vs, compile_instruction(c, p[n], now).variables)
<1> DEFINE i == p[n]
           op == i.operation
           types == appends(op)
           cvs == c.variables
           m == Len(cvs)
           uvs == updated_variables(c, i)
           more == [k \in 1 .. Len(types) |->
                      [rust |-> types[k], data |-> appended_data(c, i, now)[k]]]
           all == uvs \o more
<1>1. GoodValues(cvs) /\ Len(cvs) = off[n - 1] /\ Downcasts(c, i)
  BY DowncastsSucceed DEF Represents
<1>2. PICK S : cvs \in Seq(S)
  BY <1>1 DEF GoodValues
<1>3. m \in Nat
  BY <1>2
<1>4. /\ Defined(op) \in Seq(Variable) /\ Len(types) = Len(Defined(op))
      /\ \A k \in 1 .. Len(types) : types[k] = representation(Defined(op)[k])
  BY AppendsDefined
<1>5. Len(types) \in Nat
  BY <1>4
<1>6. /\ off[n] = m + Len(types)
      /\ \A k \in 1 .. Len(types) : vs[m + k].var = Defined(op)[k]
  BY <1>1, <1>4 DEF Layout
<1>7. /\ \E U : uvs \in Seq(U)
      /\ Len(uvs) = m
      /\ \A v \in 1 .. m : /\ uvs[v].rust = cvs[v].rust
                           /\ DOMAIN uvs[v] = {"rust", "data"}
                           /\ GoodValue(cvs, uvs[v].rust, uvs[v].data)
  <2>1. CASE op.name \notin Updates
    <3>1. uvs = cvs
      BY <2>1 DEF updated_variables
    <3> QED
      BY <1>1, <1>2, <3>1 DEF GoodValues
  <2>2. CASE op.name \in Updates
    <3> DEFINE j == i.inputs[1]
               d == updated(c, i)
               w == [cvs[j] EXCEPT !.data = d]
    <3>1. uvs = [cvs EXCEPT ![j].data = d]
      BY <2>2 DEF updated_variables
    <3>2. j \in 1 .. m /\ GoodValue(cvs, cvs[j].rust, d)
      BY <1>1, <2>2, UpdatedIsGood
    <3> HIDE DEF d, j
    <3>3. w.rust = cvs[j].rust /\ w.data = d /\ DOMAIN w = {"rust", "data"}
      BY <1>1, <3>2 DEF GoodValues
    <3>4. uvs = [cvs EXCEPT ![j] = w]
      BY <3>1
    <3> HIDE DEF w, uvs
    <3>5. uvs \in Seq(S \cup {w}) /\ Len(uvs) = m
      <4> DEFINE U == S \cup {w}
      <4>1. cvs \in Seq(U) /\ w \in U
        BY <1>2
      <4> HIDE DEF U
      <4>2. uvs \in Seq(U) /\ Len(uvs) = m
        BY <3>2, <3>4, <4>1
      <4> QED
        BY <4>2 DEF U
    <3>6. \A v \in 1 .. m : uvs[v] = IF v = j THEN w ELSE cvs[v]
      BY <1>2, <3>4
    <3> QED
      BY <1>1, <3>2, <3>3, <3>5, <3>6 DEF GoodValues
  <2> QED
    BY <2>1, <2>2
<1>8. \A k \in 1 .. Len(types) :
        /\ more[k].rust = types[k] /\ DOMAIN more[k] = {"rust", "data"}
        /\ GoodValue(cvs, more[k].rust, more[k].data)
  BY <1>1, AppendedIsGood
<1>9. compile_instruction(c, i, now).variables = all
  BY DEF compile_instruction
<1> HIDE DEF uvs
<1>10. PICK U : uvs \in Seq(U)
  BY <1>7
<1>11. more \in Seq({more[k] : k \in 1 .. Len(types)}) /\ Len(more) = Len(types)
  BY <1>5
<1> HIDE DEF more
<1> DEFINE W == U \cup {more[k] : k \in 1 .. Len(types)}
<1>12. uvs \in Seq(W) /\ more \in Seq(W)
  BY <1>10, <1>11
<1> HIDE DEF W
<1>13. /\ all \in Seq(W)
       /\ Len(all) = m + Len(types)
       /\ \A v \in 1 .. m + Len(types) :
            all[v] = IF v <= m THEN uvs[v] ELSE more[v - m]
  <2>1. /\ all \in Seq(W)
        /\ Len(all) = Len(uvs) + Len(more)
        /\ \A v \in 1 .. Len(uvs) + Len(more) :
             all[v] = IF v <= Len(uvs) THEN uvs[v] ELSE more[v - Len(uvs)]
    BY ONLY <1>12, ConcatProperties, Zenon
  <2> QED
    BY <1>7, <1>11, <2>1
<1> HIDE DEF all
<1>14. ASSUME NEW v \in 1 .. m + Len(types)
       PROVE  /\ v <= m => all[v].rust = cvs[v].rust
              /\ all[v].rust = representation(vs[v].var)
              /\ DOMAIN all[v] = {"rust", "data"}
              /\ GoodValue(cvs, all[v].rust, all[v].data)
  <2>1. CASE v <= m
    <3>1. v \in 1 .. m /\ all[v] = uvs[v]
      BY <1>3, <1>5, <1>13, <2>1
    <3>2. cvs[v].rust = representation(vs[v].var)
      BY <3>1 DEF Represents
    <3> QED
      BY <1>7, <3>1, <3>2
  <2>2. CASE ~ (v <= m)
    <3>1. v - m \in 1 .. Len(types) /\ v = m + (v - m)
      BY <1>3, <1>5, <2>2
    <3>2. all[v] = more[v - m]
      BY <1>13, <2>2
    <3>3. vs[v].var = Defined(op)[v - m]
      BY <1>6, <3>1
    <3>4. types[v - m] = representation(Defined(op)[v - m])
      BY <1>4, <3>1
    <3> QED
      BY <1>8, <2>2, <3>1, <3>2, <3>3, <3>4
  <2> QED
    BY <2>1, <2>2
<1>15. GoodValues(all)
  <2>1. \A v \in 1 .. m : all[v].rust = cvs[v].rust
    BY <1>3, <1>5, <1>14
  <2>2. \A v \in 1 .. Len(all) : GoodValue(all, all[v].rust, all[v].data)
    <3> SUFFICES ASSUME NEW v \in 1 .. Len(all) PROVE GoodValue(all, all[v].rust, all[v].data)
      OBVIOUS
    <3>1. GoodValue(cvs, all[v].rust, all[v].data)
      BY <1>13, <1>14
    <3>2. Len(all) \in Nat /\ m <= Len(all)
      BY <1>3, <1>5, <1>13
    <3> QED
      BY <1>3, <2>1, <3>1, <3>2, GoodOn
  <2> QED
    BY <1>13, <1>14, <2>2 DEF GoodValues
<1> QED
  BY <1>6, <1>9, <1>13, <1>14, <1>15 DEF Represents

-----------------------------------------------------------------------------
\* The inductive invariant: while no call has failed, the compiler's variables
\* represent those of the instructions compiled so far.

CompilerInv ==
  /\ SafeInv(builder)
  /\ DOMAIN compiler = DOMAIN new_compiler
  /\ DOMAIN call = DOMAIN Idle /\ call.running \in BOOLEAN
  /\ \E S : errors \in Seq(S)
  /\ SpendsResolve
  /\ \E off : /\ Layout(off, builder.variables, builder.instructions)
              /\ Healthy =>
                   /\ call.running => call.next \in Nat
                   /\ Compiled \in 0 .. Len(builder.instructions)
                   /\ Represents(off, Compiled, builder.variables, compiler.variables)

\* Sequences over a set are sequences over a larger one.
LEMMA SeqMonotone ==
  ASSUME NEW S, NEW T, S \subseteq T, NEW l \in Seq(S)
  PROVE  l \in Seq(T)
OBVIOUS

\* The lengths of a program and of its variables.
LEMMA BuilderLengths ==
  ASSUME NEW b, SafeInv(b)
  PROVE  /\ Len(b.variables) \in Nat /\ Len(b.instructions) \in Nat
         /\ \A k \in 1 .. Len(b.instructions) : b.instructions[k].operation \in Operation
<1>1. b.variables \in Seq(VariableType0) /\ b.instructions \in Seq(InstructionType)
  BY BuilderFields DEF SafeInv, Inv
<1>2. \A k \in 1 .. Len(b.instructions) : b.instructions[k] \in InstructionType
  BY <1>1, ElementOfSeq
<1> QED
  BY <1>1, <1>2 DEF InstructionType

\* An empty program lays out nothing, and nothing represents it.
LEMMA InitCompiler ==
  ASSUME CompilerInit
  PROVE  CompilerInv
<1> DEFINE off == [k \in 0 .. 0 |-> 0]
<1>1. SafeInv(builder) /\ builder.variables = << >> /\ builder.instructions = << >>
  BY NewBuilder, NewIs DEF CompilerInit, Init
<1>2. compiler = new_compiler /\ call = Idle /\ errors = << >>
  BY DEF CompilerInit
<1>3. Layout(off, << >>, << >>)
  BY DEF Layout
<1>4. Represents(off, 0, << >>, << >>)
  <2> DEFINE E == {}
  <2>1. << >> \in Seq(E)
    OBVIOUS
  <2> HIDE DEF E
  <2>2. GoodValues(<< >>)
    BY <2>1 DEF GoodValues
  <2> QED
    BY <2>2 DEF Represents
<1>5. compiler.variables = << >> /\ Compiled = 0 /\ ~ call.running
  BY <1>2 DEF Compiled, new_compiler, Idle
<1> HIDE DEF off
<1>6. Layout(off, builder.variables, builder.instructions) /\
        Represents(off, Compiled, builder.variables, compiler.variables)
  BY <1>1, <1>3, <1>4, <1>5
<1>7. Compiled \in 0 .. Len(builder.instructions)
  BY <1>1, <1>5
<1>8. \E off1 : /\ Layout(off1, builder.variables, builder.instructions)
                /\ Healthy =>
                     /\ call.running => call.next \in Nat
                     /\ Compiled \in 0 .. Len(builder.instructions)
                     /\ Represents(off1, Compiled, builder.variables, compiler.variables)
  BY <1>5, <1>6, <1>7
<1>9. errors \in Seq({"panic"}) /\ SpendsResolve
  BY <1>2 DEF SpendsResolve, Healthy
<1>10. DOMAIN call = DOMAIN Idle /\ call.running \in BOOLEAN
  BY <1>2 DEF Idle
<1> QED
  BY <1>1, <1>2, <1>8, <1>9, <1>10 DEF CompilerInv

\* An append lays out more, and what is compiled is where it was.
LEMMA SubmitPreserves ==
  ASSUME CompilerInv, NEW op \in Operation, NEW inputs, Submit(op, inputs)
  PROVE  CompilerInv'
<1> DEFINE i == Instruction(op, inputs)
           vs == builder.variables
           p == builder.instructions
           vs2 == builder'.variables
           p2 == builder'.instructions
           n == Compiled
<1>1. UNCHANGED <<compiler, call, sent, errors>>
  BY DEF Submit
<1>2. builder' = append(builder, i) /\ i \in InstructionType
  <2>1. Len(builder.variables) \in Nat
    BY BuilderLengths DEF CompilerInv
  <2>2. inputs \in Seq(1 .. Len(builder.variables))
    BY DEF Submit
  <2>3. inputs \in Seq(Nat)
    <3>1. 1 .. Len(builder.variables) \subseteq Nat
      BY <2>1
    <3> DEFINE R == 1 .. Len(builder.variables)
    <3>2. inputs \in Seq(R) /\ R \subseteq Nat
      BY <2>2, <3>1
    <3> HIDE DEF R
    <3> QED
      BY <3>2, SeqMonotone
  <2> QED
    BY <2>3 DEF Submit, AppendInstruction, Instruction, InstructionType
<1>3. SafeInv(builder')
  BY <1>2, AppendPreserves DEF CompilerInv, SafeInv
<1>4. PICK off : /\ Layout(off, vs, p)
                 /\ Healthy =>
                      /\ call.running => call.next \in Nat
                      /\ n \in 0 .. Len(p)
                      /\ Represents(off, n, vs, compiler.variables)
  BY DEF CompilerInv
<1>5. PICK off2 : LayoutGrows(off, vs, p, off2, vs2, p2)
  BY <1>2, <1>4, AppendLayout DEF CompilerInv, SafeInv
<1>6. /\ Layout(off2, vs2, p2) /\ Len(p) <= Len(p2) /\ Len(vs) <= Len(vs2)
      /\ \A k \in 0 .. Len(p) : off2[k] = off[k]
      /\ \A v \in 1 .. Len(vs) : vs2[v].var = vs[v].var
  BY <1>5 DEF LayoutGrows
<1>7. Len(vs) \in Nat /\ Len(p) \in Nat /\ Len(vs2) \in Nat /\ Len(p2) \in Nat
  BY <1>3, BuilderLengths DEF CompilerInv
<1>8. n' = n /\ Healthy' = Healthy /\ SpendsResolve' = SpendsResolve
  BY <1>1 DEF Compiled, Healthy, SpendsResolve
<1>9. ASSUME Healthy
      PROVE  /\ call.running => call.next \in Nat
             /\ n \in 0 .. Len(p2)
             /\ Represents(off2, n, vs2, compiler.variables)
  <2>1. n \in 0 .. Len(p) /\ Represents(off, n, vs, compiler.variables)
    BY <1>4, <1>9
  <2>2. Len(compiler.variables) = off[n] /\ off[n] \in 0 .. Len(vs)
    BY <1>4, <2>1 DEF Represents, Layout
  <2>3. Represents(off2, n, vs2, compiler.variables)
    <3>1. \A v \in 1 .. Len(compiler.variables) : v \in 1 .. Len(vs)
      BY <1>7, <2>2
    <3> QED
      BY <1>6, <2>1, <3>1 DEF Represents
  <2>4. n \in 0 .. Len(p2)
    BY <1>6, <1>7, <2>1
  <2> QED
    BY <1>4, <1>9, <2>3, <2>4
<1>10. \E o : /\ Layout(o, vs2, p2)
              /\ Healthy' =>
                   /\ call'.running => call'.next \in Nat
                   /\ n' \in 0 .. Len(p2)
                   /\ Represents(o, n', vs2, compiler'.variables)
  BY <1>1, <1>6, <1>8, <1>9
<1> QED
  BY <1>1, <1>3, <1>8, <1>10 DEF CompilerInv

\* A call starts behind what is compiled.
LEMMA CompileFromPreserves ==
  ASSUME CompilerInv, CompileFrom
  PROVE  CompilerInv'
<1> DEFINE n == Compiled
<1>1. /\ ~ call.running /\ UNCHANGED <<builder, compiler, sent, errors>>
      /\ call' = [running |-> TRUE, next |-> compiler.last_compiled_instruction + 1,
                  actions_before |-> Len(compiler.actions)]
  BY DEF CompileFrom, Enterable
<1>2. PICK off : /\ Layout(off, builder.variables, builder.instructions)
                 /\ Healthy =>
                      /\ n \in 0 .. Len(builder.instructions)
                      /\ Represents(off, n, builder.variables, compiler.variables)
  BY DEF CompilerInv
<1>3. n = compiler.last_compiled_instruction
  BY <1>1 DEF Compiled
<1>4. Healthy => n' = n /\ call'.next \in Nat
  <2> SUFFICES ASSUME Healthy PROVE n' = n /\ call'.next \in Nat
    OBVIOUS
  <2>1. n \in Nat
    BY <1>2
  <2>2. call'.next = n + 1 /\ call'.running
    BY <1>1, <1>3
  <2> QED
    BY <2>1, <2>2 DEF Compiled
<1>5. /\ DOMAIN call' = DOMAIN Idle /\ call'.running \in BOOLEAN
      /\ Healthy' = Healthy /\ SpendsResolve' = SpendsResolve
  BY <1>1 DEF Idle, Healthy, SpendsResolve
<1>6. \E o : /\ Layout(o, builder'.variables, builder'.instructions)
             /\ Healthy' =>
                  /\ call'.running => call'.next \in Nat
                  /\ n' \in 0 .. Len(builder'.instructions)
                  /\ Represents(o, n', builder'.variables, compiler'.variables)
  BY <1>1, <1>2, <1>4, <1>5
<1> QED
  BY <1>1, <1>5, <1>6 DEF CompilerInv

\* A compiled instruction adds the values of what it defines.
LEMMA CompileInstructionPreserves ==
  ASSUME CompilerInv, NEW now, CompileInstruction(now)
  PROVE  CompilerInv'
<1> DEFINE n == Compiled
           vs == builder.variables
           p == builder.instructions
           i == p[call.next]
<1>1. /\ call.running /\ call.next <= Len(p)
      /\ compiler' = compile_instruction(compiler, i, now)
      /\ call' = [call EXCEPT !.next = @ + 1]
      /\ UNCHANGED <<builder, sent, errors>>
  BY DEF CompileInstruction
<1>2. PICK off : /\ Layout(off, vs, p)
                 /\ Healthy =>
                      /\ call.running => call.next \in Nat
                      /\ n \in 0 .. Len(p)
                      /\ Represents(off, n, vs, compiler.variables)
  BY DEF CompilerInv
<1>3. /\ DOMAIN compiler' = DOMAIN new_compiler
      /\ DOMAIN call' = DOMAIN Idle /\ call'.running
      /\ Healthy' = Healthy /\ SpendsResolve' = SpendsResolve
  <2>1. DOMAIN compiler' = DOMAIN compiler
    BY <1>1 DEF compile_instruction
  <2>2. DOMAIN call' = DOMAIN call /\ call'.running = call.running
    BY <1>1 DEF CompilerInv, Idle
  <2> QED
    BY <1>1, <2>1, <2>2 DEF CompilerInv, Healthy, SpendsResolve
<1>4. ASSUME Healthy
      PROVE  /\ call'.next \in Nat
             /\ n' \in 0 .. Len(p)
             /\ Represents(off, n', vs, compiler'.variables)
  <2>1. /\ call.next \in Nat /\ n = call.next - 1 /\ n \in 0 .. Len(p)
        /\ Represents(off, n, vs, compiler.variables)
    BY <1>1, <1>2, <1>4 DEF Compiled
  <2>2. Len(p) \in Nat /\ Len(vs) \in Nat
        /\ \A k \in 1 .. Len(p) : p[k].operation \in Operation
    BY BuilderLengths DEF CompilerInv
  <2>3. call.next \in 1 .. Len(p)
    BY <1>1, <2>1, <2>2
  <2>4. "variables" \in DOMAIN compiler
    BY DEF CompilerInv, new_compiler
  <2>5. Represents(off, call.next, vs, compiler'.variables)
    BY <1>1, <1>2, <2>1, <2>2, <2>3, <2>4, CompileRepresents
  <2>6. call'.next = call.next + 1
    BY <1>1 DEF CompilerInv, Idle
  <2>7. n' = call.next
    BY <1>3, <2>1, <2>6 DEF Compiled
  <2> QED
    BY <2>1, <2>3, <2>5, <2>6, <2>7
<1>5. \E o : /\ Layout(o, builder'.variables, builder'.instructions)
             /\ Healthy' =>
                  /\ call'.running => call'.next \in Nat
                  /\ n' \in 0 .. Len(builder'.instructions)
                  /\ Represents(o, n', builder'.variables, compiler'.variables)
  BY <1>1, <1>2, <1>3, <1>4
<1> QED
  BY <1>1, <1>3, <1>5 DEF CompilerInv

\* The first error is the refusal of a payload.
LEMMA CompileErrorPreserves ==
  ASSUME CompilerInv, CompileError
  PROVE  CompilerInv'
<1> DEFINE n == Compiled
           vs == builder.variables
           p == builder.instructions
           i == p[call.next]
           e == outcome(compiler, i)
<1>1. /\ call.running /\ call.next <= Len(p) /\ e # "ok"
      /\ call' = Idle /\ errors' = Append(errors, e)
      /\ UNCHANGED <<builder, compiler, sent>>
  BY DEF CompileError
<1>2. PICK off : /\ Layout(off, vs, p)
                 /\ Healthy =>
                      /\ call.running => call.next \in Nat
                      /\ n \in 0 .. Len(p)
                      /\ Represents(off, n, vs, compiler.variables)
  BY DEF CompilerInv
<1>3. ASSUME Healthy PROVE e = "MiscError"
  <2>1. /\ call.next \in Nat /\ n = call.next - 1 /\ n \in 0 .. Len(p)
        /\ Represents(off, n, vs, compiler.variables)
    BY <1>1, <1>2, <1>3 DEF Compiled
  <2>2. Len(p) \in Nat /\ \A k \in 1 .. Len(p) : p[k].operation \in Operation
    BY BuilderLengths DEF CompilerInv
  <2>3. call.next \in 1 .. Len(p)
    BY <1>1, <2>1, <2>2
  <2>4. Downcasts(compiler, i)
    BY <1>2, <2>1, <2>2, <2>3, DowncastsSucceed
  <2>5. GoodValues(compiler.variables)
    BY <2>1 DEF Represents
  <2> QED
    BY <1>1, <2>4, <2>5, OnlyPayloadsRefused
<1>4. PICK S : errors \in Seq(S)
  BY DEF CompilerInv
<1> HIDE DEF e
<1>5. errors' \in Seq(S \cup {e}) /\ errors' # << >>
      /\ (Healthy => errors'[1] = e) /\ (~ Healthy => errors'[1] = errors[1])
  <2> DEFINE U == S \cup {e}
  <2>1. errors \in Seq(U) /\ e \in U
    BY <1>4
  <2> HIDE DEF U
  <2>2. /\ errors' \in Seq(U) /\ Len(errors') = Len(errors) + 1 /\ Len(errors) \in Nat
        /\ errors'[1] = IF Len(errors) = 0 THEN e ELSE errors[1]
    BY <1>1, <2>1
  <2>3. Healthy <=> Len(errors) = 0
    BY <2>1 DEF Healthy
  <2>4. errors' # << >>
    BY <2>2
  <2> QED
    BY <2>2, <2>3, <2>4 DEF U
<1>6. ~ Healthy' /\ SpendsResolve'
  BY <1>3, <1>5 DEF Healthy, SpendsResolve, CompilerInv
<1>7. DOMAIN call' = DOMAIN Idle /\ call'.running \in BOOLEAN
  BY <1>1 DEF Idle
<1>8. \E o : /\ Layout(o, builder'.variables, builder'.instructions)
             /\ Healthy' =>
                  /\ call'.running => call'.next \in Nat
                  /\ n' \in 0 .. Len(builder'.instructions)
                  /\ Represents(o, n', builder'.variables, compiler'.variables)
  BY <1>1, <1>2, <1>6
<1>9. \E R : errors' \in Seq(R)
  BY <1>5
<1> QED
  BY <1>1, <1>6, <1>7, <1>8, <1>9 DEF CompilerInv

\* A call that returns has compiled everything.
LEMMA CompileReturnPreserves ==
  ASSUME CompilerInv, CompileReturn
  PROVE  CompilerInv'
<1> DEFINE n == Compiled
           vs == builder.variables
           p == builder.instructions
<1>1. /\ call.running /\ call.next > Len(p) /\ call' = Idle
      /\ compiler' = [compiler EXCEPT !.last_compiled_instruction = Len(p)]
      /\ UNCHANGED <<builder, errors>>
  BY DEF CompileReturn
<1>2. PICK off : /\ Layout(off, vs, p)
                 /\ Healthy =>
                      /\ call.running => call.next \in Nat
                      /\ n \in 0 .. Len(p)
                      /\ Represents(off, n, vs, compiler.variables)
  BY DEF CompilerInv
<1>3. /\ DOMAIN compiler' = DOMAIN new_compiler
      /\ compiler'.variables = compiler.variables
      /\ compiler'.last_compiled_instruction = Len(p)
      /\ DOMAIN call' = DOMAIN Idle /\ ~ call'.running /\ call'.running \in BOOLEAN
      /\ Healthy' = Healthy /\ SpendsResolve' = SpendsResolve
  BY <1>1 DEF CompilerInv, new_compiler, Idle, Healthy, SpendsResolve
<1>4. Len(p) \in Nat
  BY BuilderLengths DEF CompilerInv
<1>5. Healthy => n' = n /\ n \in 0 .. Len(p)
  BY <1>1, <1>2, <1>3, <1>4 DEF Compiled
<1>6. \E o : /\ Layout(o, builder'.variables, builder'.instructions)
             /\ Healthy' =>
                  /\ call'.running => call'.next \in Nat
                  /\ n' \in 0 .. Len(builder'.instructions)
                  /\ Represents(o, n', builder'.variables, compiler'.variables)
  BY <1>1, <1>2, <1>3, <1>5
<1> QED
  BY <1>1, <1>3, <1>6 DEF CompilerInv

-----------------------------------------------------------------------------
\* The theorems.

\* Whatever callers append and however they batch their calls.
LEMMA CompilerInvariant == CompilerSpec => []CompilerInv
<1>1. CompilerInit => CompilerInv
  BY InitCompiler
<1>2. CompilerInv /\ [CompilerNext]_compiler_vars => CompilerInv'
  <2> SUFFICES ASSUME CompilerInv, [CompilerNext]_compiler_vars PROVE CompilerInv'
    OBVIOUS
  <2>1. ASSUME NEW op \in Operation, NEW inputs, Submit(op, inputs) PROVE CompilerInv'
    BY <2>1, SubmitPreserves
  <2>2. CASE CompileFrom
    BY <2>2, CompileFromPreserves
  <2>3. ASSUME NEW now \in Second, CompileInstruction(now) PROVE CompilerInv'
    BY <2>3, CompileInstructionPreserves
  <2>4. CASE CompileError
    BY <2>4, CompileErrorPreserves
  <2>5. CASE CompileReturn
    BY <2>5, CompileReturnPreserves
  <2>6. CASE UNCHANGED compiler_vars
    BY <2>6 DEF compiler_vars, CompilerInv, SpendsResolve, Healthy, Compiled
  <2> QED
    BY <2>1, <2>2, <2>3, <2>4, <2>5, <2>6 DEF CompilerNext
<1> QED
  BY <1>1, <1>2, PTL DEF CompilerSpec

\* Until a call fails, every variable of the compiler stands for the builder's
\* variable of the same index, with the Rust type its handlers will ask for.
THEOREM CompilerAligned == CompilerSpec => []Aligned
<1>1. CompilerInv => Aligned
  <2> SUFFICES ASSUME CompilerInv, Healthy
               PROVE  /\ \A v \in 1 .. Len(compiler.variables) :
                           /\ v <= Len(builder.variables)
                           /\ compiler.variables[v].rust =
                                representation(builder.variables[v].var)
                      /\ Compiled = Len(builder.instructions) =>
                           Len(compiler.variables) = Len(builder.variables)
    BY DEF Aligned
  <2>1. PICK off : /\ Layout(off, builder.variables, builder.instructions)
                   /\ Compiled \in 0 .. Len(builder.instructions)
                   /\ Represents(off, Compiled, builder.variables, compiler.variables)
    BY DEF CompilerInv
  <2>2. Len(builder.variables) \in Nat
    BY BuilderLengths DEF CompilerInv
  <2>3. /\ Len(compiler.variables) = off[Compiled]
        /\ off[Compiled] \in 0 .. Len(builder.variables)
        /\ off[Len(builder.instructions)] = Len(builder.variables)
    BY <2>1 DEF Layout, Represents
  <2> QED
    BY <2>1, <2>2, <2>3 DEF Represents
<1> QED
  BY <1>1, CompilerInvariant, PTL

\* The first compile_from that fails refuses a payload: before it, none misses
\* a variable, finds one of another type or panics on what a transaction's
\* inputs and scripts refer to.
THEOREM CompilerSpendsResolve == CompilerSpec => []SpendsResolve
<1>1. CompilerInv => SpendsResolve
  BY DEF CompilerInv
<1> QED
  BY <1>1, CompilerInvariant, PTL
=============================================================================
