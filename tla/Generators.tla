----------------------------- MODULE Generators -----------------------------
(***************************************************************************)
(* The generators and mutators that the ir-builder service registers       *)
(* (fuzzamoto-ir/src/generators and mutators), and the searches of the     *)
(* program builder they choose variables with.                             *)
(*                                                                         *)
(* A generator is an operator from a builder to the set of the sequences    *)
(* of instructions that it may append, one for each way its random choices *)
(* may fall.  One that returns early, with MissingVariables, appends what  *)
(* it had got to by then, often nothing.  Its appends are forced: it       *)
(* panics if the builder refuses one.  A Vec of variables that is drawn at *)
(* random is taken in the order of the program.                            *)
(*                                                                         *)
(* Payloads: LoadTxo and LoadHeader carry an element of Txos and Headers,  *)
(* LoadAddr the version of its record; a header is the height it has.      *)
(***************************************************************************)
EXTENDS Compiler

CONSTANTS
  Txos,          \* FullProgramContext.txos
  Headers,       \* FullProgramContext.headers: their heights
  OutputTypes,   \* the output types that are drawn
  MaxPicks,      \* bound: variables drawn, outputs, records of one generator
  ChainLength    \* the 25 transactions of LongChainGenerator

ASSUME GeneratorAssumption ==
  /\ MaxPicks \in Nat /\ ChainLength \in Nat
  /\ Headers \subseteq Nat
  /\ \E max \in Headers : \A header \in Headers : header <= max
  /\ OutputTypes \subseteq
       { "PayToWitnessScriptHash", "PayToScriptHash", "PayToAnchor",
         "PayToPubKey", "PayToPubKeyHash", "PayToWitnessPubKeyHash",
         "PayToTaproot", "OpReturn" }

\* The operations generators append, payloads being there where they matter.
GeneratedOperation ==
  {Op(name, << >>) :
     name \in OperationName \
       { "Nop", "AdvanceTime", "Probe", "LoadNode", "LoadConnection",
         "LoadConnectionType", "LoadAddr", "LoadTxo", "LoadHeader",
         "LoadTaprootAnnex", "BuildTaprootTree" }}
  \cup {Op("LoadConnection", <<n>>) : n \in 0 .. num_connections - 1}
  \cup {Op("LoadTxo", <<txo>>) : txo \in Txos}
  \cup {Op("LoadHeader", <<header>>) : header \in Headers}
  \cup {Op("LoadAddr", <<version>>) : version \in {"V1", "V2"}}
  \cup {Op(name, <<TRUE>>) : name \in {"LoadTaprootAnnex", "BuildTaprootTree"}}

ASSUME GeneratorsAreCallers == GeneratedOperation \subseteq Operation

-----------------------------------------------------------------------------
\* Instructions.

I(name, inputs) == Instruction(Op(name, << >>), inputs)

Load(name, value) == Instruction(Op(name, <<value>>), << >>)

newest(b) == Len(b.variables)

\* How many variables the instructions s define: the pairs of one of them and
\* the number of one of its outputs.
width(s) ==
  Cardinality(UNION {{k} \X (1 .. num_outputs(s[k].operation)
                                  + num_inner_outputs(s[k].operation)) :
                       k \in DOMAIN s})

MissingVariables == { << >> }

-----------------------------------------------------------------------------
\* Searches.

available(b, type) ==
  {v \in 1 .. Len(b.variables) :
     b.variables[v].var = type /\ is_variable_in_scope(b, v)}

nearest(S) == IF S = {} THEN {} ELSE {CHOOSE v \in S : \A w \in S : w <= v}

get_nearest_variable(b, type) == nearest(available(b, type))

\* Non-empty draws from S, unless S is empty.
draws(S) ==
  IF S = {} THEN { << >> }
  ELSE {s \in UNION {[1 .. n -> S] : n \in 1 .. MaxPicks} :
          \A j, k \in DOMAIN s : j < k => s[j] < s[k]}

get_random_variables(b, type) == draws(available(b, type))

\* The header of a sent block is the variable before the block.
get_nearest_sent_header(b) ==
  LET p == Range(b.instructions)
      sent_headers ==
        {i.inputs[2] : i \in {j \in p : j.operation.name = "SendHeader"}} \cup
        {i.inputs[2] - 1 : i \in {j \in p : j.operation.name = "SendBlock"}}
  IN  nearest(available(b, "Header") \cap sent_headers)

\* Mutant of spends: an input is looked for in the wrong place.
spends_sequence(i) == IF i.operation.name = "AddTxInput" THEN {i.inputs[3]} ELSE {}

\* The Txo variable an instruction takes out of the set of unspent ones.
spends(i) == IF i.operation.name = "AddTxInput" THEN {i.inputs[2]} ELSE {}

\* The variables of Txos that were loaded or taken, each the only one of its
\* instruction, and not spent since.
utxos(b) ==
  LET p == b.instructions
      txos == {width(SubSeq(p, 1, k)) :
                 k \in {k \in DOMAIN p : p[k].operation.name \in {"TakeTxo", "LoadTxo"}}}
  IN  {v \in txos \ UNION {spends(i) : i \in Range(p)} : is_variable_in_scope(b, v)}

get_random_utxos(b) == draws(utxos(b))

\* The connection's variable, v being the newest one, and what loads it.
get_or_create_random_connection(b, v) ==
  IF available(b, "Connection") # {}
  THEN {[code |-> << >>, var |-> c] : c \in available(b, "Connection")}
  ELSE {[code |-> <<Load("LoadConnection", n)>>, var |-> v + 1] :
          n \in 0 .. num_connections - 1}

\* First the instructions s, then those that `body` makes of a connection's
\* variable and the index of the newest variable before them.
on_connection(b, s, body(_, _)) ==
  LET v == newest(b) + width(s)
  IN  {s \o c.code \o body(c.var, v + Len(c.code)) :
         c \in get_or_create_random_connection(b, v)}

-----------------------------------------------------------------------------
\* Transactions (generators/tx.rs).

\* The instructions that build the scripts of an output, each of which defines
\* one variable; v is the newest one before them.
scripts_of(type, v) ==
  CASE type \in {"PayToWitnessScriptHash", "PayToScriptHash"} ->
         << I("LoadBytes", << >>), I("BeginWitnessStack", << >>),
            I("EndWitnessStack", <<v + 2>>),
            I(IF type = "PayToScriptHash" THEN "BuildPayToScriptHash"
              ELSE "BuildPayToWitnessScriptHash", <<v + 1, v + 3>>) >>
    [] type = "PayToAnchor" -> << I("BuildPayToAnchor", << >>) >>
    [] type = "OpReturn" ->
         << I("LoadSize", << >>), I("BuildOpReturnScripts", <<v + 1>>) >>
    [] type \in {"PayToPubKey", "PayToPubKeyHash", "PayToWitnessPubKeyHash"} ->
         << I("LoadPrivateKey", << >>), I("LoadSigHashFlags", << >>),
            I(CASE type = "PayToPubKey" -> "BuildPayToPubKey"
                [] type = "PayToPubKeyHash" -> "BuildPayToPubKeyHash"
                [] OTHER -> "BuildPayToWitnessPubKeyHash", <<v + 1, v + 2>>) >>
    [] type = "PayToTaproot" ->
         << Load("BuildTaprootTree", TRUE), I("BuildPayToTaproot", <<v + 1>>) >>

add_output(mut_outputs, type, add, v) ==
  LET scripts == v + Len(scripts_of(type, v))
  IN  scripts_of(type, v) \o
        << I("LoadAmount", << >>), I(add, <<mut_outputs, scripts, scripts + 1>>) >>

build_outputs(mut_outputs, types, add, v) ==
  LET built[n \in 0 .. Len(types)] ==
        IF n = 0 THEN << >>
        ELSE LET s == built[n - 1]
             IN  s \o add_output(mut_outputs, types[n], add, v + width(s))
  IN  built[Len(types)]

add_inputs(mut_inputs, funding, v) ==
  FlattenSeq([k \in 1 .. Len(funding) |->
    << I("LoadSequence", << >>), I("AddTxInput", <<mut_inputs, funding[k], v + k>>) >>])

\* One take per output; a taproot output whose position is in `annexed` is
\* then given an annex, and the new variable stands for it.
take_outputs(tx, types, annexed) ==
  LET take(acc, k) ==
        LET txo == tx + width(acc.code) + 1
        IN  IF types[k] = "PayToTaproot" /\ k \in annexed
            THEN [code |-> acc.code \o
                    << I("TakeTxo", <<tx>>), Load("LoadTaprootAnnex", TRUE),
                       I("TaprootTxoUseAnnex", <<txo, txo + 1>>) >>,
                  outputs |-> Append(acc.outputs, txo + 2)]
            ELSE [code |-> Append(acc.code, I("TakeTxo", <<tx>>)),
                  outputs |-> Append(acc.outputs, txo)]
      taken[n \in 0 .. Len(types)] ==
        IF n = 0 THEN [code |-> << >>, outputs |-> << >>] ELSE take(taken[n - 1], n)
  IN  taken[Len(types)]

\* The instructions, the transaction's variable and those of its outputs; the
\* variable of its inputs is `inputs`, and `outputs` that of its outputs.
tx_of(v, inputs, outputs, funding, filling, taking) ==
  [code |-> << I("LoadTxVersion", << >>), I("LoadLockTime", << >>),
               I("BeginBuildTx", <<v + 1, v + 2>>), I("BeginBuildTxInputs", << >>) >>
            \o add_inputs(v + 4, funding, v + 4)
            \o << I("EndBuildTxInputs", <<v + 4>>),
                  I("BeginBuildTxOutputs", <<inputs>>) >>
            \o filling
            \o << I("EndBuildTxOutputs", <<inputs + 1>>),
                  I("EndBuildTx", <<v + 3, inputs, outputs>>) >>
            \o taking.code,
   tx |-> outputs + 1,
   outputs |-> taking.outputs]

filled_tx(v, inputs, outputs, funding, filling, types, annexed) ==
  tx_of(v, inputs, outputs, funding, filling, take_outputs(outputs + 1, types, annexed))

build_tx(v, funding, types, annexed) ==
  LET inputs == v + 5 + Len(funding)
      fill(filling) == filled_tx(v, inputs, inputs + 2 + width(filling), funding,
                                 filling, types, annexed)
  IN  fill(build_outputs(inputs + 1, types, "AddTxOutput", inputs + 1))

\* Announce a transaction, then send it.
send_tx(conn, tx, v) ==
  << I("BeginBuildInventory", << >>), I("AddWtxidInv", <<v + 1, tx>>),
     I("EndBuildInventory", <<v + 1>>), I("SendInv", <<conn, v + 2>>),
     I("SendTx", <<conn, tx>>) >>

\* Each announcement defines two variables.
send_txs(conn, txs, v) ==
  FlattenSeq([k \in 1 .. Len(txs) |-> send_tx(conn, txs[k], v + 2 * (k - 1))])

Funded(b, generate(_)) ==
  IF utxos(b) = {} THEN MissingVariables
  ELSE UNION {generate(funding) : funding \in get_random_utxos(b)}

OutputLists == UNION {[1 .. n -> OutputTypes] : n \in 1 .. MaxPicks}

single_txs(v, funding) ==
  {build_tx(v, funding, types, annexed) :
     types \in OutputLists, annexed \in SUBSET (1 .. MaxPicks)}

sent_or_not(b, t) ==
  {t.code} \cup on_connection(b, t.code, LAMBDA conn, v : send_tx(conn, t.tx, v))

SingleTxGenerator(b) ==
  Funded(b, LAMBDA funding :
    UNION {sent_or_not(b, t) : t \in single_txs(newest(b), funding)})

OneParentOneChildGenerator(b) ==
  LET child_of(parent) ==
        build_tx(newest(b) + width(parent.code), <<Last(parent.outputs)>>,
                 <<"PayToWitnessScriptHash">>, {})
      announced(parent, child) ==
        on_connection(b, parent.code \o child.code,
                      LAMBDA conn, v : send_txs(conn, <<child.tx, parent.tx>>, v))
      sending(parent) == announced(parent, child_of(parent))
  IN  Funded(b, LAMBDA funding :
        sending(build_tx(newest(b), funding,
                      <<"PayToWitnessScriptHash", "PayToAnchor">>, {})))

\* Transactions, each of which spends all outputs of the one before.
chain_from(v, funding) ==
  LET chain[n \in 0 .. ChainLength] ==
        IF n = 0 THEN [code |-> << >>, funding |-> funding, txs |-> << >>]
        ELSE LET acc == chain[n - 1]
                 t == build_tx(v + width(acc.code), acc.funding,
                               <<"PayToWitnessScriptHash">>, {})
             IN  [code |-> acc.code \o t.code, funding |-> t.outputs,
                  txs |-> Append(acc.txs, t.tx)]
  IN  chain[ChainLength]

LongChainGenerator(b) ==
  LET sending(chain) == on_connection(b, chain.code,
                          LAMBDA conn, v : send_txs(conn, chain.txs, v))
  IN  Funded(b, LAMBDA funding : sending(chain_from(newest(b), funding)))

\* A transaction for each of the Txos, which is sent at once.
send_each(conn, funding, v) ==
  LET spent[n \in 0 .. Len(funding)] ==
        IF n = 0 THEN << >>
        ELSE LET s == spent[n - 1]
                 t == build_tx(v + width(s), <<funding[n]>>, <<"OpReturn">>, {})
             IN  s \o t.code \o send_tx(conn, t.tx, v + width(s) + width(t.code))
  IN  spent[Len(funding)]

LargeTxGenerator(b) ==
  Funded(b, LAMBDA funding :
    on_connection(b, << >>, LAMBDA conn, v : send_each(conn, funding, v)))

\* Only called by other generators, with the newest variable.
CoinbaseTxGenerator(v) ==
  {LET filling == build_outputs(v + 6, types, "AddCoinbaseTxOutput", v + 6) IN
   << I("LoadTxVersion", << >>), I("LoadLockTime", << >>),
      I("BeginBuildCoinbaseTx", <<v + 1, v + 2>>), I("LoadSequence", << >>),
      I("BuildCoinbaseTxInput", <<v + 4>>), I("BeginBuildCoinbaseTxOutputs", <<v + 5>>) >>
   \o filling
   \o << I("EndBuildCoinbaseTxOutputs", <<v + 6>>),
         I("EndBuildCoinbaseTx", <<v + 3, v + 5, v + 7 + width(filling)>>) >> :
     types \in OutputLists}

TxoGenerator(b) ==
  IF Txos = {} THEN MissingVariables ELSE {<<Load("LoadTxo", txo)>> : txo \in Txos}

-----------------------------------------------------------------------------
\* Blocks (generators/block.rs).

\* A coinbase transaction, taken from the program if it has one.
coinbases(b, v) ==
  IF available(b, "CoinbaseTx") # {}
  THEN {[code |-> << >>, var |-> c] : c \in available(b, "CoinbaseTx")}
  ELSE {[code |-> s, var |-> v + width(s)] : s \in CoinbaseTxGenerator(v)}

\* The transactions of a block, and its version.
fill_block(v, txs) ==
  << I("BeginBlockTransactions", << >>) >>
  \o [k \in 1 .. Len(txs) |-> I("AddTx", <<v + 1, txs[k]>>)]
  \o << I("EndBlockTransactions", <<v + 1>>), I("LoadBlockVersion", << >>) >>

\* w is the last of the three variables that the block is.
announce_block(conn, w) ==
  << I("SendHeader", <<conn, w - 2>>), I("SendBlock", <<conn, w - 1>>),
     I("TakeCoinbaseTxo", <<w>>) >>

announced_block(b, code) ==
  LET w == newest(b) + width(code)
  IN  {code \o c.code \o announce_block(c.var, w) :
         c \in get_or_create_random_connection(b, w)}

\* s, and a block; its header is in the program or loaded by s.
with_block(s, v, header, time, txs, c) ==
  s \o fill_block(v, txs) \o c.code
    \o << I("BuildBlock", <<c.var, header, time, v + 3, v + 2>>) >>

built_blocks(b, s, header) ==
  LET v == newest(b) + width(s)
  IN  {with_block(s, v, header, time, txs, c) :
         time \in available(b, "Time"),
         txs \in get_random_variables(b, "ConstTx"),
         c \in coinbases(b, v + 3)}

build_block_from_header(b, s, header) ==
  IF available(b, "Time") = {} THEN {s}
  ELSE UNION {announced_block(b, code) : code \in built_blocks(b, s, header)}

BlockGenerator(b) ==
  LET headers == available(b, "Header") \cup get_nearest_sent_header(b)
      missing == IF get_nearest_sent_header(b) = {} THEN MissingVariables ELSE {}
  IN  missing \cup UNION {build_block_from_header(b, << >>, h) : h \in headers}

\* The newest recent block, or else the tip of the snapshot, loaded.  meta is
\* PerTestcaseMetadata.recent_blocks, which never has more than one element.
tip_header(b, meta) ==
  IF meta # << >> THEN [code |-> << >>, var |-> Last(meta).header_var]
  ELSE [code |-> <<Load("LoadHeader", Max(Headers))>>, var |-> newest(b) + 1]

TipBlockGenerator(b, meta) ==
  LET tip == tip_header(b, meta) IN build_block_from_header(b, tip.code, tip.var)

HeaderGenerator(b) ==
  {<<Load("LoadHeader", h)>> : h \in Headers}

send_block(b, op, block) ==
  on_connection(b, << >>, LAMBDA conn, v : << I(op, <<conn, block>>) >>)

SendBlockGenerator(b) ==
  IF available(b, "Block") = {} THEN MissingVariables
  ELSE UNION {send_block(b, op, block) :
                op \in {"SendBlock", "SendBlockNoWit"}, block \in available(b, "Block")}

send_compact_block(b, block) ==
  on_connection(b, << >>, LAMBDA conn, v :
    << I("LoadNonce", << >>), I("BuildCompactBlock", <<block, v + 1>>),
       I("SendCompactBlock", <<conn, v + 2>>) >>)

CompactBlockGenerator(b) ==
  IF available(b, "Block") = {} THEN MissingVariables
  ELSE UNION {send_compact_block(b, block) : block \in available(b, "Block")}

query_filters(b, op, header) ==
  on_connection(b, << >>, LAMBDA conn, v :
    << I("LoadCompactFilterType", << >>), I("LoadBlockHeight", << >>),
       I(op, IF op = "SendGetCFCheckpt" THEN <<conn, v + 1, header>>
             ELSE <<conn, v + 1, v + 2, header>>) >>)

CompactFilterQueryGenerator(b) ==
  IF available(b, "Header") = {} THEN MissingVariables
  ELSE UNION {query_filters(b, op, header) :
                op \in {"SendGetCFilters", "SendGetCFHeaders", "SendGetCFCheckpt"},
                header \in available(b, "Header")}

-----------------------------------------------------------------------------
\* Messages about what the program has (generators/getdata.rs, bloom_filter.rs,
\* address.rs, getaddr.rs and send_raw_message.rs).

GetDataGenerator(b) ==
  IF available(b, "ConstInventory") = {} THEN MissingVariables
  ELSE UNION {on_connection(b, << >>, LAMBDA conn, v : << I("SendGetData", <<conn, inv>>) >>) :
                inv \in available(b, "ConstInventory")}

\* Each variable is announced in one of several ways.
announcements(inventory, vars, ops) ==
  {[k \in 1 .. Len(vars) |-> I(f[k], <<inventory, vars[k]>>)] :
     f \in [1 .. Len(vars) -> ops]}

InventoryGenerator(b) ==
  LET inventories == get_nearest_variable(b, "MutInventory")
  IN  IF inventories = {} THEN MissingVariables
      ELSE {txs \o blocks :
              txs \in UNION {announcements(Max(inventories), vars, TxInvs) :
                               vars \in get_random_variables(b, "ConstTx")},
              blocks \in UNION {announcements(Max(inventories), vars, BlockInvs) :
                                  vars \in get_random_variables(b, "Block")}}

\* Mutant of BloomFilterLoadGenerator: gives up once the filter is opened.
BloomFilterLoadGenerator_gives_up(b) ==
  on_connection(b, << >>, LAMBDA conn, v :
    << I("LoadFilterLoad", << >>), I("BeginBuildFilterLoad", <<v + 1>>) >>)

populate_filter(v, txs, txos) ==
  << I("BeginBuildFilterLoad", <<v + 1>>) >>
  \o [k \in 1 .. Len(txs) |-> I("AddTxToFilter", <<v + 2, txs[k]>>)]
  \o [k \in 1 .. Len(txos) |-> I("AddTxoToFilter", <<v + 2, txos[k]>>)]
  \o << I("EndBuildFilterLoad", <<v + 2>>) >>

load_filter(b) ==
  on_connection(b, << >>, LAMBDA conn, v :
    << I("LoadFilterLoad", << >>), I("SendFilterLoad", <<conn, v + 1>>) >>)

load_populated_filter(b, txs, txos) ==
  on_connection(b, << >>, LAMBDA conn, v :
    << I("LoadFilterLoad", << >>) >> \o populate_filter(v, txs, txos)
      \o << I("SendFilterLoad", <<conn, v + 3>>) >>)

BloomFilterLoadGenerator(b) ==
  load_filter(b)
  \cup UNION {load_populated_filter(b, txs, txos) :
                txs \in get_random_variables(b, "ConstTx"),
                txos \in get_random_variables(b, "Txo")}

add_to_filter(b, op, inputs) ==
  on_connection(b, << >>, LAMBDA conn, v :
    << I(op, inputs), I("SendFilterAdd", <<conn, v + 1>>) >>)

\* What the data of a message may be taken from.
filter_data(b) ==
  {[op |-> "LoadFilterAdd", inputs |-> << >>]}
  \cup {[op |-> "BuildFilterAddFromTx", inputs |-> <<tx>>] : tx \in available(b, "ConstTx")}
  \cup {[op |-> "BuildFilterAddFromTxo", inputs |-> <<txo>>] : txo \in available(b, "Txo")}

\* It may give up, the connection loaded: usually without a filter, and
\* always if there is nothing to take the data from.
gives_up(b) ==
  IF \/ get_nearest_variable(b, "ConstFilterLoad") = {}
     \/ available(b, "ConstTx") = {}
     \/ available(b, "Txo") = {}
  THEN on_connection(b, << >>, LAMBDA conn, v : << >>) ELSE {}

BloomFilterAddGenerator(b) ==
  gives_up(b) \cup UNION {add_to_filter(b, d.op, d.inputs) : d \in filter_data(b)}

BloomFilterClearGenerator(b) ==
  on_connection(b, << >>, LAMBDA conn, v : << I("SendFilterClear", <<conn>>) >>)

\* The records of a list are of its own version.
address_list(version, begin, add, end, send, conn, v, count) ==
  << I(begin, << >>) >>
  \o FlattenSeq([k \in 1 .. count |->
       << Load("LoadAddr", version), I(add, <<v + 1, v + 1 + k>>) >>])
  \o << I(end, <<v + 1>>), I(send, <<conn, v + count + 2>>) >>

AddrRelayGenerator(b) ==
  UNION {on_connection(b, << >>, LAMBDA conn, v :
           address_list("V1", "BeginBuildAddrList", "AddAddr", "EndBuildAddrList",
                        "SendAddr", conn, v, count)) : count \in 1 .. MaxPicks}

\* Mutant of AddrRelayV2Generator: the records of the other list.
AddrRelayV2Generator_v1(b) ==
  UNION {on_connection(b, << >>, LAMBDA conn, v :
           address_list("V1", "BeginBuildAddrListV2", "AddAddrV2",
                        "EndBuildAddrListV2", "SendAddrV2", conn, v, count)) :
           count \in 1 .. MaxPicks}

AddrRelayV2Generator(b) ==
  UNION {on_connection(b, << >>, LAMBDA conn, v :
           address_list("V2", "BeginBuildAddrListV2", "AddAddrV2",
                        "EndBuildAddrListV2", "SendAddrV2", conn, v, count)) :
           count \in 1 .. MaxPicks}

GetAddrGenerator(b) ==
  on_connection(b, << >>, LAMBDA conn, v : << I("SendGetAddr", <<conn>>) >>)

SendMessageGenerator(b) ==
  on_connection(b, << >>, LAMBDA conn, v :
    << I("LoadMsgType", << >>), I("LoadBytes", << >>),
       I("SendRawMessage", <<conn, v + 1, v + 2>>) >>)

-----------------------------------------------------------------------------
\* The registry: IrBuilderState::mutate.

GeneratorNames ==
  { "SingleTxGenerator", "GetDataGenerator", "TxoGenerator", "HeaderGenerator",
    "OneParentOneChildGenerator", "LongChainGenerator", "LargeTxGenerator",
    "BlockGenerator", "TipBlockGenerator", "SendBlockGenerator",
    "InventoryGenerator", "CompactBlockGenerator", "CompactFilterQueryGenerator",
    "BloomFilterLoadGenerator", "BloomFilterAddGenerator",
    "BloomFilterClearGenerator", "AddrRelayGenerator", "AddrRelayV2Generator",
    "GetAddrGenerator", "SendMessageGenerator" }

generate(name, b, meta) ==
  CASE name = "SingleTxGenerator" -> SingleTxGenerator(b)
    [] name = "GetDataGenerator" -> GetDataGenerator(b)
    [] name = "TxoGenerator" -> TxoGenerator(b)
    [] name = "HeaderGenerator" -> HeaderGenerator(b)
    [] name = "OneParentOneChildGenerator" -> OneParentOneChildGenerator(b)
    [] name = "LongChainGenerator" -> LongChainGenerator(b)
    [] name = "LargeTxGenerator" -> LargeTxGenerator(b)
    [] name = "BlockGenerator" -> BlockGenerator(b)
    [] name = "TipBlockGenerator" -> TipBlockGenerator(b, meta)
    [] name = "SendBlockGenerator" -> SendBlockGenerator(b)
    [] name = "InventoryGenerator" -> InventoryGenerator(b)
    [] name = "CompactBlockGenerator" -> CompactBlockGenerator(b)
    [] name = "CompactFilterQueryGenerator" -> CompactFilterQueryGenerator(b)
    [] name = "BloomFilterLoadGenerator" -> BloomFilterLoadGenerator(b)
    [] name = "BloomFilterAddGenerator" -> BloomFilterAddGenerator(b)
    [] name = "BloomFilterClearGenerator" -> BloomFilterClearGenerator(b)
    [] name = "AddrRelayGenerator" -> AddrRelayGenerator(b)
    [] name = "AddrRelayV2Generator" -> AddrRelayV2Generator(b)
    [] name = "GetAddrGenerator" -> GetAddrGenerator(b)
    [] name = "SendMessageGenerator" -> SendMessageGenerator(b)

-----------------------------------------------------------------------------
\* Mutators: from a program to the programs it may become.

\* Instruction::is_input_mutable.
is_input_mutable(i) ==
  /\ i.inputs # << >>
  /\ i.operation.name \notin
       { "EndBuildTx", "BeginBuildTxInputs", "BeginBuildTxOutputs",
         "EndBuildTxInputs", "EndBuildTxOutputs", "BeginBuildInventory",
         "EndBuildInventory", "EndBuildAddrList", "EndBuildAddrListV2",
         "BeginBlockTransactions", "EndBlockTransactions", "TakeTxo",
         "TakeCoinbaseTxo", "BeginBuildCoinbaseTx", "EndBuildCoinbaseTx",
         "BeginBuildCoinbaseTxOutputs", "EndBuildCoinbaseTxOutputs" }

\* Mutant of InputMutator: the replacement may be defined later.
InputMutator_any_scope(p) ==
  LET whole == from_program(p)
  IN  UNION {UNION {
        {[p EXCEPT ![k].inputs[n] = v] :
           v \in available(whole, whole.variables[p[k].inputs[n]].var)} :
          n \in 1 .. Len(p[k].inputs)} :
        k \in {k \in 1 .. Len(p) : is_input_mutable(p[k])}}

\* One input of one instruction becomes another variable of its type that is
\* in scope there.
InputMutator(p) ==
  UNION {LET upto == from_program(SubSeq(p, 1, k - 1)) IN
         UNION {{[p EXCEPT ![k].inputs[n] = v] :
                   v \in available(upto, upto.variables[p[k].inputs[n]].var)
                           \ {p[k].inputs[n]}} :
                  n \in 1 .. Len(p[k].inputs)} :
           k \in {k \in 1 .. Len(p) : is_input_mutable(p[k])}}

\* Groups of operations that turn into each other.
Interchangeable ==
  { {"SendTxNoWit", "SendTx"}, TxInvs, BlockInvs,
    {"BuildPayToPubKey", "BuildPayToPubKeyHash", "BuildPayToWitnessPubKeyHash"} }

\* What an operation may turn into.  Payloads that are not modelled change
\* unseen; a record keeps its version and an annex its prefix.
mutations(op) ==
  {Op(name, op.args) :
     name \in (UNION {group \in Interchangeable : op.name \in group}) \ {op.name}}
  \cup (IF op.name = "LoadConnection"
        THEN {Op(op.name, <<c>>) : c \in 0 .. num_connections - 1} \ {op}
        ELSE {})
  \cup (IF op.name = "LoadTaprootAnnex" THEN {Op(op.name, <<TRUE>>)} \ {op} ELSE {})

OperationMutator(p) ==
  UNION {{[p EXCEPT ![k].operation = op] : op \in mutations(p[k].operation)} :
           k \in 1 .. Len(p)}

MutatorNames == {"InputMutator", "OperationMutator"}

mutate(name, p) ==
  CASE name = "InputMutator" -> InputMutator(p)
    [] name = "OperationMutator" -> OperationMutator(p)
=============================================================================
