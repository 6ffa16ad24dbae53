------------------------------ MODULE MCCompiler ----------------------------
(***************************************************************************)
(* Small instances of Compiler.  Each starts from a program that makes     *)
(* something to work with, and explores what follows from a few            *)
(* operations, compiled in any batches:                                    *)
(*   addresses - lists of records, some of which the compiler refuses,     *)
(*               sent over two connections, with a probe;                  *)
(*   outputs   - a transaction with two taproot outputs that are taken,    *)
(*               given an annex and spent by a second transaction;         *)
(*   blocks    - blocks built on each other and sent.                      *)
(***************************************************************************)
EXTENDS Compiler

CONSTANTS
  Subjects,      \* the instances to explore
  MaxAppends     \* for each, how many instructions follow

VARIABLE subject

I(name, inputs) == Instruction(Op(name, << >>), inputs)
Load(name, value) == Instruction(Op(name, <<value>>), << >>)

Preamble == [
  addresses |->
    << Load("LoadConnection", 1), Instruction(Op("Nop", <<1, 0>>), << >>),
       Load("LoadAddr", "V2") >>,
  outputs |->
    << I("LoadTxVersion", << >>), I("LoadLockTime", << >>),        \* variables 1, 2
       I("LoadTxo", << >>), I("LoadSequence", << >>),              \* 3, 4
       Load("BuildTaprootTree", TRUE), I("BuildPayToTaproot", <<5>>),      \* 5, 6
       Load("LoadTaprootAnnex", TRUE), I("LoadAmount", << >>),     \* 7, 8
       I("BeginBuildTx", <<1, 2>>), I("BeginBuildTxInputs", << >>),        \* 9, 10
       I("AddTxInput", <<10, 3, 4>>), I("EndBuildTxInputs", <<10>>),       \* 11
       I("BeginBuildTxOutputs", <<11>>),                           \* 12
       I("AddTxOutput", <<12, 6, 8>>), I("AddTxOutput", <<12, 6, 8>>),
       I("EndBuildTxOutputs", <<12>>), I("EndBuildTx", <<9, 11, 13>>),     \* 13, 14
       I("BeginBuildTx", <<1, 2>>), I("BeginBuildTxInputs", << >>) >>,     \* 15, 16
  blocks |->
    << I("LoadTxVersion", << >>), I("LoadLockTime", << >>),        \* 1, 2
       I("LoadSequence", << >>), I("BuildCoinbaseTxInput", <<3>>), \* 3, 4
       I("LoadHeader", << >>), I("LoadTime", << >>),               \* 5, 6
       I("LoadBlockVersion", << >>), I("BuildPayToAnchor", << >>), \* 7, 8
       I("LoadAmount", << >>),                                     \* 9
       I("BeginBuildCoinbaseTx", <<1, 2>>),                        \* 10
       I("BeginBuildCoinbaseTxOutputs", <<4>>),                    \* 11
       I("AddCoinbaseTxOutput", <<11, 8, 9>>),
       I("EndBuildCoinbaseTxOutputs", <<11>>),                     \* 12
       I("EndBuildCoinbaseTx", <<10, 4, 12>>),                     \* 13
       I("BeginBuildTx", <<1, 2>>), I("BeginBuildTxInputs", << >>),        \* 14, 15
       I("EndBuildTxInputs", <<15>>), I("BeginBuildTxOutputs", <<16>>),    \* 16, 17
       I("EndBuildTxOutputs", <<17>>), I("EndBuildTx", <<14, 16, 18>>),    \* 18, 19
       Load("LoadConnection", 0),                                  \* 20
       I("BeginBlockTransactions", << >>) >> ]                     \* 21

Alphabet == [
  addresses |->
    { Op("LoadConnection", <<0>>), Op("LoadAddr", <<"V1">>),
      Op("BeginBuildAddrListV2", << >>), Op("AddAddrV2", << >>),
      Op("EndBuildAddrListV2", << >>), Op("SendAddrV2", << >>),
      Op("Probe", << >>) },
  outputs |->
    { Op("TakeTxo", << >>), Op("TaprootTxoUseAnnex", << >>),
      Op("AddTxInput", << >>), Op("EndBuildTxInputs", << >>),
      Op("EndBuildTx", << >>) },
  blocks |->
    { Op("AddTx", << >>), Op("EndBlockTransactions", << >>),
      Op("BuildBlock", << >>), Op("SendBlock", << >>), Op("Probe", << >>),
      Op("TakeCoinbaseTxo", << >>), Op("LoadConnection", <<0>>) } ]

MCOperation == UNION {Alphabet[s] : s \in DOMAIN Alphabet}

FewAppends == [addresses |-> 5, outputs |-> 5, blocks |-> 4]

MCInit ==
  /\ subject \in Subjects
  /\ builder = from_program(Preamble[subject])
  /\ compiler = new_compiler /\ call = Idle /\ sent = << >> /\ errors = << >>

Room == Len(builder.instructions) < Len(Preamble[subject]) + MaxAppends[subject]

MCNext ==
  /\ \/ /\ Room
        /\ \E op \in Alphabet[subject] :
             \E inputs \in InputChoices(get_input_variables(op)) : Submit(op, inputs)
     \/ CompileFrom
     \/ \E now \in IF subject = "blocks" THEN Second ELSE {0} : CompileInstruction(now)
     \/ CompileError
     \/ CompileReturn
  /\ UNCHANGED subject

MCSpec == MCInit /\ [][MCNext]_<<compiler_vars, subject>>
=============================================================================
