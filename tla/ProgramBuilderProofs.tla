------------------------ MODULE ProgramBuilderProofs ------------------------
(***************************************************************************)
(* Proofs about the program builder, for every alphabet of operations and  *)
(* every bound: its fields keep their types, scope accounting is an        *)
(* invariant, append and finalize never panic, a variable that has gone    *)
(* out of scope stays out of scope, and the builder implements lexical     *)
(* scoping.                                                                *)
(***************************************************************************)
EXTENDS ProgramBuilder, FiniteSetTheorems, SequenceTheorems, NaturalsInduction,
        WellFoundedInduction, TLAPS

-----------------------------------------------------------------------------
\* What the operation tables say about Mut variables.

\* Every block end reads a Mut variable first: the one its block builds.
LEMMA EndReadsMut ==
  ASSUME NEW op, is_block_end(op)
  PROVE  /\ num_inputs(op) >= 1
         /\ get_input_variables(op)[1] \in MutVariable
<1>1. CASE op.name = "EndBuildTx"
  <2>1. get_input_variables(op) = <<"MutTx", "ConstTxInputs", "ConstTxOutputs">>
    BY <1>1 DEF get_input_variables, TxInvs, BlockInvs
  <2>. QED BY <2>1 DEF num_inputs, MutVariable
<1>2. CASE op.name = "EndBuildCoinbaseTx"
  <2>1. get_input_variables(op) = <<"MutTx", "CoinbaseInput", "ConstTxOutputs">>
    BY <1>2 DEF get_input_variables, TxInvs, BlockInvs
  <2>. QED BY <2>1 DEF num_inputs, MutVariable
<1>3. CASE op.name \notin {"EndBuildTx", "EndBuildCoinbaseTx"}
  <2>. USE DEF get_input_variables, TxInvs, BlockInvs
  <2>1. op.name = "EndBuildTxInputs" => get_input_variables(op) = <<"MutTxInputs">>
    OBVIOUS
  <2>2. op.name = "EndBuildTxOutputs" => get_input_variables(op) = <<"MutTxOutputs">>
    OBVIOUS
  <2>3. op.name = "EndBuildCoinbaseTxOutputs" => get_input_variables(op) = <<"MutTxOutputs">>
    OBVIOUS
  <2>4. op.name = "EndBuildInventory" => get_input_variables(op) = <<"MutInventory">>
    OBVIOUS
  <2>5. op.name = "EndBuildAddrList" => get_input_variables(op) = <<"MutAddrList">>
    OBVIOUS
  <2>6. op.name = "EndBuildAddrListV2" => get_input_variables(op) = <<"MutAddrListV2">>
    OBVIOUS
  <2>7. op.name = "EndWitnessStack" => get_input_variables(op) = <<"MutWitnessStack">>
    OBVIOUS
  <2>8. op.name = "EndBlockTransactions" => get_input_variables(op) = <<"MutBlockTransactions">>
    OBVIOUS
  <2>9. op.name = "EndBuildFilterLoad" => get_input_variables(op) = <<"MutFilterLoad">>
    OBVIOUS
  <2>10. op.name = "EndBuildBlockTxn" => get_input_variables(op) = <<"MutBlockTxn">>
    OBVIOUS
  <2>. HIDE DEF get_input_variables, TxInvs, BlockInvs
  <2>a. \E t \in MutVariable : get_input_variables(op) = <<t>>
    BY <1>3, <2>1, <2>2, <2>3, <2>4, <2>5, <2>6, <2>7, <2>8, <2>9, <2>10
       DEF is_block_end, MutVariable
  <2>. QED BY <2>a DEF num_inputs
<1>. QED BY <1>1, <1>2, <1>3

\* Nothing an operation defines in the enclosing scope is Mut.
LEMMA OutputsCases ==
  ASSUME NEW op
  PROVE  \/ op.name = "Nop" /\ get_output_variables(op) = [i \in 1 .. op.args[1] |-> "Nop"]
         \/ get_output_variables(op) = << >>
         \/ \E t \in Variable \ MutVariable : get_output_variables(op) = <<t>>
         \/ get_output_variables(op) = <<"Header", "Block", "ConstCoinbaseTx">>
<1>1. CASE op.name = "Nop"
  <2>1. get_output_variables(op) = [i \in 1 .. op.args[1] |-> "Nop"]
    BY <1>1 DEF get_output_variables, Loads, ScriptBuilders
  <2>. QED BY <2>1, <1>1
<1>2. CASE op.name # "Nop" /\ op.name \in Loads
  <2>1. get_output_variables(op) = <<loaded_variable(op)>>
    BY <1>2 DEF get_output_variables, Loads, ScriptBuilders
  <2>2. loaded_variable(op) \in Variable
    BY <1>2 DEF loaded_variable, Variable, Loads
  <2>3. loaded_variable(op) \notin MutVariable
    BY <1>2 DEF loaded_variable, MutVariable, Loads
  <2>. QED BY <2>1, <2>2, <2>3
<1>3. CASE op.name # "Nop" /\ op.name \notin Loads
  <2>1. \/ get_output_variables(op) = << >>
         \/ \E t \in Variable \ MutVariable : get_output_variables(op) = <<t>>
         \/ get_output_variables(op) = <<"Header", "Block", "ConstCoinbaseTx">>
    BY <1>3, SMTT(60) DEF get_output_variables, Loads, ScriptBuilders, Variable, MutVariable
  <2>. QED BY <2>1
<1>. QED BY <1>1, <1>2, <1>3

LEMMA OutputsType ==
  ASSUME NEW op \in Operation
  PROVE  /\ get_output_variables(op) \in Seq(Variable)
         /\ \A k \in 1 .. Len(get_output_variables(op)) :
              get_output_variables(op)[k] \notin MutVariable
<1>1. CASE op.name = "Nop" /\ get_output_variables(op) = [i \in 1 .. op.args[1] |-> "Nop"]
  <2>1. op.args[1] \in Nat
    BY <1>1, OperationAssumption
  <2>2. "Nop" \in Variable /\ "Nop" \notin MutVariable
    BY DEF Variable, MutVariable
  <2>. QED BY <1>1, <2>1, <2>2
<1>2. CASE get_output_variables(op) = << >>
  BY <1>2
<1>3. CASE \E t \in Variable \ MutVariable : get_output_variables(op) = <<t>>
  BY <1>3
<1>4. CASE get_output_variables(op) = <<"Header", "Block", "ConstCoinbaseTx">>
  BY <1>4 DEF Variable, MutVariable
<1>. QED BY <1>1, <1>2, <1>3, <1>4, OutputsCases

\* Only a block begin defines a Mut variable, inside the block it opens.
LEMMA InnerOutputsType ==
  ASSUME NEW op \in Operation
  PROVE  /\ get_inner_output_variables(op) \in Seq(Variable)
         /\ ~ is_block_begin(op) =>
              \A k \in 1 .. Len(get_inner_output_variables(op)) :
                 get_inner_output_variables(op)[k] \notin MutVariable
<1>1. CASE op.name = "Nop"
  <2>1. get_inner_output_variables(op) = [i \in 1 .. op.args[2] |-> "Nop"]
    BY <1>1 DEF get_inner_output_variables
  <2>2. op.args[2] \in Nat
    BY <1>1, OperationAssumption
  <2>3. "Nop" \in Variable /\ "Nop" \notin MutVariable
    BY DEF Variable, MutVariable
  <2>. QED BY <2>1, <2>2, <2>3
<1>2. CASE op.name # "Nop" /\ ~ is_block_begin(op)
  <2>1. get_inner_output_variables(op) = << >>
    BY <1>2 DEF get_inner_output_variables, is_block_begin
  <2>. QED BY <2>1
<1>3. CASE is_block_begin(op)
  <2> SUFFICES \E t \in Variable : get_inner_output_variables(op) = <<t>>
    BY <1>3
  <2> DEFINE one(t) == get_inner_output_variables(op) = <<t>>
  <2>1. CASE op.name \in {"BeginBuildTx", "BeginBuildCoinbaseTx"}
    <3>1. one("MutTx")
      BY <2>1 DEF get_inner_output_variables
    <3>2. "MutTx" \in Variable
      BY DEF Variable
    <3> QED
      BY <3>1, <3>2
  <2>2. CASE op.name = "BeginBuildTxInputs"
    <3>1. one("MutTxInputs")
      BY <2>2 DEF get_inner_output_variables
    <3>2. "MutTxInputs" \in Variable
      BY DEF Variable
    <3> QED
      BY <3>1, <3>2
  <2>3. CASE op.name \in {"BeginBuildTxOutputs", "BeginBuildCoinbaseTxOutputs"}
    <3>1. one("MutTxOutputs")
      BY <2>3 DEF get_inner_output_variables
    <3>2. "MutTxOutputs" \in Variable
      BY DEF Variable
    <3> QED
      BY <3>1, <3>2
  <2>4. CASE op.name = "BeginWitnessStack"
    <3>1. one("MutWitnessStack")
      BY <2>4 DEF get_inner_output_variables
    <3>2. "MutWitnessStack" \in Variable
      BY DEF Variable
    <3> QED
      BY <3>1, <3>2
  <2>5. CASE op.name = "BeginBuildInventory"
    <3>1. one("MutInventory")
      BY <2>5 DEF get_inner_output_variables
    <3>2. "MutInventory" \in Variable
      BY DEF Variable
    <3> QED
      BY <3>1, <3>2
  <2>6. CASE op.name = "BeginBuildAddrList"
    <3>1. one("MutAddrList")
      BY <2>6 DEF get_inner_output_variables
    <3>2. "MutAddrList" \in Variable
      BY DEF Variable
    <3> QED
      BY <3>1, <3>2
  <2>7. CASE op.name = "BeginBuildAddrListV2"
    <3>1. one("MutAddrListV2")
      BY <2>7 DEF get_inner_output_variables
    <3>2. "MutAddrListV2" \in Variable
      BY DEF Variable
    <3> QED
      BY <3>1, <3>2
  <2>8. CASE op.name = "BeginBlockTransactions"
    <3>1. one("MutBlockTransactions")
      BY <2>8 DEF get_inner_output_variables
    <3>2. "MutBlockTransactions" \in Variable
      BY DEF Variable
    <3> QED
      BY <3>1, <3>2
  <2>9. CASE op.name = "BeginBuildFilterLoad"
    <3>1. one("MutFilterLoad")
      BY <2>9 DEF get_inner_output_variables
    <3>2. "MutFilterLoad" \in Variable
      BY DEF Variable
    <3> QED
      BY <3>1, <3>2
  <2>10. CASE op.name = "BeginBuildBlockTxn"
    <3>1. one("MutBlockTxn")
      BY <2>10 DEF get_inner_output_variables
    <3>2. "MutBlockTxn" \in Variable
      BY DEF Variable
    <3> QED
      BY <3>1, <3>2
  <2>. QED
    BY <1>3, <2>1, <2>2, <2>3, <2>4, <2>5, <2>6, <2>7, <2>8, <2>9, <2>10
    DEF is_block_begin
<1>. QED BY <1>1, <1>2, <1>3

LEMMA EnteredContext ==
  ASSUME NEW op, is_block_begin(op)
  PROVE  entered_context_after_execution(op) \in InstructionContext
BY DEF is_block_begin, entered_context_after_execution, InstructionContext

LEMMA BeginIsNotEnd ==
  ASSUME NEW op, is_block_begin(op)
  PROVE  ~ is_block_end(op) /\ op.name # "Nop"
BY DEF is_block_begin, is_block_end

LEMMA EndIsNotNop ==
  ASSUME NEW op, is_block_end(op)
  PROVE  op.name # "Nop"
BY DEF is_block_end

-----------------------------------------------------------------------------
\* The stack, and the set that mirrors it.

ScopeType == [begin : Nat, id : Nat, context : InstructionContext]

VariableType0 == [var : Variable, scope_id : Nat]

InstructionType == [operation : Operation, inputs : Seq(Nat)]

\* The frame of a popped stack.
LEMMA FrontProperties ==
  ASSUME NEW S, NEW s \in Seq(S), s # << >>
  PROVE  /\ Front(s) \in Seq(S)
         /\ Len(Front(s)) = Len(s) - 1
         /\ \A k \in 1 .. Len(s) - 1 : Front(s)[k] = s[k]
         /\ Last(s) \in S
<1>1. Len(s) \in Nat \ {0} /\ \A k \in 1 .. Len(s) : s[k] \in S
  BY EmptySeq, ElementOfSeq
<1>2. /\ SubSeq(s, 1, Len(s) - 1) \in Seq(S)
      /\ Len(SubSeq(s, 1, Len(s) - 1)) = Len(s) - 1
      /\ \A k \in 1 .. Len(s) - 1 : SubSeq(s, 1, Len(s) - 1)[k] = s[k]
  <2>1. 1 \in Int /\ Len(s) - 1 \in Int /\ \A k \in 1 .. Len(s) - 1 : s[k] \in S
    BY <1>1
  <2>2. /\ Len(SubSeq(s, 1, Len(s) - 1)) =
             IF 1 <= Len(s) - 1 THEN (Len(s) - 1) - 1 + 1 ELSE 0
        /\ SubSeq(s, 1, Len(s) - 1) \in Seq(S)
        /\ \A k \in 1 .. (Len(s) - 1) - 1 + 1 :
             SubSeq(s, 1, Len(s) - 1)[k] = s[1 + k - 1]
    BY <2>1, SubSeqProperties
  <2>0. Len(s) \in Nat /\ Len(s) >= 1
    BY <1>1
  <2>3. (IF 1 <= Len(s) - 1 THEN (Len(s) - 1) - 1 + 1 ELSE 0) = Len(s) - 1
    <3> DEFINE n == Len(s)
    <3>1. n \in Nat /\ n >= 1
      BY <2>0
    <3> HIDE DEF n
    <3>2. (IF 1 <= n - 1 THEN (n - 1) - 1 + 1 ELSE 0) = n - 1
      BY <3>1
    <3>. QED BY <3>2 DEF n
  <2>4. ASSUME NEW k \in 1 .. Len(s) - 1
        PROVE  k \in 1 .. (Len(s) - 1) - 1 + 1 /\ 1 + k - 1 = k
    BY <1>1
  <2>5. ASSUME NEW k \in 1 .. Len(s) - 1
        PROVE  SubSeq(s, 1, Len(s) - 1)[k] = s[k]
    <3>1. SubSeq(s, 1, Len(s) - 1)[k] = s[1 + k - 1]
      BY <2>2, <2>4
    <3>. QED BY <2>4, <3>1
  <2>. QED BY <2>2, <2>3, <2>5
<1>. QED BY <1>1, <1>2 DEF Front, Last

LEMMA ScopeIds ==
  ASSUME NEW st \in Seq(ScopeType)
  PROVE  /\ Len(st) \in Nat
         /\ \A k \in 1 .. Len(st) :
              /\ st[k] \in ScopeType
              /\ st[k].id \in Nat /\ st[k].begin \in Nat
              /\ st[k].context \in InstructionContext
<1>1. Len(st) \in Nat /\ \A k \in 1 .. Len(st) : st[k] \in ScopeType
  BY ElementOfSeq
<1>2. \A s \in ScopeType : /\ s.id \in Nat /\ s.begin \in Nat
                           /\ s.context \in InstructionContext
  BY DEF ScopeType
<1>. QED BY <1>1, <1>2

LEMMA PopStack ==
  ASSUME NEW st \in Seq(ScopeType), NEW p \in Seq(InstructionType), NEW n \in Nat,
         StackInv(st, p, n), Len(st) > 1
  PROVE  /\ StackInv(Front(st), p, n)
         /\ \A ids : MirrorInv(st, ids) =>
              MirrorInv(Front(st), ids \ {Last(st).id})
<1>1. /\ Front(st) \in Seq(ScopeType)
      /\ Len(Front(st)) = Len(st) - 1
      /\ \A k \in 1 .. Len(st) - 1 : Front(st)[k] = st[k]
  BY FrontProperties
<1>t. Len(st) \in Nat /\ \A k \in 1 .. Len(st) : st[k].id \in Nat
  BY ScopeIds
<1>2. StackInv(Front(st), p, n)
  <2>1. Front(st) # << >> /\ Front(st)[1].begin = None /\ Front(st)[1].id = 1
    <3>1. Len(Front(st)) >= 1 /\ 1 \in 1 .. Len(st) - 1
      BY <1>1, <1>t
    <3>2. Front(st) # << >>
      BY <3>1, EmptySeq
    <3>3. Front(st)[1] = st[1]
      BY <1>1, <3>1
    <3>. QED BY <3>2, <3>3 DEF StackInv
  <2>2. \A k \in 2 .. Len(Front(st)) :
           /\ Front(st)[k].begin \in 1 .. Len(p)
           /\ is_block_begin(p[Front(st)[k].begin].operation)
    BY <1>1, <1>t DEF StackInv
  <2>3. \A k, m \in 1 .. Len(Front(st)) :
           k < m => Front(st)[k].id < Front(st)[m].id
    <3>1. \A k, m \in 1 .. Len(st) : k < m => st[k].id < st[m].id
      BY DEF StackInv
    <3>. QED BY <1>1, <1>t, <3>1
  <2>4. \A k \in 1 .. Len(Front(st)) : Front(st)[k].id <= n
    BY <1>1, <1>t DEF StackInv
  <2>. QED BY <2>1, <2>2, <2>3, <2>4 DEF StackInv
<1>3. \A k \in 1 .. Len(st) - 1 : st[k].id # st[Len(st)].id
  <2>1. \A k \in 1 .. Len(st) - 1 : st[k].id < st[Len(st)].id
    BY <1>t DEF StackInv
  <2>. QED BY <1>t, <2>1
<1>4. ASSUME NEW ids, MirrorInv(st, ids)
      PROVE  MirrorInv(Front(st), ids \ {Last(st).id})
  <2>1. 1 .. Len(st) = 1 .. Len(st) - 1 \cup {Len(st)} /\ Len(st) \notin 1 .. Len(st) - 1
    BY <1>t
  <2>2. {st[k].id : k \in 1 .. Len(st)} \ {st[Len(st)].id} =
          {st[k].id : k \in 1 .. Len(st) - 1}
    BY <1>3, <2>1
  <2>3. {Front(st)[k].id : k \in 1 .. Len(Front(st))} =
          {st[k].id : k \in 1 .. Len(st) - 1}
    BY <1>1
  <2>. QED BY <1>4, <2>2, <2>3 DEF MirrorInv, Last
<1>. QED BY <1>2, <1>4

LEMMA PushStack ==
  ASSUME NEW st \in Seq(ScopeType), NEW p \in Seq(InstructionType), NEW n \in Nat,
         StackInv(st, p, n), NEW i \in InstructionType,
         is_block_begin(i.operation), NEW c \in InstructionContext
  PROVE  /\ StackInv(Append(st, Scope(Len(p) + 1, n + 1, c)), Append(p, i), n + 1)
         /\ Append(st, Scope(Len(p) + 1, n + 1, c)) \in Seq(ScopeType)
         /\ \A ids : MirrorInv(st, ids) =>
              MirrorInv(Append(st, Scope(Len(p) + 1, n + 1, c)), ids \cup {n + 1})
<1> DEFINE top == Scope(Len(p) + 1, n + 1, c)
           st2 == Append(st, top)
<1>1. /\ top \in ScopeType
      /\ top.begin = Len(p) + 1 /\ top.id = n + 1
  BY DEF Scope, ScopeType
<1> HIDE DEF top
<1>2. /\ st2 \in Seq(ScopeType)
      /\ Len(st2) = Len(st) + 1
      /\ \A k \in 1 .. Len(st) : st2[k] = st[k]
      /\ st2[Len(st) + 1] = top
  BY <1>1
<1>3. /\ Len(Append(p, i)) = Len(p) + 1
      /\ \A k \in 1 .. Len(p) : Append(p, i)[k] = p[k]
      /\ Append(p, i)[Len(p) + 1] = i
  OBVIOUS
<1> HIDE DEF st2
<1>t. /\ Len(st) \in Nat
      /\ \A k \in 1 .. Len(st) : st[k].id \in Nat /\ st[k].id <= n
  BY ScopeIds DEF StackInv
<1>4. StackInv(st2, Append(p, i), n + 1)
  <2>1. st2 # << >> /\ st2[1].begin = None /\ st2[1].id = 1
    BY <1>2 DEF StackInv
  <2>2. ASSUME NEW k \in 2 .. Len(st2)
        PROVE  /\ st2[k].begin \in 1 .. Len(Append(p, i))
               /\ is_block_begin(Append(p, i)[st2[k].begin].operation)
    <3>1. CASE k <= Len(st)
      <4>1. /\ st[k].begin \in 1 .. Len(p)
            /\ is_block_begin(p[st[k].begin].operation)
        BY <3>1 DEF StackInv
      <4>. QED BY <1>2, <1>3, <3>1, <4>1
    <3>2. CASE k = Len(st) + 1
      BY <1>1, <1>2, <1>3, <3>2
    <3>. QED BY <1>2, <3>1, <3>2
  <2>3. \A k \in 1 .. Len(st2) : st2[k].id <= n + 1
    BY <1>1, <1>2, <1>t
  <2>4. \A k, m \in 1 .. Len(st2) : k < m => st2[k].id < st2[m].id
    <3>1. \A k, m \in 1 .. Len(st) : k < m => st2[k].id < st2[m].id
      BY <1>2 DEF StackInv
    <3>2. \A k \in 1 .. Len(st) : st2[k].id < st2[Len(st) + 1].id
      BY <1>1, <1>2, <1>t
    <3>3. ASSUME NEW k \in 1 .. Len(st2), NEW m \in 1 .. Len(st2), k < m
          PROVE  st2[k].id < st2[m].id
      <4>0. Len(st) \in Nat /\ k \in 1 .. Len(st) + 1 /\ m \in 1 .. Len(st) + 1
        BY <1>2, <1>t
      <4>1. k \in 1 .. Len(st) /\ (m \in 1 .. Len(st) \/ m = Len(st) + 1)
        BY <4>0, <3>3
      <4>. QED BY <3>1, <3>2, <3>3, <4>1
    <3>. QED BY <3>3
  <2>. QED BY <2>1, <2>2, <2>3, <2>4 DEF StackInv
<1>5. ASSUME NEW ids, MirrorInv(st, ids)
      PROVE  MirrorInv(st2, ids \cup {n + 1})
  <2>1. 1 .. Len(st2) = 1 .. Len(st) \cup {Len(st) + 1}
    BY <1>2, <1>t
  <2>2. {st2[k].id : k \in 1 .. Len(st2)} =
          {st[k].id : k \in 1 .. Len(st)} \cup {n + 1}
    BY <1>1, <1>2, <1>t, <2>1
  <2>. QED BY <1>5, <2>2 DEF MirrorInv
<1>. QED BY <1>2, <1>4, <1>5 DEF st2, top

\* More instructions do not disturb the stack.
LEMMA KeepStack ==
  ASSUME NEW st, NEW p \in Seq(InstructionType), NEW n \in Nat,
         StackInv(st, p, n), NEW i \in InstructionType
  PROVE  StackInv(st, Append(p, i), n)
<1>1. /\ Len(Append(p, i)) = Len(p) + 1
      /\ \A k \in 1 .. Len(p) : Append(p, i)[k] = p[k]
  OBVIOUS
<1>. QED BY <1>1 DEF StackInv

-----------------------------------------------------------------------------
\* Variables.

Tagged(types, scope_id) ==
  [k \in 1 .. Len(types) |-> [var |-> types[k], scope_id |-> scope_id]]

LEMMA MoreVariables ==
  ASSUME NEW vs \in Seq(VariableType0), NEW n \in Nat, VariableInv(vs, n),
         NEW types \in Seq(Variable), NEW scope_id \in 0 .. n,
         scope_id = 1 => \A k \in 1 .. Len(types) : types[k] \notin MutVariable
  PROVE  /\ vs \o Tagged(types, scope_id) \in Seq(VariableType0)
         /\ VariableInv(vs \o Tagged(types, scope_id), n)
<1> DEFINE new_vs == Tagged(types, scope_id)
<1>1. /\ new_vs \in Seq(VariableType0)
      /\ Len(new_vs) = Len(types)
      /\ \A k \in 1 .. Len(types) : /\ new_vs[k].var = types[k]
                                    /\ new_vs[k].scope_id = scope_id
  BY DEF Tagged, VariableType0
<1> HIDE DEF new_vs
<1>2. /\ vs \o new_vs \in Seq(VariableType0)
      /\ Len(vs \o new_vs) = Len(vs) + Len(new_vs)
      /\ \A k \in 1 .. Len(vs) + Len(new_vs) : (vs \o new_vs)[k] =
           IF k <= Len(vs) THEN vs[k] ELSE new_vs[k - Len(vs)]
  BY <1>1, ConcatProperties
<1>3. ASSUME NEW v \in 1 .. Len(vs \o new_vs)
      PROVE  /\ (vs \o new_vs)[v].scope_id <= n
             /\ (vs \o new_vs)[v].var \in MutVariable =>
                  (vs \o new_vs)[v].scope_id # 1
  <2>1. CASE v <= Len(vs)
    BY <1>2, <2>1 DEF VariableInv
  <2>2. CASE v > Len(vs)
    <3>1. v - Len(vs) \in 1 .. Len(types) /\ (vs \o new_vs)[v] = new_vs[v - Len(vs)]
      BY <1>1, <1>2, <2>2
    <3>. QED BY <1>1, <3>1
  <2>. QED BY <1>1, <1>2, <2>1, <2>2
<1>. QED BY <1>2, <1>3 DEF VariableInv, new_vs

-----------------------------------------------------------------------------
\* Append keeps the accounting.

Inv(b) ==
  /\ b \in Builder
  /\ StackInv(b.active_scopes, b.instructions, b.scope_counter)
  /\ MirrorInv(b.active_scopes, b.active_scopes_set)
  /\ VariableInv(b.variables, b.scope_counter)

LEMMA BuilderFields ==
  ASSUME NEW b \in Builder
  PROVE  /\ b.active_scopes \in Seq(ScopeType)
         /\ b.active_scopes_set \in SUBSET Nat
         /\ b.scope_counter \in Nat
         /\ b.variables \in Seq(VariableType0)
         /\ b.instructions \in Seq(InstructionType)
         /\ b.contexts \in Seq(InstructionContext)
         /\ b.result \in Result
BY DEF Builder, ScopeType, VariableType0, InstructionType

\* The scope accounting makes the stack and the set equally large.
LEMMA SameSize ==
  ASSUME NEW b, Inv(b)
  PROVE  Len(b.active_scopes) = Cardinality(b.active_scopes_set)
<1> DEFINE st == b.active_scopes
           f == [k \in 1 .. Len(st) |-> st[k].id]
<1>1. /\ Len(st) \in Nat
      /\ \A k \in 1 .. Len(st) : st[k].id \in Nat
  BY BuilderFields, ScopeIds DEF Inv
<1>2. \A k, m \in 1 .. Len(st) : k < m => st[k].id < st[m].id
  BY DEF Inv, StackInv
<1>3. ASSUME NEW k \in 1 .. Len(st), NEW m \in 1 .. Len(st), f[k] = f[m]
      PROVE  k = m
  <2>1. k \in Nat /\ m \in Nat /\ st[k].id = st[m].id
    BY <1>1, <1>3
  <2>2. ~ (k < m) /\ ~ (m < k)
    BY <1>1, <1>2, <2>1
  <2>. QED BY <2>1, <2>2
<1>4. f \in Surjection(1 .. Len(st), b.active_scopes_set)
  BY DEF Inv, MirrorInv, Surjection
<1>5. f \in Injection(1 .. Len(st), b.active_scopes_set)
  BY <1>3, <1>4 DEF Surjection, Injection, IsInjective
<1>6. IsFiniteSet(1 .. Len(st)) /\ Cardinality(1 .. Len(st)) = Len(st)
  <2>1. \A a, b1 \in Int : /\ IsFiniteSet(a .. b1)
                           /\ Cardinality(a .. b1) = IF a > b1 THEN 0 ELSE b1 - a + 1
    BY FS_Interval
  <2>2. 1 \in Int /\ Len(st) \in Int /\ (IF 1 > Len(st) THEN 0 ELSE Len(st) - 1 + 1) = Len(st)
    BY <1>1
  <2>. QED BY <2>1, <2>2, Zenon
<1>. QED BY <1>4, <1>5, <1>6, FS_Surjection

\* A block end that passes the checks finds a scope to pop.
LEMMA EndFindsScope ==
  ASSUME NEW b, Inv(b), NEW i \in InstructionType,
         Validate(b, i) = "ok", is_block_end(i.operation)
  PROVE  Len(b.active_scopes) > 1
<1>1. num_inputs(i.operation) = Len(i.inputs) /\ InputsInScope(b, i) /\ check_input_types(b, i)
  BY DEF Validate
<1>2. 1 \in 1 .. Len(i.inputs)
  BY <1>1, EndReadsMut DEF InstructionType
<1> DEFINE v == i.inputs[1]
<1>3. /\ v \in 1 .. Len(b.variables)
      /\ b.variables[v].scope_id \in b.active_scopes_set
  BY <1>1, <1>2 DEF InputsInScope, is_variable_in_scope, is_scope_active
<1>4. b.variables[v].var \in MutVariable
  BY <1>1, <1>2, EndReadsMut DEF check_input_types
<1>5. b.variables[v].scope_id # 1
  BY <1>3, <1>4 DEF Inv, VariableInv
<1>6. PICK k \in 1 .. Len(b.active_scopes) : b.active_scopes[k].id # 1
  BY <1>3, <1>5 DEF Inv, MirrorInv
<1>7. k # 1
  BY <1>6 DEF Inv, StackInv
<1>8. Len(b.active_scopes) \in Nat
  BY BuilderFields, ScopeIds DEF Inv
<1>. QED BY <1>6, <1>7, <1>8

\* The innermost scope of a builder that satisfies the invariant.
LEMMA CurrentScope ==
  ASSUME NEW b, Inv(b)
  PROVE  /\ current_scope(b) \in ScopeType
         /\ current_scope(b) = b.active_scopes[Len(b.active_scopes)]
         /\ current_scope(b).id <= b.scope_counter
         /\ Len(b.active_scopes) > 1 => /\ current_scope(b).begin # None
                                        /\ current_scope(b).id # 1
<1>1. /\ b.active_scopes \in Seq(ScopeType)
      /\ b.active_scopes # << >>
  BY BuilderFields DEF Inv, StackInv
<1>2. /\ Len(b.active_scopes) \in Nat \ {0}
      /\ \A k \in 1 .. Len(b.active_scopes) : b.active_scopes[k] \in ScopeType
  BY <1>1, EmptySeq, ElementOfSeq
<1>3. current_scope(b) = b.active_scopes[Len(b.active_scopes)]
  BY DEF current_scope, Last
<1>4. Len(b.active_scopes) \in 1 .. Len(b.active_scopes)
  BY <1>2
<1>5. ASSUME Len(b.active_scopes) > 1
      PROVE  current_scope(b).begin # None /\ current_scope(b).id # 1
  <2>1. /\ Len(b.active_scopes) \in 2 .. Len(b.active_scopes)
        /\ 1 \in 1 .. Len(b.active_scopes)
    BY <1>2, <1>5
  <2>2. current_scope(b).begin # None
    BY <1>3, <2>1 DEF Inv, StackInv, None
  <2>3. b.active_scopes[1].id < current_scope(b).id /\ b.active_scopes[1].id = 1
    BY <1>3, <1>4, <1>5, <2>1 DEF Inv, StackInv
  <2>. QED BY <2>2, <2>3
<1>. QED BY <1>2, <1>3, <1>4, <1>5 DEF Inv, StackInv

LEMMA PushContext ==
  ASSUME NEW b, Inv(b)
  PROVE  /\ Inv(push_context(b))
         /\ push_context(b) =
              [b EXCEPT !.contexts = Append(b.contexts, current_scope(b).context)]
<1>1. Append(b.contexts, current_scope(b).context) \in Seq(InstructionContext)
  BY CurrentScope, BuilderFields DEF Inv, ScopeType
<1>2. push_context(b) \in Builder
  BY <1>1 DEF Inv, push_context, Builder
<1>3. /\ push_context(b).active_scopes = b.active_scopes
      /\ push_context(b).active_scopes_set = b.active_scopes_set
      /\ push_context(b).scope_counter = b.scope_counter
      /\ push_context(b).variables = b.variables
      /\ push_context(b).instructions = b.instructions
  BY DEF Inv, push_context, Builder
<1>. QED BY <1>2, <1>3 DEF Inv, push_context

LEMMA ExitScope ==
  ASSUME NEW b, Inv(b), Len(b.active_scopes) > 1
  PROVE  /\ Inv(exit_scope(b))
         /\ exit_scope(b).scope_counter = b.scope_counter
         /\ exit_scope(b).variables = b.variables
         /\ exit_scope(b).instructions = b.instructions
         /\ exit_scope(b).active_scopes_set \subseteq b.active_scopes_set
<1>1. /\ exit_scope(b).active_scopes = Front(b.active_scopes)
      /\ exit_scope(b).active_scopes_set =
           b.active_scopes_set \ {Last(b.active_scopes).id}
      /\ exit_scope(b).scope_counter = b.scope_counter
      /\ exit_scope(b).variables = b.variables
      /\ exit_scope(b).instructions = b.instructions
      /\ exit_scope(b).contexts = b.contexts
      /\ exit_scope(b).result = b.result
  BY DEF Inv, Builder, exit_scope, current_scope
<1>2. Front(b.active_scopes) \in Seq(ScopeType)
  BY FrontProperties, BuilderFields DEF Inv, StackInv
<1>3. exit_scope(b) \in Builder
  BY <1>2 DEF Inv, exit_scope, Builder, ScopeType
<1>4. /\ StackInv(Front(b.active_scopes), b.instructions, b.scope_counter)
      /\ MirrorInv(Front(b.active_scopes),
                   b.active_scopes_set \ {Last(b.active_scopes).id})
  BY PopStack, BuilderFields DEF Inv
<1>. QED BY <1>1, <1>3, <1>4 DEF Inv

\* A refused block end: one scope less, and no panic.
LEMMA RefuseBlockEnd ==
  ASSUME NEW b, Inv(b), Len(b.active_scopes) > 1
  PROVE  /\ Inv(refuse_block_end(b))
         /\ refuse_block_end(b).result = "InvalidBlockEnd"
         /\ refuse_block_end(b).variables = b.variables
         /\ refuse_block_end(b).active_scopes_set \subseteq b.active_scopes_set
<1> DEFINE c == exit_scope(push_context(b))
<1>1. /\ Inv(push_context(b))
      /\ push_context(b).active_scopes = b.active_scopes
      /\ push_context(b).active_scopes_set = b.active_scopes_set
      /\ push_context(b).variables = b.variables
  BY PushContext DEF Inv, Builder
<1>2. /\ Inv(c)
      /\ c.variables = b.variables
      /\ c.active_scopes_set \subseteq b.active_scopes_set
  BY <1>1, ExitScope
<1> HIDE DEF c
<1>3. refuse_block_end(b) = [c EXCEPT !.result = "InvalidBlockEnd"]
  BY CurrentScope DEF refuse_block_end, c
<1>4. "InvalidBlockEnd" \in Result
  BY DEF Result
<1>5. refuse_block_end(b) \in Builder
  BY <1>2, <1>3, <1>4 DEF Inv, Builder
<1>6. /\ refuse_block_end(b).active_scopes = c.active_scopes
      /\ refuse_block_end(b).active_scopes_set = c.active_scopes_set
      /\ refuse_block_end(b).scope_counter = c.scope_counter
      /\ refuse_block_end(b).variables = c.variables
      /\ refuse_block_end(b).instructions = c.instructions
      /\ refuse_block_end(b).result = "InvalidBlockEnd"
  BY <1>2, <1>3 DEF Inv, Builder
<1>. QED BY <1>2, <1>5, <1>6 DEF Inv

LEMMA VariableIds ==
  ASSUME NEW vs \in Seq(VariableType0)
  PROVE  /\ Len(vs) \in Nat
         /\ \A v \in 1 .. Len(vs) : vs[v].scope_id \in Nat
<1>1. Len(vs) \in Nat /\ \A v \in 1 .. Len(vs) : vs[v] \in VariableType0
  BY ElementOfSeq
<1>2. \A w \in VariableType0 : w.scope_id \in Nat
  BY DEF VariableType0
<1>. QED BY <1>1, <1>2

\* Defining variables in an open scope (or in none).
LEMMA DefineVariables ==
  ASSUME NEW b, Inv(b), NEW types \in Seq(Variable),
         NEW scope_id \in 0 .. b.scope_counter,
         scope_id = 1 => \A k \in 1 .. Len(types) : types[k] \notin MutVariable
  PROVE  LET c == define_variables(b, types, scope_id)
         IN  /\ Inv(c)
             /\ c.active_scopes = b.active_scopes
             /\ c.active_scopes_set = b.active_scopes_set
             /\ c.scope_counter = b.scope_counter
             /\ c.instructions = b.instructions
             /\ Len(b.variables) <= Len(c.variables)
             /\ \A v \in 1 .. Len(b.variables) : c.variables[v] = b.variables[v]
<1> DEFINE c == define_variables(b, types, scope_id)
           more == Tagged(types, scope_id)
<1>1. c = [b EXCEPT !.variables = b.variables \o more]
  BY DEF define_variables, Tagged
<1>2. /\ b.variables \in Seq(VariableType0) /\ b.scope_counter \in Nat
      /\ VariableInv(b.variables, b.scope_counter)
  BY BuilderFields DEF Inv
<1>3. /\ b.variables \o more \in Seq(VariableType0)
      /\ VariableInv(b.variables \o more, b.scope_counter)
  BY <1>2, MoreVariables
<1>4. more \in Seq(VariableType0)
  BY <1>2 DEF Tagged, VariableType0
<1>5. /\ Len(b.variables) <= Len(b.variables \o more)
      /\ \A v \in 1 .. Len(b.variables) : (b.variables \o more)[v] = b.variables[v]
  BY <1>2, <1>4, ConcatProperties
<1> HIDE DEF more
<1>6. /\ c \in Builder
      /\ c.active_scopes = b.active_scopes
      /\ c.active_scopes_set = b.active_scopes_set
      /\ c.scope_counter = b.scope_counter
      /\ c.instructions = b.instructions
      /\ c.variables = b.variables \o more
  BY <1>1, <1>3 DEF Inv, Builder, VariableType0
<1> HIDE DEF c
<1>. QED BY <1>3, <1>5, <1>6 DEF Inv, c

\* Opening a scope for the block begin i, which is appended with it.
LEMMA EnterScope ==
  ASSUME NEW b, Inv(b), NEW i \in InstructionType, is_block_begin(i.operation)
  PROVE  LET c == enter_scope(b, Len(b.instructions) + 1,
                              entered_context_after_execution(i.operation))
             d == [c EXCEPT !.instructions = Append(b.instructions, i)]
         IN  /\ Inv(d)
             /\ d.variables = b.variables
             /\ d.scope_counter = b.scope_counter + 1
             /\ d.active_scopes_set = b.active_scopes_set \cup {b.scope_counter + 1}
<1> DEFINE n == b.scope_counter + 1
           ctx == entered_context_after_execution(i.operation)
           c == enter_scope(b, Len(b.instructions) + 1, ctx)
           d == [c EXCEPT !.instructions = Append(b.instructions, i)]
           st == Append(b.active_scopes, Scope(Len(b.instructions) + 1, n, ctx))
<1>1. /\ b.active_scopes \in Seq(ScopeType) /\ b.instructions \in Seq(InstructionType)
      /\ b.scope_counter \in Nat /\ ctx \in InstructionContext
  BY BuilderFields, EnteredContext DEF Inv
<1>2. /\ StackInv(st, Append(b.instructions, i), n)
      /\ st \in Seq(ScopeType)
      /\ MirrorInv(st, b.active_scopes_set \cup {n})
  BY <1>1, PushStack DEF Inv
<1>3. Append(b.instructions, i) \in Seq(InstructionType)
  BY <1>1
<1>4. VariableInv(b.variables, n)
  <2>1. \A v \in 1 .. Len(b.variables) : b.variables[v].scope_id \in Nat
    BY BuilderFields, VariableIds DEF Inv
  <2>. QED BY <1>1, <2>1 DEF Inv, VariableInv
<1> HIDE DEF st, ctx
<1>5. d = [b EXCEPT !.scope_counter = n, !.active_scopes = st,
                    !.active_scopes_set = b.active_scopes_set \cup {n},
                    !.instructions = Append(b.instructions, i)]
  BY DEF enter_scope, Inv, Builder, st
<1>n. n \in Nat /\ b.active_scopes_set \cup {n} \in SUBSET Nat
  BY <1>1, BuilderFields DEF Inv
<1> HIDE DEF n, d
<1>6. /\ d \in Builder
      /\ d.active_scopes = st
      /\ d.active_scopes_set = b.active_scopes_set \cup {n}
      /\ d.scope_counter = n
      /\ d.instructions = Append(b.instructions, i)
      /\ d.variables = b.variables
  <2> DEFINE q == Append(b.instructions, i)
             ids == b.active_scopes_set \cup {n}
  <2>1. /\ q \in Seq([operation : Operation, inputs : Seq(Nat)])
        /\ st \in Seq([begin : Nat, id : Nat, context : InstructionContext])
        /\ ids \in SUBSET Nat
    BY <1>2, <1>3, <1>n DEF ScopeType, InstructionType
  <2> HIDE DEF q, ids
  <2>2. d = [b EXCEPT !.scope_counter = n, !.active_scopes = st,
                      !.active_scopes_set = ids, !.instructions = q]
    BY <1>5 DEF q, ids
  <2>3. d \in Builder /\ d.active_scopes = st /\ d.active_scopes_set = ids
        /\ d.scope_counter = n /\ d.instructions = q /\ d.variables = b.variables
    BY <1>n, <2>1, <2>2 DEF Inv, Builder
  <2>. QED BY <2>3 DEF q, ids
<1>. QED BY <1>2, <1>4, <1>6 DEF Inv, d, ctx, n

\* b2 comes after b: no variable is lost, and one that is out of scope in b
\* is out of scope in b2.
After(b, b2) ==
  /\ Len(b.variables) <= Len(b2.variables)
  /\ \A v \in 1 .. Len(b.variables) :
       is_variable_in_scope(b2, v) => is_variable_in_scope(b, v)

\* Appending the instruction and its result to the fields they belong to.
LEMMA PushInstruction ==
  ASSUME NEW b, Inv(b), NEW i \in InstructionType
  PROVE  LET d == [b EXCEPT !.instructions = Append(b.instructions, i)]
         IN  /\ Inv(d)
             /\ d.variables = b.variables
             /\ d.active_scopes_set = b.active_scopes_set
             /\ d.scope_counter = b.scope_counter
<1> DEFINE q == Append(b.instructions, i)
           d == [b EXCEPT !.instructions = q]
<1>1. b.instructions \in Seq(InstructionType) /\ b.scope_counter \in Nat
  BY BuilderFields DEF Inv
<1>2. q \in Seq(InstructionType)
  BY <1>1
<1>3. q \in Seq([operation : Operation, inputs : Seq(Nat)])
  BY <1>2 DEF InstructionType
<1>4. StackInv(b.active_scopes, q, b.scope_counter)
  BY <1>1, KeepStack DEF Inv
<1> HIDE DEF q
<1>5. /\ d \in Builder /\ d.instructions = q
      /\ d.active_scopes = b.active_scopes
      /\ d.active_scopes_set = b.active_scopes_set
      /\ d.scope_counter = b.scope_counter
      /\ d.variables = b.variables
  BY <1>3 DEF Inv, Builder
<1> HIDE DEF d
<1>. QED BY <1>4, <1>5 DEF Inv, d, q

LEMMA SetResult ==
  ASSUME NEW b, Inv(b), NEW r \in Result
  PROVE  LET d == [b EXCEPT !.result = r]
         IN  /\ Inv(d) /\ d.result = r
             /\ d.variables = b.variables
             /\ d.active_scopes_set = b.active_scopes_set
<1> DEFINE d == [b EXCEPT !.result = r]
<1>1. /\ d \in Builder /\ d.instructions = b.instructions
      /\ d.active_scopes = b.active_scopes
      /\ d.active_scopes_set = b.active_scopes_set
      /\ d.scope_counter = b.scope_counter
      /\ d.variables = b.variables
      /\ d.result = r
  BY DEF Inv, Builder
<1> HIDE DEF d
<1>. QED BY <1>1 DEF Inv, d

\* accept appends the instruction last; it makes no difference to append it
\* before the variables that belong to its block.
LEMMA Commute ==
  ASSUME NEW c, "variables" \in DOMAIN c, NEW q, NEW types, NEW scope_id
  PROVE  [define_variables(c, types, scope_id) EXCEPT !.instructions = q] =
           define_variables([c EXCEPT !.instructions = q], types, scope_id)
<1> DEFINE more == Tagged(types, scope_id)
<1>1. /\ define_variables(c, types, scope_id) = [c EXCEPT !.variables = c.variables \o more]
      /\ define_variables([c EXCEPT !.instructions = q], types, scope_id) =
           [c EXCEPT !.instructions = q, !.variables = c.variables \o more]
  BY DEF define_variables, Tagged
<1> HIDE DEF more
<1>. QED BY <1>1

\* An accepted instruction.
LEMMA AcceptPreserves ==
  ASSUME NEW b, Inv(b), NEW i \in InstructionType,
         is_block_end(i.operation) => Len(b.active_scopes) > 1
  PROVE  /\ Inv(accept(b, i))
         /\ accept(b, i).result = "ok"
         /\ After(b, accept(b, i))
<1> DEFINE op == i.operation
           nop == op.name = "Nop"
           closed == IF is_block_end(op) THEN exit_scope(push_context(b))
                     ELSE push_context(b)
           outer == define_variables(closed, get_output_variables(op),
                      IF nop THEN NopScope ELSE current_scope(closed).id)
           opened == IF is_block_begin(op)
                     THEN enter_scope(outer, Len(b.instructions) + 1,
                                      entered_context_after_execution(op))
                     ELSE outer
           inner_types == get_inner_output_variables(op)
           inner_scope == IF nop THEN NopScope ELSE opened.scope_counter
           q == Append(b.instructions, i)
           pushed == [opened EXCEPT !.instructions = q]
           inner == define_variables(pushed, inner_types, inner_scope)
<1>o. op \in Operation
  BY DEF InstructionType
<1>b. b.scope_counter \in Nat /\ b.scope_counter >= 1
  <2>1. /\ b.active_scopes \in Seq(ScopeType) /\ b.active_scopes # << >>
        /\ b.active_scopes[1].id = 1 /\ b.scope_counter \in Nat
        /\ \A k \in 1 .. Len(b.active_scopes) : b.active_scopes[k].id <= b.scope_counter
    BY BuilderFields DEF Inv, StackInv
  <2>2. 1 \in 1 .. Len(b.active_scopes)
    BY <2>1, EmptySeq, ScopeIds
  <2>. QED BY <2>1, <2>2
<1>1. /\ Inv(closed)
      /\ closed.variables = b.variables
      /\ closed.instructions = b.instructions
      /\ closed.scope_counter = b.scope_counter
      /\ closed.active_scopes_set \subseteq b.active_scopes_set
  <2>1. /\ Inv(push_context(b))
        /\ push_context(b).active_scopes = b.active_scopes
        /\ push_context(b).active_scopes_set = b.active_scopes_set
        /\ push_context(b).variables = b.variables
        /\ push_context(b).instructions = b.instructions
        /\ push_context(b).scope_counter = b.scope_counter
    BY PushContext DEF Inv, Builder
  <2>2. CASE is_block_end(op)
    BY <2>1, <2>2, ExitScope
  <2>3. CASE ~ is_block_end(op)
    BY <2>1, <2>3
  <2>. QED BY <2>2, <2>3
<1> HIDE DEF closed
<1>2. /\ Inv(outer)
      /\ outer.active_scopes_set = closed.active_scopes_set
      /\ outer.scope_counter = b.scope_counter
      /\ outer.instructions = b.instructions
      /\ Len(b.variables) <= Len(outer.variables)
      /\ \A v \in 1 .. Len(b.variables) : outer.variables[v] = b.variables[v]
  <2> DEFINE types == get_output_variables(op)
             scope_id == IF nop THEN NopScope ELSE current_scope(closed).id
  <2>1. /\ types \in Seq(Variable)
        /\ \A k \in 1 .. Len(types) : types[k] \notin MutVariable
    BY <1>o, OutputsType
  <2>2. scope_id \in 0 .. closed.scope_counter
    <3>1. /\ current_scope(closed).id \in Nat
          /\ current_scope(closed).id <= closed.scope_counter
      BY <1>1, CurrentScope DEF ScopeType
    <3>2. closed.scope_counter \in Nat
      BY <1>1, <1>b
    <3>. QED BY <3>1, <3>2 DEF NopScope
  <2> HIDE DEF types, scope_id
  <2>3. LET c == define_variables(closed, types, scope_id)
        IN  /\ Inv(c)
            /\ c.active_scopes_set = closed.active_scopes_set
            /\ c.scope_counter = closed.scope_counter
            /\ c.instructions = closed.instructions
            /\ Len(closed.variables) <= Len(c.variables)
            /\ \A v \in 1 .. Len(closed.variables) : c.variables[v] = closed.variables[v]
    BY <1>1, <2>1, <2>2, DefineVariables
  <2>. QED BY <1>1, <2>3 DEF types, scope_id
<1> HIDE DEF outer
<1>3. /\ Inv(pushed)
      /\ pushed.variables = outer.variables
      /\ pushed.scope_counter = opened.scope_counter
      /\ opened.scope_counter = IF is_block_begin(op) THEN b.scope_counter + 1
                                ELSE b.scope_counter
      /\ pushed.active_scopes_set \subseteq
           outer.active_scopes_set \cup {b.scope_counter + 1}
      /\ "variables" \in DOMAIN opened
  <2>1. CASE is_block_begin(op)
    <3> DEFINE ctx == entered_context_after_execution(op)
               c == enter_scope(outer, Len(outer.instructions) + 1, ctx)
               d == [c EXCEPT !.instructions = Append(outer.instructions, i)]
    <3>1. /\ Inv(d)
          /\ d.variables = outer.variables
          /\ d.scope_counter = outer.scope_counter + 1
          /\ d.active_scopes_set = outer.active_scopes_set \cup {outer.scope_counter + 1}
      BY <1>2, <2>1, EnterScope
    <3>2. opened = c /\ pushed = d
      BY <1>2, <2>1
    <3>3. c.scope_counter = outer.scope_counter + 1 /\ "variables" \in DOMAIN c
      BY <1>2 DEF enter_scope, Inv, Builder
    <3> HIDE DEF c, d, opened, pushed
    <3>. QED BY <1>2, <2>1, <3>1, <3>2, <3>3
  <2>2. CASE ~ is_block_begin(op)
    <3> DEFINE d == [outer EXCEPT !.instructions = Append(outer.instructions, i)]
    <3>1. /\ Inv(d)
          /\ d.variables = outer.variables
          /\ d.active_scopes_set = outer.active_scopes_set
          /\ d.scope_counter = outer.scope_counter
      BY <1>2, PushInstruction
    <3>2. opened = outer /\ pushed = d
      BY <1>2, <2>2
    <3>3. "variables" \in DOMAIN outer
      BY <1>2 DEF Inv, Builder
    <3> HIDE DEF d, opened, pushed
    <3>. QED BY <1>2, <2>2, <3>1, <3>2, <3>3
  <2>. QED BY <2>1, <2>2
<1>4. accept(b, i) = [inner EXCEPT !.result = "ok"]
  <2> DEFINE last == define_variables(opened, inner_types, inner_scope)
  <2>1. [last EXCEPT !.instructions = q] = inner
    <3> HIDE DEF opened, q, inner_types, inner_scope
    <3>. QED BY <1>3, Commute
  <2>2. last.instructions = b.instructions
    BY <1>2 DEF define_variables, enter_scope, Inv, Builder
  <2>3. accept(b, i) = [last EXCEPT !.instructions = Append(last.instructions, i),
                                    !.result = "ok"]
    BY DEF accept, closed, outer
  <2> HIDE DEF last, inner
  <2>. QED BY <2>1, <2>2, <2>3
<1>5. /\ Inv(inner)
      /\ inner.active_scopes_set = pushed.active_scopes_set
      /\ Len(pushed.variables) <= Len(inner.variables)
      /\ \A v \in 1 .. Len(pushed.variables) : inner.variables[v] = pushed.variables[v]
  <2>1. inner_scope \in 0 .. pushed.scope_counter
    <3>1. opened.scope_counter \in Nat
      BY <1>b, <1>3
    <3> HIDE DEF opened, pushed
    <3>. QED BY <1>3, <3>1 DEF NopScope
  <2>2. inner_types \in Seq(Variable)
    BY <1>o, InnerOutputsType
  <2>3. inner_scope = 1 => \A k \in 1 .. Len(inner_types) : inner_types[k] \notin MutVariable
    <3>1. CASE is_block_begin(op)
      <4>1. inner_scope = b.scope_counter + 1
        <5> HIDE DEF opened
        <5>. QED BY <1>3, <3>1, BeginIsNotEnd
      <4>. QED BY <1>b, <4>1
    <3>2. CASE ~ is_block_begin(op)
      BY <1>o, <3>2, InnerOutputsType
    <3>. QED BY <3>1, <3>2
  <2> HIDE DEF inner_scope, inner_types, pushed
  <2>. QED BY <1>3, <2>1, <2>2, <2>3, DefineVariables
<1> HIDE DEF pushed, inner
<1>6. /\ Inv(accept(b, i))
      /\ accept(b, i).result = "ok"
      /\ accept(b, i).variables = inner.variables
      /\ accept(b, i).active_scopes_set = inner.active_scopes_set
  <2>1. "ok" \in Result
    BY DEF Result
  <2>. QED BY <1>4, <1>5, <2>1, SetResult
<1>7. After(b, accept(b, i))
  <2> DEFINE a == accept(b, i)
  <2>t. /\ Len(b.variables) \in Nat /\ Len(outer.variables) \in Nat
        /\ Len(inner.variables) \in Nat
        /\ \A v \in 1 .. Len(b.variables) :
             b.variables[v].scope_id \in Nat /\ b.variables[v].scope_id <= b.scope_counter
    BY <1>2, <1>5, BuilderFields, VariableIds DEF Inv, VariableInv
  <2>1. /\ Len(b.variables) <= Len(a.variables)
        /\ \A v \in 1 .. Len(b.variables) : a.variables[v] = b.variables[v]
    BY <1>2, <1>3, <1>5, <1>6, <2>t
  <2>2. a.active_scopes_set \subseteq b.active_scopes_set \cup {b.scope_counter + 1}
    BY <1>1, <1>2, <1>3, <1>5, <1>6
  <2> HIDE DEF a
  <2>3. ASSUME NEW v \in 1 .. Len(b.variables), is_variable_in_scope(a, v)
        PROVE  is_variable_in_scope(b, v)
    <3>1. b.variables[v].scope_id # b.scope_counter + 1
      BY <1>b, <2>t
    <3>2. b.variables[v].scope_id \in a.active_scopes_set
      BY <2>1, <2>3 DEF is_variable_in_scope, is_scope_active
    <3>. QED BY <2>2, <3>1, <3>2 DEF is_variable_in_scope, is_scope_active
  <2>. QED BY <2>1, <2>3 DEF After, a
<1>. QED BY <1>6, <1>7

-----------------------------------------------------------------------------
\* Every append, accepted or refused.

LEMMA ValidateType ==
  ASSUME NEW b, NEW i
  PROVE  Validate(b, i) \in Result \ {"panic"}
BY DEF Validate, check_payload, Result

LEMMA AppendPreserves ==
  ASSUME NEW b, Inv(b), NEW i \in InstructionType
  PROVE  /\ Inv(append(b, i))
         /\ append(b, i).result # "panic"
         /\ After(b, append(b, i))
<1>r. ASSUME NEW a, a.variables = b.variables,
             a.active_scopes_set \subseteq b.active_scopes_set
      PROVE  After(b, a)
  <2>1. Len(b.variables) \in Nat
    BY BuilderFields, VariableIds DEF Inv
  <2>. QED BY <1>r, <2>1 DEF After, is_variable_in_scope, is_scope_active
<1>1. CASE Validate(b, i) # "ok"
  <2>1. append(b, i) = [b EXCEPT !.result = Validate(b, i)]
    BY <1>1 DEF append
  <2>2. /\ Inv(append(b, i)) /\ append(b, i).result = Validate(b, i)
        /\ append(b, i).variables = b.variables
        /\ append(b, i).active_scopes_set = b.active_scopes_set
    BY <2>1, SetResult, ValidateType
  <2>. QED BY <1>r, <2>2, ValidateType
<1>2. CASE Validate(b, i) = "ok" /\ is_block_end(i.operation) /\ ~ ClosesCurrentBlock(b, i)
  <2>1. append(b, i) = refuse_block_end(b)
    BY <1>2 DEF append
  <2>2. Len(b.active_scopes) > 1
    BY <1>2, EndFindsScope
  <2>. QED BY <1>r, <2>1, <2>2, RefuseBlockEnd
<1>3. CASE /\ Validate(b, i) = "ok"
           /\ is_block_end(i.operation) => ClosesCurrentBlock(b, i)
  <2>1. append(b, i) = accept(b, i)
    BY <1>3 DEF append
  <2>2. is_block_end(i.operation) => Len(b.active_scopes) > 1
    BY <1>3, EndFindsScope
  <2>. QED BY <2>1, <2>2, AcceptPreserves
<1>. QED BY <1>1, <1>2, <1>3

-----------------------------------------------------------------------------
\* The theorems.

SafeInv(b) == Inv(b) /\ b.result # "panic"

\* The fields of a new builder.
LEMMA NewIs ==
  new = [active_scopes |-> <<[begin |-> 0, id |-> 1, context |-> "Global"]>>,
         active_scopes_set |-> {1}, scope_counter |-> 1, variables |-> << >>,
         instructions |-> << >>, contexts |-> << >>, result |-> "ok"]
<1> DEFINE empty == [active_scopes |-> << >>, active_scopes_set |-> {},
                     scope_counter |-> 0, variables |-> << >>,
                     instructions |-> << >>, contexts |-> << >>, result |-> "ok"]
           global == [begin |-> 0, id |-> 1, context |-> "Global"]
<1>1. new = [empty EXCEPT !.scope_counter = 0 + 1,
                          !.active_scopes = Append(<< >>, Scope(None, 0 + 1, "Global")),
                          !.active_scopes_set = {} \cup {0 + 1}]
  BY DEF new, enter_scope
<1>2. Append(<< >>, Scope(None, 0 + 1, "Global")) = <<global>>
  <2>1. Scope(None, 0 + 1, "Global") = global
    BY DEF Scope, None
  <2> HIDE DEF global
  <2>. QED BY <2>1
<1>3. {} \cup {0 + 1} = {1} /\ 0 + 1 = 1
  OBVIOUS
<1>4. new = [empty EXCEPT !.scope_counter = 1, !.active_scopes = <<global>>,
                          !.active_scopes_set = {1}]
  BY <1>1, <1>2, <1>3
<1> HIDE DEF global
<1>5. new = [active_scopes |-> <<global>>,
             active_scopes_set |-> {1}, scope_counter |-> 1, variables |-> << >>,
             instructions |-> << >>, contexts |-> << >>, result |-> "ok"]
  BY <1>4
<1>. QED BY <1>5 DEF global

\* A new builder has the global scope and nothing else.
LEMMA NewBuilder == SafeInv(new)
<1>1. new = [active_scopes |-> <<[begin |-> 0, id |-> 1, context |-> "Global"]>>,
             active_scopes_set |-> {1}, scope_counter |-> 1, variables |-> << >>,
             instructions |-> << >>, contexts |-> << >>, result |-> "ok"]
  BY NewIs
<1>2. "Global" \in InstructionContext /\ "ok" \in Result
  BY DEF InstructionContext, Result
<1>3. new \in Builder
  BY <1>1, <1>2 DEF Builder
<1>4. StackInv(new.active_scopes, new.instructions, new.scope_counter)
  BY <1>1 DEF StackInv, None
<1>5. MirrorInv(new.active_scopes, new.active_scopes_set)
  BY <1>1 DEF MirrorInv
<1>6. VariableInv(new.variables, new.scope_counter) /\ new.result # "panic"
  BY <1>1 DEF VariableInv
<1>. QED BY <1>3, <1>4, <1>5, <1>6 DEF SafeInv, Inv

\* One step of the specification: the whole of append, for any instruction.
LEMMA StepPreserves ==
  ASSUME SafeInv(builder), [Next]_builder
  PROVE  SafeInv(builder') /\ After(builder, builder')
<1>1. CASE Next
  <2>0. PICK op \in Operation, n \in 0 .. MaxInputs :
          \E inputs \in [1 .. n -> 1 .. Len(builder.variables) + 1] :
            AppendInstruction(op, inputs)
    BY <1>1 DEF Next
  <2>1. PICK inputs \in [1 .. n -> 1 .. Len(builder.variables) + 1] :
          AppendInstruction(op, inputs)
    BY <2>0
  <2>2. Len(builder.variables) \in Nat
    BY BuilderFields, VariableIds DEF SafeInv, Inv
  <2>3. n \in Nat /\ 1 .. Len(builder.variables) + 1 \subseteq Nat
    BY <2>2
  <2>4. inputs \in Seq(Nat)
    BY <2>3
  <2>5. Instruction(op, inputs) \in InstructionType
    BY <2>4 DEF Instruction, InstructionType
  <2>6. builder' = append(builder, Instruction(op, inputs))
    BY <2>1 DEF AppendInstruction
  <2>. QED BY <2>5, <2>6, AppendPreserves DEF SafeInv
<1>2. CASE UNCHANGED builder
  <2>1. Len(builder.variables) \in Nat
    BY BuilderFields, VariableIds DEF SafeInv, Inv
  <2>. QED BY <1>2, <2>1 DEF SafeInv, After
<1>. QED BY <1>1, <1>2

\* The inductive invariant: scope accounting with the types, and no panic.
THEOREM SpecSafeInv == Spec => []SafeInv(builder)
<1>1. Init => SafeInv(builder)
  BY NewBuilder DEF Init
<1>2. SafeInv(builder) /\ [Next]_builder => SafeInv(builder)'
  BY StepPreserves
<1>. QED BY <1>1, <1>2, PTL DEF Spec

\* The fields of the builder keep their types.
THEOREM TypeCorrect == Spec => []TypeOK
<1>1. SafeInv(builder) => TypeOK
  BY DEF SafeInv, Inv, TypeOK
<1>. QED BY <1>1, SpecSafeInv, PTL

\* Scope accounting: the stack of scopes, the set that mirrors it and the
\* scope ids of the variables agree after every append.
THEOREM ScopeAccounting == Spec => []ScopeInv
<1>1. SafeInv(builder) => ScopeInv
  BY DEF SafeInv, Inv, ScopeInv
<1>. QED BY <1>1, SpecSafeInv, PTL

\* append never unwraps a missing scope or block begin, and finalize never
\* fails its accounting assertion.
THEOREM NoPanic == Spec => []NeverPanics
<1>1. SafeInv(builder) => NeverPanics
  <2>1. SafeInv(builder) => finalize(builder) # "panic"
    BY SameSize DEF SafeInv, finalize
  <2>. QED BY <2>1 DEF SafeInv, NeverPanics
<1>. QED BY <1>1, SpecSafeInv, PTL

\* A variable that is out of scope after some append stays out of scope.
THEOREM ScopesAreNotReused == Spec => OutOfScopeForever
<1>1. SafeInv(builder) /\ [Next]_builder =>
        [\A v \in 1 .. Len(builder.variables) :
           v \in Visible(builder') => v \in Visible(builder)]_builder
  BY StepPreserves DEF After, Visible
<1>. QED BY <1>1, SpecSafeInv, PTL DEF Spec, OutOfScopeForever

-----------------------------------------------------------------------------
\* The refinement: what each append does to the frames of the abstract
\* specification.

\* There is a frame for every scope, and it holds the scope's variables.
LEMMA FramesType ==
  ASSUME NEW st \in Seq(ScopeType), NEW vs
  PROVE  /\ FramesOf(st, vs) \in Seq(SUBSET (1 .. Len(vs)))
         /\ Len(FramesOf(st, vs)) = Len(st)
         /\ \A k \in 1 .. Len(st) : FramesOf(st, vs)[k] = MembersOf(vs, st[k].id)
<1>1. Len(st) \in Nat
  BY ScopeIds
<1>2. \A s : MembersOf(vs, s) \in SUBSET (1 .. Len(vs))
  BY DEF MembersOf
<1> QED
  BY <1>1, <1>2 DEF FramesOf

\* A stack without its innermost scope has the frames without the last one.
LEMMA FramesOfFront ==
  ASSUME NEW st \in Seq(ScopeType), NEW vs, Len(st) > 1
  PROVE  FramesOf(Front(st), vs) = SubSeq(FramesOf(st, vs), 1, Len(FramesOf(st, vs)) - 1)
<1> DEFINE S == SUBSET (1 .. Len(vs))
<1> DEFINE fs == FramesOf(st, vs)
<1> DEFINE f1 == FramesOf(Front(st), vs)
<1> DEFINE f2 == SubSeq(fs, 1, Len(fs) - 1)
<1>1. Len(st) \in Nat /\ Len(st) > 1
  BY ScopeIds
<1>2. /\ Front(st) \in Seq(ScopeType) /\ Len(Front(st)) = Len(st) - 1
      /\ \A k \in 1 .. Len(st) - 1 : Front(st)[k] = st[k]
  <2>1. st # << >>
    BY <1>1
  <2> QED
    BY <2>1, FrontProperties
<1>3. fs \in Seq(S) /\ Len(fs) = Len(st)
  BY FramesType
<1>4. f1 \in Seq(S) /\ Len(f1) = Len(st) - 1
  BY <1>2, FramesType
<1>5. /\ f2 \in Seq(S) /\ Len(f2) = Len(st) - 1
      /\ \A k \in 1 .. Len(st) - 1 : f2[k] = fs[k]
  <2>1. fs # << >>
    BY <1>1, <1>3
  <2> HIDE DEF fs, S
  <2>2. /\ Front(fs) \in Seq(S) /\ Len(Front(fs)) = Len(fs) - 1
        /\ \A k \in 1 .. Len(fs) - 1 : Front(fs)[k] = fs[k]
    BY <1>3, <2>1, FrontProperties
  <2>3. f2 = Front(fs)
    BY DEF Front
  <2> HIDE DEF f2
  <2> QED
    BY <1>3, <2>2, <2>3
<1>6. ASSUME NEW k \in 1 .. Len(st) - 1 PROVE f1[k] = f2[k]
  <2>1. k \in 1 .. Len(st) /\ k \in 1 .. Len(Front(st)) /\ Front(st)[k] = st[k]
    BY <1>1, <1>2
  <2>2. f1[k] = MembersOf(vs, st[k].id)
    BY <1>2, <2>1 DEF FramesOf
  <2>3. fs[k] = MembersOf(vs, st[k].id)
    BY <2>1 DEF FramesOf
  <2> HIDE DEF fs, f1, f2
  <2> QED
    BY <1>5, <2>2, <2>3
<1> HIDE DEF f1, f2, S
<1>7. f1 = f2
  BY <1>4, <1>5, <1>6, SeqEqual
<1> QED
  BY <1>7 DEF f1, f2, fs

\* The elements of two variable lists, one after the other.
LEMMA TaggedConcat ==
  ASSUME NEW vs \in Seq(VariableType0), NEW types \in Seq(Variable), NEW id \in Nat
  PROVE  /\ Len(vs) \in Nat /\ Len(types) \in Nat
         /\ Len(vs \o Tagged(types, id)) = Len(vs) + Len(types)
         /\ \A v \in 1 .. Len(vs) : (vs \o Tagged(types, id))[v] = vs[v]
         /\ \A v \in Len(vs) + 1 .. Len(vs) + Len(types) :
              (vs \o Tagged(types, id))[v].scope_id = id
<1> DEFINE more == Tagged(types, id)
<1>1. Len(vs) \in Nat /\ Len(types) \in Nat /\ \A k \in 1 .. Len(types) : types[k] \in Variable
  BY ElementOfSeq
<1>2. /\ more \in Seq(VariableType0) /\ Len(more) = Len(types)
      /\ \A k \in 1 .. Len(types) : more[k].scope_id = id
  BY <1>1 DEF Tagged, VariableType0
<1> HIDE DEF more
<1>3. /\ Len(vs \o more) = Len(vs) + Len(more)
      /\ \A v \in 1 .. Len(vs) + Len(more) :
           (vs \o more)[v] = IF v <= Len(vs) THEN vs[v] ELSE more[v - Len(vs)]
  <2>1. vs \in Seq(VariableType0) /\ more \in Seq(VariableType0)
    BY <1>2
  <2> QED
    BY ONLY <2>1, ConcatProperties, Zenon
<1>4. ASSUME NEW v \in Len(vs) + 1 .. Len(vs) + Len(types)
      PROVE  (vs \o more)[v].scope_id = id
  <2>1. v \in 1 .. Len(vs) + Len(more) /\ ~ (v <= Len(vs)) /\ v - Len(vs) \in 1 .. Len(types)
    BY <1>1, <1>2
  <2>2. (vs \o more)[v] = more[v - Len(vs)]
    BY <1>3, <2>1
  <2> QED
    BY <1>2, <2>1, <2>2
<1>5. \A v \in 1 .. Len(vs) : v \in 1 .. Len(vs) + Len(more) /\ v <= Len(vs)
  BY <1>1, <1>2
<1> QED
  BY <1>1, <1>2, <1>3, <1>4, <1>5 DEF more

\* The variables of scope s after some of scope id have been added.
LEMMA TaggedMembers ==
  ASSUME NEW vs \in Seq(VariableType0), NEW types \in Seq(Variable), NEW id \in Nat, NEW s
  PROVE  MembersOf(vs \o Tagged(types, id), s) =
           IF s = id THEN MembersOf(vs, s) \cup (Len(vs) + 1 .. Len(vs) + Len(types))
           ELSE MembersOf(vs, s)
<1> DEFINE all == vs \o Tagged(types, id)
<1>1. /\ Len(vs) \in Nat /\ Len(types) \in Nat /\ Len(all) = Len(vs) + Len(types)
      /\ \A v \in 1 .. Len(vs) : all[v] = vs[v]
      /\ \A v \in Len(vs) + 1 .. Len(vs) + Len(types) : all[v].scope_id = id
  BY TaggedConcat
<1> HIDE DEF all
<1>2. /\ \A v \in 1 .. Len(all) : v \in 1 .. Len(vs) \/ v \in Len(vs) + 1 .. Len(vs) + Len(types)
      /\ \A v \in 1 .. Len(vs) : v \in 1 .. Len(all)
      /\ \A v \in Len(vs) + 1 .. Len(vs) + Len(types) : v \in 1 .. Len(all)
  BY <1>1
<1>3. \A v \in 1 .. Len(vs) : all[v].scope_id = vs[v].scope_id
  BY <1>1
<1>4. CASE s = id
  BY <1>1, <1>2, <1>3, <1>4 DEF all, MembersOf
<1>5. CASE s # id
  BY <1>1, <1>2, <1>3, <1>5 DEF all, MembersOf
<1> QED
  BY <1>4, <1>5

\* No variables, nothing changes.
LEMMA TaggedNone ==
  ASSUME NEW vs \in Seq(VariableType0), NEW id
  PROVE  vs \o Tagged(<< >>, id) = vs
<1>1. Tagged(<< >>, id) = << >>
  BY DEF Tagged
<1> QED
  BY <1>1

\* Variables of no scope are in no frame.
LEMMA FramesDiscard ==
  ASSUME NEW st \in Seq(ScopeType), NEW vs \in Seq(VariableType0),
         NEW types \in Seq(Variable), \A k \in 1 .. Len(st) : st[k].id # 0
  PROVE  FramesOf(st, vs \o Tagged(types, 0)) = FramesOf(st, vs)
<1> DEFINE all == vs \o Tagged(types, 0)
<1>1. ASSUME NEW k \in 1 .. Len(st)
      PROVE  MembersOf(all, st[k].id) = MembersOf(vs, st[k].id)
  <2>1. 0 \in Nat
    OBVIOUS
  <2> QED
    BY <2>1, TaggedMembers
<1> HIDE DEF all
<1>2. FramesOf(st, all) = FramesOf(st, vs)
  BY <1>1 DEF FramesOf
<1> QED
  BY <1>2 DEF all

\* The variables of one scope of the stack are one frame.
AddTo(fs, k, S) == [fs EXCEPT ![k] = @ \cup S]

LEMMA FramesDefine ==
  ASSUME NEW st \in Seq(ScopeType), NEW vs \in Seq(VariableType0),
         NEW types \in Seq(Variable), Len(st) >= 1,
         \A k, m \in 1 .. Len(st) : k < m => st[k].id < st[m].id
  PROVE  FramesOf(st, vs \o Tagged(types, Last(st).id)) =
           AddTo(FramesOf(st, vs), Len(st), Len(vs) + 1 .. Len(vs) + Len(types))
<1> DEFINE id == Last(st).id
           all == vs \o Tagged(types, id)
           more == Len(vs) + 1 .. Len(vs) + Len(types)
<1>1. /\ Len(st) \in Nat /\ Len(st) \in 1 .. Len(st)
      /\ \A k \in 1 .. Len(st) : st[k].id \in Nat
      /\ id = st[Len(st)].id
  BY ScopeIds DEF Last
<1>2. id \in Nat
  BY <1>1
<1>3. \A k \in 1 .. Len(st) : st[k].id = id => k = Len(st)
  <2>1. ASSUME NEW k \in 1 .. Len(st), k # Len(st) PROVE st[k].id < st[Len(st)].id
    <3>1. k < Len(st)
      BY <1>1, <2>1
    <3> QED
      BY <1>1, <3>1
  <2> QED
    BY <1>1, <2>1
<1>m. \A s : MembersOf(all, s) = IF s = id THEN MembersOf(vs, s) \cup more ELSE MembersOf(vs, s)
  BY <1>2, TaggedMembers
<1> HIDE DEF id, all, more
<1>4. ASSUME NEW k \in 1 .. Len(st)
      PROVE  MembersOf(all, st[k].id) =
               IF k = Len(st) THEN MembersOf(vs, st[k].id) \cup more
               ELSE MembersOf(vs, st[k].id)
  <2>1. st[k].id = id <=> k = Len(st)
    BY <1>1, <1>3
  <2> QED
    BY <1>m, <2>1
<1>5. FramesOf(st, all) =
        [k \in 1 .. Len(st) |-> IF k = Len(st) THEN MembersOf(vs, st[k].id) \cup more
                                ELSE MembersOf(vs, st[k].id)]
  BY <1>4 DEF FramesOf
<1>6. FramesOf(st, all) = AddTo(FramesOf(st, vs), Len(st), more)
  BY <1>1, <1>5 DEF FramesOf, AddTo
<1> QED
  BY <1>6 DEF all, more, id

\* A scope with an id that no scope and no variable has is a new frame.
LEMMA FramesEnter ==
  ASSUME NEW st \in Seq(ScopeType), NEW vs \in Seq(VariableType0),
         NEW types \in Seq(Variable), NEW top \in ScopeType,
         \A k \in 1 .. Len(st) : st[k].id # top.id,
         \A v \in 1 .. Len(vs) : vs[v].scope_id # top.id
  PROVE  FramesOf(Append(st, top), vs \o Tagged(types, top.id)) =
           Append(FramesOf(st, vs), Len(vs) + 1 .. Len(vs) + Len(types))
<1> DEFINE all == vs \o Tagged(types, top.id)
           more == Len(vs) + 1 .. Len(vs) + Len(types)
           st2 == Append(st, top)
           S == SUBSET (1 .. Len(all))
           f1 == FramesOf(st2, all)
           f0 == FramesOf(st, vs)
           f2 == Append(f0, more)
<1>0. top.id \in Nat
  BY DEF ScopeType
<1>1. /\ Len(st) \in Nat /\ Len(st2) = Len(st) + 1 /\ st2 \in Seq(ScopeType)
      /\ \A k \in 1 .. Len(st) : st2[k] = st[k]
      /\ st2[Len(st) + 1] = top
  BY ScopeIds
<1>2. /\ Len(vs) \in Nat /\ Len(types) \in Nat /\ Len(all) = Len(vs) + Len(types)
  BY <1>0, TaggedConcat
<1>3. /\ f0 \in Seq(SUBSET (1 .. Len(vs)))
      /\ Len(f0) = Len(st)
      /\ \A k \in 1 .. Len(st) : f0[k] = MembersOf(vs, st[k].id)
  BY FramesType
<1>4. \A s : MembersOf(all, s) = IF s = top.id THEN MembersOf(vs, s) \cup more ELSE MembersOf(vs, s)
  BY <1>0, TaggedMembers
<1> HIDE DEF all, st2
<1>5. /\ f1 \in Seq(S) /\ Len(f1) = Len(st) + 1
      /\ \A k \in 1 .. Len(st) + 1 : f1[k] = MembersOf(all, st2[k].id)
  BY <1>1, FramesType
<1>6. MembersOf(vs, top.id) = {}
  BY DEF MembersOf
<1>9. f0 \in Seq(S) /\ more \in S
  <2>1. 1 .. Len(vs) \subseteq 1 .. Len(all) /\ more \in S
    BY <1>2
  <2>2. SUBSET (1 .. Len(vs)) \subseteq S
    BY <2>1
  <2>3. \A s : MembersOf(vs, s) \in S
    BY <2>1 DEF MembersOf
  <2> HIDE DEF S, more
  <2>4. f0 \in Seq(S)
    BY <1>1, <2>3 DEF FramesOf
  <2> QED
    BY <2>1, <2>4
<1> HIDE DEF f0, f1, S, more
<1>7. ASSUME NEW k \in 1 .. Len(st) PROVE f1[k] = f0[k]
  <2>1. k \in 1 .. Len(st) + 1 /\ st2[k] = st[k] /\ st[k].id # top.id
    BY <1>1
  <2> QED
    BY <1>3, <1>4, <1>5, <2>1
<1>8. f1[Len(st) + 1] = more
  <2>1. Len(st) + 1 \in 1 .. Len(st) + 1
    BY <1>1
  <2> QED
    BY <1>1, <1>4, <1>5, <1>6, <2>1
<1>10. /\ f2 \in Seq(S) /\ Len(f2) = Len(st) + 1
       /\ \A k \in 1 .. Len(st) : f2[k] = f0[k]
       /\ f2[Len(st) + 1] = more
  BY <1>1, <1>3, <1>9
<1> HIDE DEF f2
<1>11. ASSUME NEW k \in 1 .. Len(f1) PROVE f1[k] = f2[k]
  <2>1. k \in 1 .. Len(st) \/ k = Len(st) + 1
    BY <1>1, <1>5
  <2> QED
    BY <1>7, <1>8, <1>10, <2>1
<1>12. f1 = f2
  BY <1>5, <1>10, <1>11, SeqEqual
<1> QED
  BY <1>12 DEF f0, f1, f2, all, more, st2

\* What an accepted instruction does to the stack and to the variables.

Below(b, op) ==
  IF is_block_end(op) THEN Front(b.active_scopes) ELSE b.active_scopes

Above(b, op) ==
  IF is_block_begin(op)
  THEN Append(Below(b, op), Scope(Len(b.instructions) + 1, b.scope_counter + 1,
                                  entered_context_after_execution(op)))
  ELSE Below(b, op)

OuterId(b, op) == IF op.name = "Nop" THEN 0 ELSE Last(Below(b, op)).id

InnerId(b, op) ==
  IF op.name = "Nop" THEN 0
  ELSE IF is_block_begin(op) THEN b.scope_counter + 1 ELSE b.scope_counter

AboveSet(b, op) ==
  (IF is_block_end(op) THEN b.active_scopes_set \ {Last(b.active_scopes).id}
   ELSE b.active_scopes_set)
    \cup (IF is_block_begin(op) THEN {b.scope_counter + 1} ELSE {})

CounterAfter(b, op) ==
  IF is_block_begin(op) THEN b.scope_counter + 1 ELSE b.scope_counter

VariablesAfter(b, op) ==
  (b.variables \o Tagged(get_output_variables(op), OuterId(b, op)))
    \o Tagged(get_inner_output_variables(op), InnerId(b, op))

FieldNames == {"active_scopes", "active_scopes_set", "scope_counter", "variables",
               "instructions", "contexts", "result"}

\* accept, field by field.
LEMMA AcceptIs ==
  ASSUME NEW b, DOMAIN b = FieldNames, NEW i
  PROVE  accept(b, i) =
           [active_scopes |-> Above(b, i.operation),
            active_scopes_set |-> AboveSet(b, i.operation),
            scope_counter |-> CounterAfter(b, i.operation),
            variables |-> VariablesAfter(b, i.operation),
            instructions |-> Append(b.instructions, i),
            contexts |-> Append(b.contexts, Last(b.active_scopes).context),
            result |-> "ok"]
<1> DEFINE op == i.operation
           nop == op.name = "Nop"
           st == b.active_scopes
           closed == IF is_block_end(op) THEN exit_scope(push_context(b))
                     ELSE push_context(b)
           outs == get_output_variables(op)
           inns == get_inner_output_variables(op)
           ctx == entered_context_after_execution(op)
           outer == define_variables(closed, outs,
                      IF nop THEN NopScope ELSE current_scope(closed).id)
           opened == IF is_block_begin(op)
                     THEN enter_scope(outer, Len(b.instructions) + 1, ctx)
                     ELSE outer
           inner == define_variables(opened, inns,
                      IF nop THEN NopScope ELSE opened.scope_counter)
           F == FieldNames
           ids == IF is_block_end(op) THEN b.active_scopes_set \ {Last(st).id}
                  ELSE b.active_scopes_set
           cs == Append(b.contexts, Last(st).context)
<1>1. DOMAIN b = F
  OBVIOUS
<1>2. /\ DOMAIN closed = F /\ closed.active_scopes = Below(b, op)
      /\ closed.active_scopes_set = ids
      /\ closed.variables = b.variables /\ closed.instructions = b.instructions
      /\ closed.scope_counter = b.scope_counter
      /\ closed.contexts = cs
  <2>1. /\ DOMAIN push_context(b) = F /\ push_context(b).active_scopes = st
        /\ push_context(b).active_scopes_set = b.active_scopes_set
        /\ push_context(b).variables = b.variables
        /\ push_context(b).instructions = b.instructions
        /\ push_context(b).scope_counter = b.scope_counter
        /\ push_context(b).contexts = cs
    BY <1>1 DEF push_context, current_scope, FieldNames
  <2> HIDE DEF cs
  <2>2. /\ DOMAIN exit_scope(push_context(b)) = F
        /\ exit_scope(push_context(b)).active_scopes = Front(st)
        /\ exit_scope(push_context(b)).active_scopes_set = b.active_scopes_set \ {Last(st).id}
        /\ exit_scope(push_context(b)).variables = b.variables
        /\ exit_scope(push_context(b)).instructions = b.instructions
        /\ exit_scope(push_context(b)).scope_counter = b.scope_counter
        /\ exit_scope(push_context(b)).contexts = cs
    BY <2>1 DEF exit_scope, current_scope, FieldNames
  <2> QED
    BY <2>1, <2>2 DEF Below
<1> HIDE DEF closed, cs, ids
<1>3. /\ DOMAIN outer = F /\ outer.active_scopes = Below(b, op)
      /\ outer.active_scopes_set = ids
      /\ outer.variables = b.variables \o Tagged(outs, OuterId(b, op))
      /\ outer.instructions = b.instructions
      /\ outer.scope_counter = b.scope_counter
      /\ outer.contexts = cs
  <2> DEFINE id == IF nop THEN NopScope ELSE current_scope(closed).id
  <2>1. id = OuterId(b, op)
    BY <1>2 DEF OuterId, NopScope, current_scope
  <2> HIDE DEF id, outs
  <2>2. outer = [closed EXCEPT !.variables = closed.variables \o Tagged(outs, id)]
    BY DEF define_variables, Tagged, id
  <2> HIDE DEF outer
  <2> QED
    BY <1>2, <2>1, <2>2 DEF FieldNames
<1> HIDE DEF outer, outs
<1>4. /\ DOMAIN opened = F /\ opened.active_scopes = Above(b, op)
      /\ opened.active_scopes_set = AboveSet(b, op)
      /\ opened.variables = outer.variables
      /\ opened.instructions = b.instructions
      /\ opened.scope_counter = CounterAfter(b, op)
      /\ opened.contexts = cs
  <2> HIDE DEF ctx
  <2>1. CASE is_block_begin(op)
    <3>1. opened = enter_scope(outer, Len(b.instructions) + 1, ctx)
      BY <2>1
    <3> HIDE DEF opened
    <3>2. /\ DOMAIN opened = F
          /\ opened.active_scopes =
               Append(outer.active_scopes, Scope(Len(b.instructions) + 1,
                                                 outer.scope_counter + 1, ctx))
          /\ opened.active_scopes_set = outer.active_scopes_set \cup {outer.scope_counter + 1}
          /\ opened.variables = outer.variables
          /\ opened.instructions = outer.instructions
          /\ opened.scope_counter = outer.scope_counter + 1
          /\ opened.contexts = outer.contexts
      BY <1>3, <3>1 DEF enter_scope, FieldNames
    <3> QED
      BY <1>3, <2>1, <3>2 DEF Above, AboveSet, CounterAfter, ctx, ids
  <2>2. CASE ~ is_block_begin(op)
    <3>1. opened = outer
      BY <2>2
    <3> HIDE DEF opened
    <3> QED
      BY <1>3, <2>2, <3>1 DEF Above, AboveSet, CounterAfter, ids
  <2> QED
    BY <2>1, <2>2
<1> HIDE DEF opened
<1>5. /\ DOMAIN inner = F /\ inner.active_scopes = Above(b, op)
      /\ inner.active_scopes_set = AboveSet(b, op)
      /\ inner.variables = outer.variables \o Tagged(inns, InnerId(b, op))
      /\ inner.instructions = b.instructions
      /\ inner.scope_counter = CounterAfter(b, op)
      /\ inner.contexts = cs
  <2> DEFINE id == IF nop THEN NopScope ELSE opened.scope_counter
  <2>1. id = InnerId(b, op)
    BY <1>4 DEF InnerId, NopScope, CounterAfter
  <2> HIDE DEF id, inns
  <2>2. inner = [opened EXCEPT !.variables = opened.variables \o Tagged(inns, id)]
    BY DEF define_variables, Tagged, id
  <2> HIDE DEF inner
  <2> QED
    BY <1>4, <2>1, <2>2 DEF FieldNames
<1>6. accept(b, i) = [inner EXCEPT !.instructions = Append(inner.instructions, i), !.result = "ok"]
  BY DEF accept, closed, outer, opened, outs
<1>7. inner.variables = VariablesAfter(b, op)
  BY <1>3, <1>5 DEF VariablesAfter, outs
<1> HIDE DEF inner, inns
<1> QED
  BY <1>5, <1>6, <1>7 DEF FieldNames, cs

\* The same of a builder that is one.
LEMMA AcceptFields ==
  ASSUME NEW b \in Builder, NEW i
  PROVE  LET op == i.operation
         IN  /\ accept(b, i).active_scopes = Above(b, op)
             /\ accept(b, i).variables =
                  (b.variables \o Tagged(get_output_variables(op), OuterId(b, op)))
                    \o Tagged(get_inner_output_variables(op), InnerId(b, op))
             /\ accept(b, i).instructions = Append(b.instructions, i)
<1>1. DOMAIN b = FieldNames
  BY DEF Builder, FieldNames
<1> DEFINE op == i.operation
           r == [active_scopes |-> Above(b, op), active_scopes_set |-> AboveSet(b, op),
                 scope_counter |-> CounterAfter(b, op), variables |-> VariablesAfter(b, op),
                 instructions |-> Append(b.instructions, i),
                 contexts |-> Append(b.contexts, Last(b.active_scopes).context),
                 result |-> "ok"]
<1>2. accept(b, i) = r
  BY <1>1, AcceptIs
<1>3. /\ r.active_scopes = Above(b, op) /\ r.variables = VariablesAfter(b, op)
      /\ r.instructions = Append(b.instructions, i)
  OBVIOUS
<1> HIDE DEF r
<1> QED
  BY <1>2, <1>3 DEF VariablesAfter

\* The rest of what an accepted instruction changes.
LEMMA AcceptRecords ==
  ASSUME NEW b, DOMAIN b = FieldNames, NEW i
  PROVE  /\ accept(b, i).instructions = Append(b.instructions, i)
         /\ accept(b, i).contexts = Append(b.contexts, Last(b.active_scopes).context)
         /\ accept(b, i).result = "ok"
         /\ DOMAIN accept(b, i) = FieldNames
         /\ [accept(b, i) EXCEPT !.result = "ok"] = accept(b, i)
<1> DEFINE op == i.operation
           r == [active_scopes |-> Above(b, op), active_scopes_set |-> AboveSet(b, op),
                 scope_counter |-> CounterAfter(b, op), variables |-> VariablesAfter(b, op),
                 instructions |-> Append(b.instructions, i),
                 contexts |-> Append(b.contexts, Last(b.active_scopes).context),
                 result |-> "ok"]
<1>1. accept(b, i) = r
  BY AcceptIs
<1>2. /\ r.instructions = Append(b.instructions, i)
      /\ r.contexts = Append(b.contexts, Last(b.active_scopes).context)
      /\ r.result = "ok" /\ DOMAIN r = FieldNames
  BY DEF FieldNames
<1>3. [r EXCEPT !.result = "ok"] = r
  <2>1. r = [x \in FieldNames |-> r[x]]
    BY DEF FieldNames
  <2> HIDE DEF r
  <2>2. [r EXCEPT !.result = "ok"] = [x \in FieldNames |-> IF x = "result" THEN "ok" ELSE r[x]]
    BY <1>2
  <2> QED
    BY <1>2, <2>1, <2>2
<1> HIDE DEF r
<1> QED
  BY <1>1, <1>2, <1>3

\* The ids on the stack are neither that of no scope nor the next one.
LEMMA StackIds ==
  ASSUME NEW st \in Seq(ScopeType), NEW p, NEW n \in Nat, StackInv(st, p, n)
  PROVE  /\ Len(st) \in Nat /\ Len(st) >= 1
         /\ \A k \in 1 .. Len(st) : st[k].id # 0 /\ st[k].id # n + 1
<1>1. /\ Len(st) \in Nat /\ \A k \in 1 .. Len(st) : st[k].id \in Nat
      /\ st # << >> /\ st[1].id = 1
  BY ScopeIds DEF StackInv
<1>2. Len(st) >= 1
  BY <1>1, EmptySeq
<1>3. ASSUME NEW k \in 1 .. Len(st) PROVE st[k].id # 0
  <2>1. CASE k = 1
    BY <1>1, <2>1
  <2>2. CASE k # 1
    <3>1. 1 \in 1 .. Len(st) /\ 1 < k
      BY <1>1, <1>2, <2>2
    <3>2. st[1].id < st[k].id
      BY <3>1 DEF StackInv
    <3> QED
      BY <1>1, <3>2
  <2> QED
    BY <2>1, <2>2
<1>4. \A k \in 1 .. Len(st) : st[k].id <= n
  BY DEF StackInv
<1>5. \A k \in 1 .. Len(st) : st[k].id # n + 1
  BY <1>1, <1>4
<1> QED
  BY <1>1, <1>2, <1>3, <1>5

\* An accepted instruction is one of the steps of the abstract frames.
FrameStep(fs, fs2, fresh) ==
  \/ fs2 = [fs EXCEPT ![Len(fs)] = @ \cup fresh]
  \/ fs2 = fs
  \/ fs2 = Append(fs, fresh)
  \/ /\ Len(fs) > 1
     /\ fs2 = [SubSeq(fs, 1, Len(fs) - 1) EXCEPT
                 ![Len(SubSeq(fs, 1, Len(fs) - 1))] = @ \cup fresh]

\* Every accepted instruction takes such a step, with the variables it defines.
LEMMA AcceptFrames ==
  ASSUME NEW b, Inv(b), NEW i \in InstructionType,
         is_block_end(i.operation) => Len(b.active_scopes) > 1
  PROVE  LET fs  == FramesOf(b.active_scopes, b.variables)
             b2  == accept(b, i)
             fs2 == FramesOf(b2.active_scopes, b2.variables)
         IN  /\ Len(b.variables) \in Nat /\ Len(b2.variables) \in Nat
             /\ Len(b.variables) <= Len(b2.variables)
             /\ FrameStep(fs, fs2, Len(b.variables) + 1 .. Len(b2.variables))
<1> DEFINE op == i.operation
           st == b.active_scopes
           vs == b.variables
           p == b.instructions
           n == b.scope_counter
           outs == get_output_variables(op)
           inns == get_inner_output_variables(op)
           low == Below(b, op)
           v1 == vs \o Tagged(outs, OuterId(b, op))
           v2 == v1 \o Tagged(inns, InnerId(b, op))
           fs == FramesOf(st, vs)
           fresh == Len(vs) + 1 .. Len(v2)
<1>1. /\ st \in Seq(ScopeType) /\ vs \in Seq(VariableType0) /\ p \in Seq(InstructionType)
      /\ n \in Nat /\ StackInv(st, p, n) /\ VariableInv(vs, n) /\ b \in Builder
  BY BuilderFields DEF Inv
<1>2. op \in Operation /\ outs \in Seq(Variable) /\ inns \in Seq(Variable)
  <2>1. op \in Operation
    BY DEF InstructionType
  <2> QED
    BY <2>1, OutputsType, InnerOutputsType
<1>3. /\ Len(st) \in Nat /\ Len(st) >= 1
      /\ \A k \in 1 .. Len(st) : st[k].id # 0 /\ st[k].id # n + 1
  BY <1>1, StackIds
<1>4. /\ accept(b, i).active_scopes = Above(b, op)
      /\ accept(b, i).variables = v2
  BY <1>1, AcceptFields
<1>5. /\ low \in Seq(ScopeType) /\ Len(low) \in Nat /\ Len(low) >= 1
      /\ \A k, m \in 1 .. Len(low) : k < m => low[k].id < low[m].id
      /\ Last(low).id \in Nat
  <2>1. low \in Seq(ScopeType) /\ StackInv(low, p, n)
    <3>1. CASE is_block_end(op)
      <4>1. low = Front(st) /\ st # << >> /\ Len(st) > 1
        BY <3>1, <1>3 DEF Below
      <4> HIDE DEF st, low, p, n
      <4>2. Front(st) \in Seq(ScopeType)
        BY <1>1, <4>1, FrontProperties
      <4>3. StackInv(Front(st), p, n)
        BY <1>1, <4>1, PopStack
      <4> QED
        BY <4>1, <4>2, <4>3
    <3>2. CASE ~ is_block_end(op)
      <4>1. low = st
        BY <3>2 DEF Below
      <4> QED
        BY <1>1, <4>1
    <3> QED
      BY <3>1, <3>2
  <2> HIDE DEF low, p, n
  <2>2. Len(low) \in Nat /\ Len(low) >= 1
    BY <1>1, <2>1, StackIds
  <2>3. Last(low).id \in Nat
    <3>1. Len(low) \in 1 .. Len(low)
      BY <2>2
    <3> QED
      BY <2>1, <3>1, ScopeIds DEF Last
  <2> QED
    BY <2>1, <2>2, <2>3 DEF StackInv
<1>6. /\ OuterId(b, op) \in Nat /\ InnerId(b, op) \in Nat
  <2> HIDE DEF low
  <2>1. OuterId(b, op) = IF op.name = "Nop" THEN 0 ELSE Last(low).id
    BY DEF OuterId, low
  <2> QED
    BY <1>1, <1>5, <2>1 DEF InnerId
<1>7. /\ Len(vs) \in Nat /\ Len(outs) \in Nat /\ Len(inns) \in Nat
      /\ Len(v1) = Len(vs) + Len(outs) /\ Len(v2) = Len(v1) + Len(inns)
      /\ v1 \in Seq(VariableType0)
  <2> HIDE DEF vs, outs, inns
  <2>1. v1 \in Seq(VariableType0)
    <3>1. \A k \in 1 .. Len(outs) : outs[k] \in Variable
      BY <1>2
    <3>2. Len(outs) \in Nat
      BY <1>2
    <3>3. Tagged(outs, OuterId(b, op)) \in Seq(VariableType0)
      BY <1>6, <3>1, <3>2 DEF Tagged, VariableType0
    <3> QED
      BY <1>1, <3>3
  <2>2. /\ Len(vs) \in Nat /\ Len(outs) \in Nat /\ Len(v1) = Len(vs) + Len(outs)
    BY <1>1, <1>2, <1>6, TaggedConcat
  <2> HIDE DEF v1
  <2>3. Len(inns) \in Nat /\ Len(v2) = Len(v1) + Len(inns)
    BY <1>2, <1>6, <2>1, TaggedConcat
  <2> QED
    BY <2>1, <2>2, <2>3
<1> DEFINE fs2 == FramesOf(Above(b, op), v2)
<1>8. FrameStep(fs, fs2, fresh)
  <2>1. CASE op.name = "Nop"
    <3>1. /\ ~ is_block_begin(op) /\ ~ is_block_end(op)
      BY <2>1, EndIsNotNop, BeginIsNotEnd
    <3>2. Above(b, op) = st /\ OuterId(b, op) = 0 /\ InnerId(b, op) = 0
      BY <2>1, <3>1 DEF Above, Below, OuterId, InnerId
    <3> HIDE DEF st, vs, outs, inns
    <3>3. FramesOf(st, v1) = fs
      BY <1>1, <1>2, <1>3, <3>2, FramesDiscard
    <3> HIDE DEF v1
    <3>4. FramesOf(st, v2) = FramesOf(st, v1)
      BY <1>1, <1>2, <1>3, <1>7, <3>2, FramesDiscard
    <3>5. fs2 = fs
      BY <3>2, <3>3, <3>4
    <3> QED
      BY <3>5 DEF FrameStep
  <2>2. CASE is_block_begin(op)
    <3> DEFINE top == Scope(Len(p) + 1, n + 1, entered_context_after_execution(op))
    <3>1. ~ is_block_end(op) /\ op.name # "Nop"
      BY <2>2, BeginIsNotEnd
    <3>2. outs = << >>
      BY <2>2 DEF is_block_begin, get_output_variables, Loads, ScriptBuilders
    <3>3. Above(b, op) = Append(st, top) /\ InnerId(b, op) = n + 1
      BY <2>2, <3>1 DEF Above, Below, InnerId
    <3>4. v1 = vs
      <4> HIDE DEF vs
      <4> QED
        BY <1>1, <3>2, TaggedNone
    <3>5. top \in ScopeType /\ top.id = n + 1
      <4>1. entered_context_after_execution(op) \in InstructionContext
        BY <2>2, EnteredContext
      <4>2. Len(p) + 1 \in Nat /\ n + 1 \in Nat
        BY <1>1
      <4> HIDE DEF p, n
      <4> QED
        BY <4>1, <4>2 DEF Scope, ScopeType
    <3> HIDE DEF v1, top
    <3>6. \A v \in 1 .. Len(vs) : vs[v].scope_id # n + 1
      <4>1. \A v \in 1 .. Len(vs) : vs[v].scope_id <= n /\ vs[v].scope_id \in Nat
        BY <1>1, VariableIds DEF VariableInv
      <4> QED
        BY <1>1, <4>1
    <3> HIDE DEF st, vs, inns, n
    <3>7. FramesOf(Append(st, top), vs \o Tagged(inns, top.id)) =
            Append(fs, Len(vs) + 1 .. Len(vs) + Len(inns))
      BY <1>1, <1>2, <1>3, <3>5, <3>6, FramesEnter
    <3>8. v2 = vs \o Tagged(inns, top.id)
      BY <3>3, <3>4, <3>5
    <3> HIDE DEF v2
    <3>9. Len(v2) = Len(vs) + Len(inns)
      BY <1>7, <3>4
    <3>10. fs2 = Append(fs, fresh)
      BY <3>3, <3>7, <3>8, <3>9
    <3> QED
      BY <3>10 DEF FrameStep
  <2>3. CASE op.name # "Nop" /\ ~ is_block_begin(op)
    <3>1. inns = << >>
      BY <2>3 DEF get_inner_output_variables, is_block_begin
    <3>2. Above(b, op) = low /\ OuterId(b, op) = Last(low).id
      BY <2>3 DEF Above, OuterId
    <3> HIDE DEF low, vs, outs
    <3>3. v2 = v1
      <4> HIDE DEF v1
      <4> QED
        BY <1>7, <3>1, TaggedNone
    <3>4. FramesOf(low, v1) =
            AddTo(FramesOf(low, vs), Len(low), Len(vs) + 1 .. Len(vs) + Len(outs))
      <4>1. FramesOf(low, vs \o Tagged(outs, Last(low).id)) =
              AddTo(FramesOf(low, vs), Len(low), Len(vs) + 1 .. Len(vs) + Len(outs))
        <5> HIDE DEF v1, v2, fs, fs2, fresh
        <5> QED
          BY <1>1, <1>2, <1>5, FramesDefine
      <4>2. v1 = vs \o Tagged(outs, Last(low).id)
        BY <3>2
      <4> QED
        BY <4>1, <4>2
    <3> HIDE DEF v1, v2
    <3>5. fs2 = [FramesOf(low, vs) EXCEPT ![Len(low)] = @ \cup fresh]
      BY <1>7, <3>2, <3>3, <3>4 DEF AddTo
    <3>6. CASE is_block_end(op)
      <4>1. low = Front(st) /\ Len(st) > 1
        BY <3>6 DEF low, Below
      <4> HIDE DEF st
      <4>2. /\ FramesOf(low, vs) = SubSeq(fs, 1, Len(fs) - 1)
            /\ Len(fs) = Len(st) /\ Len(FramesOf(low, vs)) = Len(low)
        BY <1>1, <1>5, <4>1, FramesOfFront, FramesType
      <4> HIDE DEF fs, fs2, fresh
      <4> QED
        BY <3>5, <4>1, <4>2 DEF FrameStep
    <3>7. CASE ~ is_block_end(op)
      <4>1. low = st
        BY <3>7 DEF low, Below
      <4> HIDE DEF st
      <4>2. Len(fs) = Len(st)
        BY <1>1, FramesType
      <4>3. fs2 = [fs EXCEPT ![Len(fs)] = @ \cup fresh]
        BY <3>5, <4>1, <4>2
      <4> HIDE DEF fs, fs2, fresh
      <4> QED
        BY <4>3 DEF FrameStep
    <3> QED
      BY <3>6, <3>7
  <2> QED
    BY <2>1, <2>2, <2>3
<1> HIDE DEF v1, v2, outs, inns, st, vs
<1>9. Len(v2) \in Nat /\ Len(vs) <= Len(v2)
  BY <1>7
<1> QED
  BY <1>4, <1>7, <1>8, <1>9 DEF st, vs

\* What the inputs of an accepted instruction are: variables of open frames.
LEMMA AcceptReads ==
  ASSUME NEW b, Inv(b), NEW i \in InstructionType, InputsInScope(b, i)
  PROVE  LET fs == FramesOf(b.active_scopes, b.variables)
         IN  /\ ReadsOf(accept(b, i).instructions) = Range(i.inputs)
             /\ Range(i.inputs) \subseteq UNION {fs[k] : k \in 1 .. Len(fs)}
<1> DEFINE st == b.active_scopes
           vs == b.variables
           fs == FramesOf(st, vs)
<1>1. /\ st \in Seq(ScopeType) /\ b.instructions \in Seq(InstructionType)
      /\ MirrorInv(st, b.active_scopes_set) /\ b \in Builder
  BY BuilderFields DEF Inv
<1>2. ReadsOf(accept(b, i).instructions) = Range(i.inputs)
  <2>1. accept(b, i).instructions = Append(b.instructions, i)
    BY <1>1, AcceptFields
  <2>2. Append(b.instructions, i) # << >> /\ Last(Append(b.instructions, i)) = i
    BY <1>1 DEF Last
  <2> QED
    BY <2>1, <2>2 DEF ReadsOf
<1>3. ASSUME NEW v \in Range(i.inputs)
      PROVE  \E k \in 1 .. Len(fs) : v \in fs[k]
  <2>1. i.inputs \in Seq(Nat)
    BY DEF InstructionType
  <2>2. PICK j \in 1 .. Len(i.inputs) : v = i.inputs[j]
    BY <2>1 DEF Range
  <2>3. v \in 1 .. Len(vs) /\ vs[v].scope_id \in b.active_scopes_set
    BY <2>2 DEF InputsInScope, is_variable_in_scope, is_scope_active
  <2>4. PICK k \in 1 .. Len(st) : vs[v].scope_id = st[k].id
    BY <1>1, <2>3 DEF MirrorInv
  <2>5. v \in MembersOf(vs, st[k].id)
    BY <2>3, <2>4 DEF MembersOf
  <2> HIDE DEF st, vs
  <2>6. Len(fs) = Len(st) /\ fs[k] = MembersOf(vs, st[k].id)
    BY <1>1, <2>4, FramesType
  <2> QED
    BY <2>5, <2>6
<1> HIDE DEF fs
<1>4. Range(i.inputs) \subseteq UNION {fs[k] : k \in 1 .. Len(fs)}
  BY <1>3
<1> QED
  BY <1>2, <1>4 DEF fs

\* A new builder has one frame, and it is empty.
LEMMA LexicalInit ==
  ASSUME Init
  PROVE  Lexical!Init
<1>1. builder = new
  BY DEF Init
<1>2. new = [active_scopes |-> <<[begin |-> 0, id |-> 1, context |-> "Global"]>>,
             active_scopes_set |-> {1}, scope_counter |-> 1, variables |-> << >>,
             instructions |-> << >>, contexts |-> << >>, result |-> "ok"]
  BY NewIs
<1>3. /\ Len(builder.active_scopes) = 1 /\ builder.variables = << >>
      /\ Len(builder.variables) = 0 /\ builder.instructions = << >>
  BY <1>1, <1>2
<1>4. FramesOf(builder.active_scopes, builder.variables) = << {} >>
  BY <1>3 DEF FramesOf, MembersOf
<1> QED
  BY <1>3, <1>4 DEF Lexical!Init, ReadsOf

\* A refused instruction changes nothing abstract, unless it is a block end:
\* that abandons a frame.  An accepted one grows the frames.
LEMMA LexicalStep ==
  ASSUME SafeInv(builder), Next
  PROVE  [Lexical!Next]_(Lexical!vars)
<1> DEFINE fs == FramesOf(builder.active_scopes, builder.variables)
           fs2 == FramesOf(builder'.active_scopes, builder'.variables)
           fresh == Len(builder.variables) + 1 .. Len(builder'.variables)
           Reads == ReadsOf(builder'.instructions) \subseteq UNION {fs[k] : k \in 1 .. Len(fs)}
<1>1. PICK i \in InstructionType : builder' = append(builder, i)
  <2>1. PICK op \in Operation, n \in 0 .. MaxInputs :
          \E inputs \in [1 .. n -> 1 .. Len(builder.variables) + 1] :
            AppendInstruction(op, inputs)
    BY DEF Next
  <2>2. PICK inputs \in [1 .. n -> 1 .. Len(builder.variables) + 1] :
          AppendInstruction(op, inputs)
    BY <2>1
  <2>3. Len(builder.variables) \in Nat
    BY BuilderFields, VariableIds DEF SafeInv, Inv
  <2>4. n \in Nat /\ 1 .. Len(builder.variables) + 1 \subseteq Nat
    BY <2>3
  <2>5. inputs \in Seq(Nat)
    BY <2>4
  <2>6. Instruction(op, inputs) \in InstructionType
    BY <2>5 DEF Instruction, InstructionType
  <2> QED
    BY <2>2, <2>6 DEF AppendInstruction
<1>2. CASE Validate(builder, i) # "ok"
  <2>1. builder' = [builder EXCEPT !.result = Validate(builder, i)]
    BY <1>1, <1>2 DEF append
  <2>2. /\ builder'.active_scopes = builder.active_scopes
        /\ builder'.variables = builder.variables
        /\ builder'.instructions = builder.instructions
    BY <2>1 DEF SafeInv, Inv, Builder
  <2> QED
    BY <2>2 DEF Lexical!vars
<1>3. CASE /\ Validate(builder, i) = "ok" /\ is_block_end(i.operation)
           /\ ~ ClosesCurrentBlock(builder, i)
  <2>1. builder' = refuse_block_end(builder)
    BY <1>1, <1>3 DEF append
  <2>2. Len(builder.active_scopes) > 1
    BY <1>3, EndFindsScope DEF SafeInv
  <2>3. /\ builder'.active_scopes = Front(builder.active_scopes)
        /\ builder'.variables = builder.variables
        /\ builder'.instructions = builder.instructions
    BY <2>1 DEF refuse_block_end, exit_scope, push_context, SafeInv, Inv, Builder
  <2>4. builder.active_scopes \in Seq(ScopeType)
    BY BuilderFields DEF SafeInv, Inv
  <2>5. Len(fs) > 1 /\ fs2 = SubSeq(fs, 1, Len(fs) - 1)
    BY <2>2, <2>3, <2>4, FramesOfFront, FramesType
  <2>6. Lexical!Abandon
    BY <2>3, <2>5 DEF Lexical!Abandon
  <2> QED
    BY <2>6 DEF Lexical!Next
<1>4. CASE /\ Validate(builder, i) = "ok"
           /\ is_block_end(i.operation) => ClosesCurrentBlock(builder, i)
  <2>1. builder' = accept(builder, i)
    BY <1>1, <1>4 DEF append
  <2>2. is_block_end(i.operation) => Len(builder.active_scopes) > 1
    BY <1>4, EndFindsScope DEF SafeInv
  <2>3. /\ Len(builder.variables) \in Nat /\ Len(builder'.variables) \in Nat
        /\ Len(builder.variables) <= Len(builder'.variables)
        /\ FrameStep(fs, fs2, fresh)
    BY <2>1, <2>2, AcceptFrames DEF SafeInv
  <2>4. InputsInScope(builder, i)
    BY <1>4 DEF Validate
  <2>5. Reads
    BY <2>1, <2>4, AcceptReads DEF SafeInv
  <2> DEFINE n == Len(builder'.variables) - Len(builder.variables)
  <2>6. n \in 0 .. n /\ Len(builder'.variables) = Len(builder.variables) + n
        /\ fresh = Len(builder.variables) + 1 .. Len(builder.variables) + n
    BY <2>3
  <2>7. Lexical!Grow(n)
    <3> HIDE DEF n
    <3>1. CASE fs2 = [fs EXCEPT ![Len(fs)] = @ \cup fresh]
      BY <2>5, <2>6, <3>1 DEF Lexical!Grow, Lexical!Define, Lexical!AddToTop,
           Lexical!Fresh, Lexical!Read, Lexical!Visible
    <3>2. CASE fs2 = fs
      BY <2>5, <2>6, <3>2 DEF Lexical!Grow, Lexical!Discard, Lexical!Read,
           Lexical!Visible
    <3>3. CASE fs2 = Append(fs, fresh)
      BY <2>5, <2>6, <3>3 DEF Lexical!Grow, Lexical!Enter, Lexical!Fresh,
           Lexical!Read, Lexical!Visible
    <3>4. CASE /\ Len(fs) > 1
               /\ fs2 = [SubSeq(fs, 1, Len(fs) - 1) EXCEPT
                           ![Len(SubSeq(fs, 1, Len(fs) - 1))] = @ \cup fresh]
      BY <2>5, <2>6, <3>4 DEF Lexical!Grow, Lexical!Leave, Lexical!AddToTop,
           Lexical!Fresh, Lexical!Read, Lexical!Visible
    <3> QED
      BY <2>3, <3>1, <3>2, <3>3, <3>4 DEF FrameStep
  <2>8. \E m \in 0 .. n : Lexical!Grow(m)
    <3> HIDE DEF n
    <3> QED
      BY <2>6, <2>7
  <2>9. Lexical!Next
    BY <2>8 DEF Lexical!Next
  <2> QED
    BY <2>9
<1> QED
  BY <1>2, <1>3, <1>4

\* Every behaviour of the builder is one of lexical scoping.
THEOREM BuilderScopesLexically == Spec => ImplementsLexicalScoping
<1>1. Init => Lexical!Init
  BY LexicalInit
<1>2. SafeInv(builder) /\ [Next]_builder => [Lexical!Next]_(Lexical!vars)
  <2>1. ASSUME SafeInv(builder), Next PROVE [Lexical!Next]_(Lexical!vars)
    BY <2>1, LexicalStep
  <2>2. ASSUME UNCHANGED builder PROVE UNCHANGED Lexical!vars
    BY <2>2 DEF Lexical!vars
  <2> QED
    BY <2>1, <2>2
<1> QED
  BY <1>1, <1>2, SpecSafeInv, PTL DEF Spec, ImplementsLexicalScoping, Lexical!Spec
-----------------------------------------------------------------------------
\* Appending many instructions.

\* A set of numbers has a least one.
LEMMA LeastOne ==
  ASSUME NEW T, T \subseteq Nat, T # {}
  PROVE  \E x \in T : \A y \in T : x <= y
<1> DEFINE R == {ss \in Nat \X Nat : ss[1] < ss[2]}
<1>1. IsWellFoundedOn(R, Nat)
  BY NatLessThanWellFounded DEF OpToRel
<1>2. PICK x \in T : \A y \in T : <<y, x>> \notin R
  BY <1>1, WFMin
<1>3. \A y \in T : <<y, x>> \in Nat \X Nat /\ <<y, x>>[1] = y /\ <<y, x>>[2] = x
  OBVIOUS
<1>4. \A y \in T : ~ (y < x)
  BY <1>2, <1>3
<1> QED
  BY <1>4

\* One more of them: the first error ends the loop.
AppendNext(acc, i) == IF acc.result = "ok" THEN append(acc, i) ELSE acc

Grows(f, b, s, n) ==
  f = [k \in 0 .. n |-> IF k = 0 THEN b ELSE AppendNext(f[k - 1], s[k])]

\* The builders after 0, 1, .. instructions exist.
LEMMA GrowsExists ==
  ASSUME NEW b, NEW s, NEW n \in Nat
  PROVE  \E f : Grows(f, b, s, n)
<1> DEFINE T == {m \in Nat : ~ \E f : Grows(f, b, s, m)}
<1>1. SUFFICES ASSUME T # {} PROVE FALSE
  OBVIOUS
<1>2. PICK m \in T : \A k \in T : m <= k
  <2>1. T \subseteq Nat
    OBVIOUS
  <2> HIDE DEF T
  <2> QED
    BY <1>1, <2>1, LeastOne
<1>3. m # 0
  <2> DEFINE f == [k \in 0 .. 0 |-> b]
  <2>1. ASSUME NEW k \in 0 .. 0
        PROVE  f[k] = IF k = 0 THEN b ELSE AppendNext(f[k - 1], s[k])
    BY <2>1
  <2>2. f = [k \in 0 .. 0 |-> IF k = 0 THEN b ELSE AppendNext(f[k - 1], s[k])]
    <3>1. [k \in 0 .. 0 |-> b] = [k \in 0 .. 0 |-> IF k = 0 THEN b ELSE AppendNext(f[k - 1], s[k])]
      <4> HIDE DEF f
      <4> QED
        OBVIOUS
    <3> QED
      BY <3>1
  <2>3. Grows(f, b, s, 0)
    <3> HIDE DEF f
    <3> QED
      BY <2>2 DEF Grows
  <2> QED
    BY <2>3
<1> DEFINE l == m - 1
<1>4. l \in Nat /\ m = l + 1 /\ l \notin T
  <2>1. m \in Nat /\ m - 1 \in Nat /\ ~ (m <= m - 1)
    BY <1>3
  <2> HIDE DEF T
  <2> QED
    BY <1>2, <2>1
<1> HIDE DEF l
<1>5. PICK f : Grows(f, b, s, l)
  BY <1>4
<1>6. \A k \in 0 .. l : f[k] = IF k = 0 THEN b ELSE AppendNext(f[k - 1], s[k])
  <2> DEFINE h == [k \in 0 .. l |-> IF k = 0 THEN b ELSE AppendNext(f[k - 1], s[k])]
  <2>1. f = h
    BY <1>5 DEF Grows
  <2>2. \A k \in 0 .. l : h[k] = IF k = 0 THEN b ELSE AppendNext(f[k - 1], s[k])
    OBVIOUS
  <2> HIDE DEF h
  <2> QED
    BY <2>1, <2>2
<1> DEFINE g == [k \in 0 .. m |-> IF k = m THEN AppendNext(f[l], s[m]) ELSE f[k]]
<1>7. \A k \in 0 .. m : g[k] = IF k = m THEN AppendNext(f[l], s[m]) ELSE f[k]
  OBVIOUS
<1>8. DOMAIN g = 0 .. m /\ g = [k \in 0 .. m |-> g[k]]
  OBVIOUS
<1> HIDE DEF g
<1>9. ASSUME NEW k \in 0 .. m
      PROVE  g[k] = IF k = 0 THEN b ELSE AppendNext(g[k - 1], s[k])
  <2>1. CASE k = m
    <3>1. k # 0 /\ k - 1 = l /\ l # m /\ l \in 0 .. m
      BY <1>4, <2>1
    <3> QED
      BY <1>7, <2>1, <3>1
  <2>2. CASE k = 0
    <3>1. k \in 0 .. l /\ k # m
      BY <1>4, <2>2
    <3> QED
      BY <1>6, <1>7, <2>2, <3>1
  <2>3. CASE k # m /\ k # 0
    <3>1. k \in 0 .. l /\ k - 1 \in 0 .. m /\ k - 1 # m
      BY <1>4, <2>3
    <3> QED
      BY <1>6, <1>7, <2>3, <3>1
  <2> QED
    BY <2>1, <2>2, <2>3
<1>10. g = [k \in 0 .. m |-> IF k = 0 THEN b ELSE AppendNext(g[k - 1], s[k])]
  BY <1>8, <1>9
<1> QED
  BY <1>2, <1>10 DEF Grows

\* What Appended computes.
LEMMA AppendedIs ==
  ASSUME NEW b, NEW s, Len(s) \in Nat
  PROVE  /\ Appended(b, s)[0] = b
         /\ \A n \in 1 .. Len(s) : Appended(b, s)[n] = AppendNext(Appended(b, s)[n - 1], s[n])
<1> DEFINE N == Len(s)
           f == CHOOSE g : Grows(g, b, s, N)
<1>1. Appended(b, s) = f
  BY DEF Appended, Grows, AppendNext
<1>2. Grows(f, b, s, N)
  BY GrowsExists
<1> HIDE DEF f
<1>3. \A k \in 0 .. N : f[k] = IF k = 0 THEN b ELSE AppendNext(f[k - 1], s[k])
  <2> DEFINE h == [k \in 0 .. N |-> IF k = 0 THEN b ELSE AppendNext(f[k - 1], s[k])]
  <2>1. f = h
    BY <1>2 DEF Grows
  <2>2. \A k \in 0 .. N : h[k] = IF k = 0 THEN b ELSE AppendNext(f[k - 1], s[k])
    OBVIOUS
  <2> HIDE DEF h, N
  <2> QED
    BY <2>1, <2>2
<1>4. N \in Nat
  OBVIOUS
<1> HIDE DEF N
<1>5. f[0] = b /\ \A n \in 1 .. N : f[n] = AppendNext(f[n - 1], s[n])
  BY <1>3, <1>4
<1> QED
  BY <1>1, <1>5 DEF N
\* What comes after the first m instructions is appended to what they built.
LEMMA AppendedRest ==
  ASSUME NEW b, NEW s, Len(s) \in Nat, NEW m \in 0 .. Len(s),
         NEW t, Len(t) \in Nat, NEW n \in 0 .. Len(t), m + n <= Len(s),
         \A k \in 1 .. n : t[k] = s[m + k]
  PROVE  Appended(b, s)[m + n] = Appended(Appended(b, s)[m], t)[n]
<1> DEFINE f == Appended(b, s)
           c == f[m]
           g == Appended(c, t)
           T == {k \in 0 .. n : f[m + k] # g[k]}
<1>1. SUFFICES ASSUME T # {} PROVE FALSE
  <2>1. f[m + n] = g[n]
    BY <1>1
  <2> QED
    BY <2>1
<1>2. PICK k \in T : \A j \in T : k <= j
  <2>1. T \subseteq Nat
    OBVIOUS
  <2> HIDE DEF T
  <2> QED
    BY <1>1, <2>1, LeastOne
<1>3. /\ \A j \in 1 .. Len(s) : f[j] = AppendNext(f[j - 1], s[j])
      /\ g[0] = c /\ \A j \in 1 .. Len(t) : g[j] = AppendNext(g[j - 1], t[j])
  BY AppendedIs
<1> HIDE DEF f, g
<1>4. k \in 0 .. n /\ f[m + k] # g[k]
  BY <1>2
<1>5. k # 0
  <2>1. m + 0 = m
    OBVIOUS
  <2> QED
    BY <1>3, <1>4, <2>1
<1> DEFINE l == k - 1
<1>6. l \in 0 .. n /\ l \notin T
  <2>1. l \in 0 .. n /\ ~ (k <= l)
    BY <1>4, <1>5
  <2> HIDE DEF T
  <2> QED
    BY <1>2, <2>1
<1>7. f[m + l] = g[l]
  BY <1>6
<1>8. f[m + k] = AppendNext(f[m + l], s[m + k])
  <2>1. m + k \in 1 .. Len(s) /\ (m + k) - 1 = m + l
    BY <1>4, <1>5
  <2> QED
    BY <1>3, <2>1
<1>9. g[k] = AppendNext(g[l], t[k]) /\ t[k] = s[m + k]
  <2>1. k \in 1 .. Len(t) /\ k \in 1 .. n
    BY <1>4, <1>5
  <2> QED
    BY <1>3, <2>1
<1> QED
  BY <1>4, <1>7, <1>8, <1>9

\* Nothing is appended after an error.
LEMMA AppendedStops ==
  ASSUME NEW b, NEW s, Len(s) \in Nat, NEW m \in 0 .. Len(s), NEW n \in m .. Len(s),
         Appended(b, s)[m].result # "ok"
  PROVE  Appended(b, s)[n] = Appended(b, s)[m]
<1> DEFINE f == Appended(b, s)
           T == {k \in m .. n : f[k] # f[m]}
<1>1. SUFFICES ASSUME T # {} PROVE FALSE
  <2>1. f[n] = f[m]
    BY <1>1
  <2> QED
    BY <2>1
<1>2. PICK k \in T : \A j \in T : k <= j
  <2>1. T \subseteq Nat
    OBVIOUS
  <2> HIDE DEF T
  <2> QED
    BY <1>1, <2>1, LeastOne
<1>3. \A j \in 1 .. Len(s) : f[j] = AppendNext(f[j - 1], s[j])
  BY AppendedIs
<1> HIDE DEF f
<1>4. k \in m .. n /\ f[k] # f[m]
  BY <1>2
<1>5. k # m
  BY <1>4
<1>6. k - 1 \in m .. n /\ k - 1 \notin T
  <2>1. k - 1 \in m .. n /\ ~ (k <= k - 1)
    BY <1>4, <1>5
  <2> HIDE DEF T
  <2> QED
    BY <1>2, <2>1
<1>7. f[k - 1] = f[m]
  BY <1>6
<1>8. k \in 1 .. Len(s)
  BY <1>4, <1>5
<1> QED
  BY <1>3, <1>4, <1>7, <1>8 DEF AppendNext, f

\* The two halves of append_all are one run.
LEMMA AppendAllIs ==
  ASSUME NEW b, NEW S, NEW s \in Seq(S)
  PROVE  append_all(b, s) = Appended(b, s)[Len(s)]
<1> DEFINE N == Len(s)
           half == N \div 2
           rest == SubSeq(s, half + 1, N)
           middle == Appended(b, s)[half]
<1>1. N \in Nat /\ half \in 0 .. N
  OBVIOUS
<1>2. Len(rest) = N - half /\ \A k \in 1 .. N - half : rest[k] = s[half + k]
  <2> HIDE DEF half
  <2>1. half + 1 \in Int /\ N \in Int /\ \A k \in half + 1 .. N : s[k] \in S
    BY <1>1
  <2>2. /\ Len(rest) = IF half + 1 <= N THEN N - (half + 1) + 1 ELSE 0
        /\ \A k \in 1 .. N - (half + 1) + 1 : rest[k] = s[half + 1 + k - 1]
    <3> HIDE DEF N
    <3> QED
      BY <2>1, SubSeqProperties
  <2>3. (IF half + 1 <= N THEN N - (half + 1) + 1 ELSE 0) = N - half
    <3> HIDE DEF N
    <3> QED
      BY <1>1
  <2>4. ASSUME NEW k \in 1 .. N - half
        PROVE  k \in 1 .. N - (half + 1) + 1 /\ half + 1 + k - 1 = half + k
    <3> HIDE DEF N
    <3> QED
      BY <1>1
  <2> HIDE DEF N, rest
  <2> QED
    BY <2>2, <2>3, <2>4
<1>3. append_all(b, s) =
        IF middle.result = "ok" THEN Appended(middle, rest)[Len(rest)] ELSE middle
  BY DEF append_all
<1> HIDE DEF half, rest
<1>4. Appended(middle, rest)[N - half] = Appended(b, s)[half + (N - half)]
  <2>1. /\ Len(rest) \in Nat /\ N - half \in 0 .. Len(rest)
        /\ half + (N - half) <= Len(s) /\ half \in 0 .. Len(s)
    BY <1>1, <1>2
  <2> HIDE DEF N
  <2>2. Len(s) \in Nat
    OBVIOUS
  <2> QED
    BY <1>2, <2>1, <2>2, AppendedRest
<1>5. half + (N - half) = N
  BY <1>1
<1>6. middle.result # "ok" => Appended(b, s)[N] = middle
  <2>1. N \in half .. Len(s) /\ half \in 0 .. Len(s)
    BY <1>1
  <2> QED
    BY <2>1, AppendedStops
<1> HIDE DEF N, middle
<1> QED
  BY <1>2, <1>3, <1>4, <1>5, <1>6 DEF N

\* The beginning of a sequence is appended first.
LEMMA AppendedBeginning ==
  ASSUME NEW b, NEW s, Len(s) \in Nat, NEW t, Len(t) \in Nat,
         NEW n \in 0 .. Len(t), n <= Len(s), \A k \in 1 .. n : t[k] = s[k]
  PROVE  Appended(b, t)[n] = Appended(b, s)[n]
<1>1. /\ 0 \in 0 .. Len(s) /\ 0 + n <= Len(s) /\ 0 + n = n
      /\ \A k \in 1 .. n : t[k] = s[0 + k]
  OBVIOUS
<1>2. Appended(b, s)[0] = b
  BY AppendedIs
<1>3. Appended(b, s)[0 + n] = Appended(Appended(b, s)[0], t)[n]
  BY <1>1, AppendedRest
<1> QED
  BY <1>1, <1>2, <1>3

\* One instruction more is one append more.
LEMMA AppendAllOneMore ==
  ASSUME NEW b, NEW S, NEW s \in Seq(S), NEW i \in S
  PROVE  append_all(b, Append(s, i)) = AppendNext(append_all(b, s), i)
<1> DEFINE t == Append(s, i)
           N == Len(s)
<1>1. /\ t \in Seq(S) /\ Len(t) = N + 1 /\ t[N + 1] = i /\ N \in Nat
      /\ \A k \in 1 .. N : t[k] = s[k]
  OBVIOUS
<1> HIDE DEF t
<1>2. append_all(b, t) = Appended(b, t)[N + 1] /\ append_all(b, s) = Appended(b, s)[N]
  BY <1>1, AppendAllIs
<1>3. Appended(b, t)[N + 1] = AppendNext(Appended(b, t)[N], i)
  <2>1. N + 1 \in 1 .. Len(t) /\ (N + 1) - 1 = N /\ Len(t) \in Nat
    BY <1>1
  <2> HIDE DEF N
  <2> QED
    BY <1>1, <2>1, AppendedIs
<1>4. Appended(b, t)[N] = Appended(b, s)[N]
  <2>1. N \in 0 .. Len(t) /\ N <= Len(s) /\ Len(t) \in Nat /\ Len(s) \in Nat
    BY <1>1
  <2> QED
    BY <1>1, <2>1, AppendedBeginning
<1> QED
  BY <1>2, <1>3, <1>4 DEF t

-----------------------------------------------------------------------------
\* A builder and the program it holds.

Repaired(b) == [b EXCEPT !.result = "ok"]

Untorn(b) == Len(b.contexts) = Len(b.instructions)

\* The builder is the one its own instructions build, unless a block end was
\* refused, which the contexts remember.
RoundInv(b) ==
  /\ SafeInv(b)
  /\ Len(b.instructions) <= Len(b.contexts)
  /\ Untorn(b) => from_program(b.instructions) = Repaired(b)

\* append does not look at the result of the append before.
LEMMA RepairedAgrees ==
  ASSUME NEW b, DOMAIN b = FieldNames, NEW i
  PROVE  /\ Validate(Repaired(b), i) = Validate(b, i)
         /\ ClosesCurrentBlock(Repaired(b), i) = ClosesCurrentBlock(b, i)
         /\ accept(Repaired(b), i) = accept(b, i)
         /\ Repaired(accept(b, i)) = accept(b, i)
<1> DEFINE a == Repaired(b)
<1>1. /\ DOMAIN a = FieldNames /\ a.active_scopes = b.active_scopes
      /\ a.active_scopes_set = b.active_scopes_set /\ a.scope_counter = b.scope_counter
      /\ a.variables = b.variables /\ a.instructions = b.instructions
      /\ a.contexts = b.contexts
  BY DEF Repaired, FieldNames
<1> HIDE DEF a
<1>2. \A v : is_variable_in_scope(a, v) = is_variable_in_scope(b, v)
  BY <1>1 DEF is_variable_in_scope, is_scope_active
<1>3. Validate(a, i) = Validate(b, i)
  <2>1. InputsInScope(a, i) = InputsInScope(b, i)
    BY <1>1, <1>2 DEF InputsInScope
  <2>2. check_input_types(a, i) = check_input_types(b, i)
    BY <1>1 DEF check_input_types
  <2> QED
    BY <2>1, <2>2 DEF Validate
<1>4. ClosesCurrentBlock(a, i) = ClosesCurrentBlock(b, i)
  BY <1>1 DEF ClosesCurrentBlock, current_scope
<1>5. /\ Above(a, i.operation) = Above(b, i.operation)
      /\ AboveSet(a, i.operation) = AboveSet(b, i.operation)
      /\ CounterAfter(a, i.operation) = CounterAfter(b, i.operation)
      /\ VariablesAfter(a, i.operation) = VariablesAfter(b, i.operation)
  <2>1. Below(a, i.operation) = Below(b, i.operation)
    BY <1>1 DEF Below
  <2> QED
    BY <1>1, <2>1 DEF Above, AboveSet, CounterAfter, VariablesAfter, OuterId, InnerId
<1>6. accept(a, i) = accept(b, i)
  BY <1>1, <1>5, AcceptIs
<1>7. Repaired(accept(b, i)) = accept(b, i)
  BY AcceptRecords DEF Repaired
<1> QED
  BY <1>3, <1>4, <1>6, <1>7 DEF a

\* One append more, of any instruction.
LEMMA RoundStep ==
  ASSUME NEW b, RoundInv(b), NEW i \in InstructionType
  PROVE  RoundInv(append(b, i))
<1> DEFINE a == append(b, i)
           p == b.instructions
<1>1. SafeInv(a)
  BY AppendPreserves DEF RoundInv, SafeInv
<1>2. /\ DOMAIN b = FieldNames /\ p \in Seq(InstructionType)
      /\ Len(p) \in Nat /\ Len(b.contexts) \in Nat
      /\ b.contexts \in Seq(InstructionContext)
  <2>1. b \in Builder
    BY DEF RoundInv, SafeInv, Inv
  <2> QED
    BY <2>1 DEF Builder, FieldNames, InstructionType
<1>3. CASE Validate(b, i) # "ok"
  <2>1. a = [b EXCEPT !.result = Validate(b, i)]
    BY <1>3 DEF append
  <2> HIDE DEF a
  <2>2. a.instructions = p /\ a.contexts = b.contexts /\ Repaired(a) = Repaired(b)
    BY <1>2, <2>1 DEF Repaired, FieldNames
  <2> QED
    BY <1>1, <2>2 DEF RoundInv, Untorn, a
<1>4. CASE Validate(b, i) = "ok" /\ is_block_end(i.operation) /\ ~ ClosesCurrentBlock(b, i)
  <2>1. a = refuse_block_end(b)
    BY <1>4 DEF append
  <2>2. a.instructions = p /\ a.contexts = Append(b.contexts, current_scope(b).context)
    BY <1>2, <2>1 DEF refuse_block_end, exit_scope, push_context, FieldNames
  <2> HIDE DEF a
  <2>3. Len(a.contexts) = Len(b.contexts) + 1
    BY <1>2, <2>2
  <2>4. Len(p) <= Len(b.contexts)
    BY DEF RoundInv
  <2> HIDE DEF p
  <2>5. Len(a.instructions) <= Len(a.contexts) /\ ~ Untorn(a)
    BY <1>2, <2>2, <2>3, <2>4 DEF Untorn
  <2> QED
    BY <1>1, <2>5 DEF RoundInv, a
<1>5. CASE /\ Validate(b, i) = "ok"
           /\ is_block_end(i.operation) => ClosesCurrentBlock(b, i)
  <2>1. a = accept(b, i) /\ append(Repaired(b), i) = accept(b, i)
    BY <1>2, <1>5, RepairedAgrees DEF append
  <2>2. /\ a.instructions = Append(p, i)
        /\ a.contexts = Append(b.contexts, Last(b.active_scopes).context)
    BY <1>2, <2>1, AcceptRecords
  <2>3. Repaired(a) = a
    BY <1>2, <2>1, RepairedAgrees
  <2> HIDE DEF a
  <2>4. Len(a.instructions) = Len(p) + 1 /\ Len(a.contexts) = Len(b.contexts) + 1
    BY <1>2, <2>2
  <2>5. Untorn(a) => Untorn(b)
    BY <1>2, <2>4 DEF Untorn
  <2>6. Untorn(b) => from_program(a.instructions) = a
    <3>1. from_program(Append(p, i)) = AppendNext(from_program(p), i)
      BY <1>2, AppendAllOneMore DEF from_program
    <3>2. Untorn(b) => from_program(p) = Repaired(b)
      BY DEF RoundInv
    <3>3. Repaired(b).result = "ok"
      BY <1>2 DEF Repaired, FieldNames
    <3>4. AppendNext(Repaired(b), i) = a
      BY <2>1, <3>3 DEF AppendNext
    <3> QED
      BY <2>2, <3>1, <3>2, <3>4
  <2>7. Len(a.instructions) <= Len(a.contexts)
    BY <1>2, <2>4 DEF RoundInv
  <2> QED
    BY <1>1, <2>3, <2>5, <2>6, <2>7 DEF RoundInv, a
<1> QED
  BY <1>3, <1>4, <1>5

\* The invariant of every caller that keeps appending: it holds at first and
\* after every step.
LEMMA RoundInitially == RoundInv(new)
<1>1. /\ new.instructions = << >> /\ new.contexts = << >> /\ new.result = "ok"
      /\ DOMAIN new = FieldNames
  BY NewIs DEF FieldNames
<1>2. Repaired(new) = new
  BY NewIs DEF Repaired
<1>3. from_program(<< >>) = new
  <2>1. Len(<< >>) = 0 /\ << >> \in Seq({})
    OBVIOUS
  <2>2. append_all(new, << >>) = Appended(new, << >>)[Len(<< >>)]
    BY <2>1, AppendAllIs
  <2>3. Appended(new, << >>)[0] = new
    BY <2>1, AppendedIs
  <2> QED
    BY <2>1, <2>2, <2>3 DEF from_program
<1> QED
  BY <1>1, <1>2, <1>3, NewBuilder DEF RoundInv

\* A step of the specification appends one instruction.
LEMMA RoundNext ==
  ASSUME RoundInv(builder), [Next]_builder
  PROVE  RoundInv(builder')
<1>1. CASE Next
  <2>0. PICK op \in Operation, n \in 0 .. MaxInputs :
          \E inputs \in [1 .. n -> 1 .. Len(builder.variables) + 1] :
            AppendInstruction(op, inputs)
    BY <1>1 DEF Next
  <2>1. PICK inputs \in [1 .. n -> 1 .. Len(builder.variables) + 1] :
          AppendInstruction(op, inputs)
    BY <2>0
  <2>2. Len(builder.variables) \in Nat
    BY BuilderFields, VariableIds DEF RoundInv, SafeInv, Inv
  <2>3. n \in Nat /\ 1 .. Len(builder.variables) + 1 \subseteq Nat
    BY <2>2
  <2>4. inputs \in Seq(Nat)
    BY <2>3
  <2>5. Instruction(op, inputs) \in InstructionType
    BY <2>4 DEF Instruction, InstructionType
  <2>6. builder' = append(builder, Instruction(op, inputs))
    BY <2>1 DEF AppendInstruction
  <2> QED
    BY <2>5, <2>6, RoundStep
<1>2. CASE UNCHANGED builder
  BY <1>2
<1> QED
  BY <1>1, <1>2

\* A refused instruction leaves no trace unless it is a block end: the builder
\* is the one its own instructions build, and a program finalize returns is
\* statically valid.
THEOREM ProgramsRoundTrip == Spec => []RoundTrip
<1>1. Init => RoundInv(builder)
  BY RoundInitially DEF Init
<1>2. RoundInv(builder) /\ [Next]_builder => RoundInv(builder)'
  BY RoundNext
<1>3. RoundInv(builder) => RoundTrip
  <2>1. SUFFICES ASSUME RoundInv(builder), ~ Torn PROVE RoundTrip
    BY DEF RoundTrip
  <2>2. from_program(builder.instructions) = Repaired(builder)
    BY <2>1 DEF RoundInv, Untorn, Torn
  <2>3. DOMAIN builder = FieldNames
    BY <2>1 DEF RoundInv, SafeInv, Inv, Builder, FieldNames
  <2>4. Repaired(builder).result = "ok" /\ finalize(Repaired(builder)) = finalize(builder)
    BY <2>3 DEF Repaired, FieldNames, finalize
  <2> QED
    BY <2>2, <2>4 DEF RoundTrip, Repaired, is_statically_valid
<1> QED
  BY <1>1, <1>2, <1>3, PTL DEF Spec
=============================================================================
