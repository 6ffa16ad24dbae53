------------------------- MODULE CompilerDataProofs -------------------------
(***************************************************************************)
(* Proofs about what the compiler's data have to do with the program, on   *)
(* top of CompilerProofs and under the same assumptions: until a call      *)
(* fails, every action is sent once and as its instruction asks, outputs   *)
(* are taken in turn, and the metadata is true of the program.             *)
(*                                                                         *)
(* The inductive invariant says what each variable, map, index and action  *)
(* has to do with the instructions compiled so far.  Instructions are      *)
(* told by their positions, and the k-th of a kind by how many positions   *)
(* of the kind come before it (Rank).                                      *)
(***************************************************************************)
EXTENDS CompilerProofs

-----------------------------------------------------------------------------
\* Counting positions.

\* Ranks count what comes up to a position: one more for a member.
LEMMA RankStep ==
  ASSUME NEW S, NEW d \in Nat
  PROVE  /\ Rank(S, d) \in Nat /\ Rank(S, 0) = 0
         /\ Rank(S, d + 1) = Rank(S, d) + (IF d + 1 \in S THEN 1 ELSE 0)
<1>1. IsFiniteSet(S \cap 1 .. d) /\ Cardinality(S \cap 1 .. d) \in Nat
  <2>1. IsFiniteSet(1 .. d) /\ S \cap 1 .. d \in SUBSET (1 .. d)
    BY FS_Interval
  <2> QED
    BY <2>1, FS_Subset, FS_CardinalityType
<1>2. S \cap 1 .. 0 = {}
  OBVIOUS
<1>3. CASE d + 1 \in S
  <2>1. S \cap 1 .. d + 1 = (S \cap 1 .. d) \cup {d + 1} /\ d + 1 \notin S \cap 1 .. d
    BY <1>3
  <2>2. Cardinality((S \cap 1 .. d) \cup {d + 1}) = Cardinality(S \cap 1 .. d) + 1
    BY <1>1, <2>1, FS_AddElement
  <2> QED
    BY <1>1, <1>2, <1>3, <2>1, <2>2, FS_EmptySet DEF Rank
<1>4. CASE d + 1 \notin S
  <2>1. S \cap 1 .. d + 1 = S \cap 1 .. d
    BY <1>4
  <2> QED
    BY <1>1, <1>2, <1>4, <2>1, FS_EmptySet DEF Rank
<1> QED
  BY <1>3, <1>4

\* Ranks grow.
LEMMA RankGrows ==
  ASSUME NEW S, NEW d \in Nat, NEW e \in Nat, d <= e
  PROVE  Rank(S, d) <= Rank(S, e)
<1>1. IsFiniteSet(1 .. e) /\ S \cap 1 .. e \in SUBSET (1 .. e)
  BY FS_Interval
<1>2. IsFiniteSet(S \cap 1 .. e)
  BY <1>1, FS_Subset
<1>3. S \cap 1 .. d \in SUBSET (S \cap 1 .. e)
  OBVIOUS
<1> QED
  BY <1>2, <1>3, FS_Subset DEF Rank

\* Ranks depend on the positions up to there, and on no others.
LEMMA RankOf ==
  ASSUME NEW S, NEW T, NEW d \in Nat, \A k \in 1 .. d : k \in S <=> k \in T
  PROVE  Rank(S, d) = Rank(T, d)
<1>1. S \cap 1 .. d = T \cap 1 .. d
  OBVIOUS
<1> QED
  BY <1>1 DEF Rank

\* No member, no rank.
LEMMA RankNone ==
  ASSUME NEW S, NEW d \in Nat, \A k \in 1 .. d : k \notin S
  PROVE  Rank(S, d) = 0
<1>1. S \cap 1 .. d = {}
  OBVIOUS
<1> QED
  BY <1>1, FS_EmptySet DEF Rank

\* What a member of a set of positions is the rank of.
LEMMA RankOfMember ==
  ASSUME NEW S, NEW d \in Nat \ {0}, d \in S
  PROVE  Rank(S, d) = Rank(S, d - 1) + 1
<1>1. d - 1 \in Nat /\ (d - 1) + 1 = d
  OBVIOUS
<1>2. Rank(S, (d - 1) + 1) = Rank(S, d - 1) + (IF (d - 1) + 1 \in S THEN 1 ELSE 0)
  BY <1>1, RankStep
<1> QED
  BY <1>1, <1>2

-----------------------------------------------------------------------------
\* A program's own count of its variables is the layout's.

\* The offsets of a layout.
LEMMA LayoutOffsets ==
  ASSUME NEW off, NEW vs, NEW p, Layout(off, vs, p), Len(vs) \in Nat, Len(p) \in Nat
  PROVE  /\ \A d \in 0 .. Len(p) : off[d] \in Nat /\ off[d] <= Len(vs)
         /\ \A d \in 1 .. Len(p) : off[d - 1] \in Nat
<1>1. off \in [0 .. Len(p) -> 0 .. Len(vs)]
  BY DEF Layout
<1>2. \A d \in 0 .. Len(p) : off[d] \in 0 .. Len(vs)
  BY <1>1
<1>3. \A d \in 1 .. Len(p) : d - 1 \in 0 .. Len(p)
  OBVIOUS
<1> QED
  BY <1>2, <1>3

\* Offsets grow along the program.
LEMMA LayoutMonotone ==
  ASSUME NEW off, NEW vs, NEW p, Layout(off, vs, p), Len(vs) \in Nat, Len(p) \in Nat,
         \A k \in 1 .. Len(p) : p[k].operation \in Operation,
         NEW d \in 0 .. Len(p), NEW e \in 0 .. Len(p), d <= e
  PROVE  off[d] <= off[e]
<1> DEFINE T == {n \in d .. Len(p) : ~ (off[d] <= off[n])}
<1>1. \A k \in 0 .. Len(p) : off[k] \in Nat
  BY LayoutOffsets
<1>2. ASSUME T # {} PROVE FALSE
  <2>1. PICK n \in T : \A m \in T : n <= m
    <3>1. T \subseteq Nat
      OBVIOUS
    <3> HIDE DEF T
    <3> QED
      BY <1>2, <3>1, LeastOne
  <2>2. n \in d .. Len(p) /\ ~ (off[d] <= off[n])
    BY <2>1
  <2>3. n # d /\ n - 1 \in d .. Len(p) /\ n \in 1 .. Len(p) /\ ~ (n <= n - 1)
    BY <1>1, <2>2
  <2>4. n - 1 \notin T
    <3> HIDE DEF T
    <3> QED
      BY <2>1, <2>3
  <2>5. off[d] <= off[n - 1]
    BY <2>3, <2>4
  <2>6. off[n] = off[n - 1] + Len(Defined(p[n].operation))
    BY <2>3 DEF Layout
  <2>7. Len(Defined(p[n].operation)) \in Nat
    BY <2>3, AppendsDefined
  <2>8. off[n - 1] \in Nat /\ off[d] \in Nat
    BY <1>1, <2>3
  <2> HIDE DEF T
  <2> QED
    BY <2>2, <2>5, <2>6, <2>7, <2>8
<1>3. e \in d .. Len(p)
  OBVIOUS
<1> QED
  BY <1>2, <1>3

\* The counts an operation's outputs add up to.
LEMMA DefinedCounts ==
  ASSUME NEW op \in Operation
  PROVE  /\ num_outputs(op) \in Nat /\ num_inner_outputs(op) \in Nat
         /\ Len(Defined(op)) = num_outputs(op) + num_inner_outputs(op)
<1> DEFINE s == get_output_variables(op)
           t == get_inner_output_variables(op)
<1>1. s \in Seq(Variable) /\ t \in Seq(Variable)
  BY OutputsType, InnerOutputsType
<1> HIDE DEF s, t
<1>2. Len(s) \in Nat /\ Len(t) \in Nat /\ Len(s \o t) = Len(s) + Len(t)
  BY <1>1
<1> QED
  BY <1>2 DEF s, t, num_outputs, num_inner_outputs, Defined

\* VariablesBefore, a program's own count, is the layout of its variables.
LEMMA VariablesBeforeIs ==
  ASSUME NEW off, NEW vs, NEW p, Layout(off, vs, p), Len(vs) \in Nat, Len(p) \in Nat,
         \A k \in 1 .. Len(p) : p[k].operation \in Operation
  PROVE  \A d \in 1 .. Len(p) + 1 : VariablesBefore(p)[d] = off[d - 1]
<1> DEFINE n == Len(p)
           D(d) == num_outputs(p[d].operation) + num_inner_outputs(p[d].operation)
           Next0(e, d) == Append(e, e[d] + num_outputs(p[d].operation)
                                         + num_inner_outputs(p[d].operation))
           Rec(f) == f = [d \in 0 .. n |-> IF d = 0 THEN <<0>> ELSE Next0(f[d - 1], d)]
           row(d) == [j \in 1 .. d + 1 |-> off[j - 1]]
           g == [d \in 0 .. n |-> row(d)]
           before == CHOOSE f : Rec(f)
<1>1. \A k \in 0 .. n : off[k] \in Nat
  BY LayoutOffsets
<1>2. ASSUME NEW d \in 1 .. n PROVE Next0(row(d - 1), d) = row(d)
  <2>1. off[d] = off[d - 1] + Len(Defined(p[d].operation)) /\ off[d - 1] \in Nat
    BY <1>1 DEF Layout
  <2>2. /\ num_outputs(p[d].operation) \in Nat /\ num_inner_outputs(p[d].operation) \in Nat
        /\ Len(Defined(p[d].operation)) =
             num_outputs(p[d].operation) + num_inner_outputs(p[d].operation)
    BY DefinedCounts
  <2>3. row(d - 1) \in Seq(Nat) /\ Len(row(d - 1)) = d /\ row(d - 1)[d] = off[d - 1]
    <3>1. \A j \in 1 .. (d - 1) + 1 : off[j - 1] \in Nat
      BY <1>1
    <3> QED
      BY <3>1
  <2>4. Next0(row(d - 1), d) = Append(row(d - 1), off[d])
    <3> DEFINE a == num_outputs(p[d].operation)
               b == num_inner_outputs(p[d].operation)
    <3>1. off[d - 1] + a + b = off[d]
      <4> HIDE DEF a, b
      <4> QED
        BY <2>1, <2>2 DEF a, b
    <3> QED
      BY <2>3, <3>1
  <2>5. Append(row(d - 1), off[d]) = row(d)
    <3> DEFINE s == row(d - 1)
               t == row(d)
    <3>1. s \in Seq(Nat) /\ Len(s) = d /\ \A j \in 1 .. d : s[j] = off[j - 1]
      BY <2>3
    <3>2. off[d] \in Nat
      BY <1>1
    <3>3. t \in Seq(Nat) /\ Len(t) = d + 1 /\ \A j \in 1 .. d + 1 : t[j] = off[j - 1]
      <4>1. \A j \in 1 .. d + 1 : off[j - 1] \in Nat
        BY <1>1
      <4> QED
        BY <4>1
    <3> HIDE DEF s, t
    <3>4. /\ Append(s, off[d]) \in Seq(Nat) /\ Len(Append(s, off[d])) = d + 1
          /\ \A j \in 1 .. d + 1 : Append(s, off[d])[j] = IF j = d + 1 THEN off[d] ELSE s[j]
      BY <3>1, <3>2
    <3>5. ASSUME NEW j \in 1 .. d + 1 PROVE Append(s, off[d])[j] = t[j]
      <4>1. CASE j = d + 1
        <5>1. j - 1 = d
          BY <4>1
        <5>2. t[j] = off[d]
          BY <3>3, <5>1
        <5> QED
          BY <3>4, <4>1, <5>2
      <4>2. CASE j # d + 1
        <5>1. j \in 1 .. d
          BY <4>2
        <5> QED
          BY <3>1, <3>3, <3>4, <4>2, <5>1
      <4> QED
        BY <4>1, <4>2
    <3>6. Append(s, off[d]) = t
      BY ONLY <3>3, <3>4, <3>5, SeqEqual, Zenon
    <3> QED
      BY <3>6 DEF s, t
  <2> QED
    BY <2>4, <2>5
<1>3. Rec(g)
  <2>1. row(0) = <<0>>
    BY DEF Layout
  <2>2. ASSUME NEW d \in 0 .. n PROVE g[d] = IF d = 0 THEN <<0>> ELSE Next0(g[d - 1], d)
    <3>1. CASE d = 0
      BY <2>1, <3>1
    <3>2. CASE d # 0
      <4>1. d \in 1 .. n /\ d - 1 \in 0 .. n
        BY <3>2
      <4>2. g[d] = row(d) /\ g[d - 1] = row(d - 1)
        <5> HIDE DEF row
        <5> QED
          BY <4>1
      <4> HIDE DEF g, row, Next0
      <4> QED
        BY <1>2, <3>2, <4>1, <4>2
    <3> QED
      BY <3>1, <3>2
  <2> HIDE DEF row, Next0
  <2> QED
    BY <2>2
<1>4. Rec(before)
  <2> HIDE DEF Rec, g
  <2> QED
    BY <1>3
<1>5. \A d \in 0 .. n : before[d] = IF d = 0 THEN <<0>> ELSE Next0(before[d - 1], d)
  <2> HIDE DEF before, Next0
  <2> QED
    BY <1>4
<1> DEFINE T == {d \in 0 .. n : before[d] # row(d)}
<1>6. ASSUME T # {} PROVE FALSE
  <2>1. PICK d \in T : \A m \in T : d <= m
    <3>1. T \subseteq Nat
      OBVIOUS
    <3> HIDE DEF T
    <3> QED
      BY <1>6, <3>1, LeastOne
  <2> HIDE DEF before
  <2>2. d \in 0 .. n /\ before[d] # row(d)
    BY <2>1
  <2>3. d # 0
    <3>1. row(0) = <<0>>
      BY DEF Layout
    <3> HIDE DEF row, Next0
    <3> QED
      BY <1>5, <2>2, <3>1
  <2>4. d \in 1 .. n /\ d - 1 \in 0 .. n /\ ~ (d <= d - 1)
    BY <2>2, <2>3
  <2>5. before[d - 1] = row(d - 1)
    <3>1. d - 1 \notin T
      <4> HIDE DEF T
      <4> QED
        BY <2>1, <2>4
    <3> HIDE DEF row
    <3> QED
      BY <2>4, <3>1
  <2>6. before[d] = Next0(before[d - 1], d)
    <3> HIDE DEF Next0, row
    <3> QED
      BY <1>5, <2>2, <2>3
  <2> HIDE DEF Next0, row
  <2> QED
    BY <1>2, <2>2, <2>4, <2>5, <2>6
<1>7. before[n] = row(n)
  <2> HIDE DEF before, row
  <2> QED
    BY <1>6
<1>8. VariablesBefore(p) = before[n]
  BY DEF VariablesBefore
<1> HIDE DEF before
<1> QED
  BY <1>7, <1>8

-----------------------------------------------------------------------------
\* The operations the metadata and the messages depend on.

ListBegins == {"BeginBuildInventory", "BeginBuildAddrList", "BeginBuildAddrListV2"}

ListEnds == {"EndBuildInventory", "EndBuildAddrList", "EndBuildAddrListV2"}

MutLists == {"MutInventory", "MutAddrList", "MutAddrListV2"}

ConstLists == {"ConstInventory", "ConstAddrList", "ConstAddrListV2"}

Takes == {"TakeTxo", "TakeCoinbaseTxo"}

Tracked == MutLists \cup ConstLists \cup {"Connection"}

Trackers == ListBegins \cup ListEnds \cup {"LoadConnection"}

\* What the tracked types are defined by: one operation each, alone.
LEMMA TrackedTable ==
  ASSUME NEW op
  PROVE  /\ op.name \in ListBegins =>
              /\ Len(Defined(op)) = 1 /\ Defined(op)[1] \in MutLists
              /\ appends(op)[1] # "Tx" /\ appends(op)[1] # "BlockTransactions"
         /\ op.name \in ListEnds =>
              /\ Len(Defined(op)) = 1 /\ Defined(op)[1] \in ConstLists
              /\ Len(get_input_variables(op)) = 1
              /\ get_input_variables(op)[1] \in MutLists
         /\ op.name = "LoadConnection" =>
              Len(Defined(op)) = 1 /\ Defined(op)[1] = "Connection"
         /\ op.name \in Takes => Len(Defined(op)) = 1 /\ Defined(op)[1] = "Txo"
         /\ op.name = "BuildBlock" =>
              /\ Len(Defined(op)) = 3 /\ Defined(op)[1] = "Header" /\ Defined(op)[2] = "Block"
              /\ Defined(op)[3] = "ConstCoinbaseTx"
<1> USE DEF ListBegins, ListEnds, MutLists, ConstLists, Takes
<1>1. ASSUME op.name \in ListBegins
      PROVE  /\ get_output_variables(op) = << >>
             /\ \E t \in MutLists : get_inner_output_variables(op) = <<t>>
             /\ \E r \in {"Vec<Inventory>", "AddrList", "AddrListV2"} : appends(op) = <<r>>
  <2>1. get_output_variables(op) = << >>
    BY <1>1 DEF get_output_variables, Loads, ScriptBuilders
  <2>2. \E t \in MutLists : get_inner_output_variables(op) = <<t>>
    BY <1>1 DEF get_inner_output_variables
  <2>3. \E r \in {"Vec<Inventory>", "AddrList", "AddrListV2"} : appends(op) = <<r>>
    BY <1>1 DEF appends, Loads, ScriptBuilders
  <2> QED
    BY <2>1, <2>2, <2>3
<1>2. ASSUME op.name \in ListEnds
      PROVE  /\ \E t \in ConstLists : get_output_variables(op) = <<t>>
             /\ get_inner_output_variables(op) = << >>
             /\ \E t \in MutLists : get_input_variables(op) = <<t>>
  <2>1. \E t \in ConstLists : get_output_variables(op) = <<t>>
    BY <1>2 DEF get_output_variables, Loads, ScriptBuilders
  <2>2. get_inner_output_variables(op) = << >>
    BY <1>2 DEF get_inner_output_variables
  <2>3. \E t \in MutLists : get_input_variables(op) = <<t>>
    BY <1>2 DEF get_input_variables, TxInvs, BlockInvs
  <2> QED
    BY <2>1, <2>2, <2>3
<1>3. ASSUME op.name = "LoadConnection"
      PROVE  get_output_variables(op) = <<"Connection">> /\ get_inner_output_variables(op) = << >>
  <2>1. get_output_variables(op) = <<loaded_variable(op)>>
    BY <1>3 DEF get_output_variables, Loads, ScriptBuilders
  <2>2. loaded_variable(op) = "Connection"
    BY <1>3 DEF loaded_variable
  <2>3. get_inner_output_variables(op) = << >>
    BY <1>3 DEF get_inner_output_variables
  <2> QED
    BY <2>1, <2>2, <2>3
<1>4. ASSUME op.name \in Takes
      PROVE  get_output_variables(op) = <<"Txo">> /\ get_inner_output_variables(op) = << >>
  BY <1>4 DEF get_output_variables, get_inner_output_variables, Loads, ScriptBuilders
<1>5. ASSUME op.name = "BuildBlock"
      PROVE  /\ get_output_variables(op) = <<"Header", "Block", "ConstCoinbaseTx">>
             /\ get_inner_output_variables(op) = << >>
  BY <1>5 DEF get_output_variables, get_inner_output_variables, Loads, ScriptBuilders
<1>c1. ASSUME NEW t PROVE << >> \o <<t>> = <<t>> /\ <<t>> \o << >> = <<t>>
  OBVIOUS
<1>6. op.name \in ListBegins =>
        /\ Len(Defined(op)) = 1 /\ Defined(op)[1] \in MutLists
        /\ appends(op)[1] # "Tx" /\ appends(op)[1] # "BlockTransactions"
  <2> SUFFICES ASSUME op.name \in ListBegins
               PROVE  /\ Len(Defined(op)) = 1 /\ Defined(op)[1] \in MutLists
                      /\ appends(op)[1] # "Tx" /\ appends(op)[1] # "BlockTransactions"
    OBVIOUS
  <2>1. PICK t \in MutLists : Defined(op) = <<t>>
    BY <1>1, <1>c1 DEF Defined
  <2> QED
    BY <1>1, <2>1
<1>7. op.name \in ListEnds =>
        /\ Len(Defined(op)) = 1 /\ Defined(op)[1] \in ConstLists
        /\ Len(get_input_variables(op)) = 1 /\ get_input_variables(op)[1] \in MutLists
  <2> SUFFICES ASSUME op.name \in ListEnds
               PROVE  /\ Len(Defined(op)) = 1 /\ Defined(op)[1] \in ConstLists
                      /\ Len(get_input_variables(op)) = 1 /\ get_input_variables(op)[1] \in MutLists
    OBVIOUS
  <2>1. PICK t \in ConstLists : Defined(op) = <<t>>
    BY <1>2, <1>c1 DEF Defined
  <2> QED
    BY <1>2, <2>1
<1>8. op.name = "LoadConnection" => Len(Defined(op)) = 1 /\ Defined(op)[1] = "Connection"
  <2> SUFFICES ASSUME op.name = "LoadConnection"
               PROVE  Len(Defined(op)) = 1 /\ Defined(op)[1] = "Connection"
    OBVIOUS
  <2>1. Defined(op) = <<"Connection">>
    BY <1>3, <1>c1 DEF Defined
  <2> QED
    BY <2>1
<1>9. op.name \in Takes => Len(Defined(op)) = 1 /\ Defined(op)[1] = "Txo"
  <2> SUFFICES ASSUME op.name \in Takes PROVE Len(Defined(op)) = 1 /\ Defined(op)[1] = "Txo"
    OBVIOUS
  <2>1. Defined(op) = <<"Txo">>
    BY <1>4, <1>c1 DEF Defined
  <2> QED
    BY <2>1
<1>10. op.name = "BuildBlock" =>
         /\ Len(Defined(op)) = 3 /\ Defined(op)[1] = "Header" /\ Defined(op)[2] = "Block"
         /\ Defined(op)[3] = "ConstCoinbaseTx"
  <2>1. <<"Header", "Block", "ConstCoinbaseTx">> \o << >> = <<"Header", "Block", "ConstCoinbaseTx">>
    OBVIOUS
  <2> QED
    BY <1>5, <2>1 DEF Defined
<1> QED
  BY <1>6, <1>7, <1>8, <1>9, <1>10

\* And by no other.
LEMMA TrackedOnlyBy ==
  ASSUME NEW op \in Operation, NEW k \in 1 .. Len(Defined(op)), Defined(op)[k] \in Tracked
  PROVE  /\ k = 1
         /\ Defined(op)[k] \in MutLists => op.name \in ListBegins
         /\ Defined(op)[k] \in ConstLists => op.name \in ListEnds
         /\ Defined(op)[k] = "Connection" => op.name = "LoadConnection"
<1> DEFINE s == get_output_variables(op)
           t == get_inner_output_variables(op)
           Plain(l) == \A j \in 1 .. Len(l) : l[j] \notin Tracked
<1>1. op.name \in Trackers => Len(Defined(op)) = 1
  BY TrackedTable DEF Trackers
<1>2. ASSUME op.name \notin Trackers PROVE FALSE
  <2>1. Plain(s)
    <3>1. CASE op.name = "Nop"
      <4>1. s = [j \in 1 .. op.args[1] |-> "Nop"]
        BY <3>1 DEF get_output_variables, Loads, ScriptBuilders
      <4>2. op.args[1] \in Nat
        BY <3>1, OperationAssumption
      <4>3. "Nop" \notin Tracked
        BY DEF Tracked, MutLists, ConstLists
      <4> QED
        BY <4>1, <4>2, <4>3
    <3>2. CASE op.name # "Nop" /\ op.name \in Loads
      <4>1. s = <<loaded_variable(op)>>
        BY <3>2 DEF get_output_variables, Loads, ScriptBuilders
      <4>2. loaded_variable(op) \notin Tracked
        BY <1>2, <3>2 DEF loaded_variable, Tracked, MutLists, ConstLists, Trackers, Loads
      <4> QED
        BY <4>1, <4>2
    <3>3. CASE op.name # "Nop" /\ op.name \notin Loads
      <4>1. \/ s = << >>
            \/ \E u \in Variable \ Tracked : s = <<u>>
            \/ s = <<"Header", "Block", "ConstCoinbaseTx">>
        BY <1>2, <3>3, SMTT(60) DEF get_output_variables, Loads, ScriptBuilders, Variable,
          Tracked, MutLists, ConstLists, Trackers, ListBegins, ListEnds
      <4>2. "Header" \notin Tracked /\ "Block" \notin Tracked /\ "ConstCoinbaseTx" \notin Tracked
        BY DEF Tracked, MutLists, ConstLists
      <4> QED
        BY <4>1, <4>2
    <3> QED
      BY <3>1, <3>2, <3>3
  <2>2. Plain(t)
    <3>1. CASE op.name = "Nop"
      <4>1. t = [j \in 1 .. op.args[2] |-> "Nop"]
        BY <3>1 DEF get_inner_output_variables
      <4>2. op.args[2] \in Nat
        BY <3>1, OperationAssumption
      <4>3. "Nop" \notin Tracked
        BY DEF Tracked, MutLists, ConstLists
      <4> QED
        BY <4>1, <4>2, <4>3
    <3>2. CASE op.name # "Nop"
      <4>1. t = << >> \/ \E u \in Variable \ Tracked : t = <<u>>
        BY <1>2, <3>2, SMTT(60) DEF get_inner_output_variables, Variable,
          Tracked, MutLists, ConstLists, Trackers, ListBegins, ListEnds
      <4> QED
        BY <4>1
    <3> QED
      BY <3>1, <3>2
  <2>3. s \in Seq(Variable) /\ t \in Seq(Variable)
    BY OutputsType, InnerOutputsType
  <2>4. Defined(op) = s \o t
    BY DEF Defined
  <2> HIDE DEF s, t
  <2>5. Defined(op)[k] \notin Tracked
    <3>1. Len(s) \in Nat /\ Len(t) \in Nat /\ Len(s \o t) = Len(s) + Len(t)
          /\ \A j \in 1 .. Len(s) + Len(t) :
               (s \o t)[j] = IF j <= Len(s) THEN s[j] ELSE t[j - Len(s)]
      BY <2>3, ConcatProperties
    <3> QED
      BY <2>1, <2>2, <2>4, <3>1
  <2> QED
    BY <2>5
<1>3. k = 1 /\ op.name \in Trackers
  BY <1>1, <1>2
<1>4. /\ op.name \in ListBegins => Defined(op)[1] \in MutLists
      /\ op.name \in ListEnds => Defined(op)[1] \in ConstLists
      /\ op.name = "LoadConnection" => Defined(op)[1] = "Connection"
  BY TrackedTable
<1> QED
  BY <1>3, <1>4 DEF Trackers, MutLists, ConstLists

\* What an update may write to.
LEMMA UpdateTable ==
  ASSUME NEW op, op.name \in Updates
  PROVE  /\ Len(get_input_variables(op)) \in Nat /\ Len(get_input_variables(op)) >= 1
         /\ Len(reads(op)) \in Nat /\ Len(reads(op)) >= 1
         /\ get_input_variables(op)[1] \notin
              ConstLists \cup {"Connection", "Txo", "Header", "Block"}
         /\ get_input_variables(op)[1] \in MutLists =>
              op.name \in Adds \ {"AddTxToFilter", "AddTxoToFilter"}
         /\ op.name \in Takes <=> reads(op)[1] = "Tx"
         /\ op.name = "AddTx" <=> reads(op)[1] = "BlockTransactions"
         /\ op.name = "AddTx" =>
              /\ Len(get_input_variables(op)) = 2 /\ get_input_variables(op)[2] = "ConstTx"
              /\ Len(reads(op)) = 2 /\ reads(op)[2] = "Tx"
<1> DEFINE T == {"MutInventory", "MutTxInputs", "MutTxOutputs", "MutWitnessStack",
                 "MutBlockTransactions", "MutAddrList", "MutAddrListV2", "MutBlockTxn",
                 "MutFilterLoad", "ConstTx", "ConstCoinbaseTx"}
<1>1. CASE op.name \in TxInvs \cup BlockInvs
  <2>1. \E t : get_input_variables(op) = <<"MutInventory", t>>
    BY <1>1 DEF get_input_variables, TxInvs, BlockInvs
  <2>2. \E t : reads(op) = <<"Vec<Inventory>", t>>
    BY <1>1 DEF reads, TxInvs, BlockInvs
  <2> QED
    BY <1>1, <2>1, <2>2 DEF Adds, TxInvs, BlockInvs, ConstLists, MutLists, Takes
<1>2. CASE op.name = "AddTx"
  <2>1. get_input_variables(op) = <<"MutBlockTransactions", "ConstTx">>
    BY <1>2 DEF get_input_variables, TxInvs, BlockInvs
  <2>2. reads(op) = <<"BlockTransactions", "Tx">>
    BY <1>2 DEF reads, TxInvs, BlockInvs
  <2> QED
    BY <1>2, <2>1, <2>2 DEF ConstLists, MutLists, Takes
<1>3. CASE op.name \in Takes
  <2>1. \E t \in {"ConstTx", "ConstCoinbaseTx"} : get_input_variables(op) = <<t>>
    BY <1>3 DEF get_input_variables, TxInvs, BlockInvs, Takes
  <2>2. reads(op) = <<"Tx">>
    BY <1>3 DEF reads, TxInvs, BlockInvs, Takes
  <2> QED
    BY <1>3, <2>1, <2>2 DEF ConstLists, MutLists, Takes
<1>4. CASE op.name \in {"AddTxInput", "AddTxOutput", "AddCoinbaseTxOutput"}
  <2>1. \E t \in {"MutTxInputs", "MutTxOutputs"} : \E u, w : get_input_variables(op) = <<t, u, w>>
    BY <1>4 DEF get_input_variables, TxInvs, BlockInvs
  <2>2. \E t \in {"TxInputs", "TxOutputs"} : \E u, w : reads(op) = <<t, u, w>>
    BY <1>4 DEF reads, TxInvs, BlockInvs
  <2> QED
    BY <1>4, <2>1, <2>2 DEF ConstLists, MutLists, Takes
<1>5. CASE op.name \in {"AddAddr", "AddAddrV2"}
  <2>1. \E t \in {"MutAddrList", "MutAddrListV2"} : \E u : get_input_variables(op) = <<t, u>>
    BY <1>5 DEF get_input_variables, TxInvs, BlockInvs
  <2>2. \E t \in {"AddrList", "AddrListV2"} : \E u : reads(op) = <<t, u>>
    BY <1>5 DEF reads, TxInvs, BlockInvs
  <2> QED
    BY <1>5, <2>1, <2>2 DEF Adds, TxInvs, BlockInvs, ConstLists, MutLists, Takes
<1>6. CASE op.name \in {"AddWitness", "AddTxToBlockTxn", "AddTxToFilter", "AddTxoToFilter"}
  <2>1. \E t \in {"MutWitnessStack", "MutBlockTxn", "MutFilterLoad"} :
          \E u : get_input_variables(op) = <<t, u>>
    BY <1>6 DEF get_input_variables, TxInvs, BlockInvs
  <2>2. \E t \in {"Witness", "bip152::BlockTransactions", "FilterLoad"} :
          \E u : reads(op) = <<t, u>>
    BY <1>6 DEF reads, TxInvs, BlockInvs
  <2> QED
    BY <1>6, <2>1, <2>2 DEF ConstLists, MutLists, Takes
<1> QED
  BY <1>1, <1>2, <1>3, <1>4, <1>5, <1>6 DEF Updates, Adds, Takes

\* The outputs of a transaction are told apart by their outpoints.
Apart(txos) ==
  \A a, b \in 1 .. Len(txos) : txos[a].prev_out = txos[b].prev_out => a = b

FreshTx(t) == t.output_selector = 0 /\ Apart(t.txos)

\* The data that the operations above append.
LEMMA AppendedTracked ==
  ASSUME NEW c, NEW i, NEW now
  PROVE  LET name == i.operation.name
             data == appended_data(c, i, now)
         IN  /\ name \in ListBegins => data[1] = << >>
             /\ name \in ListEnds => data[1] = get_input(c, i, 1)
             /\ name = "LoadConnection" => data[1] = i.operation.args[1]
             /\ name \in Takes => data[1] = take_txo(get_input(c, i, 1))
             /\ name = "BuildBlock" =>
                  /\ data[1] = [header_of |-> build_block(c, i, now)]
                  /\ data[2] = build_block(c, i, now)
<1> DEFINE name == i.operation.name
           data == appended_data(c, i, now)
<1> USE DEF appended_data, Loads, ScriptBuilders
<1>1. name \in ListBegins => data = << << >> >>
  BY DEF ListBegins, handle_list_operations
<1>2. name \in ListEnds => data = <<get_input(c, i, 1)>>
  BY DEF ListEnds, handle_list_operations
<1>3. name = "LoadConnection" => data = i.operation.args
  BY DEF handle_load_operations
<1>4. name \in Takes => data = <<take_txo(get_input(c, i, 1))>>
  <2>1. name \in Takes => data = handle_transaction_building_operations(c, i)
    BY DEF Takes
  <2> HIDE DEF appended_data
  <2> QED
    BY <2>1 DEF Takes, handle_transaction_building_operations
<1>5. name = "BuildBlock" =>
        \E t : data = <<[header_of |-> build_block(c, i, now)], build_block(c, i, now), t>>
  <2>1. name = "BuildBlock" => data = handle_block_building_operations(c, i, now)
    OBVIOUS
  <2> HIDE DEF appended_data
  <2> QED
    BY <2>1 DEF handle_block_building_operations
<1> HIDE DEF data, appended_data
<1> QED
  BY <1>1, <1>2, <1>3, <1>4, <1>5 DEF data

\* The outputs made for a transaction are apart.
LEMMA FreshTxs ==
  ASSUME NEW body, NEW outputs, Len(outputs) \in Nat
  PROVE  FreshTx(Tx(body, << >>)) /\ FreshTx(Tx(body, txos_of(body, outputs)))
<1> DEFINE txos == txos_of(body, outputs)
           n == Len(outputs)
<1>1. /\ Len(txos) = n
      /\ \A a \in 1 .. n : txos[a].prev_out = [tx |-> body, n |-> a]
  BY DEF txos_of
<1>2. \A a, b \in 1 .. n : [tx |-> body, n |-> a] = [tx |-> body, n |-> b] => a = b
  <2> SUFFICES ASSUME NEW a \in 1 .. n, NEW b \in 1 .. n,
                      [tx |-> body, n |-> a] = [tx |-> body, n |-> b]
               PROVE  a = b
    OBVIOUS
  <2>1. [tx |-> body, n |-> a].n = a /\ [tx |-> body, n |-> b].n = b
    OBVIOUS
  <2> QED
    BY <2>1
<1> HIDE DEF txos
<1>3. Apart(txos)
  BY <1>1, <1>2 DEF Apart
<1>4. Apart(<< >>)
  BY DEF Apart
<1> QED
  BY <1>3, <1>4 DEF FreshTx, Tx, txos

\* A transaction is appended with its outputs apart, and none handed out.
LEMMA AppendedTxIsFresh ==
  ASSUME NEW c, GoodValues(c.variables), NEW i, Downcasts(c, i), NEW now,
         i.operation \in Operation, NEW k \in 1 .. Len(appends(i.operation)),
         appends(i.operation)[k] = "Tx"
  PROVE  FreshTx(appended_data(c, i, now)[k])
<1> DEFINE op == i.operation
<1>o. op.name \in OperationName \ {"AdvanceTime"}
  BY CompilerAssumption
<1>g. ASSUME NEW l, GoodOutputs(c.variables, l) PROVE Len(l) \in Nat
  BY <1>g, ElementOfSeq DEF GoodOutputs
<1>1. op.name \in {"BeginBuildTx", "BeginBuildCoinbaseTx", "EndBuildTx", "BuildBlock"}
  <2>1. CASE op.name = "Nop"
    <3>1. op.args[1] \in Nat /\ op.args[2] \in Nat
      BY <2>1, OperationAssumption
    <3>2. appends(op) = [j \in 1 .. op.args[1] + op.args[2] |-> "Nop"]
      BY <2>1 DEF appends, Loads, ScriptBuilders
    <3> QED
      BY <3>1, <3>2
  <2>2. CASE op.name \notin {"Nop"} \cup Structures
    <3>1. appends(op)[k] \notin Structured
      BY <1>o, <2>2, OtherAppends
    <3> QED
      BY <3>1 DEF Structured
  <2>3. CASE op.name \in ScriptBuilders \cup {"TaprootScriptsUseAnnex"}
    BY <2>3, BuiltScripts, AnnexedScripts
  <2>4. CASE op.name \in {"LoadTxo", "TaprootTxoUseAnnex", "TakeTxo", "TakeCoinbaseTxo"}
    <3>1. appends(op) = <<"Txo">>
      BY <2>4, AppendedTxos
    <3> QED
      BY <3>1
  <2>5. CASE op.name \in {"BeginBuildTxInputs", "EndBuildTxInputs", "BeginBuildTxOutputs",
                          "EndBuildTxOutputs", "BeginBuildCoinbaseTxOutputs",
                          "EndBuildCoinbaseTxOutputs", "EndBuildCoinbaseTx"}
    <3>1. \E t \in {"TxInputs", "TxOutputs", "CoinbaseTx"} : appends(op) = <<t>>
      BY <2>5 DEF appends, Loads, ScriptBuilders
    <3> QED
      BY <3>1
  <2> QED
    BY <2>1, <2>2, <2>3, <2>4, <2>5 DEF Structures
<1>2. CASE op.name \in {"BeginBuildTx", "BeginBuildCoinbaseTx"}
  <2>1. appended_data(c, i, now) = <<Tx(contents(c, i, 1), << >>)>>
    BY <1>2 DEF appended_data, handle_transaction_building_operations,
      handle_coinbase_building_operations, Loads, ScriptBuilders
  <2>2. appends(op) = <<"Tx">>
    BY <1>2 DEF appends, Loads, ScriptBuilders
  <2>3. \A x : FreshTx(Tx(x, << >>))
    <3> TAKE x
    <3>1. Len(<< >>) \in Nat
      OBVIOUS
    <3> QED
      BY <3>1, FreshTxs
  <2>4. k = 1
    BY <2>2
  <2>5. appended_data(c, i, now)[k] = Tx(contents(c, i, 1), << >>)
    BY <2>1, <2>4
  <2> QED
    BY <2>3, <2>5
<1>3. CASE op.name = "EndBuildTx"
  <2>1. appended_data(c, i, now) = <<finalize_tx(c, i)>>
    <3>1. appended_data(c, i, now) = handle_transaction_building_operations(c, i)
      BY <1>3 DEF appended_data, Loads, ScriptBuilders
    <3> QED
      BY <1>3, <3>1 DEF handle_transaction_building_operations
  <2>2. reads(op) = <<"Tx", "TxInputs", "TxOutputs">> /\ appends(op) = <<"Tx">>
    BY <1>3 DEF reads, TxInvs, BlockInvs, appends, Loads, ScriptBuilders
  <2>3. GoodOutputs(c.variables, get_input(c, i, 3))
    BY <2>2, InputIsGood DEF GoodValue
  <2>4. PICK body : finalize_tx(c, i) = Tx(body, txos_of(body, get_input(c, i, 3)))
    BY DEF finalize_tx
  <2>5. Len(get_input(c, i, 3)) \in Nat
    BY <1>g, <2>3
  <2>6. FreshTx(finalize_tx(c, i))
    <3> HIDE DEF op
    <3> QED
      BY <2>4, <2>5, FreshTxs
  <2>7. k = 1 /\ appended_data(c, i, now)[1] = finalize_tx(c, i)
    BY <2>1, <2>2
  <2> QED
    BY <2>6, <2>7
<1>4. CASE op.name = "BuildBlock"
  <2> DEFINE block == build_block(c, i, now)
             t == Tx([coinbase_of |-> block],
                     txos_of([coinbase_of |-> block], get_input(c, i, 1).scripts))
  <2>1. appended_data(c, i, now) = <<[header_of |-> block], block, t>>
    <3>1. appended_data(c, i, now) = handle_block_building_operations(c, i, now)
      BY <1>4 DEF appended_data, Loads, ScriptBuilders
    <3> QED
      BY <1>4, <3>1 DEF handle_block_building_operations
  <2>2. appends(op) = <<"Header", "Block", "Tx">>
    BY <1>4 DEF appends, Loads, ScriptBuilders
  <2>3. reads(op)[1] = "CoinbaseTx" /\ 1 \in 1 .. Len(reads(op))
    BY <1>4 DEF reads, TxInvs, BlockInvs
  <2>4. GoodOutputs(c.variables, get_input(c, i, 1).scripts)
    BY <2>3, InputIsGood DEF GoodValue
  <2>5. Len(get_input(c, i, 1).scripts) \in Nat
    BY <1>g, <2>4
  <2>6. FreshTx(t)
    <3> HIDE DEF block
    <3> QED
      BY <2>5, FreshTxs
  <2> HIDE DEF t
  <2>7. k = 3 /\ appended_data(c, i, now)[3] = t
    BY <2>1, <2>2
  <2> QED
    BY <2>6, <2>7
<1> QED
  BY <1>1, <1>2, <1>3, <1>4

\* No other operation appends a list of a block's transactions.
LEMMA NoOtherBlockLists ==
  ASSUME NEW op, op.name # "Nop",
         op.name \notin {"BeginBlockTransactions", "EndBlockTransactions"}
  PROVE  \A k \in 1 .. Len(appends(op)) : appends(op)[k] # "BlockTransactions"
<1>1. CASE op.name \in Loads
  <2>1. loaded_rust(op) # "BlockTransactions"
    <3>1. CASE op.name = "LoadTxo"
      BY <3>1 DEF loaded_rust
    <3>2. CASE op.name \in {"LoadBytes", "LoadTaprootAnnex", "LoadMsgType", "LoadNode",
                            "LoadConnection", "LoadSize", "LoadConnectionType"}
      BY <3>2 DEF loaded_rust
    <3>3. CASE op.name \in {"LoadDuration", "LoadAddr", "LoadBlockHeight", "LoadTxVersion",
                            "LoadLockTime", "LoadSequence", "LoadCompactFilterType",
                            "LoadSigHashFlags"}
      BY <3>3 DEF loaded_rust
    <3>4. CASE op.name \in {"LoadTime", "LoadAmount", "LoadNonce", "LoadBlockVersion",
                            "LoadHeader", "LoadFilterLoad", "LoadFilterAdd",
                            "LoadPrivateKey"}
      BY <3>4 DEF loaded_rust
    <3> QED
      BY <1>1, <3>1, <3>2, <3>3, <3>4 DEF Loads
  <2>2. appends(op) = <<loaded_rust(op)>>
    <3>1. op.name \in Loads /\ op.name # "Nop"
      BY <1>1
    <3> QED
      BY <3>1, SMTT(60) DEF appends, Loads, ScriptBuilders
  <2> QED
    BY <2>1, <2>2
<1>2. CASE op.name \notin Loads
  <2>1. CASE op.name \in {"BeginBuildInventory", "EndBuildInventory", "BeginBuildAddrList",
                          "BeginBuildAddrListV2", "EndBuildAddrList", "EndBuildAddrListV2",
                          "BeginWitnessStack", "EndWitnessStack"}
    <3>1. \E r \in {"Vec<Inventory>", "AddrList", "AddrListV2", "Vec<u32_Address>",
                    "Vec<AddrV2Message>", "Witness"} : appends(op) = <<r>>
      BY <2>1 DEF appends, Loads, ScriptBuilders
    <3> QED
      BY <3>1
  <2>2. CASE op.name \in {"BeginBuildFilterLoad", "EndBuildFilterLoad", "BuildFilterAddFromTx",
                          "BuildFilterAddFromTxo", "BuildCompactBlock", "TaprootTxoUseAnnex",
                          "TakeTxo", "TakeCoinbaseTxo", "BuildTaprootTree"}
    <3>1. \E r \in {"FilterLoad", "FilterAdd", "CmpctBlock", "Txo", "TaprootSpendInfo"} :
            appends(op) = <<r>>
      BY <2>2 DEF appends, Loads, ScriptBuilders
    <3> QED
      BY <3>1
  <2>3. CASE op.name \in ScriptBuilders \cup {"TaprootScriptsUseAnnex"}
    <3>1. appends(op) = <<"Scripts">>
      BY <2>3 DEF appends, Loads, ScriptBuilders
    <3> QED
      BY <3>1
  <2>4. CASE op.name \in {"BeginBuildTx", "EndBuildTx", "BeginBuildCoinbaseTx",
                          "BeginBuildTxInputs", "EndBuildTxInputs", "BeginBuildTxOutputs",
                          "EndBuildTxOutputs", "BeginBuildCoinbaseTxOutputs",
                          "EndBuildCoinbaseTxOutputs"}
    <3>1. \E r \in {"Tx", "TxInputs", "TxOutputs"} : appends(op) = <<r>>
      BY <2>4 DEF appends, Loads, ScriptBuilders
    <3> QED
      BY <3>1
  <2>5. CASE op.name \in {"BuildCoinbaseTxInput", "EndBuildCoinbaseTx", "BeginBuildBlockTxn",
                          "EndBuildBlockTxn"}
    <3>1. \E r \in {"CoinbaseInput", "CoinbaseTx", "bip152::BlockTransactions"} :
            appends(op) = <<r>>
      BY <2>5 DEF appends, Loads, ScriptBuilders
    <3> QED
      BY <3>1
  <2>6. CASE op.name = "BuildBlock"
    <3>1. appends(op) = <<"Header", "Block", "Tx">>
      BY <2>6 DEF appends, Loads, ScriptBuilders
    <3> QED
      BY <3>1
  <2>7. CASE op.name \notin Structures \cup
               {"BeginBuildInventory", "EndBuildInventory", "BeginBuildAddrList",
                "BeginBuildAddrListV2", "EndBuildAddrList", "EndBuildAddrListV2",
                "BeginWitnessStack", "EndWitnessStack", "BeginBuildFilterLoad",
                "EndBuildFilterLoad", "BuildFilterAddFromTx", "BuildFilterAddFromTxo",
                "BuildCompactBlock", "BuildTaprootTree", "BuildCoinbaseTxInput",
                "BeginBuildBlockTxn", "EndBuildBlockTxn"}
    <3>1. appends(op) = << >>
      BY <1>2, <2>7, SMTT(60) DEF appends, Structures
    <3> QED
      BY <3>1
  <2> QED
    BY <1>2, <2>1, <2>2, <2>3, <2>4, <2>5, <2>6, <2>7 DEF Structures, Loads
<1> QED
  BY <1>1, <1>2

\* A list of a block's transactions starts empty, or as the copy of one.
LEMMA AppendedBlockLists ==
  ASSUME NEW c, NEW i, NEW now, i.operation \in Operation,
         NEW k \in 1 .. Len(appends(i.operation)),
         appends(i.operation)[k] = "BlockTransactions"
  PROVE  \/ appended_data(c, i, now)[k] = << >>
         \/ /\ appended_data(c, i, now)[k] = get_input(c, i, 1)
            /\ reads(i.operation) = <<"BlockTransactions">>
<1> DEFINE op == i.operation
<1>o. op.name \in OperationName \ {"AdvanceTime"}
  BY CompilerAssumption
<1>1. op.name \in {"BeginBlockTransactions", "EndBlockTransactions"}
  <2> SUFFICES ASSUME op.name \notin {"BeginBlockTransactions", "EndBlockTransactions"}
               PROVE  FALSE
    OBVIOUS
  <2>1. CASE op.name = "Nop"
    <3>1. op.args[1] \in Nat /\ op.args[2] \in Nat
      BY <2>1, OperationAssumption
    <3>2. appends(op) = [j \in 1 .. op.args[1] + op.args[2] |-> "Nop"]
      BY <2>1 DEF appends, Loads, ScriptBuilders
    <3> QED
      BY <3>1, <3>2
  <2>2. CASE op.name # "Nop"
    BY <2>2, NoOtherBlockLists
  <2> QED
    BY <2>1, <2>2
<1>2. appends(op) = <<"BlockTransactions">>
  BY <1>1 DEF appends, Loads, ScriptBuilders
<1>3. k = 1
  BY <1>2
<1>4. CASE op.name = "BeginBlockTransactions"
  <2>1. appended_data(c, i, now) = << << >> >>
    BY <1>4 DEF appended_data, handle_block_building_operations, Loads, ScriptBuilders
  <2> QED
    BY <1>3, <2>1
<1>5. CASE op.name = "EndBlockTransactions"
  <2>1. appended_data(c, i, now) = <<get_input(c, i, 1)>>
    BY <1>5 DEF appended_data, handle_block_building_operations, Loads, ScriptBuilders
  <2>2. reads(op) = <<"BlockTransactions">>
    BY <1>5 DEF reads, TxInvs, BlockInvs
  <2> QED
    BY <1>3, <2>1, <2>2
<1> QED
  BY <1>1, <1>4, <1>5

\* What updates write.
LEMMA UpdatedData ==
  ASSUME NEW c, NEW i
  PROVE  /\ i.operation.name \in Adds \ {"AddTxToFilter", "AddTxoToFilter"} =>
              updated(c, i) = Append(get_input(c, i, 1), added(c, i))
         /\ i.operation.name \in Takes =>
              updated(c, i) =
                IF get_input(c, i, 1).txos = << >> THEN get_input(c, i, 1)
                ELSE [get_input(c, i, 1) EXCEPT !.output_selector = @ + 1]
         /\ i.operation.name = "AddTx" =>
              added(c, i) = [body |-> content(c, i, 2), var |-> i.inputs[2]]
<1>1. i.operation.name \in Adds \ {"AddTxToFilter", "AddTxoToFilter"} =>
        updated(c, i) = Append(get_input(c, i, 1), added(c, i))
  BY DEF updated, Adds, TxInvs, BlockInvs
<1>2. i.operation.name \in Takes =>
        updated(c, i) = IF get_input(c, i, 1).txos = << >> THEN get_input(c, i, 1)
                        ELSE [get_input(c, i, 1) EXCEPT !.output_selector = @ + 1]
  BY DEF updated, Takes, Adds, TxInvs, BlockInvs
<1>3. i.operation.name = "AddTx" =>
        added(c, i) = [body |-> content(c, i, 2), var |-> i.inputs[2]]
  BY DEF added, TxInvs, BlockInvs
<1> QED
  BY <1>1, <1>2, <1>3

-----------------------------------------------------------------------------
\* The instruction that defines a variable.

\* Every variable of the first n instructions is defined by one of them.
LEMMA DefinerExists ==
  ASSUME NEW off, NEW vs, NEW p, Layout(off, vs, p), Len(vs) \in Nat, Len(p) \in Nat,
         NEW n \in 0 .. Len(p), NEW v \in 1 .. off[n]
  PROVE  \E d \in 1 .. n : v \in off[d - 1] + 1 .. off[d]
<1> DEFINE T == {k \in 0 .. n : v <= off[k]}
<1>1. \A k \in 0 .. n : off[k] \in Nat
  BY LayoutOffsets
<1>2. n \in T
  BY <1>1
<1>3. PICK d \in T : \A k \in T : d <= k
  <2>1. T \subseteq Nat
    OBVIOUS
  <2> HIDE DEF T
  <2> QED
    BY <1>2, <2>1, LeastOne
<1>4. d \in 0 .. n /\ v <= off[d]
  BY <1>3
<1>5. d # 0
  BY <1>4 DEF Layout
<1>6. d \in 1 .. n /\ d - 1 \in 0 .. n /\ ~ (d <= d - 1)
  BY <1>4, <1>5
<1>7. d - 1 \notin T
  <2> HIDE DEF T
  <2> QED
    BY <1>3, <1>6
<1>8. ~ (v <= off[d - 1])
  BY <1>6, <1>7
<1>9. v \in Nat /\ off[d - 1] \in Nat /\ off[d] \in Nat
  BY <1>1, <1>6
<1> HIDE DEF T
<1>10. v \in off[d - 1] + 1 .. off[d]
  BY <1>4, <1>8, <1>9
<1> QED
  BY <1>6, <1>10

\* And no other one defines it.
LEMMA DefinerIs ==
  ASSUME NEW off, NEW vs, NEW p, Layout(off, vs, p), Len(vs) \in Nat, Len(p) \in Nat,
         \A k \in 1 .. Len(p) : p[k].operation \in Operation,
         NEW d \in 1 .. Len(p), NEW v \in off[d - 1] + 1 .. off[d]
  PROVE  DefinerOf(p, v) = d
<1> DEFINE before == VariablesBefore(p)
<1>1. \A k \in 1 .. Len(p) + 1 : before[k] = off[k - 1]
  BY VariablesBeforeIs
<1> HIDE DEF before
<1>2. \A k \in 1 .. Len(p) : before[k] = off[k - 1] /\ before[k + 1] = off[k]
  <2> SUFFICES ASSUME NEW k \in 1 .. Len(p)
               PROVE  before[k] = off[k - 1] /\ before[k + 1] = off[k]
    OBVIOUS
  <2>1. k \in 1 .. Len(p) + 1 /\ k + 1 \in 1 .. Len(p) + 1 /\ (k + 1) - 1 = k
    OBVIOUS
  <2> QED
    BY <1>1, <2>1
<1>3. \A k \in 0 .. Len(p) : off[k] \in Nat
  BY LayoutOffsets
<1>4. ASSUME NEW k \in 1 .. Len(p), v \in before[k] + 1 .. before[k + 1] PROVE k = d
  <2>1. v \in off[k - 1] + 1 .. off[k]
    BY <1>2, <1>4
  <2>2. k - 1 \in 0 .. Len(p) /\ d - 1 \in 0 .. Len(p)
    OBVIOUS
  <2>3. off[k - 1] \in Nat /\ off[k] \in Nat /\ off[d - 1] \in Nat /\ off[d] \in Nat
    BY <1>3, <2>2
  <2>4. CASE k < d
    <3>1. off[k] <= off[d - 1]
      <4>1. k <= d - 1 /\ k \in 0 .. Len(p)
        BY <2>4
      <4> QED
        BY <2>2, <4>1, LayoutMonotone
    <3> QED
      BY <2>1, <2>3, <3>1
  <2>5. CASE d < k
    <3>1. off[d] <= off[k - 1]
      <4>1. d <= k - 1 /\ d \in 0 .. Len(p)
        BY <2>5
      <4> QED
        BY <2>2, <4>1, LayoutMonotone
    <3> QED
      BY <2>1, <2>3, <3>1
  <2> QED
    BY <2>4, <2>5
<1>5. v \in before[d] + 1 .. before[d + 1]
  BY <1>2
<1>6. DefinerOf(p, v) = CHOOSE k \in 1 .. Len(p) : v \in before[k] + 1 .. before[k + 1]
  BY DEF DefinerOf, before
<1> QED
  BY <1>4, <1>5, <1>6

\* Instruction d defines variable v, alone, and in the way its type tells.
TrackedBy(off, vs, p, v, d) ==
  /\ v = off[d - 1] + 1 /\ v <= off[d]
  /\ vs[v].var \in MutLists => p[d].operation.name \in ListBegins
  /\ vs[v].var \in ConstLists => p[d].operation.name \in ListEnds
  /\ vs[v].var = "Connection" => p[d].operation.name = "LoadConnection"

\* A connection or a copied list is what its one operation defines, alone.
LEMMA TrackedDefiner ==
  ASSUME NEW off, NEW vs, NEW p, Layout(off, vs, p), Len(vs) \in Nat, Len(p) \in Nat,
         \A k \in 1 .. Len(p) : p[k].operation \in Operation,
         NEW n \in 0 .. Len(p), NEW v \in 1 .. off[n], vs[v].var \in Tracked
  PROVE  \E d \in 1 .. n : TrackedBy(off, vs, p, v, d)
<1>1. PICK d \in 1 .. n : v \in off[d - 1] + 1 .. off[d]
  BY DefinerExists
<1> DEFINE op == p[d].operation
<1>2. d \in 1 .. Len(p) /\ op \in Operation
  OBVIOUS
<1>3. off[d - 1] \in Nat /\ off[d] \in Nat
  BY <1>2, LayoutOffsets
<1>4. Len(Defined(op)) \in Nat /\ off[d] = off[d - 1] + Len(Defined(op))
  BY <1>2, AppendsDefined DEF Layout
<1>5. v - off[d - 1] \in 1 .. Len(Defined(op)) /\ off[d - 1] + (v - off[d - 1]) = v
  BY <1>1, <1>3, <1>4
<1>6. vs[v].var = Defined(op)[v - off[d - 1]]
  BY <1>2, <1>5 DEF Layout
<1>7. /\ v - off[d - 1] = 1
      /\ vs[v].var \in MutLists => op.name \in ListBegins
      /\ vs[v].var \in ConstLists => op.name \in ListEnds
      /\ vs[v].var = "Connection" => op.name = "LoadConnection"
  BY <1>2, <1>5, <1>6, TrackedOnlyBy
<1>8. v = off[d - 1] + 1 /\ v <= off[d]
  BY <1>1, <1>3, <1>5, <1>7
<1> QED
  BY <1>7, <1>8 DEF TrackedBy

-----------------------------------------------------------------------------
\* The variables after one more instruction.

\* c holds what stands for the first n - 1 instructions; instruction n is next.
Compiles(off, vs, p, n, c) ==
  /\ Layout(off, vs, p) /\ Len(vs) \in Nat /\ Len(p) \in Nat /\ n \in 1 .. Len(p)
  /\ \A k \in 1 .. Len(p) : p[k].operation \in Operation
  /\ DOMAIN c = DOMAIN new_compiler
  /\ Represents(off, n - 1, vs, c.variables)

\* The values cvs2 are those of c, but for what instruction n updates, and the
\* values it appends.
Becomes(off, vs, p, n, c, now, cvs2) ==
  LET i == p[n]
      cvs == c.variables
      m == off[n - 1]
  IN  /\ Represents(off, n, vs, cvs2)
      /\ Len(appends(i.operation)) = off[n] - m
      /\ \A v \in 1 .. m : i.operation.name \notin Updates \/ v # i.inputs[1] => cvs2[v] = cvs[v]
      /\ i.operation.name \in Updates =>
           /\ i.inputs[1] \in 1 .. m
           /\ cvs2[i.inputs[1]].rust = cvs[i.inputs[1]].rust
           /\ cvs2[i.inputs[1]].data = updated(c, i)
      /\ \A k \in 1 .. off[n] - m :
           /\ cvs2[m + k].rust = appends(i.operation)[k]
           /\ cvs2[m + k].data = appended_data(c, i, now)[k]

\* The offsets around an instruction that is compiled.
LEMMA CompilesOffsets ==
  ASSUME NEW off, NEW vs, NEW p, NEW n, NEW c, Compiles(off, vs, p, n, c)
  PROVE  /\ n \in Nat /\ n >= 1 /\ n - 1 \in Nat /\ n \in 1 .. Len(p) /\ n - 1 \in 0 .. Len(p)
         /\ off[n - 1] \in Nat /\ off[n] \in Nat /\ off[n - 1] <= off[n] /\ off[n] <= Len(vs)
         /\ Len(Defined(p[n].operation)) = off[n] - off[n - 1]
         /\ Len(c.variables) = off[n - 1]
         /\ p[n].operation \in Operation
         /\ ReadsBefore(vs, off[n - 1], p[n])
<1>1. n \in 1 .. Len(p) /\ n - 1 \in 0 .. Len(p) /\ n \in Nat /\ n >= 1 /\ n - 1 \in Nat
  BY DEF Compiles
<1>2. \A k \in 0 .. Len(p) : off[k] \in Nat /\ off[k] <= Len(vs)
  BY LayoutOffsets DEF Compiles
<1>3. p[n].operation \in Operation
  BY DEF Compiles
<1>4. Len(Defined(p[n].operation)) \in Nat
  BY <1>3, AppendsDefined
<1>5. off[n] = off[n - 1] + Len(Defined(p[n].operation)) /\ ReadsBefore(vs, off[n - 1], p[n])
  BY <1>1 DEF Compiles, Layout
<1>6. off[n - 1] \in Nat /\ off[n] \in Nat /\ off[n] <= Len(vs)
  BY <1>1, <1>2
<1>7. Len(c.variables) = off[n - 1]
  BY DEF Compiles, Represents
<1>8. off[n - 1] <= off[n] /\ Len(Defined(p[n].operation)) = off[n] - off[n - 1]
  <2> DEFINE a == off[n - 1]
             b == off[n]
             d == Len(Defined(p[n].operation))
  <2>1. a \in Nat /\ b \in Nat /\ d \in Nat /\ b = a + d
    BY <1>4, <1>5, <1>6
  <2> HIDE DEF a, b, d
  <2>2. a <= b /\ d = b - a
    BY <2>1
  <2> QED
    BY <2>2 DEF a, b, d
<1> QED
  BY <1>1, <1>3, <1>5, <1>6, <1>7, <1>8

\* What compiling an instruction does to the variables.
LEMMA CompiledVariables ==
  ASSUME NEW off, NEW vs, NEW p, NEW n, NEW c, Compiles(off, vs, p, n, c), NEW now
  PROVE  Becomes(off, vs, p, n, c, now, compile_instruction(c, p[n], now).variables)
<1> DEFINE i == p[n]
           op == i.operation
           types == appends(op)
           cvs == c.variables
           m == off[n - 1]
           l == off[n] - m
           uvs == updated_variables(c, i)
           more == [k \in 1 .. Len(types) |->
                      [rust |-> types[k], data |-> appended_data(c, i, now)[k]]]
           all == uvs \o more
<1>1. /\ n \in 1 .. Len(p) /\ m \in Nat /\ off[n] \in Nat /\ m <= off[n] /\ Len(cvs) = m
      /\ Len(Defined(op)) = l /\ op \in Operation
  BY CompilesOffsets
<1>2. Represents(off, n, vs, compile_instruction(c, i, now).variables)
  BY <1>1, CompileRepresents DEF Compiles, new_compiler
<1>3. GoodValues(cvs) /\ Downcasts(c, i)
  BY <1>1, DowncastsSucceed DEF Compiles, Represents
<1>4. Len(types) = l /\ l \in Nat
  BY <1>1, AppendsDefined
<1>5. PICK S : cvs \in Seq(S)
  BY <1>3 DEF GoodValues
<1>6. /\ \E U : uvs \in Seq(U)
      /\ Len(uvs) = m
      /\ \A v \in 1 .. m : op.name \notin Updates \/ v # i.inputs[1] => uvs[v] = cvs[v]
      /\ op.name \in Updates =>
           /\ i.inputs[1] \in 1 .. m
           /\ uvs[i.inputs[1]].rust = cvs[i.inputs[1]].rust
           /\ uvs[i.inputs[1]].data = updated(c, i)
  <2>1. CASE op.name \notin Updates
    <3>1. uvs = cvs
      BY <2>1 DEF updated_variables
    <3> QED
      BY <1>1, <1>5, <2>1, <3>1
  <2>2. CASE op.name \in Updates
    <3> DEFINE j == i.inputs[1]
               d == updated(c, i)
               w == [cvs[j] EXCEPT !.data = d]
    <3>1. uvs = [cvs EXCEPT ![j].data = d]
      BY <2>2 DEF updated_variables
    <3>2. j \in 1 .. m
      BY <1>1, <1>3, <2>2, UpdatedIsGood
    <3> HIDE DEF d, j
    <3>3. w.rust = cvs[j].rust /\ w.data = d
      BY <1>1, <1>3, <3>2 DEF GoodValues
    <3>4. uvs = [cvs EXCEPT ![j] = w]
      BY <3>1
    <3> HIDE DEF w, uvs
    <3> DEFINE U == S \cup {w}
    <3>5. cvs \in Seq(U) /\ w \in U
      BY <1>5
    <3> HIDE DEF U
    <3>6. /\ uvs \in Seq(U) /\ Len(uvs) = m
          /\ \A v \in 1 .. m : uvs[v] = IF v = j THEN w ELSE cvs[v]
      BY <1>1, <3>2, <3>4, <3>5
    <3>7. \A v \in 1 .. m : v # j => uvs[v] = cvs[v]
      BY <3>6
    <3>8. uvs[j] = w
      BY <3>2, <3>6
    <3> QED
      BY <2>2, <3>2, <3>3, <3>6, <3>7, <3>8 DEF d, j
  <2> QED
    BY <2>1, <2>2
<1>7. \A k \in 1 .. l : more[k].rust = types[k] /\ more[k].data = appended_data(c, i, now)[k]
  BY <1>4
<1>8. compile_instruction(c, i, now).variables = all
  BY DEF compile_instruction, Compiles, new_compiler
<1> HIDE DEF uvs
<1>9. PICK U : uvs \in Seq(U)
  BY <1>6
<1>10. more \in Seq({more[k] : k \in 1 .. l}) /\ Len(more) = l
  BY <1>4
<1> HIDE DEF more
<1> DEFINE W == U \cup {more[k] : k \in 1 .. l}
<1>11. uvs \in Seq(W) /\ more \in Seq(W)
  BY <1>9, <1>10
<1> HIDE DEF W, l, m
<1>12. \A v \in 1 .. m + l : all[v] = IF v <= m THEN uvs[v] ELSE more[v - m]
  <2>1. \A v \in 1 .. Len(uvs) + Len(more) :
          all[v] = IF v <= Len(uvs) THEN uvs[v] ELSE more[v - Len(uvs)]
    BY ONLY <1>11, ConcatProperties, Zenon
  <2> QED
    BY <1>6, <1>10, <2>1
<1> HIDE DEF all
<1>13. /\ \A v \in 1 .. m : all[v] = uvs[v]
       /\ \A k \in 1 .. l : all[m + k] = more[k]
  <2>1. m \in Nat /\ l \in Nat
    BY <1>1, <1>4
  <2>2. ASSUME NEW v \in 1 .. m PROVE all[v] = uvs[v]
    <3>1. v \in 1 .. m + l /\ v <= m
      BY <2>1
    <3> QED
      BY <1>12, <3>1
  <2>3. ASSUME NEW k \in 1 .. l PROVE all[m + k] = more[k]
    <3>1. m + k \in 1 .. m + l /\ ~ (m + k <= m) /\ (m + k) - m = k
      BY <2>1
    <3> QED
      BY <1>12, <3>1
  <2> QED
    BY <2>2, <2>3
<1> DEFINE cvs2 == compile_instruction(c, i, now).variables
<1>14. cvs2 = all
  BY <1>8
<1> HIDE DEF cvs2
<1>15. \A v \in 1 .. m : op.name \notin Updates \/ v # i.inputs[1] => cvs2[v] = cvs[v]
  BY <1>6, <1>13, <1>14
<1>16. op.name \in Updates =>
         /\ i.inputs[1] \in 1 .. m
         /\ cvs2[i.inputs[1]].rust = cvs[i.inputs[1]].rust
         /\ cvs2[i.inputs[1]].data = updated(c, i)
  BY <1>6, <1>13, <1>14
<1>17. \A k \in 1 .. l : /\ cvs2[m + k].rust = types[k]
                         /\ cvs2[m + k].data = appended_data(c, i, now)[k]
  BY <1>7, <1>13, <1>14
<1>18. Represents(off, n, vs, cvs2) /\ Len(types) = l
  BY <1>2, <1>4 DEF cvs2
<1> QED
  BY <1>15, <1>16, <1>17, <1>18 DEF Becomes, cvs2, m, l

\* A variable is one there was, unchanged or updated, or one that is new.
LEMMA OldOrNew ==
  ASSUME NEW off, NEW vs, NEW p, NEW n, NEW c, Compiles(off, vs, p, n, c), NEW now,
         NEW cvs2, Becomes(off, vs, p, n, c, now, cvs2), NEW v \in 1 .. Len(cvs2)
  PROVE  \/ /\ v \in 1 .. off[n - 1] /\ cvs2[v] = c.variables[v]
            /\ p[n].operation.name \notin Updates \/ v # p[n].inputs[1]
         \/ /\ v \in 1 .. off[n - 1] /\ v = p[n].inputs[1] /\ p[n].operation.name \in Updates
            /\ cvs2[v].rust = c.variables[v].rust /\ cvs2[v].data = updated(c, p[n])
         \/ \E k \in 1 .. off[n] - off[n - 1] :
              /\ v = off[n - 1] + k /\ vs[v].var = Defined(p[n].operation)[k]
              /\ k \in 1 .. Len(Defined(p[n].operation))
              /\ k \in 1 .. Len(appends(p[n].operation))
              /\ cvs2[v].rust = appends(p[n].operation)[k]
              /\ cvs2[v].data = appended_data(c, p[n], now)[k]
<1> DEFINE m == off[n - 1]
<1>1. /\ m \in Nat /\ off[n] \in Nat /\ n \in 1 .. Len(p)
      /\ Len(Defined(p[n].operation)) = off[n] - m
  BY CompilesOffsets
<1>2. Len(cvs2) = off[n] /\ Len(appends(p[n].operation)) = off[n] - m
  BY DEF Becomes, Represents
<1>3. CASE v <= m
  <2>1. v \in 1 .. m
    BY <1>1, <1>2, <1>3
  <2>2. CASE p[n].operation.name \notin Updates \/ v # p[n].inputs[1]
    BY <2>1, <2>2 DEF Becomes
  <2>3. CASE ~ (p[n].operation.name \notin Updates \/ v # p[n].inputs[1])
    BY <2>1, <2>3 DEF Becomes
  <2> QED
    BY <2>2, <2>3
<1>4. CASE ~ (v <= m)
  <2>1. v - m \in 1 .. off[n] - m /\ v = m + (v - m)
    BY <1>1, <1>2, <1>4
  <2>2. vs[m + (v - m)].var = Defined(p[n].operation)[v - m]
    BY <1>1, <2>1 DEF Compiles, Layout
  <2>3. /\ cvs2[m + (v - m)].rust = appends(p[n].operation)[v - m]
        /\ cvs2[m + (v - m)].data = appended_data(c, p[n], now)[v - m]
    BY <2>1 DEF Becomes
  <2> QED
    BY <1>1, <1>2, <2>1, <2>2, <2>3
<1> QED
  BY <1>3, <1>4

-----------------------------------------------------------------------------
\* What the data of the variables have to do with the program.

\* A list of this length.
Listed(l, k) == (\E S : l \in Seq(S)) /\ Len(l) = k

\* A list that is being built holds what was added to it.
ListsKept(vs, p, n, cvs) ==
  \A v \in 1 .. Len(cvs) :
    vs[v].var \in MutLists => Listed(cvs[v].data, Rank(AddsTo(p, v), n))

\* A transaction's selector counts what was taken from it.
TxsKept(p, n, cvs) ==
  \A v \in 1 .. Len(cvs) : cvs[v].rust = "Tx" =>
    /\ Apart(cvs[v].data.txos)
    /\ cvs[v].data.txos # << >> => cvs[v].data.output_selector = Rank(TakesFrom(p, v), n)

\* An element of a block's list is what the variable it came from was made of.
AddedTx(vs, cvs, e) ==
  /\ e.var \in 1 .. Len(cvs)
  /\ vs[e.var].var = "ConstTx"
  /\ cvs[e.var].data.body = e.body

BlockListsKept(vs, cvs) ==
  \A v \in 1 .. Len(cvs) : cvs[v].rust = "BlockTransactions" =>
    \E S : cvs[v].data \in Seq(S) /\ \A e \in S : AddedTx(vs, cvs, e)

\* A finished list is a copy of the one that was built.
CopiesKept(off, p, n, cvs) ==
  \A d \in 1 .. n : p[d].operation.name \in ListEnds =>
    Len(cvs[off[d - 1] + 1].data) = Rank(AddsTo(p, p[d].inputs[1]), d)

ConnectionsKept(off, p, n, cvs) ==
  \A d \in 1 .. n : p[d].operation.name = "LoadConnection" =>
    cvs[off[d - 1] + 1].data = p[d].operation.args[1]

\* What take d took: its turn is the number of takes before it.
Took(p, d, txos) == txos[1 + (Rank(TakesFrom(p, p[d].inputs[1]), d - 1) % Len(txos))].prev_out

TakesKept(off, p, n, cvs) ==
  \A d \in 1 .. n : p[d].operation.name \in Takes =>
    LET txos == cvs[p[d].inputs[1]].data.txos
    IN  txos # << >> => cvs[off[d - 1] + 1].data.prev_out = Took(p, d, txos)

DataKept(off, vs, p, n, cvs) ==
  /\ ListsKept(vs, p, n, cvs)
  /\ TxsKept(p, n, cvs)
  /\ BlockListsKept(vs, cvs)
  /\ CopiesKept(off, p, n, cvs)
  /\ ConnectionsKept(off, p, n, cvs)
  /\ TakesKept(off, p, n, cvs)

\* An instruction that updates updates a variable there was before it.
LEMMA FirstInput ==
  ASSUME NEW off, NEW vs, NEW p, Layout(off, vs, p), NEW d \in 1 .. Len(p),
         p[d].operation.name \in Updates
  PROVE  /\ p[d].inputs[1] \in 1 .. off[d - 1]
         /\ vs[p[d].inputs[1]].var = get_input_variables(p[d].operation)[1]
<1> DEFINE l == get_input_variables(p[d].operation)
<1>1. Len(l) \in Nat /\ Len(l) >= 1
  BY UpdateTable
<1>2. ReadsBefore(vs, off[d - 1], p[d])
  BY DEF Layout
<1> HIDE DEF l
<1>3. Len(p[d].inputs) = Len(l)
  BY <1>2 DEF ReadsBefore, num_inputs, l
<1>4. 1 \in 1 .. Len(p[d].inputs)
  BY <1>1, <1>3
<1> QED
  BY <1>2, <1>4 DEF ReadsBefore, l

\* The updated variable has the types the operation asks for.
LEMMA UpdatedTypes ==
  ASSUME NEW off, NEW vs, NEW p, NEW n, NEW c, Compiles(off, vs, p, n, c),
         p[n].operation.name \in Updates
  PROVE  /\ p[n].inputs[1] \in 1 .. off[n - 1]
         /\ vs[p[n].inputs[1]].var = get_input_variables(p[n].operation)[1]
         /\ c.variables[p[n].inputs[1]].rust = reads(p[n].operation)[1]
<1>1. Downcasts(c, p[n])
  BY CompilesOffsets, DowncastsSucceed DEF Compiles
<1>2. Len(reads(p[n].operation)) \in Nat /\ Len(reads(p[n].operation)) >= 1
  BY UpdateTable
<1>3. c.variables[p[n].inputs[1]].rust = reads(p[n].operation)[1]
  BY <1>1, <1>2 DEF Downcasts, has
<1> QED
  BY <1>3, CompilesOffsets, FirstInput DEF Compiles

\* Nothing has been added to or taken from what is only defined.
LEMMA NothingYet ==
  ASSUME NEW off, NEW vs, NEW p, NEW n, NEW c, Compiles(off, vs, p, n, c),
         NEW v \in Nat, off[n - 1] < v
  PROVE  Rank(AddsTo(p, v), n) = 0 /\ Rank(TakesFrom(p, v), n) = 0
<1>1. /\ n \in 1 .. Len(p) /\ n - 1 \in 0 .. Len(p) /\ n \in Nat /\ Len(p) \in Nat
      /\ off[n - 1] \in Nat
  BY CompilesOffsets DEF Compiles
<1>2. ASSUME NEW d \in 1 .. n, p[d].operation.name \in Updates PROVE p[d].inputs[1] # v
  <2>1. d \in 1 .. Len(p) /\ d - 1 \in 0 .. Len(p) /\ d - 1 <= n - 1
    BY <1>1
  <2>2. p[d].inputs[1] \in 1 .. off[d - 1]
    BY <1>2, <2>1, FirstInput DEF Compiles
  <2>3. off[d - 1] <= off[n - 1]
    BY <1>1, <2>1, LayoutMonotone DEF Compiles
  <2>4. off[d - 1] \in Nat
    BY <2>1, LayoutOffsets DEF Compiles
  <2> QED
    BY <1>1, <2>2, <2>3, <2>4
<1>3. \A d \in 1 .. n : d \notin AddsTo(p, v) /\ d \notin TakesFrom(p, v)
  BY <1>2 DEF AddsTo, TakesFrom, Updates
<1> QED
  BY <1>1, <1>3, RankNone

\* One more instruction may add to a variable, or take from it.
LEMMA CountsStep ==
  ASSUME NEW off, NEW vs, NEW p, NEW n, NEW c, Compiles(off, vs, p, n, c), NEW v
  PROVE  LET adds == p[n].operation.name \in Adds /\ p[n].inputs[1] = v
             takes == p[n].operation.name \in Takes /\ p[n].inputs[1] = v
         IN  /\ Rank(AddsTo(p, v), n) = Rank(AddsTo(p, v), n - 1) + IF adds THEN 1 ELSE 0
             /\ Rank(TakesFrom(p, v), n) = Rank(TakesFrom(p, v), n - 1) + IF takes THEN 1 ELSE 0
<1>1. n - 1 \in Nat /\ (n - 1) + 1 = n /\ n \in 1 .. Len(p)
  BY CompilesOffsets
<1>2. /\ Rank(AddsTo(p, v), n) = Rank(AddsTo(p, v), n - 1) + IF n \in AddsTo(p, v) THEN 1 ELSE 0
      /\ Rank(TakesFrom(p, v), n) =
           Rank(TakesFrom(p, v), n - 1) + IF n \in TakesFrom(p, v) THEN 1 ELSE 0
  <2>1. \A S : Rank(S, (n - 1) + 1) = Rank(S, n - 1) + IF (n - 1) + 1 \in S THEN 1 ELSE 0
    BY <1>1, RankStep
  <2> QED
    BY <1>1, <2>1
<1>3. /\ n \in AddsTo(p, v) <=> p[n].operation.name \in Adds /\ p[n].inputs[1] = v
      /\ n \in TakesFrom(p, v) <=> p[n].operation.name \in Takes /\ p[n].inputs[1] = v
  BY <1>1 DEF AddsTo, TakesFrom, Takes
<1> QED
  BY <1>2, <1>3

\* Updates change a transaction's selector at most, when one takes from it.
LEMMA TxStays ==
  ASSUME NEW off, NEW vs, NEW p, NEW n, NEW c, Compiles(off, vs, p, n, c), NEW now,
         NEW cvs2, Becomes(off, vs, p, n, c, now, cvs2),
         NEW v \in 1 .. off[n - 1], c.variables[v].rust = "Tx"
  PROVE  LET t == c.variables[v].data
             t2 == cvs2[v].data
             taken == p[n].operation.name \in Takes /\ p[n].inputs[1] = v
         IN  /\ t2.txos = t.txos /\ t2.body = t.body /\ cvs2[v].rust = "Tx"
             /\ t.output_selector \in Nat /\ \E S : t.txos \in Seq(S)
             /\ t.txos # << >> =>
                  t2.output_selector = t.output_selector + IF taken THEN 1 ELSE 0
<1> DEFINE t == c.variables[v].data
           t2 == cvs2[v].data
           op == p[n].operation
<1>1. GoodTx(c.variables, t)
  BY CompilesOffsets DEF Compiles, Represents, GoodValues, GoodValue
<1>2. /\ DOMAIN t = {"body", "txos", "output_selector"} /\ t.output_selector \in Nat
      /\ \E S : t.txos \in Seq(S)
  BY <1>1 DEF GoodTx, GoodTxos
<1>3. CASE op.name \notin Updates \/ v # p[n].inputs[1]
  <2>1. cvs2[v] = c.variables[v]
    BY <1>3 DEF Becomes
  <2>2. ~ (op.name \in Takes /\ p[n].inputs[1] = v)
    BY <1>3 DEF Updates, Takes
  <2> QED
    BY <1>2, <2>1, <2>2
<1>4. CASE op.name \in Updates /\ v = p[n].inputs[1]
  <2>1. op.name \in Takes
    BY <1>4, UpdatedTypes, UpdateTable
  <2>2. t2 = updated(c, p[n]) /\ cvs2[v].rust = "Tx"
    BY <1>4 DEF Becomes
  <2>3. get_input(c, p[n], 1) = t
    BY <1>4 DEF get_input
  <2>4. t2 = IF t.txos = << >> THEN t ELSE [t EXCEPT !.output_selector = @ + 1]
    BY <2>1, <2>2, <2>3, UpdatedData
  <2> HIDE DEF t, t2
  <2>5. /\ t2.txos = t.txos /\ t2.body = t.body
        /\ t.txos # << >> => t2.output_selector = t.output_selector + 1
    BY <1>2, <2>4
  <2> QED
    BY <1>2, <1>4, <2>1, <2>2, <2>5 DEF t, t2
<1> QED
  BY <1>3, <1>4

\* Lists that are being built.
LEMMA ListsStep ==
  ASSUME NEW off, NEW vs, NEW p, NEW n, NEW c, Compiles(off, vs, p, n, c), NEW now,
         NEW cvs2, Becomes(off, vs, p, n, c, now, cvs2),
         ListsKept(vs, p, n - 1, c.variables)
  PROVE  ListsKept(vs, p, n, cvs2)
<1> DEFINE op == p[n].operation
           cvs == c.variables
           m == off[n - 1]
<1> SUFFICES ASSUME NEW v \in 1 .. Len(cvs2), vs[v].var \in MutLists
             PROVE  Listed(cvs2[v].data, Rank(AddsTo(p, v), n))
  BY DEF ListsKept
<1>1. m \in Nat /\ off[n] \in Nat /\ Len(cvs) = m /\ op \in Operation /\ n - 1 \in Nat
      /\ Len(cvs2) = off[n]
  BY CompilesOffsets DEF Becomes, Represents
<1>2. ASSUME v \in 1 .. m PROVE Listed(cvs[v].data, Rank(AddsTo(p, v), n - 1))
  BY <1>1, <1>2 DEF ListsKept
<1>3. CASE /\ v \in 1 .. m /\ cvs2[v] = cvs[v]
           /\ op.name \notin Updates \/ v # p[n].inputs[1]
  <2>1. ~ (op.name \in Adds /\ p[n].inputs[1] = v)
    BY <1>3 DEF Updates
  <2>2. Rank(AddsTo(p, v), n) = Rank(AddsTo(p, v), n - 1) + 0
    BY <2>1, CountsStep
  <2>3. Rank(AddsTo(p, v), n - 1) \in Nat
    BY <1>1, RankStep
  <2> QED
    BY <1>2, <1>3, <2>2, <2>3
<1>4. CASE /\ v \in 1 .. m /\ v = p[n].inputs[1] /\ op.name \in Updates
           /\ cvs2[v].data = updated(c, p[n])
  <2>1. op.name \in Adds \ {"AddTxToFilter", "AddTxoToFilter"}
    BY <1>4, UpdatedTypes, UpdateTable
  <2>2. cvs2[v].data = Append(get_input(c, p[n], 1), added(c, p[n]))
    BY <1>4, <2>1, UpdatedData
  <2>3. get_input(c, p[n], 1) = cvs[v].data
    BY <1>4 DEF get_input
  <2>4. Rank(AddsTo(p, v), n) = Rank(AddsTo(p, v), n - 1) + 1
    BY <1>4, <2>1, CountsStep
  <2>5. PICK S : cvs[v].data \in Seq(S)
    BY <1>2, <1>4 DEF Listed
  <2> DEFINE e == added(c, p[n])
             U == S \cup {e}
  <2>6. cvs[v].data \in Seq(U) /\ e \in U
    BY <2>5
  <2> HIDE DEF e, U
  <2>7. /\ Append(cvs[v].data, e) \in Seq(U)
        /\ Len(Append(cvs[v].data, e)) = Len(cvs[v].data) + 1
    BY <2>6
  <2>8. Len(cvs[v].data) = Rank(AddsTo(p, v), n - 1)
    BY <1>2, <1>4 DEF Listed
  <2> QED
    BY <2>2, <2>3, <2>4, <2>7, <2>8 DEF Listed, e
<1>5. ASSUME NEW k \in 1 .. off[n] - m, v = m + k, vs[v].var = Defined(op)[k],
             k \in 1 .. Len(Defined(op)), cvs2[v].data = appended_data(c, p[n], now)[k]
      PROVE  Listed(cvs2[v].data, Rank(AddsTo(p, v), n))
  <2>1. k = 1 /\ op.name \in ListBegins
    <3>1. Defined(op)[k] \in MutLists /\ Defined(op)[k] \in Tracked
      BY <1>5 DEF Tracked
    <3> QED
      BY <1>1, <1>5, <3>1, TrackedOnlyBy
  <2>2. cvs2[v].data = << >>
    BY <1>5, <2>1, AppendedTracked
  <2>3. Rank(AddsTo(p, v), n) = 0
    <3>1. v \in Nat /\ m < v
      BY <1>1, <1>5
    <3> QED
      BY <3>1, NothingYet
  <2>4. << >> \in Seq({0}) /\ Len(<< >>) = 0
    OBVIOUS
  <2> QED
    BY <2>2, <2>3, <2>4 DEF Listed
<1> QED
  BY <1>3, <1>4, <1>5, OldOrNew

\* Transactions.
LEMMA TxsStep ==
  ASSUME NEW off, NEW vs, NEW p, NEW n, NEW c, Compiles(off, vs, p, n, c), NEW now,
         NEW cvs2, Becomes(off, vs, p, n, c, now, cvs2),
         TxsKept(p, n - 1, c.variables)
  PROVE  TxsKept(p, n, cvs2)
<1> DEFINE op == p[n].operation
           cvs == c.variables
           m == off[n - 1]
<1> SUFFICES ASSUME NEW v \in 1 .. Len(cvs2), cvs2[v].rust = "Tx"
             PROVE  /\ Apart(cvs2[v].data.txos)
                    /\ cvs2[v].data.txos # << >> =>
                         cvs2[v].data.output_selector = Rank(TakesFrom(p, v), n)
  BY DEF TxsKept
<1>1. m \in Nat /\ off[n] \in Nat /\ Len(cvs) = m /\ op \in Operation /\ n - 1 \in Nat
  BY CompilesOffsets
<1>2. CASE v \in 1 .. m /\ cvs2[v].rust = cvs[v].rust
  <2>1. /\ Apart(cvs[v].data.txos)
        /\ cvs[v].data.txos # << >> =>
             cvs[v].data.output_selector = Rank(TakesFrom(p, v), n - 1)
    BY <1>1, <1>2 DEF TxsKept
  <2> DEFINE one == IF op.name \in Takes /\ p[n].inputs[1] = v THEN 1 ELSE 0
  <2>2. /\ cvs2[v].data.txos = cvs[v].data.txos
        /\ cvs[v].data.txos # << >> =>
             cvs2[v].data.output_selector = cvs[v].data.output_selector + one
    BY <1>2, TxStays
  <2>3. Rank(TakesFrom(p, v), n) = Rank(TakesFrom(p, v), n - 1) + one
    BY CountsStep
  <2> HIDE DEF one
  <2> QED
    BY <2>1, <2>2, <2>3
<1>3. ASSUME NEW k \in 1 .. off[n] - m, v = m + k, k \in 1 .. Len(appends(op)),
             cvs2[v].rust = appends(op)[k], cvs2[v].data = appended_data(c, p[n], now)[k]
      PROVE  /\ Apart(cvs2[v].data.txos)
             /\ cvs2[v].data.txos # << >> =>
                  cvs2[v].data.output_selector = Rank(TakesFrom(p, v), n)
  <2>1. GoodValues(cvs) /\ Downcasts(c, p[n])
    BY CompilesOffsets, DowncastsSucceed DEF Compiles, Represents
  <2>2. FreshTx(cvs2[v].data)
    BY <1>1, <1>3, <2>1, AppendedTxIsFresh
  <2>3. Rank(TakesFrom(p, v), n) = 0
    <3>1. v \in Nat /\ m < v
      BY <1>1, <1>3
    <3> QED
      BY <3>1, NothingYet
  <2> QED
    BY <2>2, <2>3 DEF FreshTx
<1> QED
  BY <1>2, <1>3, OldOrNew

\* The elements of a list of transactions keep what they are made of.
LEMMA AddedTxStays ==
  ASSUME NEW off, NEW vs, NEW p, NEW n, NEW c, Compiles(off, vs, p, n, c), NEW now,
         NEW cvs2, Becomes(off, vs, p, n, c, now, cvs2),
         NEW e, AddedTx(vs, c.variables, e)
  PROVE  AddedTx(vs, cvs2, e)
<1>1. /\ off[n - 1] \in Nat /\ off[n] \in Nat /\ off[n - 1] <= off[n]
      /\ Len(c.variables) = off[n - 1]
  BY CompilesOffsets
<1>2. Len(cvs2) = off[n]
  BY DEF Becomes, Represents
<1>3. /\ e.var \in 1 .. off[n - 1] /\ vs[e.var].var = "ConstTx"
      /\ c.variables[e.var].data.body = e.body
  BY <1>1 DEF AddedTx
<1>4. representation("ConstTx") = "Tx"
  BY DEF representation
<1>5. c.variables[e.var].rust = "Tx"
  BY <1>1, <1>3, <1>4 DEF Compiles, Represents
<1>6. cvs2[e.var].data.body = c.variables[e.var].data.body
  BY <1>3, <1>5, TxStays
<1>7. e.var \in 1 .. Len(cvs2)
  BY <1>1, <1>2, <1>3
<1> QED
  BY <1>3, <1>6, <1>7 DEF AddedTx

\* Lists of a block's transactions.
LEMMA BlockListsStep ==
  ASSUME NEW off, NEW vs, NEW p, NEW n, NEW c, Compiles(off, vs, p, n, c), NEW now,
         NEW cvs2, Becomes(off, vs, p, n, c, now, cvs2),
         BlockListsKept(vs, c.variables)
  PROVE  BlockListsKept(vs, cvs2)
<1> DEFINE op == p[n].operation
           cvs == c.variables
           m == off[n - 1]
           Good(l) == \E S : l \in Seq(S) /\ \A e \in S : AddedTx(vs, cvs2, e)
<1> SUFFICES ASSUME NEW v \in 1 .. Len(cvs2), cvs2[v].rust = "BlockTransactions"
             PROVE  Good(cvs2[v].data)
  BY DEF BlockListsKept
<1>1. m \in Nat /\ off[n] \in Nat /\ Len(cvs) = m /\ op \in Operation
  BY CompilesOffsets
<1>2. ASSUME NEW u \in 1 .. m, cvs[u].rust = "BlockTransactions" PROVE Good(cvs[u].data)
  <2>1. PICK S : cvs[u].data \in Seq(S) /\ \A e \in S : AddedTx(vs, cvs, e)
    BY <1>1, <1>2 DEF BlockListsKept
  <2>2. \A e \in S : AddedTx(vs, cvs2, e)
    BY <2>1, AddedTxStays
  <2> QED
    BY <2>1, <2>2
<1>d. Downcasts(c, p[n])
  BY CompilesOffsets, DowncastsSucceed DEF Compiles
<1>3. CASE v \in 1 .. m /\ cvs2[v] = cvs[v]
  BY <1>2, <1>3
<1>4. CASE /\ v \in 1 .. m /\ v = p[n].inputs[1] /\ op.name \in Updates
           /\ cvs2[v].rust = cvs[v].rust /\ cvs2[v].data = updated(c, p[n])
  <2>1. op.name = "AddTx"
    BY <1>4, UpdatedTypes, UpdateTable
  <2>2. /\ Len(get_input_variables(op)) = 2 /\ get_input_variables(op)[2] = "ConstTx"
        /\ Len(reads(op)) = 2 /\ reads(op)[2] = "Tx"
    BY <1>4, <2>1, UpdateTable
  <2>3. cvs2[v].data = Append(get_input(c, p[n], 1), added(c, p[n]))
    <3>1. op.name \in Adds \ {"AddTxToFilter", "AddTxoToFilter"}
      BY <2>1 DEF Adds
    <3> QED
      BY <1>4, <3>1, UpdatedData
  <2>4. get_input(c, p[n], 1) = cvs[v].data
    BY <1>4 DEF get_input
  <2>5. Good(cvs[v].data)
    BY <1>2, <1>4
  <2> DEFINE e == added(c, p[n])
             w == p[n].inputs[2]
  <2>6. e = [body |-> content(c, p[n], 2), var |-> w]
    BY <2>1, UpdatedData
  <2>7. w \in 1 .. m /\ vs[w].var = "ConstTx"
    <3>1. ReadsBefore(vs, m, p[n])
      BY CompilesOffsets
    <3>2. 2 \in 1 .. Len(p[n].inputs)
      BY <2>2, <3>1 DEF ReadsBefore, num_inputs
    <3> QED
      BY <2>2, <3>1, <3>2 DEF ReadsBefore
  <2>8. cvs[w].rust = "Tx"
    BY <1>d, <2>2 DEF Downcasts, has
  <2>9. content(c, p[n], 2) = cvs[w].data.body
    BY <2>8 DEF content, get_input
  <2>10. AddedTx(vs, cvs, e)
    <3> HIDE DEF w
    <3>1. e.var = w /\ e.body = cvs[w].data.body
      BY <2>6, <2>9
    <3> QED
      BY <1>1, <2>7, <3>1 DEF AddedTx
  <2>11. AddedTx(vs, cvs2, e)
    BY <2>10, AddedTxStays
  <2>12. PICK S : cvs[v].data \in Seq(S) /\ \A x \in S : AddedTx(vs, cvs2, x)
    BY <2>5
  <2> HIDE DEF e
  <2> DEFINE U == S \cup {e}
  <2>13. cvs[v].data \in Seq(U) /\ e \in U /\ \A x \in U : AddedTx(vs, cvs2, x)
    BY <2>11, <2>12
  <2> HIDE DEF U
  <2>14. Append(cvs[v].data, e) \in Seq(U)
    BY <2>13
  <2> QED
    BY <2>3, <2>4, <2>13, <2>14 DEF e
<1>5. ASSUME NEW k \in 1 .. off[n] - m, k \in 1 .. Len(appends(op)),
             cvs2[v].rust = appends(op)[k], cvs2[v].data = appended_data(c, p[n], now)[k]
      PROVE  Good(cvs2[v].data)
  <2>1. \/ cvs2[v].data = << >>
        \/ cvs2[v].data = get_input(c, p[n], 1) /\ reads(op) = <<"BlockTransactions">>
    BY <1>1, <1>5, AppendedBlockLists
  <2>2. CASE cvs2[v].data = << >>
    <3> DEFINE E == {}
    <3>1. << >> \in Seq(E) /\ \A e \in E : AddedTx(vs, cvs2, e)
      OBVIOUS
    <3> HIDE DEF E
    <3> QED
      BY <2>2, <3>1
  <2>3. CASE cvs2[v].data = get_input(c, p[n], 1) /\ reads(op) = <<"BlockTransactions">>
    <3>1. Len(reads(op)) = 1 /\ reads(op)[1] = "BlockTransactions"
      BY <2>3
    <3>2. p[n].inputs[1] \in 1 .. Len(cvs) /\ cvs[p[n].inputs[1]].rust = "BlockTransactions"
      BY <1>d, <3>1 DEF Downcasts, has
    <3>3. cvs2[v].data = cvs[p[n].inputs[1]].data
      BY <2>3 DEF get_input
    <3> QED
      BY <1>1, <1>2, <3>2, <3>3
  <2> QED
    BY <2>1, <2>2, <2>3
<1> QED
  BY <1>3, <1>4, <1>5, OldOrNew

\* Where an instruction's variables are.
LEMMA DefinedWhere ==
  ASSUME NEW off, NEW vs, NEW p, Layout(off, vs, p), Len(vs) \in Nat, Len(p) \in Nat,
         \A k \in 1 .. Len(p) : p[k].operation \in Operation,
         NEW n \in 0 .. Len(p), NEW d \in 1 .. n, NEW j \in 1 .. Len(Defined(p[d].operation))
  PROVE  /\ off[d - 1] + j \in 1 .. off[n] /\ off[d - 1] + j \in off[d - 1] + 1 .. off[d]
         /\ vs[off[d - 1] + j].var = Defined(p[d].operation)[j]
<1>1. d \in 1 .. Len(p) /\ d \in 0 .. Len(p) /\ d <= n
  OBVIOUS
<1>2. off[d - 1] \in Nat /\ off[d] \in Nat /\ off[n] \in Nat
  BY <1>1, LayoutOffsets
<1>3. off[d] <= off[n]
  BY <1>1, LayoutMonotone
<1>4. Len(Defined(p[d].operation)) \in Nat
  BY <1>1, AppendsDefined
<1>5. /\ off[d] = off[d - 1] + Len(Defined(p[d].operation))
      /\ vs[off[d - 1] + j].var = Defined(p[d].operation)[j]
  BY <1>1 DEF Layout
<1> DEFINE x == off[d - 1]
           y == off[d]
           z == off[n]
           l == Len(Defined(p[d].operation))
<1>6. x \in Nat /\ y \in Nat /\ z \in Nat /\ l \in Nat /\ y <= z /\ y = x + l /\ j \in 1 .. l
  BY <1>2, <1>3, <1>4, <1>5
<1> HIDE DEF x, y, z, l
<1>7. x + j \in 1 .. z /\ x + j \in x + 1 .. y
  BY <1>6
<1> QED
  BY <1>5, <1>7 DEF x, y, z

\* Where its first one is.
LEMMA FirstWhere ==
  ASSUME NEW off, NEW vs, NEW p, Layout(off, vs, p), Len(vs) \in Nat, Len(p) \in Nat,
         \A k \in 1 .. Len(p) : p[k].operation \in Operation,
         NEW n \in 0 .. Len(p), NEW d \in 1 .. n, Len(Defined(p[d].operation)) = 1
  PROVE  /\ off[d - 1] + 1 \in 1 .. off[n]
         /\ vs[off[d - 1] + 1].var = Defined(p[d].operation)[1]
<1>1. 1 \in 1 .. Len(Defined(p[d].operation))
  OBVIOUS
<1>2. off[d - 1] + 1 \in 1 .. off[n]
  BY <1>1, DefinedWhere
<1>3. vs[off[d - 1] + 1].var = Defined(p[d].operation)[1]
  BY <1>1, DefinedWhere
<1> QED
  BY <1>2, <1>3

\* A connection's data.
LEMMA AppendedConnection ==
  ASSUME NEW c, NEW i, NEW now, i.operation.name = "LoadConnection"
  PROVE  appended_data(c, i, now)[1] = i.operation.args[1]
BY Zenon, AppendedTracked

\* What is defined at once is never updated.
LEMMA FixedStays ==
  ASSUME NEW off, NEW vs, NEW p, NEW n, NEW c, Compiles(off, vs, p, n, c), NEW now,
         NEW cvs2, Becomes(off, vs, p, n, c, now, cvs2),
         NEW v \in 1 .. off[n - 1],
         vs[v].var \in ConstLists \cup {"Connection", "Txo", "Header", "Block"}
  PROVE  cvs2[v] = c.variables[v]
<1>1. p[n].operation.name \notin Updates \/ v # p[n].inputs[1]
  BY UpdatedTypes, UpdateTable
<1> QED
  BY <1>1 DEF Becomes

\* Lists that are finished.
LEMMA CopiesStep ==
  ASSUME NEW off, NEW vs, NEW p, NEW n, NEW c, Compiles(off, vs, p, n, c), NEW now,
         NEW cvs2, Becomes(off, vs, p, n, c, now, cvs2),
         ListsKept(vs, p, n - 1, c.variables), CopiesKept(off, p, n - 1, c.variables)
  PROVE  CopiesKept(off, p, n, cvs2)
<1> DEFINE cvs == c.variables
<1> SUFFICES ASSUME NEW d \in 1 .. n, p[d].operation.name \in ListEnds
             PROVE  Len(cvs2[off[d - 1] + 1].data) = Rank(AddsTo(p, p[d].inputs[1]), d)
  BY DEF CopiesKept
<1> DEFINE op == p[d].operation
<1>1. /\ n \in Nat /\ n - 1 \in Nat /\ n \in 1 .. Len(p) /\ n - 1 \in 0 .. Len(p)
      /\ off[n - 1] \in Nat /\ off[n] \in Nat /\ Len(cvs) = off[n - 1]
      /\ Len(Defined(p[n].operation)) = off[n] - off[n - 1]
  BY CompilesOffsets
<1>2. /\ Len(Defined(op)) = 1 /\ Defined(op)[1] \in ConstLists
      /\ Len(get_input_variables(op)) = 1 /\ get_input_variables(op)[1] \in MutLists
  BY TrackedTable
<1>c. /\ Layout(off, vs, p) /\ Len(vs) \in Nat /\ Len(p) \in Nat
      /\ \A k \in 1 .. Len(p) : p[k].operation \in Operation
  BY DEF Compiles
<1>3. CASE d # n
  <2>1. d \in 1 .. n - 1
    BY <1>1, <1>3
  <2>2. Len(Defined(p[d].operation)) = 1
    BY <1>2
  <2>3. /\ off[d - 1] + 1 \in 1 .. off[n - 1]
        /\ vs[off[d - 1] + 1].var = Defined(op)[1]
    <3> DEFINE n1 == n - 1
    <3>1. n1 \in 0 .. Len(p) /\ d \in 1 .. n1
      BY <1>1, <2>1
    <3> HIDE DEF n1
    <3>2. off[d - 1] + 1 \in 1 .. off[n1]
      BY <1>c, <2>2, <3>1, FirstWhere
    <3>3. vs[off[d - 1] + 1].var = Defined(op)[1]
      BY <1>c, <2>2, <3>1, FirstWhere
    <3> QED
      BY <3>2, <3>3 DEF n1
  <2>4. cvs2[off[d - 1] + 1] = cvs[off[d - 1] + 1]
    BY <1>2, <2>3, FixedStays
  <2> QED
    BY <2>1, <2>4 DEF CopiesKept
<1>4. CASE d = n
  <2> DEFINE v == p[n].inputs[1]
  <2>1. 1 \in 1 .. off[n] - off[n - 1]
    BY <1>1, <1>2, <1>4
  <2>2. cvs2[off[n - 1] + 1].data = appended_data(c, p[n], now)[1]
    BY <2>1 DEF Becomes
  <2>3. appended_data(c, p[n], now)[1] = cvs[v].data
    <3>1. p[n].operation.name \in ListEnds
      BY <1>4
    <3>2. appended_data(c, p[n], now)[1] = get_input(c, p[n], 1)
      BY <3>1, AppendedTracked
    <3> QED
      BY <3>2 DEF get_input
  <2>4. v \in 1 .. off[n - 1] /\ vs[v].var \in MutLists
    <3>1. ReadsBefore(vs, off[n - 1], p[n])
      BY CompilesOffsets
    <3>2. 1 \in 1 .. Len(p[n].inputs)
      BY <1>2, <1>4, <3>1 DEF ReadsBefore, num_inputs
    <3> QED
      BY <1>2, <1>4, <3>1, <3>2 DEF ReadsBefore
  <2>5. Len(cvs[v].data) = Rank(AddsTo(p, v), n - 1)
    BY <1>1, <2>4 DEF ListsKept, Listed
  <2>6. Rank(AddsTo(p, v), n) = Rank(AddsTo(p, v), n - 1) + 0
    <3>1. op.name \notin Adds
      BY DEF ListEnds, Adds, TxInvs, BlockInvs
    <3> QED
      BY <1>4, <3>1, CountsStep
  <2>7. Rank(AddsTo(p, v), n - 1) \in Nat
    BY <1>1, RankStep
  <2> QED
    BY <1>4, <2>2, <2>3, <2>5, <2>6, <2>7
<1> QED
  BY <1>3, <1>4

\* Connections.
LEMMA ConnectionsStep ==
  ASSUME NEW off, NEW vs, NEW p, NEW n, NEW c, Compiles(off, vs, p, n, c), NEW now,
         NEW cvs2, Becomes(off, vs, p, n, c, now, cvs2),
         ConnectionsKept(off, p, n - 1, c.variables)
  PROVE  ConnectionsKept(off, p, n, cvs2)
<1> DEFINE cvs == c.variables
<1> SUFFICES ASSUME NEW d \in 1 .. n, p[d].operation.name = "LoadConnection"
             PROVE  cvs2[off[d - 1] + 1].data = p[d].operation.args[1]
  BY DEF ConnectionsKept
<1> DEFINE op == p[d].operation
<1>1. /\ n \in Nat /\ n - 1 \in Nat /\ n \in 1 .. Len(p) /\ n - 1 \in 0 .. Len(p)
      /\ off[n - 1] \in Nat /\ off[n] \in Nat /\ Len(cvs) = off[n - 1]
      /\ Len(Defined(p[n].operation)) = off[n] - off[n - 1]
  BY CompilesOffsets
<1>2. Len(Defined(op)) = 1 /\ Defined(op)[1] = "Connection"
  BY TrackedTable
<1>c. /\ Layout(off, vs, p) /\ Len(vs) \in Nat /\ Len(p) \in Nat
      /\ \A k \in 1 .. Len(p) : p[k].operation \in Operation
  BY DEF Compiles
<1>3. CASE d # n
  <2>1. d \in 1 .. n - 1
    BY <1>1, <1>3
  <2>2. Len(Defined(p[d].operation)) = 1
    BY <1>2
  <2>3. /\ off[d - 1] + 1 \in 1 .. off[n - 1]
        /\ vs[off[d - 1] + 1].var = Defined(op)[1]
    <3> DEFINE n1 == n - 1
    <3>1. n1 \in 0 .. Len(p) /\ d \in 1 .. n1
      BY <1>1, <2>1
    <3> HIDE DEF n1
    <3>2. off[d - 1] + 1 \in 1 .. off[n1]
      BY <1>c, <2>2, <3>1, FirstWhere
    <3>3. vs[off[d - 1] + 1].var = Defined(op)[1]
      BY <1>c, <2>2, <3>1, FirstWhere
    <3> QED
      BY <3>2, <3>3 DEF n1
  <2>4. cvs2[off[d - 1] + 1] = cvs[off[d - 1] + 1]
    BY <1>2, <2>3, FixedStays
  <2> QED
    BY <2>1, <2>4 DEF ConnectionsKept
<1>4. CASE d = n
  <2>1. 1 \in 1 .. off[n] - off[n - 1]
    BY <1>1, <1>2, <1>4
  <2>2. cvs2[off[n - 1] + 1].data = appended_data(c, p[n], now)[1]
    BY <2>1 DEF Becomes
  <2>3. p[n].operation.name = "LoadConnection"
    BY <1>4
  <2>4. appended_data(c, p[n], now)[1] = p[n].operation.args[1]
    BY <2>3, AppendedConnection
  <2> QED
    BY <1>4, <2>2, <2>4
<1> QED
  BY <1>3, <1>4

\* What a take asks for.
LEMMA TakeTable ==
  ASSUME NEW op, op.name \in Takes
  PROVE  get_input_variables(op)[1] \in {"ConstTx", "ConstCoinbaseTx"}
<1>1. \E t \in {"ConstTx", "ConstCoinbaseTx"} : get_input_variables(op) = <<t>>
  BY DEF get_input_variables, TxInvs, BlockInvs, Takes
<1> QED
  BY <1>1

\* Takes.
LEMMA TakesStep ==
  ASSUME NEW off, NEW vs, NEW p, NEW n, NEW c, Compiles(off, vs, p, n, c), NEW now,
         NEW cvs2, Becomes(off, vs, p, n, c, now, cvs2),
         TxsKept(p, n - 1, c.variables), TakesKept(off, p, n - 1, c.variables)
  PROVE  TakesKept(off, p, n, cvs2)
<1> DEFINE cvs == c.variables
<1> SUFFICES ASSUME NEW d \in 1 .. n, p[d].operation.name \in Takes,
                    cvs2[p[d].inputs[1]].data.txos # << >>
             PROVE  cvs2[off[d - 1] + 1].data.prev_out =
                      Took(p, d, cvs2[p[d].inputs[1]].data.txos)
  BY DEF TakesKept
<1> DEFINE op == p[d].operation
           v == p[d].inputs[1]
           t == cvs[v].data
<1>1. /\ n \in Nat /\ n - 1 \in Nat /\ n \in 1 .. Len(p) /\ n - 1 \in 0 .. Len(p)
      /\ off[n - 1] \in Nat /\ off[n] \in Nat /\ Len(cvs) = off[n - 1]
      /\ Len(Defined(p[n].operation)) = off[n] - off[n - 1]
  BY CompilesOffsets
<1>2. Len(Defined(op)) = 1 /\ Defined(op)[1] = "Txo"
  BY TrackedTable
<1>3. v \in 1 .. off[n - 1] /\ cvs[v].rust = "Tx"
  <2>1. d \in 1 .. Len(p) /\ d - 1 \in 0 .. Len(p) /\ d - 1 <= n - 1
    BY <1>1
  <2>2. v \in 1 .. off[d - 1] /\ vs[v].var = get_input_variables(op)[1]
    <3>1. op.name \in Updates
      BY DEF Takes, Updates
    <3> QED
      BY <2>1, <3>1, FirstInput DEF Compiles
  <2>3. off[d - 1] <= off[n - 1] /\ off[d - 1] \in Nat
    <3>1. off[d - 1] <= off[n - 1]
      BY <1>1, <2>1, LayoutMonotone DEF Compiles
    <3>2. off[d - 1] \in Nat
      BY <2>1, LayoutOffsets DEF Compiles
    <3> QED
      BY <3>1, <3>2
  <2>4. v \in 1 .. off[n - 1]
    BY <1>1, <2>2, <2>3
  <2>5. vs[v].var \in {"ConstTx", "ConstCoinbaseTx"}
    BY <2>2, TakeTable
  <2>6. representation(vs[v].var) = "Tx"
    BY <2>5 DEF representation
  <2>7. v \in 1 .. Len(cvs)
    BY <1>1, <2>4
  <2> QED
    BY <2>4, <2>6, <2>7 DEF Compiles, Represents
<1>4. cvs2[v].data.txos = t.txos
  BY <1>3, TxStays
<1>c. /\ Layout(off, vs, p) /\ Len(vs) \in Nat /\ Len(p) \in Nat
      /\ \A k \in 1 .. Len(p) : p[k].operation \in Operation
  BY DEF Compiles
<1>5. CASE d # n
  <2>1. d \in 1 .. n - 1
    BY <1>1, <1>5
  <2>2. Len(Defined(p[d].operation)) = 1
    BY <1>2
  <2>3. /\ off[d - 1] + 1 \in 1 .. off[n - 1]
        /\ vs[off[d - 1] + 1].var = Defined(op)[1]
    <3> DEFINE n1 == n - 1
    <3>1. n1 \in 0 .. Len(p) /\ d \in 1 .. n1
      BY <1>1, <2>1
    <3> HIDE DEF n1
    <3>2. off[d - 1] + 1 \in 1 .. off[n1]
      BY <1>c, <2>2, <3>1, FirstWhere
    <3>3. vs[off[d - 1] + 1].var = Defined(op)[1]
      BY <1>c, <2>2, <3>1, FirstWhere
    <3> QED
      BY <3>2, <3>3 DEF n1
  <2>4. cvs2[off[d - 1] + 1] = cvs[off[d - 1] + 1]
    BY <1>2, <2>3, FixedStays
  <2>5. cvs[off[d - 1] + 1].data.prev_out = Took(p, d, t.txos)
    BY <1>4, <2>1 DEF TakesKept
  <2> QED
    BY <1>4, <2>4, <2>5
<1>6. CASE d = n
  <2>1. 1 \in 1 .. off[n] - off[n - 1]
    BY <1>1, <1>2, <1>6
  <2>2. cvs2[off[n - 1] + 1].data = appended_data(c, p[n], now)[1]
    BY <2>1 DEF Becomes
  <2>3. appended_data(c, p[n], now)[1] = take_txo(t)
    <3>1. p[n].operation.name \in Takes
      BY <1>6
    <3>2. appended_data(c, p[n], now)[1] = take_txo(get_input(c, p[n], 1))
      BY <3>1, AppendedTracked
    <3>3. get_input(c, p[n], 1) = t
      BY <1>6 DEF get_input
    <3> QED
      BY <3>2, <3>3
  <2>4. t.txos # << >>
    BY <1>4
  <2>5. take_txo(t) = t.txos[1 + (t.output_selector % Len(t.txos))]
    BY <2>4 DEF take_txo
  <2>6. t.output_selector = Rank(TakesFrom(p, v), n - 1)
    BY <1>1, <1>3, <2>4 DEF TxsKept
  <2> QED
    BY <1>4, <1>6, <2>2, <2>3, <2>5, <2>6 DEF Took
<1> QED
  BY <1>5, <1>6

\* All of it.
LEMMA DataStep ==
  ASSUME NEW off, NEW vs, NEW p, NEW n, NEW c, Compiles(off, vs, p, n, c), NEW now,
         NEW cvs2, Becomes(off, vs, p, n, c, now, cvs2),
         DataKept(off, vs, p, n - 1, c.variables)
  PROVE  DataKept(off, vs, p, n, cvs2)
<1> USE DEF DataKept
<1>1. ListsKept(vs, p, n, cvs2)
  BY ListsStep
<1>2. TxsKept(p, n, cvs2)
  BY TxsStep
<1>3. BlockListsKept(vs, cvs2)
  BY BlockListsStep
<1>4. CopiesKept(off, p, n, cvs2)
  BY CopiesStep
<1>5. ConnectionsKept(off, p, n, cvs2)
  BY ConnectionsStep
<1>6. TakesKept(off, p, n, cvs2)
  BY TakesStep
<1> QED
  BY <1>1, <1>2, <1>3, <1>4, <1>5, <1>6

-----------------------------------------------------------------------------
\* The metadata.

\* The first load of a connection has its entry.
ConnectionMapKept(off, p, n, map) ==
  /\ \A d \in 1 .. n :
       p[d].operation.name = "LoadConnection" => p[d].operation.args[1] \in DOMAIN map
  /\ \A id \in DOMAIN map :
       \E d \in 1 .. n : /\ d \in LoadsOf(p, id) /\ map[id] = off[d - 1] + 1
                         /\ \A k \in 1 .. d - 1 : k \notin LoadsOf(p, id)

\* The variables of a block's entry hold what the entry says.
BlockKept(vs, cvs, block, e) ==
  /\ e.header_var \in 1 .. Len(cvs) /\ e.block_var \in 1 .. Len(cvs)
  /\ vs[e.header_var].var = "Header"
  /\ vs[e.block_var].var = "Block"
  /\ cvs[e.block_var].data = block
  /\ cvs[e.header_var].data = [header_of |-> block]
  /\ \A k \in DOMAIN e.tx_vars :
       AddedTx(vs, cvs, [var |-> e.tx_vars[k], body |-> block.txs[k]])

BlockMapKept(vs, cvs, map) == \A block \in DOMAIN map : BlockKept(vs, cvs, block, map[block])

\* The connections.
LEMMA ConnectionMapStep ==
  ASSUME NEW off, NEW vs, NEW p, NEW n, NEW c, Compiles(off, vs, p, n, c),
         ConnectionMapKept(off, p, n - 1, c.connection_map)
  PROVE  ConnectionMapKept(off, p, n, update_connection_map(c, p[n]))
<1> DEFINE map == c.connection_map
           map2 == update_connection_map(c, p[n])
           op == p[n].operation
           Entry(l, m, id) == \E d \in 1 .. l :
                                /\ d \in LoadsOf(p, id) /\ m[id] = off[d - 1] + 1
                                /\ \A k \in 1 .. d - 1 : k \notin LoadsOf(p, id)
<1>1. /\ n \in Nat /\ n >= 1 /\ n - 1 \in Nat /\ n \in 1 .. Len(p)
      /\ Len(c.variables) = off[n - 1]
  BY CompilesOffsets
<1>2. ASSUME NEW id \in DOMAIN map PROVE Entry(n, map, id)
  <2>1. PICK d \in 1 .. n - 1 : /\ d \in LoadsOf(p, id) /\ map[id] = off[d - 1] + 1
                                /\ \A k \in 1 .. d - 1 : k \notin LoadsOf(p, id)
    BY DEF ConnectionMapKept
  <2>2. d \in 1 .. n
    BY <1>1
  <2> QED
    BY <2>1, <2>2
<1>3. \A d \in 1 .. n - 1 :
        p[d].operation.name = "LoadConnection" => p[d].operation.args[1] \in DOMAIN map
  BY DEF ConnectionMapKept
<1>4. \A d \in 1 .. n : d # n => d \in 1 .. n - 1
  BY <1>1
<1>5. CASE op.name # "LoadConnection"
  <2>1. map2 = map
    BY <1>5 DEF update_connection_map
  <2>2. \A d \in 1 .. n :
          p[d].operation.name = "LoadConnection" => p[d].operation.args[1] \in DOMAIN map
    BY <1>3, <1>4, <1>5
  <2> HIDE DEF map2
  <2>3. \A id \in DOMAIN map2 : Entry(n, map2, id)
    BY <1>2, <2>1
  <2> QED
    BY <2>1, <2>2, <2>3 DEF ConnectionMapKept, map2
<1>6. CASE op.name = "LoadConnection"
  <2> DEFINE key == op.args[1]
  <2>1. map2 = or_insert(map, key, off[n - 1] + 1)
    BY <1>1, <1>6 DEF update_connection_map
  <2>2. /\ DOMAIN map2 = DOMAIN map \cup {key}
        /\ \A k \in DOMAIN map : map2[k] = map[k]
        /\ key \notin DOMAIN map => map2[key] = off[n - 1] + 1
    <3> DEFINE x == off[n - 1] + 1
    <3> HIDE DEF map, map2, key, x
    <3>1. map2 = or_insert(map, key, x)
      BY <2>1 DEF map, key, x
    <3>2. /\ DOMAIN map2 = DOMAIN map \cup {key}
          /\ \A k \in DOMAIN map : map2[k] = map[k]
          /\ key \notin DOMAIN map => map2[key] = x
      BY <3>1 DEF or_insert
    <3> QED
      BY <3>2 DEF map, key, x
  <2> HIDE DEF map2
  <2>3. \A d \in 1 .. n :
          p[d].operation.name = "LoadConnection" => p[d].operation.args[1] \in DOMAIN map2
    BY <1>3, <1>4, <2>2
  <2>4. ASSUME NEW id \in DOMAIN map2 PROVE Entry(n, map2, id)
    <3>1. CASE id \in DOMAIN map
      BY <1>2, <2>2, <3>1
    <3>2. CASE id \notin DOMAIN map
      <4>1. id = key /\ map2[id] = off[n - 1] + 1
        BY <2>2, <3>2
      <4>2. n \in LoadsOf(p, id)
        BY <1>1, <1>6, <4>1 DEF LoadsOf
      <4>3. \A k \in 1 .. n - 1 : k \notin LoadsOf(p, id)
        BY <1>3, <3>2 DEF LoadsOf
      <4>4. n \in 1 .. n
        BY <1>1
      <4> QED
        BY <4>1, <4>2, <4>3, <4>4
    <3> QED
      BY <3>1, <3>2
  <2> QED
    BY <2>3, <2>4 DEF ConnectionMapKept, map2
<1> QED
  BY <1>5, <1>6

\* What a built block defines.
LEMMA AppendedBlock ==
  ASSUME NEW c, NEW i, NEW now, i.operation.name = "BuildBlock"
  PROVE  /\ appended_data(c, i, now)[1] = [header_of |-> build_block(c, i, now)]
         /\ appended_data(c, i, now)[2] = build_block(c, i, now)
<1> DEFINE data == appended_data(c, i, now)
           block == build_block(c, i, now)
<1>1. data = handle_block_building_operations(c, i, now)
  BY DEF appended_data, Loads, ScriptBuilders
<1>2. handle_block_building_operations(c, i, now) =
        <<[header_of |-> block], block,
          Tx([coinbase_of |-> block], txos_of([coinbase_of |-> block], get_input(c, i, 1).scripts))>>
  BY DEF handle_block_building_operations
<1> HIDE DEF data, block
<1>3. data[1] = [header_of |-> block] /\ data[2] = block
  BY <1>1, <1>2
<1> QED
  BY <1>3 DEF data, block

\* The blocks.
LEMMA BlockMapStep ==
  ASSUME NEW off, NEW vs, NEW p, NEW n, NEW c, Compiles(off, vs, p, n, c), NEW now,
         NEW cvs2, Becomes(off, vs, p, n, c, now, cvs2),
         BlockListsKept(vs, c.variables), BlockMapKept(vs, c.variables, c.block_tx_var_map)
  PROVE  BlockMapKept(vs, cvs2, update_block_map(c, p[n], now))
<1> DEFINE map == c.block_tx_var_map
           map2 == update_block_map(c, p[n], now)
           cvs == c.variables
           op == p[n].operation
           m == off[n - 1]
<1>1. /\ m \in Nat /\ off[n] \in Nat /\ m <= off[n] /\ Len(cvs) = m /\ n \in 1 .. Len(p)
      /\ Len(Defined(op)) = off[n] - m
  BY CompilesOffsets
<1>2. Len(cvs2) = off[n]
  BY DEF Becomes, Represents
<1>3. ASSUME NEW block \in DOMAIN map PROVE BlockKept(vs, cvs2, block, map[block])
  <2> DEFINE e == map[block]
  <2>1. BlockKept(vs, cvs, block, e)
    BY DEF BlockMapKept
  <2> HIDE DEF e
  <2>2. e.header_var \in 1 .. m /\ e.block_var \in 1 .. m
    BY <1>1, <2>1 DEF BlockKept
  <2>3. vs[e.header_var].var = "Header" /\ vs[e.block_var].var = "Block"
    BY <2>1 DEF BlockKept
  <2>4. cvs2[e.header_var] = cvs[e.header_var] /\ cvs2[e.block_var] = cvs[e.block_var]
    BY <2>2, <2>3, FixedStays
  <2>5. \A k \in DOMAIN e.tx_vars :
          AddedTx(vs, cvs2, [var |-> e.tx_vars[k], body |-> block.txs[k]])
    BY <2>1, AddedTxStays DEF BlockKept
  <2>6. e.header_var \in 1 .. Len(cvs2) /\ e.block_var \in 1 .. Len(cvs2)
    BY <1>1, <1>2, <2>2
  <2> QED
    BY <2>1, <2>3, <2>4, <2>5, <2>6 DEF BlockKept, e
<1>4. CASE op.name # "BuildBlock"
  <2>1. map2 = map
    BY <1>4 DEF update_block_map
  <2> QED
    BY <1>3, <2>1 DEF BlockMapKept
<1>5. CASE op.name = "BuildBlock"
  <2> DEFINE block == build_block(c, p[n], now)
             l == get_input(c, p[n], 5)
             e == [header_var |-> m + 1, block_var |-> m + 2,
                   tx_vars |-> [k \in DOMAIN l |-> l[k].var]]
  <2>1. map2 = or_insert(map, block, e)
    BY <1>1, <1>5 DEF update_block_map
  <2>2. /\ Len(Defined(op)) = 3 /\ Defined(op)[1] = "Header" /\ Defined(op)[2] = "Block"
    BY <1>5, TrackedTable
  <2>3. /\ 1 \in 1 .. off[n] - m /\ 2 \in 1 .. off[n] - m
        /\ m + 1 \in 1 .. Len(cvs2) /\ m + 2 \in 1 .. Len(cvs2)
    <3> DEFINE z == off[n]
    <3>1. z - m = 3 /\ m \in Nat /\ z \in Nat /\ Len(cvs2) = z
      BY <1>1, <1>2, <2>2
    <3> HIDE DEF z, m
    <3>2. 1 \in 1 .. z - m /\ 2 \in 1 .. z - m /\ m + 1 \in 1 .. z /\ m + 2 \in 1 .. z
      BY <3>1
    <3> QED
      BY <3>1, <3>2 DEF z
  <2>4. vs[m + 1].var = "Header" /\ vs[m + 2].var = "Block"
    <3>1. \A k \in 1 .. Len(Defined(op)) : vs[m + k].var = Defined(op)[k]
      BY <1>1 DEF Compiles, Layout
    <3>2. 1 \in 1 .. Len(Defined(op)) /\ 2 \in 1 .. Len(Defined(op))
      BY <2>2
    <3> QED
      BY <2>2, <3>1, <3>2
  <2>5. /\ cvs2[m + 1].data = appended_data(c, p[n], now)[1]
        /\ cvs2[m + 2].data = appended_data(c, p[n], now)[2]
    BY <2>3 DEF Becomes
  <2>6. cvs2[m + 1].data = [header_of |-> block] /\ cvs2[m + 2].data = block
    BY <1>5, <2>5, AppendedBlock
  <2>7. \E S : l \in Seq(S) /\ \A x \in S : AddedTx(vs, cvs, x)
    <3>1. Downcasts(c, p[n])
      BY CompilesOffsets, DowncastsSucceed DEF Compiles
    <3>2. 5 \in 1 .. Len(reads(op)) /\ reads(op)[5] = "BlockTransactions"
      BY <1>5 DEF reads, TxInvs, BlockInvs
    <3>3. p[n].inputs[5] \in 1 .. Len(cvs) /\ cvs[p[n].inputs[5]].rust = "BlockTransactions"
      BY <3>1, <3>2 DEF Downcasts, has
    <3> QED
      BY <3>3 DEF BlockListsKept, get_input
  <2>8. block.txs = [k \in 1 .. Len(l) |-> l[k].body]
    BY DEF build_block
  <2> HIDE DEF l, block
  <2>9. PICK S : l \in Seq(S) /\ \A x \in S : AddedTx(vs, cvs, x)
    BY <2>7
  <2>10. /\ DOMAIN l = 1 .. Len(l) /\ \A k \in 1 .. Len(l) : l[k] \in S
    BY <2>9
  <2>11. ASSUME NEW k \in DOMAIN l
         PROVE  AddedTx(vs, cvs2, [var |-> l[k].var, body |-> block.txs[k]])
    <3>1. AddedTx(vs, cvs, l[k])
      BY <2>9, <2>10
    <3>2. block.txs[k] = l[k].body
      BY <2>8, <2>10
    <3> DEFINE x == [var |-> l[k].var, body |-> block.txs[k]]
    <3>3. x.var = l[k].var /\ x.body = l[k].body
      BY <3>2
    <3> HIDE DEF x
    <3>4. AddedTx(vs, cvs, x)
      BY <3>1, <3>3 DEF AddedTx
    <3>5. AddedTx(vs, cvs2, x)
      BY <3>4, AddedTxStays
    <3> QED
      BY <3>5 DEF x
  <2>12. /\ e.header_var = m + 1 /\ e.block_var = m + 2 /\ DOMAIN e.tx_vars = DOMAIN l
         /\ \A k \in DOMAIN l : e.tx_vars[k] = l[k].var
    OBVIOUS
  <2> HIDE DEF e
  <2>13. BlockKept(vs, cvs2, block, e)
    BY <2>3, <2>4, <2>6, <2>11, <2>12 DEF BlockKept
  <2>14. /\ DOMAIN map2 = DOMAIN map \cup {block}
         /\ \A k \in DOMAIN map : map2[k] = map[k]
         /\ block \notin DOMAIN map => map2[block] = e
    <3> HIDE DEF map, map2
    <3> QED
      BY <2>1 DEF or_insert
  <2> HIDE DEF map2
  <2> SUFFICES ASSUME NEW b \in DOMAIN map2 PROVE BlockKept(vs, cvs2, b, map2[b])
    BY DEF BlockMapKept, map2
  <2>15. CASE b \in DOMAIN map
    BY <1>3, <2>14, <2>15
  <2>16. CASE b \notin DOMAIN map
    BY <2>13, <2>14, <2>16
  <2> QED
    BY <2>15, <2>16
<1> QED
  BY <1>4, <1>5

-----------------------------------------------------------------------------
\* Sequences with one element per member of a set of positions.

\* What the members of a set of positions before n had, they keep.
KeepsRanked(S, n, l, all) ==
  \A d \in 1 .. n - 1 : d \in S => all[Rank(S, d)] = l[Rank(S, d)]

\* One more position: one more element, if it is a member.
LEMMA RankedStep ==
  ASSUME NEW S, NEW n \in Nat \ {0}, NEW T, NEW l \in Seq(T), Len(l) = Rank(S, n - 1),
         NEW add \in Seq(T), n \in S => Len(add) = 1, n \notin S => Len(add) = 0
  PROVE  /\ l \o add \in Seq(T)
         /\ Len(l \o add) = Rank(S, n)
         /\ KeepsRanked(S, n, l, l \o add)
         /\ n \in S => (l \o add)[Rank(S, n)] = add[1]
<1>1. n - 1 \in Nat /\ (n - 1) + 1 = n
  OBVIOUS
<1>2. /\ Rank(S, n - 1) \in Nat
      /\ Rank(S, n) = Rank(S, n - 1) + IF n \in S THEN 1 ELSE 0
  <2>1. Rank(S, (n - 1) + 1) = Rank(S, n - 1) + IF (n - 1) + 1 \in S THEN 1 ELSE 0
    BY <1>1, RankStep
  <2> QED
    BY <1>1, <2>1, RankStep
<1> DEFINE all == l \o add
<1>3. /\ all \in Seq(T)
      /\ Len(all) = Len(l) + Len(add)
      /\ \A k \in 1 .. Len(l) + Len(add) : all[k] = IF k <= Len(l) THEN l[k] ELSE add[k - Len(l)]
  BY ConcatProperties
<1> HIDE DEF all
<1>4. ASSUME NEW d \in 1 .. n - 1, d \in S PROVE all[Rank(S, d)] = l[Rank(S, d)]
  <2>1. d \in Nat \ {0} /\ d - 1 \in Nat /\ d <= n - 1
    BY <1>1
  <2>2. Rank(S, d) = Rank(S, d - 1) + 1 /\ Rank(S, d - 1) \in Nat
    BY <1>4, <2>1, RankOfMember, RankStep
  <2>3. Rank(S, d) <= Rank(S, n - 1)
    BY <1>1, <2>1, RankGrows
  <2>4. Rank(S, d) \in 1 .. Len(l) + Len(add) /\ Rank(S, d) <= Len(l)
    BY <1>2, <2>2, <2>3
  <2> QED
    BY <1>3, <2>4
<1>5. ASSUME n \in S PROVE all[Rank(S, n)] = add[1]
  <2>1. Rank(S, n) = Len(l) + 1 /\ Len(add) = 1 /\ Len(l) \in Nat
    BY <1>2, <1>5
  <2>2. Rank(S, n) \in 1 .. Len(l) + Len(add) /\ ~ (Rank(S, n) <= Len(l))
        /\ Rank(S, n) - Len(l) = 1
    <3> DEFINE r == Rank(S, n)
               a == Len(l)
               b == Len(add)
    <3> HIDE DEF r, a, b
    <3>1. r = a + 1 /\ b = 1 /\ a \in Nat
      BY <2>1 DEF r, a, b
    <3>2. r \in 1 .. a + b /\ ~ (r <= a) /\ r - a = 1
      BY <3>1
    <3> QED
      BY <3>2 DEF r, a, b
  <2> QED
    BY <1>3, <2>2
<1>6. Len(all) = Rank(S, n)
  BY <1>2, <1>3
<1> QED
  BY <1>3, <1>4, <1>5, <1>6 DEF all, KeepsRanked

\* The indices: of variables, of actions, and of the next instruction.
IndicesKept(off, p, n, c) ==
  /\ c.variable_indices \in Seq(Nat)
  /\ Len(c.variable_indices) = off[n]
  /\ \A d \in 1 .. n : \A v \in off[d - 1] + 1 .. off[d] :
       c.variable_indices[v] = Rank(Counted(p), d - 1)
  /\ c.action_indices \in Seq(Nat)
  /\ Len(c.action_indices) = Rank(Sending(p), n)
  /\ \A d \in 1 .. n : d \in Sending(p) =>
       c.action_indices[Rank(Sending(p), d)] = Rank(Counted(p), d - 1)
  /\ c.instructions = Rank(Counted(p), n)

\* What an instruction emits.
LEMMA EmittedTable ==
  ASSUME NEW c, NEW i
  PROVE  /\ "Probe" \notin Sends
         /\ i.operation.name \in Sends =>
              emitted(c, i) = <<[conn |-> get_input(c, i, 1), message |-> i.operation.name,
                                 payload |-> contents(c, i, 2)]>>
         /\ i.operation.name = "Probe" =>
              emitted(c, i) = <<[conn |-> None, message |-> "Probe", payload |-> << >>]>>
         /\ i.operation.name \notin Sends \cup {"Probe"} => emitted(c, i) = << >>
<1>1. "Probe" \notin Sends
  BY DEF Sends
<1> QED
  BY <1>1 DEF emitted

\* Copies of a number.
LEMMA Times ==
  ASSUME NEW x \in Nat, NEW n \in Nat
  PROVE  LET l == [k \in 1 .. n |-> x]
         IN  l \in Seq(Nat) /\ Len(l) = n /\ \A k \in 1 .. n : l[k] = x
OBVIOUS

\* The indices, one instruction later.
LEMMA IndicesStep ==
  ASSUME NEW off, NEW vs, NEW p, NEW n, NEW c, Compiles(off, vs, p, n, c), NEW now,
         IndicesKept(off, p, n - 1, c)
  PROVE  IndicesKept(off, p, n, compile_instruction(c, p[n], now))
<1> DEFINE c2 == compile_instruction(c, p[n], now)
           op == p[n].operation
           x == c.instructions
           counts == op.name # "Probe"
           m == off[n - 1]
           l == Len(appends(op))
           q == Len(emitted(c, p[n]))
           vi == c.variable_indices
           ai == c.action_indices
           more == [k \in 1 .. l |-> x]
           one == [k \in 1 .. q |-> x]
<1>1. /\ n \in Nat \ {0} /\ n - 1 \in Nat /\ n \in 1 .. Len(p) /\ (n - 1) + 1 = n
      /\ m \in Nat /\ off[n] \in Nat /\ m <= off[n]
      /\ Len(Defined(op)) = off[n] - m /\ op \in Operation
  BY CompilesOffsets
<1>2. l = off[n] - m /\ l \in Nat
  BY <1>1, AppendsDefined
<1>3. /\ vi \in Seq(Nat) /\ Len(vi) = m
      /\ \A d \in 1 .. n - 1 : \A v \in off[d - 1] + 1 .. off[d] :
           vi[v] = Rank(Counted(p), d - 1)
      /\ ai \in Seq(Nat) /\ Len(ai) = Rank(Sending(p), n - 1)
      /\ \A d \in 1 .. n - 1 : d \in Sending(p) =>
           ai[Rank(Sending(p), d)] = Rank(Counted(p), d - 1)
      /\ x = Rank(Counted(p), n - 1)
  BY DEF IndicesKept
<1>4. x \in Nat /\ Rank(Counted(p), n) = x + IF counts THEN 1 ELSE 0
  <2>1. n \in Counted(p) <=> counts
    BY <1>1 DEF Counted
  <2>2. Rank(Counted(p), (n - 1) + 1) =
          Rank(Counted(p), n - 1) + IF (n - 1) + 1 \in Counted(p) THEN 1 ELSE 0
    BY <1>1, RankStep
  <2>3. Rank(Counted(p), n - 1) \in Nat
    BY <1>1, RankStep
  <2> QED
    BY <1>1, <1>3, <2>1, <2>2, <2>3
<1>5. /\ c2.action_indices = IF counts THEN ai \o one ELSE ai
      /\ c2.variable_indices = vi \o more
      /\ c2.instructions = IF counts THEN x + 1 ELSE x
  BY DEF Compiles, compile_instruction, new_compiler
<1>6. c2.instructions = Rank(Counted(p), n)
  BY <1>4, <1>5
<1>7. more \in Seq(Nat) /\ Len(more) = l /\ \A k \in 1 .. l : more[k] = x
  BY <1>2, <1>4, Times
<1> DEFINE vi2 == vi \o more
<1> HIDE DEF c2, more, l, x, vi
<1>8. /\ vi2 \in Seq(Nat) /\ Len(vi2) = m + l
      /\ \A k \in 1 .. m + l : vi2[k] = IF k <= m THEN vi[k] ELSE more[k - m]
  <2>1. /\ vi2 \in Seq(Nat) /\ Len(vi2) = Len(vi) + Len(more)
        /\ \A k \in 1 .. Len(vi) + Len(more) :
             vi2[k] = IF k <= Len(vi) THEN vi[k] ELSE more[k - Len(vi)]
    BY <1>3, <1>7, ConcatProperties
  <2> QED
    BY <1>3, <1>7, <2>1
<1> HIDE DEF vi2
<1>9. ASSUME NEW d \in 1 .. n, NEW v \in off[d - 1] + 1 .. off[d]
      PROVE  vi2[v] = Rank(Counted(p), d - 1)
  <2>1. CASE d # n
    <3>1. d \in 1 .. n - 1 /\ d \in 1 .. Len(p) /\ d \in 0 .. Len(p) /\ n - 1 \in 0 .. Len(p)
          /\ d <= n - 1 /\ d - 1 \in 0 .. Len(p)
      BY <1>1, <2>1
    <3>2. off[d] <= m
      BY <3>1, LayoutMonotone DEF Compiles
    <3>3. off[d - 1] \in Nat /\ off[d] \in Nat
      BY <3>1, LayoutOffsets DEF Compiles
    <3>4. v \in 1 .. m + l /\ v <= m
      <4> DEFINE y == off[d - 1]
                 z == off[d]
      <4> HIDE DEF y, z, m
      <4>1. v \in y + 1 .. z /\ y \in Nat /\ z \in Nat /\ z <= m /\ m \in Nat /\ l \in Nat
        BY <1>1, <1>2, <3>2, <3>3 DEF y, z
      <4> QED
        BY <4>1
    <3>5. vi[v] = Rank(Counted(p), d - 1)
      BY <1>3, <3>1
    <3> QED
      BY <1>8, <3>4, <3>5
  <2>2. CASE d = n
    <3>1. v \in m + 1 .. off[n]
      BY <2>2
    <3>2. v \in 1 .. m + l /\ ~ (v <= m) /\ v - m \in 1 .. l
      <4> DEFINE z == off[n]
      <4> HIDE DEF z, m
      <4>1. v \in m + 1 .. z /\ m \in Nat /\ z \in Nat /\ l = z - m
        BY <1>1, <1>2, <3>1 DEF z
      <4> QED
        BY <4>1
    <3>3. vi2[v] = x
      BY <1>7, <1>8, <3>2
    <3> QED
      BY <1>3, <2>2, <3>3
  <2> QED
    BY <2>1, <2>2
<1>10. Len(vi2) = off[n]
  BY <1>1, <1>2, <1>8
<1>s. n \in Sending(p) <=> op.name \in Sends
  BY <1>1 DEF Sending
<1> DEFINE S == Sending(p)
           add == IF counts THEN one ELSE << >>
           ai2 == ai \o add
<1>11. add \in Seq(Nat) /\ (n \in S => Len(add) = 1) /\ (n \notin S => Len(add) = 0)
  <2>1. q \in Nat /\ op.name \in Sends => q = 1
    BY EmittedTable
  <2>2. counts /\ op.name \notin Sends => q = 0
    BY EmittedTable
  <2>3. ~ counts => op.name \notin Sends
    BY EmittedTable
  <2>4. CASE op.name \in Sends
    <3>1. q = 1 /\ counts
      BY <2>3, <2>4, EmittedTable
    <3> HIDE DEF q
    <3>2. one \in Seq(Nat) /\ Len(one) = 1
      BY <1>4, <3>1, Times
    <3> QED
      BY <1>s, <2>4, <3>1, <3>2
  <2>5. CASE op.name \notin Sends /\ counts
    <3>1. q = 0
      BY <2>2, <2>5
    <3> HIDE DEF q
    <3>2. one \in Seq(Nat) /\ Len(one) = 0
      BY <1>4, <3>1, Times
    <3> QED
      BY <1>s, <2>5, <3>2
  <2>6. CASE ~ counts
    <3>1. n \notin S
      BY <1>s, <2>3, <2>6
    <3>2. add = << >>
      BY <2>6
    <3> HIDE DEF add
    <3>3. << >> \in Seq(Nat) /\ Len(<< >>) = 0
      OBVIOUS
    <3> QED
      BY <3>1, <3>2, <3>3
  <2> QED
    BY <2>4, <2>5, <2>6
<1>12. n \in S => add[1] = x
  <2> SUFFICES ASSUME n \in S PROVE add[1] = x
    OBVIOUS
  <2>1. op.name \in Sends /\ counts
    BY <1>s, EmittedTable
  <2>2. q = 1
    BY <2>1, EmittedTable
  <2> HIDE DEF q
  <2> QED
    BY <2>1, <2>2
<1>13. c2.action_indices = ai2
  <2>1. counts => c2.action_indices = ai \o one
    BY <1>5
  <2>2. ~ counts => c2.action_indices = ai /\ ai \o << >> = ai
    <3>1. ai \o << >> = ai
      BY <1>3, ConcatEmptySeq
    <3> QED
      BY <1>5, <3>1
  <2> QED
    BY <2>1, <2>2
<1> HIDE DEF add, ai, S
<1>14. /\ ai2 \in Seq(Nat) /\ Len(ai2) = Rank(S, n)
       /\ \A d \in 1 .. n - 1 : d \in S => ai2[Rank(S, d)] = ai[Rank(S, d)]
       /\ n \in S => ai2[Rank(S, n)] = add[1]
  <2>1. ai \in Seq(Nat) /\ Len(ai) = Rank(S, n - 1)
    BY <1>3 DEF S
  <2> QED
    <3> HIDE DEF ai2
    <3>1. ai2 = ai \o add
      BY DEF ai2
    <3>0. /\ n \in Nat \ {0} /\ add \in Seq(Nat)
          /\ (n \in S => Len(add) = 1) /\ (n \notin S => Len(add) = 0)
      BY <1>1, <1>11
    <3>2. ai \o add \in Seq(Nat)
      BY <3>0, <2>1, RankedStep
    <3>3. Len(ai \o add) = Rank(S, n)
      BY <3>0, <2>1, RankedStep
    <3>4. KeepsRanked(S, n, ai, ai \o add)
      BY <3>0, <2>1, RankedStep
    <3>5. n \in S => (ai \o add)[Rank(S, n)] = add[1]
      BY <3>0, <2>1, RankedStep
    <3> QED
      BY <3>1, <3>2, <3>3, <3>4, <3>5 DEF KeepsRanked
<1> HIDE DEF ai2
<1>15. ASSUME NEW d \in 1 .. n, d \in S PROVE ai2[Rank(S, d)] = Rank(Counted(p), d - 1)
  <2>1. CASE d # n
    <3>1. d \in 1 .. n - 1
      BY <1>1, <2>1
    <3>2. ai[Rank(S, d)] = Rank(Counted(p), d - 1)
      BY <1>3, <1>15, <3>1 DEF S
    <3> QED
      BY <1>14, <1>15, <3>1, <3>2
  <2>2. CASE d = n
    BY <1>3, <1>12, <1>14, <1>15, <2>2
  <2> QED
    BY <2>1, <2>2
<1> QED
  BY <1>5, <1>6, <1>8, <1>9, <1>10, <1>13, <1>14, <1>15 DEF IndicesKept, c2, S, vi2

-----------------------------------------------------------------------------
\* The actions.

\* Action a is addressed to the connection an earlier instruction loaded, and
\* holds the list an earlier instruction finished.
AskedConn(off, p, d, a) ==
  \E k \in 1 .. d - 1 : /\ p[d].inputs[1] = off[k - 1] + 1 /\ off[k - 1] + 1 <= off[k]
                        /\ p[k].operation.name = "LoadConnection"
                        /\ a.conn = p[k].operation.args[1]

AskedList(off, p, d, a) ==
  \E k \in 1 .. d - 1 : /\ p[d].inputs[2] = off[k - 1] + 1 /\ off[k - 1] + 1 <= off[k]
                        /\ p[k].operation.name \in ListEnds
                        /\ Len(a.payload[1]) = Rank(AddsTo(p, p[k].inputs[1]), k)

Asked(off, p, d, a) ==
  /\ a.message = p[d].operation.name
  /\ a.message \in Sends => AskedConn(off, p, d, a)
  /\ a.message \in ListSends => AskedList(off, p, d, a)

\* Each action is the one its instruction asks for.
ActionsKept(off, p, n, actions) ==
  /\ \E S : actions \in Seq(S)
  /\ Len(actions) = Rank(Emitting(p), n)
  /\ \A d \in 1 .. n : d \in Emitting(p) => Asked(off, p, d, actions[Rank(Emitting(p), d)])

\* What messages are made from.
LEMMA SendTable ==
  ASSUME NEW op
  PROVE  /\ op.name \in Sends =>
              /\ Len(get_input_variables(op)) \in Nat /\ Len(get_input_variables(op)) >= 1
              /\ get_input_variables(op)[1] = "Connection"
         /\ op.name \in ListSends =>
              /\ op.name \in Sends
              /\ Len(get_input_variables(op)) = 2 /\ get_input_variables(op)[2] \in ConstLists
<1>1. ASSUME op.name \in Sends
      PROVE  /\ Len(get_input_variables(op)) \in Nat /\ Len(get_input_variables(op)) >= 1
             /\ get_input_variables(op)[1] = "Connection"
  <2> DEFINE l == get_input_variables(op)
  <2>1. op.name \in {"SendRawMessage", "SendGetCFCheckpt", "SendGetCFilters", "SendGetCFHeaders",
                     "SendGetAddr", "SendFilterClear"} =>
          \/ l = <<"Connection", "MsgType", "Bytes">>
          \/ l = <<"Connection", "CompactFilterType", "Header">>
          \/ l = <<"Connection", "CompactFilterType", "BlockHeight", "Header">>
          \/ l = <<"Connection">>
    BY DEF get_input_variables, TxInvs, BlockInvs
  <2>2. op.name \in {"SendTx", "SendTxNoWit", "SendGetData", "SendInv", "SendAddr", "SendAddrV2"} =>
          \/ l = <<"Connection", "ConstTx">>
          \/ l = <<"Connection", "ConstInventory">>
          \/ l = <<"Connection", "ConstAddrList">>
          \/ l = <<"Connection", "ConstAddrListV2">>
    BY DEF get_input_variables, TxInvs, BlockInvs
  <2>3. op.name \in {"SendHeader", "SendBlock", "SendBlockNoWit", "SendFilterLoad", "SendFilterAdd",
                     "SendCompactBlock", "SendBlockTxn"} =>
          \/ l = <<"Connection", "Header">>
          \/ l = <<"Connection", "Block">>
          \/ l = <<"Connection", "ConstFilterLoad">>
          \/ l = <<"Connection", "FilterAdd">>
          \/ l = <<"Connection", "CompactBlock">>
          \/ l = <<"Connection", "ConstBlockTxn">>
    BY DEF get_input_variables, TxInvs, BlockInvs
  <2> HIDE DEF l
  <2>4. \/ \E t, u, v : l = <<"Connection", t, u, v>>
        \/ \E t, u : l = <<"Connection", t, u>>
        \/ \E t : l = <<"Connection", t>>
        \/ l = <<"Connection">>
    BY <1>1, <2>1, <2>2, <2>3, Zenon DEF Sends
  <2>5. Len(l) \in Nat /\ Len(l) >= 1 /\ l[1] = "Connection"
    BY <2>4
  <2> QED
    BY <2>5 DEF l
<1>2. ASSUME op.name \in ListSends
      PROVE  /\ op.name \in Sends
             /\ Len(get_input_variables(op)) = 2 /\ get_input_variables(op)[2] \in ConstLists
  <2>1. op.name \in Sends
    BY <1>2 DEF ListSends, Sends
  <2>2. \E t \in ConstLists : get_input_variables(op) = <<"Connection", t>>
    BY <1>2 DEF ListSends, get_input_variables, TxInvs, BlockInvs, ConstLists
  <2> QED
    BY <2>1, <2>2
<1> QED
  BY <1>1, <1>2

\* A message goes where its instruction says.
LEMMA AsksConn ==
  ASSUME NEW off, NEW vs, NEW p, NEW n, NEW c, Compiles(off, vs, p, n, c),
         ConnectionsKept(off, p, n - 1, c.variables), p[n].operation.name \in Sends,
         NEW a, a.conn = get_input(c, p[n], 1)
  PROVE  AskedConn(off, p, n, a)
<1> DEFINE op == p[n].operation
           n1 == n - 1
           v == p[n].inputs[1]
<1>1. ReadsBefore(vs, off[n1], p[n]) /\ n1 \in 0 .. Len(p)
  BY CompilesOffsets
<1>2. /\ Len(get_input_variables(op)) \in Nat /\ Len(get_input_variables(op)) >= 1
      /\ get_input_variables(op)[1] = "Connection"
  BY SendTable
<1>3. Len(p[n].inputs) = Len(get_input_variables(op))
  BY <1>1 DEF ReadsBefore, num_inputs
<1>4. 1 \in 1 .. Len(p[n].inputs)
  BY <1>2, <1>3
<1>5. v \in 1 .. off[n1] /\ vs[v].var = "Connection"
  BY <1>1, <1>2, <1>4 DEF ReadsBefore
<1>6. /\ Layout(off, vs, p) /\ Len(vs) \in Nat /\ Len(p) \in Nat
      /\ \A k \in 1 .. Len(p) : p[k].operation \in Operation
  BY DEF Compiles
<1>7. vs[v].var \in Tracked
  BY <1>5 DEF Tracked
<1> HIDE DEF n1, v
<1>r. PICK k \in 1 .. n1 : TrackedBy(off, vs, p, v, k)
  BY <1>1, <1>5, <1>6, <1>7, TrackedDefiner
<1>8. /\ v = off[k - 1] + 1 /\ v <= off[k]
      /\ vs[v].var = "Connection" => p[k].operation.name = "LoadConnection"
  BY <1>r DEF TrackedBy
<1>9. k \in 1 .. n - 1
  BY DEF n1
<1>10. c.variables[off[k - 1] + 1].data = p[k].operation.args[1]
  BY <1>5, <1>8, <1>9 DEF ConnectionsKept
<1>11. a.conn = p[k].operation.args[1]
  BY <1>8, <1>10 DEF get_input, v
<1> QED
  BY <1>5, <1>8, <1>9, <1>11 DEF AskedConn, v

\* And holds what was added to the list it sends.
LEMMA AsksList ==
  ASSUME NEW off, NEW vs, NEW p, NEW n, NEW c, Compiles(off, vs, p, n, c),
         CopiesKept(off, p, n - 1, c.variables), p[n].operation.name \in ListSends,
         NEW a, a.payload = contents(c, p[n], 2)
  PROVE  AskedList(off, p, n, a)
<1> DEFINE op == p[n].operation
           n1 == n - 1
           v == p[n].inputs[2]
<1>1. ReadsBefore(vs, off[n1], p[n]) /\ n1 \in 0 .. Len(p)
  BY CompilesOffsets
<1>2. Len(get_input_variables(op)) = 2 /\ get_input_variables(op)[2] \in ConstLists
  BY SendTable
<1>3. Len(p[n].inputs) = 2
  BY <1>1, <1>2 DEF ReadsBefore, num_inputs
<1>4. 2 \in 1 .. Len(p[n].inputs)
  BY <1>3
<1>5. v \in 1 .. off[n1] /\ vs[v].var \in ConstLists
  BY <1>1, <1>2, <1>4 DEF ReadsBefore
<1>6. /\ Layout(off, vs, p) /\ Len(vs) \in Nat /\ Len(p) \in Nat
      /\ \A k \in 1 .. Len(p) : p[k].operation \in Operation
  BY DEF Compiles
<1>7. vs[v].var \in Tracked
  BY <1>5 DEF Tracked
<1> HIDE DEF n1, v
<1>r. PICK k \in 1 .. n1 : TrackedBy(off, vs, p, v, k)
  BY <1>1, <1>5, <1>6, <1>7, TrackedDefiner
<1>8. /\ v = off[k - 1] + 1 /\ v <= off[k]
      /\ vs[v].var \in ConstLists => p[k].operation.name \in ListEnds
  BY <1>r DEF TrackedBy
<1>9. k \in 1 .. n - 1
  BY DEF n1
<1>10. Len(c.variables[off[k - 1] + 1].data) = Rank(AddsTo(p, p[k].inputs[1]), k)
  BY <1>5, <1>8, <1>9 DEF CopiesKept
<1>11. c.variables[v].rust # "Tx"
  <2>1. v \in 1 .. Len(c.variables)
    BY <1>5, CompilesOffsets DEF n1
  <2>2. c.variables[v].rust = representation(vs[v].var)
    BY <2>1 DEF Compiles, Represents
  <2>3. \A t \in ConstLists : representation(t) # "Tx"
    BY RepresentationTable DEF ConstLists
  <2> QED
    BY <1>5, <2>2, <2>3
<1>12. a.payload[1] = c.variables[v].data
  <2> DEFINE i == p[n]
  <2>1. 1 \in 1 .. Len(i.inputs) - 2 + 1 /\ 1 + 2 - 1 = 2
    BY <1>3
  <2>2. contents(c, i, 2) = [j \in 1 .. Len(i.inputs) - 2 + 1 |-> content(c, i, j + 2 - 1)]
    BY DEF contents
  <2> HIDE DEF i
  <2>3. contents(c, i, 2)[1] = content(c, i, 2)
    BY <2>1, <2>2
  <2>4. a.payload[1] = content(c, p[n], 2)
    BY <2>3 DEF i
  <2> QED
    BY <1>11, <2>4 DEF content, get_input, v
<1> QED
  BY <1>5, <1>8, <1>9, <1>10, <1>12 DEF AskedList, v

\* What an instruction emits is what it asks for.
LEMMA EmitsWhatIsAsked ==
  ASSUME NEW off, NEW vs, NEW p, NEW n, NEW c, Compiles(off, vs, p, n, c),
         ConnectionsKept(off, p, n - 1, c.variables), CopiesKept(off, p, n - 1, c.variables)
  PROVE  /\ emitted(c, p[n]) \in Seq({emitted(c, p[n])[1]})
         /\ n \in Emitting(p) =>
              Len(emitted(c, p[n])) = 1 /\ Asked(off, p, n, emitted(c, p[n])[1])
         /\ n \notin Emitting(p) => Len(emitted(c, p[n])) = 0
<1> DEFINE op == p[n].operation
           one == emitted(c, p[n])
           a == [conn |-> get_input(c, p[n], 1), message |-> op.name,
                 payload |-> contents(c, p[n], 2)]
           probe == [conn |-> None, message |-> "Probe", payload |-> << >>]
<1>1. n \in Emitting(p) <=> op.name \in Sends \cup {"Probe"}
  BY CompilesOffsets DEF Emitting
<1>2. CASE op.name \in Sends
  <2>1. one = <<a>>
    BY <1>2, EmittedTable
  <2>2. AskedConn(off, p, n, a)
    BY <1>2, AsksConn
  <2>3. op.name \in ListSends => AskedList(off, p, n, a)
    BY AsksList
  <2>4. Asked(off, p, n, a)
    BY <2>2, <2>3 DEF Asked
  <2> HIDE DEF one, a
  <2>5. one \in Seq({one[1]}) /\ Len(one) = 1 /\ one[1] = a
    BY <2>1
  <2> QED
    BY <1>1, <1>2, <2>4, <2>5 DEF one
<1>3. CASE op.name = "Probe"
  <2>1. one = <<probe>>
    BY <1>3, EmittedTable
  <2>2. "Probe" \notin Sends /\ "Probe" \notin ListSends
    BY DEF Sends, ListSends
  <2>3. Asked(off, p, n, probe)
    BY <1>3, <2>2 DEF Asked
  <2> HIDE DEF one, probe
  <2>4. one \in Seq({one[1]}) /\ Len(one) = 1 /\ one[1] = probe
    BY <2>1
  <2> QED
    BY <1>1, <1>3, <2>3, <2>4 DEF one
<1>4. CASE op.name \notin Sends \cup {"Probe"}
  <2>1. one = << >>
    BY <1>4, EmittedTable
  <2> HIDE DEF one
  <2>2. one \in Seq({one[1]}) /\ Len(one) = 0
    BY <2>1
  <2> QED
    BY <1>1, <1>4, <2>2 DEF one
<1> QED
  BY <1>2, <1>3, <1>4

\* The actions, one instruction later.
LEMMA ActionsStep ==
  ASSUME NEW off, NEW vs, NEW p, NEW n, NEW c, Compiles(off, vs, p, n, c),
         ConnectionsKept(off, p, n - 1, c.variables), CopiesKept(off, p, n - 1, c.variables),
         ActionsKept(off, p, n - 1, c.actions)
  PROVE  ActionsKept(off, p, n, c.actions \o emitted(c, p[n]))
<1> DEFINE l == c.actions
           add == emitted(c, p[n])
           S == Emitting(p)
           l2 == l \o add
<1>1. n \in Nat \ {0}
  BY CompilesOffsets
<1>2. PICK R : l \in Seq(R)
  BY DEF ActionsKept
<1>3. /\ Len(l) = Rank(S, n - 1)
      /\ \A d \in 1 .. n - 1 : d \in S => Asked(off, p, d, l[Rank(S, d)])
  BY DEF ActionsKept
<1>4. /\ add \in Seq({add[1]})
      /\ n \in S => Len(add) = 1 /\ Asked(off, p, n, add[1])
      /\ n \notin S => Len(add) = 0
  BY EmitsWhatIsAsked
<1> HIDE DEF l, add, S
<1> DEFINE U == R \cup {add[1]}
<1>5. l \in Seq(U) /\ add \in Seq(U)
  <2>1. R \subseteq U /\ {add[1]} \subseteq U
    OBVIOUS
  <2> HIDE DEF U
  <2> QED
    BY <1>2, <1>4, <2>1, SeqMonotone
<1> HIDE DEF U, l2
<1>6. l2 = l \o add
  BY DEF l2
<1>7. l \o add \in Seq(U)
  BY <1>1, <1>3, <1>4, <1>5, RankedStep
<1>8. Len(l \o add) = Rank(S, n)
  BY <1>1, <1>3, <1>4, <1>5, RankedStep
<1>9. KeepsRanked(S, n, l, l \o add)
  BY <1>1, <1>3, <1>4, <1>5, RankedStep
<1>10. n \in S => (l \o add)[Rank(S, n)] = add[1]
  BY <1>1, <1>3, <1>4, <1>5, RankedStep
<1>11. ASSUME NEW d \in 1 .. n, d \in S PROVE Asked(off, p, d, l2[Rank(S, d)])
  <2>1. CASE d # n
    <3>1. d \in 1 .. n - 1
      BY <1>1, <2>1
    <3> QED
      BY <1>3, <1>6, <1>9, <1>11, <3>1 DEF KeepsRanked
  <2>2. CASE d = n
    BY <1>4, <1>6, <1>10, <1>11, <2>2
  <2> QED
    BY <2>1, <2>2
<1>12. ActionsKept(off, p, n, l2)
  BY <1>6, <1>7, <1>8, <1>11 DEF ActionsKept, S
<1> QED
  BY <1>12 DEF l2, l, add

-----------------------------------------------------------------------------
\* What is kept of the compiled instructions holds whatever is appended.

Kept(off, vs, p, n, c) ==
  /\ DataKept(off, vs, p, n, c.variables)
  /\ ConnectionMapKept(off, p, n, c.connection_map)
  /\ BlockMapKept(vs, c.variables, c.block_tx_var_map)
  /\ IndicesKept(off, p, n, c)
  /\ ActionsKept(off, p, n, c.actions)

\* Two programs with the same first n instructions.
Same(off, vs, p, off2, vs2, p2, n, m) ==
  /\ n \in Nat /\ n <= Len(p) /\ n <= Len(p2) /\ Len(p) \in Nat /\ Len(p2) \in Nat
  /\ \A d \in 1 .. n : p2[d] = p[d] /\ off2[d] = off[d] /\ off2[d - 1] = off[d - 1]
  /\ \A v \in 1 .. m : vs2[v].var = vs[v].var

\* Positions are counted alike in both.
LEMMA SameRanks ==
  ASSUME NEW off, NEW vs, NEW p, NEW off2, NEW vs2, NEW p2, NEW n, NEW m,
         Same(off, vs, p, off2, vs2, p2, n, m), NEW d \in 0 .. n
  PROVE  /\ Rank(Counted(p2), d) = Rank(Counted(p), d)
         /\ Rank(Sending(p2), d) = Rank(Sending(p), d)
         /\ Rank(Emitting(p2), d) = Rank(Emitting(p), d)
         /\ \A v : /\ Rank(AddsTo(p2, v), d) = Rank(AddsTo(p, v), d)
                   /\ Rank(TakesFrom(p2, v), d) = Rank(TakesFrom(p, v), d)
<1>1. d \in Nat /\ \A k \in 1 .. d : k \in 1 .. Len(p) /\ k \in 1 .. Len(p2) /\ p2[k] = p[k]
  BY DEF Same
<1>2. \A k \in 1 .. d : k \in Counted(p2) <=> k \in Counted(p)
  BY <1>1 DEF Counted
<1>3. \A k \in 1 .. d : k \in Sending(p2) <=> k \in Sending(p)
  BY <1>1 DEF Sending
<1>4. \A k \in 1 .. d : k \in Emitting(p2) <=> k \in Emitting(p)
  BY <1>1 DEF Emitting
<1>5. Rank(Counted(p2), d) = Rank(Counted(p), d)
  BY <1>1, <1>2, RankOf
<1>6. Rank(Sending(p2), d) = Rank(Sending(p), d)
  BY <1>1, <1>3, RankOf
<1>7. Rank(Emitting(p2), d) = Rank(Emitting(p), d)
  BY <1>1, <1>4, RankOf
<1>8. ASSUME NEW v PROVE Rank(AddsTo(p2, v), d) = Rank(AddsTo(p, v), d)
  <2>1. \A k \in 1 .. d : k \in AddsTo(p2, v) <=> k \in AddsTo(p, v)
    BY <1>1 DEF AddsTo
  <2> QED
    BY <1>1, <2>1, RankOf
<1>9. ASSUME NEW v PROVE Rank(TakesFrom(p2, v), d) = Rank(TakesFrom(p, v), d)
  <2>1. \A k \in 1 .. d : k \in TakesFrom(p2, v) <=> k \in TakesFrom(p, v)
    BY <1>1 DEF TakesFrom
  <2> QED
    BY <1>1, <2>1, RankOf
<1> QED
  BY <1>5, <1>6, <1>7, <1>8, <1>9

\* And so are an instruction's.
LEMMA SameMembers ==
  ASSUME NEW off, NEW vs, NEW p, NEW off2, NEW vs2, NEW p2, NEW n, NEW m,
         Same(off, vs, p, off2, vs2, p2, n, m), NEW d \in 1 .. n
  PROVE  /\ d \in 0 .. n /\ d - 1 \in 0 .. n
         /\ p2[d] = p[d] /\ off2[d] = off[d] /\ off2[d - 1] = off[d - 1]
         /\ d \in Sending(p2) <=> d \in Sending(p)
         /\ d \in Emitting(p2) <=> d \in Emitting(p)
         /\ \A id : d \in LoadsOf(p2, id) <=> d \in LoadsOf(p, id)
<1>1. d \in 1 .. Len(p) /\ d \in 1 .. Len(p2) /\ p2[d] = p[d] /\ n \in Nat
  BY DEF Same
<1> QED
  BY <1>1 DEF Same, Sending, Emitting, LoadsOf

LEMMA SameData ==
  ASSUME NEW off, NEW vs, NEW p, NEW off2, NEW vs2, NEW p2, NEW n, NEW cvs,
         Same(off, vs, p, off2, vs2, p2, n, Len(cvs)), DataKept(off, vs, p, n, cvs)
  PROVE  DataKept(off2, vs2, p2, n, cvs)
<1>0. n \in 0 .. n /\ \A v \in 1 .. Len(cvs) : vs2[v].var = vs[v].var
  BY DEF Same
<1>1. ListsKept(vs2, p2, n, cvs)
  BY <1>0, SameRanks DEF DataKept, ListsKept
<1>2. TxsKept(p2, n, cvs)
  BY <1>0, SameRanks DEF DataKept, TxsKept
<1>3. BlockListsKept(vs2, cvs)
  <2>1. \A e : AddedTx(vs, cvs, e) => AddedTx(vs2, cvs, e)
    BY <1>0 DEF AddedTx
  <2> QED
    BY <2>1 DEF DataKept, BlockListsKept
<1>4. CopiesKept(off2, p2, n, cvs)
  <2> SUFFICES ASSUME NEW d \in 1 .. n, p2[d].operation.name \in ListEnds
               PROVE  Len(cvs[off2[d - 1] + 1].data) = Rank(AddsTo(p2, p2[d].inputs[1]), d)
    BY DEF CopiesKept
  <2>1. d \in 0 .. n /\ p2[d] = p[d] /\ off2[d - 1] = off[d - 1]
    BY SameMembers
  <2>2. Rank(AddsTo(p2, p2[d].inputs[1]), d) = Rank(AddsTo(p, p2[d].inputs[1]), d)
    BY <2>1, SameRanks
  <2> QED
    BY <2>1, <2>2 DEF DataKept, CopiesKept
<1>5. ConnectionsKept(off2, p2, n, cvs)
  BY SameMembers DEF DataKept, ConnectionsKept
<1>6. TakesKept(off2, p2, n, cvs)
  <2> SUFFICES ASSUME NEW d \in 1 .. n, p2[d].operation.name \in Takes,
                      cvs[p2[d].inputs[1]].data.txos # << >>
               PROVE  cvs[off2[d - 1] + 1].data.prev_out =
                        Took(p2, d, cvs[p2[d].inputs[1]].data.txos)
    BY DEF TakesKept
  <2>1. d - 1 \in 0 .. n /\ p2[d] = p[d] /\ off2[d - 1] = off[d - 1]
    BY SameMembers
  <2>2. Rank(TakesFrom(p2, p2[d].inputs[1]), d - 1) = Rank(TakesFrom(p, p2[d].inputs[1]), d - 1)
    BY <2>1, SameRanks
  <2>3. cvs[off[d - 1] + 1].data.prev_out = Took(p, d, cvs[p[d].inputs[1]].data.txos)
    BY <2>1 DEF DataKept, TakesKept
  <2> QED
    BY <2>1, <2>2, <2>3 DEF Took
<1> QED
  BY <1>1, <1>2, <1>3, <1>4, <1>5, <1>6 DEF DataKept

LEMMA SameMaps ==
  ASSUME NEW off, NEW vs, NEW p, NEW off2, NEW vs2, NEW p2, NEW n, NEW c,
         Same(off, vs, p, off2, vs2, p2, n, Len(c.variables)), Kept(off, vs, p, n, c)
  PROVE  /\ ConnectionMapKept(off2, p2, n, c.connection_map)
         /\ BlockMapKept(vs2, c.variables, c.block_tx_var_map)
<1> DEFINE map == c.connection_map
           cvs == c.variables
<1>0. n \in Nat /\ \A v \in 1 .. Len(cvs) : vs2[v].var = vs[v].var
  BY DEF Same
<1>1. ConnectionMapKept(off2, p2, n, map)
  <2>1. ConnectionMapKept(off, p, n, map)
    BY DEF Kept
  <2>2. ASSUME NEW d \in 1 .. n, p2[d].operation.name = "LoadConnection"
        PROVE  p2[d].operation.args[1] \in DOMAIN map
    BY <2>1, <2>2, SameMembers DEF ConnectionMapKept
  <2>3. ASSUME NEW id \in DOMAIN map
        PROVE  \E d \in 1 .. n : /\ d \in LoadsOf(p2, id) /\ map[id] = off2[d - 1] + 1
                                 /\ \A k \in 1 .. d - 1 : k \notin LoadsOf(p2, id)
    <3>1. PICK d \in 1 .. n : /\ d \in LoadsOf(p, id) /\ map[id] = off[d - 1] + 1
                              /\ \A k \in 1 .. d - 1 : k \notin LoadsOf(p, id)
      BY <2>1 DEF ConnectionMapKept
    <3>2. d \in LoadsOf(p2, id) /\ off2[d - 1] = off[d - 1]
      BY <3>1, SameMembers
    <3>3. ASSUME NEW k \in 1 .. d - 1 PROVE k \notin LoadsOf(p2, id)
      <4>1. k \in 1 .. n
        BY <1>0
      <4> QED
        BY <3>1, <4>1, SameMembers
    <3> QED
      BY <3>1, <3>2, <3>3
  <2> QED
    BY <2>2, <2>3 DEF ConnectionMapKept
<1>2. BlockMapKept(vs2, cvs, c.block_tx_var_map)
  <2>1. \A e : AddedTx(vs, cvs, e) => AddedTx(vs2, cvs, e)
    BY <1>0 DEF AddedTx
  <2>2. \A block, e : BlockKept(vs, cvs, block, e) => BlockKept(vs2, cvs, block, e)
    BY <1>0, <2>1 DEF BlockKept
  <2> QED
    BY <2>2 DEF Kept, BlockMapKept
<1> QED
  BY <1>1, <1>2

LEMMA SameIndices ==
  ASSUME NEW off, NEW vs, NEW p, NEW off2, NEW vs2, NEW p2, NEW n, NEW c, NEW m,
         Same(off, vs, p, off2, vs2, p2, n, m), off2[n] = off[n], IndicesKept(off, p, n, c)
  PROVE  IndicesKept(off2, p2, n, c)
<1>1. n \in 0 .. n
  BY DEF Same
<1>2. Rank(Counted(p2), n) = Rank(Counted(p), n) /\ Rank(Sending(p2), n) = Rank(Sending(p), n)
  BY <1>1, SameRanks
<1>3. ASSUME NEW d \in 1 .. n, NEW v \in off2[d - 1] + 1 .. off2[d]
      PROVE  c.variable_indices[v] = Rank(Counted(p2), d - 1)
  <2>1. d - 1 \in 0 .. n /\ off2[d] = off[d] /\ off2[d - 1] = off[d - 1]
    BY SameMembers
  <2>2. Rank(Counted(p2), d - 1) = Rank(Counted(p), d - 1)
    BY <2>1, SameRanks
  <2> QED
    BY <2>1, <2>2 DEF IndicesKept
<1>4. ASSUME NEW d \in 1 .. n, d \in Sending(p2)
      PROVE  c.action_indices[Rank(Sending(p2), d)] = Rank(Counted(p2), d - 1)
  <2>1. d \in 0 .. n /\ d - 1 \in 0 .. n /\ d \in Sending(p)
    BY <1>4, SameMembers
  <2>2. Rank(Counted(p2), d - 1) = Rank(Counted(p), d - 1)
        /\ Rank(Sending(p2), d) = Rank(Sending(p), d)
    BY <2>1, SameRanks
  <2> QED
    BY <2>1, <2>2 DEF IndicesKept
<1> QED
  BY <1>2, <1>3, <1>4 DEF IndicesKept

LEMMA SameActions ==
  ASSUME NEW off, NEW vs, NEW p, NEW off2, NEW vs2, NEW p2, NEW n, NEW l, NEW m,
         Same(off, vs, p, off2, vs2, p2, n, m), ActionsKept(off, p, n, l)
  PROVE  ActionsKept(off2, p2, n, l)
<1>0. n \in 0 .. n /\ n \in Nat
  BY DEF Same
<1>1. Rank(Emitting(p2), n) = Rank(Emitting(p), n)
  BY <1>0, SameRanks
<1>2. ASSUME NEW d \in 1 .. n, NEW a, Asked(off, p, d, a) PROVE Asked(off2, p2, d, a)
  <2>1. \A k \in 1 .. d - 1 : k \in 1 .. n /\ k \in 0 .. n
    BY <1>0
  <2>2. p2[d] = p[d]
    BY SameMembers
  <2>3. ASSUME AskedConn(off, p, d, a) PROVE AskedConn(off2, p2, d, a)
    BY <2>1, <2>2, <2>3, SameMembers DEF AskedConn
  <2>4. ASSUME AskedList(off, p, d, a) PROVE AskedList(off2, p2, d, a)
    <3>1. PICK k \in 1 .. d - 1 :
            /\ p[d].inputs[2] = off[k - 1] + 1 /\ off[k - 1] + 1 <= off[k]
            /\ p[k].operation.name \in ListEnds
            /\ Len(a.payload[1]) = Rank(AddsTo(p, p[k].inputs[1]), k)
      BY <2>4 DEF AskedList
    <3>2. p2[k] = p[k] /\ off2[k] = off[k] /\ off2[k - 1] = off[k - 1]
      BY <2>1, SameMembers
    <3>3. Rank(AddsTo(p2, p[k].inputs[1]), k) = Rank(AddsTo(p, p[k].inputs[1]), k)
      BY <2>1, SameRanks
    <3> QED
      BY <2>2, <3>1, <3>2, <3>3 DEF AskedList
  <2> QED
    BY <1>2, <2>2, <2>3, <2>4 DEF Asked
<1>3. ASSUME NEW d \in 1 .. n, d \in Emitting(p2)
      PROVE  Asked(off2, p2, d, l[Rank(Emitting(p2), d)])
  <2>1. d \in 0 .. n /\ d \in Emitting(p)
    BY <1>3, SameMembers
  <2>2. Rank(Emitting(p2), d) = Rank(Emitting(p), d)
    BY <2>1, SameRanks
  <2>3. Asked(off, p, d, l[Rank(Emitting(p), d)])
    BY <2>1 DEF ActionsKept
  <2> QED
    BY <1>2, <2>2, <2>3
<1> QED
  BY <1>1, <1>3 DEF ActionsKept

LEMMA SameKept ==
  ASSUME NEW off, NEW vs, NEW p, NEW off2, NEW vs2, NEW p2, NEW n, NEW c,
         Same(off, vs, p, off2, vs2, p2, n, Len(c.variables)), off2[n] = off[n],
         Kept(off, vs, p, n, c)
  PROVE  Kept(off2, vs2, p2, n, c)
<1>1. DataKept(off2, vs2, p2, n, c.variables)
  BY SameData DEF Kept
<1>2. IndicesKept(off2, p2, n, c)
  BY SameIndices DEF Kept
<1>3. ActionsKept(off2, p2, n, c.actions)
  BY SameActions DEF Kept
<1> QED
  BY <1>1, <1>2, <1>3, SameMaps DEF Kept

-----------------------------------------------------------------------------
\* The whole invariant: while no call has failed, everything above is kept of
\* the instructions compiled so far, and what was sent is what was emitted for
\* those that were compiled when the last call began or ended.

SentKept(p) ==
  LET last == compiler.last_compiled_instruction
  IN  /\ last \in 0 .. Compiled
      /\ \E S : sent \in Seq(S)
      /\ Len(sent) = Rank(Emitting(p), last)
      /\ \A k \in 1 .. Len(sent) : sent[k] = compiler.actions[k]
      /\ call.running => call.actions_before = Len(sent)

Describes(off, vs, p) ==
  /\ Layout(off, vs, p)
  /\ call.running => call.next \in Nat
  /\ Compiled \in 0 .. Len(p)
  /\ Represents(off, Compiled, vs, compiler.variables)
  /\ Kept(off, vs, p, Compiled, compiler)
  /\ SentKept(p)

KeptInv ==
  /\ CompilerInv
  /\ Healthy => \E off : Describes(off, builder.variables, builder.instructions)

\* Nothing is compiled.
LEMMA InitKept ==
  ASSUME CompilerInit
  PROVE  KeptInv
<1> DEFINE off == [k \in 0 .. 0 |-> 0]
           E == << >>
<1>1. CompilerInv
  BY InitCompiler
<1>2. builder.variables = E /\ builder.instructions = E
  BY NewBuilder, NewIs DEF CompilerInit, Init
<1>3. compiler = new_compiler /\ call = Idle /\ errors = E /\ sent = E
  BY DEF CompilerInit
<1>4. /\ compiler.variables = E /\ compiler.actions = E /\ compiler.action_indices = E
      /\ compiler.variable_indices = E /\ compiler.connection_map = E
      /\ compiler.block_tx_var_map = E /\ compiler.instructions = 0
      /\ compiler.last_compiled_instruction = 0 /\ Compiled = 0 /\ ~ call.running
  BY <1>3 DEF Compiled, new_compiler, Idle
<1>5. PICK o : /\ Layout(o, E, E) /\ (Healthy => Represents(o, 0, E, E))
  BY <1>1, <1>2, <1>4 DEF CompilerInv
<1>6. Healthy
  BY <1>3 DEF Healthy
<1>7. E \in Seq({}) /\ E \in Seq(Nat) /\ Len(E) = 0 /\ DOMAIN E = {} /\ 1 .. 0 = {}
  <2> DEFINE Z == {}
  <2>1. << >> \in Seq(Z) /\ << >> \in Seq(Nat)
    OBVIOUS
  <2> QED
    BY <2>1
<1>8. \A S : Rank(S, 0) = 0
  BY RankStep
<1>9. o[0] = 0
  BY <1>5 DEF Layout
<1> HIDE DEF E
<1>10. DataKept(o, E, E, 0, E)
  BY <1>7 DEF DataKept, ListsKept, TxsKept, BlockListsKept, CopiesKept, ConnectionsKept,
    TakesKept
<1>11. ConnectionMapKept(o, E, 0, E) /\ BlockMapKept(E, E, E)
  BY <1>7 DEF ConnectionMapKept, BlockMapKept
<1>12. IndicesKept(o, E, 0, compiler)
  BY <1>4, <1>7, <1>8, <1>9 DEF IndicesKept
<1>13. ActionsKept(o, E, 0, E)
  BY <1>7, <1>8 DEF ActionsKept
<1>14. Kept(o, E, E, 0, compiler)
  BY <1>4, <1>10, <1>11, <1>12, <1>13 DEF Kept
<1>15. SentKept(E)
  BY <1>3, <1>4, <1>7, <1>8 DEF SentKept
<1>16. Describes(o, E, E)
  BY <1>4, <1>5, <1>6, <1>7, <1>14, <1>15 DEF Describes
<1> QED
  BY <1>1, <1>2, <1>16 DEF KeptInv

\* An append changes nothing that is compiled.
LEMMA SubmitKeeps ==
  ASSUME KeptInv, NEW op \in Operation, NEW inputs, Submit(op, inputs)
  PROVE  KeptInv'
<1> DEFINE i == Instruction(op, inputs)
           vs == builder.variables
           p == builder.instructions
           vs2 == builder'.variables
           p2 == builder'.instructions
           n == Compiled
<1>1. UNCHANGED <<compiler, call, sent, errors>> /\ ~ call.running
  BY DEF Submit, Enterable
<1>2. CompilerInv /\ CompilerInv'
  BY SubmitPreserves DEF KeptInv
<1>3. builder' = append(builder, i) /\ i \in InstructionType
  <2>1. Len(builder.variables) \in Nat
    BY <1>2, BuilderLengths DEF CompilerInv
  <2>2. inputs \in Seq(1 .. Len(builder.variables))
    BY DEF Submit
  <2>3. inputs \in Seq(Nat)
    <3>1. 1 .. Len(builder.variables) \subseteq Nat
      BY <2>1
    <3> DEFINE R == 1 .. Len(builder.variables)
    <3>2. inputs \in Seq(R) /\ R \subseteq Nat
      BY <2>2, <3>1
    <3> HIDE DEF R
    <3> QED
      BY <3>2, SeqMonotone
  <2> QED
    BY <2>3 DEF Submit, AppendInstruction, Instruction, InstructionType
<1>4. Healthy' = Healthy /\ n' = n
  BY <1>1 DEF Healthy, Compiled
<1> SUFFICES ASSUME Healthy PROVE \E o : Describes(o, vs, p)'
  BY <1>2, <1>4 DEF KeptInv
<1>5. PICK off : Describes(off, vs, p)
  BY DEF KeptInv
<1>6. PICK off2 : LayoutGrows(off, vs, p, off2, vs2, p2)
  BY <1>2, <1>3, <1>5, AppendLayout DEF CompilerInv, SafeInv, Describes
<1>7. Len(vs) \in Nat /\ Len(p) \in Nat /\ Len(vs2) \in Nat /\ Len(p2) \in Nat
  BY <1>2, BuilderLengths DEF CompilerInv
<1>8. /\ Layout(off2, vs2, p2) /\ Len(p) <= Len(p2) /\ Len(vs) <= Len(vs2)
      /\ \A k \in 0 .. Len(p) : off2[k] = off[k]
      /\ \A k \in 1 .. Len(p) : p2[k] = p[k]
      /\ \A v \in 1 .. Len(vs) : vs2[v].var = vs[v].var
  BY <1>6 DEF LayoutGrows
<1>9. n \in 0 .. Len(p) /\ Represents(off, n, vs, compiler.variables)
      /\ Kept(off, vs, p, n, compiler) /\ SentKept(p)
  BY <1>5 DEF Describes
<1>10. Len(compiler.variables) = off[n] /\ off[n] \in 0 .. Len(vs)
  BY <1>5, <1>9 DEF Represents, Layout, Describes
<1> DEFINE m == Len(compiler.variables)
<1>11. \A v \in 1 .. m : v \in 1 .. Len(vs)
  BY <1>7, <1>10
<1>12. Same(off, vs, p, off2, vs2, p2, n, m)
  <2> HIDE DEF n
  <2>1. \A d \in 1 .. n : d \in 1 .. Len(p) /\ d \in 0 .. Len(p) /\ d - 1 \in 0 .. Len(p)
    BY <1>7, <1>9
  <2>2. n \in Nat /\ n <= Len(p) /\ n <= Len(p2)
    BY <1>7, <1>8, <1>9
  <2> QED
    BY <1>7, <1>8, <1>11, <2>1, <2>2 DEF Same
<1>13. Kept(off2, vs2, p2, n, compiler)
  BY <1>8, <1>9, <1>12, SameKept
<1>14. Represents(off2, n, vs2, compiler.variables)
  BY <1>8, <1>9, <1>11 DEF Represents
<1>15. n \in 0 .. Len(p2)
  <2> HIDE DEF n
  <2> QED
    BY <1>7, <1>8, <1>9
<1>16. Rank(Emitting(p2), compiler.last_compiled_instruction) =
         Rank(Emitting(p), compiler.last_compiled_instruction)
  BY <1>9, <1>12, SameRanks DEF SentKept
<1>17. SentKept(p)'
  BY <1>1, <1>4, <1>9, <1>16 DEF SentKept
<1>18. /\ Layout(off2, vs2, p2) /\ ~ call'.running /\ n' \in 0 .. Len(p2)
       /\ Represents(off2, n', vs2, compiler'.variables)
       /\ Kept(off2, vs2, p2, n', compiler')
  BY <1>1, <1>4, <1>8, <1>13, <1>14, <1>15
<1>19. /\ (call.running => call.next \in Nat)' /\ (Compiled \in 0 .. Len(p))'
       /\ Represents(off2, Compiled', vs', compiler'.variables)
       /\ Kept(off2, vs', p', Compiled', compiler') /\ Layout(off2, vs', p')
  BY <1>18
<1> QED
  BY <1>17, <1>19 DEF Describes

\* A call starts: what was sent is all there is.
LEMMA CompileFromKeeps ==
  ASSUME KeptInv, CompileFrom
  PROVE  KeptInv'
<1> DEFINE n == Compiled
           vs == builder.variables
           p == builder.instructions
           last == compiler.last_compiled_instruction
<1>1. /\ ~ call.running /\ UNCHANGED <<builder, compiler, sent, errors>>
      /\ call' = [running |-> TRUE, next |-> last + 1, actions_before |-> Len(compiler.actions)]
  BY DEF CompileFrom, Enterable
<1>2. CompilerInv'
  BY CompileFromPreserves DEF KeptInv
<1>3. Healthy' = Healthy
  BY <1>1 DEF Healthy
<1> SUFFICES ASSUME Healthy PROVE \E o : Describes(o, vs, p)'
  BY <1>2, <1>3 DEF KeptInv
<1>4. PICK off : Describes(off, vs, p)
  BY DEF KeptInv
<1>5. n = last
  BY <1>1 DEF Compiled
<1>6. /\ Layout(off, vs, p) /\ n \in 0 .. Len(p) /\ Represents(off, n, vs, compiler.variables)
      /\ Kept(off, vs, p, n, compiler) /\ SentKept(p)
  BY <1>4 DEF Describes
<1>7. n \in Nat
  BY <1>6
<1>8. call'.running /\ call'.next = n + 1 /\ call'.actions_before = Len(compiler.actions)
  BY <1>1, <1>5
<1>9. n' = n /\ call'.next \in Nat
  <2>1. n' = call'.next - 1
    BY <1>8 DEF Compiled
  <2> HIDE DEF n
  <2> QED
    BY <1>7, <1>8, <2>1
<1>10. Len(sent) = Len(compiler.actions)
  BY <1>5, <1>6 DEF SentKept, Kept, ActionsKept
<1>11. SentKept(p)'
  BY <1>1, <1>6, <1>8, <1>9, <1>10 DEF SentKept
<1>12. /\ Layout(off, vs', p') /\ Compiled' \in 0 .. Len(p')
       /\ Represents(off, Compiled', vs', compiler'.variables)
       /\ Kept(off, vs', p', Compiled', compiler')
  BY <1>1, <1>6, <1>9
<1> QED
  BY <1>9, <1>11, <1>12 DEF Describes

\* One instruction later.
LEMMA KeptStep ==
  ASSUME NEW off, NEW vs, NEW p, NEW n, NEW c, Compiles(off, vs, p, n, c), NEW now,
         Kept(off, vs, p, n - 1, c)
  PROVE  Kept(off, vs, p, n, compile_instruction(c, p[n], now))
<1> DEFINE c2 == compile_instruction(c, p[n], now)
           cvs2 == c2.variables
<1>1. /\ c2.actions = c.actions \o emitted(c, p[n])
      /\ c2.connection_map = update_connection_map(c, p[n])
      /\ c2.block_tx_var_map = update_block_map(c, p[n], now)
  BY DEF Compiles, compile_instruction, new_compiler
<1>2. Becomes(off, vs, p, n, c, now, cvs2)
  BY CompiledVariables
<1>3. /\ DataKept(off, vs, p, n - 1, c.variables)
      /\ ConnectionMapKept(off, p, n - 1, c.connection_map)
      /\ BlockMapKept(vs, c.variables, c.block_tx_var_map)
      /\ IndicesKept(off, p, n - 1, c)
      /\ ActionsKept(off, p, n - 1, c.actions)
  BY DEF Kept
<1>4. IndicesKept(off, p, n, c2)
  BY <1>3, IndicesStep
<1> HIDE DEF c2
<1>5. DataKept(off, vs, p, n, cvs2)
  BY <1>2, <1>3, DataStep
<1>6. ConnectionMapKept(off, p, n, update_connection_map(c, p[n]))
  BY <1>3, ConnectionMapStep
<1>7. BlockMapKept(vs, cvs2, update_block_map(c, p[n], now))
  BY <1>2, <1>3, BlockMapStep DEF DataKept
<1>8. ActionsKept(off, p, n, c.actions \o emitted(c, p[n]))
  BY <1>3, ActionsStep DEF DataKept
<1>9. Kept(off, vs, p, n, c2)
  BY <1>1, <1>4, <1>5, <1>6, <1>7, <1>8 DEF Kept
<1> QED
  BY <1>9 DEF c2

\* A compiled instruction keeps what was sent a prefix of the actions.
LEMMA CompileInstructionKeeps ==
  ASSUME KeptInv, NEW now, CompileInstruction(now)
  PROVE  KeptInv'
<1> DEFINE n == Compiled
           vs == builder.variables
           p == builder.instructions
           d == call.next
           c == compiler
           last == compiler.last_compiled_instruction
<1>1. /\ call.running /\ call.next <= Len(p)
      /\ compiler' = compile_instruction(compiler, p[d], now)
      /\ call' = [call EXCEPT !.next = @ + 1]
      /\ UNCHANGED <<builder, sent, errors>>
  BY DEF CompileInstruction
<1>2. CompilerInv /\ CompilerInv'
  BY CompileInstructionPreserves DEF KeptInv
<1>3. Healthy' = Healthy
  BY <1>1 DEF Healthy
<1> SUFFICES ASSUME Healthy PROVE \E o : Describes(o, vs, p)'
  BY <1>2, <1>3 DEF KeptInv
<1>4. PICK off : Describes(off, vs, p)
  BY DEF KeptInv
<1>5. /\ Layout(off, vs, p) /\ n \in 0 .. Len(p) /\ d \in Nat /\ n = d - 1
      /\ Represents(off, n, vs, c.variables)
      /\ Kept(off, vs, p, n, c) /\ SentKept(p)
  BY <1>1, <1>4 DEF Describes, Compiled
<1>6. Len(p) \in Nat /\ Len(vs) \in Nat
      /\ \A k \in 1 .. Len(p) : p[k].operation \in Operation
  BY <1>2, BuilderLengths DEF CompilerInv
<1>7. d \in 1 .. Len(p) /\ d \in 0 .. Len(p)
  BY <1>1, <1>5, <1>6
<1>8. /\ call'.running /\ call'.next = d + 1 /\ call'.actions_before = call.actions_before
      /\ DOMAIN c = DOMAIN new_compiler
  BY <1>1, <1>2 DEF CompilerInv, Idle
<1>9. n' = d /\ call'.next \in Nat
  <2>1. n' = call'.next - 1
    BY <1>8 DEF Compiled
  <2> HIDE DEF n
  <2> QED
    BY <1>5, <1>8, <2>1
<1>10. Compiles(off, vs, p, d, c)
  BY <1>5, <1>6, <1>7, <1>8 DEF Compiles
<1>11. Kept(off, vs, p, d - 1, c)
  BY <1>5
<1>12. Kept(off, vs, p, d, compiler')
  BY <1>1, <1>10, <1>11, KeptStep
<1>13. Represents(off, d, vs, compiler'.variables)
  BY <1>1, <1>10, CompiledVariables DEF Becomes
<1>14. /\ compiler'.actions = c.actions \o emitted(c, p[d])
       /\ compiler'.last_compiled_instruction = last
  BY <1>1, <1>8 DEF compile_instruction, new_compiler
<1>15. SentKept(p)'
  <2>1. /\ last \in 0 .. n /\ \E S : sent \in Seq(S)
        /\ Len(sent) = Rank(Emitting(p), last)
        /\ \A k \in 1 .. Len(sent) : sent[k] = c.actions[k]
        /\ call.actions_before = Len(sent)
    BY <1>1, <1>5 DEF SentKept
  <2>2. last \in 0 .. d
    <3> HIDE DEF n, d
    <3> QED
      BY <1>5, <2>1
  <2>3. \A k \in 1 .. Len(sent) : (c.actions \o emitted(c, p[d]))[k] = c.actions[k]
    <3>1. PICK S : c.actions \in Seq(S)
      BY <1>5 DEF Kept, ActionsKept
    <3>2. emitted(c, p[d]) \in Seq({emitted(c, p[d])[1]})
      BY <1>10, <1>11, EmitsWhatIsAsked DEF Kept, DataKept
    <3> DEFINE e == emitted(c, p[d])
               U == S \cup {e[1]}
               l == c.actions
    <3>3. l \in Seq(U) /\ e \in Seq(U)
      <4>1. S \subseteq U /\ {e[1]} \subseteq U
        OBVIOUS
      <4> HIDE DEF U
      <4> QED
        BY <3>1, <3>2, <4>1, SeqMonotone
    <3>4. Len(l) = Rank(Emitting(p), n)
      BY <1>5 DEF Kept, ActionsKept
    <3>5. last \in Nat /\ n \in Nat /\ last <= n
      BY <1>5, <2>1
    <3>6. Len(sent) <= Len(l) /\ Len(sent) \in Nat /\ Len(l) \in Nat
      <4> DEFINE s == sent
                 g == Emitting(p)
      <4> HIDE DEF n, last, l, s, g
      <4>1. Rank(g, last) <= Rank(g, n)
        BY <3>5, RankGrows
      <4>2. Rank(g, last) \in Nat /\ Rank(g, n) \in Nat
        BY <3>5, RankStep
      <4>3. Len(s) = Rank(g, last) /\ Len(l) = Rank(g, n)
        BY <2>1, <3>4 DEF s, g
      <4> QED
        BY <4>1, <4>2, <4>3 DEF s
    <3> HIDE DEF e, l, U
    <3>7. \A k \in 1 .. Len(l) + Len(e) : (l \o e)[k] = IF k <= Len(l) THEN l[k] ELSE e[k - Len(l)]
      BY <3>3, ConcatProperties
    <3>8. Len(e) \in Nat
      BY <3>3
    <3>9. \A k \in 1 .. Len(sent) : k \in 1 .. Len(l) + Len(e) /\ k <= Len(l)
      BY <3>6, <3>8
    <3>10. \A k \in 1 .. Len(sent) : (l \o e)[k] = l[k]
      BY <3>7, <3>9
    <3> QED
      BY <3>10 DEF l, e
  <2>4. \A k \in 1 .. Len(sent) : sent[k] = compiler'.actions[k]
    BY <1>14, <2>1, <2>3
  <2> QED
    BY <1>1, <1>8, <1>9, <1>14, <2>1, <2>2, <2>4 DEF SentKept
<1>16. /\ Layout(off, vs', p') /\ Compiled' \in 0 .. Len(p')
       /\ Represents(off, Compiled', vs', compiler'.variables)
       /\ Kept(off, vs', p', Compiled', compiler')
  BY <1>1, <1>5, <1>7, <1>9, <1>12, <1>13
<1> QED
  BY <1>9, <1>15, <1>16 DEF Describes

\* Once a call has failed nothing is kept.
LEMMA CompileErrorKeeps ==
  ASSUME KeptInv, CompileError
  PROVE  KeptInv'
<1>1. CompilerInv'
  BY CompileErrorPreserves DEF KeptInv
<1>2. PICK S : errors \in Seq(S)
  BY DEF KeptInv, CompilerInv
<1> DEFINE e == outcome(compiler, builder.instructions[call.next])
           U == S \cup {e}
<1>3. errors' = Append(errors, e)
  BY DEF CompileError
<1>4. errors \in Seq(U) /\ e \in U
  BY <1>2
<1> HIDE DEF U, e
<1>5. ~ Healthy'
  BY <1>3, <1>4 DEF Healthy
<1> QED
  BY <1>1, <1>5 DEF KeptInv

\* A call that returns sends the rest of the actions.
LEMMA CompileReturnKeeps ==
  ASSUME KeptInv, CompileReturn
  PROVE  KeptInv'
<1> DEFINE n == Compiled
           vs == builder.variables
           p == builder.instructions
           c == compiler
           a == call.actions_before
           l == compiler.actions
           rest == SubSeq(l, a + 1, Len(l))
<1>1. /\ call.running /\ call.next > Len(p) /\ call' = Idle
      /\ compiler' = [compiler EXCEPT !.last_compiled_instruction = Len(p)]
      /\ sent' = sent \o rest
      /\ UNCHANGED <<builder, errors>>
  BY DEF CompileReturn
<1>2. CompilerInv /\ CompilerInv'
  BY CompileReturnPreserves DEF KeptInv
<1>3. Healthy' = Healthy
  BY <1>1 DEF Healthy
<1> SUFFICES ASSUME Healthy PROVE \E o : Describes(o, vs, p)'
  BY <1>2, <1>3 DEF KeptInv
<1>4. PICK off : Describes(off, vs, p)
  BY DEF KeptInv
<1>5. /\ Layout(off, vs, p) /\ n \in 0 .. Len(p) /\ call.next \in Nat /\ n = call.next - 1
      /\ Represents(off, n, vs, c.variables)
      /\ Kept(off, vs, p, n, c) /\ SentKept(p)
  BY <1>1, <1>4 DEF Describes, Compiled
<1>6. Len(p) \in Nat
  BY <1>2, BuilderLengths DEF CompilerInv
<1>7. n = Len(p)
  BY <1>1, <1>5, <1>6
<1>8. /\ compiler'.variables = c.variables /\ compiler'.actions = l
      /\ compiler'.connection_map = c.connection_map
      /\ compiler'.block_tx_var_map = c.block_tx_var_map
      /\ compiler'.variable_indices = c.variable_indices
      /\ compiler'.action_indices = c.action_indices
      /\ compiler'.instructions = c.instructions
      /\ compiler'.last_compiled_instruction = Len(p)
  BY <1>1, <1>2 DEF CompilerInv, new_compiler
<1>9. ~ call'.running /\ n' = n
  BY <1>1, <1>7, <1>8 DEF Idle, Compiled
<1>10. Kept(off, vs, p, n, compiler')
  BY <1>5, <1>8 DEF Kept, IndicesKept
<1>11. /\ \E S : sent' \in Seq(S)
       /\ Len(sent') = Len(l)
       /\ \A k \in 1 .. Len(sent') : sent'[k] = l[k]
  <2>1. /\ c.last_compiled_instruction \in 0 .. n /\ \E S : sent \in Seq(S)
        /\ Len(sent) = Rank(Emitting(p), c.last_compiled_instruction)
        /\ \A k \in 1 .. Len(sent) : sent[k] = l[k]
        /\ a = Len(sent)
    BY <1>1, <1>5 DEF SentKept
  <2>2. (\E S : l \in Seq(S)) /\ Len(l) = Rank(Emitting(p), n)
    BY <1>5 DEF Kept, ActionsKept
  <2>3. a <= Len(l) /\ a \in Nat /\ Len(l) \in Nat
    <3> DEFINE last == c.last_compiled_instruction
               g == Emitting(p)
    <3>1. last \in Nat /\ n \in Nat /\ last <= n
      BY <1>5, <2>1
    <3>2. a = Rank(g, last) /\ Len(l) = Rank(g, n)
      BY <2>1, <2>2
    <3> HIDE DEF last, n, a, l, g
    <3>3. Rank(g, last) <= Rank(g, n)
      BY <3>1, RankGrows
    <3>4. Rank(g, last) \in Nat /\ Rank(g, n) \in Nat
      BY <3>1, RankStep
    <3> QED
      BY <3>2, <3>3, <3>4
  <2>4. PICK S : sent \in Seq(S)
    BY <2>1
  <2>5. PICK T : l \in Seq(T)
    BY <2>2
  <2> DEFINE U == S \cup T
  <2>6. sent \in Seq(U) /\ l \in Seq(U)
    <3>1. S \subseteq U /\ T \subseteq U
      OBVIOUS
    <3> HIDE DEF U
    <3> QED
      BY <2>4, <2>5, <3>1, SeqMonotone
  <2> DEFINE s == sent
  <2> HIDE DEF U, a, l, s
  <2>7. /\ rest \in Seq(U) /\ Len(rest) = Len(l) - a
        /\ \A k \in 1 .. Len(l) - a : rest[k] = l[a + k]
    BY <2>3, <2>6
  <2> HIDE DEF rest
  <2>8. /\ s \o rest \in Seq(U)
        /\ Len(s \o rest) = Len(s) + Len(rest)
        /\ \A k \in 1 .. Len(s) + Len(rest) :
             (s \o rest)[k] = IF k <= Len(s) THEN s[k] ELSE rest[k - Len(s)]
    BY <2>6, <2>7, ConcatProperties DEF s
  <2>9. Len(s) = a /\ Len(s) + Len(rest) = Len(l)
    BY <2>1, <2>3, <2>7 DEF s
  <2>10. ASSUME NEW k \in 1 .. Len(l) PROVE (s \o rest)[k] = l[k]
    <3>1. CASE k <= a
      BY <2>1, <2>3, <2>8, <2>9, <3>1 DEF s
    <3>2. CASE ~ (k <= a)
      <4>1. k - a \in 1 .. Len(l) - a /\ a + (k - a) = k
        BY <2>3, <3>2
      <4> QED
        BY <2>7, <2>8, <2>9, <3>2, <4>1
    <3> QED
      BY <3>1, <3>2
  <2>11. sent' = s \o rest
    BY <1>1 DEF s
  <2> QED
    BY <2>8, <2>9, <2>10, <2>11
<1>12. Len(l) = Rank(Emitting(p), Len(p))
  BY <1>5, <1>7 DEF Kept, ActionsKept
<1>13. SentKept(p)'
  <2>1. Len(p) \in 0 .. n
    BY <1>6, <1>7
  <2> QED
    BY <1>1, <1>8, <1>9, <1>11, <1>12, <2>1 DEF SentKept
<1>14. /\ Layout(off, vs', p') /\ Compiled' \in 0 .. Len(p')
       /\ Represents(off, Compiled', vs', compiler'.variables)
       /\ Kept(off, vs', p', Compiled', compiler')
  BY <1>1, <1>5, <1>8, <1>9, <1>10
<1> QED
  BY <1>9, <1>13, <1>14 DEF Describes

\* Whatever callers append and however they batch their calls.
LEMMA KeptInvariant == CompilerSpec => []KeptInv
<1>1. CompilerInit => KeptInv
  BY InitKept
<1>2. KeptInv /\ [CompilerNext]_compiler_vars => KeptInv'
  <2> SUFFICES ASSUME KeptInv, [CompilerNext]_compiler_vars PROVE KeptInv'
    OBVIOUS
  <2>1. ASSUME NEW op \in Operation, NEW inputs, Submit(op, inputs) PROVE KeptInv'
    BY <2>1, SubmitKeeps
  <2>2. CASE CompileFrom
    BY <2>2, CompileFromKeeps
  <2>3. ASSUME NEW now \in Second, CompileInstruction(now) PROVE KeptInv'
    BY <2>3, CompileInstructionKeeps
  <2>4. CASE CompileError
    BY <2>4, CompileErrorKeeps
  <2>5. CASE CompileReturn
    BY <2>5, CompileReturnKeeps
  <2>6. CASE UNCHANGED compiler_vars
    BY <2>6 DEF compiler_vars, KeptInv, CompilerInv, SpendsResolve, Healthy, Compiled, Describes,
      SentKept
  <2> QED
    BY <2>1, <2>2, <2>3, <2>4, <2>5, <2>6 DEF CompilerNext
<1> QED
  BY <1>1, <1>2, PTL DEF CompilerSpec

\* The facts a healthy state gives.
LEMMA WhatIsKept ==
  ASSUME KeptInv, Healthy
  PROVE  \E off : /\ Describes(off, builder.variables, builder.instructions)
                  /\ Layout(off, builder.variables, builder.instructions)
                  /\ Len(builder.variables) \in Nat /\ Len(builder.instructions) \in Nat
                  /\ \A k \in 1 .. Len(builder.instructions) :
                       builder.instructions[k].operation \in Operation
BY BuilderLengths DEF KeptInv, CompilerInv, Describes

\* What an action is for, as the program's text defines it.
LEMMA AskedAsks ==
  ASSUME NEW off, NEW vs, NEW p, Layout(off, vs, p), Len(vs) \in Nat, Len(p) \in Nat,
         \A k \in 1 .. Len(p) : p[k].operation \in Operation,
         NEW d \in 1 .. Len(p), NEW a, Asked(off, p, d, a)
  PROVE  AsksFor(p, d, a)
<1>1. ASSUME NEW k \in 1 .. d - 1, off[k - 1] + 1 <= off[k]
      PROVE  DefinerOf(p, off[k - 1] + 1) = k
  <2>1. k \in 1 .. Len(p)
    OBVIOUS
  <2>2. off[k - 1] \in Nat /\ off[k] \in Nat
    BY <2>1, LayoutOffsets
  <2> DEFINE v == off[k - 1] + 1
  <2>3. v \in off[k - 1] + 1 .. off[k]
    BY <1>1, <2>2
  <2> HIDE DEF v
  <2>4. DefinerOf(p, v) = k
    BY <2>1, <2>3, DefinerIs
  <2> QED
    BY <2>4 DEF v
<1>2. a.message \in Sends => a.conn = ConnectionOf(p, p[d].inputs[1])
  BY <1>1 DEF Asked, AskedConn, ConnectionOf
<1>3. a.message \in ListSends => Len(a.payload[1]) = Additions(p, p[d].inputs[2])
  BY <1>1 DEF Asked, AskedList, Additions
<1> QED
  BY <1>2, <1>3 DEF Asked, AsksFor

\* Until a call fails, what compile_from has handed to its callers is one action
\* per sending instruction of the compiled program, in order, each addressed to
\* the connection its instruction names and holding the list the program built
\* for it: however the callers batch their appends and calls.
THEOREM CompilerSendsOnce == CompilerSpec => []SentExactlyOnce
<1>1. KeptInv => SentExactlyOnce
  <2> DEFINE vs == builder.variables
             p == builder.instructions
             n == compiler.last_compiled_instruction
             g == Emitting(p)
  <2> SUFFICES ASSUME KeptInv, Healthy
               PROVE  /\ Len(sent) = Rank(g, n)
                      /\ \A d \in g \cap 1 .. n : AsksFor(p, d, sent[Rank(g, d)])
    BY DEF SentExactlyOnce
  <2>1. PICK off : /\ Describes(off, vs, p) /\ Layout(off, vs, p)
                   /\ Len(vs) \in Nat /\ Len(p) \in Nat
                   /\ \A k \in 1 .. Len(p) : p[k].operation \in Operation
    BY WhatIsKept
  <2>2. /\ n \in 0 .. Compiled /\ Compiled \in 0 .. Len(p)
        /\ Len(sent) = Rank(g, n)
        /\ \A k \in 1 .. Len(sent) : sent[k] = compiler.actions[k]
        /\ ActionsKept(off, p, Compiled, compiler.actions)
    BY <2>1 DEF Describes, SentKept, Kept
  <2>3. ASSUME NEW d \in g \cap 1 .. n PROVE AsksFor(p, d, sent[Rank(g, d)])
    <3> DEFINE m == Compiled
    <3>0. n \in 0 .. m /\ m \in 0 .. Len(p) /\ ActionsKept(off, p, m, compiler.actions)
      BY <2>2
    <3> HIDE DEF m, n
    <3>1. /\ d \in Nat \ {0} /\ d - 1 \in Nat /\ n \in Nat /\ d <= n
          /\ d \in 1 .. m /\ d \in 1 .. Len(p) /\ d \in g
      BY <2>1, <3>0
    <3>2. Asked(off, p, d, compiler.actions[Rank(g, d)])
      BY <3>0, <3>1 DEF ActionsKept
    <3>3. AsksFor(p, d, compiler.actions[Rank(g, d)])
      BY <2>1, <3>1, <3>2, AskedAsks
    <3> HIDE DEF g
    <3>4. Rank(g, d) = Rank(g, d - 1) + 1 /\ Rank(g, d - 1) \in Nat
      BY <3>1, RankOfMember, RankStep
    <3>5. Rank(g, d) <= Rank(g, n) /\ Rank(g, n) \in Nat
      BY <3>1, RankGrows, RankStep
    <3>6. Rank(g, d) \in 1 .. Len(sent)
      BY <2>2, <3>4, <3>5 DEF n
    <3> QED
      BY <2>2, <3>3, <3>6
  <2> QED
    BY <2>2, <2>3
<1> QED
  BY <1>1, KeptInvariant, PTL

\* A program's own count of its variables, in terms of a layout.
CountsOffsets(off, n, q) == \A d \in 1 .. n : VariablesBefore(q)[d] = off[d - 1]

\* It is the layout of any program that it is a prefix of.
LEMMA PrefixLayout ==
  ASSUME NEW off, NEW vs, NEW p, Layout(off, vs, p), Len(vs) \in Nat, Len(p) \in Nat,
         \A k \in 1 .. Len(p) : p[k].operation \in Operation,
         NEW n \in 0 .. Len(p), NEW q, Len(q) = n, \A d \in 1 .. n : q[d] = p[d]
  PROVE  CountsOffsets(off, n, q)
<1> DEFINE off2 == [k \in 0 .. n |-> off[k]]
           vs2 == [v \in 1 .. off[n] |-> vs[v]]
<1>1. \A d \in 0 .. Len(p) : off[d] \in Nat /\ off[d] <= Len(vs)
  BY LayoutOffsets
<1>2. n \in Nat /\ n <= Len(p) /\ off[n] \in Nat
  BY <1>1
<1>3. Len(vs2) = off[n]
  BY <1>2
<1>4. \A v \in 1 .. off[n] : vs2[v] = vs[v]
  OBVIOUS
<1>5. \A d \in 0 .. n : off2[d] = off[d] /\ d \in 0 .. Len(p) /\ off[d] <= off[n]
  <2>1. ASSUME NEW d \in 0 .. n PROVE off[d] <= off[n]
    <3>1. d \in 0 .. Len(p) /\ d <= n
      BY <1>2
    <3> QED
      BY <3>1, LayoutMonotone
  <2> QED
    BY <1>2, <2>1
<1>6. off2 \in [0 .. n -> 0 .. off[n]]
  BY <1>1, <1>2, <1>5
<1> HIDE DEF off2, vs2
<1>7. Layout(off2, vs2, q)
  <2>1. off2[0] = 0 /\ off2[n] = off[n]
    BY <1>2, <1>5 DEF Layout
  <2>2. ASSUME NEW k \in 1 .. n
        PROVE  /\ off2[k] = off2[k - 1] + Len(Defined(q[k].operation))
               /\ \A j \in 1 .. Len(Defined(q[k].operation)) :
                    vs2[off2[k - 1] + j].var = Defined(q[k].operation)[j]
               /\ ReadsBefore(vs2, off2[k - 1], q[k])
    <3>1. /\ k \in 1 .. Len(p) /\ k \in 0 .. n /\ k - 1 \in 0 .. n
          /\ k \in 0 .. Len(p) /\ k - 1 \in 0 .. Len(p)
      BY <1>2
    <3>2. /\ off2[k] = off[k] /\ off2[k - 1] = off[k - 1] /\ q[k] = p[k]
          /\ off[k] <= off[n] /\ off[k - 1] <= off[n]
          /\ off[k] \in Nat /\ off[k - 1] \in Nat
      BY <1>1, <1>5, <3>1
    <3> DEFINE D == Defined(p[k].operation)
               a == off[k - 1]
               b == off[k]
               z == off[n]
    <3>3. /\ b = a + Len(D)
          /\ \A j \in 1 .. Len(D) : vs[a + j].var = D[j]
          /\ ReadsBefore(vs, a, p[k])
      BY <3>1 DEF Layout
    <3>4. Len(D) \in Nat
      BY <3>1, AppendsDefined
    <3>5. a \in Nat /\ b \in Nat /\ z \in Nat /\ b <= z /\ a <= z
      BY <1>2, <3>2
    <3> HIDE DEF D, a, b, z
    <3>6. \A j \in 1 .. Len(D) : a + j \in 1 .. z
      BY <3>3, <3>4, <3>5
    <3>7. \A j \in 1 .. Len(D) : vs2[a + j].var = D[j]
      BY <1>4, <3>3, <3>6 DEF z
    <3>8. \A v \in 1 .. a : vs2[v].var = vs[v].var
      <4>1. \A v \in 1 .. a : v \in 1 .. z
        BY <3>5
      <4> QED
        BY <1>4, <4>1 DEF z
    <3>9. ReadsBefore(vs2, a, p[k])
      BY <3>3, <3>8 DEF ReadsBefore
    <3> QED
      BY <3>2, <3>3, <3>7, <3>9 DEF D, a, b
  <2> QED
    BY <1>3, <1>6, <2>1, <2>2 DEF Layout
<1>8. \A k \in 1 .. Len(q) : q[k].operation \in Operation
  BY <1>2
<1>9. \A d \in 1 .. n + 1 : VariablesBefore(q)[d] = off2[d - 1]
  <2>1. Len(vs2) \in Nat /\ Len(q) \in Nat
    BY <1>2, <1>3
  <2>2. \A d \in 1 .. Len(q) + 1 : VariablesBefore(q)[d] = off2[d - 1]
    BY <1>7, <1>8, <2>1, VariablesBeforeIs
  <2> QED
    BY <2>2
<1>10. \A d \in 1 .. n : d \in 1 .. n + 1 /\ d - 1 \in 0 .. n
  BY <1>2
<1> QED
  BY <1>5, <1>9, <1>10 DEF CountsOffsets

\* Until a call fails, a transaction hands out its outputs in turn, to whichever
\* instruction takes next: two takes give the same Txo only if they are a whole
\* number of turns apart.
THEOREM CompilerTakesRotate == CompilerSpec => []TakesRotate
<1>1. KeptInv => TakesRotate
  <2> DEFINE vs == builder.variables
             all == builder.instructions
             cvs == compiler.variables
             m == Compiled
             p == SubSeq(all, 1, m)
             taken(d) == cvs[VariablesBefore(p)[d] + 1].data.prev_out
  <2> SUFFICES ASSUME KeptInv, Healthy,
                      NEW t \in {v \in 1 .. Len(cvs) : cvs[v].rust = "Tx"},
                      Len(cvs[t].data.txos) > 0,
                      NEW j \in TakesFrom(p, t), NEW k \in TakesFrom(p, t)
               PROVE  (taken(j) = taken(k)) <=>
                        (Rank(TakesFrom(p, t), j - 1) % Len(cvs[t].data.txos) =
                         Rank(TakesFrom(p, t), k - 1) % Len(cvs[t].data.txos))
    BY Zenon DEF TakesRotate
  <2> DEFINE txos == cvs[t].data.txos
             turn(d) == Rank(TakesFrom(p, t), d - 1)
             turn0(d) == Rank(TakesFrom(all, t), d - 1)
  <2>1. PICK off : /\ Describes(off, vs, all) /\ Layout(off, vs, all)
                   /\ Len(vs) \in Nat /\ Len(all) \in Nat
                   /\ \A i \in 1 .. Len(all) : all[i].operation \in Operation
    BY WhatIsKept
  <2>2. /\ m \in 0 .. Len(all) /\ TxsKept(all, m, cvs) /\ TakesKept(off, all, m, cvs)
        /\ Represents(off, m, vs, cvs)
    BY <2>1 DEF Describes, Kept, DataKept
  <2>3. Len(p) = m /\ m \in Nat /\ \A d \in 1 .. m : p[d] = all[d] /\ d \in 1 .. Len(all)
    <3> HIDE DEF m
    <3>1. all \in Seq(InstructionType)
      BY BuilderFields DEF KeptInv, CompilerInv, SafeInv, Inv
    <3> QED
      BY <2>1, <2>2, <3>1
  <2>4. \A d \in 1 .. m : VariablesBefore(p)[d] = off[d - 1]
    <3> HIDE DEF p, m
    <3>1. \A d \in 1 .. m : p[d] = all[d]
      BY <2>3
    <3>2. CountsOffsets(off, m, p)
      BY <2>1, <2>2, <2>3, <3>1, PrefixLayout
    <3> QED
      BY <3>2 DEF CountsOffsets
  <2>5. Apart(txos) /\ \E T : txos \in Seq(T)
    <3>1. GoodTx(cvs, cvs[t].data)
      BY <2>2 DEF Represents, GoodValues, GoodValue
    <3> QED
      BY <2>2, <3>1 DEF TxsKept, GoodTx, GoodTxos
  <2>6. Len(txos) \in Nat \ {0} /\ txos # << >>
    BY <2>5
  <2> HIDE DEF m, p
  <2>7. ASSUME NEW d \in TakesFrom(p, t)
        PROVE  /\ taken(d) = txos[1 + (turn(d) % Len(txos))].prev_out
               /\ turn(d) \in Nat
    <3>1. /\ d \in 1 .. m /\ p[d].operation.name \in Takes /\ p[d].inputs[1] = t
      BY <2>3 DEF TakesFrom, Takes
    <3>2. d - 1 \in Nat /\ p[d] = all[d]
      BY <2>3, <3>1
    <3>3. cvs[off[d - 1] + 1].data.prev_out = Took(all, d, txos)
      BY <2>2, <2>6, <3>1, <3>2 DEF TakesKept
    <3>4. turn0(d) = turn(d)
      <4>1. \A i \in 1 .. d - 1 : i \in 1 .. m
        BY <2>3, <3>1
      <4>2. \A i \in 1 .. d - 1 : i \in TakesFrom(all, t) <=> i \in TakesFrom(p, t)
        BY <2>3, <4>1 DEF TakesFrom
      <4> QED
        BY <3>2, <4>2, RankOf
    <3>5. turn(d) \in Nat
      BY <3>2, RankStep
    <3> QED
      BY <2>4, <3>1, <3>2, <3>3, <3>4, <3>5 DEF Took
  <2> DEFINE x == turn(j) % Len(txos)
             y == turn(k) % Len(txos)
             N == Len(txos)
  <2>8. taken(j) = txos[1 + x].prev_out /\ taken(k) = txos[1 + y].prev_out
    BY <2>7
  <2>9. x \in 0 .. N - 1 /\ y \in 0 .. N - 1
    <3>1. turn(j) \in Nat /\ turn(k) \in Nat /\ N \in Nat \ {0}
      BY <2>6, <2>7
    <3> DEFINE a == turn(j)
               b == turn(k)
    <3> HIDE DEF a, b, N
    <3>2. a % N \in 0 .. N - 1 /\ b % N \in 0 .. N - 1
      BY <3>1 DEF a, b
    <3> QED
      BY <3>2 DEF a, b, N
  <2> HIDE DEF x, y, taken
  <2>10. 1 + x \in 1 .. N /\ 1 + y \in 1 .. N
    BY <2>6, <2>9
  <2>11. taken(j) = taken(k) => 1 + x = 1 + y
    BY <2>5, <2>8, <2>10 DEF Apart
  <2>12. taken(j) = taken(k) <=> x = y
    BY <2>8, <2>9, <2>11
  <2> QED
    BY <2>12 DEF x, y
<1> QED
  BY <1>1, KeptInvariant, PTL

\* Until a call fails, the metadata that the generators read is true of the
\* program: a connection's entry is the first variable that loads it, a block's
\* variables hold the block, its header and the transactions added to it, and
\* the indices count the instructions before a variable and before an action.
THEOREM CompilerMetadata == CompilerSpec => []MetadataPointsRight
<1>1. KeptInv => MetadataPointsRight
  <2> DEFINE vs == builder.variables
             p == builder.instructions
             c == compiler
             m == Compiled
             before == VariablesBefore(p)
  <2> SUFFICES ASSUME KeptInv, Healthy
               PROVE  /\ ConnectionsPointRight(p, c.connection_map)
                      /\ BlocksPointRight(vs, c.variables, c.block_tx_var_map)
                      /\ IndicesPointRight(p, m, c)
    BY DEF MetadataPointsRight
  <2>1. PICK off : /\ Describes(off, vs, p) /\ Layout(off, vs, p)
                   /\ Len(vs) \in Nat /\ Len(p) \in Nat
                   /\ \A k \in 1 .. Len(p) : p[k].operation \in Operation
    BY WhatIsKept
  <2>2. /\ m \in 0 .. Len(p) /\ ConnectionMapKept(off, p, m, c.connection_map)
        /\ BlockMapKept(vs, c.variables, c.block_tx_var_map)
        /\ IndicesKept(off, p, m, c) /\ Len(c.variables) = off[m]
    BY <2>1 DEF Describes, Kept, Represents
  <2>3. \A d \in 1 .. Len(p) + 1 : before[d] = off[d - 1]
    BY <2>1, VariablesBeforeIs
  <2> HIDE DEF m, before
  <2>4. m \in Nat /\ \A d \in 1 .. m : /\ d \in 1 .. Len(p) + 1 /\ d + 1 \in 1 .. Len(p) + 1
                                       /\ (d + 1) - 1 = d /\ d \in Nat
    BY <2>1, <2>2
  <2>5. ConnectionsPointRight(p, c.connection_map)
    <3> SUFFICES ASSUME NEW id \in DOMAIN c.connection_map
                 PROVE  \E d \in LoadsOf(p, id) : /\ c.connection_map[id] = FirstVariable(p, d)
                                                  /\ \A k \in LoadsOf(p, id) : d <= k
      BY DEF ConnectionsPointRight
    <3>1. PICK d \in 1 .. m : /\ d \in LoadsOf(p, id) /\ c.connection_map[id] = off[d - 1] + 1
                              /\ \A k \in 1 .. d - 1 : k \notin LoadsOf(p, id)
      BY <2>2 DEF ConnectionMapKept
    <3>2. off[d - 1] \in Nat
      <4>1. d \in 1 .. Len(p)
        BY <3>1 DEF LoadsOf
      <4> QED
        BY <2>1, <4>1, LayoutOffsets
    <3>3. before[d] = off[d - 1]
      BY <2>3, <2>4
    <3>4. FirstVariable(p, d) = off[d - 1] + 1
      BY <3>2, <3>3 DEF FirstVariable, before
    <3>5. ASSUME NEW k \in LoadsOf(p, id) PROVE d <= k
      <4>1. k \in Nat /\ k >= 1 /\ d \in Nat
        BY <2>1, <2>4 DEF LoadsOf
      <4>2. k \notin 1 .. d - 1
        BY <3>1
      <4> QED
        BY <4>1, <4>2
    <3> QED
      BY <3>1, <3>4, <3>5
  <2>6. BlocksPointRight(vs, c.variables, c.block_tx_var_map)
    <3> DEFINE cvs == c.variables
    <3>1. ASSUME NEW block, NEW e, BlockKept(vs, cvs, block, e)
          PROVE  /\ vs[e.header_var].var = "Header"
                 /\ vs[e.block_var].var = "Block"
                 /\ cvs[e.block_var].data = block
                 /\ cvs[e.header_var].data = [header_of |-> block]
                 /\ \A k \in DOMAIN e.tx_vars : /\ vs[e.tx_vars[k]].var = "ConstTx"
                                                /\ cvs[e.tx_vars[k]].data.body = block.txs[k]
      BY <3>1 DEF BlockKept, AddedTx
    <3> QED
      BY <2>2, <3>1 DEF BlockMapKept, BlocksPointRight
  <2>7. IndicesPointRight(p, m, c)
    <3>1. \A d \in 1 .. m : before[d] = off[d - 1] /\ before[d + 1] = off[d]
      BY <2>3, <2>4
    <3>2. \A d \in 1 .. m : \A v \in before[d] + 1 .. before[d + 1] :
            c.variable_indices[v] = Rank(Counted(p), d - 1)
      BY <2>2, <3>1 DEF IndicesKept
    <3>3. Len(c.variable_indices) = Len(c.variables) /\ Len(c.action_indices) = Rank(Sending(p), m)
          /\ \A d \in Sending(p) \cap 1 .. m :
               c.action_indices[Rank(Sending(p), d)] = Rank(Counted(p), d - 1)
      BY <2>2 DEF IndicesKept
    <3> QED
      BY <3>2, <3>3 DEF IndicesPointRight, before
  <2> QED
    BY <2>5, <2>6, <2>7 DEF m
<1> QED
  BY <1>1, KeptInvariant, PTL
=============================================================================
