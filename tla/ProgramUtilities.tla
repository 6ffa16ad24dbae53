-------------------------- MODULE ProgramUtilities --------------------------
(***************************************************************************)
(* Operations on whole programs: turning instructions into nops and taking *)
(* the nops out again (fuzzamoto-ir/src/lib.rs, instruction.rs), splicing  *)
(* one program into another (builder.rs, mutators/combine.rs, concat.rs).  *)
(*                                                                         *)
(* A program is the sequence of its instructions; positions and variables  *)
(* are 0-based in the source and 1-based here.                             *)
(***************************************************************************)
EXTENDS ProgramBuilder

-----------------------------------------------------------------------------
\* Nops.

is_noppable(op) ==
  op.name \in OperationName /\ ~ is_block_begin(op) /\ ~ is_block_end(op)
    /\ op.name \notin {"Nop", "BuildCompactBlock", "Probe"}

\* The variables stay counted, so later inputs keep their meaning.
nop(i) ==
  Instruction(Op("Nop", <<num_outputs(i.operation),
                          num_inner_outputs(i.operation)>>), << >>)

nop_range(p, first, last) ==
  [k \in 1 .. Len(p) |-> IF k \in first .. last THEN nop(p[k]) ELSE p[k]]

IsNop(i) == i.operation.name = "Nop"

WithoutNops(p) == SelectSeq(p, LAMBDA i : ~ IsNop(i))

\* How many of the first n variables are outputs of nops.
NopVariables(p, n) ==
  Cardinality({v \in 1 .. n :
    \E d \in 1 .. Len(p) : IsNop(p[d]) /\ v \in Defines(p, d)})

\* Mutant of remove_nops: inner outputs are not counted.
remove_nops_outer_only(p) ==
  LET Gone(n) ==
        Cardinality({v \in 1 .. n :
          \E d \in 1 .. Len(p) :
            /\ IsNop(p[d])
            /\ v \in FirstVariable(p, d)
                     .. FirstVariable(p, d) + p[d].operation.args[1] - 1})
  IN  WithoutNops([k \in 1 .. Len(p) |->
        [p[k] EXCEPT !.inputs = [n \in DOMAIN @ |-> @[n] - Gone(@[n])]]])

\* variable_mapping: a variable moves down by the nop variables before it.
remove_nops(p) ==
  WithoutNops([k \in 1 .. Len(p) |->
    [p[k] EXCEPT !.inputs =
       [n \in DOMAIN @ |-> @[n] - NopVariables(p, @[n])]]])

-----------------------------------------------------------------------------
\* Splicing.

\* Mutant of shift_inputs: the threshold's own variable is left behind.
shift_inputs_above(i, threshold, offset) ==
  [i EXCEPT !.inputs =
     [n \in DOMAIN @ |-> IF @[n] > threshold + 1 THEN @[n] + offset ELSE @[n]]]

\* Input v is the source's v - 1, compared with `>= variable_threshold`.
shift_inputs(i, threshold, offset) ==
  [i EXCEPT !.inputs =
     [n \in DOMAIN @ |-> IF @[n] > threshold THEN @[n] + offset ELSE @[n]]]

append_program(b, p, threshold, offset) ==
  append_all(b, [k \in 1 .. Len(p) |-> shift_inputs(p[k], threshold, offset)])

variable_count(b) == Len(b.variables)

Concat(program, splice_with) ==
  LET first == append_program(new, program, 0, 0)
  IN  append_program(first, splice_with, 0, variable_count(first))

\* Where CombineMutator may cut: the front, or before an instruction of the
\* context.  The end of the program is not among them.
get_random_instruction_index(p, context) ==
  {0} \cup {k - 1 : k \in {j \in 1 .. Len(p) :
              current_scope(from_program(SubSeq(p, 1, j - 1))).context = context}}

Combine(program, splice_with, combine_index) ==
  LET half == append_all(new, SubSeq(program, 1, combine_index))
      middle == append_program(half, splice_with, 0, variable_count(half))
  IN  append_program(middle,
                     SubSeq(program, combine_index + 1, Len(program)),
                     variable_count(half),
                     variable_count(middle) - variable_count(half))

-----------------------------------------------------------------------------
\* What an input refers to: the defining instruction and which of its
\* variables it is.
Referent(p, v) ==
  LET d == CHOOSE j \in 1 .. Len(p) : v \in Defines(p, j)
  IN  <<d, v - FirstVariable(p, d)>>

\* Do positions of q, taken in order by f, hold the program p: the same
\* operations, reading what they read in p?
Embeds(p, q, f) ==
  \A k \in 1 .. Len(p) :
    /\ q[f[k]].operation = p[k].operation
    /\ Len(q[f[k]].inputs) = Len(p[k].inputs)
    /\ \A n \in 1 .. Len(p[k].inputs) :
         LET in_p == Referent(p, p[k].inputs[n])
         IN  Referent(q, q[f[k]].inputs[n]) = <<f[in_p[1]], in_p[2]>>

\* The positions of p's instructions that are not nops, in order.
Kept(p) == SelectSeq([k \in 1 .. Len(p) |-> k], LAMBDA k : ~ IsNop(p[k]))

\* Is q the valid program p with its nops taken out, valid and reading the
\* same things?
SameWithoutNops(p, q) ==
  LET kept == Kept(p)
      Place(k) == Cardinality({j \in 1 .. Len(kept) : kept[j] <= k})
  IN  /\ is_statically_valid(q)
      /\ Len(q) = Len(kept)
      /\ \A k \in 1 .. Len(q) :
           /\ q[k].operation = p[kept[k]].operation
           /\ \A n \in 1 .. Len(q[k].inputs) :
                LET in_p == Referent(p, p[kept[k]].inputs[n])
                IN  Referent(q, q[k].inputs[n]) = <<Place(in_p[1]), in_p[2]>>

\* A splice of two valid programs is valid and holds both of them intact.
SpliceIsIntact(b, program, splice_with, cut) ==
  /\ b.result = "ok" /\ finalize(b) = "ok"
  /\ Len(b.instructions) = Len(program) + Len(splice_with)
  /\ Embeds(program, b.instructions,
            [k \in 1 .. Len(program) |->
               IF k <= cut THEN k ELSE k + Len(splice_with)])
  /\ Embeds(splice_with, b.instructions,
            [k \in 1 .. Len(splice_with) |-> k + cut])
=============================================================================
