--------------------------- MODULE ProgramBuilder ---------------------------
(***************************************************************************)
(* The program builder of the fuzzamoto IR (fuzzamoto-ir/src/builder.rs):  *)
(* a validating append-only assembler.  Programs are flat; scoping is kept *)
(* with a stack of scopes, a set that mirrors the ids on the stack, and a  *)
(* scope id stored with every variable.                                    *)
(*                                                                         *)
(* The builder is one record, so that the operations are functions from    *)
(* builders to builders and other components can use them.  Vec indices    *)
(* are 0-based in the source and 1-based here; `begin` is None (0) for the *)
(* global scope.  `result` is what the last append returned: "ok", an      *)
(* error of ProgramValidationError, or "panic".                            *)
(***************************************************************************)
EXTENDS Operations, Integers, FiniteSets, FiniteSetsExt, SequencesExt

CONSTANTS
  Operation,         \* the operations callers append
  num_nodes,         \* ProgramContext.num_nodes
  num_connections,   \* ProgramContext.num_connections
  MaxInputs,         \* bound: inputs of one instruction
  MaxInstructions    \* bound: appends that reach the instruction checks

\* A nop carries its two output counts.
ASSUME OperationAssumption ==
  \A op \in Operation : op.name = "Nop" => op.args \in Nat \X Nat

VARIABLE builder

None == 0
\* Mutant of NopScope: the global scope instead of no scope.
NopScope_global == 1

NopScope == 0        \* the scope of Nop variables: no scope ever has this id

Scope(begin, id, context) ==
  [begin |-> begin, id |-> id, context |-> context]

Instruction(op, inputs) == [operation |-> op, inputs |-> inputs]

-----------------------------------------------------------------------------
\* Scopes.

is_scope_active(b, scope_id) == scope_id \in b.active_scopes_set

is_variable_in_scope(b, v) == is_scope_active(b, b.variables[v].scope_id)

current_scope(b) == Last(b.active_scopes)

\* Mutant of enter_scope: scope ids are nesting depths.
enter_scope_by_depth(b, begin, context) ==
  LET id == Len(b.active_scopes) + 1
  IN  [b EXCEPT !.scope_counter = id,
                !.active_scopes = Append(@, Scope(begin, id, context)),
                !.active_scopes_set = @ \cup {id}]

enter_scope(b, begin, context) ==
  [b EXCEPT !.scope_counter = @ + 1,
            !.active_scopes =
               Append(@, Scope(begin, b.scope_counter + 1, context)),
            !.active_scopes_set = @ \cup {b.scope_counter + 1}]

\* Mutant of exit_scope: the id stays in the set.
exit_scope_stack_only(b) == [b EXCEPT !.active_scopes = Front(@)]

exit_scope(b) ==
  [b EXCEPT !.active_scopes = Front(@),
            !.active_scopes_set = @ \ {current_scope(b).id}]

new ==
  enter_scope([active_scopes |-> << >>, active_scopes_set |-> {},
               scope_counter |-> 0, variables |-> << >>,
               instructions |-> << >>, contexts |-> << >>, result |-> "ok"],
              None, "Global")

-----------------------------------------------------------------------------
\* append: the checks that leave the builder alone, in the source's order.

\* Mutant of InputsInScope: defined is enough.
InputsDefined(b, i) ==
  \A k \in 1 .. Len(i.inputs) : i.inputs[k] \in 1 .. Len(b.variables)

InputsInScope(b, i) ==
  \A k \in 1 .. Len(i.inputs) :
     i.inputs[k] \in 1 .. Len(b.variables) /\ is_variable_in_scope(b, i.inputs[k])

check_input_types(b, i) ==
  \A k \in 1 .. Len(i.inputs) :
     b.variables[i.inputs[k]].var = get_input_variables(i.operation)[k]

check_payload(op) ==
  IF op.name = "LoadNode" /\ op.args[1] >= num_nodes
  THEN "NodeNotFound"
  ELSE IF op.name = "LoadConnection" /\ op.args[1] >= num_connections
  THEN "ConnectionNotFound"
  ELSE IF op.name = "LoadConnectionType" /\ op.args[1] \notin {0, 1}
  THEN "InvalidConnectionType"
  ELSE "ok"

Validate(b, i) ==
  IF num_inputs(i.operation) # Len(i.inputs) THEN "InvalidNumberOfInputs"
  ELSE IF ~ InputsInScope(b, i) THEN "VariableNotDefined"
  ELSE IF ~ check_input_types(b, i) THEN "InvalidVariableType"
  ELSE check_payload(i.operation)

\* append: the part that changes the builder.

push_context(b) == [b EXCEPT !.contexts = Append(@, current_scope(b).context)]

\* A block end pops the innermost scope before it looks at what opened it.
ClosesCurrentBlock(b, i) ==
  LET begin == current_scope(b).begin
  IN  /\ begin # None
      /\ is_matching_block_begin(i.operation, b.instructions[begin].operation)

\* The scope is gone and the context pushed, but not the instruction.  The
\* global scope has no begin to look at: `last_scope.begin.unwrap()` panics.
refuse_block_end(b) ==
  [exit_scope(push_context(b)) EXCEPT
     !.result = IF current_scope(b).begin = None THEN "panic"
                ELSE "InvalidBlockEnd"]

define_variables(b, types, scope_id) ==
  [b EXCEPT !.variables =
     @ \o [k \in 1 .. Len(types) |-> [var |-> types[k], scope_id |-> scope_id]]]

accept(b, i) ==
  LET op == i.operation
      nop == op.name = "Nop"
      closed == IF is_block_end(op) THEN exit_scope(push_context(b))
                ELSE push_context(b)
      outer == define_variables(closed, get_output_variables(op),
                 IF nop THEN NopScope ELSE current_scope(closed).id)
      opened == IF is_block_begin(op)
                THEN enter_scope(outer, Len(b.instructions) + 1,
                                 entered_context_after_execution(op))
                ELSE outer
      inner == define_variables(opened, get_inner_output_variables(op),
                 IF nop THEN NopScope ELSE opened.scope_counter)
  IN  [inner EXCEPT !.instructions = Append(@, i), !.result = "ok"]

\* Mutant of append: outputs are defined before the instruction is checked.
append_defines_first(b, i) ==
  IF Validate(b, i) # "ok"
  THEN [define_variables(b, get_output_variables(i.operation),
                         current_scope(b).id) EXCEPT !.result = Validate(b, i)]
  ELSE IF is_block_end(i.operation) /\ ~ ClosesCurrentBlock(b, i)
  THEN refuse_block_end(b)
  ELSE accept(b, i)

append(b, i) ==
  IF Validate(b, i) # "ok" THEN [b EXCEPT !.result = Validate(b, i)]
  ELSE IF is_block_end(i.operation) /\ ~ ClosesCurrentBlock(b, i)
  THEN refuse_block_end(b)
  ELSE accept(b, i)

\* The builders after 0, 1, .. instructions: the first error ends the loop.
Appended(b, instructions) ==
  LET after[n \in 0 .. Len(instructions)] ==
        IF n = 0 THEN b
        ELSE LET before == after[n - 1]
             IN  IF before.result = "ok" THEN append(before, instructions[n]) ELSE before
  IN  after

\* `append_all(..)?`, in two halves only to keep the recursion of TLC's
\* evaluation shallow on long programs.
append_all(b, instructions) ==
  LET half == Len(instructions) \div 2
      rest == SubSeq(instructions, half + 1, Len(instructions))
      middle == Appended(b, instructions)[half]
  IN  IF middle.result = "ok" THEN Appended(middle, rest)[Len(rest)] ELSE middle

from_program(instructions) == append_all(new, instructions)

\* finalize only looks: Ok(program), an error, or the accounting assertion.
finalize(b) ==
  IF Len(b.active_scopes) # Cardinality(b.active_scopes_set) THEN "panic"
  ELSE IF Len(b.active_scopes) # 1 THEN "ScopeStillOpen"
  ELSE "ok"

is_statically_valid(instructions) ==
  LET b == from_program(instructions)
  IN  b.result = "ok" /\ finalize(b) = "ok"

-----------------------------------------------------------------------------
Init == builder = new

\* One call of append, by a caller that keeps the builder after an error.
\* An index past the last variable is refused like the first such index.
AppendInstruction(op, inputs) ==
  /\ builder.result # "panic"
  /\ Len(builder.contexts) < MaxInstructions
  /\ builder' = append(builder, Instruction(op, inputs))

Next ==
  \E op \in Operation : \E n \in 0 .. MaxInputs :
    \E inputs \in [1 .. n -> 1 .. Len(builder.variables) + 1] :
      AppendInstruction(op, inputs)

Spec == Init /\ [][Next]_builder

-----------------------------------------------------------------------------
\* Correctness.

Result == { "ok", "panic", "InvalidNumberOfInputs", "VariableNotDefined",
            "InvalidVariableType", "NodeNotFound", "ConnectionNotFound",
            "InvalidConnectionType", "InvalidBlockEnd" }

Builder ==
  [ active_scopes : Seq([begin : Nat, id : Nat, context : InstructionContext]),
    active_scopes_set : SUBSET Nat,
    scope_counter : Nat,
    variables : Seq([var : Variable, scope_id : Nat]),
    instructions : Seq([operation : Operation, inputs : Seq(Nat)]),
    contexts : Seq(InstructionContext),
    result : Result ]

\* The types of the builder's fields.
TypeOK == builder \in Builder

\* The stack st of scopes, for instructions p and scope counter n: it starts
\* with the global scope, every other scope remembers the block begin that
\* opened it, and ids grow along the stack up to the counter.
StackInv(st, p, n) ==
  /\ st # << >> /\ st[1].begin = None /\ st[1].id = 1
  /\ \A k \in 2 .. Len(st) : /\ st[k].begin \in 1 .. Len(p)
                             /\ is_block_begin(p[st[k].begin].operation)
  /\ \A k, m \in 1 .. Len(st) : k < m => st[k].id < st[m].id
  /\ \A k \in 1 .. Len(st) : st[k].id <= n

\* Variables belong to scopes that exist, and one of a Mut type never belongs
\* to the global scope: that is why no block end can pop the global scope.
VariableInv(vs, n) ==
  \A v \in 1 .. Len(vs) : /\ vs[v].scope_id <= n
                          /\ vs[v].var \in MutVariable => vs[v].scope_id # 1

\* active_scopes_set has the ids of the stack, for quick lookups.
MirrorInv(st, ids) == ids = {st[k].id : k \in 1 .. Len(st)}

\* Scope accounting: the stack, the set and the scope ids of the variables
\* agree, whatever callers append and whichever appends are refused.
ScopeInv ==
  /\ StackInv(builder.active_scopes, builder.instructions, builder.scope_counter)
  /\ MirrorInv(builder.active_scopes, builder.active_scopes_set)
  /\ VariableInv(builder.variables, builder.scope_counter)

\* Neither append nor finalize ever panics: the global scope's missing begin
\* is never unwrapped, there is always an active scope, and the stack and the
\* set have the same size ("Internal program scope accounting bug").
NeverPanics == builder.result # "panic" /\ finalize(builder) # "panic"

\* Was some block end refused after its scope had been popped?
Torn == Len(builder.contexts) # Len(builder.instructions)

\* A reference reading of a program, from its instructions alone: the nesting
\* depth before instruction k, the variables instruction d defines, and
\* whether the block they belong to is still open before instruction k.
Depth(p, k) ==
  Cardinality({j \in 1 .. k - 1 : is_block_begin(p[j].operation)})
    - Cardinality({j \in 1 .. k - 1 : is_block_end(p[j].operation)})

\* How many variables the first d - 1 instructions define, for each d.
VariablesBefore(p) ==
  LET before[d \in 0 .. Len(p)] ==
        IF d = 0 THEN <<0>>
        ELSE LET earlier == before[d - 1]
             IN  Append(earlier, earlier[d] + num_outputs(p[d].operation)
                                            + num_inner_outputs(p[d].operation))
  IN  before[Len(p)]

FirstVariable(p, d) == 1 + VariablesBefore(p)[d]

Defines(p, d) ==
  LET before == VariablesBefore(p) IN before[d] + 1 .. before[d + 1]

StillOpen(p, d, k) == \A j \in d + 1 .. k : Depth(p, j) >= Depth(p, d + 1)

\* A refused instruction leaves no trace, unless it is a block end: rebuilding
\* the builder from its own instructions gives the same builder, so what
\* finalize returns is a statically valid program.
RoundTrip ==
  ~ Torn =>
    /\ [builder EXCEPT !.result = "ok"] = from_program(builder.instructions)
    /\ finalize(builder) = "ok" => is_statically_valid(builder.instructions)

Visible(b) == {v \in 1 .. Len(b.variables) : is_variable_in_scope(b, v)}

\* A variable that has gone out of scope (or never was in one) never comes
\* back: scope ids are not reused.
OutOfScopeForever ==
  [][\A v \in 1 .. Len(builder.variables) :
        v \in Visible(builder') => v \in Visible(builder)]_builder

\* The refinement mapping: the variables of scope s, a frame for every scope
\* that is open, and what the last instruction of a program reads.
MembersOf(vs, s) == {v \in 1 .. Len(vs) : vs[v].scope_id = s}

FramesOf(st, vs) == [k \in 1 .. Len(st) |-> MembersOf(vs, st[k].id)]

ReadsOf(p) == IF p = << >> THEN {} ELSE Range(Last(p).inputs)

\* The builder implements lexical scoping.
Lexical ==
  INSTANCE LexicalScoping WITH
    frames <- FramesOf(builder.active_scopes, builder.variables),
    count <- Len(builder.variables),
    reads <- ReadsOf(builder.instructions)

\* Every step of append is a step of the abstract frames, or changes nothing
\* a program can observe.
ImplementsLexicalScoping == Lexical!Spec
=============================================================================
