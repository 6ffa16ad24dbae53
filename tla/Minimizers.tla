----------------------------- MODULE Minimizers -----------------------------
(***************************************************************************)
(* The three minimizers of the fuzzamoto IR (fuzzamoto-ir/src/minimizers/) *)
(* and the loop that drives one: ask for the next candidate, run it, report*)
(* success or failure, until there is none.  Programs come from            *)
(* ProgramBuilder; whether a candidate still shows what the caller looks   *)
(* for is the caller's business and may be answered either way.            *)
(*                                                                         *)
(* Positions are 1-based: `current_index` and `current_nop` are the        *)
(* source's plus one, and current_nop is None (0) before the first call.   *)
(***************************************************************************)
EXTENDS ProgramUtilities

CONSTANT SpliceWith    \* programs that are spliced into others

VARIABLES
  minimizer,   \* the struct; `kind` says which of the three
  caller       \* phase of the loop, the best program as the caller knows it,
               \* the candidate under test, if any, and those refused

vars == <<builder, minimizer, caller>>

NoOffer == << >>

NoMinimizer == [kind |-> "none"]

-----------------------------------------------------------------------------
\* Minimizer::new.

CuttingMinimizer(p) ==
  [kind |-> "cutting", program |-> p, current |-> Len(p) \div 2, chopped |-> Len(p)]

InstrBlockMinimizer(p) ==
  [kind |-> "blocks", program |-> p, last_good |-> p, current |-> p,
   current_index |-> Max({Len(p), 1})]

NoppingMinimizer(p) ==
  [kind |-> "nopping", program |-> p, current |-> p, current_nop |-> None]

-----------------------------------------------------------------------------
\* Iterator::next.

CutDone(m) == m.current = m.chopped \/ m.current > Len(m.program)

\* Mutant of BlockBegins: a begin of any kind will do.
BlockBegins_any_kind(p, last) ==
  {b \in 1 .. last - 1 : is_block_begin(p[b].operation)}

BlockEnds(p, from) == {e \in 1 .. Min({from, Len(p)}) : is_block_end(p[e].operation)}

\* The begins that match the block end at position `last`.
BlockBegins(p, last) ==
  {b \in 1 .. last - 1 : is_matching_block_begin(p[last].operation, p[b].operation)}

\* The scan runs backwards: the first end it meets, then the first begin that
\* has the end's type.
BlockFound(m) ==
  /\ m.current_index # 1
  /\ BlockEnds(m.current, m.current_index) # {}
  /\ BlockBegins(m.current, Max(BlockEnds(m.current, m.current_index))) # {}

nop_block(m) ==
  LET last == Max(BlockEnds(m.current, m.current_index))
      first == Max(BlockBegins(m.current, last))
  IN  [m EXCEPT !.current = nop_range(@, first, last), !.current_index = first]

\* The positions below the last one tried that can be nopped.
Noppable(m) ==
  {n \in 1 .. (IF m.current_nop = None THEN Len(m.program) ELSE m.current_nop - 1) :
     is_noppable(m.current[n].operation)}

nop_next(m) ==
  LET n == Max(Noppable(m))
  IN  [m EXCEPT !.current_nop = n, !.current = nop_range(@, n, n)]

\* next returns None.
Exhausted(m) ==
  CASE m.kind = "cutting" -> CutDone(m)
    [] m.kind = "blocks" -> ~ BlockFound(m)
    [] m.kind = "nopping" -> Noppable(m) = {}

advance(m) ==
  CASE m.kind = "cutting" -> m
    [] m.kind = "blocks" -> nop_block(m)
    [] m.kind = "nopping" -> nop_next(m)

\* The item that next returns from the advanced minimizer.
candidate(m) ==
  IF m.kind = "cutting" THEN SubSeq(m.program, 1, m.current) ELSE m.current

-----------------------------------------------------------------------------
\* Minimizer::success and Minimizer::failure.

success(m) ==
  CASE m.kind = "cutting" ->
         [m EXCEPT !.chopped = m.current, !.current = m.current \div 2]
    [] m.kind = "blocks" -> [m EXCEPT !.last_good = m.current]
    [] m.kind = "nopping" -> m

\* Mutant of cut_failure: half of a gap of one is nothing.
cut_failure_no_progress(m) ==
  [m EXCEPT !.current = @ + (m.chopped - m.current) \div 2]

\* Mutant of cut_failure: one more than half, instead of at least one.
cut_failure_too_far(m) ==
  [m EXCEPT !.current = @ + (m.chopped - m.current) \div 2 + 1]

cut_failure(m) ==
  [m EXCEPT !.current = @ + Max({1, (m.chopped - m.current) \div 2})]

\* Mutant of block_failure: the refused candidate stays.
block_failure_forgets(m) == m

block_failure(m) == [m EXCEPT !.current = m.last_good]

nop_failure(m) ==
  [m EXCEPT !.current[m.current_nop] = m.program[m.current_nop]]

failure(m) ==
  CASE m.kind = "cutting" -> cut_failure(m)
    [] m.kind = "blocks" -> block_failure(m)
    [] m.kind = "nopping" -> nop_failure(m)

-----------------------------------------------------------------------------
\* The caller: it writes a program, minimizes it, and removes the nops.

MinimizersInit ==
  /\ builder = new
  /\ minimizer = NoMinimizer
  /\ caller = [phase |-> "writing", kept |-> << >>, offered |-> NoOffer,
               refused |-> {}]

Write(op, inputs) ==
  /\ caller.phase = "writing"
  /\ AppendInstruction(op, inputs) /\ builder'.result = "ok"
  /\ UNCHANGED <<minimizer, caller>>

Minimize(m) ==
  /\ caller.phase = "writing" /\ finalize(builder) = "ok"
  /\ minimizer' = m
  /\ caller' = [caller EXCEPT !.phase = "asking", !.kept = builder.instructions]
  /\ UNCHANGED builder

Ask ==
  /\ caller.phase = "asking" /\ ~ Exhausted(minimizer)
  /\ minimizer' = advance(minimizer)
  /\ caller' = [caller EXCEPT !.phase = "testing",
                              !.offered = <<candidate(advance(minimizer))>>]
  /\ UNCHANGED builder

Success ==
  /\ caller.phase = "testing"
  /\ minimizer' = success(minimizer)
  /\ caller' = [caller EXCEPT !.phase = "asking", !.kept = caller.offered[1],
                              !.offered = NoOffer]
  /\ UNCHANGED builder

Failure ==
  /\ caller.phase = "testing"
  /\ minimizer' = failure(minimizer)
  /\ caller' = [caller EXCEPT !.phase = "asking", !.offered = NoOffer,
                              !.refused = @ \cup {caller.offered[1]}]
  /\ UNCHANGED builder

Finish ==
  /\ caller.phase = "asking" /\ Exhausted(minimizer)
  /\ caller' = [caller EXCEPT !.phase = "minimized"]
  /\ UNCHANGED <<builder, minimizer>>

\* remove_nops asserts that the program it is given is valid.
RemoveNops ==
  /\ caller.phase = "minimized" /\ is_statically_valid(caller.kept)
  /\ caller' = [caller EXCEPT !.phase = "cleaned", !.kept = remove_nops(@)]
  /\ UNCHANGED <<builder, minimizer>>

Grow ==
  \E op \in Operation : \E n \in 0 .. MaxInputs :
    \E inputs \in [1 .. n -> 1 .. Len(builder.variables)] : Write(op, inputs)

Begin ==
  \/ Minimize(CuttingMinimizer(builder.instructions))
  \/ Minimize(InstrBlockMinimizer(builder.instructions))
  \/ Minimize(NoppingMinimizer(builder.instructions))

Loop == Ask \/ Success \/ Failure \/ Finish

MinimizersNext == Grow \/ Begin \/ Loop \/ RemoveNops

\* The loop runs on; nobody has to start it.
MinimizersSpec ==
  MinimizersInit /\ [][MinimizersNext]_vars /\ WF_vars(Loop)

-----------------------------------------------------------------------------
\* Correctness.

\* Is p a shorter beginning of q, or q with one more stretch of it nopped?
IsReduction(p, q) ==
  /\ p # q
  /\ \/ IsPrefix(p, q)
     \/ \E first, last \in 1 .. Len(q) : p = nop_range(q, first, last)

\* The best program so far, as the minimizer itself remembers it.
Best(m) ==
  CASE m.kind = "none" -> << >>
    [] m.kind = "cutting" -> SubSeq(m.program, 1, m.chopped)
    [] m.kind = "blocks" -> m.last_good
    [] m.kind = "nopping" -> IF caller.phase = "testing"
                             THEN nop_failure(m).current ELSE m.current

Abstract ==
  INSTANCE Minimization WITH
    Reduces <- IsReduction, started <- minimizer # NoMinimizer,
    best <- Best(minimizer), offer <- caller.offered

\* Each minimizer takes one piece at a time off the best program so far: it
\* adopts what was reported good and takes back what was reported bad, however
\* it keeps the two programs apart between the calls.
ImplementsMinimization == Abstract!Spec

\* Minimization comes to an end: next returns None after finitely many
\* verdicts, although the cutting minimizer goes up as well as down.
MinimizationEnds == (caller.phase = "asking") ~> (caller.phase = "minimized")

\* Is there a block inside a block of its own type?
SelfNested(p) ==
  \E j, k \in 1 .. Len(p) :
    /\ j < k
    /\ is_block_begin(p[j].operation) /\ p[k].operation.name = p[j].operation.name
    /\ StillOpen(p, j, k)

\* Is [first, last] a block of p that is in no other block?
OutermostBlock(p, first, last) ==
  /\ Depth(p, first) = 0 /\ is_block_begin(p[first].operation)
  /\ first < last /\ Depth(p, last + 1) = 0
  /\ \A k \in first + 1 .. last : Depth(p, k) > 0

\* When a minimizer gives up, the last step it could still make has been
\* refused: one instruction less for the cutting minimizer; one nop more, or
\* one outermost block less, with everything after it settled, for the others.
NothingLeftUntried ==
  caller.phase = "minimized" =>
    LET p == minimizer.program
        q == caller.kept
        Tried(first, last) ==
          nop_range(SubSeq(p, 1, last) \o SubSeq(q, last + 1, Len(q)), first, last)
            \in caller.refused
    IN  CASE minimizer.kind = "cutting" ->
               q = << >> \/ Front(q) \in caller.refused
          [] minimizer.kind = "blocks" ->
               ~ SelfNested(p) =>
                 \A first, last \in 1 .. Len(q) :
                   OutermostBlock(q, first, last) => Tried(first, last)
          [] minimizer.kind = "nopping" ->
               \A n \in 1 .. Len(q) : is_noppable(q[n].operation) => Tried(n, n)

\* Every block that is opened is closed, by an end of its own type.
Balanced(p) ==
  /\ Depth(p, Len(p) + 1) = 0
  /\ \A last \in 1 .. Len(p) : is_block_end(p[last].operation) =>
       \E first \in 1 .. last - 1 :
         /\ is_matching_block_begin(p[last].operation, p[first].operation)
         /\ Depth(p, first) = Depth(p, last + 1)
         /\ \A k \in first + 1 .. last : Depth(p, k) > Depth(p, first)

\* Nops never tear a block apart: what is left of the program is still well
\* nested, though its inputs may be gone.  A block inside another one of the
\* same type would be paired wrongly; no generator nests blocks like that.
BlocksStayWhole ==
  caller.phase = "testing" /\ minimizer.kind # "cutting"
    /\ ~ SelfNested(minimizer.program)
      => Balanced(caller.offered[1])

\* remove_nops keeps every other instruction and what it reads.
NopsLeaveNoTrace ==
  [][caller'.phase = "cleaned" /\ caller.phase # "cleaned" =>
       SameWithoutNops(caller.kept, caller'.kept)]_vars

\* Concatenated or combined at any point the mutator may choose, two valid
\* programs give one that holds both of them, each reading its own variables.
SplicesIntact ==
  caller.phase = "writing" /\ finalize(builder) = "ok" =>
    LET p == builder.instructions IN
    \A q \in SpliceWith :
      /\ SpliceIsIntact(Concat(p, q), p, q, Len(p))
      /\ \A cut \in get_random_instruction_index(p, "Global") :
           SpliceIsIntact(Combine(p, q, cut), p, q, cut)
=============================================================================
