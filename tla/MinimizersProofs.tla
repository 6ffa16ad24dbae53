-------------------------- MODULE MinimizersProofs --------------------------
(***************************************************************************)
(* Proofs about the minimizers, for every program callers can build and    *)
(* every sequence of verdicts: the three of them implement minimization,   *)
(* when one gives up the last step it could still make has been refused,   *)
(* and no candidate of theirs tears a block apart.                         *)
(***************************************************************************)
EXTENDS Minimizers, ProgramBuilderProofs, NaturalsInduction, WellFoundedInduction

-----------------------------------------------------------------------------
\* Programs, as sequences of whatever their instructions are.

IsProgram(p) == \E S : p \in Seq(S)

\* A program is a function on its positions.
LEMMA ProgramFacts ==
  ASSUME NEW p, IsProgram(p)
  PROVE  /\ Len(p) \in Nat
         /\ DOMAIN p = 1 .. Len(p)
         /\ p = [k \in 1 .. Len(p) |-> p[k]]
<1>1. PICK S : p \in Seq(S)
  BY DEF IsProgram
<1>2. Len(p) \in Nat /\ DOMAIN p = 1 .. Len(p) /\ p \in [1 .. Len(p) -> S]
  BY <1>1, LenProperties
<1> QED
  BY <1>2

\* A function on the positions up to n is a program of n instructions.
LEMMA FunctionIsProgram ==
  ASSUME NEW n \in Nat, NEW f, f = [k \in 1 .. n |-> f[k]]
  PROVE  IsProgram(f) /\ Len(f) = n
<1> DEFINE S == {f[k] : k \in 1 .. n}
<1>1. \A k \in 1 .. n : f[k] \in S
  OBVIOUS
<1> HIDE DEF S
<1>2. f \in [1 .. n -> S]
  BY <1>1
<1>3. f \in Seq(S)
  BY <1>2, SeqDef
<1>4. DOMAIN f = 1 .. n /\ DOMAIN f = 1 .. Len(f) /\ Len(f) \in Nat
  BY <1>2, <1>3, LenProperties
<1>5. Len(f) = n
  BY <1>4
<1> QED
  BY <1>3, <1>5 DEF IsProgram

\* Two programs of the same length with the same instructions are the same.
LEMMA SameProgram ==
  ASSUME NEW p, NEW q, IsProgram(p), IsProgram(q), Len(p) = Len(q),
         \A k \in 1 .. Len(p) : p[k] = q[k]
  PROVE  p = q
<1>1. /\ p = [k \in 1 .. Len(p) |-> p[k]]
      /\ q = [k \in 1 .. Len(q) |-> q[k]]
  BY ProgramFacts
<1>2. [k \in 1 .. Len(p) |-> p[k]] = [k \in 1 .. Len(q) |-> q[k]]
  OBVIOUS
<1> QED
  BY <1>1, <1>2

\* Nopping a stretch keeps the length and everything outside.
LEMMA NopRange ==
  ASSUME NEW p, IsProgram(p), NEW first, NEW last
  PROVE  /\ IsProgram(nop_range(p, first, last))
         /\ Len(nop_range(p, first, last)) = Len(p)
         /\ \A k \in 1 .. Len(p) :
              nop_range(p, first, last)[k] =
                IF k \in first .. last THEN nop(p[k]) ELSE p[k]
<1> DEFINE f == nop_range(p, first, last)
<1>1. Len(p) \in Nat
  BY ProgramFacts
<1>2. /\ f = [k \in 1 .. Len(p) |-> f[k]]
      /\ \A k \in 1 .. Len(p) : f[k] = IF k \in first .. last THEN nop(p[k]) ELSE p[k]
  BY DEF nop_range
<1> HIDE DEF f
<1>3. IsProgram(f) /\ Len(f) = Len(p)
  BY <1>1, <1>2, FunctionIsProgram
<1> QED
  BY <1>2, <1>3 DEF f

\* Changing one instruction keeps the length and the others.
Replaced(p, n, i) == [p EXCEPT ![n] = i]

LEMMA ReplaceOne ==
  ASSUME NEW p, IsProgram(p), NEW n \in 1 .. Len(p), NEW i
  PROVE  /\ IsProgram(Replaced(p, n, i))
         /\ Len(Replaced(p, n, i)) = Len(p)
         /\ \A k \in 1 .. Len(p) : Replaced(p, n, i)[k] = IF k = n THEN i ELSE p[k]
<1> DEFINE f == Replaced(p, n, i)
<1>1. Len(p) \in Nat /\ DOMAIN p = 1 .. Len(p)
  BY ProgramFacts
<1>2. /\ f = [k \in 1 .. Len(p) |-> f[k]]
      /\ \A k \in 1 .. Len(p) : f[k] = IF k = n THEN i ELSE p[k]
  BY <1>1 DEF Replaced
<1> HIDE DEF f
<1>3. IsProgram(f) /\ Len(f) = Len(p)
  BY <1>1, <1>2, FunctionIsProgram
<1> QED
  BY <1>2, <1>3 DEF f

\* The beginnings of a program.
LEMMA Beginning ==
  ASSUME NEW p, IsProgram(p), NEW n \in 0 .. Len(p)
  PROVE  /\ IsProgram(SubSeq(p, 1, n))
         /\ Len(SubSeq(p, 1, n)) = n
         /\ \A k \in 1 .. n : SubSeq(p, 1, n)[k] = p[k]
<1>1. Len(p) \in Nat
  BY ProgramFacts
<1>2. PICK S : p \in Seq(S)
  BY DEF IsProgram
<1>3. \A k \in 1 .. n : p[k] \in S
  BY <1>1, <1>2, ElementOfSeq
<1>4. /\ SubSeq(p, 1, n) \in Seq(S)
      /\ Len(SubSeq(p, 1, n)) = IF 1 <= n THEN n - 1 + 1 ELSE 0
      /\ \A k \in 1 .. n - 1 + 1 : SubSeq(p, 1, n)[k] = p[1 + k - 1]
  <2>1. 1 \in Int /\ n \in Int
    BY <1>1
  <2> QED
    BY ONLY <1>3, <2>1, SubSeqProperties
<1>5. n \in Nat /\ n - 1 + 1 = n /\ \A k \in 1 .. n : 1 + k - 1 = k
  BY <1>1
<1>6. Len(SubSeq(p, 1, n)) = n
  BY <1>4, <1>5
<1>7. \A k \in 1 .. n : SubSeq(p, 1, n)[k] = p[k]
  BY <1>4, <1>5
<1> QED
  BY <1>4, <1>6, <1>7 DEF IsProgram

\* A beginning of a beginning is a beginning.
LEMMA ShorterBeginning ==
  ASSUME NEW p, IsProgram(p), NEW n \in 0 .. Len(p), NEW m \in 0 .. n
  PROVE  SubSeq(SubSeq(p, 1, n), 1, m) = SubSeq(p, 1, m)
<1>1. Len(p) \in Nat
  BY ProgramFacts
<1> DEFINE s == SubSeq(p, 1, n)
<1>2. IsProgram(s) /\ Len(s) = n /\ \A k \in 1 .. n : s[k] = p[k]
  BY Beginning
<1>3. m \in 0 .. Len(p) /\ m \in 0 .. Len(s)
  BY <1>1, <1>2
<1> HIDE DEF s
<1>4. /\ IsProgram(SubSeq(s, 1, m)) /\ Len(SubSeq(s, 1, m)) = m
      /\ \A k \in 1 .. m : SubSeq(s, 1, m)[k] = s[k]
  BY <1>2, <1>3, Beginning
<1>5. /\ IsProgram(SubSeq(p, 1, m)) /\ Len(SubSeq(p, 1, m)) = m
      /\ \A k \in 1 .. m : SubSeq(p, 1, m)[k] = p[k]
  BY <1>3, Beginning
<1>6. \A k \in 1 .. m : k \in 1 .. n
  BY <1>1
<1>7. \A k \in 1 .. m : SubSeq(s, 1, m)[k] = SubSeq(p, 1, m)[k]
  BY <1>2, <1>4, <1>5, <1>6
<1>8. SubSeq(s, 1, m) = SubSeq(p, 1, m)
  BY <1>4, <1>5, <1>7, SameProgram
<1> QED
  BY <1>8 DEF s

-----------------------------------------------------------------------------
\* Numbers.

\* A set of positions that is not empty has a greatest one.
LEMMA GreatestPosition ==
  ASSUME NEW n \in Nat, NEW T, T \subseteq 1 .. n, T # {}
  PROVE  Max(T) \in T /\ \A y \in T : Max(T) >= y
<1> DEFINE U == {n - y : y \in T}
           R == {ss \in Nat \X Nat : ss[1] < ss[2]}
<1>1. U \subseteq Nat /\ U # {}
  <2>1. \A y \in T : n - y \in Nat
    OBVIOUS
  <2>2. U \subseteq Nat
    BY <2>1
  <2>3. PICK y \in T : TRUE
    OBVIOUS
  <2>4. n - y \in U
    OBVIOUS
  <2> HIDE DEF U
  <2> QED
    BY <2>2, <2>4
<1>2. IsWellFoundedOn(R, Nat)
  BY NatLessThanWellFounded DEF OpToRel
<1>3. PICK u \in U : \A y \in U : <<y, u>> \notin R
  <2> HIDE DEF U
  <2> QED
    BY <1>1, <1>2, WFMin
<1>4. \A y \in U : ~ (y < u)
  <2>1. \A y \in U : <<y, u>> \in Nat \X Nat /\ <<y, u>>[1] = y /\ <<y, u>>[2] = u
    BY <1>1
  <2> QED
    BY <1>3, <2>1
<1>5. PICK x \in T : u = n - x
  OBVIOUS
<1>6. \A y \in T : x >= y
  <2>1. SUFFICES ASSUME NEW y \in T PROVE x >= y
    OBVIOUS
  <2>2. ~ (n - y < n - x)
    BY <1>4, <1>5
  <2>3. x \in Int /\ y \in Int
    OBVIOUS
  <2> QED
    BY ONLY <2>2, <2>3, n \in Nat
<1>7. \E x0 \in T : \A y \in T : x0 >= y
  BY <1>6
<1> QED
  BY ONLY <1>7 DEF Max

\* The greater and the smaller of two numbers.
LEMMA OfTwo ==
  ASSUME NEW a \in Int, NEW b \in Int
  PROVE  /\ Max({a, b}) = IF a >= b THEN a ELSE b
         /\ Min({a, b}) = IF a <= b THEN a ELSE b
<1>1. \E x \in {a, b} : \A y \in {a, b} : x >= y
  OBVIOUS
<1>2. Max({a, b}) \in {a, b} /\ \A y \in {a, b} : Max({a, b}) >= y
  BY <1>1 DEF Max
<1>3. \E x \in {a, b} : \A y \in {a, b} : x <= y
  OBVIOUS
<1>4. Min({a, b}) \in {a, b} /\ \A y \in {a, b} : Min({a, b}) <= y
  BY <1>3 DEF Min
<1>5. Max({a, b}) = IF a >= b THEN a ELSE b
  BY <1>2
<1>6. Min({a, b}) = IF a <= b THEN a ELSE b
  BY <1>4
<1> QED
  BY <1>5, <1>6

\* Half of a number.
LEMMA Half ==
  ASSUME NEW n \in Nat
  PROVE  /\ n \div 2 \in 0 .. n
         /\ n \div 2 = n => n = 0
         /\ n >= 1 => n \div 2 < n
  OBVIOUS

-----------------------------------------------------------------------------
\* Blocks in a program.

\* Does the end at e close the block that begins at b?
Pair(p, b, e) ==
  /\ is_matching_block_begin(p[e].operation, p[b].operation)
  /\ Depth(p, b) = Depth(p, e + 1)
  /\ \A k \in b + 1 .. e : Depth(p, k) > Depth(p, b)

\* So far every end has its begin, and there are never more ends than begins.
Nested(p) ==
  /\ \A k \in 1 .. Len(p) + 1 : Depth(p, k) >= 0
  /\ \A e \in 1 .. Len(p) : is_block_end(p[e].operation) =>
       \E b \in 1 .. e - 1 : Pair(p, b, e)

WellNested(p) == Nested(p) /\ Depth(p, Len(p) + 1) = 0

\* The builder's stack of scopes is the blocks that are open.
StackIsDepth(st, p) ==
  /\ Depth(p, Len(p) + 1) = Len(st) - 1
  /\ \A s \in 2 .. Len(st) :
       /\ Depth(p, st[s].begin) = s - 2
       /\ \A k \in st[s].begin + 1 .. Len(p) + 1 : Depth(p, k) >= s - 1

-----------------------------------------------------------------------------
\* Nesting depths.

\* How many elements of T are from a to b - 1.
CountIn(T, a, b) == Cardinality(T \cap (a .. b - 1))

\* Counting up to b is counting up to a, and from a on.
LEMMA CountSplit ==
  ASSUME NEW T, NEW a \in Nat, a # 0, NEW b \in Nat, a <= b
  PROVE  /\ CountIn(T, 1, a) \in Nat /\ CountIn(T, 1, b) \in Nat /\ CountIn(T, a, b) \in Nat
         /\ CountIn(T, 1, b) = CountIn(T, 1, a) + CountIn(T, a, b)
<1> DEFINE A == T \cap (1 .. a - 1)
           B == T \cap (a .. b - 1)
<1>1. IsFiniteSet(1 .. a - 1) /\ IsFiniteSet(a .. b - 1)
  <2>1. 1 \in Int /\ a - 1 \in Int /\ a \in Int /\ b - 1 \in Int
    OBVIOUS
  <2> QED
    BY <2>1, FS_Interval
<1>2. IsFiniteSet(A) /\ IsFiniteSet(B)
  <2>1. A \in SUBSET (1 .. a - 1) /\ B \in SUBSET (a .. b - 1)
    OBVIOUS
  <2> HIDE DEF A, B
  <2> QED
    BY <1>1, <2>1, FS_Subset
<1>3. A \cup B = T \cap (1 .. b - 1)
  <2>1. \A k : k \in 1 .. b - 1 <=> k \in 1 .. a - 1 \/ k \in a .. b - 1
    OBVIOUS
  <2> QED
    BY <2>1
<1>4. A \cap B = {}
  <2>1. \A k \in 1 .. a - 1 : k \notin a .. b - 1
    OBVIOUS
  <2> QED
    BY <2>1
<1> HIDE DEF A, B
<1>5. /\ IsFiniteSet(A \cup B)
      /\ Cardinality(A \cup B) = Cardinality(A) + Cardinality(B) - Cardinality(A \cap B)
  BY <1>2, FS_Union
<1>6. Cardinality(A) \in Nat /\ Cardinality(B) \in Nat /\ Cardinality(A \cup B) \in Nat
  BY <1>2, <1>5, FS_CardinalityType
<1>7. Cardinality(A \cap B) = 0
  BY <1>4, FS_EmptySet
<1>8. Cardinality(A \cup B) = Cardinality(A) + Cardinality(B)
  BY <1>5, <1>6, <1>7
<1> QED
  BY <1>3, <1>6, <1>8 DEF A, B, CountIn

\* What the instructions from a to b - 1 add to the depth.
BeginsIn(p, a, b) == {j \in a .. b - 1 : is_block_begin(p[j].operation)}

EndsIn(p, a, b) == {j \in a .. b - 1 : is_block_end(p[j].operation)}

LEMMA DepthSplit ==
  ASSUME NEW p, NEW a \in Nat \ {0}, NEW b \in Nat, a <= b
  PROVE  /\ Depth(p, a) \in Int /\ Depth(p, b) \in Int
         /\ Cardinality(BeginsIn(p, a, b)) \in Nat /\ Cardinality(EndsIn(p, a, b)) \in Nat
         /\ Depth(p, b) = Depth(p, a) + Cardinality(BeginsIn(p, a, b))
                                      - Cardinality(EndsIn(p, a, b))
<1> DEFINE T == {j \in Nat : is_block_begin(p[j].operation)}
           U == {j \in Nat : is_block_end(p[j].operation)}
<1>1. /\ 1 .. a - 1 \subseteq Nat /\ 1 .. b - 1 \subseteq Nat /\ a .. b - 1 \subseteq Nat
  OBVIOUS
<1>2. /\ T \cap (1 .. a - 1) = {j \in 1 .. a - 1 : is_block_begin(p[j].operation)}
      /\ T \cap (1 .. b - 1) = {j \in 1 .. b - 1 : is_block_begin(p[j].operation)}
      /\ T \cap (a .. b - 1) = BeginsIn(p, a, b)
  BY <1>1 DEF BeginsIn
<1>3. /\ U \cap (1 .. a - 1) = {j \in 1 .. a - 1 : is_block_end(p[j].operation)}
      /\ U \cap (1 .. b - 1) = {j \in 1 .. b - 1 : is_block_end(p[j].operation)}
      /\ U \cap (a .. b - 1) = EndsIn(p, a, b)
  BY <1>1 DEF EndsIn
<1> HIDE DEF T, U
<1> DEFINE ta == CountIn(T, 1, a)
           tb == CountIn(T, 1, b)
           tc == CountIn(T, a, b)
           ua == CountIn(U, 1, a)
           ub == CountIn(U, 1, b)
           uc == CountIn(U, a, b)
<1>4. ta \in Nat /\ tb \in Nat /\ tc \in Nat /\ tb = ta + tc
  BY a # 0, CountSplit
<1>5. ua \in Nat /\ ub \in Nat /\ uc \in Nat /\ ub = ua + uc
  BY a # 0, CountSplit
<1>6. Depth(p, a) = ta - ua /\ Depth(p, b) = tb - ub
  BY <1>2, <1>3 DEF Depth, CountIn
<1>7. tc = Cardinality(BeginsIn(p, a, b)) /\ uc = Cardinality(EndsIn(p, a, b))
  BY <1>2, <1>3 DEF CountIn
<1> HIDE DEF ta, tb, tc, ua, ub, uc
<1> QED
  BY <1>4, <1>5, <1>6, <1>7

\* Depths are numbers, and every program starts at the surface.
LEMMA DepthType ==
  ASSUME NEW p
  PROVE  Depth(p, 1) = 0 /\ \A k \in Nat \ {0} : Depth(p, k) \in Int
<1>1. \A k \in Nat \ {0} : Depth(p, k) \in Int
  <2>1. SUFFICES ASSUME NEW k \in Nat \ {0} PROVE Depth(p, k) \in Int
    OBVIOUS
  <2>2. 1 \in Nat \ {0} /\ 1 <= k /\ k \in Nat
    OBVIOUS
  <2> QED
    BY <2>2, DepthSplit
<1>2. Depth(p, 1) = 0
  <2>1. 1 .. 1 - 1 = {}
    OBVIOUS
  <2>2. Depth(p, 1) = Cardinality({}) - Cardinality({})
    BY <2>1 DEF Depth
  <2> QED
    BY <2>2, FS_EmptySet
<1> QED
  BY <1>1, <1>2

\* One instruction more.
LEMMA DepthNext ==
  ASSUME NEW p, NEW k \in Nat \ {0}
  PROVE  Depth(p, k + 1) = Depth(p, k) + (IF is_block_begin(p[k].operation) THEN 1 ELSE 0)
                                       - (IF is_block_end(p[k].operation) THEN 1 ELSE 0)
<1>1. k + 1 \in Nat /\ k <= k + 1 /\ k .. (k + 1) - 1 = {k}
  OBVIOUS
<1>2. /\ Depth(p, k) \in Int
      /\ Depth(p, k + 1) = Depth(p, k) + Cardinality(BeginsIn(p, k, k + 1))
                                       - Cardinality(EndsIn(p, k, k + 1))
  BY <1>1, DepthSplit
<1>3. /\ BeginsIn(p, k, k + 1) = IF is_block_begin(p[k].operation) THEN {k} ELSE {}
      /\ EndsIn(p, k, k + 1) = IF is_block_end(p[k].operation) THEN {k} ELSE {}
  BY <1>1 DEF BeginsIn, EndsIn
<1>4. Cardinality({k}) = 1 /\ Cardinality({}) = 0
  BY FS_Singleton, FS_EmptySet
<1>5. Cardinality(BeginsIn(p, k, k + 1)) = IF is_block_begin(p[k].operation) THEN 1 ELSE 0
  BY <1>3, <1>4
<1>6. Cardinality(EndsIn(p, k, k + 1)) = IF is_block_end(p[k].operation) THEN 1 ELSE 0
  BY <1>3, <1>4
<1> QED
  BY <1>2, <1>5, <1>6

\* Do the instructions i and j open and close alike?
Alike(i, j) ==
  /\ is_block_begin(i.operation) <=> is_block_begin(j.operation)
  /\ is_block_end(i.operation) <=> is_block_end(j.operation)

\* Stretches that open and close alike lead from one depth to the same.
LEMMA DepthAlike ==
  ASSUME NEW p, NEW q, NEW a \in Nat \ {0}, NEW b \in Nat, a <= b,
         Depth(p, a) = Depth(q, a), \A k \in a .. b - 1 : Alike(p[k], q[k])
  PROVE  Depth(p, b) = Depth(q, b)
<1>1. BeginsIn(p, a, b) = BeginsIn(q, a, b) /\ EndsIn(p, a, b) = EndsIn(q, a, b)
  BY DEF BeginsIn, EndsIn, Alike
<1>2. /\ Depth(p, b) = Depth(p, a) + Cardinality(BeginsIn(p, a, b))
                                   - Cardinality(EndsIn(p, a, b))
      /\ Depth(q, b) = Depth(q, a) + Cardinality(BeginsIn(q, a, b))
                                   - Cardinality(EndsIn(q, a, b))
  BY DepthSplit
<1> QED
  BY <1>1, <1>2

\* Beginnings that open and close alike.
LEMMA DepthSame ==
  ASSUME NEW p, NEW q, NEW b \in Nat \ {0}, \A k \in 1 .. b - 1 : Alike(p[k], q[k])
  PROVE  Depth(p, b) = Depth(q, b)
<1>1. 1 \in Nat \ {0} /\ b \in Nat /\ 1 <= b /\ Depth(p, 1) = Depth(q, 1)
  BY DepthType
<1> QED
  BY <1>1, DepthAlike

\* Where nothing closes, the depth does not fall; where nothing opens either,
\* it stays.
LEMMA DepthRises ==
  ASSUME NEW p, NEW a \in Nat \ {0}, NEW b \in Nat, a <= b,
         \A k \in a .. b - 1 : ~ is_block_end(p[k].operation)
  PROVE  /\ Depth(p, b) >= Depth(p, a)
         /\ (\A k \in a .. b - 1 : ~ is_block_begin(p[k].operation)) =>
               Depth(p, b) = Depth(p, a)
<1>1. EndsIn(p, a, b) = {}
  BY DEF EndsIn
<1>2. Cardinality({}) = 0
  BY FS_EmptySet
<1>3. /\ Depth(p, a) \in Int /\ Cardinality(BeginsIn(p, a, b)) \in Nat
      /\ Depth(p, b) = Depth(p, a) + Cardinality(BeginsIn(p, a, b))
                                   - Cardinality(EndsIn(p, a, b))
  BY DepthSplit
<1>4. Depth(p, b) = Depth(p, a) + Cardinality(BeginsIn(p, a, b))
  BY <1>1, <1>2, <1>3
<1>5. (\A k \in a .. b - 1 : ~ is_block_begin(p[k].operation)) => BeginsIn(p, a, b) = {}
  BY DEF BeginsIn
<1> QED
  BY <1>2, <1>3, <1>4, <1>5

\* A block end is matched by begins of one name only.
LEMMA MatchingNames ==
  ASSUME NEW e, NEW b, is_matching_block_begin(e, b)
  PROVE  /\ is_block_end(e) /\ is_block_begin(b)
         /\ \A c : is_matching_block_begin(e, c) => c.name = b.name
<1>1. is_block_end(e) /\ is_block_begin(b)
  BY DEF is_matching_block_begin, is_block_end, is_block_begin
<1>2. ASSUME NEW c, is_matching_block_begin(e, c)
      PROVE  c.name = b.name
  BY <1>2 DEF is_matching_block_begin
<1> QED
  BY <1>1, <1>2

-----------------------------------------------------------------------------
\* The builder keeps its blocks well nested.

\* The first instruction after p does not change what is below.
LEMMA DepthOfMore ==
  ASSUME NEW S, NEW p \in Seq(S), NEW i \in S
  PROVE  LET p2 == Append(p, i)
         IN  /\ Len(p2) = Len(p) + 1 /\ Len(p) \in Nat
             /\ \A k \in 1 .. Len(p) : p2[k] = p[k]
             /\ p2[Len(p) + 1] = i
             /\ \A k \in 1 .. Len(p) + 1 : Depth(p2, k) = Depth(p, k)
             /\ Depth(p2, Len(p) + 2) =
                  Depth(p, Len(p) + 1) + (IF is_block_begin(i.operation) THEN 1 ELSE 0)
                                       - (IF is_block_end(i.operation) THEN 1 ELSE 0)
<1> DEFINE p2 == Append(p, i)
<1>1. /\ Len(p2) = Len(p) + 1 /\ Len(p) \in Nat
      /\ \A k \in 1 .. Len(p) : p2[k] = p[k]
      /\ p2[Len(p) + 1] = i
  OBVIOUS
<1> HIDE DEF p2
<1>2. ASSUME NEW k \in 1 .. Len(p) + 1 PROVE Depth(p2, k) = Depth(p, k)
  <2>1. k \in Nat \ {0} /\ \A j \in 1 .. k - 1 : j \in 1 .. Len(p)
    BY <1>1
  <2>2. \A j \in 1 .. k - 1 : Alike(p2[j], p[j])
    BY <1>1, <2>1 DEF Alike
  <2> QED
    BY <2>1, <2>2, DepthSame
<1>3. Depth(p2, (Len(p) + 1) + 1) =
        Depth(p2, Len(p) + 1) + (IF is_block_begin(i.operation) THEN 1 ELSE 0)
                              - (IF is_block_end(i.operation) THEN 1 ELSE 0)
  <2>1. Len(p) + 1 \in Nat \ {0}
    BY <1>1
  <2> DEFINE n == Len(p) + 1
  <2> HIDE DEF n
  <2>2. Depth(p2, n + 1) =
          Depth(p2, n) + (IF is_block_begin(p2[n].operation) THEN 1 ELSE 0)
                       - (IF is_block_end(p2[n].operation) THEN 1 ELSE 0)
    BY <2>1, DepthNext DEF n
  <2> QED
    BY <1>1, <2>2 DEF n
<1>4. (Len(p) + 1) + 1 = Len(p) + 2 /\ Len(p) + 1 \in 1 .. Len(p) + 1
  BY <1>1
<1>5. Depth(p2, Len(p) + 2) =
        Depth(p, Len(p) + 1) + (IF is_block_begin(i.operation) THEN 1 ELSE 0)
                             - (IF is_block_end(i.operation) THEN 1 ELSE 0)
  BY <1>2, <1>3, <1>4
<1> QED
  BY <1>1, <1>2, <1>5 DEF p2

\* What was a pair stays one.
LEMMA PairOfMore ==
  ASSUME NEW p, NEW p2, NEW n \in Nat, NEW e \in 1 .. n, NEW b \in 1 .. e - 1,
         \A k \in 1 .. n : p2[k] = p[k],
         \A k \in 1 .. n + 1 : Depth(p2, k) = Depth(p, k), Pair(p, b, e)
  PROVE  Pair(p2, b, e)
<1>1. b \in 1 .. n /\ b \in 1 .. n + 1 /\ e + 1 \in 1 .. n + 1
  OBVIOUS
<1>2. \A k \in b + 1 .. e : k \in 1 .. n + 1
  OBVIOUS
<1> QED
  BY <1>1, <1>2 DEF Pair

\* One instruction more: the ends before it keep their begins.
LEMMA MoreNests ==
  ASSUME NEW p, NEW p2, NEW n \in Nat, Len(p) = n, Len(p2) = n + 1,
         \A k \in 1 .. n : p2[k] = p[k],
         \A k \in 1 .. n + 1 : Depth(p2, k) = Depth(p, k),
         Depth(p2, n + 2) \in Int, Depth(p2, n + 2) >= 0,
         Nested(p),
         is_block_end(p2[n + 1].operation) => \E b \in 1 .. n : Pair(p2, b, n + 1)
  PROVE  Nested(p2)
<1>1. ASSUME NEW k \in 1 .. Len(p2) + 1 PROVE Depth(p2, k) >= 0
  <2>1. k \in 1 .. n + 1 \/ k = n + 2
    OBVIOUS
  <2>2. \A j \in 1 .. n + 1 : Depth(p, j) >= 0
    BY DEF Nested
  <2> QED
    BY <2>1, <2>2
<1>2. ASSUME NEW e \in 1 .. Len(p2), is_block_end(p2[e].operation)
      PROVE  \E b \in 1 .. e - 1 : Pair(p2, b, e)
  <2>1. CASE e = n + 1
    <3>1. e - 1 = n
      BY <2>1
    <3> QED
      BY <1>2, <2>1, <3>1
  <2>2. CASE e # n + 1
    <3>1. e \in 1 .. n
      BY <2>2
    <3>2. PICK b \in 1 .. e - 1 : Pair(p, b, e)
      BY <1>2, <3>1 DEF Nested
    <3>3. Pair(p2, b, e)
      BY <3>1, <3>2, PairOfMore
    <3> QED
      BY <3>3
  <2> QED
    BY <2>1, <2>2
<1> QED
  BY <1>1, <1>2 DEF Nested

\* Positions after f, but not the last of the longer program.
LEMMA NotTheLast ==
  ASSUME NEW n \in Nat, NEW f \in 1 .. n, NEW k \in f + 1 .. n + 2, k # n + 2
  PROVE  k \in f + 1 .. n + 1 /\ k \in 1 .. n + 1
  OBVIOUS

\* An accepted instruction keeps the stack of scopes and the blocks in step.
LEMMA AcceptNests ==
  ASSUME NEW b, SafeInv(b), NEW i \in InstructionType,
         StackIsDepth(b.active_scopes, b.instructions), Nested(b.instructions),
         is_block_end(i.operation) => ClosesCurrentBlock(b, i)
  PROVE  /\ StackIsDepth(accept(b, i).active_scopes, accept(b, i).instructions)
         /\ Nested(accept(b, i).instructions)
<1> DEFINE p == b.instructions
           st == b.active_scopes
           p2 == accept(b, i).instructions
           st2 == accept(b, i).active_scopes
           op == i.operation
           n == Len(p)
           h == Len(st)
<1>1. /\ p \in Seq(InstructionType) /\ st \in Seq(ScopeType) /\ b \in Builder
      /\ StackInv(st, p, b.scope_counter)
  BY BuilderFields DEF SafeInv, Inv
<1>2. p2 = Append(p, i) /\ st2 = Above(b, op)
  BY <1>1, AcceptFields
<1>3. /\ Len(p2) = n + 1 /\ n \in Nat
      /\ \A k \in 1 .. n : p2[k] = p[k]
      /\ p2[n + 1] = i
      /\ \A k \in 1 .. n + 1 : Depth(p2, k) = Depth(p, k)
      /\ Depth(p2, n + 2) = Depth(p, n + 1) + (IF is_block_begin(op) THEN 1 ELSE 0)
                                            - (IF is_block_end(op) THEN 1 ELSE 0)
  <2> DEFINE a == Append(p, i)
  <2> HIDE DEF p2, p
  <2>1. /\ Len(a) = n + 1 /\ n \in Nat
        /\ \A k \in 1 .. n : a[k] = p[k]
        /\ a[n + 1] = i
        /\ \A k \in 1 .. n + 1 : Depth(a, k) = Depth(p, k)
        /\ Depth(a, n + 2) = Depth(p, n + 1) + (IF is_block_begin(op) THEN 1 ELSE 0)
                                             - (IF is_block_end(op) THEN 1 ELSE 0)
    BY <1>1, DepthOfMore
  <2> HIDE DEF a
  <2>2. p2 = a
    BY <1>2 DEF a
  <2> QED
    BY <2>1, <2>2
<1>4. h \in Nat /\ h >= 1 /\ st[1].begin = None
  <2>1. h \in Nat /\ st # << >>
    BY <1>1, ScopeIds DEF StackInv
  <2>2. h # 0
    BY <1>1, <2>1, EmptySeq
  <2> QED
    BY <1>1, <2>1, <2>2 DEF StackInv
<1>5. \A s \in 2 .. h : /\ st[s].begin \in 1 .. n
                        /\ Depth(p, st[s].begin) = s - 2
                        /\ \A k \in st[s].begin + 1 .. n + 1 : Depth(p, k) >= s - 1
  BY <1>1 DEF StackInv, StackIsDepth
<1>6. Depth(p, n + 1) = h - 1
  BY DEF StackIsDepth
<1>7. /\ is_block_begin(op) => ~ is_block_end(op)
  BY BeginIsNotEnd
<1>t. \A k \in 1 .. n + 1 : Depth(p, k) \in Int
  <2>1. \A k \in 1 .. n + 1 : k \in Nat \ {0}
    BY <1>3
  <2> QED
    BY <2>1, DepthType
<1> HIDE DEF p2, st2
<1>8. CASE is_block_end(op)
  <2>1. /\ st[h].begin # None
        /\ is_matching_block_begin(op, p[st[h].begin].operation)
    BY <1>1, <1>4, <1>8 DEF ClosesCurrentBlock, current_scope, Last
  <2>2. h >= 2 /\ h - 1 \in Nat
    BY <1>4, <2>1
  <2>3. /\ st2 = Front(st) /\ Len(st2) = h - 1
        /\ \A s \in 1 .. h - 1 : st2[s] = st[s]
    <3>1. st # << >>
      BY <1>1 DEF StackInv
    <3>2. st2 = Front(st)
      BY <1>2, <1>7, <1>8 DEF Above, Below
    <3> QED
      BY <1>1, <3>1, <3>2, FrontProperties
  <2> DEFINE f == st[h].begin
  <2>4. /\ f \in 1 .. n /\ Depth(p, f) = h - 2
        /\ \A k \in f + 1 .. n + 1 : Depth(p, k) >= h - 1
    <3>1. h \in 2 .. h
      BY <2>2
    <3> QED
      BY <1>5, <3>1
  <2> HIDE DEF f
  <2>5. Depth(p2, n + 2) = h - 2
    BY <1>3, <1>4, <1>6, <1>7, <1>8
  <2>6. Pair(p2, f, n + 1)
    <3>1. is_matching_block_begin(p2[n + 1].operation, p2[f].operation)
      BY <1>3, <2>1, <2>4 DEF f
    <3>2. f \in 1 .. n + 1 /\ (n + 1) + 1 = n + 2
      BY <1>3, <2>4
    <3>3. Depth(p2, f) = Depth(p2, (n + 1) + 1)
      BY <1>3, <2>4, <2>5, <3>2
    <3>4. ASSUME NEW k \in f + 1 .. n + 1 PROVE Depth(p2, k) > Depth(p2, f)
      <4>1. k \in 1 .. n + 1
        BY <1>3, <2>4
      <4>2. Depth(p2, k) = Depth(p, k) /\ Depth(p, k) >= h - 1 /\ Depth(p2, f) = h - 2
        BY <1>3, <2>4, <3>2, <4>1
      <4> QED
        BY <1>4, <1>t, <4>1, <4>2
    <3> QED
      BY <3>1, <3>3, <3>4 DEF Pair
  <2>7. Nested(p2)
    <3>1. Depth(p2, n + 2) \in Int /\ Depth(p2, n + 2) >= 0
      BY <2>2, <2>5
    <3> HIDE DEF p, n, h
    <3>2. Len(p) = n
      BY DEF n
    <3>3. Nested(p)
      BY DEF p
    <3> QED
      BY <1>3, <2>4, <2>6, <3>1, <3>2, <3>3, MoreNests
  <2>8. StackIsDepth(st2, p2)
    <3>1. Len(p2) + 1 = n + 2
      BY <1>3
    <3>2. Depth(p2, Len(p2) + 1) = Len(st2) - 1
      BY <1>4, <2>3, <2>5, <3>1
    <3>3. ASSUME NEW s \in 2 .. Len(st2)
          PROVE  /\ Depth(p2, st2[s].begin) = s - 2
                 /\ \A k \in st2[s].begin + 1 .. Len(p2) + 1 : Depth(p2, k) >= s - 1
      <4>1. s \in 2 .. h /\ st2[s] = st[s] /\ s <= h - 1
        BY <1>4, <2>3
      <4>2. /\ st[s].begin \in 1 .. n /\ Depth(p, st[s].begin) = s - 2
            /\ \A k \in st[s].begin + 1 .. n + 1 : Depth(p, k) >= s - 1
        BY <1>5, <4>1
      <4>3. st[s].begin \in 1 .. n + 1
        BY <1>3, <4>2
      <4>4. ASSUME NEW k \in st[s].begin + 1 .. n + 2 PROVE Depth(p2, k) >= s - 1
        <5>1. CASE k = n + 2
          BY <1>4, <2>5, <4>1, <5>1
        <5>2. CASE k # n + 2
          <6>1. k \in st[s].begin + 1 .. n + 1 /\ k \in 1 .. n + 1
            <7> DEFINE from == st[s].begin
            <7>1. from \in 1 .. n /\ k \in from + 1 .. n + 2 /\ n \in Nat
              BY <1>3, <4>2
            <7> HIDE DEF from, n
            <7>2. k \in from + 1 .. n + 1 /\ k \in 1 .. n + 1
              BY <5>2, <7>1, NotTheLast
            <7> QED
              BY <7>2 DEF from
          <6> QED
            BY <1>3, <4>2, <6>1
        <5> QED
          BY <5>1, <5>2
      <4> QED
        BY <1>3, <3>1, <4>1, <4>2, <4>3, <4>4
    <3> QED
      BY <3>2, <3>3 DEF StackIsDepth
  <2> QED
    BY <2>7, <2>8 DEF p2, st2
<1>9. CASE ~ is_block_end(op)
  <2>1. Nested(p2)
    <3>1. Depth(p2, n + 2) \in Int /\ Depth(p2, n + 2) >= 0
      BY <1>3, <1>4, <1>6, <1>9
    <3>2. ~ is_block_end(p2[n + 1].operation)
      BY <1>3, <1>9
    <3> HIDE DEF p, n, h
    <3>3. Len(p) = n
      BY DEF n
    <3>4. Nested(p)
      BY DEF p
    <3> QED
      BY <1>3, <3>1, <3>2, <3>3, <3>4, MoreNests
  <2>2. /\ Len(st2) = IF is_block_begin(op) THEN h + 1 ELSE h
        /\ \A s \in 1 .. h : st2[s] = st[s]
        /\ is_block_begin(op) => st2[h + 1].begin = n + 1
    <3>1. CASE is_block_begin(op)
      <4> DEFINE top == Scope(Len(b.instructions) + 1, b.scope_counter + 1,
                              entered_context_after_execution(op))
      <4>1. st2 = Append(st, top)
        BY <1>2, <1>9, <3>1 DEF Above, Below
      <4>2. top.begin = n + 1
        BY DEF Scope
      <4> HIDE DEF top
      <4> QED
        BY <1>1, <1>4, <3>1, <4>1, <4>2
    <3>2. CASE ~ is_block_begin(op)
      <4>1. st2 = st
        BY <1>2, <1>9, <3>2 DEF Above, Below
      <4> QED
        BY <3>2, <4>1
    <3> QED
      BY <3>1, <3>2
  <2>3. StackIsDepth(st2, p2)
    <3>1. Len(p2) + 1 = n + 2
      BY <1>3
    <3>2. Depth(p2, n + 2) = Len(st2) - 1
      BY <1>3, <1>4, <1>6, <1>9, <2>2
    <3>3. ASSUME NEW s \in 2 .. Len(st2)
          PROVE  /\ Depth(p2, st2[s].begin) = s - 2
                 /\ \A k \in st2[s].begin + 1 .. n + 2 : Depth(p2, k) >= s - 1
      <4>1. CASE s \in 2 .. h
        <5>1. st2[s] = st[s] /\ s <= h
          BY <1>4, <2>2, <4>1
        <5>2. /\ st[s].begin \in 1 .. n /\ Depth(p, st[s].begin) = s - 2
              /\ \A k \in st[s].begin + 1 .. n + 1 : Depth(p, k) >= s - 1
          BY <1>5, <4>1
        <5>3. st[s].begin \in 1 .. n + 1
          BY <1>3, <5>2
        <5>4. ASSUME NEW k \in st[s].begin + 1 .. n + 2 PROVE Depth(p2, k) >= s - 1
          <6>1. CASE k = n + 2
            BY <1>4, <2>2, <3>2, <4>1, <6>1
          <6>2. CASE k # n + 2
            <7>1. k \in st[s].begin + 1 .. n + 1 /\ k \in 1 .. n + 1
              <8> DEFINE f == st[s].begin
              <8>1. f \in 1 .. n /\ k \in f + 1 .. n + 2 /\ n \in Nat
                BY <1>3, <5>2
              <8> HIDE DEF f, n
              <8>2. k \in f + 1 .. n + 1 /\ k \in 1 .. n + 1
                BY <6>2, <8>1, NotTheLast
              <8> QED
                BY <8>2 DEF f
            <7> QED
              BY <1>3, <5>2, <7>1
          <6> QED
            BY <6>1, <6>2
        <5> QED
          BY <1>3, <5>1, <5>2, <5>3, <5>4
      <4>2. CASE s \notin 2 .. h
        <5>1. s = h + 1 /\ is_block_begin(op) /\ st2[s].begin = n + 1
          BY <1>4, <2>2, <4>2
        <5>2. n + 1 \in 1 .. n + 1 /\ Depth(p2, n + 1) = h - 1
          BY <1>3, <1>6
        <5>3. \A k \in (n + 1) + 1 .. n + 2 : k = n + 2
          BY <1>3
        <5>4. Depth(p2, n + 2) = h
          BY <1>4, <2>2, <3>2, <5>1
        <5>5. Depth(p2, st2[s].begin) = s - 2
          BY <1>4, <5>1, <5>2
        <5>6. \A k \in st2[s].begin + 1 .. n + 2 : Depth(p2, k) >= s - 1
          BY <1>4, <5>1, <5>3, <5>4
        <5> QED
          BY <5>5, <5>6
      <4> QED
        BY <4>1, <4>2
    <3> QED
      BY <3>1, <3>2, <3>3 DEF StackIsDepth
  <2> QED
    BY <2>1, <2>3 DEF p2, st2
<1> QED
  BY <1>8, <1>9 DEF p2, st2

-----------------------------------------------------------------------------
\* The inductive invariant.

\* How far the loop has come.
Phases == {"writing", "asking", "testing", "minimized", "cleaned"}

\* The cutting minimizer: what lies beyond `chopped` is gone, `current` is
\* where to cut next, and a search that has closed has met a refusal.
CuttingInv(m, testing, kept, refused) ==
  /\ DOMAIN m = {"kind", "program", "current", "chopped"}
  /\ IsProgram(m.program)
  /\ m.chopped \in 0 .. Len(m.program) /\ m.current \in 0 .. m.chopped
  /\ testing => m.current < m.chopped
  /\ kept = SubSeq(m.program, 1, m.chopped)
  /\ ~ testing /\ m.current = m.chopped =>
       m.chopped = 0 \/ SubSeq(m.program, 1, m.chopped - 1) \in refused

\* The program p up to position last, nopped from first on, and q beyond.
Trial(p, q, first, last) ==
  [k \in 1 .. Len(p) |->
     IF k < first THEN p[k] ELSE IF k <= last THEN nop(p[k]) ELSE q[k]]

\* The block minimizer has come down to position c, the place it offered last
\* or the end of the program: what is below is as it was, and every outermost
\* block from there on has been refused.
BlocksAt(m, testing, refused, c) ==
  LET p == m.program
      q == m.last_good
  IN  /\ Depth(p, c) = 0 /\ WellNested(q)
      /\ m.current_index = IF c <= Len(p) THEN c ELSE Max({Len(p), 1})
      /\ \A k \in 1 .. c - 1 : q[k] = p[k]
      /\ ~ testing /\ c <= Len(p) => ~ is_block_end(q[c].operation)
      /\ \A first, last \in 1 .. Len(p) :
           OutermostBlock(q, first, last) /\ c <= first /\ (testing => first # c) =>
             Trial(p, q, first, last) \in refused
      /\ testing => \E last \in 1 .. Len(p) :
           /\ OutermostBlock(q, c, last) /\ m.current = nop_range(q, c, last)
           /\ \A k \in 1 .. last : q[k] = p[k]

\* The block minimizer: between two offers its copies agree.
BlocksInv(m, testing, kept, refused) ==
  /\ DOMAIN m = {"kind", "program", "last_good", "current", "current_index"}
  /\ IsProgram(m.program) /\ IsProgram(m.last_good) /\ IsProgram(m.current)
  /\ Len(m.last_good) = Len(m.program) /\ Len(m.current) = Len(m.program)
  /\ m.current_index \in Nat
  /\ kept = m.last_good
  /\ ~ testing => m.current = m.last_good
  /\ WellNested(m.program)
  /\ ~ SelfNested(m.program) =>
       \E c \in 1 .. Len(m.program) + 1 : BlocksAt(m, testing, refused, c)

\* Has the nopping minimizer yet to come to position k?
Ahead(m, k) == m.current_nop = None \/ k < m.current_nop

\* The nopping minimizer: it works downwards, has not touched what is ahead,
\* and behind it every instruction it could have nopped has been refused.
NoppingInv(m, testing, kept, refused) ==
  /\ DOMAIN m = {"kind", "program", "current", "current_nop"}
  /\ IsProgram(m.program) /\ IsProgram(m.current)
  /\ Len(m.current) = Len(m.program) /\ WellNested(m.program)
  /\ m.current_nop \in 0 .. Len(m.program)
  /\ testing => m.current_nop # None
  /\ kept = IF testing THEN nop_failure(m).current ELSE m.current
  /\ testing => m.current[m.current_nop] = nop(m.program[m.current_nop])
  /\ \A k \in 1 .. Len(m.program) :
       \/ m.current[k] = m.program[k]
       \/ m.current[k] = nop(m.program[k]) /\ is_noppable(m.program[k].operation)
  /\ \A k \in 1 .. Len(m.program) :
       IF Ahead(m, k) THEN m.current[k] = m.program[k]
       ELSE (k = m.current_nop => ~ testing) /\ is_noppable(m.current[k].operation)
              => Trial(m.program, m.current, k, k) \in refused

MinimizerInv(m, testing, kept, refused) ==
  \/ m.kind = "cutting" /\ CuttingInv(m, testing, kept, refused)
  \/ m.kind = "blocks" /\ BlocksInv(m, testing, kept, refused)
  \/ m.kind = "nopping" /\ NoppingInv(m, testing, kept, refused)

\* The inductive invariant of the loop.
MinInv ==
  /\ SafeInv(builder)
  /\ DOMAIN caller = {"phase", "kept", "offered", "refused"}
  /\ caller.phase \in Phases
  /\ caller.offered = IF caller.phase = "testing" THEN <<candidate(minimizer)>> ELSE NoOffer
  /\ caller.phase = "writing" =>
       /\ minimizer = NoMinimizer
       /\ StackIsDepth(builder.active_scopes, builder.instructions)
       /\ Nested(builder.instructions)
  /\ caller.phase \in {"asking", "testing", "minimized"} =>
       MinimizerInv(minimizer, caller.phase = "testing", caller.kept, caller.refused)
  /\ caller.phase = "minimized" => Exhausted(minimizer)

-----------------------------------------------------------------------------
\* Reductions.

\* A proper beginning of a program reduces it.
LEMMA CutReduces ==
  ASSUME NEW p, IsProgram(p), NEW n \in 0 .. Len(p), NEW m \in 0 .. n, m < n
  PROVE  IsReduction(SubSeq(p, 1, m), SubSeq(p, 1, n))
<1>1. Len(p) \in Nat /\ m \in 0 .. Len(p) /\ m <= n
  BY ProgramFacts
<1>2. Len(SubSeq(p, 1, n)) = n /\ Len(SubSeq(p, 1, m)) = m
  BY <1>1, Beginning
<1>3. SubSeq(SubSeq(p, 1, n), 1, m) = SubSeq(p, 1, m)
  BY ShorterBeginning
<1>4. SubSeq(SubSeq(p, 1, m), 1, m) = SubSeq(p, 1, m)
  <2>1. m \in 0 .. m
    BY <1>1
  <2> QED
    BY <1>1, <2>1, ShorterBeginning
<1>5. IsPrefix(SubSeq(p, 1, m), SubSeq(p, 1, n))
  BY <1>1, <1>2, <1>3, <1>4 DEF IsPrefix
<1>6. SubSeq(p, 1, m) # SubSeq(p, 1, n)
  BY <1>1, <1>2
<1> QED
  BY <1>5, <1>6 DEF IsReduction

\* Nopping a stretch that holds something else than nops reduces a program.
LEMMA NopReduces ==
  ASSUME NEW p, IsProgram(p), NEW first \in 1 .. Len(p), NEW last \in 1 .. Len(p),
         NEW k \in first .. last, p[k].operation.name # "Nop"
  PROVE  IsReduction(nop_range(p, first, last), p)
<1>1. Len(p) \in Nat /\ k \in 1 .. Len(p)
  BY ProgramFacts
<1>2. nop_range(p, first, last)[k] = nop(p[k])
  BY <1>1, NopRange
<1>3. nop(p[k]).operation.name = "Nop"
  BY DEF nop, Instruction, Op
<1>4. nop_range(p, first, last) # p
  BY <1>2, <1>3
<1> QED
  BY <1>4 DEF IsReduction

\* Neither a block end nor what can be nopped is a nop.
LEMMA NotNops ==
  ASSUME NEW op, is_block_end(op) \/ is_noppable(op)
  PROVE  op.name # "Nop"
  BY DEF is_block_end, is_noppable

\* What the block minimizer finds: an end, and a begin before it.
LEMMA FoundBlock ==
  ASSUME NEW m, IsProgram(m.current), m.current_index \in Nat, BlockFound(m)
  PROVE  LET last == Max(BlockEnds(m.current, m.current_index))
             first == Max(BlockBegins(m.current, last))
         IN  /\ last \in 1 .. Len(m.current) /\ last <= m.current_index
             /\ is_block_end(m.current[last].operation)
             /\ first \in 1 .. last - 1
             /\ is_matching_block_begin(m.current[last].operation, m.current[first].operation)
<1> DEFINE p == m.current
           from == m.current_index
           last == Max(BlockEnds(p, from))
           first == Max(BlockBegins(p, last))
<1>1. Len(p) \in Nat
  BY ProgramFacts
<1>2. Min({from, Len(p)}) \in Nat /\ Min({from, Len(p)}) <= from /\ Min({from, Len(p)}) <= Len(p)
  <2>1. from \in Int /\ Len(p) \in Int
    BY <1>1
  <2>2. Min({from, Len(p)}) = IF from <= Len(p) THEN from ELSE Len(p)
    BY <2>1, OfTwo
  <2> QED
    BY <1>1, <2>2
<1>3. last \in BlockEnds(p, from)
  <2>1. BlockEnds(p, from) # {}
    BY DEF BlockFound
  <2>2. BlockEnds(p, from) \subseteq 1 .. Min({from, Len(p)})
    BY DEF BlockEnds
  <2> QED
    BY <1>2, <2>1, <2>2, GreatestPosition
<1>4. last \in 1 .. Len(p) /\ last <= from /\ is_block_end(p[last].operation)
  BY <1>1, <1>2, <1>3 DEF BlockEnds
<1>5. first \in BlockBegins(p, last)
  <2>1. BlockBegins(p, last) # {}
    BY DEF BlockFound
  <2> HIDE DEF last
  <2>2. BlockBegins(p, last) \subseteq 1 .. last - 1 /\ last - 1 \in Nat
    BY <1>1, <1>4 DEF BlockBegins
  <2> QED
    BY <2>1, <2>2, GreatestPosition
<1>6. first \in 1 .. last - 1 /\ is_matching_block_begin(p[last].operation, p[first].operation)
  <2> HIDE DEF last
  <2> QED
    BY <1>5 DEF BlockBegins
<1> HIDE DEF last, first
<1> QED
  BY <1>4, <1>6 DEF last, first

\* What the nopping minimizer finds: the last instruction ahead that can be
\* nopped.
LEMMA FoundNop ==
  ASSUME NEW m, IsProgram(m.program), m.current_nop \in 0 .. Len(m.program),
         Noppable(m) # {}
  PROVE  LET n == Max(Noppable(m))
         IN  /\ n \in 1 .. Len(m.program) /\ Ahead(m, n)
             /\ is_noppable(m.current[n].operation)
             /\ \A k \in 1 .. Len(m.program) :
                  Ahead(m, k) /\ n < k => ~ is_noppable(m.current[k].operation)
<1> DEFINE n == Max(Noppable(m))
           top == IF m.current_nop = None THEN Len(m.program) ELSE m.current_nop - 1
<1>1. Len(m.program) \in Nat
  BY ProgramFacts
<1>2. top \in Nat /\ top <= Len(m.program)
  BY <1>1 DEF None
<1>3. Noppable(m) \subseteq 1 .. top
  BY DEF Noppable
<1> HIDE DEF top
<1>4. n \in Noppable(m) /\ \A y \in Noppable(m) : n >= y
  BY <1>2, <1>3, GreatestPosition
<1> HIDE DEF n
<1>5. n \in 1 .. top /\ is_noppable(m.current[n].operation)
  BY <1>4 DEF Noppable, top
<1>6. \A k \in 1 .. Len(m.program) : Ahead(m, k) <=> k \in 1 .. top
  BY <1>1 DEF Ahead, top, None
<1>7. n \in 1 .. Len(m.program)
  BY <1>1, <1>2, <1>5
<1>8. ASSUME NEW k \in 1 .. Len(m.program), Ahead(m, k), n < k
      PROVE  ~ is_noppable(m.current[k].operation)
  <2>1. k \in 1 .. top
    BY <1>6, <1>8
  <2>2. is_noppable(m.current[k].operation) => k \in Noppable(m)
    BY <2>1 DEF Noppable, top
  <2>3. k \in Int /\ n \in Int
    BY <1>1, <1>7
  <2> QED
    BY <1>4, <1>8, <2>2, <2>3
<1> QED
  BY <1>5, <1>6, <1>7, <1>8 DEF n

-----------------------------------------------------------------------------
\* Blocks that are found, and blocks that are nopped.

\* Well nested programs are balanced.
LEMMA WellNestedIsBalanced ==
  ASSUME NEW p, IsProgram(p), WellNested(p)
  PROVE  Balanced(p)
<1>1. Len(p) \in Nat
  BY ProgramFacts
<1>2. ASSUME NEW last \in 1 .. Len(p), is_block_end(p[last].operation)
      PROVE  \E first \in 1 .. last - 1 :
               /\ is_matching_block_begin(p[last].operation, p[first].operation)
               /\ Depth(p, first) = Depth(p, last + 1)
               /\ \A k \in first + 1 .. last : Depth(p, k) > Depth(p, first)
  BY <1>2 DEF WellNested, Nested, Pair
<1> QED
  BY <1>2 DEF Balanced, WellNested

\* Programs that open and close alike, by the same operations, are well nested
\* together.
LEMMA AlikeNests ==
  ASSUME NEW p, NEW q, IsProgram(p), IsProgram(q), Len(q) = Len(p), WellNested(p),
         \A k \in 1 .. Len(p) :
           /\ Alike(q[k], p[k])
           /\ is_block_begin(p[k].operation) \/ is_block_end(p[k].operation) =>
                q[k] = p[k]
  PROVE  WellNested(q)
<1> DEFINE n == Len(p)
<1>1. n \in Nat
  BY ProgramFacts
<1>2. ASSUME NEW k \in 1 .. n + 1 PROVE Depth(q, k) = Depth(p, k)
  <2>1. k \in Nat \ {0} /\ \A j \in 1 .. k - 1 : j \in 1 .. n
    BY <1>1
  <2>2. \A j \in 1 .. k - 1 : Alike(q[j], p[j])
    BY <2>1
  <2> QED
    BY <2>1, <2>2, DepthSame
<1>3. \A k \in 1 .. n + 1 : Depth(p, k) >= 0
  BY DEF WellNested, Nested
<1>4. ASSUME NEW e \in 1 .. n, is_block_end(q[e].operation)
      PROVE  \E b \in 1 .. e - 1 : Pair(q, b, e)
  <2>1. is_block_end(p[e].operation) /\ q[e] = p[e]
    BY <1>4 DEF Alike
  <2>2. PICK b \in 1 .. e - 1 : Pair(p, b, e)
    BY <2>1 DEF WellNested, Nested
  <2>3. b \in 1 .. n /\ is_block_begin(p[b].operation)
    BY <1>1, <2>2, MatchingNames DEF Pair
  <2>4. q[b] = p[b]
    BY <2>3
  <2>5. b \in 1 .. n + 1 /\ e + 1 \in 1 .. n + 1 /\ \A k \in b + 1 .. e : k \in 1 .. n + 1
    BY <1>1, <2>2
  <2>6. Pair(q, b, e)
    BY <1>2, <2>1, <2>2, <2>4, <2>5 DEF Pair
  <2> QED
    BY <2>6
<1>5. n + 1 \in 1 .. n + 1
  BY <1>1
<1>6. Depth(q, n + 1) = 0
  BY <1>2, <1>5 DEF WellNested
<1> QED
  BY <1>2, <1>3, <1>4, <1>6 DEF WellNested, Nested

\* In a well nested program without a block inside one of its own type, the
\* nearest begin of an end's type is the one the end closes.
LEMMA NearestBegin ==
  ASSUME NEW p, IsProgram(p), Nested(p), ~ SelfNested(p), NEW e \in 1 .. Len(p),
         is_block_end(p[e].operation)
  PROVE  BlockBegins(p, e) # {} /\ Pair(p, Max(BlockBegins(p, e)), e)
<1>1. Len(p) \in Nat /\ e - 1 \in Nat
  BY ProgramFacts
<1>2. PICK b \in 1 .. e - 1 : Pair(p, b, e)
  BY DEF Nested
<1>3. b \in BlockBegins(p, e)
  BY <1>2 DEF BlockBegins, Pair
<1> DEFINE m == Max(BlockBegins(p, e))
<1>4. m \in BlockBegins(p, e) /\ m >= b
  <2>1. BlockBegins(p, e) \subseteq 1 .. e - 1
    BY DEF BlockBegins
  <2> QED
    BY <1>1, <1>3, <2>1, GreatestPosition
<1> HIDE DEF m
<1>5. m \in 1 .. e - 1 /\ is_matching_block_begin(p[e].operation, p[m].operation)
  BY <1>4 DEF BlockBegins
<1>6. CASE m = b
  BY <1>2, <1>3, <1>6 DEF m
<1>7. CASE m # b
  <2>1. b < m /\ b \in 1 .. Len(p) /\ m \in 1 .. Len(p)
    BY <1>1, <1>2, <1>4, <1>5, <1>7
  <2>2. is_block_begin(p[b].operation) /\ p[m].operation.name = p[b].operation.name
    BY <1>2, <1>5, MatchingNames DEF Pair
  <2>3. ~ is_block_end(p[b].operation)
    BY <2>2, BeginIsNotEnd
  <2>4. Depth(p, b + 1) = Depth(p, b) + 1 /\ Depth(p, b) \in Int
    <3>1. b \in Nat \ {0}
      BY <1>1, <2>1
    <3>2. Depth(p, b) \in Int
      BY <3>1, DepthType
    <3>3. Depth(p, b + 1) = Depth(p, b) + (IF is_block_begin(p[b].operation) THEN 1 ELSE 0)
                                        - (IF is_block_end(p[b].operation) THEN 1 ELSE 0)
      BY <3>1, DepthNext
    <3> QED
      BY <2>2, <2>3, <3>2, <3>3
  <2>5. ASSUME NEW j \in b + 1 .. m PROVE Depth(p, j) >= Depth(p, b + 1)
    <3>1. j \in b + 1 .. e /\ j \in Nat \ {0}
      BY <1>1, <1>2, <1>5
    <3>2. Depth(p, j) > Depth(p, b) /\ Depth(p, j) \in Int
      BY <1>2, <3>1, DepthType DEF Pair
    <3> QED
      BY <2>4, <3>2
  <2>6. SelfNested(p)
    BY <2>1, <2>2, <2>5 DEF SelfNested, StillOpen
  <2> QED
    BY <2>6
<1> QED
  BY <1>6, <1>7

\* What a nop is not.
LEMMA NopIsFlat ==
  ASSUME NEW i
  PROVE  /\ ~ is_block_begin(nop(i).operation) /\ ~ is_block_end(nop(i).operation)
         /\ ~ is_noppable(nop(i).operation)
<1>1. nop(i).operation.name = "Nop"
  BY DEF nop, Instruction, Op
<1> QED
  BY <1>1 DEF is_block_begin, is_block_end, is_noppable

\* Nopping an outermost block leaves the other blocks as they are.
LEMMA OutermostNopped ==
  ASSUME NEW q, IsProgram(q), WellNested(q), NEW f \in 1 .. Len(q), NEW l \in 1 .. Len(q),
         OutermostBlock(q, f, l)
  PROVE  /\ WellNested(nop_range(q, f, l))
         /\ \A k \in 1 .. Len(q) + 1 :
              k \notin f + 1 .. l => Depth(nop_range(q, f, l), k) = Depth(q, k)
<1> DEFINE n == Len(q)
           q2 == nop_range(q, f, l)
<1>1. n \in Nat /\ f \in Nat \ {0} /\ l \in Nat \ {0} /\ f < l
  BY ProgramFacts DEF OutermostBlock
<1>2. /\ IsProgram(q2) /\ Len(q2) = n
      /\ \A k \in 1 .. n : q2[k] = IF k \in f .. l THEN nop(q[k]) ELSE q[k]
  BY NopRange
<1>3. /\ Depth(q, f) = 0 /\ Depth(q, l + 1) = 0
      /\ \A k \in f + 1 .. l : Depth(q, k) > 0
  BY DEF OutermostBlock
<1> HIDE DEF q2
<1>4. ASSUME NEW k \in 1 .. f PROVE Depth(q2, k) = Depth(q, k)
  <2>1. k \in Nat \ {0} /\ \A j \in 1 .. k - 1 : j \in 1 .. n /\ j \notin f .. l
    BY <1>1
  <2>2. \A j \in 1 .. k - 1 : Alike(q2[j], q[j])
    BY <1>2, <2>1 DEF Alike
  <2> QED
    BY <2>1, <2>2, DepthSame
<1>5. ASSUME NEW k \in f .. l + 1 PROVE Depth(q2, k) = 0
  <2>1. k \in Nat /\ f <= k /\ f \in 1 .. f /\ \A j \in f .. k - 1 : j \in 1 .. n /\ j \in f .. l
    BY <1>1
  <2>2. \A j \in f .. k - 1 : /\ ~ is_block_end(q2[j].operation)
                              /\ ~ is_block_begin(q2[j].operation)
    BY <1>2, <2>1, NopIsFlat
  <2>3. Depth(q2, k) = Depth(q2, f)
    BY <1>1, <2>1, <2>2, DepthRises
  <2> QED
    BY <1>3, <1>4, <2>1, <2>3
<1>6. ASSUME NEW k \in l + 1 .. n + 1 PROVE Depth(q2, k) = Depth(q, k)
  <2>1. /\ k \in Nat /\ l + 1 <= k /\ l + 1 \in f .. l + 1 /\ l + 1 \in Nat \ {0}
        /\ \A j \in l + 1 .. k - 1 : j \in 1 .. n /\ j \notin f .. l
    BY <1>1
  <2>2. Depth(q2, l + 1) = Depth(q, l + 1)
    BY <1>3, <1>5, <2>1
  <2>3. \A j \in l + 1 .. k - 1 : Alike(q2[j], q[j])
    BY <1>2, <2>1 DEF Alike
  <2> DEFINE a == l + 1
  <2> HIDE DEF a
  <2>4. a \in Nat \ {0} /\ a <= k /\ Depth(q2, a) = Depth(q, a)
        /\ \A j \in a .. k - 1 : Alike(q2[j], q[j])
    BY <2>1, <2>2, <2>3 DEF a
  <2> QED
    BY <2>1, <2>4, DepthAlike
<1>7. ASSUME NEW k \in 1 .. n + 1, k \notin f + 1 .. l
      PROVE  Depth(q2, k) = Depth(q, k)
  <2>1. k \in 1 .. f \/ k \in l + 1 .. n + 1
    BY <1>1, <1>7
  <2> QED
    BY <1>4, <1>6, <2>1
<1>8. \A k \in 1 .. n + 1 : Depth(q, k) >= 0
  BY DEF WellNested, Nested
<1>9. ASSUME NEW k \in 1 .. n + 1 PROVE Depth(q2, k) >= 0
  <2>1. CASE k \in f + 1 .. l
    <3>1. k \in f .. l + 1
      BY <1>1, <2>1
    <3> QED
      BY <1>5, <3>1
  <2> QED
    BY <1>7, <1>8, <2>1
<1>10. ASSUME NEW e \in 1 .. n, is_block_end(q2[e].operation)
       PROVE  \E b \in 1 .. e - 1 : Pair(q2, b, e)
  <2>1. e \notin f .. l /\ q2[e] = q[e]
    BY <1>2, <1>10, NopIsFlat
  <2>2. PICK b \in 1 .. e - 1 : Pair(q, b, e)
    BY <1>10, <2>1 DEF WellNested, Nested
  <2>3. b \in 1 .. n /\ b \in 1 .. n + 1 /\ e + 1 \in 1 .. n + 1 /\ b \in Nat \ {0}
        /\ \A k \in b + 1 .. e : k \in 1 .. n + 1
    BY <1>1, <2>2
  <2>4. Depth(q, b) >= 0 /\ Depth(q, b) \in Int
    BY <1>8, <2>3, DepthType
  <2>5. e > l => b > l
    <3>1. ASSUME e > l, ~ (b > l) PROVE FALSE
      <4>1. l + 1 \in b + 1 .. e
        BY <1>1, <2>3, <3>1
      <4>2. Depth(q, l + 1) > Depth(q, b)
        BY <2>2, <4>1 DEF Pair
      <4> QED
        BY <1>3, <2>4, <4>2
    <3> QED
      BY <3>1
  <2>6. (e < f /\ b < f) \/ (e > l /\ b > l)
    BY <1>1, <2>1, <2>2, <2>5
  <2>7. b \notin f .. l /\ b \notin f + 1 .. l /\ e + 1 \notin f + 1 .. l
        /\ \A k \in b + 1 .. e : k \notin f + 1 .. l
    BY <1>1, <2>3, <2>6
  <2>8. q2[b] = q[b]
    BY <1>2, <2>3, <2>7
  <2>9. Depth(q2, b) = Depth(q, b) /\ Depth(q2, e + 1) = Depth(q, e + 1)
        /\ \A k \in b + 1 .. e : Depth(q2, k) = Depth(q, k)
    BY <1>7, <2>3, <2>7
  <2>10. Pair(q2, b, e)
    BY <2>1, <2>2, <2>8, <2>9 DEF Pair
  <2> QED
    BY <2>10
<1>11. Depth(q2, n + 1) = 0
  <2>1. n + 1 \in l + 1 .. n + 1
    BY <1>1
  <2> QED
    BY <1>6, <2>1 DEF WellNested
<1>12. WellNested(q2)
  BY <1>2, <1>9, <1>10, <1>11 DEF WellNested, Nested
<1> QED
  BY <1>7, <1>12 DEF q2

\* An outermost block ends where it ends.
LEMMA OneOutermost ==
  ASSUME NEW q, NEW f \in Nat, NEW l \in Nat, NEW l2 \in Nat,
         OutermostBlock(q, f, l), OutermostBlock(q, f, l2)
  PROVE  l = l2
<1>1. CASE l < l2
  <2>1. l + 1 \in f + 1 .. l2
    BY <1>1 DEF OutermostBlock
  <2>2. Depth(q, l + 1) > 0 /\ Depth(q, l + 1) = 0
    BY <2>1 DEF OutermostBlock
  <2> QED
    BY <2>2
<1>2. CASE l2 < l
  <2>1. l2 + 1 \in f + 1 .. l
    BY <1>2 DEF OutermostBlock
  <2>2. Depth(q, l2 + 1) > 0 /\ Depth(q, l2 + 1) = 0
    BY <2>1 DEF OutermostBlock
  <2> QED
    BY <2>2
<1> QED
  BY <1>1, <1>2

-----------------------------------------------------------------------------
\* What a minimizer is handed over with.

LEMMA NewCutting ==
  ASSUME NEW p, IsProgram(p), NEW refused
  PROVE  /\ CuttingMinimizer(p).kind = "cutting"
         /\ CuttingInv(CuttingMinimizer(p), FALSE, p, refused)
<1>1. Len(p) \in Nat /\ SubSeq(p, 1, Len(p)) = p
  <2>1. PICK S : p \in Seq(S)
    BY DEF IsProgram
  <2> QED
    BY <2>1, ProgramFacts, SubSeqFull
<1>2. Len(p) \div 2 \in 0 .. Len(p) /\ (Len(p) \div 2 = Len(p) => Len(p) = 0)
  BY <1>1, Half
<1>3. Len(p) \in 0 .. Len(p)
  BY <1>1
<1> DEFINE h == Len(p) \div 2
           m == CuttingMinimizer(p)
<1>4. /\ DOMAIN m = {"kind", "program", "current", "chopped"} /\ m.kind = "cutting"
      /\ m.program = p /\ m.current = h /\ m.chopped = Len(p)
  BY DEF CuttingMinimizer
<1>5. h \in 0 .. Len(p) /\ (h = Len(p) => Len(p) = 0)
  BY <1>2
<1> HIDE DEF h, m
<1>6. CuttingInv(m, FALSE, p, refused)
  BY <1>1, <1>3, <1>4, <1>5 DEF CuttingInv
<1> QED
  BY <1>4, <1>6 DEF m

LEMMA NewBlocks ==
  ASSUME NEW p, IsProgram(p), WellNested(p), NEW refused
  PROVE  /\ InstrBlockMinimizer(p).kind = "blocks"
         /\ BlocksInv(InstrBlockMinimizer(p), FALSE, p, refused)
<1>1. Len(p) \in Nat
  BY ProgramFacts
<1>2. Max({Len(p), 1}) \in Nat
  BY <1>1, OfTwo
<1> DEFINE n == Max({Len(p), 1})
           m == InstrBlockMinimizer(p)
<1>3. /\ DOMAIN m = {"kind", "program", "last_good", "current", "current_index"}
      /\ m.kind = "blocks" /\ m.program = p /\ m.last_good = p /\ m.current = p
      /\ m.current_index = n
  BY DEF InstrBlockMinimizer
<1> HIDE DEF n, m
<1> DEFINE c == Len(p) + 1
<1>4. c \in 1 .. Len(p) + 1 /\ ~ (c <= Len(p)) /\ \A first \in 1 .. Len(p) : ~ (c <= first)
  BY <1>1
<1>5. Depth(p, c) = 0
  BY DEF WellNested
<1>6. BlocksAt(m, FALSE, refused, c)
  BY <1>3, <1>4, <1>5 DEF BlocksAt, n
<1>7. BlocksInv(m, FALSE, p, refused)
  BY <1>2, <1>3, <1>4, <1>6 DEF BlocksInv, n
<1> QED
  BY <1>3, <1>7 DEF m

LEMMA NewNopping ==
  ASSUME NEW p, IsProgram(p), WellNested(p), NEW refused
  PROVE  /\ NoppingMinimizer(p).kind = "nopping"
         /\ NoppingInv(NoppingMinimizer(p), FALSE, p, refused)
<1>1. Len(p) \in Nat
  BY ProgramFacts
<1> DEFINE m == NoppingMinimizer(p)
<1>2. /\ DOMAIN m = {"kind", "program", "current", "current_nop"}
      /\ m.kind = "nopping" /\ m.program = p /\ m.current = p /\ m.current_nop = None
  BY DEF NoppingMinimizer
<1>3. 0 \in 0 .. Len(p)
  BY <1>1
<1> HIDE DEF m
<1>4. \A k \in 1 .. Len(p) : Ahead(m, k)
  BY <1>2 DEF Ahead
<1>5. NoppingInv(m, FALSE, p, refused)
  BY <1>2, <1>3, <1>4 DEF NoppingInv, None
<1> QED
  BY <1>2, <1>5 DEF m

-----------------------------------------------------------------------------
\* The cutting minimizer.

\* It offers a shorter beginning.
LEMMA AskCutting ==
  ASSUME NEW m, NEW kept, NEW refused, m.kind = "cutting",
         CuttingInv(m, FALSE, kept, refused), ~ CutDone(m)
  PROVE  /\ CuttingInv(m, TRUE, kept, refused)
         /\ IsReduction(SubSeq(m.program, 1, m.current), kept)
<1>1. Len(m.program) \in Nat /\ m.chopped \in 0 .. Len(m.program) /\ m.current \in 0 .. m.chopped
  BY ProgramFacts DEF CuttingInv
<1>2. m.current < m.chopped
  BY <1>1 DEF CutDone
<1>3. IsReduction(SubSeq(m.program, 1, m.current), SubSeq(m.program, 1, m.chopped))
  BY <1>1, <1>2, CutReduces DEF CuttingInv
<1> QED
  BY <1>2, <1>3 DEF CuttingInv

\* A good cut is adopted, and the search goes on below it.
LEMMA SuccessCutting ==
  ASSUME NEW m, NEW kept, NEW refused, m.kind = "cutting",
         CuttingInv(m, TRUE, kept, refused)
  PROVE  /\ success(m).kind = "cutting"
         /\ CuttingInv(success(m), FALSE, SubSeq(m.program, 1, m.current), refused)
<1>1. Len(m.program) \in Nat /\ m.chopped \in 0 .. Len(m.program) /\ m.current \in 0 .. m.chopped
  BY ProgramFacts DEF CuttingInv
<1>2. m.current \in Nat /\ m.current \in 0 .. Len(m.program)
  BY <1>1
<1> DEFINE h == m.current \div 2
           s == success(m)
<1>3. h \in 0 .. m.current /\ (h = m.current => m.current = 0)
  BY <1>2, Half
<1> HIDE DEF h
<1>4. s = [m EXCEPT !.chopped = m.current, !.current = h]
  BY DEF success, h
<1>5. /\ DOMAIN s = {"kind", "program", "current", "chopped"} /\ s.kind = "cutting"
      /\ s.program = m.program /\ s.chopped = m.current /\ s.current = h
  BY <1>4 DEF CuttingInv
<1> HIDE DEF s
<1>6. CuttingInv(s, FALSE, SubSeq(m.program, 1, m.current), refused)
  BY <1>2, <1>3, <1>5 DEF CuttingInv
<1> QED
  BY <1>5, <1>6 DEF s

\* A bad cut is taken back: the search goes up, and closes only at a cut that
\* has been refused.
LEMMA FailureCutting ==
  ASSUME NEW m, NEW kept, NEW refused, m.kind = "cutting",
         CuttingInv(m, TRUE, kept, refused)
  PROVE  /\ failure(m).kind = "cutting"
         /\ CuttingInv(failure(m), FALSE, kept,
                       refused \cup {SubSeq(m.program, 1, m.current)})
<1>1. /\ Len(m.program) \in Nat /\ m.chopped \in 0 .. Len(m.program)
      /\ m.current \in 0 .. m.chopped /\ m.current < m.chopped
  BY ProgramFacts DEF CuttingInv
<1> DEFINE gap == m.chopped - m.current
           step == Max({1, gap \div 2})
           s == failure(m)
           refused2 == refused \cup {SubSeq(m.program, 1, m.current)}
<1>2. gap \in Nat /\ gap >= 1
  BY <1>1
<1>3. step \in 1 .. gap /\ (step = gap => gap = 1)
  <2> HIDE DEF gap
  <2>1. gap \div 2 \in 0 .. gap /\ gap \div 2 < gap
    BY <1>2, Half
  <2> DEFINE h == gap \div 2
  <2> HIDE DEF h
  <2>2. h \in Int /\ 1 \in Int
    BY <1>2, <2>1 DEF h
  <2>3. Max({1, h}) = IF 1 >= h THEN 1 ELSE h
    BY <2>2, OfTwo
  <2> QED
    BY <1>2, <2>1, <2>2, <2>3 DEF h
<1> HIDE DEF step
<1>4. s = [m EXCEPT !.current = @ + step]
  BY DEF failure, cut_failure, step
<1>5. /\ DOMAIN s = {"kind", "program", "current", "chopped"} /\ s.kind = "cutting"
      /\ s.program = m.program /\ s.chopped = m.chopped /\ s.current = m.current + step
  BY <1>4 DEF CuttingInv
<1> HIDE DEF s
<1>6. s.current \in 0 .. s.chopped
  BY <1>1, <1>3, <1>5
<1>7. s.current = s.chopped => SubSeq(s.program, 1, s.chopped - 1) \in refused2
  <2>1. SUFFICES ASSUME s.current = s.chopped PROVE s.chopped - 1 = m.current
    BY <1>5
  <2> QED
    BY <1>1, <1>3, <1>5, <2>1
<1>8. CuttingInv(s, FALSE, kept, refused2)
  <2> HIDE DEF refused2
  <2> QED
    BY <1>5, <1>6, <1>7 DEF CuttingInv
<1> QED
  BY <1>5, <1>8 DEF s

-----------------------------------------------------------------------------
\* Trials.

\* A trial looks at the second program only beyond its stretch.
SameBeyond(q, q2, first, last, n) ==
  \A k \in 1 .. n : ~ (k < first) /\ ~ (k <= last) => q[k] = q2[k]

LEMMA TrialBeyond ==
  ASSUME NEW p, NEW q, NEW q2, NEW first, NEW last, SameBeyond(q, q2, first, last, Len(p))
  PROVE  Trial(p, q, first, last) = Trial(p, q2, first, last)
  BY DEF Trial, SameBeyond

-----------------------------------------------------------------------------
\* The block minimizer.

\* The end it finds, and the block that this end closes.
LEMMA LastEnd ==
  ASSUME NEW m, NEW kept, NEW refused, BlocksInv(m, FALSE, kept, refused),
         ~ SelfNested(m.program), NEW c \in 1 .. Len(m.program) + 1,
         BlocksAt(m, FALSE, refused, c), BlockEnds(m.current, m.current_index) # {}
  PROVE  LET q == m.last_good
             last == Max(BlockEnds(m.current, m.current_index))
             first == Max(BlockBegins(m.current, last))
         IN  /\ BlockBegins(m.current, last) # {}
             /\ last < c /\ OutermostBlock(q, first, last)
             /\ last \in 1 .. Len(q) /\ first \in 1 .. last - 1
             /\ \A j \in last + 1 .. c - 1 : ~ is_block_end(q[j].operation)
<1> DEFINE p == m.program
           q == m.last_good
           n == Len(p)
           from == m.current_index
           last == Max(BlockEnds(q, from))
           first == Max(BlockBegins(q, last))
<1>1. /\ IsProgram(p) /\ IsProgram(q) /\ Len(q) = n /\ n \in Nat /\ m.current = q
      /\ from \in Nat /\ WellNested(p)
  BY ProgramFacts DEF BlocksInv
<1>2. /\ Depth(p, c) = 0 /\ WellNested(q)
      /\ from = IF c <= n THEN c ELSE Max({n, 1})
      /\ \A k \in 1 .. c - 1 : q[k] = p[k]
      /\ c <= n => ~ is_block_end(q[c].operation)
  BY DEF BlocksAt
<1>3. c \in Nat \ {0} /\ (~ (c <= n) => c = n + 1 /\ from >= n) /\ (c <= n => from = c)
  <2>1. Max({n, 1}) = IF n >= 1 THEN n ELSE 1
    BY <1>1, OfTwo
  <2> QED
    BY <1>1, <1>2, <2>1
<1>4. Min({from, n}) \in Nat /\ Min({from, n}) = IF from <= n THEN from ELSE n
  <2>1. from \in Int /\ n \in Int
    BY <1>1
  <2> HIDE DEF from, n
  <2>2. Min({from, n}) = IF from <= n THEN from ELSE n
    BY <2>1, OfTwo
  <2> QED
    BY <1>1, <2>2
<1>5. \A e : e \in BlockEnds(q, from) <=>
               e \in 1 .. n /\ e < c /\ is_block_end(q[e].operation)
  <2>1. BlockEnds(q, from) = {e \in 1 .. Min({from, n}) : is_block_end(q[e].operation)}
    BY <1>1 DEF BlockEnds
  <2>2. ASSUME NEW e, e \in BlockEnds(q, from)
        PROVE  e \in 1 .. n /\ e < c /\ is_block_end(q[e].operation)
    <3>1. e \in 1 .. Min({from, n}) /\ is_block_end(q[e].operation)
      BY <2>1, <2>2
    <3>2. e \in 1 .. n /\ e <= from
      BY <1>1, <1>4, <3>1
    <3>3. c <= n => e # c
      BY <1>2, <3>1
    <3> QED
      BY <1>1, <1>3, <3>1, <3>2, <3>3
  <2>3. ASSUME NEW e \in 1 .. n, e < c, is_block_end(q[e].operation)
        PROVE  e \in BlockEnds(q, from)
    <3>1. e \in 1 .. Min({from, n})
      BY <1>1, <1>3, <1>4, <2>3
    <3> QED
      BY <2>1, <2>3, <3>1
  <2> QED
    BY <2>2, <2>3
<1>6. last \in BlockEnds(q, from) /\ \A e \in BlockEnds(q, from) : last >= e
  <2>1. BlockEnds(q, from) \subseteq 1 .. n
    BY <1>5
  <2>2. BlockEnds(q, from) # {}
    BY <1>1
  <2> QED
    BY <1>1, <2>1, <2>2, GreatestPosition
<1> HIDE DEF last
<1>7. last \in 1 .. n /\ last < c /\ is_block_end(q[last].operation)
  BY <1>5, <1>6
<1>8. \A j \in last + 1 .. c - 1 : ~ is_block_end(q[j].operation)
  <2>1. SUFFICES ASSUME NEW j \in last + 1 .. c - 1, is_block_end(q[j].operation) PROVE FALSE
    OBVIOUS
  <2>2. j \in 1 .. n /\ j < c /\ ~ (last >= j)
    BY <1>1, <1>3, <1>7
  <2> QED
    BY <1>5, <1>6, <2>1, <2>2
<1>9. \A k \in 1 .. last : k \in 1 .. c - 1 /\ q[k] = p[k]
  <2>1. \A k \in 1 .. last : k \in 1 .. c - 1
    BY <1>1, <1>3, <1>7
  <2> QED
    BY <1>2, <2>1
<1>10. \A k \in 1 .. c : Depth(q, k) = Depth(p, k)
  <2>1. SUFFICES ASSUME NEW k \in 1 .. c PROVE Depth(q, k) = Depth(p, k)
    OBVIOUS
  <2>2. k \in Nat \ {0} /\ \A j \in 1 .. k - 1 : j \in 1 .. c - 1
    BY <1>3
  <2>3. \A j \in 1 .. k - 1 : Alike(q[j], p[j])
    BY <1>2, <2>2 DEF Alike
  <2> QED
    BY <2>2, <2>3, DepthSame
<1>11. BlockBegins(p, last) # {} /\ Pair(p, Max(BlockBegins(p, last)), last)
  <2>1. last \in 1 .. last
    BY <1>1, <1>7
  <2>2. is_block_end(p[last].operation) /\ last \in 1 .. Len(p)
    BY <1>7, <1>9, <2>1
  <2> HIDE DEF p
  <2> QED
    BY <1>1, <2>2, NearestBegin DEF WellNested, p
<1>12. BlockBegins(q, last) = BlockBegins(p, last)
  <2>1. last \in 1 .. last /\ \A k \in 1 .. last - 1 : k \in 1 .. last
    BY <1>1, <1>7
  <2> QED
    BY <1>9, <2>1 DEF BlockBegins
<1>13. first \in 1 .. last - 1 /\ is_matching_block_begin(q[last].operation, q[first].operation)
  <2>1. BlockBegins(q, last) \subseteq 1 .. last - 1 /\ last - 1 \in Nat
    BY <1>1, <1>7 DEF BlockBegins
  <2>2. first \in BlockBegins(q, last)
    BY <1>11, <1>12, <2>1, GreatestPosition
  <2> HIDE DEF first
  <2> QED
    BY <2>2 DEF BlockBegins
<1>14. Pair(p, first, last)
  BY <1>11, <1>12
<1> HIDE DEF first
<1>15. Depth(q, last + 1) = 0
  <2>1. last + 1 \in Nat \ {0} /\ last + 1 <= c /\ c \in Nat
    BY <1>1, <1>3, <1>7
  <2>2. Depth(q, c) >= Depth(q, last + 1)
    BY <1>8, <2>1, DepthRises
  <2>3. c \in 1 .. c /\ Depth(q, c) = 0
    BY <1>2, <1>3, <1>10
  <2>4. last + 1 \in 1 .. n + 1
    BY <1>1, <1>7
  <2>5. Depth(q, last + 1) >= 0 /\ Depth(q, last + 1) \in Int
    BY <1>1, <1>2, <2>1, <2>4, DepthType DEF WellNested, Nested
  <2> QED
    BY <2>2, <2>3, <2>5
<1>16. OutermostBlock(q, first, last)
  <2>1. first \in 1 .. c /\ last + 1 \in 1 .. c /\ \A k \in first + 1 .. last : k \in 1 .. c
    BY <1>1, <1>3, <1>7, <1>13
  <2>2. Depth(q, first) = Depth(q, last + 1)
    BY <1>10, <1>14, <2>1 DEF Pair
  <2>3. \A k \in first + 1 .. last : Depth(q, k) > Depth(q, first)
    BY <1>10, <1>14, <2>1 DEF Pair
  <2>4. is_block_begin(q[first].operation)
    BY <1>13, MatchingNames
  <2>5. first < last
    BY <1>1, <1>7, <1>13
  <2> QED
    BY <1>15, <2>2, <2>3, <2>4, <2>5 DEF OutermostBlock
<1>17. m.current = q
  BY <1>1
<1> HIDE DEF q, p
<1>18. /\ BlockBegins(q, last) # {}
       /\ last < c /\ OutermostBlock(q, first, last)
       /\ last \in 1 .. Len(q) /\ first \in 1 .. last - 1
       /\ \A j \in last + 1 .. c - 1 : ~ is_block_end(q[j].operation)
  BY <1>1, <1>7, <1>8, <1>11, <1>12, <1>13, <1>16
<1> QED
  BY <1>17, <1>18 DEF first, last, q

\* It offers its program with one more stretch nopped, which starts with a
\* begin and ends with an end: an outermost block.
LEMMA AskBlocks ==
  ASSUME NEW m, NEW kept, NEW refused, m.kind = "blocks",
         BlocksInv(m, FALSE, kept, refused), BlockFound(m)
  PROVE  /\ nop_block(m).kind = "blocks"
         /\ BlocksInv(nop_block(m), TRUE, kept, refused)
         /\ IsReduction(nop_block(m).current, kept)
<1> DEFINE p == m.current
           last == Max(BlockEnds(p, m.current_index))
           first == Max(BlockBegins(p, last))
           s == nop_block(m)
<1>1. IsProgram(p) /\ m.current_index \in Nat /\ kept = p /\ m.last_good = p
      /\ Len(p) = Len(m.program) /\ WellNested(m.program) /\ IsProgram(m.program)
  BY DEF BlocksInv
<1>2. /\ last \in 1 .. Len(p) /\ is_block_end(p[last].operation)
      /\ first \in 1 .. last - 1
  BY <1>1, FoundBlock
<1>3. s = [m EXCEPT !.current = nop_range(@, first, last), !.current_index = first]
  BY DEF nop_block
<1>b. ASSUME NEW c \in 1 .. Len(m.program) + 1, BlocksAt(m, FALSE, refused, c),
             ~ SelfNested(m.program)
      PROVE  /\ last < c /\ OutermostBlock(p, first, last)
             /\ \A j \in last + 1 .. c - 1 : ~ is_block_end(p[j].operation)
  <2>1. BlockEnds(m.current, m.current_index) # {}
    BY DEF BlockFound
  <2> QED
    BY <1>1, <1>b, <2>1, LastEnd
<1> HIDE DEF last, first
<1>4. Len(p) \in Nat /\ first \in 1 .. Len(p) /\ last \in first .. last /\ first \in Nat
      /\ last \in Nat
  BY <1>1, <1>2, ProgramFacts
<1>5. /\ DOMAIN s = {"kind", "program", "last_good", "current", "current_index"}
      /\ s.kind = "blocks" /\ s.current = nop_range(p, first, last)
      /\ s.last_good = m.last_good /\ s.current_index = first /\ s.program = m.program
  BY <1>3 DEF BlocksInv
<1> HIDE DEF s
<1>6. IsProgram(nop_range(p, first, last)) /\ Len(nop_range(p, first, last)) = Len(p)
  BY <1>1, NopRange
<1>7. IsReduction(nop_range(p, first, last), p)
  <2>1. p[last].operation.name # "Nop"
    BY <1>2, NotNops
  <2> HIDE DEF p
  <2> QED
    BY <1>1, <1>2, <1>4, <2>1, NopReduces
<1>8. ASSUME ~ SelfNested(m.program) PROVE BlocksAt(s, TRUE, refused, first)
  <2>1. PICK c \in 1 .. Len(m.program) + 1 : BlocksAt(m, FALSE, refused, c)
    BY <1>8 DEF BlocksInv
  <2>2. /\ last < c /\ OutermostBlock(p, first, last)
        /\ \A j \in last + 1 .. c - 1 : ~ is_block_end(p[j].operation)
    BY <1>8, <1>b, <2>1
  <2>3. /\ Depth(m.program, c) = 0 /\ WellNested(p)
        /\ \A k \in 1 .. c - 1 : p[k] = m.program[k]
        /\ \A f, l \in 1 .. Len(m.program) :
             OutermostBlock(p, f, l) /\ c <= f => Trial(m.program, p, f, l) \in refused
    BY <1>1, <2>1 DEF BlocksAt
  <2> HIDE DEF p
  <2>4. c \in Nat \ {0} /\ first <= Len(m.program)
        /\ (\A k \in 1 .. last : k \in 1 .. c - 1) /\ (\A k \in 1 .. first - 1 : k \in 1 .. c - 1)
    BY <1>1, <1>2, <1>4, <2>1, <2>2
  <2>5. \A k \in 1 .. c : Depth(p, k) = Depth(m.program, k)
    <3>1. SUFFICES ASSUME NEW k \in 1 .. c PROVE Depth(p, k) = Depth(m.program, k)
      OBVIOUS
    <3>2. k \in Nat \ {0} /\ \A j \in 1 .. k - 1 : j \in 1 .. c - 1
      BY <2>4
    <3>3. \A j \in 1 .. k - 1 : Alike(p[j], m.program[j])
      BY <2>3, <3>2 DEF Alike
    <3> QED
      BY <3>2, <3>3, DepthSame
  <2>6. Depth(m.program, first) = 0
    <3>1. first \in 1 .. c
      BY <1>2, <1>4, <2>2, <2>4
    <3> QED
      BY <2>2, <2>5, <3>1 DEF OutermostBlock
  <2>7. ASSUME NEW f \in 1 .. Len(m.program), NEW l \in 1 .. Len(m.program),
               OutermostBlock(p, f, l), first <= f, f # first
        PROVE  c <= f
    <3>1. SUFFICES ASSUME f < c PROVE FALSE
      BY <1>1, <1>4, <2>4
    <3>2. Depth(p, f) = 0 /\ f < l /\ \A k \in f + 1 .. l : Depth(p, k) > 0
      BY <2>7 DEF OutermostBlock
    <3>3. CASE f <= last
      <4>1. f \in first + 1 .. last
        BY <1>1, <1>4, <2>7, <3>3
      <4>2. Depth(p, f) > 0
        BY <2>2, <4>1 DEF OutermostBlock
      <4> QED
        BY <3>2, <4>2
    <3>4. CASE ~ (f <= last)
      <4>1. /\ f + 1 \in Nat \ {0} /\ f + 1 <= c /\ f + 1 \in f + 1 .. l /\ c \in Nat
            /\ \A j \in f + 1 .. c - 1 : j \in last + 1 .. c - 1
        BY <1>1, <1>4, <2>4, <3>1, <3>2, <3>4
      <4>2. \A j \in f + 1 .. c - 1 : ~ is_block_end(p[j].operation)
        BY <2>2, <4>1
      <4>3. Depth(p, c) >= Depth(p, f + 1)
        BY <4>1, <4>2, DepthRises
      <4>4. Depth(p, f + 1) > 0 /\ Depth(p, f + 1) \in Int
        BY <3>2, <4>1, DepthType
      <4>5. c \in 1 .. c
        BY <2>4
      <4>6. Depth(p, c) = 0
        BY <2>3, <2>5, <4>5
      <4> QED
        BY <4>3, <4>4, <4>6
    <3> QED
      BY <3>3, <3>4
  <2>8. \A f, l \in 1 .. Len(m.program) :
           OutermostBlock(p, f, l) /\ first <= f /\ f # first =>
             Trial(m.program, p, f, l) \in refused
    BY <2>3, <2>7
  <2>9. \A k \in 1 .. first - 1 : p[k] = m.program[k]
    BY <2>3, <2>4
  <2>10. \E l \in 1 .. Len(m.program) :
            /\ OutermostBlock(p, first, l) /\ s.current = nop_range(p, first, l)
            /\ \A k \in 1 .. l : p[k] = m.program[k]
    <3>1. last \in 1 .. Len(m.program) /\ \A k \in 1 .. last : p[k] = m.program[k]
      BY <1>1, <1>2, <2>3, <2>4
    <3> QED
      BY <1>5, <2>2, <3>1
  <2> QED
    BY <1>1, <1>5, <2>3, <2>4, <2>6, <2>8, <2>9, <2>10 DEF BlocksAt
<1>9. first \in 1 .. Len(m.program) + 1
  BY <1>1, <1>4
<1>10. BlocksInv(s, TRUE, kept, refused)
  <2> HIDE DEF p
  <2> QED
    BY <1>1, <1>4, <1>5, <1>6, <1>8, <1>9 DEF BlocksInv
<1> QED
  BY <1>1, <1>5, <1>7, <1>10 DEF s

\* A good offer becomes the last good one; what was refused above it stays
\* refused.
LEMMA SuccessBlocks ==
  ASSUME NEW m, NEW kept, NEW refused, m.kind = "blocks", BlocksInv(m, TRUE, kept, refused)
  PROVE  success(m).kind = "blocks" /\ BlocksInv(success(m), FALSE, m.current, refused)
<1> DEFINE s == success(m)
           p == m.program
           q == m.last_good
           q2 == m.current
           n == Len(p)
<1>1. s = [m EXCEPT !.last_good = m.current]
  BY DEF success
<1>2. /\ DOMAIN s = {"kind", "program", "last_good", "current", "current_index"}
      /\ s.kind = "blocks" /\ s.current = q2 /\ s.last_good = q2
      /\ s.current_index = m.current_index /\ s.program = p
  BY <1>1 DEF BlocksInv
<1>3. /\ IsProgram(p) /\ IsProgram(q) /\ IsProgram(q2) /\ Len(q) = n /\ Len(q2) = n
      /\ n \in Nat /\ m.current_index \in Nat /\ WellNested(p)
  BY ProgramFacts DEF BlocksInv
<1> HIDE DEF s
<1>4. ASSUME ~ SelfNested(p) PROVE \E c \in 1 .. n + 1 : BlocksAt(s, FALSE, refused, c)
  <2>1. PICK c \in 1 .. n + 1 : BlocksAt(m, TRUE, refused, c)
    BY <1>4 DEF BlocksInv
  <2>2. /\ Depth(p, c) = 0 /\ WellNested(q)
        /\ m.current_index = IF c <= n THEN c ELSE Max({n, 1})
        /\ \A k \in 1 .. c - 1 : q[k] = p[k]
        /\ \A first, last \in 1 .. n :
             OutermostBlock(q, first, last) /\ c <= first /\ first # c =>
               Trial(p, q, first, last) \in refused
    BY <2>1 DEF BlocksAt
  <2>3. PICK last \in 1 .. n : OutermostBlock(q, c, last) /\ q2 = nop_range(q, c, last)
    BY <2>1 DEF BlocksAt
  <2>4. c \in 1 .. n /\ c < last /\ \A k \in 1 .. c - 1 : k \in 1 .. n /\ k \notin c .. last
    BY <1>3, <2>3 DEF OutermostBlock
  <2>5. \A k \in 1 .. n : q2[k] = IF k \in c .. last THEN nop(q[k]) ELSE q[k]
    <3> HIDE DEF p, q, q2
    <3> QED
      BY <1>3, <2>3, NopRange
  <2>6. /\ WellNested(q2)
        /\ \A k \in 1 .. n + 1 : k \notin c + 1 .. last => Depth(q2, k) = Depth(q, k)
    <3>1. c \in 1 .. Len(q) /\ last \in 1 .. Len(q)
      BY <1>3, <2>4
    <3> HIDE DEF q, q2
    <3> QED
      BY <1>3, <2>2, <2>3, <3>1, OutermostNopped
  <2> HIDE DEF p, q, q2, n
  <2>7. \A k \in 1 .. c - 1 : q2[k] = p[k]
    BY <2>2, <2>4, <2>5
  <2>8. ~ is_block_end(q2[c].operation)
    <3>1. c \in c .. last
      BY <1>3, <2>4
    <3> QED
      BY <2>4, <2>5, <3>1, NopIsFlat
  <2>9. ASSUME NEW f \in 1 .. n, NEW l \in 1 .. n, OutermostBlock(q2, f, l), c <= f
        PROVE  Trial(p, q2, f, l) \in refused
    <3>1. f \notin c .. last
      BY <2>5, <2>9, NopIsFlat DEF OutermostBlock
    <3>2. f > last /\ f < l
      BY <1>3, <2>4, <2>9, <3>1 DEF OutermostBlock
    <3>3. /\ f \in 1 .. n + 1 /\ f \notin c + 1 .. last
          /\ l + 1 \in 1 .. n + 1 /\ l + 1 \notin c + 1 .. last
          /\ \A k \in f + 1 .. l : k \in 1 .. n + 1 /\ k \notin c + 1 .. last
      BY <1>3, <2>4, <3>2
    <3>4. q2[f] = q[f]
      BY <2>5, <3>1
    <3>5. OutermostBlock(q, f, l)
      BY <2>6, <2>9, <3>3, <3>4 DEF OutermostBlock
    <3>6. f # c
      BY <1>3, <2>4, <3>2
    <3>7. Trial(p, q, f, l) \in refused
      BY <2>2, <2>9, <3>5, <3>6
    <3>8. Trial(p, q2, f, l) = Trial(p, q, f, l)
      <4>1. \A k \in 1 .. n : ~ (k < f) /\ ~ (k <= l) => k \notin c .. last
        BY <1>3, <2>4, <3>2
      <4>2. SameBeyond(q2, q, f, l, Len(p))
        BY <2>5, <4>1 DEF SameBeyond, n
      <4> QED
        BY <4>2, TrialBeyond
    <3> QED
      BY <3>7, <3>8
  <2>10. BlocksAt(s, FALSE, refused, c)
    <3>1. Len(s.program) = n
      BY <1>2 DEF n
    <3> QED
      BY <1>2, <2>2, <2>6, <2>7, <2>8, <2>9, <3>1 DEF BlocksAt
  <2> QED
    BY <2>10
<1>5. BlocksInv(s, FALSE, q2, refused)
  <2> HIDE DEF q, q2
  <2> QED
    BY <1>2, <1>3, <1>4 DEF BlocksInv, n
<1> QED
  BY <1>2, <1>5 DEF s

\* A bad offer is forgotten, and has had its trial.
LEMMA FailureBlocks ==
  ASSUME NEW m, NEW kept, NEW refused, m.kind = "blocks", BlocksInv(m, TRUE, kept, refused)
  PROVE  failure(m).kind = "blocks"
         /\ BlocksInv(failure(m), FALSE, kept, refused \cup {m.current})
<1> DEFINE s == failure(m)
           p == m.program
           q == m.last_good
           n == Len(p)
           refused2 == refused \cup {m.current}
<1>1. s = [m EXCEPT !.current = m.last_good]
  BY DEF failure, block_failure
<1>2. /\ DOMAIN s = {"kind", "program", "last_good", "current", "current_index"}
      /\ s.kind = "blocks" /\ s.current = q /\ s.last_good = q
      /\ s.current_index = m.current_index /\ s.program = p
  BY <1>1 DEF BlocksInv
<1>3. /\ IsProgram(p) /\ IsProgram(q) /\ Len(q) = n /\ kept = q
      /\ n \in Nat /\ m.current_index \in Nat /\ WellNested(p)
  BY ProgramFacts DEF BlocksInv
<1> HIDE DEF s
<1>4. ASSUME ~ SelfNested(p) PROVE \E c \in 1 .. n + 1 : BlocksAt(s, FALSE, refused2, c)
  <2>1. PICK c \in 1 .. n + 1 : BlocksAt(m, TRUE, refused, c)
    BY <1>4 DEF BlocksInv
  <2>2. /\ Depth(p, c) = 0 /\ WellNested(q)
        /\ m.current_index = IF c <= n THEN c ELSE Max({n, 1})
        /\ \A k \in 1 .. c - 1 : q[k] = p[k]
        /\ \A first, last \in 1 .. n :
             OutermostBlock(q, first, last) /\ c <= first /\ first # c =>
               Trial(p, q, first, last) \in refused
    BY <2>1 DEF BlocksAt
  <2>3. PICK last \in 1 .. n : /\ OutermostBlock(q, c, last)
                               /\ m.current = nop_range(q, c, last)
                               /\ \A k \in 1 .. last : q[k] = p[k]
    BY <2>1 DEF BlocksAt
  <2> HIDE DEF p, q, n
  <2>4. ~ is_block_end(q[c].operation)
    BY <2>3, BeginIsNotEnd DEF OutermostBlock
  <2>5. m.current = Trial(p, q, c, last)
    <3>1. \A k \in 1 .. n : (k \in c .. last <=> ~ (k < c) /\ k <= last)
                            /\ (k < c => k \in 1 .. c - 1) /\ (k <= last => k \in 1 .. last)
      BY <1>3
    <3>2. \A k \in 1 .. n : (IF k \in c .. last THEN nop(q[k]) ELSE q[k]) =
            IF k < c THEN p[k] ELSE IF k <= last THEN nop(p[k]) ELSE q[k]
      BY <2>2, <2>3, <3>1
    <3> QED
      BY <1>3, <2>3, <3>2 DEF nop_range, Trial, n
  <2>6. ASSUME NEW f \in 1 .. n, NEW l \in 1 .. n, OutermostBlock(q, f, l), c <= f
        PROVE  Trial(p, q, f, l) \in refused2
    <3>1. CASE f = c
      <4>1. l = last
        <5>1. f \in Nat /\ l \in Nat /\ last \in Nat
          BY <1>3
        <5> QED
          BY <2>3, <2>6, <3>1, <5>1, OneOutermost
      <4> QED
        BY <2>5, <3>1, <4>1
    <3>2. CASE f # c
      BY <2>2, <2>6, <3>2
    <3> QED
      BY <3>1, <3>2
  <2>7. BlocksAt(s, FALSE, refused2, c)
    <3>1. Len(s.program) = n
      BY <1>2 DEF n
    <3> HIDE DEF refused2
    <3> QED
      BY <1>2, <2>2, <2>4, <2>6, <3>1 DEF BlocksAt
  <2> QED
    BY <2>7
<1>5. BlocksInv(s, FALSE, kept, refused2)
  <2> HIDE DEF q, refused2
  <2> QED
    BY <1>2, <1>3, <1>4 DEF BlocksInv, n
<1> QED
  BY <1>2, <1>5 DEF s

-----------------------------------------------------------------------------
\* The nopping minimizer.

\* A trial as the two programs put together and nopped.
LEMMA TrialIs ==
  ASSUME NEW p, IsProgram(p), NEW q, IsProgram(q), Len(q) = Len(p), NEW n \in 1 .. Len(p),
         NEW f \in 1 .. n
  PROVE  nop_range(SubSeq(p, 1, n) \o SubSeq(q, n + 1, Len(q)), f, n) = Trial(p, q, f, n)
<1> DEFINE a == SubSeq(p, 1, n)
           b == SubSeq(q, n + 1, Len(q))
           N == Len(p)
<1>1. N \in Nat /\ n \in 0 .. N /\ n \in Nat
  BY ProgramFacts
<1>2. IsProgram(a) /\ Len(a) = n /\ \A k \in 1 .. n : a[k] = p[k]
  BY <1>1, Beginning
<1>3. PICK S : a \in Seq(S)
  BY <1>2 DEF IsProgram
<1>4. PICK Q : q \in Seq(Q)
  BY DEF IsProgram
<1>5. /\ b \in Seq(Q) /\ Len(b) = N - n
      /\ \A k \in 1 .. N - n : b[k] = q[n + k]
  <2>1. \A k \in n + 1 .. Len(q) : q[k] \in Q
    <3>1. \A k \in n + 1 .. Len(q) : k \in 1 .. Len(q)
      BY <1>1
    <3> QED
      BY <1>4, <3>1, ElementOfSeq
  <2>2. n + 1 \in Int /\ Len(q) \in Int
    BY <1>1
  <2>3. /\ b \in Seq(Q)
        /\ Len(b) = IF n + 1 <= Len(q) THEN Len(q) - (n + 1) + 1 ELSE 0
        /\ \A k \in 1 .. Len(q) - (n + 1) + 1 : b[k] = q[n + 1 + k - 1]
    BY ONLY <2>1, <2>2, SubSeqProperties
  <2> HIDE DEF b
  <2>4. Len(b) = N - n
    BY <1>1, <2>3
  <2>5. ASSUME NEW k \in 1 .. N - n PROVE b[k] = q[n + k]
    <3>1. k \in 1 .. Len(q) - (n + 1) + 1 /\ n + 1 + k - 1 = n + k
      BY <1>1
    <3> QED
      BY <2>3, <3>1
  <2> QED
    BY <2>3, <2>4, <2>5
<1> DEFINE T == S \cup Q
           c == a \o b
<1> HIDE DEF a, b
<1>6. /\ c \in Seq(T) /\ Len(c) = Len(a) + Len(b)
      /\ \A k \in 1 .. Len(a) + Len(b) : c[k] = IF k <= Len(a) THEN a[k] ELSE b[k - Len(a)]
  <2>1. S \subseteq T /\ Q \subseteq T
    OBVIOUS
  <2> HIDE DEF T
  <2>2. a \in Seq(T) /\ b \in Seq(T)
    BY <1>3, <1>5, <2>1, SeqMonotonic
  <2> QED
    BY ONLY <2>2, ConcatProperties, Zenon
<1> HIDE DEF T, c
<1>7. Len(c) = N
  BY <1>1, <1>2, <1>5, <1>6
<1>8. ASSUME NEW k \in 1 .. N PROVE c[k] = IF k <= n THEN p[k] ELSE q[k]
  <2>1. k \in 1 .. Len(a) + Len(b)
    BY <1>1, <1>2, <1>5
  <2>2. CASE k <= n
    <3>1. k \in 1 .. n /\ k <= Len(a)
      BY <1>1, <1>2, <2>2
    <3> QED
      BY <1>2, <1>6, <2>1, <2>2, <3>1
  <2>3. CASE ~ (k <= n)
    <3>1. k - n \in 1 .. N - n /\ n + (k - n) = k
      BY <1>1, <2>3
    <3>2. b[k - n] = q[k]
      BY <1>5, <3>1
    <3> QED
      BY <1>2, <1>6, <2>1, <2>3, <3>2
  <2> QED
    BY <2>2, <2>3
<1>9. \A k \in 1 .. N : (k \in f .. n <=> ~ (k < f) /\ k <= n) /\ (k < f => k <= n)
  BY <1>1
<1>10. \A k \in 1 .. N :
         (IF k \in f .. n THEN nop(c[k]) ELSE c[k]) =
            IF k < f THEN p[k] ELSE IF k <= n THEN nop(p[k]) ELSE q[k]
  BY <1>8, <1>9
<1>11. nop_range(c, f, n) =
         [k \in 1 .. N |-> IF k \in f .. n THEN nop(c[k]) ELSE c[k]]
  BY <1>7 DEF nop_range
<1>12. nop_range(c, f, n) = Trial(p, q, f, n)
  BY <1>10, <1>11 DEF Trial
<1> QED
  BY <1>12 DEF c, a, b

\* It offers its program with the next instruction nopped.
LEMMA AskNopping ==
  ASSUME NEW m, NEW kept, NEW refused, m.kind = "nopping",
         NoppingInv(m, FALSE, kept, refused), Noppable(m) # {}
  PROVE  /\ nop_next(m).kind = "nopping"
         /\ NoppingInv(nop_next(m), TRUE, kept, refused)
         /\ IsReduction(nop_next(m).current, kept)
<1> DEFINE p == m.program
           q == m.current
           n == Max(Noppable(m))
           s == nop_next(m)
           N == Len(m.program)
<1>1. /\ IsProgram(p) /\ IsProgram(q) /\ Len(q) = N /\ N \in Nat /\ m.current_nop \in 0 .. N
      /\ DOMAIN q = 1 .. N /\ q = [k \in 1 .. N |-> q[k]] /\ kept = q
      /\ WellNested(p)
  BY ProgramFacts DEF NoppingInv
<1>2. /\ n \in 1 .. N /\ Ahead(m, n) /\ is_noppable(q[n].operation)
      /\ \A k \in 1 .. N : Ahead(m, k) /\ n < k => ~ is_noppable(q[k].operation)
  BY <1>1, FoundNop
<1>3. s = [m EXCEPT !.current_nop = n, !.current = nop_range(@, n, n)]
  BY DEF nop_next
<1>4. \A k \in 1 .. N :
        IF Ahead(m, k) THEN q[k] = p[k]
        ELSE is_noppable(q[k].operation) => Trial(p, q, k, k) \in refused
  BY DEF NoppingInv
<1>n. \A k \in 1 .. N :
        q[k] = p[k] \/ (q[k] = nop(p[k]) /\ is_noppable(p[k].operation))
  BY DEF NoppingInv
<1> HIDE DEF n
<1> DEFINE q2 == nop_range(q, n, n)
<1>5. IsProgram(q2) /\ Len(q2) = N /\ \A k \in 1 .. N : q2[k] = IF k = n THEN nop(q[k]) ELSE q[k]
  <2>1. \A k \in 1 .. N : k \in n .. n <=> k = n
    BY <1>1, <1>2
  <2> HIDE DEF q
  <2> QED
    BY <1>1, <2>1, NopRange
<1>6. IsReduction(q2, q)
  <2>1. q[n].operation.name # "Nop" /\ n \in n .. n /\ n \in 1 .. Len(q)
    BY <1>1, <1>2, NotNops
  <2> HIDE DEF q
  <2> QED
    BY <1>1, <2>1, NopReduces
<1>7. q2[n] = nop(p[n])
  BY <1>2, <1>4, <1>5
<1> HIDE DEF q2
<1>8. /\ DOMAIN s = {"kind", "program", "current", "current_nop"} /\ s.kind = "nopping"
      /\ s.program = p /\ s.current = q2 /\ s.current_nop = n
  BY <1>3 DEF NoppingInv, q2
<1> HIDE DEF s
<1>9. nop_failure(s).current = q
  <2> DEFINE f == Replaced(q2, n, p[n])
  <2>1. nop_failure(s).current = f
    BY <1>8 DEF nop_failure, Replaced
  <2>2. IsProgram(f) /\ Len(f) = N /\ \A k \in 1 .. N : f[k] = IF k = n THEN p[n] ELSE q2[k]
    <3>1. IsProgram(q2) /\ n \in 1 .. Len(q2)
      BY <1>2, <1>5
    <3> HIDE DEF p, q
    <3>2. /\ IsProgram(f) /\ Len(f) = Len(q2)
          /\ \A k \in 1 .. Len(q2) : f[k] = IF k = n THEN p[n] ELSE q2[k]
      <4> HIDE DEF p, q, N
      <4> QED
        BY <3>1, ReplaceOne
    <3> HIDE DEF f
    <3> QED
      BY <1>5, <3>2
  <2> HIDE DEF f
  <2>3. \A k \in 1 .. N : f[k] = q[k]
    BY <1>2, <1>4, <1>5, <2>2
  <2>4. f = q
    BY <1>1, <2>2, <2>3, SameProgram
  <2> QED
    BY <2>1, <2>4 DEF f
<1>10. ASSUME NEW k \in 1 .. N
       PROVE  IF Ahead(s, k) THEN q2[k] = p[k]
              ELSE (k = n => ~ TRUE) /\ is_noppable(q2[k].operation)
                     => Trial(p, q2, k, k) \in refused
  <2>1. Ahead(s, k) <=> k < n
    BY <1>2, <1>8 DEF Ahead, None
  <2>2. CASE k < n
    <3>1. Ahead(m, k) /\ k # n
      BY <1>1, <1>2, <2>2 DEF Ahead, None
    <3> QED
      BY <1>4, <1>5, <2>1, <2>2, <3>1
  <2>3. CASE k = n
    <3>1. ~ (k < n)
      BY <1>2, <2>3
    <3> QED
      BY <2>1, <2>3, <3>1
  <2>4. CASE ~ (k < n) /\ k # n
    <3>1. n < k /\ q2[k] = q[k]
      BY <1>2, <1>5, <2>4
    <3>2. Trial(p, q2, k, k) = Trial(p, q, k, k)
      <4>1. SameBeyond(q2, q, k, k, Len(p))
        BY <1>2, <1>5, <3>1 DEF SameBeyond
      <4> HIDE DEF p, q
      <4> QED
        BY <4>1, TrialBeyond
    <3> QED
      BY <1>2, <1>4, <2>1, <2>4, <3>1, <3>2
  <2> QED
    BY <2>2, <2>3, <2>4
<1>m. \A k \in 1 .. N :
        q2[k] = p[k] \/ (q2[k] = nop(p[k]) /\ is_noppable(p[k].operation))
  BY <1>2, <1>4, <1>5, <1>n
<1>11. NoppingInv(s, TRUE, kept, refused)
  <2>1. n \in 0 .. N /\ n # None
    BY <1>1, <1>2 DEF None
  <2> HIDE DEF p, q
  <2> QED
    BY <1>1, <1>5, <1>7, <1>8, <1>9, <1>10, <1>m, <2>1 DEF NoppingInv, p
<1> QED
  BY <1>1, <1>6, <1>8, <1>11 DEF s

\* A good nop stays.
LEMMA SuccessNopping ==
  ASSUME NEW m, NEW kept, NEW refused, m.kind = "nopping",
         NoppingInv(m, TRUE, kept, refused)
  PROVE  /\ success(m).kind = "nopping"
         /\ NoppingInv(success(m), FALSE, m.current, refused)
<1>1. success(m) = m
  BY DEF success
<1>2. ~ is_noppable(m.current[m.current_nop].operation)
  <2>1. m.current[m.current_nop].operation.name = "Nop"
    BY DEF NoppingInv, nop, Instruction, Op
  <2> QED
    BY <2>1, NotNops
<1>3. NoppingInv(m, FALSE, m.current, refused)
  BY <1>2 DEF NoppingInv
<1> QED
  BY <1>1, <1>3

\* A bad nop is taken back, and the instruction has had its trial.
LEMMA FailureNopping ==
  ASSUME NEW m, NEW kept, NEW refused, m.kind = "nopping",
         NoppingInv(m, TRUE, kept, refused)
  PROVE  /\ failure(m).kind = "nopping"
         /\ NoppingInv(failure(m), FALSE, kept, refused \cup {m.current})
<1> DEFINE p == m.program
           q == m.current
           n == m.current_nop
           N == Len(m.program)
           s == failure(m)
           q2 == Replaced(q, n, p[n])
           refused2 == refused \cup {q}
<1>1. /\ IsProgram(p) /\ IsProgram(q) /\ Len(q) = N /\ N \in Nat /\ n \in 1 .. N
      /\ kept = nop_failure(m).current /\ q[n] = nop(p[n]) /\ WellNested(p)
  <2>1. N \in Nat /\ n \in 0 .. N /\ n # None
    BY ProgramFacts DEF NoppingInv
  <2>2. n \in 1 .. N
    BY <2>1 DEF None
  <2> QED
    BY <2>1, <2>2 DEF NoppingInv
<1>2. \A k \in 1 .. N :
        IF Ahead(m, k) THEN q[k] = p[k]
        ELSE k # n /\ is_noppable(q[k].operation) => Trial(p, q, k, k) \in refused
  BY DEF NoppingInv
<1>n. \A k \in 1 .. N :
        q[k] = p[k] \/ (q[k] = nop(p[k]) /\ is_noppable(p[k].operation))
  BY DEF NoppingInv
<1>3. s = nop_failure(m)
  BY DEF failure
<1>4. /\ DOMAIN s = {"kind", "program", "current", "current_nop"} /\ s.kind = "nopping"
      /\ s.program = p /\ s.current = q2 /\ s.current_nop = n
  BY <1>3 DEF nop_failure, NoppingInv, Replaced
<1>5. IsProgram(q2) /\ Len(q2) = N /\ \A k \in 1 .. N : q2[k] = IF k = n THEN p[n] ELSE q[k]
  <2>1. IsProgram(q) /\ n \in 1 .. Len(q)
    BY <1>1
  <2>2. /\ IsProgram(q2) /\ Len(q2) = Len(q)
        /\ \A k \in 1 .. Len(q) : q2[k] = IF k = n THEN p[n] ELSE q[k]
    <3> HIDE DEF p, q, n, N
    <3> QED
      BY <2>1, ReplaceOne
  <2> QED
    BY <1>1, <2>2
<1>6. kept = q2
  BY <1>1, <1>3, <1>4
<1>7. \A k \in 1 .. N : Ahead(m, k) <=> k < n
  BY <1>1 DEF Ahead, None
<1>8. Trial(p, q2, n, n) = q
  <2>1. \A k \in 1 .. N :
          q[k] = IF k < n THEN p[k] ELSE IF k <= n THEN nop(p[k]) ELSE q2[k]
    <3>1. \A k \in 1 .. N : ~ (k < n) => (k <= n <=> k = n)
      BY <1>1
    <3>2. \A k \in 1 .. N : k < n => k # n
      BY <1>1
    <3> QED
      BY <1>1, <1>2, <1>5, <1>7, <3>1, <3>2
  <2>2. q = [k \in 1 .. N |-> q[k]]
    BY <1>1, ProgramFacts
  <2> HIDE DEF q, p, q2, n
  <2> QED
    BY <2>1, <2>2 DEF Trial, p
<1> HIDE DEF s, q2
<1>9. ASSUME NEW k \in 1 .. N
      PROVE  IF Ahead(s, k) THEN q2[k] = p[k]
             ELSE is_noppable(q2[k].operation) => Trial(p, q2, k, k) \in refused2
  <2>1. Ahead(s, k) <=> k < n
    BY <1>1, <1>4 DEF Ahead, None
  <2>2. CASE k < n
    <3>1. k # n
      BY <1>1, <2>2
    <3> QED
      BY <1>2, <1>5, <1>7, <2>1, <2>2, <3>1
  <2>3. CASE k = n
    <3>1. ~ (k < n)
      BY <1>1, <2>3
    <3> QED
      BY <1>8, <2>1, <2>3, <3>1
  <2>4. CASE ~ (k < n) /\ k # n
    <3>1. n < k /\ q2[k] = q[k]
      BY <1>1, <1>5, <2>4
    <3>2. Trial(p, q2, k, k) = Trial(p, q, k, k)
      <4>1. SameBeyond(q2, q, k, k, Len(p))
        BY <1>1, <1>5, <3>1 DEF SameBeyond
      <4> HIDE DEF p, q, n
      <4> QED
        BY <4>1, TrialBeyond
    <3> QED
      BY <1>2, <1>7, <2>1, <2>4, <3>1, <3>2
  <2> QED
    BY <2>2, <2>3, <2>4
<1>m. \A k \in 1 .. N :
        q2[k] = p[k] \/ (q2[k] = nop(p[k]) /\ is_noppable(p[k].operation))
  BY <1>5, <1>n
<1>10. NoppingInv(s, FALSE, kept, refused2)
  <2>1. n \in 0 .. N
    BY <1>1
  <2> HIDE DEF p, q, n, refused2
  <2> QED
    BY <1>1, <1>4, <1>5, <1>6, <1>9, <1>m, <2>1 DEF NoppingInv, p
<1> QED
  BY <1>4, <1>10 DEF s

-----------------------------------------------------------------------------
\* The three of them together.

\* What next returns takes one piece off the best program so far.
LEMMA AskMinimizer ==
  ASSUME NEW m, NEW kept, NEW refused, MinimizerInv(m, FALSE, kept, refused),
         ~ Exhausted(m)
  PROVE  /\ MinimizerInv(advance(m), TRUE, kept, refused)
         /\ IsReduction(candidate(advance(m)), kept)
<1>1. CASE m.kind = "cutting" /\ CuttingInv(m, FALSE, kept, refused)
  <2>1. advance(m) = m /\ candidate(m) = SubSeq(m.program, 1, m.current) /\ ~ CutDone(m)
    BY <1>1 DEF advance, candidate, Exhausted
  <2> QED
    BY <1>1, <2>1, AskCutting DEF MinimizerInv
<1>2. CASE m.kind = "blocks" /\ BlocksInv(m, FALSE, kept, refused)
  <2>1. advance(m) = nop_block(m) /\ BlockFound(m)
    BY <1>2 DEF advance, Exhausted
  <2>2. nop_block(m).kind = "blocks" /\ BlocksInv(nop_block(m), TRUE, kept, refused)
        /\ IsReduction(nop_block(m).current, kept)
    BY <1>2, <2>1, AskBlocks
  <2>3. candidate(nop_block(m)) = nop_block(m).current
    BY <2>2 DEF candidate
  <2> QED
    BY <2>1, <2>2, <2>3 DEF MinimizerInv
<1>3. CASE m.kind = "nopping" /\ NoppingInv(m, FALSE, kept, refused)
  <2>1. advance(m) = nop_next(m) /\ Noppable(m) # {}
    BY <1>3 DEF advance, Exhausted
  <2>2. nop_next(m).kind = "nopping" /\ NoppingInv(nop_next(m), TRUE, kept, refused)
        /\ IsReduction(nop_next(m).current, kept)
    BY <1>3, <2>1, AskNopping
  <2>3. candidate(nop_next(m)) = nop_next(m).current
    BY <2>2 DEF candidate
  <2> QED
    BY <2>1, <2>2, <2>3 DEF MinimizerInv
<1> QED
  BY <1>1, <1>2, <1>3 DEF MinimizerInv

\* success adopts what was offered.
LEMMA SuccessMinimizer ==
  ASSUME NEW m, NEW kept, NEW refused, MinimizerInv(m, TRUE, kept, refused)
  PROVE  MinimizerInv(success(m), FALSE, candidate(m), refused)
<1>1. CASE m.kind = "cutting" /\ CuttingInv(m, TRUE, kept, refused)
  <2>1. candidate(m) = SubSeq(m.program, 1, m.current)
    BY <1>1 DEF candidate
  <2> QED
    BY <1>1, <2>1, SuccessCutting DEF MinimizerInv
<1>2. CASE m.kind = "blocks" /\ BlocksInv(m, TRUE, kept, refused)
  <2>1. candidate(m) = m.current
    BY <1>2 DEF candidate
  <2> QED
    BY <1>2, <2>1, SuccessBlocks DEF MinimizerInv
<1>3. CASE m.kind = "nopping" /\ NoppingInv(m, TRUE, kept, refused)
  <2>1. candidate(m) = m.current
    BY <1>3 DEF candidate
  <2> QED
    BY <1>3, <2>1, SuccessNopping DEF MinimizerInv
<1> QED
  BY <1>1, <1>2, <1>3 DEF MinimizerInv

\* failure goes back to the best program so far.
LEMMA FailureMinimizer ==
  ASSUME NEW m, NEW kept, NEW refused, MinimizerInv(m, TRUE, kept, refused)
  PROVE  MinimizerInv(failure(m), FALSE, kept, refused \cup {candidate(m)})
<1>1. CASE m.kind = "cutting" /\ CuttingInv(m, TRUE, kept, refused)
  <2>1. candidate(m) = SubSeq(m.program, 1, m.current)
    BY <1>1 DEF candidate
  <2> QED
    BY <1>1, <2>1, FailureCutting DEF MinimizerInv
<1>2. CASE m.kind = "blocks" /\ BlocksInv(m, TRUE, kept, refused)
  <2>1. candidate(m) = m.current
    BY <1>2 DEF candidate
  <2> QED
    BY <1>2, <2>1, FailureBlocks DEF MinimizerInv
<1>3. CASE m.kind = "nopping" /\ NoppingInv(m, TRUE, kept, refused)
  <2>1. candidate(m) = m.current
    BY <1>3 DEF candidate
  <2> QED
    BY <1>3, <2>1, FailureNopping DEF MinimizerInv
<1> QED
  BY <1>1, <1>2, <1>3 DEF MinimizerInv

-----------------------------------------------------------------------------
\* The steps of the loop.

\* The empty program is well nested.
LEMMA EmptyNests ==
  StackIsDepth(new.active_scopes, new.instructions) /\ Nested(new.instructions)
<1>1. new.instructions = << >> /\ Len(new.active_scopes) = 1 /\ Len(<< >>) = 0
  BY NewIs
<1>2. Depth(<< >>, 0 + 1) = 0
  <2>1. 0 + 1 = 1
    OBVIOUS
  <2> QED
    BY <2>1, DepthType
<1>3. 2 .. 1 = {} /\ 1 .. 0 = {} /\ \A k \in 1 .. 0 + 1 : k = 0 + 1
  OBVIOUS
<1>4. StackIsDepth(new.active_scopes, << >>)
  BY <1>1, <1>2, <1>3 DEF StackIsDepth
<1>5. Nested(<< >>)
  BY <1>1, <1>2, <1>3 DEF Nested
<1> QED
  BY <1>1, <1>4, <1>5

\* A program of the builder's that has no block open is well nested.
LEMMA FinalizedNests ==
  ASSUME NEW b, StackIsDepth(b.active_scopes, b.instructions), Nested(b.instructions),
         finalize(b) = "ok"
  PROVE  WellNested(b.instructions)
<1>1. Len(b.active_scopes) = 1
  BY DEF finalize
<1>2. Depth(b.instructions, Len(b.instructions) + 1) = 0
  BY <1>1 DEF StackIsDepth
<1> QED
  BY <1>2 DEF WellNested

LEMMA MinimizersInitInv == MinimizersInit => MinInv
<1> SUFFICES ASSUME MinimizersInit PROVE MinInv
  OBVIOUS
<1>1. SafeInv(builder)
  BY NewBuilder DEF MinimizersInit
<1>2. caller = [phase |-> "writing", kept |-> << >>, offered |-> NoOffer, refused |-> {}]
  BY DEF MinimizersInit
<1>3. /\ DOMAIN caller = {"phase", "kept", "offered", "refused"}
      /\ caller.phase = "writing" /\ caller.offered = NoOffer
  BY <1>2
<1>4. minimizer = NoMinimizer /\ builder = new
  BY DEF MinimizersInit
<1> QED
  BY <1>1, <1>3, <1>4, EmptyNests DEF MinInv, Phases

\* Writing is the builder's business.
LEMMA WritePreserves ==
  ASSUME MinInv, Grow
  PROVE  MinInv' /\ UNCHANGED <<minimizer, caller>>
<1>1. PICK op \in Operation, n \in 0 .. MaxInputs :
        \E inputs \in [1 .. n -> 1 .. Len(builder.variables)] : Write(op, inputs)
  BY DEF Grow
<1>2. PICK inputs \in [1 .. n -> 1 .. Len(builder.variables)] : Write(op, inputs)
  BY <1>1
<1>3. SafeInv(builder) /\ Len(builder.variables) \in Nat
  BY BuilderFields, VariableIds DEF MinInv, SafeInv, Inv
<1>4. n \in Nat /\ 1 .. Len(builder.variables) \subseteq Nat
  BY <1>3
<1>5. inputs \in Seq(Nat)
  BY <1>4
<1>6. Instruction(op, inputs) \in InstructionType
  BY <1>5 DEF Instruction, InstructionType
<1> DEFINE i == Instruction(op, inputs)
<1>7. builder' = append(builder, i) /\ caller.phase = "writing" /\ builder'.result = "ok"
      /\ UNCHANGED <<minimizer, caller>>
  BY <1>2 DEF Write, AppendInstruction
<1> HIDE DEF i
<1>8. i \in InstructionType /\ Inv(builder)
  BY <1>3, <1>6 DEF SafeInv, i
<1>9. SafeInv(builder')
  BY <1>7, <1>8, AppendPreserves DEF SafeInv
<1>10. /\ StackIsDepth(builder.active_scopes, builder.instructions)
       /\ Nested(builder.instructions)
  BY <1>7 DEF MinInv
<1>11. builder' = accept(builder, i) /\ (is_block_end(i.operation) => ClosesCurrentBlock(builder, i))
  <2>1. CASE Validate(builder, i) # "ok"
    <3>1. append(builder, i) = [builder EXCEPT !.result = Validate(builder, i)]
      BY <2>1 DEF append
    <3>2. append(builder, i).result = Validate(builder, i)
      BY <1>8, <3>1, SetResult, ValidateType
    <3> QED
      BY <1>7, <2>1, <3>2
  <2>2. CASE /\ Validate(builder, i) = "ok" /\ is_block_end(i.operation)
             /\ ~ ClosesCurrentBlock(builder, i)
    <3>1. append(builder, i) = refuse_block_end(builder)
      BY <2>2 DEF append
    <3>2. refuse_block_end(builder).result = "InvalidBlockEnd"
      BY <1>8, <2>2, EndFindsScope, RefuseBlockEnd
    <3> QED
      BY <1>7, <3>1, <3>2
  <2>3. CASE /\ Validate(builder, i) = "ok"
             /\ is_block_end(i.operation) => ClosesCurrentBlock(builder, i)
    BY <1>7, <2>3 DEF append
  <2> QED
    BY <2>1, <2>2, <2>3
<1>12. /\ StackIsDepth(builder'.active_scopes, builder'.instructions)
       /\ Nested(builder'.instructions)
  BY <1>3, <1>8, <1>10, <1>11, AcceptNests
<1> QED
  BY <1>7, <1>9, <1>12 DEF MinInv

\* A written program is a program.
LEMMA WrittenProgram ==
  ASSUME SafeInv(builder)
  PROVE  IsProgram(builder.instructions)
<1>1. builder.instructions \in Seq([operation : Operation, inputs : Seq(Nat)])
  BY DEF SafeInv, Inv, Builder
<1> QED
  BY <1>1 DEF IsProgram

LEMMA BeginPreserves ==
  ASSUME MinInv, Begin
  PROVE  /\ MinInv' /\ minimizer = NoMinimizer /\ minimizer' # NoMinimizer
         /\ caller'.offered = caller.offered
<1> DEFINE p == builder.instructions
<1>0. finalize(builder) = "ok" /\ caller.phase = "writing"
  BY DEF Begin, Minimize
<1>1. IsProgram(p) /\ WellNested(p)
  BY <1>0, WrittenProgram, FinalizedNests DEF MinInv
<1>2. PICK m \in {CuttingMinimizer(p), InstrBlockMinimizer(p), NoppingMinimizer(p)} : Minimize(m)
  BY DEF Begin
<1>3. MinimizerInv(m, FALSE, p, caller.refused)
  <2>1. MinimizerInv(CuttingMinimizer(p), FALSE, p, caller.refused)
    BY <1>1, NewCutting DEF MinimizerInv
  <2>2. MinimizerInv(InstrBlockMinimizer(p), FALSE, p, caller.refused)
    BY <1>1, NewBlocks DEF MinimizerInv
  <2>3. MinimizerInv(NoppingMinimizer(p), FALSE, p, caller.refused)
    BY <1>1, NewNopping DEF MinimizerInv
  <2> QED
    BY <2>1, <2>2, <2>3
<1> HIDE DEF p
<1>4. /\ caller.phase = "writing" /\ minimizer' = m
      /\ caller' = [caller EXCEPT !.phase = "asking", !.kept = p] /\ UNCHANGED builder
  BY <1>2 DEF Minimize, p
<1>5. /\ DOMAIN caller' = {"phase", "kept", "offered", "refused"}
      /\ caller'.phase = "asking" /\ caller'.kept = p
      /\ caller'.offered = caller.offered /\ caller'.refused = caller.refused
  BY <1>4 DEF MinInv
<1>6. m # NoMinimizer
  <2>1. m.kind # "none"
    BY <1>3 DEF MinimizerInv
  <2> QED
    BY <2>1 DEF NoMinimizer
<1>7. MinInv'
  BY <1>3, <1>4, <1>5 DEF MinInv, Phases
<1> QED
  BY <1>4, <1>5, <1>6, <1>7 DEF MinInv

LEMMA AskPreserves ==
  ASSUME MinInv, Ask
  PROVE  /\ MinInv' /\ caller'.kept = caller.kept
         /\ Len(caller'.offered) = 1 /\ IsReduction(caller'.offered[1], caller.kept)
<1> DEFINE m == advance(minimizer)
<1>1. /\ caller.phase = "asking" /\ ~ Exhausted(minimizer) /\ minimizer' = m
      /\ caller' = [caller EXCEPT !.phase = "testing", !.offered = <<candidate(m)>>]
      /\ UNCHANGED builder
  BY DEF Ask
<1>2. MinimizerInv(minimizer, FALSE, caller.kept, caller.refused)
  BY <1>1 DEF MinInv
<1>3. MinimizerInv(m, TRUE, caller.kept, caller.refused) /\ IsReduction(candidate(m), caller.kept)
  BY <1>1, <1>2, AskMinimizer
<1> HIDE DEF m
<1>4. /\ DOMAIN caller' = {"phase", "kept", "offered", "refused"}
      /\ caller'.phase = "testing" /\ caller'.kept = caller.kept
      /\ caller'.offered = <<candidate(m)>> /\ caller'.refused = caller.refused
  BY <1>1 DEF MinInv
<1>5. MinInv'
  BY <1>1, <1>3, <1>4 DEF MinInv, Phases
<1> QED
  BY <1>3, <1>4, <1>5

LEMMA SuccessPreserves ==
  ASSUME MinInv, Success
  PROVE  MinInv' /\ caller'.kept = caller.offered[1]
<1>1. /\ caller.phase = "testing" /\ minimizer' = success(minimizer)
      /\ caller' = [caller EXCEPT !.phase = "asking", !.kept = caller.offered[1],
                                  !.offered = NoOffer]
      /\ UNCHANGED builder
  BY DEF Success
<1>2. caller.offered[1] = candidate(minimizer)
  BY <1>1 DEF MinInv
<1>3. MinimizerInv(minimizer, TRUE, caller.kept, caller.refused)
  BY <1>1 DEF MinInv
<1>4. MinimizerInv(success(minimizer), FALSE, candidate(minimizer), caller.refused)
  BY <1>3, SuccessMinimizer
<1>5. /\ DOMAIN caller' = {"phase", "kept", "offered", "refused"}
      /\ caller'.phase = "asking" /\ caller'.kept = candidate(minimizer)
      /\ caller'.offered = NoOffer /\ caller'.refused = caller.refused
  BY <1>1, <1>2 DEF MinInv
<1>6. MinInv'
  BY <1>1, <1>4, <1>5 DEF MinInv, Phases
<1> QED
  BY <1>2, <1>5, <1>6

LEMMA FailurePreserves ==
  ASSUME MinInv, Failure
  PROVE  MinInv' /\ caller'.kept = caller.kept
<1>1. /\ caller.phase = "testing" /\ minimizer' = failure(minimizer)
      /\ caller' = [caller EXCEPT !.phase = "asking", !.offered = NoOffer,
                                  !.refused = @ \cup {caller.offered[1]}]
      /\ UNCHANGED builder
  BY DEF Failure
<1>2. caller.offered[1] = candidate(minimizer)
  BY <1>1 DEF MinInv
<1>3. MinimizerInv(minimizer, TRUE, caller.kept, caller.refused)
  BY <1>1 DEF MinInv
<1>4. MinimizerInv(failure(minimizer), FALSE, caller.kept,
                   caller.refused \cup {candidate(minimizer)})
  BY <1>3, FailureMinimizer
<1>5. /\ DOMAIN caller' = {"phase", "kept", "offered", "refused"}
      /\ caller'.phase = "asking" /\ caller'.kept = caller.kept
      /\ caller'.offered = NoOffer
      /\ caller'.refused = caller.refused \cup {candidate(minimizer)}
  BY <1>1, <1>2 DEF MinInv
<1>6. MinInv'
  BY <1>1, <1>4, <1>5 DEF MinInv, Phases
<1> QED
  BY <1>5, <1>6

\* The end of the loop, and the nops that are taken out after it.
LEMMA EndPreserves ==
  ASSUME MinInv, Finish \/ RemoveNops
  PROVE  /\ MinInv' /\ UNCHANGED minimizer /\ caller'.offered = caller.offered
         /\ caller.phase # "testing" /\ caller'.phase # "testing"
<1>1. CASE Finish
  <2>1. /\ caller.phase = "asking" /\ Exhausted(minimizer)
        /\ caller' = [caller EXCEPT !.phase = "minimized"] /\ UNCHANGED <<builder, minimizer>>
    BY <1>1 DEF Finish
  <2>2. /\ DOMAIN caller' = {"phase", "kept", "offered", "refused"}
        /\ caller'.phase = "minimized" /\ caller'.kept = caller.kept
        /\ caller'.offered = caller.offered /\ caller'.refused = caller.refused
    BY <2>1 DEF MinInv
  <2> QED
    BY <2>1, <2>2 DEF MinInv, Phases
<1>2. CASE RemoveNops
  <2> DEFINE q == remove_nops(caller.kept)
  <2>1. /\ caller.phase = "minimized"
        /\ caller' = [caller EXCEPT !.phase = "cleaned", !.kept = q]
        /\ UNCHANGED <<builder, minimizer>>
    BY <1>2 DEF RemoveNops
  <2> HIDE DEF q
  <2>2. /\ DOMAIN caller' = {"phase", "kept", "offered", "refused"}
        /\ caller'.phase = "cleaned"
        /\ caller'.offered = caller.offered /\ caller'.refused = caller.refused
    BY <2>1 DEF MinInv
  <2> QED
    BY <2>1, <2>2 DEF MinInv, Phases
<1> QED
  BY <1>1, <1>2

\* The invariant of the loop.
LEMMA MinimizersInvariant == MinimizersSpec => []MinInv
<1>1. MinInv /\ [MinimizersNext]_vars => MinInv'
  <2> SUFFICES ASSUME MinInv, [MinimizersNext]_vars PROVE MinInv'
    OBVIOUS
  <2>1. CASE UNCHANGED vars
    BY <2>1 DEF vars, MinInv
  <2>2. CASE MinimizersNext
    BY <2>2, WritePreserves, BeginPreserves, AskPreserves, SuccessPreserves,
       FailurePreserves, EndPreserves DEF MinimizersNext, Loop
  <2> QED
    BY <2>1, <2>2
<1> QED
  BY <1>1, MinimizersInitInv, PTL DEF MinimizersSpec

-----------------------------------------------------------------------------
\* The refinement.

\* What the caller keeps is what the minimizer remembers as the best program.
BestKept ==
  caller.phase \in {"asking", "testing", "minimized"} =>
    Best(minimizer) = caller.kept /\ minimizer # NoMinimizer

LEMMA BestIsKept == MinInv => BestKept
<1> SUFFICES ASSUME MinInv, caller.phase \in {"asking", "testing", "minimized"}
             PROVE  Best(minimizer) = caller.kept /\ minimizer # NoMinimizer
  BY DEF BestKept
<1> DEFINE t == caller.phase = "testing"
<1>1. MinimizerInv(minimizer, t, caller.kept, caller.refused)
  BY DEF MinInv
<1>2. minimizer # NoMinimizer
  <2>1. minimizer.kind # "none"
    BY <1>1 DEF MinimizerInv
  <2> QED
    BY <2>1 DEF NoMinimizer
<1>3. CASE minimizer.kind = "cutting" /\ CuttingInv(minimizer, t, caller.kept, caller.refused)
  BY <1>2, <1>3 DEF Best, CuttingInv
<1>4. CASE minimizer.kind = "blocks" /\ BlocksInv(minimizer, t, caller.kept, caller.refused)
  BY <1>2, <1>4 DEF Best, BlocksInv
<1>5. CASE minimizer.kind = "nopping" /\ NoppingInv(minimizer, t, caller.kept, caller.refused)
  BY <1>2, <1>5 DEF Best, NoppingInv
<1> QED
  BY <1>1, <1>3, <1>4, <1>5 DEF MinimizerInv

\* The minimizer's best program changes only when the minimizer or the verdict
\* does.
LEMMA BestStays ==
  ASSUME UNCHANGED minimizer, (caller.phase = "testing") <=> (caller'.phase = "testing")
  PROVE  Best(minimizer)' = Best(minimizer)
  BY DEF Best

\* Every behaviour of the minimizers is one of the abstract minimization: each
\* offer is the best program so far less one piece, a good offer becomes the
\* best program and a bad one leaves it, whatever the verdicts are.
THEOREM MinimizersMinimize == MinimizersSpec => ImplementsMinimization
<1>1. MinimizersInit => Abstract!Init
  BY DEF MinimizersInit, Abstract!Init, NoOffer
<1>2. MinInv /\ BestKept /\ BestKept' /\ [MinimizersNext]_vars
        => [Abstract!Next]_(Abstract!vars)
  <2> SUFFICES ASSUME MinInv, BestKept, BestKept', [MinimizersNext]_vars
               PROVE  [Abstract!Next]_(Abstract!vars)
    OBVIOUS
  <2>1. CASE UNCHANGED vars
    <3>1. UNCHANGED <<minimizer, caller>>
      BY <2>1 DEF vars
    <3>2. Best(minimizer)' = Best(minimizer)
      BY <3>1, BestStays
    <3> QED
      BY <3>1, <3>2 DEF Abstract!vars
  <2>2. CASE Grow
    <3>1. UNCHANGED <<minimizer, caller>>
      BY <2>2, WritePreserves
    <3>2. Best(minimizer)' = Best(minimizer)
      BY <3>1, BestStays
    <3> QED
      BY <3>1, <3>2 DEF Abstract!vars
  <2>3. CASE Begin
    <3>1. minimizer = NoMinimizer /\ minimizer' # NoMinimizer /\ caller'.offered = caller.offered
      BY <2>3, BeginPreserves
    <3> QED
      BY <3>1 DEF Abstract!Start, Abstract!Next
  <2>4. CASE Ask
    <3>1. caller'.kept = caller.kept /\ Len(caller'.offered) = 1
          /\ IsReduction(caller'.offered[1], caller.kept)
      BY <2>4, AskPreserves
    <3>2. caller.phase = "asking" /\ caller'.phase = "testing" /\ caller.offered = << >>
      BY <2>4 DEF Ask, MinInv, NoOffer
    <3> QED
      BY <3>1, <3>2 DEF BestKept, Abstract!Offer, Abstract!Next
  <2>5. CASE Success
    <3>1. caller'.kept = caller.offered[1]
      BY <2>5, SuccessPreserves
    <3>2. /\ caller.phase = "testing" /\ caller'.phase = "asking" /\ caller.offered # << >>
          /\ caller'.offered = << >>
      BY <2>5 DEF Success, MinInv, NoOffer
    <3> QED
      BY <3>1, <3>2 DEF BestKept, Abstract!Good, Abstract!Next
  <2>6. CASE Failure
    <3>1. caller'.kept = caller.kept
      BY <2>6, FailurePreserves
    <3>2. /\ caller.phase = "testing" /\ caller'.phase = "asking" /\ caller.offered # << >>
          /\ caller'.offered = << >>
      BY <2>6 DEF Failure, MinInv, NoOffer
    <3> QED
      BY <3>1, <3>2 DEF BestKept, Abstract!Bad, Abstract!Next
  <2>7. CASE Finish \/ RemoveNops
    <3>1. /\ UNCHANGED minimizer /\ caller'.offered = caller.offered
          /\ caller.phase # "testing" /\ caller'.phase # "testing"
      BY <2>7, EndPreserves
    <3>2. Best(minimizer)' = Best(minimizer)
      BY <3>1, BestStays
    <3> QED
      BY <3>1, <3>2 DEF Abstract!vars
  <2> QED
    BY <2>1, <2>2, <2>3, <2>4, <2>5, <2>6, <2>7 DEF MinimizersNext, Loop
<1> QED
  BY <1>1, <1>2, BestIsKept, MinimizersInvariant, PTL
     DEF MinimizersSpec, ImplementsMinimization, Abstract!Spec

-----------------------------------------------------------------------------
\* What is left when a minimizer gives up.

\* The cutting minimizer stops where one instruction less has been refused.
LEMMA CuttingIsThrough ==
  ASSUME NEW m, NEW kept, NEW refused, CuttingInv(m, FALSE, kept, refused), CutDone(m)
  PROVE  kept = << >> \/ Front(kept) \in refused
<1> DEFINE p == m.program
           n == m.chopped
<1>1. /\ IsProgram(p) /\ Len(p) \in Nat /\ n \in 0 .. Len(p) /\ m.current \in 0 .. n
      /\ kept = SubSeq(p, 1, n)
  BY ProgramFacts DEF CuttingInv
<1>2. m.current = n
  BY <1>1 DEF CutDone
<1>3. n = 0 \/ SubSeq(p, 1, n - 1) \in refused
  BY <1>2 DEF CuttingInv
<1> HIDE DEF p, n
<1>4. Len(kept) = n
  BY <1>1, Beginning
<1>5. CASE n = 0
  <2>1. 1 \in Int /\ n \in Int /\ n < 1
    BY <1>5
  <2>2. SubSeq(p, 1, n) = << >>
    BY <2>1, SubSeqEmpty
  <2> QED
    BY <1>1, <2>2
<1>6. CASE n # 0
  <2>1. n - 1 \in 0 .. n
    BY <1>1, <1>6
  <2>2. SubSeq(SubSeq(p, 1, n), 1, n - 1) = SubSeq(p, 1, n - 1)
    BY <1>1, <2>1, ShorterBeginning
  <2> QED
    BY <1>1, <1>3, <1>4, <1>6, <2>2 DEF Front
<1> QED
  BY <1>5, <1>6

\* The nopping minimizer stops when every nop it could still put has been
\* refused, with what lies beyond as it is now.
LEMMA NoppingIsThrough ==
  ASSUME NEW m, NEW kept, NEW refused, NoppingInv(m, FALSE, kept, refused),
         Noppable(m) = {}, NEW n \in 1 .. Len(kept), is_noppable(kept[n].operation)
  PROVE  nop_range(SubSeq(m.program, 1, n) \o SubSeq(kept, n + 1, Len(kept)), n, n)
           \in refused
<1> DEFINE p == m.program
<1>1. /\ IsProgram(p) /\ IsProgram(kept) /\ kept = m.current /\ Len(kept) = Len(p)
      /\ Len(p) \in Nat /\ m.current_nop \in 0 .. Len(p)
  BY ProgramFacts DEF NoppingInv
<1>2. n \in 1 .. Len(p)
  BY <1>1
<1>3. ~ Ahead(m, n)
  <2>1. Ahead(m, n) => n \in Noppable(m)
    BY <1>1, <1>2 DEF Ahead, Noppable, None
  <2> QED
    BY <2>1
<1>4. Trial(p, kept, n, n) \in refused
  BY <1>1, <1>2, <1>3 DEF NoppingInv
<1> HIDE DEF p
<1>5. nop_range(SubSeq(p, 1, n) \o SubSeq(kept, n + 1, Len(kept)), n, n) = Trial(p, kept, n, n)
  <2>1. n \in 1 .. n
    BY <1>1, <1>2
  <2> QED
    BY <1>1, <1>2, <2>1, TrialIs
<1> QED
  BY <1>4, <1>5 DEF p

\* The block minimizer stops when every outermost block that is left has been
\* refused, with what lies beyond as it is now.
LEMMA BlocksAreThrough ==
  ASSUME NEW m, NEW kept, NEW refused, BlocksInv(m, FALSE, kept, refused),
         ~ BlockFound(m), ~ SelfNested(m.program),
         NEW f \in 1 .. Len(kept), NEW l \in 1 .. Len(kept), OutermostBlock(kept, f, l)
  PROVE  nop_range(SubSeq(m.program, 1, l) \o SubSeq(kept, l + 1, Len(kept)), f, l)
           \in refused
<1> DEFINE p == m.program
           q == m.last_good
           n == Len(p)
<1>1. /\ IsProgram(p) /\ IsProgram(q) /\ Len(q) = n /\ n \in Nat /\ kept = q
      /\ m.current = q
  BY ProgramFacts DEF BlocksInv
<1>2. PICK c \in 1 .. n + 1 : BlocksAt(m, FALSE, refused, c)
  BY DEF BlocksInv
<1>3. /\ Depth(p, c) = 0
      /\ m.current_index = IF c <= n THEN c ELSE Max({n, 1})
      /\ \A k \in 1 .. c - 1 : q[k] = p[k]
      /\ \A first, last \in 1 .. n :
           OutermostBlock(q, first, last) /\ c <= first => Trial(p, q, first, last) \in refused
  BY <1>2 DEF BlocksAt
<1>4. /\ f \in 1 .. n /\ l \in 1 .. n /\ f < l /\ Depth(q, l + 1) = 0
      /\ \A k \in f + 1 .. l : Depth(q, k) > 0
  BY <1>1 DEF OutermostBlock
<1>b. BlockEnds(m.current, m.current_index) # {} =>
        BlockBegins(m.current, Max(BlockEnds(m.current, m.current_index))) # {}
  BY <1>2, LastEnd
<1>5. Max({n, 1}) \in Nat /\ Max({n, 1}) >= n
  <2> HIDE DEF n
  <2>1. n \in Int /\ 1 \in Int
    BY <1>1
  <2>2. Max({n, 1}) = IF n >= 1 THEN n ELSE 1
    BY <2>1, OfTwo
  <2> QED
    BY <1>1, <2>2
<1> HIDE DEF p, q, n
<1>6. c <= f
  <2>1. SUFFICES ASSUME f < c PROVE FALSE
    BY <1>1, <1>2, <1>4
  <2>2. Depth(q, c) = 0
    <3>1. c \in Nat \ {0}
      BY <1>1, <1>2
    <3>2. \A j \in 1 .. c - 1 : Alike(q[j], p[j])
      BY <1>3 DEF Alike
    <3> QED
      BY <1>3, <3>1, <3>2, DepthSame
  <2>3. l < c
    <3>1. SUFFICES ASSUME c <= l PROVE FALSE
      BY <1>1, <1>2, <1>4
    <3>2. c \in f + 1 .. l
      BY <1>1, <1>2, <1>4, <2>1, <3>1
    <3> QED
      BY <1>4, <2>2, <3>2
  <2>4. is_block_end(q[l].operation)
    <3>1. l \in Nat \ {0} /\ l \in f + 1 .. l
      BY <1>1, <1>4
    <3>2. Depth(q, l) \in Int /\ Depth(q, l) > 0
      BY <1>4, <3>1, DepthType
    <3>3. Depth(q, l + 1) = Depth(q, l) + (IF is_block_begin(q[l].operation) THEN 1 ELSE 0)
                                        - (IF is_block_end(q[l].operation) THEN 1 ELSE 0)
      BY <3>1, DepthNext
    <3> QED
      BY <1>4, <3>2, <3>3
  <2>5. l <= m.current_index /\ m.current_index \in Nat /\ m.current_index # 1
    BY <1>1, <1>2, <1>3, <1>4, <1>5, <2>3
  <2>6. l \in BlockEnds(m.current, m.current_index)
    <3> DEFINE from == m.current_index
    <3> HIDE DEF from
    <3>1. from \in Int /\ n \in Int /\ l <= from
      BY <1>1, <2>5 DEF from
    <3>2. Min({from, n}) = IF from <= n THEN from ELSE n
      BY <3>1, OfTwo
    <3>3. l \in 1 .. Min({from, n})
      BY <1>1, <1>4, <3>1, <3>2
    <3>4. Len(m.current) = n
      BY <1>1
    <3> QED
      BY <1>1, <2>4, <3>3, <3>4 DEF BlockEnds, from
  <2>7. BlockFound(m)
    BY <1>b, <2>5, <2>6 DEF BlockFound
  <2> QED
    BY <2>7
<1>7. Trial(p, q, f, l) \in refused
  BY <1>1, <1>3, <1>4, <1>6
<1>8. nop_range(SubSeq(p, 1, l) \o SubSeq(q, l + 1, Len(q)), f, l) = Trial(p, q, f, l)
  <2>1. l \in 1 .. Len(p) /\ f \in 1 .. l /\ Len(q) = Len(p)
    BY <1>1, <1>4 DEF n
  <2> QED
    BY <1>1, <2>1, TrialIs
<1> QED
  BY <1>1, <1>7, <1>8 DEF p

\* When a minimizer gives up, the last step it could still make has been
\* refused: one instruction less for the cutting minimizer; one nop more, or
\* one outermost block less, with everything after it settled, for the others.
THEOREM MinimizersAreThorough == MinimizersSpec => []NothingLeftUntried
<1>1. MinInv => NothingLeftUntried
  <2> SUFFICES ASSUME MinInv, caller.phase = "minimized"
               PROVE  NothingLeftUntried
    BY DEF NothingLeftUntried
  <2> DEFINE p == minimizer.program
             q == caller.kept
             refused == caller.refused
  <2>1. MinimizerInv(minimizer, FALSE, q, refused) /\ Exhausted(minimizer)
    BY DEF MinInv
  <2>2. CASE minimizer.kind = "cutting" /\ CuttingInv(minimizer, FALSE, q, refused)
    <3>1. q = << >> \/ Front(q) \in refused
      BY <2>1, <2>2, CuttingIsThrough DEF Exhausted
    <3> QED
      BY <2>2, <3>1 DEF NothingLeftUntried
  <2>3. CASE minimizer.kind = "blocks" /\ BlocksInv(minimizer, FALSE, q, refused)
    <3>1. ~ BlockFound(minimizer)
      BY <2>1, <2>3 DEF Exhausted
    <3>2. ~ SelfNested(p) =>
            \A first, last \in 1 .. Len(q) : OutermostBlock(q, first, last) =>
              nop_range(SubSeq(p, 1, last) \o SubSeq(q, last + 1, Len(q)), first, last)
                \in refused
      BY <2>3, <3>1, BlocksAreThrough
    <3> QED
      BY <2>3, <3>2 DEF NothingLeftUntried
  <2>4. CASE minimizer.kind = "nopping" /\ NoppingInv(minimizer, FALSE, q, refused)
    <3>1. Noppable(minimizer) = {}
      BY <2>1, <2>4 DEF Exhausted
    <3>2. \A n \in 1 .. Len(q) : is_noppable(q[n].operation) =>
            nop_range(SubSeq(p, 1, n) \o SubSeq(q, n + 1, Len(q)), n, n) \in refused
      BY <2>4, <3>1, NoppingIsThrough
    <3> QED
      BY <2>4, <3>2 DEF NothingLeftUntried
  <2> QED
    BY <2>1, <2>2, <2>3, <2>4 DEF MinimizerInv
<1> QED
  BY <1>1, MinimizersInvariant, PTL

-----------------------------------------------------------------------------
\* What a candidate keeps of the blocks.

\* Without one outermost block a program stays well nested.
LEMMA BlockOfferNests ==
  ASSUME NEW m, NEW kept, NEW refused, BlocksInv(m, TRUE, kept, refused),
         ~ SelfNested(m.program)
  PROVE  WellNested(m.current)
<1> DEFINE q == m.last_good
           n == Len(m.program)
<1>1. IsProgram(q) /\ Len(q) = n /\ n \in Nat
  BY ProgramFacts DEF BlocksInv
<1>2. PICK c \in 1 .. n + 1 : BlocksAt(m, TRUE, refused, c)
  BY DEF BlocksInv
<1>3. WellNested(q)
  BY <1>2 DEF BlocksAt
<1>4. PICK last \in 1 .. n : OutermostBlock(q, c, last) /\ m.current = nop_range(q, c, last)
  BY <1>2 DEF BlocksAt
<1>5. c \in 1 .. Len(q) /\ last \in 1 .. Len(q)
  BY <1>1, <1>2, <1>4 DEF OutermostBlock
<1> HIDE DEF q
<1> QED
  BY <1>1, <1>3, <1>4, <1>5, OutermostNopped

\* Nops in the place of instructions that neither open nor close a block leave
\* the blocks as they were.
LEMMA NopOfferNests ==
  ASSUME NEW m, NEW testing, NEW kept, NEW refused, NoppingInv(m, testing, kept, refused)
  PROVE  WellNested(m.current)
<1> DEFINE p == m.program
           q == m.current
<1>1. /\ IsProgram(p) /\ IsProgram(q) /\ Len(q) = Len(p) /\ WellNested(p)
      /\ \A k \in 1 .. Len(p) :
           q[k] = p[k] \/ (q[k] = nop(p[k]) /\ is_noppable(p[k].operation))
  BY DEF NoppingInv
<1> HIDE DEF p, q
<1>2. ASSUME NEW k \in 1 .. Len(p)
      PROVE  /\ Alike(q[k], p[k])
             /\ is_block_begin(p[k].operation) \/ is_block_end(p[k].operation) => q[k] = p[k]
  <2>1. CASE q[k] = p[k]
    BY <2>1 DEF Alike
  <2>2. CASE q[k] = nop(p[k]) /\ is_noppable(p[k].operation)
    <3>1. ~ is_block_begin(p[k].operation) /\ ~ is_block_end(p[k].operation)
      BY <2>2 DEF is_noppable
    <3> QED
      BY <2>2, <3>1, NopIsFlat DEF Alike
  <2> QED
    BY <1>1, <2>1, <2>2
<1>3. WellNested(q)
  BY <1>1, <1>2, AlikeNests
<1> QED
  BY <1>3 DEF q

\* Nops never tear a block apart: in every program the block minimizer or the
\* nopping minimizer offers, each block that is opened is closed, by an end of
\* its own type, although its inputs may be gone.
THEOREM MinimizersKeepBlocksWhole == MinimizersSpec => []BlocksStayWhole
<1>1. MinInv => BlocksStayWhole
  <2> SUFFICES ASSUME MinInv, caller.phase = "testing", minimizer.kind # "cutting",
                      ~ SelfNested(minimizer.program)
               PROVE  Balanced(caller.offered[1])
    BY DEF BlocksStayWhole
  <2>1. MinimizerInv(minimizer, TRUE, caller.kept, caller.refused)
    BY DEF MinInv
  <2>2. caller.offered[1] = minimizer.current
    BY DEF MinInv, candidate
  <2>3. CASE BlocksInv(minimizer, TRUE, caller.kept, caller.refused)
    <3>1. IsProgram(minimizer.current) /\ WellNested(minimizer.current)
      BY <2>3, BlockOfferNests DEF BlocksInv
    <3> QED
      BY <2>2, <3>1, WellNestedIsBalanced
  <2>4. CASE NoppingInv(minimizer, TRUE, caller.kept, caller.refused)
    <3>1. IsProgram(minimizer.current) /\ WellNested(minimizer.current)
      BY <2>4, NopOfferNests DEF NoppingInv
    <3> QED
      BY <2>2, <3>1, WellNestedIsBalanced
  <2> QED
    BY <2>1, <2>3, <2>4 DEF MinimizerInv
<1> QED
  BY <1>1, MinimizersInvariant, PTL
=============================================================================
