------------------------- MODULE ComparatorExpression -------------------------
(***************************************************************************)
(* The life of the expression of one scan or filter command, from its      *)
(* text to the verdict on a candidate (src/src/dsl.cpp, dsl.hpp,           *)
(* compexpr.hpp, mathexpr.hpp and the callers in cmd_scan.cpp): it is      *)
(* parsed and its constants are folded, the command decides whether it     *)
(* needs code at all.  If not, a comparator of the number type judges the  *)
(* candidate; otherwise the code is generated once per number type (scan)  *)
(* or once for the signed and once for the unsigned types (filter), and    *)
(* it runs on the words $old, $new and $addr.                              *)
(*                                                                         *)
(* One call of each code is modelled: a call finds nothing that an earlier *)
(* one has left, since the frame and the scratch registers are its own.    *)
(***************************************************************************)
EXTENDS JitCode, Comparators

CONSTANTS
  Sources,  \* the comparator expressions typed: [comparator, tokens]
  Callers,  \* who parses them: [kind, compiles], compiles the signs asked for
  Inputs,   \* the words the code is called with: [old, new, addr]
  NumberTypes, \* the number types of candidates that need no code
  Junk      \* a register or a stack slot nothing was written to

VARIABLES
  source, caller,
  input,    \* the arguments of the code that runs, or would run if the command
            \* needed any; Junk before that
  optimal,  \* EXPR::_constant_optimal
  nodes,    \* the nodes the parser has allocated, see MathExpr
  stack,    \* the parser's semantic stack, of places of nodes
  pos,      \* the token to be reduced next
  exprs,    \* _expr1 and _expr2
  moved,    \* std::move() has emptied them
  todo,     \* the calls of compile() still to come: the _unsigned of each
  codes,    \* the JITCode compiled, per _unsigned
  phase,
  sign,     \* the _unsigned of that code
  pc, regs, frame,
  tested    \* the number type and the verdict of a comparator without code, or Junk

parser  == <<optimal, nodes, stack, pos>>
machine == <<sign, pc, regs, frame>>
vars == <<source, caller, input, parser, exprs, moved, todo, codes, phase, machine, tested>>

Wrapping == [EQ_Expr |-> "=", NE_Expr |-> "!=", GT_Expr |-> ">", GE_Expr |-> ">=",
             LT_Expr |-> "<", LE_Expr |-> "<="]
Relation == [EQ |-> "=", NE |-> "!=", GT |-> ">", GE |-> ">=", LT |-> "<", LE |-> "<="]
Ranges   == {"EQ_Range", "NE_Range"}
Masks    == {"EQ_Mask", "NE_Mask"}
Comparators == DOMAIN Wrapping \union DOMAIN Relation \union Ranges \union Masks \union {"Boolean"}

\* The expressions after a comparator.
Arguments(c) == IF c \in DOMAIN Relation THEN 0 ELSE IF c \in Ranges \union Masks THEN 2 ELSE 1

Tokens ==
  ({"num"} \X Words) \union ({"ref"} \X DOMAIN LocalVars)
    \union ({"opr1"} \X UnaryOprs) \union ({"opr2"} \X BinaryOprs) \union {<<"opr3">>}

\* How many operands are on the stack after each of the tokens.
Height(tokens) ==
  LET height[k \in 0 .. Len(tokens)] ==
        IF k = 0 THEN 0 ELSE height[k - 1] - Arity(tokens[k]) + 1
  IN  height

\* What the grammar accepts: every operator finds its operands, and what is left
\* are the arguments of the comparator.
IsText(tokens, c) ==
  /\ tokens \in Seq(Tokens)
  /\ \A k \in 1 .. Len(tokens) : Arity(tokens[k]) <= Height(tokens)[k - 1]
  /\ Height(tokens)[Len(tokens)] = Arguments(c)

ASSUME ExpressionAssumption ==
  /\ \A s \in Sources : s.comparator \in Comparators /\ IsText(s.tokens, s.comparator)
  /\ Callers \subseteq [kind : {"scan", "filter", "test"}, compiles : Seq(BOOLEAN) \ {<<>>}]
  /\ Inputs \subseteq [old : Words, new : Words, addr : Words]
  /\ NumberTypes \subseteq NumberType
  /\ Junk \notin Words

Init ==
  /\ source \in Sources /\ caller \in Callers /\ input = Junk
  /\ optimal \in (IF caller.kind = "test" THEN BOOLEAN ELSE {TRUE})
  /\ nodes = <<>> /\ stack = <<>> /\ pos = 1
  /\ exprs = <<>> /\ moved = FALSE
  /\ todo = caller.compiles /\ codes = <<>>
  /\ phase = "parsing"
  /\ sign = FALSE /\ pc = 1 /\ regs = [r \in 0 .. 2 |-> Junk] /\ frame = <<>>
  /\ tested = Junk

-------------------------------------------------------------------------------
(* Parsing: one action per EXPR constructor the parser runs.                *)

Token == source.tokens[pos]

Reduction == Built(Token, Top(stack, Arity(Token)))

\* The operands of the token are replaced by the node at place i of ast.
Pushes(ast, i) ==
  /\ nodes' = ast
  /\ stack' = Append(Rest(stack, Arity(Token)), i)
  /\ pos' = pos + 1
  /\ UNCHANGED <<source, caller, input, optimal, exprs, moved, todo, codes, phase, machine, tested>>

Allocates(n) == Pushes(Append(nodes, n), Len(nodes) + 1)

Parsing == phase = "parsing" /\ pos <= Len(source.tokens)

Reduce ==
  /\ Parsing
  /\ ~(optimal /\ (IsConstantOpr(nodes, Reduction) \/ IsConstantCond(nodes, Reduction)))
  /\ Allocates(Reduction)

\* opt1 and opt2.  What C++ leaves undefined may become any word.
Fold ==
  /\ Parsing
  /\ optimal /\ IsConstantOpr(nodes, Reduction)
  /\ \E w \in (IF FoldsTo(nodes, Reduction) = Undef THEN Words ELSE {FoldsTo(nodes, Reduction)}) :
       Allocates(ASTNumber(w))

\* opt3.
Choose ==
  /\ Parsing
  /\ optimal /\ IsConstantCond(nodes, Reduction)
  /\ Pushes(nodes, Chosen(nodes, Reduction))

\* A constant is divided by zero and the processor traps.
FoldTraps ==
  /\ Parsing
  /\ optimal /\ IsConstantOpr(nodes, Reduction)
  /\ Reduction.opr \in Divisions /\ FoldsTo(nodes, Reduction) = Undef
  /\ phase' = "trapped"
  /\ UNCHANGED <<source, caller, input, parser, exprs, moved, todo, codes, machine, tested>>

\* Both constants are known: no code is needed.
IsFast ==
  /\ source.comparator \notin {"Boolean"} \union DOMAIN Relation
  /\ \A i \in DOMAIN stack : IsNumber(nodes[stack[i]])

\* The parser returns and the command chooses between its two modes.
Accept ==
  /\ phase = "parsing" /\ pos > Len(source.tokens)
  /\ exprs' = stack
  /\ phase' = IF caller.kind = "test" THEN "compiling"
              ELSE IF source.comparator \in DOMAIN Relation
              THEN IF caller.kind = "scan" THEN "rejected" ELSE "fast"
              ELSE IF IsFast THEN "fast" ELSE "compiling"
  /\ UNCHANGED <<source, caller, input, parser, moved, todo, codes, machine, tested>>

-------------------------------------------------------------------------------
(* ComparatorExpression::compile.                                           *)

New == ASTRef("new")

\* The nodes with those of the tree that is compiled, and the place of its root.
Compared(c, ast, e) ==
  LET n == Len(ast) + 1
  IN  CASE c = "Boolean"          -> ast
        [] c \in DOMAIN Wrapping -> ast \o <<New, ASTOpr2(n, Wrapping[c], e[1])>>
        [] c \in DOMAIN Relation -> ast \o <<New, ASTRef("old"), ASTOpr2(n, Relation[c], n + 1)>>
        [] c \in Ranges          -> ast \o <<New, ASTRange(n, e[1], e[2], c = "NE_Range")>>
        [] c \in Masks           -> ast \o <<New, ASTMask(n, e[1], e[2], c = "NE_Mask")>>

Root(c, ast, e) == IF c = "Boolean" THEN e[1] ELSE Len(Compared(c, ast, e))

\* compile_ast: the code of a tree and the size of its frame.
CompileAST(ast, root) == [body |-> Code(ast)[root][0][R0], size |-> FrameSize(ast, root)]

JITCode ==
  CompileAST(Compared(source.comparator, nodes, exprs), Root(source.comparator, nodes, exprs))

\* compile_ast takes the tree of a Boolean by reference and leaves it in place.
Keeps(c) == c = "Boolean" \/ c \in DOMAIN Relation

\* The codes with that of one sign.
Adding(unsigned, code) ==
  [u \in DOMAIN codes \union {unsigned} |-> IF u = unsigned THEN code ELSE codes[u]]

\* filter() compiles both codes before it uses one.
Compiled ==
  IF caller.kind = "filter" /\ Len(todo) > 1 THEN "compiling" ELSE "ready"

Compile ==
  /\ phase = "compiling" /\ ~moved
  /\ codes' = Adding(Head(todo), JITCode)
  /\ moved' = ~Keeps(source.comparator)
  /\ todo' = Tail(todo)
  /\ phase' = Compiled
  /\ UNCHANGED <<source, caller, input, parser, exprs, machine, tested>>

\* The tree was moved into the node of an earlier compile(): depth() is
\* called on a null pointer.
CompileMoved ==
  /\ phase = "compiling" /\ moved
  /\ phase' = "crashed"
  /\ UNCHANGED <<source, caller, input, parser, exprs, moved, todo, codes, machine, tested>>

-------------------------------------------------------------------------------
(* The code runs: the prologue of compile_ast, then one instruction a step. *)

Call ==
  /\ phase = "ready"
  /\ \E u \in DOMAIN codes :
       /\ sign' = u
       /\ input' \in Inputs
       /\ frame' = [i \in 0 .. codes[u].size - 1 |->
                      CASE i = 0 -> input'.old [] i = 1 -> input'.new
                        [] i = 2 -> input'.addr [] OTHER -> Junk]
  /\ regs' = [r \in 0 .. 2 |-> Junk]
  /\ pc' = 1
  /\ phase' = "running"
  /\ UNCHANGED <<source, caller, parser, exprs, moved, todo, codes, tested>>

Body == codes[sign].body

Instr == Body[pc]

Runs(op) == phase = "running" /\ pc <= Len(Body) /\ Instr.op = op

Held(x) ==
  CASE x[1] = "imm"  -> x[2]
    [] x[1] = "reg"  -> regs[x[2]]
    [] x[1] = "slot" -> IF x[2] \in DOMAIN frame THEN frame[x[2]] ELSE Junk

\* The words an operand may deliver: any, if nothing was written there.
Reads(x) == IF Held(x) = Junk THEN Words ELSE {Held(x)}

Writes(x, w) ==
  /\ regs'  = IF x[1] = "reg" THEN [regs EXCEPT ![x[2]] = w] ELSE regs
  /\ frame' = IF x[1] = "slot" /\ x[2] \in DOMAIN frame THEN [frame EXCEPT ![x[2]] = w] ELSE frame

Unmoved == UNCHANGED <<source, caller, input, parser, exprs, moved, todo, codes, sign, tested>>

ExecMov ==
  /\ Runs("mov")
  /\ \E w \in Reads(Instr.a) : Writes(Instr.dst, w)
  /\ pc' = pc + 1
  /\ Unmoved /\ UNCHANGED phase

\* What sljit leaves undefined may become any word.
ExecAlu ==
  /\ Runs("alu")
  /\ \E x \in Reads(Instr.a), y \in Reads(Instr.b) :
       LET r == Binary(Instr.opr, x, y, sign)
       IN  \E w \in (IF r = Undef THEN Words ELSE {r}) : Writes(Instr.dst, w)
  /\ pc' = pc + 1
  /\ Unmoved /\ UNCHANGED phase

AluTraps ==
  /\ Runs("alu")
  /\ Instr.opr \in Divisions
  /\ \E x \in Reads(Instr.a), y \in Reads(Instr.b) : Binary(Instr.opr, x, y, sign) = Undef
  /\ phase' = "trapped"
  /\ Unmoved /\ UNCHANGED <<pc, regs, frame>>

ExecCmp ==
  /\ Runs("cmp")
  /\ \E x \in Reads(Instr.a), y \in Reads(Instr.b) :
       pc' = pc + 1 + Binary(Instr.opr, x, y, sign \/ Instr.signless) * Instr.skip
  /\ Unmoved /\ UNCHANGED <<phase, regs, frame>>

ExecJump ==
  /\ Runs("jump")
  /\ pc' = pc + 1 + Instr.skip
  /\ Unmoved /\ UNCHANGED <<phase, regs, frame>>

AtReturn == phase = "running" /\ pc > Len(Body)

\* The verdict is R0.  A scan goes on with the next number type.
Return ==
  /\ AtReturn
  /\ phase' = IF caller.kind = "scan" /\ todo # <<>> THEN "compiling" ELSE "done"
  /\ Unmoved /\ UNCHANGED <<pc, regs, frame>>

-------------------------------------------------------------------------------
(* No code is needed: one candidate of one number type is judged.           *)

\* A filter that only names a relation compares with the old value of the
\* match, the others with the constants of the expression.
Constructed(T) ==
  IF source.comparator \in DOMAIN Relation THEN <<Cast(T, input'.old)>>
  ELSE [i \in DOMAIN exprs |-> Cast(T, nodes[exprs[i]].value)]

CompareFast ==
  /\ phase = "fast"
  /\ \E T \in NumberTypes, old, new \in Words :
       /\ Wrapped(Cast(T, old)) = old /\ Wrapped(Cast(T, new)) = new
       /\ input' = [old |-> old, new |-> new, addr |-> 0]
       /\ sign' = T.unsigned
       /\ tested' = [type |-> T,
                     verdict |-> Verdict(source.comparator, T, Cast(T, new), Constructed(T))]
  /\ phase' = "done"
  /\ UNCHANGED <<source, caller, parser, exprs, moved, todo, codes, pc, regs, frame>>

-------------------------------------------------------------------------------
Parse   == Reduce \/ Fold \/ Choose \/ FoldTraps \/ Accept
Execute == ExecMov \/ ExecAlu \/ AluTraps \/ ExecCmp \/ ExecJump \/ Return

Next == Parse \/ CompareFast \/ Compile \/ CompileMoved \/ Call \/ Execute

Spec == Init /\ [][Next]_vars

-------------------------------------------------------------------------------
(* What the expression means, told from its tokens alone.                   *)

\* What a token makes of its operands: a value, and whether it was computed from
\* constants, which have no sign once the parser has folded them.
Reduced(a, t, in, unsigned) ==
  LET const == \A i \in DOMAIN a : a[i].const
      branch == a[IF a[1].value = 0 THEN 3 ELSE 2]
  IN  CASE t[1] = "num"  -> [value |-> t[2], const |-> optimal]
        [] t[1] = "ref"  -> [value |-> in[t[2]], const |-> FALSE]
        [] t[1] = "opr1" -> [value |-> Unary(t[2], a[1].value), const |-> const]
        [] t[1] = "opr2" -> [value |-> Binary(t[2], a[1].value, a[2].value, unsigned \/ const),
                             const |-> const]
        [] t[1] = "opr3" -> [value |-> IF a[1].value = Undef THEN Undef ELSE branch.value,
                             const |-> a[1].const /\ a[1].value # Undef /\ branch.const]

Evaluated(stk, t, in, unsigned) ==
  Append(Rest(stk, Arity(t)), Reduced(Top(stk, Arity(t)), t, in, unsigned))

\* The operands left by the first k tokens.
Evaluation(in, unsigned) ==
  LET after[k \in 0 .. Len(source.tokens)] ==
        IF k = 0 THEN <<>> ELSE Evaluated(after[k - 1], source.tokens[k], in, unsigned)
  IN  after

\* The verdict of the comparator on the input.
Meaning ==
  LET operands == Evaluation(input, sign)[Len(source.tokens)]
      v == [i \in DOMAIN operands |-> operands[i].value]
      c == source.comparator
      isUndef == \E i \in DOMAIN v : v[i] = Undef
  IN  IF isUndef THEN Undef ELSE
      CASE c = "Boolean"         -> v[1]
        [] c \in DOMAIN Wrapping -> Binary(Wrapping[c], input.new, v[1], sign)
        [] c \in DOMAIN Relation -> Binary(Relation[c], input.new, input.old, sign)
        [] c \in Ranges          -> Truth(input.new \in v[1] .. v[2] <=> c = "EQ_Range")
        [] c \in Masks           -> Truth((input.new & v[2]) = (v[1] & v[2]) <=> c = "EQ_Mask")

-------------------------------------------------------------------------------
\* The code computes what the text of the expression says, of the operands
\* in the order they were written: no register or slot of a pending operand
\* is overwritten by the code of another one, and a tree with folded parts
\* stands for the text.  What a folded part means is taken from the parser: a
\* comparison, a division or a remainder of constants has no sign.
ResultIsMeaning == AtReturn => Meaning \in {Undef, regs[0]}

\* Every word the code reads was written before, in a frame that has room for
\* it: the frame compile_ast reserves is as deep as gencode() needs.
OperandsReady ==
  phase = "running" /\ pc <= Len(Body) =>
    CASE Instr.op = "mov"  -> /\ Held(Instr.a) # Junk
                              /\ Instr.dst[1] = "slot" => Instr.dst[2] \in DOMAIN frame
      [] Instr.op = "jump" -> TRUE
      [] OTHER             -> Held(Instr.a) # Junk /\ Held(Instr.b) # Junk

\* The code traps only on an input for which the expression has no value: the
\* branch of a condition that is not chosen is not computed.
TrapsOnlyOnUndefined == phase = "trapped" /\ codes # <<>> => Meaning = Undef

\* A candidate gets the verdict the code for its sign would give: whether the
\* bounds are constants or have to be computed makes no difference.  That is so
\* for constants that the number type can hold, for it is to the type that they
\* are cast; and not for a range with one negative bound, which the code compares
\* without a sign and a comparator of a signed type with it.
FastAgrees ==
  tested # Junk =>
    LET k == [i \in DOMAIN exprs |-> nodes[exprs[i]].value]
        fits == \A i \in DOMAIN k : Wrapped(Cast(tested.type, k[i])) = k[i]
        spansZero == /\ source.comparator \in Ranges /\ ~tested.type.unsigned
                     /\ (AsSigned(k[1]) < 0) # (AsSigned(k[2]) < 0)
    IN  fits /\ ~spansZero => Meaning \in {Undef, Truth(tested.verdict)}

\* A filter with a complex expression is applied to the integral matches, as
\* the warning of filter() says: it gets as far as the code for both signs.
ComplexFilterCompiles == phase = "crashed" => caller.kind # "filter"
===============================================================================
