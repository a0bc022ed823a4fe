------------------------------- MODULE JitCode -------------------------------
(***************************************************************************)
(* The code generator of an expression (ASTNode::depth and gencode in      *)
(* src/src/mathexpr.hpp).  An instruction is a call of sljit_emit_*, an    *)
(* operand is <<"reg", n>>, <<"slot", n>> (a word of the stack frame) or   *)
(* <<"imm", w>>, and a jump names the number of instructions it passes     *)
(* over, so that the code of the parts of a tree can be joined.            *)
(***************************************************************************)
EXTENDS MathExpr, FiniteSetsExt

\* The slots of the three arguments, compiler._local_vars, and their number.
LocalVars == [old |-> 0, new |-> 1, addr |-> 2]
LocalSize == 3

R0 == <<"reg", 0>>
R1 == <<"reg", 1>>
R2 == <<"reg", 2>>
Targets == {R0, R1}
Imm(w)  == <<"imm", w>>
Slot(d) == <<"slot", LocalSize + d>>

Mov(dst, src)         == [op |-> "mov", dst |-> dst, a |-> src]
Alu(opr, dst, a, b)   == [op |-> "alu", opr |-> opr, dst |-> dst, a |-> a, b |-> b]
JumpIf(opr, a, b, n)  == [op |-> "cmp", opr |-> opr, signless |-> FALSE, a |-> a, b |-> b, skip |-> n]
JumpIfU(opr, a, b, n) == [op |-> "cmp", opr |-> opr, signless |-> TRUE, a |-> a, b |-> b, skip |-> n]
Jump(n)               == [op |-> "jump", skip |-> n]

\* Loads the truth of what the jump before it, over two instructions, tested.
SetOutcome(yes) == <<Mov(R0, Imm(1 - yes)), Jump(1), Mov(R0, Imm(yes))>>

-------------------------------------------------------------------------------
(* ASTNode::depth: how many slots the node at a place may use if its own      *)
(* begin at d.                                                                *)

\* Mutant: the left operand is not counted one slot deeper.
DepthLevel(depth, n, d) ==
  CASE n.node \in {"Number", "Ref"} -> d
    [] n.node = "Opr1"  -> depth[n.expr][d + 1]
    [] n.node = "Opr2"  -> Max({depth[n.lexpr][d], depth[n.rexpr][d]})
    [] n.node = "Opr3"  -> Max({depth[n.cond][d], depth[n.expr1][d], depth[n.expr2][d]})
    [] n.node = "Range" -> Max({depth[n.expr][d], depth[n.min][d + 1], depth[n.max][d + 2]})
    [] n.node = "Mask"  -> Max({depth[n.value][d], depth[n.mask][d + 1], depth[n.expr][d + 2]})

NodeDepth(depth, n, d) ==
  CASE n.node \in {"Number", "Ref"} -> d
    [] n.node = "Opr1"  -> depth[n.expr][d + 1]
    [] n.node = "Opr2"  -> Max({depth[n.lexpr][d + 1], depth[n.rexpr][d]})
    [] n.node = "Opr3"  -> Max({depth[n.cond][d], depth[n.expr1][d], depth[n.expr2][d]})
    [] n.node = "Range" -> Max({depth[n.expr][d], depth[n.min][d + 1], depth[n.max][d + 2]})
    [] n.node = "Mask"  -> Max({depth[n.value][d], depth[n.mask][d + 1], depth[n.expr][d + 2]})

Depth(ast) ==
  LET depth[i \in DOMAIN ast] == [d \in Nat |-> NodeDepth(depth, ast[i], d)] IN depth

FrameSize(ast, root) == LocalSize + Depth(ast)[root][0]

\* The operation itself, on R0 and R1.  DIVMOD leaves the remainder in R1.
BinaryCode(opr) ==
  CASE opr \in Comparisons -> <<JumpIf(opr, R0, R1, 2)>> \o SetOutcome(1)
    [] opr = "&&" -> <<JumpIf("=", R0, Imm(0), 3), JumpIf("=", R1, Imm(0), 2)>> \o SetOutcome(0)
    [] opr = "||" -> <<JumpIf("!=", R0, Imm(0), 1), JumpIf("=", R1, Imm(0), 2)>> \o SetOutcome(0)
    [] opr = "%"  -> <<Alu("%", R1, R0, R1), Mov(R0, R1)>>
    [] OTHER      -> <<Alu(opr, R0, R0, R1)>>

UnaryCode(opr) ==
  CASE opr = "-" -> <<Alu("-", R0, Imm(0), R0)>>
    [] opr = "~" -> <<Alu("-", R0, Imm(Wrapped(0 - 1)), R0)>>
    [] opr = "!" -> <<JumpIf("=", R0, Imm(0), 2)>> \o SetOutcome(0)

(***************************************************************************)
(* gencode(): the code of node n, whose slots begin at d, with its value   *)
(* in R0; a leaf loads the register it was retargeted to.  Of two operands *)
(* a leaf is computed last, and only two inner nodes need a slot, in which *)
(* the right one waits for the left one.  code is that of the nodes below. *)
(***************************************************************************)
\* Mutant: the left operand may use the slot in which the right one waits.
OperandsShared(code, ast, n, d) ==
  CASE IsRetarget(ast[n.rexpr]) -> code[n.lexpr][d][R0] \o code[n.rexpr][d][R1]
    [] IsRetarget(ast[n.lexpr]) /\ ~IsRetarget(ast[n.rexpr]) ->
         code[n.rexpr][d][R0] \o <<Mov(R1, R0)>> \o code[n.lexpr][d][R0]
    [] OTHER -> code[n.rexpr][d][R0] \o <<Mov(Slot(d), R0)>>
                  \o code[n.lexpr][d][R0] \o <<Mov(R1, Slot(d))>>

Operands(code, ast, n, d) ==
  CASE IsRetarget(ast[n.rexpr]) -> code[n.lexpr][d][R0] \o code[n.rexpr][d][R1]
    [] IsRetarget(ast[n.lexpr]) /\ ~IsRetarget(ast[n.rexpr]) ->
         code[n.rexpr][d][R0] \o <<Mov(R1, R0)>> \o code[n.lexpr][d][R0]
    [] OTHER -> code[n.rexpr][d][R0] \o <<Mov(Slot(d), R0)>>
                  \o code[n.lexpr][d + 1][R0] \o <<Mov(R1, Slot(d))>>

\* Mutant: the first branch runs on into the second.
ConditionCodeFallsThrough(c, c1, c2) ==
  c \o <<JumpIf("=", R0, Imm(0), Len(c1))>> \o c1 \o c2

ConditionCode(c, c1, c2) ==
  c \o <<JumpIf("=", R0, Imm(0), Len(c1) + 1)>> \o c1 \o <<Jump(Len(c2))>> \o c2

RangeCode(code, n, d) ==
  code[n.expr][d][R0] \o <<Mov(Slot(d), R0)>>
    \o code[n.min][d + 1][R0] \o <<Mov(Slot(d + 1), R0)>>
    \o code[n.max][d + 2][R0]
    \o <<Mov(R1, Slot(d)), JumpIfU(">", R1, R0, 4),
         Mov(R0, Slot(d + 1)), JumpIfU("<", R1, R0, 2)>>
    \o SetOutcome(Truth(n.reverse))

MaskCode(code, n, d) ==
  code[n.value][d][R0] \o <<Mov(Slot(d), R0)>>
    \o code[n.mask][d + 1][R0] \o <<Mov(Slot(d + 1), R0)>>
    \o code[n.expr][d + 2][R0]
    \o <<Mov(R1, Slot(d)), Mov(R2, Slot(d + 1)),
         Alu("&", R0, R0, R2), Alu("&", R1, R1, R2), JumpIf("!=", R0, R1, 2)>>
    \o SetOutcome(Truth(n.reverse))

NodeCode(code, ast, n, d, target) ==
  CASE n.node = "Number" -> <<Mov(target, Imm(n.value))>>
    [] n.node = "Ref"    -> <<Mov(target, <<"slot", LocalVars[n.name]>>)>>
    [] n.node = "Opr1"   -> code[n.expr][d][R0] \o UnaryCode(n.opr)
    [] n.node = "Opr2"   -> Operands(code, ast, n, d) \o BinaryCode(n.opr)
    [] n.node = "Opr3"   -> ConditionCode(code[n.cond][d][R0], code[n.expr1][d][R0], code[n.expr2][d][R0])
    [] n.node = "Range"  -> RangeCode(code, n, d)
    [] n.node = "Mask"   -> MaskCode(code, n, d)

Code(ast) ==
  LET code[i \in DOMAIN ast] ==
        [d \in Nat |-> [target \in Targets |-> NodeCode(code, ast, ast[i], d, target)]]
  IN  code
===============================================================================
