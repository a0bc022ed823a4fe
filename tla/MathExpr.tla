------------------------------- MODULE MathExpr -------------------------------
(***************************************************************************)
(* The expressions of a scan or a filter (src/src/mathexpr.hpp): their     *)
(* words, the trees the parser builds from them and the folding of         *)
(* constants it does on the way.  A source text is the sequence of its     *)
(* tokens in the order in which the parser reduces them, operands first.   *)
(***************************************************************************)
EXTENDS Integers, Sequences

CONSTANTS
  WordBits,  \* the width of uintptr_t
  Undef      \* the value of an expression C++ and sljit leave undefined

\* 2 ^ n, for the widths there are.
Pow2[n \in 0 .. WordBits] == IF n = 0 THEN 1 ELSE 2 * Pow2[n - 1]

Words == 0 .. Pow2[WordBits] - 1

ASSUME WordAssumption == WordBits \in Nat \ {0} /\ Undef \notin Words

Wrapped(n) == n % Pow2[WordBits]

AsSigned(w) == IF w < Pow2[WordBits - 1] THEN w ELSE w - Pow2[WordBits]

\* The bits of a word that are set, and the word they make.
BitsOf(w) == {i \in 0 .. WordBits - 1 : (w \div Pow2[i]) % 2 = 1}
OfBits(S) == CHOOSE w \in Words : BitsOf(w) = S
a & b == OfBits(BitsOf(a) \intersect BitsOf(b))
a | b == OfBits(BitsOf(a) \union BitsOf(b))

Truth(p) == IF p THEN 1 ELSE 0

\* Division of C and of sljit: the quotient is truncated towards zero.
Quotient(x, y) ==
  LET abs(n) == IF n < 0 THEN 0 - n ELSE n
      q == abs(x) \div abs(y)
  IN  IF x < 0 <=> y < 0 THEN q ELSE 0 - q

Comparisons == {"=", "!=", ">", ">=", "<", "<="}
Divisions   == {"/", "%"}
Shifts      == {"<<", ">>"}
BinaryOprs  == Comparisons \union Divisions \union Shifts
                 \union {"+", "-", "*", "&", "|", "&&", "||"}
UnaryOprs   == {"-", "~", "!"}

Compares(opr, x, y) ==
  CASE opr = "="  -> x = y  [] opr = "!=" -> x # y
    [] opr = ">"  -> x > y  [] opr = ">=" -> x >= y
    [] opr = "<"  -> x < y  [] opr = "<=" -> x <= y

(***************************************************************************)
(* What a word operation yields, of unsigned words or of signed ones.      *)
(* Dividing by zero, a quotient that does not fit and a shift by the width *)
(* or more are undefined.  Both operands are always evaluated.             *)
(***************************************************************************)
Binary(opr, a, b, unsigned) ==
  LET x == IF unsigned THEN a ELSE AsSigned(a)
      y == IF unsigned THEN b ELSE AsSigned(b)
      overflows == ~unsigned /\ x = 0 - Pow2[WordBits - 1] /\ y = 0 - 1
  IN  IF Undef \in {a, b} THEN Undef ELSE
      CASE opr \in Comparisons   -> Truth(Compares(opr, x, y))
        [] opr \in Divisions     ->
             IF y = 0 \/ overflows THEN Undef
             ELSE Wrapped(IF opr = "/" THEN Quotient(x, y) ELSE x - y * Quotient(x, y))
        [] opr \in Shifts        ->
             IF b >= WordBits THEN Undef
             ELSE IF opr = "<<" THEN Wrapped(a * Pow2[b]) ELSE a \div Pow2[b]
        [] opr = "+"  -> Wrapped(a + b)
        [] opr = "-"  -> Wrapped(a - b)
        [] opr = "*"  -> Wrapped(a * b)
        [] opr = "&"  -> a & b
        [] opr = "|"  -> a | b
        [] opr = "&&" -> Truth(a # 0 /\ b # 0)
        [] opr = "||" -> Truth(a # 0 \/ b # 0)

Unary(opr, a) ==
  IF a = Undef THEN Undef ELSE
  CASE opr = "-" -> Wrapped(0 - a)
    [] opr = "~" -> Wrapped(0 - 1 - a)
    [] opr = "!" -> Truth(a = 0)

-------------------------------------------------------------------------------
(* Tokens and trees.  A token names its node; operands come off a stack.    *)
(* The nodes of all trees are in one sequence, in the order in which they    *)
(* are allocated, and a unique_ptr is a place in it.                         *)

ASTNumber(w)       == [node |-> "Number", value |-> w]
ASTRef(name)       == [node |-> "Ref", name |-> name]
ASTOpr1(o, e)      == [node |-> "Opr1", opr |-> o, expr |-> e]
ASTOpr2(l, o, r)   == [node |-> "Opr2", opr |-> o, lexpr |-> l, rexpr |-> r]
ASTOpr3(c, e1, e2) == [node |-> "Opr3", cond |-> c, expr1 |-> e1, expr2 |-> e2]
ASTRange(e, min, max, reverse) ==
  [node |-> "Range", expr |-> e, min |-> min, max |-> max, reverse |-> reverse]
ASTMask(e, value, mask, reverse) ==
  [node |-> "Mask", expr |-> e, value |-> value, mask |-> mask, reverse |-> reverse]

\* Tokens: <<"num", w>>, <<"ref", name>>, <<"opr1", opr>>, <<"opr2", opr>>, <<"opr3">>
Arity(t) == CASE t[1] = "opr3" -> 3 [] t[1] = "opr2" -> 2 [] t[1] = "opr1" -> 1 [] OTHER -> 0

\* The last n entries of a stack, and the stack without them.
Top(stack, n)  == SubSeq(stack, Len(stack) - n + 1, Len(stack))
Rest(stack, n) == SubSeq(stack, 1, Len(stack) - n)

\* ASTNumber and ASTRef are the nodes that can load any register.
IsRetarget(n) == n.node \in {"Number", "Ref"}
IsNumber(n)   == n.node = "Number"

\* The node a reduction constructs before it is optimised.
Built(t, args) ==
  CASE t[1] = "num"  -> ASTNumber(t[2])
    [] t[1] = "ref"  -> ASTRef(t[2])
    [] t[1] = "opr1" -> ASTOpr1(t[2], args[1])
    [] t[1] = "opr2" -> ASTOpr2(args[1], t[2], args[2])
    [] t[1] = "opr3" -> ASTOpr3(args[1], args[2], args[3])

(***************************************************************************)
(* opt1, opt2 and opt3 of a new node: constants are computed on uintptr_t, *)
(* so without a sign.  FoldsTo is the value of a node of constants, Undef  *)
(* when C++ leaves it undefined; Chosen is the branch that replaces the    *)
(* node of a condition.                                                    *)
(***************************************************************************)
IsConstantOpr(ast, n) ==
  \/ n.node = "Opr1" /\ IsNumber(ast[n.expr])
  \/ n.node = "Opr2" /\ IsNumber(ast[n.lexpr]) /\ IsNumber(ast[n.rexpr])

\* Mutant: the two's complement is taken without adding one.
FoldsToComplement(ast, n) ==
  IF n.node = "Opr1" THEN Unary(IF n.opr = "-" THEN "~" ELSE n.opr, ast[n.expr].value)
  ELSE Binary(n.opr, ast[n.lexpr].value, ast[n.rexpr].value, TRUE)

FoldsTo(ast, n) == IF n.node = "Opr1" THEN Unary(n.opr, ast[n.expr].value)
                   ELSE Binary(n.opr, ast[n.lexpr].value, ast[n.rexpr].value, TRUE)

IsConstantCond(ast, n) == n.node = "Opr3" /\ IsNumber(ast[n.cond])

Chosen(ast, n) == IF ast[n.cond].value # 0 THEN n.expr1 ELSE n.expr2
===============================================================================
