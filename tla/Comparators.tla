------------------------------ MODULE Comparators ------------------------------
(***************************************************************************)
(* The comparators a scan or a filter uses when it needs no code: the      *)
(* classes of src/src/comparator.hpp and the choice among them in          *)
(* scan_fast and filter_fast (cmd_scan.cpp).  They work on a number type,  *)
(* and the constants of the expression, which are machine words, are cast  *)
(* to it first.  A number is an integer here; bits are looked at by the    *)
(* masks only.  Floating point types are left out.                         *)
(***************************************************************************)
EXTENDS MathExpr

NumberType == [bits : 1 .. WordBits, unsigned : BOOLEAN]

LowBits(T, n) == n % Pow2[T.bits]

\* static_cast<T>, and the value that the bytes of a candidate have as a T.
Cast(T, w) ==
  IF T.unsigned \/ LowBits(T, w) < Pow2[T.bits - 1] THEN LowBits(T, w)
                                                    ELSE LowBits(T, w) - Pow2[T.bits]

\* Mutant: the target keeps the bits the mask leaves out.
ComparatorMaskRaw(T, value, target, mask, negated) ==
  ((LowBits(T, value) & LowBits(T, mask)) = LowBits(T, target)) # negated

ComparatorMask(T, value, target, mask, negated) ==
  ((LowBits(T, value) & LowBits(T, mask)) = (LowBits(T, target) & LowBits(T, mask))) # negated

ComparatorRange(value, min, max, negated) == (value >= min /\ value <= max) # negated

\* ComparatorEqual to ComparatorLessOrEqual, by the comparator that selects
\* them: with a constant of the expression, or with the old value of a match.
Ordering ==
  [EQ_Expr |-> "=", NE_Expr |-> "!=", GT_Expr |-> ">", GE_Expr |-> ">=",
   LT_Expr |-> "<", LE_Expr |-> "<=",
   EQ |-> "=", NE |-> "!=", GT |-> ">", GE |-> ">=", LT |-> "<", LE |-> "<="]

\* The verdict of comparator c on a value of type T; rhs are the one or two
\* numbers, already cast, that the comparator was constructed with.
Verdict(c, T, value, rhs) ==
  CASE c \in DOMAIN Ordering -> Compares(Ordering[c], value, rhs[1])
    [] c \in {"EQ_Mask", "NE_Mask"} ->
         ComparatorMask(T, value, rhs[1], rhs[2], c = "NE_Mask")
    [] c \in {"EQ_Range", "NE_Range"} ->
         ComparatorRange(value, rhs[1], rhs[2], c = "NE_Range")
===============================================================================
