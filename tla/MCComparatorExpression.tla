------------------------ MODULE MCComparatorExpression ------------------------
(***************************************************************************)
(* Words of three bits; every operator on variables and on constants, in   *)
(* each of the three orders of operands gencode() tells apart, conditions, *)
(* ranges and masks; number types of two and of three bits.                *)
(***************************************************************************)
EXTENDS ComparatorExpression

old == <<"ref", "old">>
new == <<"ref", "new">>
addr == <<"ref", "addr">>
num(w) == <<"num", w>>
op(o)  == <<"opr2", o>>
un(o)  == <<"opr1", o>>

Leaves == {old, new, num(7)}

\* a o b, of every operator
Binaries == {<<a, b, op(o)>> : a \in {new, num(6)}, b \in {old, num(7)}, o \in BinaryOprs}
Unaries  == {<<a, un(o)>> : a \in {new, num(5)}, o \in {"-", "~"}}

\* (a o b) p c, a p (b o c) and (a o b) p (c q d)
Nested ==
  LET ops == {op("-"), op(">"), op("/")}
  IN  {<<a, b, o, c, p>> : a \in Leaves, b \in {old, new}, c \in Leaves, o \in ops, p \in ops}
        \union {<<a, b, c, o, p>> : a \in Leaves, b \in {old, new}, c \in Leaves, o \in ops, p \in ops}
        \union {<<a, b, o, new, num(3), q, p>> :
                  a \in {addr, num(1)}, b \in {old, num(7)}, o \in ops, p \in ops, q \in ops}

\* ((a - b) - (c - d)) - ((d - b) - (c - a)), and a pending operand across a condition
Deep ==
  LET m(x, y) == x \o y \o <<op("-")>>
      a == <<old>>  b == <<new>>  c == <<addr>>  d == <<num(1)>>
  IN  {m(m(m(a, b), m(c, d)), m(m(d, b), m(c, a))),
       m(m(a, b), m(m(c, b), m(b, a))) \o <<un("-")>>,
       m(m(b, a), m(c, d) \o m(a, c) \o m(d, b) \o <<<<"opr3">>>>)}

Conditions ==
  {x \o y \o z \o <<<<"opr3">>>> :
     x \in {<<num(0)>>, <<num(2)>>, <<new>>, <<new, old, op("<")>>},
     y \in {<<num(3)>>, <<old, new, op("/")>>},
     z \in {<<addr>>, <<old, new, op("%")>>, <<num(1), num(0), op("/")>>}}

Texts == Binaries \union Unaries \union Nested \union Deep \union Conditions

Of(cs, ts) == {[comparator |-> c, tokens |-> t] : c \in cs, t \in ts}

\* Bounds that are constants, and bounds that are computed.
Bounds == {<<num(2), num(5)>>, <<num(1), num(3)>>, <<num(6), num(7)>>, <<num(7), num(1)>>,
           <<num(3), num(1)>>, <<old, num(6)>>, <<old, num(1), op("-"), old, new, op("-"), addr, op("&")>>}

AllSources ==
  Of({"Boolean"}, Texts) \union Of(DOMAIN Wrapping, Unaries \union Deep \union {<<num(k)>> : k \in {0, 1, 3, 6}})
    \union Of(Ranges \union Masks, Bounds) \union Of(DOMAIN Relation, {<<>>})

AllCallers ==
  [kind : {"scan"}, compiles : {<<FALSE>>, <<FALSE, FALSE>>}]
    \union [kind : {"filter"}, compiles : {<<FALSE, TRUE>>}]
    \union [kind : {"test"}, compiles : {<<FALSE>>, <<TRUE>>}]

\* The negations of variables, which gencode() compiles.
Negations == Of({"Boolean"}, {<<new, un("!")>>, <<new, old, op(">"), un("!")>>})
               \union Of({"EQ_Expr"}, {<<old, un("!")>>})

\* Comparisons with something that has to be computed per match.
ComplexFilters == Of(DOMAIN Wrapping, {<<old, num(1), op("+")>>})
                    \union Of({"Boolean"}, {<<old, new, op("<")>>})

SomeInputs == {[old |-> o, new |-> n, addr |-> 3] : o \in {1, 4}, n \in {0, 4, 7}}

AllTypes == [bits : {2, 3}, unsigned : BOOLEAN]

\* The expression as it is when the parser folds nothing.
Unfolded == INSTANCE ComparatorExpression WITH optimal <- FALSE

\* A constant the parser was given or has computed is negative for signed code.
NegativeConstant == \E i \in DOMAIN nodes : IsNumber(nodes[i]) /\ AsSigned(nodes[i].value) < 0

\* Folding leaves an expression the value it has without: always in unsigned
\* code, and in signed code unless a constant is negative.  EXPR::opt2 compares
\* and divides constants as unsigned words whatever the sign of the code.
FoldingKeepsValue ==
  AtReturn /\ (sign \/ ~NegativeConstant) => Unfolded!Meaning \in {Undef, regs[0]}
===============================================================================
