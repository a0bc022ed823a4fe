---------------------------- MODULE MCSessionFilter ----------------------------
(***************************************************************************)
(* An integer list of up to three matches and a float list of one, over    *)
(* three addresses that hold 0, 1 or 2.                                    *)
(***************************************************************************)
EXTENDS SessionFilter, TLC

TwoTypes == <<"I32", "FLOAT">>
OnlyI32  == {"I32"}

At(a, v) == [addr |-> a, value |-> v]

Lists ==
  {("I32" :> <<At("a", 1), At("b", 2)>>) @@ ("FLOAT" :> <<At("c", 1)>>),
   ("I32" :> <<At("a", 0), At("b", 1), At("c", 1)>>) @@ ("FLOAT" :> <<>>)}

TwoMatches == {("I32" :> <<At("a", 0), At("b", 0)>>) @@ ("FLOAT" :> <<>>)}

Form(f, spared) == [form |-> f, except |-> spared]

Greater  == Form("relational", {})          \* filter >
Below    == Form("constant", {})            \* filter <2
MaskOdd  == Form("constant", {"FLOAT"})     \* filter =1/1, a mask
Doubled  == Form("complex", {})             \* filter $new=$old*2

Refresh  == Form("refresh", {})             \* the key r

AllTests == {Greater, Below, MaskOdd, Doubled, Refresh}
OnlyGreater == {Greater}

Pairs == Values \X Values

Accepted ==
  [f \in AllTests |->
     [x \in {"I32", "FLOAT"} |->
        {p \in Pairs : CASE f = Greater -> p[2] > p[1]
                         [] f = Below   -> p[2] < 2
                         [] f = MaskOdd -> p[2] = 1
                         [] f = Doubled -> p[2] = 2 * p[1]
                         [] f = Refresh -> FALSE}]]

AcceptedGreater == [f \in OnlyGreater |-> Accepted[f]]
===============================================================================
