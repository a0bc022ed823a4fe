-------------------------------- MODULE MCScreen --------------------------------
(***************************************************************************)
(* Up to two sessions of at most one match, scanned in two processes,      *)
(* messages of one or two lines and lists of at most three rows on a       *)
(* screen of one line or two; one of the names reads as a number.          *)
(***************************************************************************)
EXTENDS Screen

Numbers == ("1" :> 1) @@ ("hp" :> Nothing)

SomeOutputs == {<<>>, <<1>>, <<2>>}

\* Processes are only attached and remembered.
PidSymmetry == Permutations(Pids)
===============================================================================
