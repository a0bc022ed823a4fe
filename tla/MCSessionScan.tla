---------------------------- MODULE MCSessionScan ----------------------------
(***************************************************************************)
(* Two threads over three regions of one or two candidates: one of them is *)
(* a mapped file, which --exclude-file leaves out, and one the .bss of a   *)
(* file, which it does not.                                                *)
(***************************************************************************)
EXTENDS SessionScan, TLC

AnonRegion(a, b) == [first |-> a, end |-> b, prot |-> {"r", "w"}, file |-> FALSE,
                     bss |-> FALSE, runtime |-> FALSE]
FileRegion(a, b) == [AnonRegion(a, b) EXCEPT !.file = TRUE]
BssRegion(a, b) == [FileRegion(a, b) EXCEPT !.bss = TRUE]

SomeRegions == <<AnonRegion(1, 3), FileRegion(3, 4), BssRegion(5, 6)>>

TwoTypes   == <<"I32", "FLOAT">>
Wants      == ("I32" :> {1}) @@ ("FLOAT" :> {0})
Writable   == {"r", "w"}
===============================================================================
