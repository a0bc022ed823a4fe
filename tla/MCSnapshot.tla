------------------------------ MODULE MCSnapshot ------------------------------
(***************************************************************************)
(* Four regions of a target, among them two neighbours, one without any    *)
(* permission and one that can be read only in part; a buffer of two       *)
(* pages, and lists of one to three buffers.                               *)
(***************************************************************************)
EXTENDS Snapshot

R(a, b, p) == [first |-> a, end |-> b, prot |-> p]
Q(a, n)    == [addr |-> a, len |-> n]

SomeRegions == <<R(1, 4, 1), R(4, 5, 1), R(7, 8, 0), R(9, 11, 1)>>

SomeRequests ==
  {<<Q(1, 3)>>, <<Q(2, 2), Q(4, 1)>>, <<Q(3, 1), Q(1, 2), Q(9, 2)>>,
   <<Q(3, 2)>>, <<Q(4, 1), Q(7, 1)>>, <<Q(10, 1)>>}

SomeShapes == {<<2>>, <<1, 2>>, <<2, 2, 3>>}
===============================================================================
