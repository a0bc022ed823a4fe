------------------------------ MODULE MCInspection ------------------------------
(***************************************************************************)
(* Two processes of a few words each: a program's data, its zeros, which   *)
(* are read-only by now, and a heap with a word that cannot be read.  The  *)
(* pointers in the first process lead to the base in one, two and three    *)
(* links, above the pointer, too far below it, and in a circle.  The       *)
(* second maps a library in two parts, and the zeros behind it.            *)
(***************************************************************************)
EXTENDS Inspection

CONSTANTS p1, p2   \* the processes

NoNumbers == ("s" :> Nothing)

ProgramData == [first |-> 0, end |-> 2, perms |-> {"r", "w"}, name |-> <<"/bin/a", "(deleted)">>]
ProgramBss  == [first |-> 2, end |-> 3, perms |-> {"r"}, name |-> <<"[anon:.bss]">>]
Heap        == [first |-> 3, end |-> 7, perms |-> {"r", "w"}, name |-> <<"[heap]">>]
Library     == [first |-> 0, end |-> 1, perms |-> {"r", "x"}, name |-> <<"/lib/b">>]
LibraryData == [first |-> 1, end |-> 2, perms |-> {"r"}, name |-> <<"/lib/b">>]
OtherBss    == [first |-> 2, end |-> 4, perms |-> {"r"}, name |-> <<"[anon:.bss]">>]

AllLines == {ProgramData, ProgramBss, Heap, Library, LibraryData, OtherBss}

SomeMaps ==
  {(p1 :> {ProgramData, ProgramBss, Heap}) @@ (p2 :> {Library, LibraryData, OtherBss})}

Cell(words) == [a \in Addresses |-> words[a + 1]]

SomeMemories ==
  {(p1 :> Cell(<<7, 3, 7, 6, 2, 2, 6>>)) @@ (p2 :> Cell(<<2, 2, 2, 2, 2, 2, 2>>))}

\* Masks that leave blocks of four words and of all words.
Masks == [k \in {4, 8} |-> [w \in Words |-> w - (w % k)]]

PointerConfig(pointer, mask, step, depth, offset, results, all) ==
  [pointer |-> pointer, begin |-> 0, end |-> 2, mask |-> mask, step |-> step,
   depth_max |-> depth, offset_max |-> offset, result_max |-> results, find_all |-> all]

\* A word more than two that are close makes the second search give up; the last
\* two look at every other word, and at none.
SomeConfigs ==
  {PointerConfig(6, 4, 1, 3, 2, 3, FALSE), PointerConfig(6, 4, 1, 3, 2, 2, TRUE),
   PointerConfig(6, 8, 1, 3, 4, 4, TRUE), PointerConfig(7, 8, 2, 3, 2, 3, TRUE),
   PointerConfig(7, 4, 0, 3, 2, 3, TRUE)}

Sizes == ("I8" :> 1) @@ ("U16" :> 2) @@ ("BYTES" :> 2)

View(types, address, count, until) ==
  [types |-> types, address |-> address, count |-> count, until |-> until, limit |-> 3]

SomeRequests ==
  {View({"I8"}, 4, 6, TRUE), View({"BYTES"}, 2, 3, FALSE), View({"U16"}, 2, 3, TRUE),
   View({"U16"}, 3, 4, FALSE), View({"I8", "U16"}, 0, 1, FALSE),
   View({"U16"}, Computed, 1, FALSE), View({"U16"}, 0, Missing, FALSE)}

SomeSelections ==
  {[by |-> "name", arg |-> "/bin/a"], [by |-> "address", arg |-> 3],
   [by |-> "address", arg |-> Computed]}
===============================================================================
