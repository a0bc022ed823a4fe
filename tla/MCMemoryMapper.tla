---------------------------- MODULE MCMemoryMapper ----------------------------
(***************************************************************************)
(* Small instances of MemoryMapper: a page of 4 bytes, a buffer of one or  *)
(* two pages, regions of up to five pages.                                 *)
(***************************************************************************)
EXTENDS MemoryMapper

Regions == {<<0, 20>>, <<8, 20>>, <<4, 8>>}

JobsWith(steps, widths, kinds) ==
  {[first |-> r[1], end |-> r[2], step |-> s, width |-> w, kind |-> k] :
     r \in Regions, s \in steps, w \in widths, k \in kinds}

\* A byte string is searched with a step of its own length.
StringJobs(lengths) == {j \in JobsWith(lengths, lengths, {"bytes"}) : j.step = j.width}

\* Steps below the page, dividing it or not, the page, the longest step whose
\* carried bytes fit in it (5), one that may carry no more here (6), and one
\* that carries two pages (9); the jobs that satisfy Aligned are among them.
Steps == 1 .. 6 \union {9}

AllJobs == JobsWith(Steps, 1 .. 4, {"number"}) \union StringJobs(Steps)

\* What --step 1 asks for: a candidate at every address.
UnalignedJobs == JobsWith({1}, {4}, {"number"})
===============================================================================
