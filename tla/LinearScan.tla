------------------------------ MODULE LinearScan ------------------------------
(***************************************************************************)
(* What scanning one memory region promises its caller, whatever buffering *)
(* the implementation does: Session::scan walks a region from its first    *)
(* address upwards and hands the comparator, at each address it stops at,  *)
(* the bytes that live at exactly that address.  A number scanner          *)
(* (ScanComparator, ScanExpression) stops at every multiple of the step; a *)
(* byte-string scanner (ScanBytes) may pass over addresses.                *)
(*                                                                         *)
(* Memory is abstracted to provenance: a byte is named by its address.     *)
(***************************************************************************)
EXTENDS Integers

CONSTANTS
  Jobs,     \* the region scans asked for: a record of the region [first, end),
            \* the step from one candidate to the next, the width of the value
            \* and its kind, "number" or "bytes"
  Nothing   \* no comparison has been made yet

VARIABLES
  job,      \* the scan in progress; never changes
  pos,      \* the address the scan looks at next
  seen,     \* the last comparison: an address and the bytes compared there
  state     \* "scanning", "done" or "failed"

linearVars == <<job, pos, seen, state>>

\* The bytes of a value of w bytes stored at address a.
BytesAt(a, w) == [i \in 0 .. w - 1 |-> a + i]

ComparisonAt(a, w) == [addr |-> a, bytes |-> BytesAt(a, w)]

\* A region for which no buffer can be had is given up at once.
Init ==
  /\ job \in Jobs
  /\ pos = job.first
  /\ seen = Nothing
  /\ state \in {"scanning", "failed"}

\* The next candidate is compared; a string search chooses where the next
\* occurrence starts.
Compare ==
  /\ state = "scanning"
  /\ \E a \in pos .. job.end - 1 :
       /\ job.kind = "number" => a = pos
       /\ seen' = ComparisonAt(a, job.width)
       /\ pos' = a + job.step
  /\ UNCHANGED <<job, state>>

\* A string search passes over addresses where the string does not start.
Skip ==
  /\ state = "scanning"
  /\ job.kind = "bytes"
  /\ pos' \in pos .. job.end
  /\ UNCHANGED <<job, seen, state>>

\* The region has been looked at: a number scan stopped at every step of it.
Finish ==
  /\ state = "scanning"
  /\ job.kind = "number" => pos >= job.end
  /\ state' = "done"
  /\ UNCHANGED <<job, pos, seen>>

\* The rest of the region cannot be read: the scan of this region ends.
Abort ==
  /\ state = "scanning"
  /\ pos < job.end
  /\ state' = "failed"
  /\ UNCHANGED <<job, pos, seen>>

Next == Compare \/ Skip \/ Finish \/ Abort

Spec == Init /\ [][Next]_linearVars
===============================================================================
