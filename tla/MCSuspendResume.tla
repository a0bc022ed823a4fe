--------------------------- MODULE MCSuspendResume ---------------------------
(***************************************************************************)
(* Two instances of mypower and two other processes, one to look at.       *)
(***************************************************************************)
EXTENDS SuspendResume, TLC

CONSTANTS t1, t2, m1, m2

Cmd(k, t, su) == [kind |-> k, target |-> t, same_user |-> su]

\* Suspended alone, or all processes of the user with it
\* (ScanArgs::_suspend_same_user, which the command implements and no option
\* sets yet); the own process is scanned or saved.
SomeCommands ==
  (m1 :> {Cmd("scan", t1, TRUE), Cmd("snapshot", t1, FALSE), Cmd("snapshot", Self, FALSE)})
    @@ (m2 :> {Cmd("scan", t1, FALSE), Cmd("scan", Self, FALSE)})
===============================================================================
