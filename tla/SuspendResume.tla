----------------------------- MODULE SuspendResume -----------------------------
(***************************************************************************)
(* Stopping the target for the time of a scan or a snapshot                *)
(* (AutoSuspendResume in src/src/process.hpp; suspend, resume and          *)
(* kill_same_user in src/src/process.cpp).  Several instances of mypower   *)
(* may work on the same target; the user may stop and continue processes   *)
(* by hand, and may kill an instance, whose destructors then never run.    *)
(*                                                                         *)
(* All processes belong to one user: those of others are never signalled.  *)
(* They may fork, also while kill_same_user walks through /proc, which may  *)
(* then come by the new process or not.                                    *)
(***************************************************************************)
EXTENDS Integers, FiniteSets

CONSTANTS
  Scanners,     \* the running instances of mypower
  Others,       \* the other processes of the user, those not yet forked among them
  Commands,     \* instance -> what may be asked of it, see Command
  UserSignals,  \* what the user does by hand: subset of {"STOP", "CONT", "KILL"}
  MaxSignals,   \* bound on how often
  MaxCommands,  \* bound on the commands run
  None          \* no command

Processes == Scanners \union Others

\* A scan or snapshot of a target; self stands for the instance's own process.
Self == "self"
Command == [kind : {"scan", "snapshot"}, target : Others \union {Self}, same_user : BOOLEAN]

ASSUME SuspendAssumption ==
  /\ Scanners \intersect Others = {} /\ Self \notin Processes
  /\ Commands \in [Scanners -> SUBSET Command] /\ None \notin Command
  /\ UserSignals \subseteq {"STOP", "CONT", "KILL"}
  /\ MaxSignals \in Nat /\ MaxCommands \in Nat

VARIABLES
  life,       \* process -> "unborn", "running", "sleeping", "stopped" or "dead"
  command,    \* instance -> its command, or None
  pc,         \* instance -> "idle", "check", "stop", "work" or "cont"
  guard,      \* instance -> its AutoSuspendResume has kept _process
  signalled,  \* instance -> what kill_same_user has signalled so far
  missed,     \* instance -> the processes forked behind the back of its walk
  issued,     \* how many commands were run
  by_hand,    \* how many signals the user sent
  user_stopped, \* history: the processes the user stopped by hand, last of all
  found,      \* history: instance -> the user had stopped its target beforehand
  undone,     \* history: instance -> the user continued its target by hand
  orphaned    \* history: an instance was killed before it could resume

instanceVars == <<command, pc, guard, signalled, missed, issued>>
userVars == <<by_hand, user_stopped, undone, orphaned>>
vars == <<life, instanceVars, found, userVars>>

-------------------------------------------------------------------------------
Target(s) == IF command[s].target = Self THEN s ELSE command[s].target

Born(p) == life[p] # "unborn"

\* A process that is stopped or dead takes no step.
Alive(p) == life[p] \in {"running", "sleeping"}

Init ==
  /\ life \in [Processes -> {"unborn", "running", "sleeping", "stopped"}]
  /\ \A s \in Scanners : life[s] = "running"
  /\ command = [s \in Scanners |-> None]
  /\ pc = [s \in Scanners |-> "idle"]
  /\ guard = [s \in Scanners |-> FALSE]
  /\ signalled = [s \in Scanners |-> {}]
  /\ missed = [s \in Scanners |-> {}]
  /\ issued = 0 /\ by_hand = 0
  /\ user_stopped = {p \in Processes : life[p] = "stopped"}
  /\ found = [s \in Scanners |-> FALSE]
  /\ undone = [s \in Scanners |-> FALSE]
  /\ orphaned = FALSE

\* Sending SIGSTOP or SIGCONT; a process that is not there takes neither.
Continued(p) == [life EXCEPT ![p] = IF @ = "stopped" THEN "running" ELSE @]

\* Mutant: only a process that runs is stopped.
StoppedIfRunning(p) == [life EXCEPT ![p] = IF @ = "running" THEN "stopped" ELSE @]

Stopped(p) == [life EXCEPT ![p] = IF @ \in {"unborn", "dead"} THEN @ ELSE "stopped"]

\* A command is typed, for a process that is there.
Run(s, c) ==
  /\ Alive(s) /\ pc[s] = "idle" /\ issued < MaxCommands
  /\ c.target # Self => Born(c.target)
  /\ issued' = issued + 1
  /\ command' = [command EXCEPT ![s] = c]
  /\ pc' = [pc EXCEPT ![s] = "check"]
  /\ found' = [found EXCEPT ![s] = FALSE]
  /\ undone' = [undone EXCEPT ![s] = FALSE]
  /\ UNCHANGED <<life, guard, signalled, missed, by_hand, user_stopped, orphaned>>

\* Mutant: the constructor looks neither at the state of the target nor at whose
\* process it is.
CheckStateNever(s) ==
  /\ Alive(s) /\ pc[s] = "check"
  /\ guard' = [guard EXCEPT ![s] = TRUE]
  /\ pc' = [pc EXCEPT ![s] = "stop"]
  /\ found' = [found EXCEPT ![s] = Target(s) \in user_stopped /\ life[Target(s)] = "stopped"]
  /\ UNCHANGED <<life, command, signalled, missed, issued, userVars>>

\* The constructor reads the state; only a scan excludes its own process.
CheckState(s) ==
  /\ Alive(s) /\ pc[s] = "check"
  /\ LET enable == command[s].kind = "scan" => Target(s) # s
         keep   == enable /\ life[Target(s)] = "running"
     IN  /\ guard' = [guard EXCEPT ![s] = keep]
         /\ pc' = [pc EXCEPT ![s] = IF keep THEN "stop" ELSE "work"]
  /\ found' = [found EXCEPT ![s] = Target(s) \in user_stopped /\ life[Target(s)] = "stopped"]
  /\ UNCHANGED <<life, command, signalled, missed, issued, userVars>>

\* Mutant: kill_same_user passes over a process that sleeps.
UnsignalledAwake(s) ==
  IF command[s].same_user
  THEN {p \in Processes \ ({s, Target(s)} \union signalled[s] \union missed[s]) :
          life[p] \in {"running", "stopped"}}
  ELSE {}

\* The processes kill_same_user has yet to signal.
Unsignalled(s) ==
  IF command[s].same_user
  THEN {p \in Processes \ ({s, Target(s)} \union signalled[s] \union missed[s]) :
          life[p] \notin {"unborn", "dead"}}
  ELSE {}

\* kill_same_user comes by process p.
SignalOther(s) ==
  /\ Alive(s) /\ pc[s] \in {"stop", "cont"}
  /\ \E p \in Unsignalled(s) :
       /\ life' = IF pc[s] = "stop" THEN Stopped(p) ELSE Continued(p)
       /\ signalled' = [signalled EXCEPT ![s] = @ \union {p}]
  /\ UNCHANGED <<command, pc, guard, missed, issued, found, userVars>>

\* suspend: the target itself comes last.
StopTarget(s) ==
  /\ Alive(s) /\ pc[s] = "stop" /\ Unsignalled(s) = {}
  /\ life' = Stopped(Target(s))
  /\ pc' = [pc EXCEPT ![s] = "work"]
  /\ signalled' = [signalled EXCEPT ![s] = {}]
  /\ UNCHANGED <<command, guard, missed, issued, found, userVars>>

\* Mutant: the command ends without its destructors.
LeaveScopeAbruptly(s) ==
  /\ Alive(s) /\ pc[s] = "work"
  /\ pc' = [pc EXCEPT ![s] = "idle"]
  /\ missed' = [missed EXCEPT ![s] = {}]
  /\ UNCHANGED <<life, command, guard, signalled, issued, found, userVars>>

\* The command is done or throws: the destructor resumes what was suspended, on
\* a walk of its own.
LeaveScope(s) ==
  /\ Alive(s) /\ pc[s] = "work"
  /\ pc' = [pc EXCEPT ![s] = IF guard[s] THEN "cont" ELSE "idle"]
  /\ missed' = [missed EXCEPT ![s] = {}]
  /\ UNCHANGED <<life, command, guard, signalled, issued, found, userVars>>

ContTarget(s) ==
  /\ Alive(s) /\ pc[s] = "cont" /\ Unsignalled(s) = {}
  /\ life' = Continued(Target(s))
  /\ pc' = [pc EXCEPT ![s] = "idle"]
  /\ guard' = [guard EXCEPT ![s] = FALSE]
  /\ signalled' = [signalled EXCEPT ![s] = {}]
  /\ missed' = [missed EXCEPT ![s] = {}]
  /\ UNCHANGED <<command, issued, found, userVars>>

\* A process of the user blocks or becomes runnable.
Schedule ==
  /\ \E p \in Others :
       \/ life[p] = "running" /\ life' = [life EXCEPT ![p] = "sleeping"]
       \/ life[p] = "sleeping" /\ life' = [life EXCEPT ![p] = "running"]
  /\ UNCHANGED <<instanceVars, found, userVars>>

\* A process that runs forks another.  Whether a walk that has begun comes by the
\* child depends on where in /proc it appears; one that is over does not.
Fork ==
  /\ \E p, q \in Others :
       /\ life[p] = "running" /\ ~Born(q)
       /\ life' = [life EXCEPT ![q] = "running"]
       /\ \E behind \in SUBSET {s \in Scanners : pc[s] \in {"stop", "cont"}} :
            missed' = [s \in Scanners |->
                         IF s \in behind \/ pc[s] = "work" THEN missed[s] \union {q}
                                                           ELSE missed[s]]
  /\ UNCHANGED <<command, pc, guard, signalled, issued, found, userVars>>

UserActs ==
  /\ by_hand < MaxSignals
  /\ by_hand' = by_hand + 1
  /\ \/ /\ "STOP" \in UserSignals
        /\ \E p \in Others :
             Born(p) /\ life' = Stopped(p) /\ user_stopped' = user_stopped \union {p}
        /\ UNCHANGED <<undone, orphaned>>
     \/ /\ "CONT" \in UserSignals
        /\ \E p \in Others :
             /\ Born(p) /\ life' = Continued(p)
             /\ user_stopped' = user_stopped \ {p}
             /\ undone' = [s \in Scanners |-> undone[s] \/ (command[s] # None /\ Target(s) = p)]
        /\ UNCHANGED orphaned
     \/ /\ "KILL" \in UserSignals
        /\ \E s \in Scanners :
             /\ life' = [life EXCEPT ![s] = "dead"]
             /\ orphaned' = (orphaned \/ guard[s])
        /\ UNCHANGED <<user_stopped, undone>>
  /\ UNCHANGED <<instanceVars, found>>

InstanceStep(s) ==
  CheckState(s) \/ SignalOther(s) \/ StopTarget(s) \/ LeaveScope(s) \/ ContTarget(s)

Next ==
  \/ \E s \in Scanners : InstanceStep(s) \/ \E c \in Commands[s] : Run(s, c)
  \/ Schedule
  \/ Fork
  \/ UserActs

Spec == Init /\ [][Next]_vars

\* An instance that is not stopped goes on with its command.
FairSpec == Spec /\ \A s \in Scanners : WF_vars(InstanceStep(s))

-------------------------------------------------------------------------------
(***************************************************************************)
(* Properties.                                                             *)
(***************************************************************************)
TypeOK ==
  /\ life \in [Processes -> {"unborn", "running", "sleeping", "stopped", "dead"}]
  /\ \A s \in Scanners : command[s] \in Commands[s] \union {None}
  /\ pc \in [Scanners -> {"idle", "check", "stop", "work", "cont"}]
  /\ guard \in [Scanners -> BOOLEAN]
  /\ signalled \in [Scanners -> SUBSET Processes]
  /\ missed \in [Scanners -> SUBSET Others]
  /\ issued \in 0 .. MaxCommands /\ by_hand \in 0 .. MaxSignals
  /\ user_stopped \subseteq Processes /\ orphaned \in BOOLEAN
  /\ found \in [Scanners -> BOOLEAN] /\ undone \in [Scanners -> BOOLEAN]

AllIdle == \A s \in Scanners : pc[s] = "idle" \/ life[s] = "dead"

(***************************************************************************)
(* When all instances are through, no process is left stopped that the     *)
(* user did not stop, however their suspensions of one target overlapped,  *)
(* unless an instance was killed while it held one.                        *)
(***************************************************************************)
NoneLeftStopped ==
  AllIdle /\ ~orphaned => \A p \in Others : life[p] = "stopped" => p \in user_stopped

\* Instance s is the only one that was ever asked to do something.
Alone(s) == {t \in Scanners : command[t] # None} = {s}

\* While an instance works behind its guard and no other is used, its target
\* does not run, unless the user continued it by hand.
StoppedWhileWorking ==
  \A s \in Scanners :
    Alone(s) /\ pc[s] = "work" /\ guard[s] /\ ~undone[s] =>
      life[Target(s)] \in {"stopped", "dead"}

(***************************************************************************)
(* While an instance that suspends all processes of the user works behind  *)
(* its guard, no other process runs, though they were signalled one by one *)
(* while those still to come ran on, slept, woke up and forked: none but   *)
(* the children that appeared behind the back of the walk and their own.   *)
(* The user sends no signal meanwhile and uses no other instance.          *)
(***************************************************************************)
NobodyRunsWhileWorking ==
  \A s \in Scanners :
    Alone(s) /\ pc[s] = "work" /\ guard[s] /\ command[s].same_user /\ by_hand = 0 =>
      \A p \in Processes \ ({s} \union missed[s]) :
        life[p] \in {"unborn", "stopped", "dead"}

(***************************************************************************)
(* A target the user had stopped when the only instance looked at it stays *)
(* stopped, during the command and after it, until the user continues it.  *)
(***************************************************************************)
FoundStoppedKept ==
  \A s \in Scanners :
    Alone(s) /\ found[s] /\ Target(s) \in user_stopped => life[Target(s)] = "stopped"

\* A snapshot of its own process stops the instance itself.
StopsItself(s) == command[s].kind = "snapshot" /\ Target(s) = s

\* A command ends, also when several instances stop and continue the same
\* target, unless an instance was killed while it held a process, possibly
\* this one.
CommandsEnd ==
  \A s \in Scanners :
    pc[s] # "idle" ~> \/ pc[s] = "idle" \/ life[s] = "dead"
                      \/ orphaned \/ StopsItself(s)
===============================================================================
