--------------------------- MODULE SuspendResume_proofs ---------------------------
(***************************************************************************)
(* Suspensions, for any number of instances, of processes, of commands and *)
(* of signals the user sends.                                              *)
(***************************************************************************)
EXTENDS SuspendResume, TLAPS

USE SuspendAssumption DEF Processes

Types ==
  /\ TypeOK
  /\ command \in [Scanners -> Command \union {None}]
  /\ user_stopped \subseteq Others
  /\ \A p \in Others : life[p] # "dead"

\* An instance and the target of its command are there.
Births ==
  \A s \in Scanners : Born(s) /\ (command[s] # None => Born(Target(s)))

\* What belongs together in one instance.
Shape ==
  \A s \in Scanners :
    /\ command[s] = None => pc[s] = "idle"
    /\ guard[s] => pc[s] \in {"stop", "work", "cont"}
    /\ pc[s] \in {"stop", "cont"} => guard[s]
    /\ pc[s] \in {"idle", "check", "work"} => signalled[s] = {}
    /\ pc[s] \in {"idle", "check"} => missed[s] = {}
    /\ found[s] => ~guard[s]

\* Instance s will continue process p before it is idle again.
Responsible(s, p) ==
  /\ guard[s] /\ life[s] # "dead"
  /\ \/ p = Target(s)
     \/ command[s].same_user /\ (pc[s] = "cont" => p \notin signalled[s] \union missed[s])

\* Somebody will continue what the user has not stopped.
Covered ==
  ~orphaned =>
    \A p \in Others :
      life[p] = "stopped" /\ p \notin user_stopped => \E s \in Scanners : Responsible(s, p)

\* What the only instance in use has signalled on its way to the target stays
\* stopped.
Gathered ==
  \A s \in Scanners :
    Alone(s) /\ pc[s] = "stop" /\ by_hand = 0 =>
      \A p \in signalled[s] : life[p] \in {"stopped", "dead"}

IInv ==
  /\ Types /\ Births /\ Shape /\ Covered /\ StoppedWhileWorking /\ FoundStoppedKept
  /\ Gathered /\ NobodyRunsWhileWorking

-------------------------------------------------------------------------------
LEMMA TargetType ==
  ASSUME Types, NEW s \in Scanners, command[s] # None
  PROVE  Target(s) \in Processes /\ (Target(s) \in Others \/ Target(s) = s)
<1>1. command[s] \in Command BY DEF Types
<1> QED BY <1>1 DEF Target, Command, Self

LEMMA InitHolds == Init => IInv
<1> SUFFICES ASSUME Init PROVE IInv OBVIOUS
<1>1. Types
  <2>1. /\ life \in [Processes -> {"unborn", "running", "sleeping", "stopped", "dead"}]
        /\ pc \in [Scanners -> {"idle", "check", "stop", "work", "cont"}]
    BY DEF Init
  <2>2. /\ command \in [Scanners -> Command \union {None}] /\ user_stopped \subseteq Others
        /\ \A p \in Others : life[p] # "dead"
    BY DEF Init
  <2>3. \A s \in Scanners : command[s] \in Commands[s] \union {None}
    BY DEF Init
  <2>4. /\ guard \in [Scanners -> BOOLEAN] /\ found \in [Scanners -> BOOLEAN]
        /\ undone \in [Scanners -> BOOLEAN]
    BY DEF Init
  <2>5. signalled \in [Scanners -> SUBSET Processes] /\ missed \in [Scanners -> SUBSET Others]
    BY DEF Init
  <2>6. issued \in 0 .. MaxCommands /\ by_hand \in 0 .. MaxSignals
    <3>1. issued = 0 /\ by_hand = 0 BY DEF Init
    <3>2. MaxCommands \in Nat /\ MaxSignals \in Nat OBVIOUS
    <3> HIDE SuspendAssumption DEF Processes
    <3> QED BY <3>1, <3>2
  <2>7. user_stopped \subseteq Processes /\ orphaned \in BOOLEAN
    BY DEF Init
  <2>8. TypeOK BY <2>1, <2>3, <2>4, <2>5, <2>6, <2>7 DEF TypeOK
  <2> QED BY <2>2, <2>8 DEF Types
<1>2. Shape BY DEF Init, Shape
<1>3. Covered BY DEF Init, Covered
<1>4. StoppedWhileWorking BY DEF Init, StoppedWhileWorking
<1>5. FoundStoppedKept BY DEF Init, FoundStoppedKept
<1>6. Gathered BY DEF Init, Gathered
<1>7. NobodyRunsWhileWorking BY DEF Init, NobodyRunsWhileWorking
<1>births. Births BY DEF Init, Births, Born, Processes
<1> QED BY <1>1, <1>2, <1>3, <1>4, <1>5, <1>6, <1>7, <1>births DEF IInv

LEMMA RunHolds ==
  ASSUME IInv, NEW s \in Scanners, NEW c \in Commands[s], Run(s, c)
  PROVE  IInv'
<1>1. c \in Command /\ c # None OBVIOUS
<1>2. ~guard[s] /\ pc[s] = "idle" BY DEF Run, IInv, Shape
<1>3. Types'
  <2>1. TypeOK' BY DEF Run, IInv, Types, TypeOK
  <2> QED BY <1>1, <2>1 DEF Run, IInv, Types
<1>4. Shape' BY <1>1, <1>2 DEF Run, IInv, Types, TypeOK, Shape
<1>5. \A t \in Scanners : \A p : Responsible(t, p) => Responsible(t, p)'
  BY <1>2 DEF Run, IInv, Types, TypeOK, Responsible, Target
<1>6. Covered' BY <1>5 DEF Run, IInv, Covered
<1>7. \A t \in Scanners : Alone(t)' => t = s BY <1>1 DEF Run, Alone, IInv, Types
<1>8. StoppedWhileWorking' BY <1>7 DEF Run, StoppedWhileWorking, IInv, Types, TypeOK
<1>9. FoundStoppedKept' BY <1>7 DEF Run, FoundStoppedKept, IInv, Types, TypeOK
<1>10. Gathered' BY <1>7 DEF Run, Gathered, IInv, Types, TypeOK
<1>11. NobodyRunsWhileWorking' BY <1>7 DEF Run, NobodyRunsWhileWorking, IInv, Types, TypeOK
<1>births. Births'
  <2>1. c.target = Self \/ (c.target \in Others /\ Born(c.target)) BY <1>1 DEF Run, Command
  <2>2. command'[s] = c /\ \A t \in Scanners \ {s} : command'[t] = command[t]
    BY DEF Run, IInv, Types, TypeOK
  <2> QED BY <2>1, <2>2 DEF Run, IInv, Births, Born, Target
<1> QED BY <1>3, <1>4, <1>6, <1>8, <1>9, <1>10, <1>11, <1>births DEF IInv

LEMMA CheckStateHolds ==
  ASSUME IInv, NEW s \in Scanners, CheckState(s)
  PROVE  IInv'
<1>1. ~guard[s] /\ pc[s] = "check" BY DEF CheckState, IInv, Shape
<1>2. PICK keep \in BOOLEAN :
        /\ guard' = [guard EXCEPT ![s] = keep]
        /\ pc' = [pc EXCEPT ![s] = IF keep THEN "stop" ELSE "work"]
        /\ keep => life[Target(s)] = "running"
  BY DEF CheckState
<1>3. UNCHANGED <<life, command, signalled, missed, issued, by_hand, user_stopped, undone, orphaned>>
  BY DEF CheckState, userVars
<1>4. found' = [found EXCEPT ![s] = Target(s) \in user_stopped /\ life[Target(s)] = "stopped"]
  BY DEF CheckState
<1>5. Types'
  <2>1. TypeOK' BY <1>2, <1>3, <1>4 DEF IInv, Types, TypeOK
  <2> QED BY <1>3, <2>1 DEF IInv, Types
<1>6. \A t \in Scanners : Target(t)' = Target(t) BY <1>3 DEF Target
<1>7. ~(keep /\ found'[s]) BY <1>2, <1>4 DEF IInv, Types, TypeOK
<1>8. Shape' BY <1>1, <1>2, <1>3, <1>4, <1>7 DEF IInv, Types, TypeOK, Shape
<1>9. \A t \in Scanners : \A p : Responsible(t, p) => Responsible(t, p)'
  BY <1>1, <1>2, <1>3, <1>6 DEF IInv, Types, TypeOK, Responsible
<1>10. Covered' BY <1>3, <1>9 DEF IInv, Covered
<1>11. StoppedWhileWorking'
  BY <1>2, <1>3, <1>6 DEF IInv, Types, TypeOK, StoppedWhileWorking, Alone
<1>12. FoundStoppedKept'
  BY <1>3, <1>4, <1>6 DEF IInv, Types, TypeOK, FoundStoppedKept, Alone
<1>13. Gathered' BY <1>1, <1>2, <1>3 DEF IInv, Types, TypeOK, Shape, Gathered, Alone
<1>14. NobodyRunsWhileWorking'
  BY <1>2, <1>3 DEF IInv, Types, TypeOK, NobodyRunsWhileWorking, Alone
<1>births. Births' BY <1>3, <1>6 DEF IInv, Births, Born
<1> QED BY <1>5, <1>8, <1>10, <1>11, <1>12, <1>13, <1>14, <1>births DEF IInv

\* What the two signals do to a process.
LEMMA SignalsType ==
  ASSUME Types, NEW p \in Processes
  PROVE  /\ Stopped(p) \in [Processes -> {"unborn", "running", "sleeping", "stopped", "dead"}]
         /\ Continued(p) \in [Processes -> {"unborn", "running", "sleeping", "stopped", "dead"}]
         /\ \A q \in Processes :
              Stopped(p)[q] \in {"unborn", "dead"} \/ life[q] \in {"unborn", "dead"} =>
                Stopped(p)[q] = life[q]
         /\ \A q \in Processes :
              Continued(p)[q] \in {"unborn", "dead"} \/ life[q] \in {"unborn", "dead"} =>
                Continued(p)[q] = life[q]
         /\ \A q \in Processes \ {p} : Stopped(p)[q] = life[q] /\ Continued(p)[q] = life[q]
         /\ Stopped(p)[p] \in {"unborn", "stopped", "dead"}
         /\ Continued(p)[p] # "stopped"
<1>1. /\ life \in [Processes -> {"unborn", "running", "sleeping", "stopped", "dead"}]
      /\ DOMAIN life = Processes
  BY DEF Types, TypeOK
<1> HIDE SuspendAssumption DEF Processes
<1>2. /\ Stopped(p) \in [Processes -> {"unborn", "running", "sleeping", "stopped", "dead"}]
      /\ \A q \in Processes :
              Stopped(p)[q] \in {"unborn", "dead"} \/ life[q] \in {"unborn", "dead"} =>
                Stopped(p)[q] = life[q]
      /\ \A q \in Processes \ {p} : Stopped(p)[q] = life[q]
      /\ Stopped(p)[p] \in {"unborn", "stopped", "dead"}
  BY <1>1 DEF Stopped
<1>3. /\ Continued(p) \in [Processes -> {"unborn", "running", "sleeping", "stopped", "dead"}]
      /\ \A q \in Processes :
              Continued(p)[q] \in {"unborn", "dead"} \/ life[q] \in {"unborn", "dead"} =>
                Continued(p)[q] = life[q]
      /\ \A q \in Processes \ {p} : Continued(p)[q] = life[q]
      /\ Continued(p)[p] # "stopped"
  BY <1>1 DEF Continued
<1> QED BY <1>2, <1>3

\* While other processes are signalled, the one stopped is answered for, and the
\* one continued need not be.
LEMMA SignalOtherHolds ==
  ASSUME IInv, NEW s \in Scanners, SignalOther(s)
  PROVE  IInv'
<1>1. guard[s] /\ pc[s] \in {"stop", "cont"} /\ life[s] # "dead" /\ command[s] # None
  BY DEF SignalOther, IInv, Shape, Alive
<1>2. PICK p \in Unsignalled(s) :
        /\ life' = IF pc[s] = "stop" THEN Stopped(p) ELSE Continued(p)
        /\ signalled' = [signalled EXCEPT ![s] = @ \union {p}]
  BY DEF SignalOther
<1>3. UNCHANGED <<command, pc, guard, missed, issued, found, by_hand, user_stopped, undone, orphaned>>
  BY DEF SignalOther, userVars
<1>4. /\ p \in Processes /\ p # Target(s) /\ command[s].same_user
      /\ p \notin signalled[s] /\ p \notin missed[s] /\ life[p] \notin {"unborn", "dead"}
  BY DEF Unsignalled
<1>5. /\ life' \in [Processes -> {"unborn", "running", "sleeping", "stopped", "dead"}]
      /\ \A q \in Processes :
           life[q] \in {"unborn", "dead"} \/ life'[q] \in {"unborn", "dead"} =>
             life'[q] = life[q]
      /\ \A q \in Processes \ {p} : life'[q] = life[q]
      /\ pc[s] = "cont" => life'[p] # "stopped"
      /\ pc[s] = "stop" => life'[p] \in {"stopped", "dead"}
  <2> HIDE SuspendAssumption DEF Processes
  <2> QED BY <1>1, <1>2, <1>4, SignalsType DEF IInv
<1>6. Types'
  <2>1. TypeOK' BY <1>2, <1>3, <1>4, <1>5 DEF IInv, Types, TypeOK
  <2> QED BY <1>3, <1>5, <2>1 DEF IInv, Types
<1>7. Shape' BY <1>1, <1>2, <1>3 DEF IInv, Types, TypeOK, Shape
<1>8. \A t \in Scanners : Target(t)' = Target(t) BY <1>3 DEF Target
<1>9. Covered'
  <2> SUFFICES ASSUME ~orphaned, NEW q \in Others, life'[q] = "stopped", q \notin user_stopped
               PROVE  \E t \in Scanners : Responsible(t, q)'
    BY <1>3 DEF Covered
  <2>1. CASE q = p
    <3>1. pc[s] = "stop" BY <1>1, <1>5, <2>1
    <3> QED BY <1>1, <1>3, <1>4, <1>5, <2>1, <3>1 DEF Responsible
  <2>2. CASE q # p
    <3>1. life[q] = "stopped" BY <1>5, <2>2
    <3>2. PICK t \in Scanners : Responsible(t, q) BY <3>1 DEF IInv, Covered
    <3>3. q \notin signalled[t] => q \notin signalled'[t]
      BY <1>2, <2>2 DEF IInv, Types, TypeOK
    <3> QED BY <1>3, <1>5, <1>8, <3>2, <3>3 DEF Responsible
  <2> QED BY <2>1, <2>2
<1>10. \A t \in Scanners : Alone(t)' => t = s BY <1>1, <1>3 DEF Alone
<1>11. StoppedWhileWorking' BY <1>1, <1>3, <1>10 DEF StoppedWhileWorking
<1>12. FoundStoppedKept' BY <1>1, <1>3, <1>10 DEF IInv, Shape, FoundStoppedKept
<1>13. Gathered' 
  <2> SUFFICES ASSUME Alone(s), pc[s] = "stop", by_hand = 0, NEW q \in signalled'[s]
               PROVE  life'[q] \in {"stopped", "dead"}
    BY <1>3, <1>10 DEF Gathered, Alone
  <2>1. q \in signalled[s] \union {p} /\ signalled[s] \subseteq Processes
    BY <1>2 DEF IInv, Types, TypeOK
  <2>2. q # p => life[q] \in {"stopped", "dead"} BY <2>1 DEF IInv, Gathered
  <2> QED BY <1>5, <2>1, <2>2
<1>14. NobodyRunsWhileWorking' BY <1>1, <1>3, <1>10 DEF NobodyRunsWhileWorking
<1>births. Births'
  BY <1>3, <1>5, <1>8, TargetType DEF IInv, Births, Born
<1> QED BY <1>6, <1>7, <1>9, <1>11, <1>12, <1>13, <1>14, <1>births DEF IInv

LEMMA StopTargetHolds ==
  ASSUME IInv, NEW s \in Scanners, StopTarget(s)
  PROVE  IInv'
<1>1. guard[s] /\ pc[s] = "stop" /\ life[s] # "dead" /\ command[s] # None
  BY DEF StopTarget, IInv, Shape, Alive
<1>2. /\ life' = Stopped(Target(s))
      /\ pc' = [pc EXCEPT ![s] = "work"]
      /\ signalled' = [signalled EXCEPT ![s] = {}]
      /\ UNCHANGED <<command, guard, missed, issued, found,
                     by_hand, user_stopped, undone, orphaned>>
  BY DEF StopTarget, userVars
<1>3. Target(s) \in Processes BY <1>1, TargetType DEF IInv
<1>4. /\ life' \in [Processes -> {"unborn", "running", "sleeping", "stopped", "dead"}]
      /\ \A q \in Processes :
           life[q] \in {"unborn", "dead"} \/ life'[q] \in {"unborn", "dead"} =>
             life'[q] = life[q]
      /\ \A q \in Processes \ {Target(s)} : life'[q] = life[q]
      /\ life'[Target(s)] \in {"stopped", "dead"}
  <2>1. life[Target(s)] # "unborn" BY <1>1 DEF IInv, Births, Born
  <2> HIDE SuspendAssumption DEF Processes
  <2> QED BY <1>2, <1>3, <2>1, SignalsType DEF IInv
<1>5. Types'
  <2>1. TypeOK' BY <1>2, <1>4 DEF IInv, Types, TypeOK
  <2> QED BY <1>2, <1>4, <2>1 DEF IInv, Types
<1>6. Shape' BY <1>1, <1>2 DEF IInv, Types, TypeOK, Shape
<1>7. \A t \in Scanners : Target(t)' = Target(t) BY <1>2 DEF Target
<1>8. Covered'
  <2> SUFFICES ASSUME ~orphaned, NEW q \in Others, life'[q] = "stopped", q \notin user_stopped
               PROVE  \E t \in Scanners : Responsible(t, q)'
    BY <1>2 DEF Covered
  <2>1. CASE q = Target(s) BY <1>1, <1>2, <1>4, <1>7, <2>1 DEF Responsible
  <2>2. CASE q # Target(s)
    <3>1. PICK t \in Scanners : Responsible(t, q) BY <1>4, <2>2 DEF IInv, Covered
    <3>2. t # s => pc'[t] = pc[t] /\ signalled'[t] = signalled[t]
      BY <1>2 DEF IInv, Types, TypeOK
    <3>3. pc'[s] # "cont" BY <1>2 DEF IInv, Types, TypeOK
    <3> QED BY <1>2, <1>4, <1>7, <3>1, <3>2, <3>3 DEF Responsible
  <2> QED BY <2>1, <2>2
<1>9. \A t \in Scanners : Alone(t)' => t = s BY <1>1, <1>2 DEF Alone
<1>10. StoppedWhileWorking' BY <1>4, <1>7, <1>9 DEF StoppedWhileWorking
<1>11. FoundStoppedKept' BY <1>1, <1>2, <1>9 DEF IInv, Shape, FoundStoppedKept
<1>12. Gathered' BY <1>2, <1>9 DEF IInv, Types, TypeOK, Gathered
<1>13. NobodyRunsWhileWorking' 
  <2> SUFFICES ASSUME Alone(s), command[s].same_user, by_hand = 0,
                      NEW p \in Processes \ ({s} \union missed[s])
               PROVE  life'[p] \in {"unborn", "stopped", "dead"}
    BY <1>2, <1>9 DEF NobodyRunsWhileWorking, Alone
  <2>1. CASE p = Target(s) BY <1>4, <2>1
  <2>2. CASE p # Target(s)
    <3>1. life[p] \in {"unborn", "dead"} \/ p \in signalled[s]
      BY <2>2 DEF StopTarget, Unsignalled
    <3>2. life[p] \in {"unborn", "stopped", "dead"} BY <1>1, <3>1 DEF IInv, Gathered
    <3> QED BY <1>4, <2>2, <3>2
  <2> QED BY <2>1, <2>2
<1>births. Births'
  BY <1>2, <1>4, <1>7, TargetType DEF IInv, Births, Born
<1> QED BY <1>5, <1>6, <1>8, <1>10, <1>11, <1>12, <1>13, <1>births DEF IInv

LEMMA LeaveScopeHolds ==
  ASSUME IInv, NEW s \in Scanners, LeaveScope(s)
  PROVE  IInv'
<1>1. /\ pc[s] = "work"
      /\ pc' = [pc EXCEPT ![s] = IF guard[s] THEN "cont" ELSE "idle"]
      /\ missed' = [missed EXCEPT ![s] = {}]
      /\ UNCHANGED <<life, command, guard, signalled, issued, found,
                     by_hand, user_stopped, undone, orphaned>>
  BY DEF LeaveScope, userVars
<1>2. Types'
  <2>1. TypeOK' BY <1>1 DEF IInv, Types, TypeOK
  <2> QED BY <1>1, <2>1 DEF IInv, Types
<1>3. Shape' BY <1>1 DEF IInv, Types, TypeOK, Shape
<1>4. \A t \in Scanners : Target(t)' = Target(t) BY <1>1 DEF Target
<1>5. \A t \in Scanners : \A p : Responsible(t, p) => Responsible(t, p)'
  BY <1>1, <1>4 DEF IInv, Types, TypeOK, Shape, Responsible
<1>6. Covered' BY <1>1, <1>5 DEF IInv, Covered
<1>7. StoppedWhileWorking'
  BY <1>1, <1>4 DEF IInv, Types, TypeOK, StoppedWhileWorking, Alone
<1>8. FoundStoppedKept' BY <1>1, <1>4 DEF IInv, FoundStoppedKept, Alone
<1>9. Gathered' BY <1>1 DEF IInv, Types, TypeOK, Gathered, Alone
<1>10. NobodyRunsWhileWorking' BY <1>1 DEF IInv, Types, TypeOK, NobodyRunsWhileWorking, Alone
<1>births. Births' BY <1>1, <1>4 DEF IInv, Births, Born
<1> QED BY <1>2, <1>3, <1>6, <1>7, <1>8, <1>9, <1>10, <1>births DEF IInv

\* When the target is continued, every other process the instance answered for
\* has been.
LEMMA ContTargetHolds ==
  ASSUME IInv, NEW s \in Scanners, ContTarget(s)
  PROVE  IInv'
<1>1. guard[s] /\ pc[s] = "cont" /\ life[s] # "dead" /\ command[s] # None /\ ~found[s]
  BY DEF ContTarget, IInv, Shape, Alive
<1>2. /\ life' = Continued(Target(s))
      /\ pc' = [pc EXCEPT ![s] = "idle"]
      /\ guard' = [guard EXCEPT ![s] = FALSE]
      /\ signalled' = [signalled EXCEPT ![s] = {}]
      /\ missed' = [missed EXCEPT ![s] = {}]
      /\ UNCHANGED <<command, issued, found, by_hand, user_stopped, undone, orphaned>>
  BY DEF ContTarget, userVars
<1>3. Target(s) \in Processes BY <1>1, TargetType DEF IInv
<1>4. /\ life' \in [Processes -> {"unborn", "running", "sleeping", "stopped", "dead"}]
      /\ \A q \in Processes :
           life[q] \in {"unborn", "dead"} \/ life'[q] \in {"unborn", "dead"} =>
             life'[q] = life[q]
      /\ \A q \in Processes \ {Target(s)} : life'[q] = life[q]
      /\ life'[Target(s)] # "stopped"
  <2> HIDE SuspendAssumption DEF Processes
  <2> QED BY <1>2, <1>3, SignalsType DEF IInv
<1>5. Types'
  <2>1. TypeOK' BY <1>2, <1>4 DEF IInv, Types, TypeOK
  <2> QED BY <1>2, <1>4, <2>1 DEF IInv, Types
<1>6. Shape' BY <1>1, <1>2 DEF IInv, Types, TypeOK, Shape
<1>7. \A t \in Scanners : Target(t)' = Target(t) BY <1>2 DEF Target
<1>8. Covered'
  <2> SUFFICES ASSUME ~orphaned, NEW q \in Others, life'[q] = "stopped", q \notin user_stopped
               PROVE  \E t \in Scanners : Responsible(t, q)'
    BY <1>2 DEF Covered
  <2>1. q # Target(s) /\ life[q] = "stopped" /\ q # s BY <1>4
  <2>2. command[s].same_user => q \in signalled[s] \union missed[s]
    BY <2>1 DEF ContTarget, Unsignalled
  <2>3. ~Responsible(s, q) BY <1>1, <2>1, <2>2 DEF Responsible
  <2>4. PICK t \in Scanners : Responsible(t, q) BY <1>2, <2>1 DEF IInv, Covered
  <2>5. t # s BY <2>3, <2>4
  <2>6. /\ pc'[t] = pc[t] /\ guard'[t] = guard[t]
        /\ signalled'[t] = signalled[t] /\ missed'[t] = missed[t]
    BY <1>2, <2>5 DEF IInv, Types, TypeOK
  <2> QED BY <1>2, <1>4, <1>7, <2>4, <2>6 DEF Responsible
<1>9. \A t \in Scanners : Alone(t)' => t = s BY <1>1, <1>2 DEF Alone
<1>10. StoppedWhileWorking' BY <1>2, <1>9 DEF IInv, Types, TypeOK, StoppedWhileWorking
<1>11. FoundStoppedKept' BY <1>1, <1>2, <1>9 DEF FoundStoppedKept
<1>12. Gathered' BY <1>2, <1>9 DEF IInv, Types, TypeOK, Gathered
<1>13. NobodyRunsWhileWorking' BY <1>2, <1>9 DEF IInv, Types, TypeOK, NobodyRunsWhileWorking
<1>births. Births'
  BY <1>2, <1>4, <1>7, TargetType DEF IInv, Births, Born
<1> QED BY <1>5, <1>6, <1>8, <1>10, <1>11, <1>12, <1>13, <1>births DEF IInv

LEMMA ScheduleHolds ==
  ASSUME IInv, Schedule
  PROVE  IInv'
<1>1. UNCHANGED <<command, pc, guard, signalled, missed, issued, found,
                  by_hand, user_stopped, undone, orphaned>>
  BY DEF Schedule, instanceVars, userVars
<1>2. PICK p \in Others :
        \/ life[p] = "running" /\ life' = [life EXCEPT ![p] = "sleeping"]
        \/ life[p] = "sleeping" /\ life' = [life EXCEPT ![p] = "running"]
  BY DEF Schedule
<1>3. /\ life' \in [Processes -> {"unborn", "running", "sleeping", "stopped", "dead"}]
      /\ \A q \in Processes :
           life[q] \in {"unborn", "dead"} \/ life'[q] \in {"unborn", "dead"} =>
             life'[q] = life[q]
      /\ \A q \in Processes : life'[q] = "stopped" <=> life[q] = "stopped"
  BY <1>2 DEF IInv, Types, TypeOK
<1>4. Types'
  <2>1. TypeOK' BY <1>1, <1>3 DEF IInv, Types, TypeOK
  <2> QED BY <1>1, <1>3, <2>1 DEF IInv, Types
<1>5. Shape' BY <1>1 DEF IInv, Shape
<1>6. \A t \in Scanners : Target(t)' = Target(t) BY <1>1 DEF Target
<1>7. \A t \in Scanners : \A q : Responsible(t, q) => Responsible(t, q)'
  BY <1>1, <1>3, <1>6 DEF Responsible
<1>8. Covered' BY <1>1, <1>3, <1>7 DEF IInv, Covered
<1>9. \A t \in Scanners : Alone(t)' => Alone(t) /\ Target(t) \in Processes
  BY <1>1, TargetType DEF IInv, Alone
<1>10. StoppedWhileWorking' BY <1>1, <1>3, <1>6, <1>9 DEF IInv, StoppedWhileWorking
<1>11. FoundStoppedKept' BY <1>1, <1>3, <1>6, <1>9 DEF IInv, FoundStoppedKept
<1>12. Gathered' BY <1>1, <1>3, <1>9 DEF IInv, Types, TypeOK, Gathered
<1>13. NobodyRunsWhileWorking' BY <1>1, <1>3, <1>9 DEF IInv, NobodyRunsWhileWorking
<1>births. Births'
  BY <1>1, <1>3, <1>6, TargetType DEF IInv, Births, Born
<1> QED BY <1>4, <1>5, <1>8, <1>10, <1>11, <1>12, <1>13, <1>births DEF IInv

\* A child belongs to nobody's suspension, runs at first, and was missed by the
\* walks that are over.
LEMMA ForkHolds ==
  ASSUME IInv, Fork
  PROVE  IInv'
<1>1. UNCHANGED <<command, pc, guard, signalled, issued, found,
                  by_hand, user_stopped, undone, orphaned>>
  BY DEF Fork, userVars
<1>2. PICK q \in Others : ~Born(q) /\ life' = [life EXCEPT ![q] = "running"]
                         /\ \E behind \in SUBSET {s \in Scanners : pc[s] \in {"stop", "cont"}} :
                              missed' = [s \in Scanners |->
                                IF s \in behind \/ pc[s] = "work" THEN missed[s] \union {q}
                                                                  ELSE missed[s]]
  BY DEF Fork
<1>3. /\ life' \in [Processes -> {"unborn", "running", "sleeping", "stopped", "dead"}]
      /\ \A p \in Processes \ {q} : life'[p] = life[p]
      /\ life[q] = "unborn" /\ life'[q] = "running"
  BY <1>2 DEF IInv, Types, TypeOK, Born
<1>4. /\ missed' \in [Scanners -> SUBSET Others]
      /\ \A s \in Scanners :
           /\ missed[s] \subseteq missed'[s] /\ missed'[s] \subseteq missed[s] \union {q}
           /\ pc[s] \in {"idle", "check"} => missed'[s] = missed[s]
           /\ pc[s] = "work" => q \in missed'[s]
  <2>1. PICK behind \in SUBSET {s \in Scanners : pc[s] \in {"stop", "cont"}} :
          missed' = [s \in Scanners |->
            IF s \in behind \/ pc[s] = "work" THEN missed[s] \union {q} ELSE missed[s]]
    BY <1>2
  <2>2. missed \in [Scanners -> SUBSET Others] BY DEF IInv, Types, TypeOK
  <2> QED BY <2>1, <2>2
<1>5. Types'
  <2>1. TypeOK' BY <1>1, <1>3, <1>4 DEF IInv, Types, TypeOK
  <2> QED BY <1>1, <1>3, <2>1 DEF IInv, Types
<1>6. Shape' BY <1>1, <1>4 DEF IInv, Shape
<1>7. \A t \in Scanners : Target(t)' = Target(t) BY <1>1 DEF Target
<1>8. \A t \in Scanners : command[t] # None => Target(t) \in Processes \ {q}
  BY <1>3, TargetType DEF IInv, Births, Born
<1>9. \A t \in Scanners : t # q BY <1>3 DEF IInv, Births, Born
<1>10. \A t \in Scanners : \A p \in Others \ {q} : Responsible(t, p) => Responsible(t, p)'
  BY <1>1, <1>3, <1>4, <1>7, <1>9 DEF Responsible
<1>11. Covered' BY <1>1, <1>3, <1>10 DEF IInv, Covered
<1>12. \A t \in Scanners : Alone(t)' => Alone(t) /\ command[t] # None
  BY <1>1 DEF Alone
<1>13. StoppedWhileWorking'
  BY <1>1, <1>3, <1>7, <1>8, <1>12 DEF IInv, StoppedWhileWorking
<1>14. FoundStoppedKept' BY <1>1, <1>3, <1>7, <1>8, <1>12 DEF IInv, FoundStoppedKept
<1>15. Gathered' BY <1>1, <1>3, <1>12 DEF IInv, Types, TypeOK, Gathered
<1>16. NobodyRunsWhileWorking'
  BY <1>1, <1>3, <1>4, <1>12 DEF IInv, NobodyRunsWhileWorking
<1>17. Births' BY <1>1, <1>3, <1>7, <1>8, <1>9 DEF IInv, Births, Born
<1> QED BY <1>5, <1>6, <1>11, <1>13, <1>14, <1>15, <1>16, <1>17 DEF IInv

LEMMA UserStops ==
  ASSUME IInv, UNCHANGED <<instanceVars, found, undone, orphaned>>,
         by_hand' \in 1 .. MaxSignals,
         NEW p \in Others, Born(p), life' = Stopped(p), user_stopped' = user_stopped \union {p}
  PROVE  IInv'
<1>1. UNCHANGED <<command, pc, guard, signalled, missed, issued, found, undone, orphaned>>
  BY DEF instanceVars
<1>2. /\ life' \in [Processes -> {"unborn", "running", "sleeping", "stopped", "dead"}]
      /\ \A q \in Processes :
           life[q] \in {"unborn", "dead"} \/ life'[q] \in {"unborn", "dead"} =>
             life'[q] = life[q]
      /\ \A q \in Processes \ {p} : life'[q] = life[q]
      /\ life'[p] = "stopped"
  <2>1. p \in Processes /\ life[p] \notin {"unborn", "dead"} BY DEF IInv, Types, Born
  <2> HIDE SuspendAssumption DEF Processes
  <2> QED BY <2>1, SignalsType DEF IInv
<1>3. Types'
  <2>1. TypeOK' BY <1>1, <1>2 DEF IInv, Types, TypeOK
  <2> QED BY <1>1, <1>2, <2>1 DEF IInv, Types
<1>4. Shape' BY <1>1 DEF IInv, Shape
<1>5. \A t \in Scanners : Target(t)' = Target(t) BY <1>1 DEF Target
<1>6. \A t \in Scanners : \A q : Responsible(t, q) => Responsible(t, q)'
  BY <1>1, <1>2, <1>5 DEF Responsible
<1>7. Covered' BY <1>1, <1>2, <1>6 DEF IInv, Covered
<1>8. \A t \in Scanners : Alone(t)' => Alone(t) /\ Target(t) \in Processes
  BY <1>1, TargetType DEF IInv, Alone
<1>9. StoppedWhileWorking' BY <1>1, <1>2, <1>5, <1>8 DEF IInv, StoppedWhileWorking
<1>10. FoundStoppedKept' BY <1>1, <1>2, <1>5, <1>8 DEF IInv, FoundStoppedKept
<1>11. Gathered' BY DEF Gathered
<1>12. NobodyRunsWhileWorking' BY DEF NobodyRunsWhileWorking
<1>births. Births'
  BY <1>1, <1>2, <1>5, TargetType DEF IInv, Births, Born
<1> QED BY <1>3, <1>4, <1>7, <1>9, <1>10, <1>11, <1>12, <1>births DEF IInv

LEMMA UserContinues ==
  ASSUME IInv, UNCHANGED <<instanceVars, found, orphaned>>,
         by_hand' \in 1 .. MaxSignals,
         NEW p \in Others, life' = Continued(p), user_stopped' = user_stopped \ {p},
         undone' = [s \in Scanners |-> undone[s] \/ (command[s] # None /\ Target(s) = p)]
  PROVE  IInv'
<1>1. UNCHANGED <<command, pc, guard, signalled, missed, issued, found, orphaned>>
  BY DEF instanceVars
<1>2. /\ life' \in [Processes -> {"unborn", "running", "sleeping", "stopped", "dead"}]
      /\ \A q \in Processes :
           life[q] \in {"unborn", "dead"} \/ life'[q] \in {"unborn", "dead"} =>
             life'[q] = life[q]
      /\ \A q \in Processes \ {p} : life'[q] = life[q]
      /\ life'[p] # "stopped"
  <2>1. p \in Processes OBVIOUS
  <2> HIDE SuspendAssumption DEF Processes
  <2> QED BY <2>1, SignalsType DEF IInv
<1>3. Types'
  <2>1. undone' \in [Scanners -> BOOLEAN] BY DEF IInv, Types, TypeOK
  <2>2. TypeOK' BY <1>1, <1>2, <2>1 DEF IInv, Types, TypeOK
  <2> QED BY <1>1, <1>2, <2>2 DEF IInv, Types
<1>4. Shape' BY <1>1 DEF IInv, Shape
<1>5. \A t \in Scanners : Target(t)' = Target(t) BY <1>1 DEF Target
<1>6. \A t \in Scanners : \A q : Responsible(t, q) => Responsible(t, q)'
  BY <1>1, <1>2, <1>5 DEF Responsible
<1>7. Covered' BY <1>1, <1>2, <1>6 DEF IInv, Covered
<1>8. \A t \in Scanners :
        Alone(t)' => Alone(t) /\ Target(t) \in Processes /\ command[t] # None
  BY <1>1, TargetType DEF IInv, Alone
<1>9. \A t \in Scanners : Alone(t)' /\ ~undone'[t] => Target(t) # p /\ ~undone[t]
  BY <1>8
<1>10. StoppedWhileWorking' BY <1>1, <1>2, <1>5, <1>8, <1>9 DEF IInv, StoppedWhileWorking
<1>11. FoundStoppedKept' BY <1>1, <1>2, <1>5, <1>8 DEF IInv, FoundStoppedKept
<1>12. Gathered' BY DEF Gathered
<1>13. NobodyRunsWhileWorking' BY DEF NobodyRunsWhileWorking
<1>births. Births'
  BY <1>1, <1>2, <1>5, TargetType DEF IInv, Births, Born
<1> QED BY <1>3, <1>4, <1>7, <1>10, <1>11, <1>12, <1>13, <1>births DEF IInv

LEMMA UserKills ==
  ASSUME IInv, UNCHANGED <<instanceVars, found, user_stopped, undone>>,
         by_hand' \in 1 .. MaxSignals,
         NEW s \in Scanners, life' = [life EXCEPT ![s] = "dead"],
         orphaned' = (orphaned \/ guard[s])
  PROVE  IInv'
<1>1. UNCHANGED <<command, pc, guard, signalled, missed, issued, found, user_stopped, undone>>
  BY DEF instanceVars
<1>2. /\ life' \in [Processes -> {"unborn", "running", "sleeping", "stopped", "dead"}]
      /\ \A q \in Processes \ {s} : life'[q] = life[q]
      /\ \A q \in Others : life'[q] = life[q]
      /\ life'[s] = "dead"
  BY DEF IInv, Types, TypeOK
<1>3. Types'
  <2>1. TypeOK' BY <1>1, <1>2 DEF IInv, Types, TypeOK
  <2> QED BY <1>1, <1>2, <2>1 DEF IInv, Types
<1>4. Shape' BY <1>1 DEF IInv, Shape
<1>5. \A t \in Scanners : Target(t)' = Target(t) BY <1>1 DEF Target
<1>6. Covered'
  <2>1. ~orphaned' => \A t \in Scanners : \A q : Responsible(t, q) => Responsible(t, q)'
    BY <1>1, <1>2, <1>5 DEF Responsible
  <2> QED BY <1>1, <1>2, <2>1 DEF IInv, Covered
<1>7. \A t \in Scanners : Alone(t)' => Alone(t) /\ Target(t) \in Processes
  BY <1>1, TargetType DEF IInv, Alone
<1>8. StoppedWhileWorking' BY <1>1, <1>2, <1>5, <1>7 DEF IInv, StoppedWhileWorking
<1>9. FoundStoppedKept' BY <1>1, <1>2, <1>5, <1>7 DEF IInv, Types, FoundStoppedKept
<1>10. Gathered' BY DEF Gathered
<1>11. NobodyRunsWhileWorking' BY DEF NobodyRunsWhileWorking
<1>births. Births'
  BY <1>1, <1>2, <1>5, TargetType DEF IInv, Births, Born
<1> QED BY <1>3, <1>4, <1>6, <1>8, <1>9, <1>10, <1>11, <1>births DEF IInv

LEMMA UserActsHolds ==
  ASSUME IInv, UserActs
  PROVE  IInv'
<1>1. by_hand' \in 1 .. MaxSignals BY DEF UserActs, IInv, Types, TypeOK
<1>2. UNCHANGED <<instanceVars, found>> BY DEF UserActs
<1>3. \/ /\ \E p \in Others :
              Born(p) /\ life' = Stopped(p) /\ user_stopped' = user_stopped \union {p}
         /\ UNCHANGED <<undone, orphaned>>
      \/ /\ \E p \in Others :
              /\ Born(p) /\ life' = Continued(p)
              /\ user_stopped' = user_stopped \ {p}
              /\ undone' = [s \in Scanners |-> undone[s] \/ (command[s] # None /\ Target(s) = p)]
         /\ UNCHANGED orphaned
      \/ /\ \E s \in Scanners :
              /\ life' = [life EXCEPT ![s] = "dead"]
              /\ orphaned' = (orphaned \/ guard[s])
         /\ UNCHANGED <<user_stopped, undone>>
  BY DEF UserActs
<1> HIDE SuspendAssumption DEF Processes
<1> QED BY <1>1, <1>2, <1>3, UserStops, UserContinues, UserKills

LEMMA StutterHolds ==
  ASSUME IInv, UNCHANGED vars
  PROVE  IInv'
<1> USE DEF vars, instanceVars, userVars
<1>1. Types' BY DEF IInv, Types, TypeOK
<1>2. Shape' BY DEF IInv, Shape
<1>3. Covered' BY DEF IInv, Covered, Responsible, Target
<1>4. StoppedWhileWorking' BY DEF IInv, StoppedWhileWorking, Alone, Target
<1>5. FoundStoppedKept' BY DEF IInv, FoundStoppedKept, Alone, Target
<1>6. Gathered' BY DEF IInv, Gathered, Alone
<1>7. NobodyRunsWhileWorking' BY DEF IInv, NobodyRunsWhileWorking, Alone
<1>births. Births' BY DEF IInv, Births, Born, Target
<1> QED BY <1>1, <1>2, <1>3, <1>4, <1>5, <1>6, <1>7, <1>births DEF IInv

HIDE SuspendAssumption DEF Processes

LEMMA Invariance == Spec => []IInv
<1>1. Init => IInv BY InitHolds
<1>2. IInv /\ [Next]_vars => IInv'
  <2> SUFFICES ASSUME IInv, [Next]_vars PROVE IInv' OBVIOUS
  <2>1. CASE UNCHANGED vars BY <2>1, StutterHolds
  <2>2. CASE \E s \in Scanners : InstanceStep(s)
    <3>1. PICK s \in Scanners : InstanceStep(s) BY <2>2
    <3> QED
      BY <3>1, CheckStateHolds, SignalOtherHolds, StopTargetHolds, LeaveScopeHolds,
         ContTargetHolds DEF InstanceStep
  <2>3. CASE \E s \in Scanners : \E c \in Commands[s] : Run(s, c) BY <2>3, RunHolds
  <2>4. CASE Schedule BY <2>4, ScheduleHolds
  <2>5. CASE Fork BY <2>5, ForkHolds
  <2>6. CASE UserActs BY <2>6, UserActsHolds
  <2> QED BY <2>1, <2>2, <2>3, <2>4, <2>5, <2>6 DEF Next
<1> QED BY <1>1, <1>2, PTL DEF Spec

-------------------------------------------------------------------------------
\* Every process is in a state of its own and every instance at a point of its
\* command.
THEOREM TypeCorrect == Spec => []TypeOK
<1>1. IInv => TypeOK BY DEF IInv, Types
<1> QED BY <1>1, Invariance, PTL

\* When all instances are through or dead, no process is left stopped that the
\* user did not stop, unless an instance was killed behind its guard: the guard
\* of every instance that is through is down, so nobody answers for anything.
THEOREM NobodyLeftStopped == Spec => []NoneLeftStopped
<1>1. IInv => NoneLeftStopped
  <2> SUFFICES ASSUME IInv, AllIdle, ~orphaned, NEW p \in Others, life[p] = "stopped",
                      p \notin user_stopped
               PROVE  FALSE
    BY DEF NoneLeftStopped
  <2>1. PICK s \in Scanners : Responsible(s, p) BY DEF IInv, Covered
  <2>2. guard[s] /\ life[s] # "dead" BY <2>1 DEF Responsible
  <2>3. pc[s] # "idle" BY <2>2 DEF IInv, Shape
  <2> QED BY <2>2, <2>3 DEF AllIdle
<1> QED BY <1>1, Invariance, PTL

\* The target of the only instance in use does not run behind its guard, unless
\* the user continued it by hand.
THEOREM TargetHeld == Spec => []StoppedWhileWorking
<1>1. IInv => StoppedWhileWorking BY DEF IInv
<1> QED BY <1>1, Invariance, PTL

\* No process runs beside an instance that has suspended them all, but the
\* children its walk did not come by and theirs: those that kill_same_user has
\* passed stay stopped until it comes to the target, and fork no more.
THEOREM NobodyRuns == Spec => []NobodyRunsWhileWorking
<1>1. IInv => NobodyRunsWhileWorking BY DEF IInv
<1> QED BY <1>1, Invariance, PTL

\* A target that was found stopped by the user is not continued by the instance.
THEOREM FoundKept == Spec => []FoundStoppedKept
<1>1. IInv => FoundStoppedKept BY DEF IInv
<1> QED BY <1>1, Invariance, PTL
===============================================================================
