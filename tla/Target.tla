--------------------------------- MODULE Target ---------------------------------
(***************************************************************************)
(* The processes that mypower looks at: memory that is mapped line by line *)
(* as /proc/pid/maps lists it, and that changes while it is read.  A cell  *)
(* of memory is what one read yields: a word for the pointer search, the   *)
(* part of a row for a data view.  No definition here has a counterpart in *)
(* the source: it is what ProcessLinux::read and get_memory_regions meet.  *)
(***************************************************************************)
EXTENDS App

CONSTANTS
  Addresses,       \* the addresses that can be mapped
  Values,          \* what a cell can hold
  Lines,           \* lines of a map, see Line
  Holes,           \* addresses that cannot be read although they are mapped
  InitialMaps,     \* process -> the lines of its map, at the start
  InitialMemories, \* process -> address -> value, at the start
  MaxChanges,      \* bound on the changes the processes make
  Watchers         \* who records what is held since a moment of his own

\* A line maps [first, end) with some of the permissions r, w, x and s (shared);
\* its last field is a sequence of words.
Line == [first : Nat, end : Nat, perms : SUBSET {"r", "w", "x", "s"}, name : Seq(STRING)]

ASSUME TargetAssumption ==
  /\ Addresses \subseteq Nat /\ Values \subseteq Nat /\ Holes \subseteq Addresses
  /\ \A line \in Lines : /\ line.first \in Nat /\ line.end \in Nat
                         /\ line.first .. line.end - 1 \subseteq Addresses
                         /\ line.perms \subseteq {"r", "w", "x", "s"}
  /\ InitialMaps \subseteq [Pids -> SUBSET Lines]
  /\ InitialMemories \subseteq [Pids -> [Addresses -> Values]]
  /\ MaxChanges \in Nat

VARIABLES
  crashed,   \* a command has dereferenced a null pointer: mypower is no more
  memory,    \* process -> address -> value
  maps,      \* process -> the lines of its map
  changes,   \* how many changes were made
  held       \* history: watcher -> the cells as they were read or could have
             \* been since he began: process, address and value

targetVars == <<memory, maps, changes, held>>

Cells(line) == line.first .. line.end - 1

Readable(p, a) ==
  a \notin Holes /\ \E line \in maps[p] : a \in Cells(line) /\ "r" \in line.perms

\* What can be read of a process now.
Facts(p) == {<<p, a, memory[p][a]>> : a \in {b \in Addresses : Readable(p, b)}}

\* A watcher begins anew.
Watch(watcher) == held' = [held EXCEPT ![watcher] = Facts(process)]

TargetInit ==
  /\ crashed = FALSE
  /\ memory \in InitialMemories
  /\ maps \in InitialMaps
  /\ changes = 0
  /\ held = [w \in Watchers |-> {}]

Store ==
  /\ changes < MaxChanges
  /\ \E p \in Pids : \E line \in maps[p] : \E a \in Cells(line) \ Holes :
       /\ "w" \in line.perms
       /\ \E v \in Values \ {memory[p][a]} :
            /\ memory' = [memory EXCEPT ![p][a] = v]
            /\ held' = [w \in Watchers |-> held[w] \union {<<p, a, v>>}]
  /\ changes' = changes + 1
  /\ UNCHANGED maps

Unmap ==
  /\ changes < MaxChanges
  /\ \E p \in Pids : \E line \in maps[p] : maps' = [maps EXCEPT ![p] = @ \ {line}]
  /\ changes' = changes + 1
  /\ UNCHANGED <<memory, held>>

TargetRuns == Store \/ Unmap
===============================================================================
