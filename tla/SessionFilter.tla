----------------------------- MODULE SessionFilter -----------------------------
(***************************************************************************)
(* Narrowing and refreshing the match lists of a session                   *)
(* (src/src/scanner.hpp): Session::filter in its relational, constant and  *)
(* complex forms, update_matches and reset.  All but reset read the values *)
(* of a whole list with one process_vm_readv, whose result they ignore:    *)
(* the call stops at the first address that cannot be read, and reads      *)
(* nothing at all for more entries than IOVMax.  The target keeps running  *)
(* meanwhile, and may store or unmap between the entries of one call.      *)
(*                                                                         *)
(* A filter expression is a test, given by the pairs of old and new values *)
(* it accepts for a type; a value is read whole or not at all.             *)
(***************************************************************************)
EXTENDS Integers, Sequences, FiniteSets

CONSTANTS
  Types,        \* the lists of the session, in the order of MATCH_TYPES
  Integer,      \* the types of MATCH_TYPES_INTEGER
  Addresses,    \* the addresses matches can have
  Values,       \* what the target's memory can hold, with Zero among them
  Zero,         \* the value of a cleared buffer
  Tests,        \* the commands on the lists, see Test
  Accepts,      \* test -> type -> the pairs <<old, new>> it accepts
  InitialLists, \* what a scan may have left in the lists
  IOVMax,       \* UIO_MAXIOV of the kernel
  MaxChanges,   \* bound on what the target does
  MaxCommands,  \* bound on the commands of a session
  Idle          \* no command is running

\* The three forms of Session::filter and update_matches, and the types a test
\* is not suitable for.
Test == [form : {"relational", "constant", "complex", "refresh"}, except : SUBSET STRING]

VARIABLES
  mem, mapped,  \* the target's memory and what can be read of it
  changes,      \* how often the target changed either
  commands,     \* how many commands were started
  test,         \* the running command, or Idle
  tidx,         \* the type whose list is being filtered, an index of Types
  fetched,      \* the values process_vm_readv has copied from the list so far
  matches,      \* type -> the match list
  before,       \* history: the lists when the command began
  held          \* history: <<address, value>> the target held since then

targetVars == <<mem, mapped, changes>>
vars == <<targetVars, commands, test, tidx, fetched, matches, before, held>>

TypeSet == {Types[i] : i \in 1 .. Len(Types)}
Match   == [addr : Addresses, value : Values]

ASSUME ListAssumption ==
  /\ Types \in Seq(STRING)
  /\ \A i, j \in 1 .. Len(Types) : i # j => Types[i] # Types[j]
  /\ Integer \subseteq TypeSet
  /\ Zero \in Values
  /\ InitialLists \subseteq [TypeSet -> Seq(Match)]
  \* a scan lists no address twice for a type, see NoDuplicates of SessionScan
  /\ \A lists \in InitialLists, x \in TypeSet : \A i, j \in 1 .. Len(lists[x]) :
       i # j => lists[x][i].addr # lists[x][j].addr
  /\ IOVMax \in Nat /\ MaxChanges \in Nat /\ MaxCommands \in Nat

ASSUME TestAssumption ==
  /\ Tests \subseteq Test
  /\ Accepts \in [Tests -> [TypeSet -> SUBSET (Values \X Values)]]
  /\ Idle \notin Tests
  \* a constant is compared with the new value only
  /\ \A f \in Tests : f.form = "constant" =>
       \A x \in TypeSet, u, v, w \in Values :
         <<u, w>> \in Accepts[f][x] <=> <<v, w>> \in Accepts[f][x]

-------------------------------------------------------------------------------
Init ==
  /\ mem \in [Addresses -> Values] /\ mapped \in SUBSET Addresses
  /\ changes = 0 /\ commands = 0
  /\ test = Idle /\ tidx = 1 /\ fetched = <<>>
  /\ matches \in InitialLists
  /\ before = matches /\ held = {}

Type == Types[tidx]
List == matches[Type]

\* Where the fetched values of the current list go: the relational and complex
\* filters read into a buffer, the others straight into the matches.
\* Mutant: update_matches reads into a buffer too.
BufferedAlways == TRUE

Buffered == test.form \in {"relational", "complex"}

\* The types a command looks at.
Suitable(f, x) ==
  IF f.form \in {"complex", "refresh"} THEN x \in Integer ELSE x \notin f.except

Begin(f) ==
  /\ test = Idle /\ commands < MaxCommands
  /\ commands' = commands + 1
  /\ test' = f /\ tidx' = 1 /\ fetched' = <<>>
  /\ before' = matches
  /\ held' = {<<a, mem[a]>> : a \in mapped}
  /\ UNCHANGED <<targetVars, matches>>

Running == test # Idle /\ tidx <= Len(Types)

\* The list of an unsuitable type is left alone, as is an empty one.
SkipType ==
  /\ Running
  /\ ~Suitable(test, Type) \/ List = <<>>
  /\ tidx' = tidx + 1
  /\ UNCHANGED <<targetVars, commands, test, fetched, matches, before, held>>

\* process_vm_readv has a further entry that it can read.
CanFetch ==
  /\ Len(List) <= IOVMax
  /\ Len(fetched) < Len(List)
  /\ List[Len(fetched) + 1].addr \in mapped

\* The next entry is read, into the buffer or into the match itself.
FetchEntry ==
  /\ Running /\ Suitable(test, Type)
  /\ CanFetch
  /\ LET i == Len(fetched) + 1
         v == mem[List[i].addr]
     IN  /\ fetched' = Append(fetched, v)
         /\ matches' = IF Buffered THEN matches
                       ELSE [matches EXCEPT ![Type][i].value = v]
  /\ UNCHANGED <<targetVars, commands, test, tidx, before, held>>

\* The value compared for entry i: what the call fetched, or else the cleared
\* buffer or the value the match already has.
NewValue(i) ==
  IF i <= Len(fetched) THEN fetched[i]
  ELSE IF Buffered THEN Zero ELSE List[i].value

\* The positions of the entries the filter accepts.
Kept == {i \in 1 .. Len(List) : <<List[i].value, NewValue(i)>> \in Accepts[test][Type]}

\* The numbers of S in ascending order.
InOrder(S) ==
  CHOOSE s \in [1 .. Cardinality(S) -> S] : \A i, j \in DOMAIN s : i < j => s[i] < s[j]

\* Mutants: a survivor keeps its old value; the list is not cleared before.
SurvivorsUnchanged == [k \in 1 .. Cardinality(Kept) |-> List[InOrder(Kept)[k]]]
SurvivorsAppended  == List \o SurvivorsUnchanged

\* The entries that survive, in order, each with the value it was judged by.
Survivors ==
  LET kept == InOrder(Kept)
  IN  [k \in 1 .. Cardinality(Kept) |->
         [addr |-> List[kept[k]].addr, value |-> NewValue(kept[k])]]

\* Mutant: both the body and the loop go on to the next list.
FinishTypeTwice ==
  /\ Running /\ Suitable(test, Type) /\ List # <<>>
  /\ ~CanFetch
  /\ matches' = IF test.form = "refresh" THEN matches ELSE [matches EXCEPT ![Type] = Survivors]
  /\ tidx' = tidx + 2 /\ fetched' = <<>>
  /\ UNCHANGED <<targetVars, commands, test, before, held>>

\* The call has returned; a filter rebuilds the list from the survivors.
FinishType ==
  /\ Running /\ Suitable(test, Type) /\ List # <<>>
  /\ ~CanFetch
  /\ matches' = IF test.form = "refresh" THEN matches ELSE [matches EXCEPT ![Type] = Survivors]
  /\ tidx' = tidx + 1 /\ fetched' = <<>>
  /\ UNCHANGED <<targetVars, commands, test, before, held>>

EndCommand ==
  /\ test # Idle /\ tidx > Len(Types)
  /\ test' = Idle
  /\ UNCHANGED <<targetVars, commands, tidx, fetched, matches, before, held>>

\* Session::reset.
Reset ==
  /\ test = Idle /\ commands < MaxCommands
  /\ commands' = commands + 1
  /\ matches' = [x \in TypeSet |-> <<>>]
  /\ before' = matches'
  /\ UNCHANGED <<targetVars, test, tidx, fetched, held>>

\* The target stores a value or unmaps an address.
TargetRuns ==
  /\ changes < MaxChanges
  /\ changes' = changes + 1
  /\ \E a \in mapped :
       \/ \E v \in Values : /\ mem' = [mem EXCEPT ![a] = v]
                            /\ held' = held \union {<<a, v>>}
                            /\ UNCHANGED mapped
       \/ mapped' = mapped \ {a} /\ UNCHANGED <<mem, held>>
  /\ UNCHANGED <<commands, test, tidx, fetched, matches, before>>

Next ==
  \/ \E f \in Tests : Begin(f)
  \/ SkipType \/ FetchEntry \/ FinishType \/ EndCommand
  \/ Reset
  \/ TargetRuns

Spec == Init /\ [][Next]_vars

-------------------------------------------------------------------------------
(***************************************************************************)
(* Properties.                                                             *)
(***************************************************************************)
TypeOK ==
  /\ mem \in [Addresses -> Values] /\ mapped \subseteq Addresses
  /\ changes \in 0 .. MaxChanges /\ commands \in 0 .. MaxCommands
  /\ test \in Tests \union {Idle}
  /\ tidx \in 1 .. Len(Types) + 1
  /\ fetched \in Seq(Values)
  /\ matches \in [TypeSet -> Seq(Match)] /\ before \in [TypeSet -> Seq(Match)]
  /\ held \subseteq Addresses \X Values

\* The list of x has been dealt with by the running command.
Treated(x) == test # Idle /\ \E k \in 1 .. tidx - 1 : x = Types[k]

\* The entries of x that one call reaches: all before the first that cannot be
\* read now, and none of a list that is too long.
Reached(x) ==
  {i \in 1 .. Len(before[x]) :
     /\ Len(before[x]) <= IOVMax
     /\ \A k \in 1 .. i : before[x][k].addr \in mapped}

FullyReached(x) == Reached(x) = 1 .. Len(before[x])

(***************************************************************************)
(* A filter judges every match by its old value and by a value the target  *)
(* held at its address while the command ran, keeps it with that value or  *)
(* drops it, whatever the target stores meanwhile.  It leaves the lists it *)
(* is not suitable for alone.  This needs a list that is read as a whole.  *)
(***************************************************************************)
JudgedByHeldValues ==
  \A x \in TypeSet :
    Treated(x) /\ test.form # "refresh" /\ FullyReached(x) =>
      IF ~Suitable(test, x) THEN matches[x] = before[x]
      ELSE \A i \in 1 .. Len(before[x]) :
             LET m    == before[x][i]
                 kept == {k \in 1 .. Len(matches[x]) : matches[x][k].addr = m.addr}
             IN  \E v \in Values :
                   /\ <<m.addr, v>> \in held
                   /\ IF <<m.value, v>> \in Accepts[test][x]
                      THEN \E k \in kept : matches[x][k].value = v
                      ELSE kept = {}

(***************************************************************************)
(* update_matches gives every match it reaches a value the target held     *)
(* meanwhile, and leaves the values of the others as they were.            *)
(***************************************************************************)
RefreshHonest ==
  \A x \in TypeSet :
    Treated(x) /\ test.form = "refresh" =>
      /\ Len(matches[x]) = Len(before[x])
      /\ \A i \in 1 .. Len(before[x]) :
           /\ \/ matches[x][i] = before[x][i]
              \/ <<matches[x][i].addr, matches[x][i].value>> \in held
           /\ x \in Integer /\ i \in Reached(x) =>
                <<before[x][i].addr, matches[x][i].value>> \in held

\* The addresses of list t are those of list s at some positions, in order.
Narrower(t, s) ==
  \E e \in [1 .. Len(t) -> 1 .. Len(s)] :
    /\ \A i, j \in 1 .. Len(t) : i < j => e[i] < e[j]
    /\ \A i \in 1 .. Len(t) : t[i].addr = s[e[i]].addr

\* No command adds a match, repeats one, reorders them or moves one to another
\* address, also when a read fails half-way.
OnlyNarrows == [][\A x \in TypeSet : Narrower(matches'[x], matches[x])]_vars

(***************************************************************************)
(* What src/tests/test_command_scan.cpp expects of the filter ">": a match *)
(* whose value has become greater, and is left alone from then on, is      *)
(* still listed afterwards.                                                *)
(***************************************************************************)
IncreasedKept ==
  \A x \in TypeSet :
    Treated(x) /\ test.form = "relational" /\ Suitable(test, x) =>
      \A i \in 1 .. Len(before[x]) :
        LET m == before[x][i]
            now == {h \in held : h[1] = m.addr}
        IN  /\ m.addr \in mapped
            /\ now # {} /\ \A h \in now : <<m.value, h[2]>> \in Accepts[test][x]
            => \E k \in 1 .. Len(matches[x]) : matches[x][k].addr = m.addr
===============================================================================
