------------------------------ MODULE SessionScan ------------------------------
(***************************************************************************)
(* Session::scan (src/src/scanner.hpp) as the scan command runs it         *)
(* (src/src/cmd_scan.cpp): one parallel loop over the recorded memory      *)
(* regions per requested number type.  OpenMP threads claim regions in     *)
(* order; each reads its region chunk by chunk, compares one candidate     *)
(* after the other and appends a match to the list of the type inside a    *)
(* critical section.  A read error ends the region: the exception is       *)
(* swallowed by catch (...).                                               *)
(*                                                                         *)
(* An address stands for one candidate, the distance between two being the *)
(* step; that the chunked reader visits every candidate with its own bytes *)
(* is LinearScan, which MemoryMapper implements.  The buffer of a mapper is *)
(* always obtained here; MemoryMapper has the reader whose mmap fails.     *)
(***************************************************************************)
EXTENDS Integers, Sequences

CONSTANTS
  Threads,     \* the OpenMP team
  Regions,     \* _memory_regions, in order
  Types,       \* the number types of the command, in the order they are scanned
  Values,      \* what a candidate may hold
  Wanted,      \* the values a type's comparator accepts
  Prot,        \* the prot mask of the command
  ExcludeFile, \* its --exclude-file option
  Android,     \* built for Android
  Chunk,       \* the candidates that fit in the buffer
  MaxChanges,  \* bound on what a target that is not stopped does meanwhile
  Nobody       \* no thread is in the critical section

VARIABLES
  frozen,      \* the target was stopped before the regions were recorded
  mem,         \* the target's memory
  mapped,      \* the addresses that can be read
  changes,     \* how often the target changed mem or mapped
  tidx,        \* the type being scanned, an index of Types
  next_region, \* the next region the schedule hands out
  pc,          \* thread -> "idle", "scan", "hit" or "add"
  region,      \* thread -> the region it claimed
  pos,         \* thread -> the candidate it looks at
  chunk,       \* thread -> its buffer: the addresses read and their values
  slot,        \* thread -> the size of the list when emplace_back began
  critical,    \* who is in the critical section
  matches      \* type -> the match list of the session

targetVars == <<frozen, mem, mapped, changes>>
threadVars == <<pc, region, pos, chunk, slot, critical>>
vars == <<targetVars, tidx, next_region, threadVars, matches>>

Region == [first : Nat, end : Nat, prot : SUBSET {"r", "w", "x"},
           file : BOOLEAN, bss : BOOLEAN,
           runtime : BOOLEAN]  \* a Dalvik heap or memory of /dev/kgsl

Candidates(r) == Regions[r].first .. Regions[r].end - 1
Addresses     == UNION {Candidates(r) : r \in 1 .. Len(Regions)}
TypeSet       == {Types[i] : i \in 1 .. Len(Types)}
Match         == [addr : Addresses, value : Values]

\* The kernel lists disjoint regions; no type is scanned twice.
ASSUME RegionsAssumption ==
  /\ Regions \in Seq(Region)
  /\ \A r, s \in 1 .. Len(Regions) : r # s => Candidates(r) \intersect Candidates(s) = {}
ASSUME ScanAssumption ==
  /\ Types \in Seq(STRING)
  /\ \A i, j \in 1 .. Len(Types) : i # j => Types[i] # Types[j]
  /\ Wanted \in [TypeSet -> SUBSET Values]
  /\ Prot \subseteq {"r", "w", "x"} /\ ExcludeFile \in BOOLEAN /\ Android \in BOOLEAN
  /\ Chunk \in Nat \ {0} /\ MaxChanges \in Nat
  /\ Nobody \notin Threads

-------------------------------------------------------------------------------
\* The conditions under which the loop body goes on with a region.
Selected(r) ==
  /\ Prot \subseteq Regions[r].prot
  /\ ~(Android /\ Regions[r].runtime)
  /\ ~(ExcludeFile /\ ~Regions[r].bss /\ Regions[r].file)

\* The candidates a read of the next chunk at address a brings in: up to the
\* buffer's capacity, the region's end and the first address that is not mapped.
Readable(r, a) ==
  {b \in Candidates(r) : b >= a /\ b < a + Chunk /\ a .. b \subseteq mapped}

Type == Types[tidx]

\* The window of a mapper before its first next().
NoChunk == [a \in {} |-> a]

Init ==
  /\ frozen \in BOOLEAN
  /\ mem \in [Addresses -> Values]
  /\ mapped \in SUBSET Addresses
  /\ changes = 0
  /\ tidx = 1
  /\ next_region = 1
  /\ pc = [t \in Threads |-> "idle"]
  /\ region = [t \in Threads |-> 0]
  /\ pos = [t \in Threads |-> 0]
  /\ chunk = [t \in Threads |-> NoChunk]
  /\ slot = [t \in Threads |-> 0]
  /\ critical = Nobody
  /\ matches = [x \in TypeSet |-> <<>>]

\* A thread takes the next iteration; a region that is filtered out is skipped.
Claim(t) ==
  /\ tidx <= Len(Types) /\ pc[t] = "idle"
  /\ next_region <= Len(Regions)
  /\ next_region' = next_region + 1
  /\ \/ /\ Selected(next_region)
        /\ pc' = [pc EXCEPT ![t] = "scan"]
        /\ region' = [region EXCEPT ![t] = next_region]
        /\ pos' = [pos EXCEPT ![t] = Regions[next_region].first]
        /\ chunk' = [chunk EXCEPT ![t] = NoChunk]
     \/ /\ ~Selected(next_region)
        /\ UNCHANGED <<pc, region, pos, chunk>>
  /\ UNCHANGED <<targetVars, tidx, slot, critical, matches>>

\* mapper.next() when the buffer is used up and the region is not.
NeedsChunk(t) ==
  /\ pc[t] = "scan"
  /\ pos[t] \notin DOMAIN chunk[t]
  /\ pos[t] < Regions[region[t]].end

ReadChunk(t) ==
  /\ NeedsChunk(t)
  /\ Readable(region[t], pos[t]) # {}
  /\ chunk' = [chunk EXCEPT ![t] = [a \in Readable(region[t], pos[t]) |-> mem[a]]]
  /\ UNCHANGED <<targetVars, tidx, next_region, pc, region, pos, slot, critical, matches>>

\* Mutant: the handler is inside the loop, which tries the read again.
ReadFailsAgain(t) ==
  /\ NeedsChunk(t)
  /\ Readable(region[t], pos[t]) = {}
  /\ UNCHANGED vars

\* next() throws, the handler around the region's loop swallows it.
ReadFails(t) ==
  /\ NeedsChunk(t)
  /\ Readable(region[t], pos[t]) = {}
  /\ pc' = [pc EXCEPT ![t] = "idle"]
  /\ UNCHANGED <<targetVars, tidx, next_region, region, pos, chunk, slot, critical, matches>>

\* next() returns false at the end of the region.
EndRegion(t) ==
  /\ pc[t] = "scan"
  /\ pos[t] >= Regions[region[t]].end
  /\ pc' = [pc EXCEPT ![t] = "idle"]
  /\ UNCHANGED <<targetVars, tidx, next_region, region, pos, chunk, slot, critical, matches>>

\* The comparator looks at the value in the buffer.
Compare(t) ==
  /\ pc[t] = "scan"
  /\ pos[t] \in DOMAIN chunk[t]
  /\ \/ /\ chunk[t][pos[t]] \in Wanted[Type]
        /\ pc' = [pc EXCEPT ![t] = "hit"]
        /\ UNCHANGED pos
     \/ /\ chunk[t][pos[t]] \notin Wanted[Type]
        /\ pos' = [pos EXCEPT ![t] = @ + 1]
        /\ UNCHANGED pc
  /\ UNCHANGED <<targetVars, tidx, next_region, region, chunk, slot, critical, matches>>

\* Mutant: the callback has no critical section.
EnterCriticalFreely(t) ==
  /\ pc[t] = "hit"
  /\ critical' = t
  /\ slot' = [slot EXCEPT ![t] = Len(matches[Type])]
  /\ pc' = [pc EXCEPT ![t] = "add"]
  /\ UNCHANGED <<targetVars, tidx, next_region, region, pos, chunk, matches>>

\* The callback enters the critical section and emplace_back looks up the end.
EnterCritical(t) ==
  /\ pc[t] = "hit"
  /\ critical = Nobody
  /\ critical' = t
  /\ slot' = [slot EXCEPT ![t] = Len(matches[Type])]
  /\ pc' = [pc EXCEPT ![t] = "add"]
  /\ UNCHANGED <<targetVars, tidx, next_region, region, pos, chunk, matches>>

\* Mutants: the loop does not go on after a match; the match holds what the
\* target has there now.
AddMatchStays(t) ==
  /\ pc[t] = "add"
  /\ matches' = [matches EXCEPT ![Type] =
       Append(SubSeq(@, 1, slot[t]), [addr |-> pos[t], value |-> chunk[t][pos[t]]])]
  /\ critical' = Nobody
  /\ pc' = [pc EXCEPT ![t] = "scan"]
  /\ UNCHANGED <<targetVars, tidx, next_region, region, pos, chunk, slot>>
AddMatchReread(t) ==
  /\ pc[t] = "add"
  /\ matches' = [matches EXCEPT ![Type] =
       Append(SubSeq(@, 1, slot[t]), [addr |-> pos[t], value |-> mem[pos[t]]])]
  /\ critical' = Nobody
  /\ pc' = [pc EXCEPT ![t] = "scan"]
  /\ pos' = [pos EXCEPT ![t] = @ + 1]
  /\ UNCHANGED <<targetVars, tidx, next_region, region, chunk, slot>>

\* emplace_back stores the match at the end it looked up and sets the new size.
AddMatch(t) ==
  /\ pc[t] = "add"
  /\ matches' = [matches EXCEPT ![Type] =
       Append(SubSeq(@, 1, slot[t]), [addr |-> pos[t], value |-> chunk[t][pos[t]]])]
  /\ critical' = Nobody
  /\ pc' = [pc EXCEPT ![t] = "scan"]
  /\ pos' = [pos EXCEPT ![t] = @ + 1]
  /\ UNCHANGED <<targetVars, tidx, next_region, region, chunk, slot>>

\* The barrier at the end of the parallel loop; the command scans the next type.
NextType ==
  /\ tidx <= Len(Types)
  /\ next_region > Len(Regions)
  /\ \A t \in Threads : pc[t] = "idle"
  /\ tidx' = tidx + 1
  /\ next_region' = 1
  /\ UNCHANGED <<targetVars, threadVars, matches>>

\* A target that was not stopped stores a value or unmaps an address.
TargetRuns ==
  /\ ~frozen /\ changes < MaxChanges
  /\ changes' = changes + 1
  /\ \E a \in Addresses :
       \/ \E v \in Values : mem' = [mem EXCEPT ![a] = v] /\ UNCHANGED mapped
       \/ mapped' = mapped \ {a} /\ UNCHANGED mem
  /\ UNCHANGED <<frozen, tidx, next_region, threadVars, matches>>

ThreadStep(t) ==
  \/ Claim(t) \/ ReadChunk(t) \/ ReadFails(t) \/ EndRegion(t)
  \/ Compare(t) \/ EnterCritical(t) \/ AddMatch(t)

Next == (\E t \in Threads : ThreadStep(t)) \/ NextType \/ TargetRuns

Spec == Init /\ [][Next]_vars

\* Each thread of the team keeps running; nothing is assumed of the target.
FairSpec ==
  /\ Spec
  /\ \A t \in Threads : WF_vars(ThreadStep(t))
  /\ WF_vars(NextType)

-------------------------------------------------------------------------------
(***************************************************************************)
(* Properties.                                                             *)
(***************************************************************************)
Buffers == UNION {[A -> Values] : A \in SUBSET Addresses}

TargetOK ==
  /\ frozen \in BOOLEAN /\ mem \in [Addresses -> Values]
  /\ mapped \subseteq Addresses /\ changes \in 0 .. MaxChanges

LoopsOK == tidx \in 1 .. Len(Types) + 1 /\ next_region \in 1 .. Len(Regions) + 1

ThreadsOK ==
  /\ pc \in [Threads -> {"idle", "scan", "hit", "add"}]
  /\ region \in [Threads -> 0 .. Len(Regions)] /\ pos \in [Threads -> Nat]
  /\ chunk \in [Threads -> Buffers] /\ slot \in [Threads -> Nat]
  /\ critical \in Threads \union {Nobody}

TypeOK == TargetOK /\ LoopsOK /\ ThreadsOK /\ matches \in [TypeSet -> Seq(Match)]

Found(x) == {matches[x][i] : i \in 1 .. Len(matches[x])}

(***************************************************************************)
(* The candidates of a selected region a scan can reach: the first read    *)
(* error ends the region.                                                  *)
(***************************************************************************)
Reached(r) == {a \in Candidates(r) : Selected(r) /\ Regions[r].first .. a \subseteq mapped}

(***************************************************************************)
(* A scan of a stopped target finds exactly the wanted values that can be  *)
(* reached, each with the value the target holds, in spite of threads that *)
(* append to one list, of short reads and of regions given up half-way.    *)
(***************************************************************************)
FrozenScanExact ==
  frozen /\ tidx > Len(Types) =>
    \A x \in TypeSet :
      Found(x) = {[addr |-> a, value |-> mem[a]] :
                    a \in {b \in UNION {Reached(r) : r \in 1 .. Len(Regions)} :
                            mem[b] \in Wanted[x]}}

\* No address is listed twice for a type: no region is scanned by two threads
\* or in two iterations, and no candidate is compared twice.
NoDuplicates ==
  \A x \in TypeSet : \A i, j \in 1 .. Len(matches[x]) :
    matches[x][i].addr = matches[x][j].addr => i = j

\* Whatever the target does meanwhile, only wanted values of selected regions
\* are listed.
MatchesWanted ==
  \A x \in TypeSet : \A i \in 1 .. Len(matches[x]) :
    /\ matches[x][i].value \in Wanted[x]
    /\ \E r \in 1 .. Len(Regions) : Selected(r) /\ matches[x][i].addr \in Candidates(r)

\* A scan only appends: what one thread added no other thread overwrites.
OnlyAppends ==
  [][\A x \in TypeSet :
       /\ Len(matches[x]) <= Len(matches'[x])
       /\ SubSeq(matches'[x], 1, Len(matches[x])) = matches[x]]_vars

\* The loops over regions and types end, also when reads fail.
ScanTerminates == <>(tidx > Len(Types))
===============================================================================
