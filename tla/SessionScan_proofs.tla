-------------------------- MODULE SessionScan_proofs --------------------------
(***************************************************************************)
(* What holds of Session::scan for every number of threads, regions, types *)
(* and values, and every buffer capacity; at the end, the same of the      *)
(* chunked reader beneath it.                                              *)
(***************************************************************************)
EXTENDS SessionScan, MemoryMapper, SequenceTheorems, TLAPS

Active(t) == pc[t] # "idle"
Running   == tidx <= Len(Types)

\* The scan for the current type is past candidate a of region r.
Passed(r, a) ==
  /\ r \in 1 .. next_region - 1 /\ r \in 1 .. Len(Regions)
  /\ Selected(r) /\ a \in Candidates(r)
  /\ \A t \in Threads : Active(t) /\ region[t] = r => a < pos[t]

\* A thread at work holds a region that was handed out and a buffer of it.
ThreadInv ==
  \A t \in Threads : Active(t) =>
    /\ Running
    /\ region[t] \in 1 .. next_region - 1 /\ region[t] \in 1 .. Len(Regions)
    /\ Selected(region[t]) /\ pos[t] >= Regions[region[t]].first
    /\ DOMAIN chunk[t] \subseteq Candidates(region[t])
    /\ pc[t] \in {"hit", "add"} =>
         pos[t] \in DOMAIN chunk[t] /\ chunk[t][pos[t]] \in Wanted[Type]

\* No region is held by two threads.
ClaimInv ==
  \A t, u \in Threads : t # u /\ Active(t) /\ Active(u) => region[t] # region[u]

\* The end emplace_back looked up stays the end of the list while it is needed.
LockInv ==
  \A t \in Threads : /\ pc[t] = "add" <=> critical = t
                     /\ pc[t] = "add" => slot[t] = Len(matches[Type])

\* The types still to come have no match; a match of the current type lies
\* behind the thread that holds its region.
PendingInv == \A k \in tidx + 1 .. Len(Types) : matches[Types[k]] = <<>>

Placed(x, m) ==
  /\ m.value \in Wanted[x]
  /\ \E r \in 1 .. Len(Regions) :
       /\ Selected(r) /\ m.addr \in Candidates(r)
       /\ Running /\ x = Type => Passed(r, m.addr)

PlaceInv == \A x \in TypeSet : \A i \in 1 .. Len(matches[x]) : Placed(x, matches[x][i])

IInv == /\ TypeOK /\ ThreadInv /\ ClaimInv /\ LockInv /\ PendingInv /\ PlaceInv
        /\ NoDuplicates

-------------------------------------------------------------------------------
LEMMA ConstantFacts ==
  /\ Len(Regions) \in Nat /\ Len(Types) \in Nat
  /\ \A r \in 1 .. Len(Regions) : /\ Regions[r].first \in Nat /\ Regions[r].end \in Nat
                                  /\ Candidates(r) \subseteq Addresses
                                  /\ Candidates(r) \subseteq Nat
  /\ \A k \in 1 .. Len(Types) : Types[k] \in TypeSet
  /\ \A x \in TypeSet : Wanted[x] \subseteq Values
  /\ Chunk \in Nat \ {0} /\ MaxChanges \in Nat /\ Nobody \notin Threads
<1>1. Regions \in Seq(Region) BY RegionsAssumption
<1>2. Len(Regions) \in Nat BY <1>1
<1>3. \A r \in 1 .. Len(Regions) : Regions[r] \in Region BY <1>1, ElementOfSeq
<1>4. \A r \in 1 .. Len(Regions) : Regions[r].first \in Nat /\ Regions[r].end \in Nat
  BY <1>3 DEF Region
<1>5. \A r \in 1 .. Len(Regions) :
        Candidates(r) \subseteq Addresses /\ Candidates(r) \subseteq Nat
  BY <1>4 DEF Addresses, Candidates
<1>6. Len(Types) \in Nat BY ScanAssumption
<1>7. \A k \in 1 .. Len(Types) : Types[k] \in TypeSet BY DEF TypeSet
<1> QED BY <1>2, <1>4, <1>5, <1>6, <1>7, ScanAssumption

LEMMA CurrentType == IInv /\ Running => Type \in TypeSet /\ tidx \in 1 .. Len(Types)
BY ConstantFacts DEF IInv, TypeOK, LoopsOK, Running, Type

\* In the critical section emplace_back appends to the list as it is.
LEMMA AddAppends ==
  ASSUME IInv, NEW t \in Threads, AddMatch(t)
  PROVE  /\ Type \in TypeSet /\ tidx \in 1 .. Len(Types)
         /\ [addr |-> pos[t], value |-> chunk[t][pos[t]]] \in Match
         /\ matches' = [matches EXCEPT ![Type] =
                          Append(@, [addr |-> pos[t], value |-> chunk[t][pos[t]]])]
<1>1. pc[t] = "add" /\ Active(t) BY DEF AddMatch, Active
<1>2. Type \in TypeSet /\ tidx \in 1 .. Len(Types)
  BY <1>1, CurrentType DEF IInv, ThreadInv
<1>3. matches[Type] \in Seq(Match) /\ slot[t] = Len(matches[Type])
  BY <1>1, <1>2 DEF IInv, TypeOK, LockInv
<1>4. SubSeq(matches[Type], 1, slot[t]) = matches[Type]
  BY <1>3, SubSeqFull
<1>5. pos[t] \in Addresses /\ chunk[t][pos[t]] \in Values
  BY <1>1, <1>2, ConstantFacts DEF IInv, ThreadInv
<1> QED BY <1>2, <1>4, <1>5 DEF AddMatch, Match

LEMMA InitHolds == Init => IInv
<1> SUFFICES ASSUME Init PROVE IInv
    OBVIOUS
<1> USE ConstantFacts DEF Init
<1>1. TypeOK
  <2>1. NoChunk \in Buffers
    <3>1. NoChunk \in [{} -> Values] BY DEF NoChunk
    <3> QED BY <3>1 DEF Buffers
  <2>2. <<>> \in Seq(Match) OBVIOUS
  <2> QED BY <2>1, <2>2 DEF TypeOK, TargetOK, LoopsOK, ThreadsOK
<1>2. ThreadInv /\ ClaimInv BY DEF ThreadInv, ClaimInv, Active
<1>3. LockInv BY DEF LockInv
<1>4. PendingInv
  <2> SUFFICES ASSUME NEW k \in tidx + 1 .. Len(Types) PROVE matches[Types[k]] = <<>>
      BY DEF PendingInv
  <2>1. k \in 1 .. Len(Types) OBVIOUS
  <2> QED BY <2>1
<1>5. PlaceInv /\ NoDuplicates
  <2>1. \A x \in TypeSet : 1 .. Len(matches[x]) = {} OBVIOUS
  <2> QED BY <2>1 DEF PlaceInv, NoDuplicates
<1> QED BY <1>1, <1>2, <1>3, <1>4, <1>5 DEF IInv

\* The buffer a read fills holds candidates of the thread's region.
LEMMA ReadableFacts ==
  ASSUME IInv, NEW t \in Threads, Active(t)
  PROVE  /\ Readable(region[t], pos[t]) \subseteq Candidates(region[t])
         /\ [a \in Readable(region[t], pos[t]) |-> mem[a]] \in Buffers
<1>1. Readable(region[t], pos[t]) \subseteq Candidates(region[t]) BY DEF Readable
<1>2. region[t] \in 1 .. Len(Regions) BY DEF IInv, ThreadInv
<1>3. Readable(region[t], pos[t]) \subseteq Addresses BY <1>1, <1>2, ConstantFacts
<1>4. [a \in Readable(region[t], pos[t]) |-> mem[a]] \in [Readable(region[t], pos[t]) -> Values]
  BY <1>3 DEF IInv, TypeOK, TargetOK
<1> QED BY <1>1, <1>3, <1>4 DEF Buffers

LEMMA TypeHolds == IInv /\ [Next]_vars => TypeOK'
<1> SUFFICES ASSUME IInv, [Next]_vars PROVE TypeOK'
    OBVIOUS
<1> USE DEF targetVars, threadVars
<1>0. TargetOK /\ LoopsOK /\ ThreadsOK /\ matches \in [TypeSet -> Seq(Match)]
  BY DEF IInv, TypeOK
<1>1. ASSUME NEW t \in Threads, Claim(t) PROVE TypeOK'
  <2>1. NoChunk \in Buffers
    <3>1. NoChunk \in [{} -> Values] BY DEF NoChunk
    <3> QED BY <3>1 DEF Buffers
  <2>2. next_region \in 1 .. Len(Regions) /\ Regions[next_region].first \in Nat
        /\ Len(Regions) \in Nat
    BY <1>0, <1>1, ConstantFacts DEF Claim, LoopsOK
  <2>3. TargetOK' /\ matches' \in [TypeSet -> Seq(Match)]
    BY <1>0, <1>1 DEF Claim, TargetOK
  <2>4. LoopsOK' BY <1>0, <1>1, <2>2 DEF Claim, LoopsOK
  <2>5. ThreadsOK'
    <3>1. CASE UNCHANGED <<pc, region, pos, chunk>>
      BY <1>0, <1>1, <3>1 DEF Claim, ThreadsOK
    <3>2. CASE Selected(next_region)
      <4>1. /\ pc' = [pc EXCEPT ![t] = "scan"]
            /\ region' = [region EXCEPT ![t] = next_region]
            /\ pos' = [pos EXCEPT ![t] = Regions[next_region].first]
            /\ chunk' = [chunk EXCEPT ![t] = NoChunk]
            /\ UNCHANGED <<slot, critical>>
        BY <1>1, <3>2 DEF Claim
      <4>2. next_region \in 0 .. Len(Regions) BY <2>2
      <4>3. region' \in [Threads -> 0 .. Len(Regions)] BY <1>0, <4>1, <4>2 DEF ThreadsOK
      <4>4. chunk' \in [Threads -> Buffers] BY <1>0, <2>1, <4>1 DEF ThreadsOK
      <4>5. pos' \in [Threads -> Nat] BY <1>0, <2>2, <4>1 DEF ThreadsOK
      <4> QED BY <1>0, <4>1, <4>3, <4>4, <4>5 DEF ThreadsOK
    <3> QED BY <1>1, <3>1, <3>2 DEF Claim
  <2> QED BY <2>3, <2>4, <2>5 DEF TypeOK
<1>2. ASSUME NEW t \in Threads, ReadChunk(t) PROVE TypeOK'
  <2>1. Active(t) BY <1>2 DEF ReadChunk, NeedsChunk, Active
  <2>2. [a \in Readable(region[t], pos[t]) |-> mem[a]] \in Buffers BY <2>1, ReadableFacts
  <2>3. TargetOK' /\ LoopsOK' /\ matches' \in [TypeSet -> Seq(Match)]
    BY <1>0, <1>2 DEF ReadChunk, TargetOK, LoopsOK
  <2>4. ThreadsOK' BY <1>0, <1>2, <2>2 DEF ReadChunk, ThreadsOK
  <2> QED BY <2>3, <2>4 DEF TypeOK
<1>3. ASSUME NEW t \in Threads, ReadFails(t) \/ EndRegion(t) PROVE TypeOK'
  <2>1. TargetOK' /\ LoopsOK' /\ matches' \in [TypeSet -> Seq(Match)]
    BY <1>0, <1>3 DEF ReadFails, EndRegion, TargetOK, LoopsOK
  <2>2. ThreadsOK' BY <1>0, <1>3 DEF ReadFails, EndRegion, ThreadsOK
  <2> QED BY <2>1, <2>2 DEF TypeOK
<1>4. ASSUME NEW t \in Threads, Compare(t) PROVE TypeOK'
  <2>1. TargetOK' /\ LoopsOK' /\ matches' \in [TypeSet -> Seq(Match)]
    BY <1>0, <1>4 DEF Compare, TargetOK, LoopsOK
  <2>2. pos' \in [Threads -> Nat]
    BY <1>0, <1>4 DEF Compare, ThreadsOK
  <2>3. pc' \in [Threads -> {"idle", "scan", "hit", "add"}]
    BY <1>0, <1>4 DEF Compare, ThreadsOK
  <2>4. ThreadsOK' BY <1>0, <1>4, <2>2, <2>3 DEF Compare, ThreadsOK
  <2> QED BY <2>1, <2>4 DEF TypeOK
<1>5. ASSUME NEW t \in Threads, EnterCritical(t) PROVE TypeOK'
  <2>1. Active(t) BY <1>5 DEF EnterCritical, Active
  <2>2. Type \in TypeSet BY <2>1, CurrentType DEF IInv, ThreadInv
  <2>3. Len(matches[Type]) \in Nat BY <1>0, <2>2
  <2>4. TargetOK' /\ LoopsOK' /\ matches' \in [TypeSet -> Seq(Match)]
    BY <1>0, <1>5 DEF EnterCritical, TargetOK, LoopsOK
  <2>5. ThreadsOK' BY <1>0, <1>5, <2>3 DEF EnterCritical, ThreadsOK
  <2> QED BY <2>4, <2>5 DEF TypeOK
<1>6. ASSUME NEW t \in Threads, AddMatch(t) PROVE TypeOK'
  <2> DEFINE m == [addr |-> pos[t], value |-> chunk[t][pos[t]]]
  <2>1. Type \in TypeSet /\ m \in Match
        /\ matches' = [matches EXCEPT ![Type] = Append(@, m)]
    BY <1>6, AddAppends
  <2> HIDE DEF m
  <2>2. Append(matches[Type], m) \in Seq(Match) BY <1>0, <2>1
  <2>3. matches' \in [TypeSet -> Seq(Match)] BY <1>0, <2>1, <2>2
  <2>4. TargetOK' /\ LoopsOK'
    BY <1>0, <1>6 DEF AddMatch, TargetOK, LoopsOK
  <2>5. ThreadsOK' BY <1>0, <1>6 DEF AddMatch, ThreadsOK
  <2> QED BY <2>3, <2>4, <2>5 DEF TypeOK
<1>7. CASE NextType
  <2>1. Len(Regions) \in Nat /\ Len(Types) \in Nat BY ConstantFacts
  <2>2. TargetOK' /\ ThreadsOK' /\ matches' \in [TypeSet -> Seq(Match)]
    BY <1>0, <1>7 DEF NextType, TargetOK, ThreadsOK
  <2>3. LoopsOK' BY <1>0, <1>7, <2>1 DEF NextType, LoopsOK
  <2> QED BY <2>2, <2>3 DEF TypeOK
<1>8. CASE TargetRuns
  <2>1. LoopsOK' /\ ThreadsOK' /\ matches' \in [TypeSet -> Seq(Match)]
    BY <1>0, <1>8 DEF TargetRuns, LoopsOK, ThreadsOK
  <2>2. frozen' \in BOOLEAN /\ changes' \in 0 .. MaxChanges
    BY <1>0, <1>8, ConstantFacts DEF TargetRuns, TargetOK
  <2>3. mem' \in [Addresses -> Values] /\ mapped' \subseteq Addresses
    BY <1>0, <1>8 DEF TargetRuns, TargetOK
  <2> QED BY <2>1, <2>2, <2>3 DEF TypeOK, TargetOK
<1>9. CASE UNCHANGED vars
  BY <1>0, <1>9 DEF vars, TypeOK, TargetOK, LoopsOK, ThreadsOK
<1> QED BY <1>1, <1>2, <1>3, <1>4, <1>5, <1>6, <1>7, <1>8, <1>9 DEF Next, ThreadStep

\* Claiming a region: what lies behind the other threads is not disturbed.
LEMMA ClaimHolds == ASSUME IInv, NEW t \in Threads, Claim(t) PROVE IInv'
<1> USE DEF targetVars
<1>1. TypeOK' BY TypeHolds DEF Next, ThreadStep
<1>2. /\ Running /\ pc[t] = "idle" /\ next_region \in 1 .. Len(Regions)
      /\ next_region' = next_region + 1 /\ Len(Regions) \in Nat
      /\ UNCHANGED <<frozen, mem, mapped, changes, tidx, slot, critical, matches>>
  BY ConstantFacts DEF Claim, Running, IInv, TypeOK, LoopsOK
<1>3. ThreadsOK BY DEF IInv, TypeOK
<1>4. \A u \in Threads : u # t =>
        pc'[u] = pc[u] /\ region'[u] = region[u] /\ pos'[u] = pos[u] /\ chunk'[u] = chunk[u]
  BY <1>3 DEF Claim, ThreadsOK
<1>5. \/ /\ Selected(next_region) /\ pc'[t] = "scan" /\ region'[t] = next_region
         /\ pos'[t] = Regions[next_region].first /\ chunk'[t] = NoChunk
      \/ pc'[t] = "idle"
  BY <1>3 DEF Claim, ThreadsOK
<1>6. ThreadInv'
  <2> SUFFICES ASSUME NEW u \in Threads, Active(u)'
      PROVE  ThreadInv!(u)!2'
      BY DEF ThreadInv
  <2>1. CASE u = t
    <3>1. Active(t)' BY <2>1
    <3>2. /\ Selected(next_region) /\ pc'[t] = "scan" /\ region'[t] = next_region
          /\ pos'[t] = Regions[next_region].first /\ chunk'[t] = NoChunk
      BY <1>5, <3>1 DEF Active
    <3>3. Regions[next_region].first \in Nat BY <1>2, ConstantFacts
    <3>4. DOMAIN NoChunk = {} BY DEF NoChunk
    <3> QED BY <1>2, <2>1, <3>2, <3>3, <3>4 DEF Running, Selected
  <2>2. CASE u # t
    <3>1. ThreadInv!(u)!2 BY <1>4, <2>2 DEF IInv, ThreadInv, Active
    <3> QED BY <1>2, <1>4, <2>2, <3>1 DEF Running, Selected, Candidates, Type
  <2> QED BY <2>1, <2>2
<1>7. ClaimInv'
  <2> SUFFICES ASSUME NEW u \in Threads, NEW w \in Threads, u # w, Active(u)', Active(w)'
      PROVE  region'[u] # region'[w]
      BY DEF ClaimInv
  <2>1. \A x \in Threads : x # t /\ Active(x)' => Active(x) /\ region'[x] < next_region
    BY <1>2, <1>4 DEF IInv, ThreadInv, Active
  <2>2. Active(t)' => region'[t] = next_region BY <1>5 DEF Active
  <2>3. CASE u = t \/ w = t BY <1>2, <2>1, <2>2, <2>3
  <2>4. CASE u # t /\ w # t BY <1>4, <2>1, <2>4 DEF IInv, ClaimInv
  <2> QED BY <2>3, <2>4
<1>8. LockInv'
  BY <1>2, <1>4, <1>5 DEF IInv, LockInv, Type
<1>9. PendingInv' BY <1>2 DEF IInv, PendingInv
<1>10. \A r, a : Passed(r, a) => Passed(r, a)'
  <2> SUFFICES ASSUME NEW r, NEW a, Passed(r, a) PROVE Passed(r, a)'
      OBVIOUS
  <2>1. r # next_region /\ r \in 1 .. next_region' - 1
    BY <1>2 DEF Passed
  <2> QED BY <1>2, <1>4, <1>5, <2>1 DEF Passed, Active, Selected, Candidates
<1>11. PlaceInv'
  BY <1>2, <1>10 DEF IInv, PlaceInv, Placed, Running, Type, Selected, Candidates
<1>12. NoDuplicates' BY <1>2 DEF IInv, NoDuplicates
<1> QED BY <1>1, <1>6, <1>7, <1>8, <1>9, <1>11, <1>12 DEF IInv

\* A thread that reads a chunk or gives its region up disturbs nothing.
LEMMA ReadHolds ==
  ASSUME IInv, NEW t \in Threads, ReadChunk(t) \/ ReadFails(t) \/ EndRegion(t)
  PROVE  IInv'
<1> USE DEF targetVars
<1>1. TypeOK' BY TypeHolds DEF Next, ThreadStep
<1>2. /\ pc[t] = "scan" /\ Active(t)
      /\ UNCHANGED <<frozen, mem, mapped, changes, tidx, next_region, region, pos, slot,
                      critical, matches>>
  BY DEF ReadChunk, ReadFails, EndRegion, NeedsChunk, Active
<1>3. ThreadsOK BY DEF IInv, TypeOK
<1>4. \A u \in Threads : u # t => pc'[u] = pc[u] /\ chunk'[u] = chunk[u]
  BY <1>3 DEF ReadChunk, ReadFails, EndRegion, ThreadsOK
<1>5. pc'[t] \in {"idle", "scan"}
  BY <1>2, <1>3 DEF ReadChunk, ReadFails, EndRegion, ThreadsOK
<1>6. DOMAIN chunk'[t] \subseteq Candidates(region[t])
  <2>1. CASE ReadChunk(t)
    <3>1. chunk'[t] = [a \in Readable(region[t], pos[t]) |-> mem[a]]
      BY <1>3, <2>1 DEF ReadChunk, ThreadsOK
    <3> QED BY <1>2, <3>1, ReadableFacts
  <2>2. CASE ReadFails(t) \/ EndRegion(t)
    <3>1. chunk' = chunk BY <2>2 DEF ReadFails, EndRegion
    <3> QED BY <1>2, <3>1 DEF IInv, ThreadInv
  <2> QED BY <2>1, <2>2
<1>7. \A u \in Threads : Active(u)' => Active(u)
  BY <1>2, <1>4 DEF Active
<1>8. ThreadInv'
  <2> SUFFICES ASSUME NEW u \in Threads, Active(u)'
      PROVE  ThreadInv!(u)!2'
      BY DEF ThreadInv
  <2>1. ThreadInv!(u)!2 BY <1>7 DEF IInv, ThreadInv
  <2>2. CASE u = t
    BY <1>2, <1>5, <1>6, <2>1, <2>2 DEF Running, Selected, Candidates
  <2>3. CASE u # t
    BY <1>2, <1>4, <2>1, <2>3 DEF Running, Selected, Candidates, Type
  <2> QED BY <2>2, <2>3
<1>9. ClaimInv' BY <1>2, <1>7 DEF IInv, ClaimInv
<1>10. LockInv' BY <1>2, <1>4, <1>5 DEF IInv, LockInv, Type
<1>11. PendingInv' /\ NoDuplicates' BY <1>2 DEF IInv, PendingInv, NoDuplicates
<1>12. \A r, a : Passed(r, a) => Passed(r, a)'
  BY <1>2, <1>7 DEF Passed, Selected, Candidates
<1>13. PlaceInv'
  BY <1>2, <1>12 DEF IInv, PlaceInv, Placed, Running, Type, Selected, Candidates
<1> QED BY <1>1, <1>8, <1>9, <1>10, <1>11, <1>13 DEF IInv

\* A comparison: the cursor stays on a hit or moves to the next candidate.
LEMMA CompareHolds == ASSUME IInv, NEW t \in Threads, Compare(t) PROVE IInv'
<1> USE DEF targetVars
<1>1. TypeOK' BY TypeHolds DEF Next, ThreadStep
<1>2. /\ pc[t] = "scan" /\ Active(t) /\ pos[t] \in DOMAIN chunk[t]
      /\ UNCHANGED <<frozen, mem, mapped, changes, tidx, next_region, region, chunk, slot,
                      critical, matches>>
  BY DEF Compare, Active
<1>3. ThreadsOK BY DEF IInv, TypeOK
<1>4. \A u \in Threads : u # t => pc'[u] = pc[u] /\ pos'[u] = pos[u]
  BY <1>3 DEF Compare, ThreadsOK
<1>5. /\ pc'[t] \in {"scan", "hit"} /\ pos'[t] >= pos[t]
      /\ pc'[t] = "hit" => pos'[t] = pos[t] /\ chunk[t][pos[t]] \in Wanted[Type]
  <2>1. pos[t] \in Nat BY <1>3 DEF ThreadsOK
  <2>2. CASE chunk[t][pos[t]] \in Wanted[Type]
    BY <1>3, <2>1, <2>2 DEF Compare, ThreadsOK
  <2>3. CASE chunk[t][pos[t]] \notin Wanted[Type]
    BY <1>2, <1>3, <2>1, <2>3 DEF Compare, ThreadsOK
  <2> QED BY <2>2, <2>3
<1>6. \A u \in Threads : Active(u)' => Active(u)
  BY <1>2, <1>4 DEF Active
<1>7. ThreadInv'
  <2> SUFFICES ASSUME NEW u \in Threads, Active(u)'
      PROVE  ThreadInv!(u)!2'
      BY DEF ThreadInv
  <2>1. ThreadInv!(u)!2 BY <1>6 DEF IInv, ThreadInv
  <2>2. CASE u = t
    <3>1. /\ Running' /\ region'[t] \in 1 .. next_region' - 1
          /\ region'[t] \in 1 .. Len(Regions) /\ Selected(region'[t])
          /\ DOMAIN chunk'[t] \subseteq Candidates(region'[t])
      BY <1>2, <2>1, <2>2 DEF Running
    <3>2. pos'[t] >= Regions[region'[t]].first
      <4>1. Regions[region[t]].first \in Nat /\ pos[t] \in Nat /\ pos'[t] \in Nat
        BY <1>1, <1>3, <2>1, <2>2, ConstantFacts DEF ThreadsOK, TypeOK
      <4> QED BY <1>2, <1>5, <2>1, <2>2, <4>1
    <3>3. pc'[t] \in {"hit", "add"} =>
            pos'[t] \in DOMAIN chunk'[t] /\ chunk'[t][pos'[t]] \in Wanted[Type']
      BY <1>2, <1>5 DEF Type
    <3> QED BY <2>2, <3>1, <3>2, <3>3 DEF Selected, Candidates, Type
  <2>3. CASE u # t
    BY <1>2, <1>4, <2>1, <2>3 DEF Running, Selected, Candidates, Type
  <2> QED BY <2>2, <2>3
<1>8. ClaimInv' BY <1>2, <1>6 DEF IInv, ClaimInv
<1>9. LockInv' BY <1>2, <1>4, <1>5 DEF IInv, LockInv, Type
<1>10. PendingInv' /\ NoDuplicates' BY <1>2 DEF IInv, PendingInv, NoDuplicates
<1>11. \A r, a : Passed(r, a) => Passed(r, a)'
  <2> SUFFICES ASSUME NEW r, NEW a, Passed(r, a) PROVE Passed(r, a)'
      OBVIOUS
  <2>1. a \in Nat BY ConstantFacts DEF Passed
  <2>2. \A u \in Threads : pos[u] \in Nat /\ pos'[u] \in Nat
    BY <1>1, <1>3 DEF TypeOK, ThreadsOK
  <2>3. \A u \in Threads : pos'[u] >= pos[u] BY <1>4, <1>5, <2>2
  <2> QED BY <1>2, <1>6, <2>1, <2>2, <2>3 DEF Passed, Selected, Candidates
<1>12. PlaceInv'
  BY <1>2, <1>11 DEF IInv, PlaceInv, Placed, Running, Type, Selected, Candidates
<1> QED BY <1>1, <1>7, <1>8, <1>9, <1>10, <1>12 DEF IInv

LEMMA EnterHolds == ASSUME IInv, NEW t \in Threads, EnterCritical(t) PROVE IInv'
<1> USE DEF targetVars
<1>1. TypeOK' BY TypeHolds DEF Next, ThreadStep
<1>2. /\ pc[t] = "hit" /\ Active(t) /\ critical = Nobody /\ critical' = t
      /\ UNCHANGED <<frozen, mem, mapped, changes, tidx, next_region, region, pos, chunk, matches>>
  BY DEF EnterCritical, Active
<1>3. ThreadsOK BY DEF IInv, TypeOK
<1>4. /\ pc'[t] = "add" /\ slot'[t] = Len(matches[Type])
      /\ \A u \in Threads : u # t => pc'[u] = pc[u] /\ slot'[u] = slot[u]
  BY <1>3 DEF EnterCritical, ThreadsOK
<1>5. \A u \in Threads : Active(u)' <=> Active(u)
  BY <1>2, <1>4 DEF Active
<1>6. ThreadInv'
  BY <1>2, <1>4, <1>5 DEF IInv, ThreadInv, Running, Selected, Candidates, Type
<1>7. ClaimInv' BY <1>2, <1>5 DEF IInv, ClaimInv
<1>8. LockInv'
  <2> SUFFICES ASSUME NEW u \in Threads
      PROVE  /\ pc'[u] = "add" <=> critical' = u
             /\ pc'[u] = "add" => slot'[u] = Len(matches'[Type'])
      BY DEF LockInv
  <2>1. pc[u] # "add" BY <1>2, ConstantFacts DEF IInv, LockInv
  <2> QED BY <1>2, <1>4, <2>1 DEF Type
<1>9. PendingInv' /\ NoDuplicates' BY <1>2 DEF IInv, PendingInv, NoDuplicates
<1>10. \A r, a : Passed(r, a) => Passed(r, a)'
  BY <1>2, <1>5 DEF Passed, Selected, Candidates
<1>11. PlaceInv'
  BY <1>2, <1>10 DEF IInv, PlaceInv, Placed, Running, Type, Selected, Candidates
<1> QED BY <1>1, <1>6, <1>7, <1>8, <1>9, <1>11 DEF IInv

\* Adding a match: it lies ahead of everything listed for its region so far.
LEMMA AddHolds == ASSUME IInv, NEW t \in Threads, AddMatch(t) PROVE IInv'
<1> USE DEF targetVars
<1> DEFINE m == [addr |-> pos[t], value |-> chunk[t][pos[t]]]
           old == matches[Type]
<1>1. TypeOK' BY TypeHolds DEF Next, ThreadStep
<1>2. /\ pc[t] = "add" /\ Active(t) /\ critical' = Nobody
      /\ UNCHANGED <<frozen, mem, mapped, changes, tidx, next_region, region, chunk, slot>>
  BY DEF AddMatch, Active
<1>3. ThreadsOK /\ matches \in [TypeSet -> Seq(Match)] BY DEF IInv, TypeOK
<1>4. /\ pc'[t] = "scan" /\ pos'[t] = pos[t] + 1 /\ pos[t] \in Nat
      /\ \A u \in Threads : u # t => pc'[u] = pc[u] /\ pos'[u] = pos[u]
  BY <1>3 DEF AddMatch, ThreadsOK
<1>5. /\ Type \in TypeSet /\ tidx \in 1 .. Len(Types) /\ m \in Match
      /\ matches' = [matches EXCEPT ![Type] = Append(old, m)]
  BY AddAppends
<1>6. /\ Running /\ region[t] \in 1 .. next_region - 1 /\ region[t] \in 1 .. Len(Regions)
      /\ Selected(region[t]) /\ pos[t] \in Candidates(region[t])
      /\ m.addr = pos[t] /\ m.value \in Wanted[Type]
  BY <1>2 DEF IInv, ThreadInv
<1>7. \A u \in Threads : Active(u)' <=> Active(u)
  BY <1>2, <1>4 DEF Active
<1> HIDE DEF m
<1>8. old \in Seq(Match) /\ Len(old) \in Nat /\ Type' = Type BY <1>2, <1>3, <1>5 DEF Type
<1> HIDE DEF old
<1>9. /\ matches'[Type] = Append(old, m)
      /\ Len(matches'[Type]) = Len(old) + 1 /\ matches'[Type][Len(old) + 1] = m
      /\ \A i \in 1 .. Len(old) : matches'[Type][i] = old[i]
      /\ \A x \in TypeSet : x # Type => matches'[x] = matches[x]
  BY <1>3, <1>5, <1>8
<1>10. ThreadInv'
  <2> SUFFICES ASSUME NEW u \in Threads, Active(u)'
      PROVE  ThreadInv!(u)!2'
      BY DEF ThreadInv
  <2>1. ThreadInv!(u)!2 BY <1>7 DEF IInv, ThreadInv
  <2>2. Regions[region[u]].first \in Nat BY <2>1, ConstantFacts
  <2> QED
    BY <1>2, <1>4, <1>8, <2>1, <2>2 DEF Running, Selected, Candidates
<1>11. ClaimInv' BY <1>2, <1>7 DEF IInv, ClaimInv
<1>12. LockInv'
  <2>1. \A u \in Threads : pc'[u] # "add"
    BY <1>2, <1>4 DEF IInv, LockInv
  <2> QED BY <1>2, <2>1, ConstantFacts DEF LockInv
<1>13. PendingInv'
  <2> SUFFICES ASSUME NEW k \in tidx + 1 .. Len(Types) PROVE matches'[Types[k]] = <<>>
      BY <1>2 DEF PendingInv
  <2>1. k \in 1 .. Len(Types) /\ k # tidx /\ Types[k] \in TypeSet
    BY <1>5, ConstantFacts
  <2>2. Types[k] # Type BY <1>5, <2>1, ScanAssumption DEF Type
  <2> QED BY <1>9, <2>1, <2>2 DEF IInv, PendingInv
<1>14. \A r, a : Passed(r, a) => Passed(r, a)'
  <2> SUFFICES ASSUME NEW r, NEW a, Passed(r, a) PROVE Passed(r, a)'
      OBVIOUS
  <2>1. a \in Nat BY ConstantFacts DEF Passed
  <2> QED BY <1>2, <1>4, <1>7, <2>1 DEF Passed, Selected, Candidates
<1>15. \A r, a : r = region[t] /\ a = pos[t] => Passed(r, a)'
  <2> SUFFICES ASSUME NEW r, NEW a, r = region[t], a = pos[t] PROVE Passed(r, a)'
      OBVIOUS
  <2>1. \A u \in Threads : Active(u) /\ region[u] = region[t] => u = t
    BY <1>2 DEF IInv, ClaimInv
  <2>2. /\ r \in 1 .. next_region' - 1 /\ r \in 1 .. Len(Regions)
        /\ Selected(r) /\ a \in Candidates(r)
    BY <1>2, <1>6
  <2>3. \A u \in Threads : Active(u)' /\ region'[u] = r => a < pos'[u]
    BY <1>2, <1>4, <1>7, <2>1
  <2> QED BY <2>2, <2>3 DEF Passed, Selected, Candidates
<1>16. PlaceInv'
  <2> SUFFICES ASSUME NEW x \in TypeSet, NEW i \in 1 .. Len(matches'[x]),
                      NEW mm, mm = matches'[x][i]
      PROVE  Placed(x, mm)'
      BY DEF PlaceInv, Placed
  <2>0. Running' <=> Running
    BY <1>2 DEF Running
  <2>1. CASE x # Type
    <3>1. Placed(x, mm) BY <1>9, <2>1 DEF IInv, PlaceInv
    <3> QED BY <1>8, <2>1, <3>1 DEF Placed, Selected, Candidates
  <2>2. CASE x = Type /\ i \in 1 .. Len(old)
    <3>1. Placed(x, mm) BY <1>9, <2>2 DEF IInv, PlaceInv, old
    <3> QED BY <1>8, <1>14, <2>0, <3>1 DEF Placed, Selected, Candidates
  <2>3. CASE x = Type /\ i = Len(old) + 1
    <3>1. mm = m BY <1>9, <2>3
    <3>2. PICK r : r = region[t] OBVIOUS
    <3>3. PICK a : a = pos[t] OBVIOUS
    <3>4. Passed(r, a)' BY <1>15, <3>2, <3>3
    <3>5. mm.addr = a /\ mm.value \in Wanted[x] BY <1>6, <2>3, <3>1, <3>3
    <3> QED BY <1>6, <1>8, <3>2, <3>3, <3>4, <3>5 DEF Placed, Selected, Candidates
  <2> QED BY <1>8, <1>9, <2>1, <2>2, <2>3
<1>17. \A i \in 1 .. Len(old) : old[i].addr # pos[t]
  <2> SUFFICES ASSUME NEW i \in 1 .. Len(old), old[i].addr = pos[t] PROVE FALSE
      OBVIOUS
  <2>1. Placed(Type, old[i]) BY <1>5 DEF IInv, PlaceInv, old
  <2>2. PICK r \in 1 .. Len(Regions) : pos[t] \in Candidates(r) /\ Passed(r, pos[t])
    BY <1>6, <2>1 DEF Placed
  <2>3. r = region[t] BY <1>6, <2>2, RegionsAssumption
  <2> QED BY <1>2, <1>4, <2>2, <2>3 DEF Passed
<1>18. NoDuplicates'
  <2> SUFFICES ASSUME NEW x \in TypeSet, NEW i \in 1 .. Len(matches'[x]),
                      NEW j \in 1 .. Len(matches'[x]),
                      matches'[x][i].addr = matches'[x][j].addr
      PROVE  i = j
      BY DEF NoDuplicates
  <2>1. CASE x # Type BY <1>9, <2>1 DEF IInv, NoDuplicates
  <2>2. CASE x = Type
    <3>1. \A k \in 1 .. Len(matches'[x]) : k \in 1 .. Len(old) \/ k = Len(old) + 1
      BY <1>8, <1>9, <2>2
    <3>2. CASE i \in 1 .. Len(old) /\ j \in 1 .. Len(old)
      BY <1>9, <2>2, <3>2 DEF IInv, NoDuplicates, old
    <3>3. CASE i = Len(old) + 1 /\ j = Len(old) + 1 BY <3>3
    <3>4. CASE i = Len(old) + 1 /\ j \in 1 .. Len(old)
      BY <1>6, <1>9, <1>17, <2>2, <3>4
    <3>5. CASE i \in 1 .. Len(old) /\ j = Len(old) + 1
      BY <1>6, <1>9, <1>17, <2>2, <3>5
    <3> QED BY <3>1, <3>2, <3>3, <3>4, <3>5
  <2> QED BY <2>1, <2>2
<1> QED BY <1>1, <1>10, <1>11, <1>12, <1>13, <1>16, <1>18 DEF IInv

LEMMA NextTypeHolds == IInv /\ NextType => IInv'
<1> SUFFICES ASSUME IInv, NextType PROVE IInv'
    OBVIOUS
<1> USE DEF targetVars, threadVars
<1>1. TypeOK' BY TypeHolds DEF Next
<1>2. /\ UNCHANGED <<pc, region, pos, chunk, slot, critical, matches>>
      /\ \A t \in Threads : pc[t] = "idle"
      /\ tidx' = tidx + 1 /\ tidx \in 1 .. Len(Types) /\ Len(Types) \in Nat
  BY ConstantFacts DEF NextType, IInv, TypeOK, LoopsOK
<1>3. ThreadInv' /\ ClaimInv' BY <1>2 DEF ThreadInv, ClaimInv, Active
<1>4. LockInv' BY <1>2 DEF IInv, LockInv
<1>5. PendingInv' BY <1>2 DEF IInv, PendingInv
<1>6. NoDuplicates' BY <1>2 DEF IInv, NoDuplicates
<1>7. PlaceInv'
  <2> SUFFICES ASSUME NEW x \in TypeSet, NEW i \in 1 .. Len(matches[x])
      PROVE  Placed(x, matches[x][i])'
      BY <1>2 DEF PlaceInv
  <2>1. Placed(x, matches[x][i]) BY DEF IInv, PlaceInv
  <2>2. ~(Running' /\ x = Type')
    <3> SUFFICES ASSUME Running', x = Type' PROVE FALSE
        OBVIOUS
    <3>1. tidx' \in tidx + 1 .. Len(Types) BY <1>2 DEF Running
    <3>2. matches[x] = <<>> BY <3>1 DEF IInv, PendingInv, Type
    <3> QED BY <3>2
  <2> QED BY <1>2, <2>1, <2>2 DEF Placed, Selected, Candidates
<1> QED BY <1>1, <1>3, <1>4, <1>5, <1>6, <1>7 DEF IInv

LEMMA NextHolds == IInv /\ [Next]_vars => IInv'
<1> SUFFICES ASSUME IInv, [Next]_vars PROVE IInv'
    OBVIOUS
<1>1. ASSUME NEW t \in Threads, ThreadStep(t) PROVE IInv'
  BY <1>1, ClaimHolds, ReadHolds, CompareHolds, EnterHolds, AddHolds DEF ThreadStep
<1>2. CASE NextType BY <1>2, NextTypeHolds
<1>3. CASE TargetRuns \/ UNCHANGED vars
  <2>1. TypeOK' BY TypeHolds
  <2>2. UNCHANGED <<tidx, next_region, pc, region, pos, chunk, slot, critical, matches>>
    BY <1>3 DEF TargetRuns, vars, threadVars
  <2>3. \A r, a : Passed(r, a) => Passed(r, a)'
    BY <2>2 DEF Passed, Active, Selected, Candidates
  <2>4. ThreadInv' /\ ClaimInv' /\ LockInv' /\ PendingInv' /\ NoDuplicates'
    BY <2>2 DEF IInv, ThreadInv, ClaimInv, LockInv, PendingInv, NoDuplicates, Active, Running,
                Selected, Candidates, Type
  <2>5. PlaceInv'
    BY <2>2, <2>3 DEF IInv, PlaceInv, Placed, Running, Type, Selected, Candidates
  <2> QED BY <2>1, <2>4, <2>5 DEF IInv
<1> QED BY <1>1, <1>2, <1>3 DEF Next

LEMMA Invariance == Spec => []IInv
<1> QED BY InitHolds, NextHolds, PTL DEF Spec

(***************************************************************************)
(* The variables of Session::scan and of its threads keep their types.     *)
(***************************************************************************)
THEOREM TypeCorrect == Spec => []TypeOK
<1>1. IInv => TypeOK BY DEF IInv
<1> QED BY <1>1, Invariance, PTL

(***************************************************************************)
(* However the threads interleave and whatever the target does, no address *)
(* is listed twice for a type: the schedule hands a region to one thread,  *)
(* and a candidate that was added lies behind the thread's cursor.         *)
(***************************************************************************)
THEOREM NoAddressTwice == Spec => []NoDuplicates
<1>1. IInv => NoDuplicates BY DEF IInv
<1> QED BY <1>1, Invariance, PTL

(***************************************************************************)
(* Every listed value is one the comparator of its own type accepted, in a *)
(* region that the prot mask and --exclude-file let through.               *)
(***************************************************************************)
THEOREM OnlyWanted == Spec => []MatchesWanted
<1>1. IInv => MatchesWanted BY DEF IInv, PlaceInv, Placed, MatchesWanted
<1> QED BY <1>1, Invariance, PTL

(***************************************************************************)
(* A scan never loses a match: the size emplace_back looked up is still    *)
(* the size of the list when the match is stored.                          *)
(***************************************************************************)
THEOREM ScanOnlyAppends == Spec => OnlyAppends
<1> DEFINE Grows ==
      \A x \in TypeSet : /\ Len(matches[x]) <= Len(matches'[x])
                         /\ SubSeq(matches'[x], 1, Len(matches[x])) = matches[x]
<1>1. IInv /\ [Next]_vars => [Grows]_vars
  <2> SUFFICES ASSUME IInv, [Next]_vars PROVE Grows \/ UNCHANGED vars
      OBVIOUS
  <2>0. matches \in [TypeSet -> Seq(Match)] BY DEF IInv, TypeOK
  <2>1. ASSUME matches' = matches PROVE Grows
    <3> SUFFICES ASSUME NEW x \in TypeSet
        PROVE  /\ Len(matches[x]) <= Len(matches'[x])
               /\ SubSeq(matches'[x], 1, Len(matches[x])) = matches[x]
        OBVIOUS
    <3>1. matches[x] \in Seq(Match) /\ Len(matches[x]) \in Nat BY <2>0
    <3> QED BY <2>1, <3>1, SubSeqFull
  <2>2. ASSUME NEW t \in Threads, AddMatch(t) PROVE Grows
    <3> SUFFICES ASSUME NEW x \in TypeSet
        PROVE  /\ Len(matches[x]) <= Len(matches'[x])
               /\ SubSeq(matches'[x], 1, Len(matches[x])) = matches[x]
        OBVIOUS
    <3> DEFINE m == [addr |-> pos[t], value |-> chunk[t][pos[t]]]
    <3>1. /\ Type \in TypeSet /\ m \in Match
          /\ matches' = [matches EXCEPT ![Type] = Append(@, m)]
      BY <2>2, AddAppends
    <3> HIDE DEF m
    <3>2. matches[x] \in Seq(Match) /\ Len(matches[x]) \in Nat BY <2>0
    <3>3. CASE x = Type
      <4>1. matches'[x] = Append(matches[x], m) BY <2>0, <3>1, <3>3
      <4>2. /\ Len(matches'[x]) = Len(matches[x]) + 1 /\ matches'[x] \in Seq(Match)
            /\ \A i \in 1 .. Len(matches[x]) : matches'[x][i] = matches[x][i]
        BY <3>1, <3>2, <4>1
      <4> QED BY <3>2, <4>2
    <3>4. CASE x # Type
      BY <2>0, <3>1, <3>2, <3>4, SubSeqFull
    <3> QED BY <3>3, <3>4
  <2>3. \/ \E t \in Threads : AddMatch(t)
        \/ matches' = matches
    BY DEF Next, ThreadStep, Claim, ReadChunk, ReadFails, EndRegion, Compare, EnterCritical,
           NextType, TargetRuns, vars
  <2> QED BY <2>1, <2>2, <2>3
<1> QED BY <1>1, Invariance, PTL DEF Spec, OnlyAppends

-------------------------------------------------------------------------------
(***************************************************************************)
(* The scan of a stopped target is exact: soundness and completeness of    *)
(* the match lists, on top of the invariant above.                         *)
(***************************************************************************)
Start(t) == Regions[region[t]].first

\* A thread holds what the target holds, and everything behind it was readable.
ChunkExact ==
  \A t \in Threads : Active(t) =>
    /\ \A a \in DOMAIN chunk[t] : chunk[t][a] = mem[a] /\ Start(t) .. a \subseteq mapped
    /\ \A a \in Start(t) .. pos[t] - 1 : Start(t) .. a \subseteq mapped

\* A match is a value of the target at an address a scan can reach.
Genuine(m) ==
  /\ m.addr \in Addresses /\ m.value = mem[m.addr]
  /\ \E r \in 1 .. Len(Regions) : m.addr \in Reached(r)

Sound == \A x \in TypeSet : \A i \in 1 .. Len(matches[x]) : Genuine(matches[x][i])

Listed(x, a) == \E i \in 1 .. Len(matches[x]) : matches[x][i].addr = a

\* Nothing behind the threads was overlooked, for the current type ...
CurrentComplete ==
  \A r \in 1 .. Len(Regions) : \A a \in Reached(r) :
    Running /\ Passed(r, a) /\ mem[a] \in Wanted[Type] => Listed(Type, a)

\* ... and nothing at all for the types that are finished.
EarlierComplete ==
  \A k \in 1 .. tidx - 1 : k \in 1 .. Len(Types) =>
    \A r \in 1 .. Len(Regions) : \A a \in Reached(r) :
      mem[a] \in Wanted[Types[k]] => Listed(Types[k], a)

ExactInv == frozen => ChunkExact /\ Sound /\ CurrentComplete /\ EarlierComplete

-------------------------------------------------------------------------------
LEMMA ExactInit == Init => ExactInv
<1> SUFFICES ASSUME Init PROVE ExactInv
    OBVIOUS
<1>1. ChunkExact BY DEF Init, ChunkExact, Active
<1>2. Sound
  <2>1. \A x \in TypeSet : 1 .. Len(matches[x]) = {} BY DEF Init
  <2> QED BY <2>1 DEF Sound
<1>3. CurrentComplete BY DEF Init, CurrentComplete, Passed
<1>4. EarlierComplete BY DEF Init, EarlierComplete
<1> QED BY <1>1, <1>2, <1>3, <1>4 DEF ExactInv

\* A step of a stopped target's scan that adds no match: it is enough that the
\* buffers stay exact and that nothing wanted is passed over.
LEMMA QuietStep ==
  ASSUME IInv, ExactInv, frozen, frozen' = frozen, ChunkExact',
         UNCHANGED <<mem, mapped, tidx, matches>>,
         \A r \in 1 .. Len(Regions) : \A a \in Reached(r) :
           Running /\ Passed(r, a)' /\ mem[a] \in Wanted[Type] => Passed(r, a)
  PROVE  ExactInv'
<1>1. \A r : Reached(r)' = Reached(r) BY DEF Reached, Candidates, Selected
<1>2. Sound' BY <1>1 DEF ExactInv, Sound, Genuine
<1>3. CurrentComplete'
  BY <1>1 DEF ExactInv, CurrentComplete, Running, Type, Listed
<1>4. EarlierComplete' BY <1>1 DEF ExactInv, EarlierComplete, Listed
<1> QED BY <1>2, <1>3, <1>4 DEF ExactInv

\* A region that is claimed starts with an empty buffer and nothing behind.
LEMMA ClaimExact ==
  ASSUME IInv, ExactInv, frozen, NEW t \in Threads, Claim(t) PROVE ExactInv'
<1> USE DEF targetVars
<1>1. /\ next_region \in 1 .. Len(Regions) /\ Len(Regions) \in Nat
      /\ next_region' = next_region + 1 /\ pc[t] = "idle"
      /\ UNCHANGED <<frozen, mem, mapped, changes, tidx, slot, critical, matches>>
  BY ConstantFacts DEF Claim, IInv, TypeOK, LoopsOK
<1>2. ThreadsOK BY DEF IInv, TypeOK
<1>3. \A u \in Threads : u # t =>
        pc'[u] = pc[u] /\ region'[u] = region[u] /\ pos'[u] = pos[u] /\ chunk'[u] = chunk[u]
  BY <1>2 DEF Claim, ThreadsOK
<1>4. \/ /\ Selected(next_region) /\ pc'[t] = "scan" /\ region'[t] = next_region
         /\ pos'[t] = Regions[next_region].first /\ chunk'[t] = NoChunk
      \/ ~Selected(next_region) /\ pc'[t] = "idle"
  BY <1>1, <1>2 DEF Claim, ThreadsOK
<1>5. Regions[next_region].first \in Nat BY <1>1, ConstantFacts
<1>6. ChunkExact'
  <2> SUFFICES ASSUME NEW u \in Threads, Active(u)' PROVE ChunkExact!(u)!2'
      BY DEF ChunkExact
  <2>1. CASE u = t
    <3>1. region'[t] = next_region /\ pos'[t] = Regions[next_region].first /\ chunk'[t] = NoChunk
      BY <1>4, <2>1 DEF Active
    <3>2. DOMAIN NoChunk = {} BY DEF NoChunk
    <3>3. Start(t)' .. pos'[t] - 1 = {} BY <1>5, <3>1 DEF Start
    <3> QED BY <2>1, <3>1, <3>2, <3>3
  <2>2. CASE u # t
    <3>1. ChunkExact!(u)!2 BY <1>3, <2>2 DEF ExactInv, ChunkExact, Active
    <3>2. Start(u)' = Start(u) BY <1>3, <2>2 DEF Start
    <3> QED BY <1>1, <1>3, <2>2, <3>1, <3>2
  <2> QED BY <2>1, <2>2
<1>7. \A r \in 1 .. Len(Regions) : \A a \in Reached(r) : Passed(r, a)' => Passed(r, a)
  <2> SUFFICES ASSUME NEW r \in 1 .. Len(Regions), NEW a \in Reached(r), Passed(r, a)'
      PROVE  Passed(r, a)
      OBVIOUS
  <2>1. Selected(r) /\ a \in Candidates(r) BY DEF Reached
  <2>2. r # next_region
    <3> SUFFICES ASSUME r = next_region PROVE FALSE
        OBVIOUS
    <3>1. pc'[t] = "scan" /\ region'[t] = r /\ pos'[t] = Regions[r].first
      BY <1>4, <2>1
    <3>2. a < pos'[t] BY <3>1 DEF Passed, Active
    <3>3. a >= Regions[r].first BY <2>1 DEF Candidates
    <3>4. a \in Nat /\ pos'[t] \in Nat BY <1>5, <2>1, <3>1, ConstantFacts
    <3> QED BY <3>1, <3>2, <3>3, <3>4
  <2>3. r \in 1 .. next_region - 1 BY <1>1, <2>2 DEF Passed
  <2>4. \A u \in Threads : Active(u) /\ region[u] = r => a < pos[u]
    BY <1>1, <1>3 DEF Passed, Active
  <2> QED BY <2>1, <2>3, <2>4 DEF Passed
<1> QED BY <1>1, <1>6, <1>7, QuietStep

\* A chunk holds what the target holds.
LEMMA ReadExact ==
  ASSUME IInv, ExactInv, frozen, NEW t \in Threads, ReadChunk(t) PROVE ExactInv'
<1> USE DEF targetVars
<1>1. /\ pc[t] = "scan" /\ Active(t)
      /\ UNCHANGED <<frozen, mem, mapped, changes, tidx, next_region, pc, region, pos, slot,
                      critical, matches>>
  BY DEF ReadChunk, NeedsChunk, Active
<1>2. ThreadsOK BY DEF IInv, TypeOK
<1>3. /\ chunk'[t] = [a \in Readable(region[t], pos[t]) |-> mem[a]]
      /\ \A u \in Threads : u # t => chunk'[u] = chunk[u]
  BY <1>2 DEF ReadChunk, ThreadsOK
<1>4. Start(t) \in Nat /\ pos[t] \in Nat /\ region[t] \in 1 .. Len(Regions)
  BY <1>1, <1>2, ConstantFacts DEF IInv, ThreadInv, ThreadsOK, Start
<1>5. ChunkExact'
  <2> SUFFICES ASSUME NEW u \in Threads, Active(u)' PROVE ChunkExact!(u)!2'
      BY DEF ChunkExact
  <2>0. ChunkExact!(u)!2 BY <1>1 DEF ExactInv, ChunkExact, Active
  <2>1. Start(u)' = Start(u) BY <1>1 DEF Start
  <2>2. CASE u = t
    <3> SUFFICES ASSUME NEW a \in Readable(region[t], pos[t])
        PROVE  Start(t) .. a \subseteq mapped
        BY <1>1, <1>3, <2>0, <2>1, <2>2
    <3>1. a \in Nat /\ a >= pos[t] /\ pos[t] .. a \subseteq mapped
      BY <1>4, ConstantFacts DEF Readable
    <3> SUFFICES ASSUME NEW b \in Start(t) .. a PROVE b \in mapped
        OBVIOUS
    <3>2. CASE b >= pos[t] BY <1>4, <3>1, <3>2
    <3>3. CASE b < pos[t]
      <4>1. b \in Start(t) .. pos[t] - 1 /\ b \in Start(t) .. b BY <1>4, <3>1, <3>3
      <4> QED BY <2>0, <2>2, <4>1
    <3> QED BY <1>4, <3>1, <3>2, <3>3
  <2>3. CASE u # t BY <1>1, <1>3, <2>0, <2>1, <2>3
  <2> QED BY <2>2, <2>3
<1>6. \A r, a : Passed(r, a)' => Passed(r, a)
  BY <1>1 DEF Passed, Active, Selected, Candidates
<1> QED BY <1>1, <1>5, <1>6, QuietStep

\* A region is given up at an address that no scan can reach, or at its end.
LEMMA LeaveExact ==
  ASSUME IInv, ExactInv, frozen, NEW t \in Threads, ReadFails(t) \/ EndRegion(t)
  PROVE  ExactInv'
<1> USE DEF targetVars
<1>1. /\ pc[t] = "scan" /\ Active(t)
      /\ UNCHANGED <<frozen, mem, mapped, changes, tidx, next_region, region, pos, chunk, slot,
                      critical, matches>>
  BY DEF ReadFails, EndRegion, NeedsChunk, Active
<1>2. ThreadsOK BY DEF IInv, TypeOK
<1>3. pc'[t] = "idle" /\ \A u \in Threads : u # t => pc'[u] = pc[u]
  BY <1>2 DEF ReadFails, EndRegion, ThreadsOK
<1>4. /\ pos[t] \in Nat /\ region[t] \in 1 .. Len(Regions) /\ pos[t] >= Start(t)
      /\ Start(t) \in Nat /\ Regions[region[t]].end \in Nat
  BY <1>1, <1>2, ConstantFacts DEF IInv, ThreadInv, ThreadsOK, Start
<1>5. ChunkExact'
  BY <1>1, <1>3 DEF ExactInv, ChunkExact, Active, Start
<1>6. \A a \in Reached(region[t]) : a < pos[t]
  <2> SUFFICES ASSUME NEW a \in Reached(region[t]), ~(a < pos[t]) PROVE FALSE
      OBVIOUS
  <2>1. a \in Nat /\ a < Regions[region[t]].end /\ Start(t) .. a \subseteq mapped
    BY <1>4, ConstantFacts DEF Reached, Candidates, Start
  <2>2. pos[t] < Regions[region[t]].end /\ pos[t] \in mapped
    BY <1>4, <2>1
  <2>3. ReadFails(t)
    <3>1. EndRegion(t) => pos[t] >= Regions[region[t]].end BY DEF EndRegion
    <3>2. ~(pos[t] >= Regions[region[t]].end) BY <1>4, <2>2
    <3> QED BY <3>1, <3>2
  <2>4. pos[t] \in Readable(region[t], pos[t])
    <3>1. pos[t] \in Candidates(region[t]) BY <1>4, <2>2 DEF Candidates, Start
    <3>2. pos[t] .. pos[t] = {pos[t]} BY <1>4
    <3>3. pos[t] < pos[t] + Chunk BY <1>4, ConstantFacts
    <3> QED BY <1>4, <2>2, <3>1, <3>2, <3>3 DEF Readable
  <2> QED BY <2>3, <2>4 DEF ReadFails
<1>7. \A r \in 1 .. Len(Regions) : \A a \in Reached(r) : Passed(r, a)' => Passed(r, a)
  BY <1>1, <1>3, <1>6 DEF Passed, Active, Selected, Candidates
<1> QED BY <1>1, <1>5, <1>7, QuietStep

\* What is passed over in a comparison is not wanted.
LEMMA CompareExact ==
  ASSUME IInv, ExactInv, frozen, NEW t \in Threads, Compare(t) PROVE ExactInv'
<1> USE DEF targetVars
<1>1. /\ pc[t] = "scan" /\ Active(t) /\ pos[t] \in DOMAIN chunk[t]
      /\ UNCHANGED <<frozen, mem, mapped, changes, tidx, next_region, region, chunk, slot,
                      critical, matches>>
  BY DEF Compare, Active
<1>2. ThreadsOK BY DEF IInv, TypeOK
<1>3. /\ pc'[t] # "idle" /\ pos[t] \in Nat
      /\ \A u \in Threads : u # t => pc'[u] = pc[u] /\ pos'[u] = pos[u]
      /\ \/ pos'[t] = pos[t]
         \/ pos'[t] = pos[t] + 1 /\ chunk[t][pos[t]] \notin Wanted[Type]
  BY <1>2 DEF Compare, ThreadsOK
<1>4. ChunkExact!(t)!2 BY <1>1 DEF ExactInv, ChunkExact
<1>5. Start(t) \in Nat BY <1>1, ConstantFacts DEF IInv, ThreadInv, Start
<1>6. ChunkExact'
  <2> SUFFICES ASSUME NEW u \in Threads, Active(u)' PROVE ChunkExact!(u)!2'
      BY DEF ChunkExact
  <2>1. CASE u = t
    <3>1. \A a \in Start(t) .. pos'[t] - 1 :
            a \in Start(t) .. pos[t] - 1 \/ a = pos[t]
      BY <1>3, <1>5
    <3>2. \A a \in Start(t) .. pos'[t] - 1 : Start(t) .. a \subseteq mapped
      BY <1>1, <1>4, <3>1
    <3> QED BY <1>1, <1>4, <2>1, <3>2 DEF Start
  <2>2. CASE u # t
    BY <1>1, <1>3, <2>2 DEF ExactInv, ChunkExact, Active, Start
  <2> QED BY <2>1, <2>2
<1>7. \A r \in 1 .. Len(Regions) : \A a \in Reached(r) :
        Running /\ Passed(r, a)' /\ mem[a] \in Wanted[Type] => Passed(r, a)
  <2> SUFFICES ASSUME NEW r \in 1 .. Len(Regions), NEW a \in Reached(r), Passed(r, a)',
                      mem[a] \in Wanted[Type]
      PROVE  Passed(r, a)
      OBVIOUS
  <2>1. r \in 1 .. next_region - 1 /\ Selected(r) /\ a \in Candidates(r) /\ a \in Nat
    BY <1>1, ConstantFacts DEF Passed, Reached
  <2>2. ASSUME NEW u \in Threads, Active(u), region[u] = r PROVE a < pos[u]
    <3>1. a < pos'[u] BY <1>1, <1>3, <2>2 DEF Passed, Active
    <3>2. CASE u # t \/ pos'[t] = pos[t] BY <1>3, <3>1, <3>2
    <3>3. CASE u = t /\ pos'[t] = pos[t] + 1 /\ chunk[t][pos[t]] \notin Wanted[Type]
      <4>1. a # pos[t] BY <1>1, <1>4, <3>3
      <4> QED BY <1>3, <2>1, <3>1, <3>3, <4>1
    <3> QED BY <1>3, <3>2, <3>3
  <2> QED BY <2>1, <2>2 DEF Passed
<1> QED BY <1>1, <1>6, <1>7, QuietStep

\* The match that is added is the candidate the cursor leaves behind.
LEMMA AddExact ==
  ASSUME IInv, ExactInv, frozen, NEW t \in Threads, AddMatch(t) PROVE ExactInv'
<1> USE DEF targetVars
<1> DEFINE m == [addr |-> pos[t], value |-> chunk[t][pos[t]]]
           old == matches[Type]
<1>1. /\ pc[t] = "add" /\ Active(t)
      /\ UNCHANGED <<frozen, mem, mapped, changes, tidx, next_region, region, chunk, slot>>
  BY DEF AddMatch, Active
<1>2. ThreadsOK /\ matches \in [TypeSet -> Seq(Match)] BY DEF IInv, TypeOK
<1>3. /\ pc'[t] = "scan" /\ pos'[t] = pos[t] + 1 /\ pos[t] \in Nat
      /\ \A u \in Threads : u # t => pc'[u] = pc[u] /\ pos'[u] = pos[u]
  BY <1>2 DEF AddMatch, ThreadsOK
<1>4. /\ Type \in TypeSet /\ tidx \in 1 .. Len(Types) /\ m \in Match
      /\ matches' = [matches EXCEPT ![Type] = Append(old, m)]
  BY AddAppends
<1>5. /\ region[t] \in 1 .. Len(Regions) /\ pos[t] \in DOMAIN chunk[t] /\ Selected(region[t])
      /\ pos[t] \in Candidates(region[t]) /\ pos[t] \in Addresses
  BY <1>1, ConstantFacts DEF IInv, ThreadInv
<1>6. ChunkExact!(t)!2 BY <1>1 DEF ExactInv, ChunkExact
<1>7. Start(t) \in Nat BY <1>5, ConstantFacts DEF Start
<1>8. Genuine(m) /\ m.addr = pos[t]
  <2>1. pos[t] \in Reached(region[t]) BY <1>5, <1>6 DEF Reached, Start
  <2>2. chunk[t][pos[t]] = mem[pos[t]] BY <1>5, <1>6
  <2> QED BY <1>5, <2>1, <2>2 DEF Genuine
<1> HIDE DEF m
<1>9. old \in Seq(Match) /\ Len(old) \in Nat BY <1>2, <1>4
<1> HIDE DEF old
<1>10. /\ Type' = Type /\ matches'[Type] = Append(old, m)
       /\ Len(matches'[Type]) = Len(old) + 1 /\ matches'[Type][Len(old) + 1] = m
       /\ \A i \in 1 .. Len(old) : matches'[Type][i] = old[i]
       /\ \A x \in TypeSet : x # Type => matches'[x] = matches[x]
  BY <1>1, <1>2, <1>4, <1>9 DEF Type
<1>11. \A r : Reached(r)' = Reached(r)
  BY <1>1 DEF Reached, Candidates, Selected
<1>12. ChunkExact'
  <2> SUFFICES ASSUME NEW u \in Threads, Active(u)' PROVE ChunkExact!(u)!2'
      BY DEF ChunkExact
  <2>1. CASE u = t
    <3>1. \A a \in Start(t) .. pos'[t] - 1 : a \in Start(t) .. pos[t] - 1 \/ a = pos[t]
      BY <1>3, <1>7
    <3>2. \A a \in Start(t) .. pos'[t] - 1 : Start(t) .. a \subseteq mapped
      BY <1>5, <1>6, <3>1
    <3> QED BY <1>1, <1>6, <2>1, <3>2 DEF Start
  <2>2. CASE u # t
    BY <1>1, <1>3, <2>2 DEF ExactInv, ChunkExact, Active, Start
  <2> QED BY <2>1, <2>2
<1>13. Sound'
  <2> SUFFICES ASSUME NEW x \in TypeSet, NEW i \in 1 .. Len(matches'[x]),
                      NEW mm, mm = matches'[x][i]
      PROVE  Genuine(mm)'
      BY DEF Sound, Genuine
  <2>1. Genuine(mm)
    <3>1. CASE x # Type BY <1>10, <3>1 DEF ExactInv, Sound
    <3>2. CASE x = Type /\ i \in 1 .. Len(old) BY <1>4, <1>10, <3>2 DEF ExactInv, Sound, old
    <3>3. CASE x = Type /\ i = Len(old) + 1 BY <1>8, <1>10, <3>3
    <3> QED BY <1>9, <1>10, <3>1, <3>2, <3>3
  <2> QED BY <1>1, <1>11, <2>1 DEF Genuine
<1>14. \A x \in TypeSet : \A a : Listed(x, a) => Listed(x, a)'
  <2> SUFFICES ASSUME NEW x \in TypeSet, NEW a, NEW i \in 1 .. Len(matches[x]),
                      matches[x][i].addr = a
      PROVE  Listed(x, a)'
      BY DEF Listed
  <2>1. i \in 1 .. Len(matches'[x]) /\ matches'[x][i] = matches[x][i]
    BY <1>9, <1>10 DEF old
  <2> QED BY <2>1 DEF Listed
<1>15. CurrentComplete'
  <2> SUFFICES ASSUME NEW r \in 1 .. Len(Regions), NEW a \in Reached(r), Passed(r, a)',
                      mem[a] \in Wanted[Type]
      PROVE  Listed(Type, a)'
      BY <1>1, <1>10, <1>11 DEF CurrentComplete, Listed
  <2>1. CASE a = pos[t]
    <3>1. Len(old) + 1 \in 1 .. Len(matches'[Type]) BY <1>9, <1>10
    <3>2. matches'[Type][Len(old) + 1].addr = a BY <1>8, <1>10, <2>1
    <3>3. \E i \in 1 .. Len(matches'[Type]) : matches'[Type][i].addr = a
      BY <3>1, <3>2
    <3> QED BY <1>10, <3>3 DEF Listed
  <2>2. CASE a # pos[t]
    <3>1. Passed(r, a)
      <4>1. r \in 1 .. next_region - 1 /\ Selected(r) /\ a \in Candidates(r) /\ a \in Nat
        BY <1>1, ConstantFacts DEF Passed, Reached
      <4>2. \A u \in Threads : Active(u) /\ region[u] = r => a < pos[u]
        BY <1>1, <1>3, <2>2, <4>1 DEF Passed, Active
      <4> QED BY <4>1, <4>2 DEF Passed
    <3>2. Running BY <1>4, ConstantFacts DEF Running
    <3>3. Listed(Type, a) BY <3>1, <3>2 DEF ExactInv, CurrentComplete
    <3>4. PICK x \in TypeSet : x = Type BY <1>4
    <3>5. Listed(x, a)' BY <1>14, <3>3, <3>4
    <3> QED BY <1>10, <3>4, <3>5 DEF Listed
  <2> QED BY <2>1, <2>2
<1>16. EarlierComplete'
  BY <1>1, <1>11, <1>14, ConstantFacts DEF ExactInv, EarlierComplete
<1> QED BY <1>12, <1>13, <1>15, <1>16 DEF ExactInv

\* At the barrier every selected region has been passed to its end.
LEMMA NextTypeExact == ASSUME IInv, ExactInv, frozen, NextType PROVE ExactInv'
<1> USE DEF targetVars, threadVars
<1>1. /\ UNCHANGED <<frozen, mem, mapped, pc, region, pos, chunk, matches>>
      /\ tidx \in 1 .. Len(Types) /\ tidx' = tidx + 1 /\ next_region' = 1
      /\ next_region > Len(Regions) /\ next_region \in Nat /\ Len(Regions) \in Nat
      /\ Len(Types) \in Nat /\ \A t \in Threads : ~Active(t)
  BY ConstantFacts DEF NextType, IInv, TypeOK, LoopsOK, Active
<1>2. \A r : Reached(r)' = Reached(r)
  BY <1>1 DEF Reached, Candidates, Selected
<1>3. ChunkExact' BY <1>1 DEF ChunkExact, Active
<1>4. Sound' BY <1>1, <1>2 DEF ExactInv, Sound, Genuine
<1>5. CurrentComplete' BY <1>1 DEF CurrentComplete, Passed
<1>6. EarlierComplete'
  <2> SUFFICES ASSUME NEW k \in 1 .. tidx, NEW r \in 1 .. Len(Regions), NEW a \in Reached(r),
                      mem[a] \in Wanted[Types[k]]
      PROVE  Listed(Types[k], a)
    <3>1. \A x, a : Listed(x, a)' = Listed(x, a) BY <1>1 DEF Listed
    <3>2. tidx' - 1 = tidx BY <1>1
    <3>3. mem' = mem BY <1>1
    <3> HIDE DEF Listed
    <3> QED BY <1>2, <3>1, <3>2, <3>3 DEF EarlierComplete
  <2>1. CASE k = tidx
    <3>1. Running /\ Type = Types[k] BY <1>1, <2>1 DEF Running, Type
    <3>2. Passed(r, a) BY <1>1 DEF Passed, Reached
    <3> QED BY <3>1, <3>2 DEF ExactInv, CurrentComplete
  <2>2. CASE k # tidx
    <3>1. k \in 1 .. tidx - 1 /\ k \in 1 .. Len(Types) BY <1>1, <2>2
    <3> QED BY <3>1 DEF ExactInv, EarlierComplete
  <2> QED BY <2>1, <2>2
<1> QED BY <1>3, <1>4, <1>5, <1>6 DEF ExactInv

LEMMA ExactNext == IInv /\ ExactInv /\ [Next]_vars => ExactInv'
<1> SUFFICES ASSUME IInv, ExactInv, [Next]_vars, frozen' PROVE ExactInv'
    BY DEF ExactInv
<1>0. frozen
  BY DEF Next, ThreadStep, Claim, ReadChunk, ReadFails, EndRegion, Compare, EnterCritical,
         AddMatch, NextType, TargetRuns, targetVars, vars
<1>1. ASSUME NEW t \in Threads, EnterCritical(t) \/ UNCHANGED vars PROVE ExactInv'
  <2>1. /\ UNCHANGED <<frozen, mem, mapped, tidx, next_region, region, pos, chunk, matches>>
        /\ \A u \in Threads : Active(u)' <=> Active(u)
    BY <1>1 DEF EnterCritical, IInv, TypeOK, ThreadsOK, Active, targetVars, threadVars, vars
  <2>2. ChunkExact' BY <2>1 DEF ExactInv, ChunkExact, Start
  <2>3. \A r, a : Passed(r, a)' => Passed(r, a)
    BY <2>1 DEF Passed, Selected, Candidates
  <2> QED BY <1>0, <2>1, <2>2, <2>3, QuietStep
<1>2. ASSUME NEW t \in Threads, ThreadStep(t) PROVE ExactInv'
  BY <1>0, <1>1, <1>2, ClaimExact, ReadExact, LeaveExact, CompareExact, AddExact DEF ThreadStep
<1>3. CASE NextType BY <1>0, <1>3, NextTypeExact
<1>4. CASE TargetRuns BY <1>0, <1>4 DEF TargetRuns
<1>5. CASE UNCHANGED vars
  <2>1. UNCHANGED <<frozen, mem, mapped, tidx, next_region, pc, region, pos, chunk, matches>>
    BY <1>5 DEF vars, targetVars, threadVars
  <2>2. ChunkExact' BY <2>1 DEF ExactInv, ChunkExact, Start, Active
  <2>3. \A r, a : Passed(r, a)' => Passed(r, a)
    BY <2>1 DEF Passed, Selected, Candidates, Active
  <2> QED BY <1>0, <2>1, <2>2, <2>3, QuietStep
<1> QED BY <1>2, <1>3, <1>4, <1>5 DEF Next

\* After the last type the two inclusions say that the lists are exact.
LEMMA ExactAtEnd == IInv /\ ExactInv => FrozenScanExact
<1> SUFFICES ASSUME IInv, ExactInv, frozen, tidx > Len(Types), NEW x \in TypeSet
    PROVE  Found(x) = {[addr |-> a, value |-> mem[a]] :
                         a \in {b \in UNION {Reached(r) : r \in 1 .. Len(Regions)} :
                                 mem[b] \in Wanted[x]}}
    BY DEF FrozenScanExact
<1>1. PICK k \in 1 .. Len(Types) : x = Types[k] BY DEF TypeSet
<1>2. k \in 1 .. tidx - 1 BY ConstantFacts DEF IInv, TypeOK, LoopsOK
<1>3. \A i \in 1 .. Len(matches[x]) :
        /\ matches[x][i] = [addr |-> matches[x][i].addr, value |-> mem[matches[x][i].addr]]
        /\ matches[x][i].addr \in UNION {Reached(r) : r \in 1 .. Len(Regions)}
        /\ mem[matches[x][i].addr] \in Wanted[x]
  <2> SUFFICES ASSUME NEW i \in 1 .. Len(matches[x]), NEW m, m = matches[x][i]
      PROVE  /\ m = [addr |-> m.addr, value |-> mem[m.addr]]
             /\ m.addr \in UNION {Reached(r) : r \in 1 .. Len(Regions)}
             /\ mem[m.addr] \in Wanted[x]
      OBVIOUS
  <2>1. m \in Match BY DEF IInv, TypeOK
  <2>2. Genuine(m) BY DEF ExactInv, Sound
  <2>3. m.value \in Wanted[x] BY DEF IInv, PlaceInv, Placed
  <2> QED BY <2>1, <2>2, <2>3 DEF Genuine, Match
<1>4. \A r \in 1 .. Len(Regions) : \A a \in Reached(r) :
        mem[a] \in Wanted[x] =>
          \E i \in 1 .. Len(matches[x]) :
            matches[x][i] = [addr |-> a, value |-> mem[a]]
  BY <1>1, <1>2, <1>3 DEF ExactInv, EarlierComplete, Listed
<1> DEFINE hits == {b \in UNION {Reached(r) : r \in 1 .. Len(Regions)} : mem[b] \in Wanted[x]}
<1>5. \A i \in 1 .. Len(matches[x]) :
        \E a \in hits : matches[x][i] = [addr |-> a, value |-> mem[a]]
  BY <1>3
<1>6. \A a \in hits : \E i \in 1 .. Len(matches[x]) :
        matches[x][i] = [addr |-> a, value |-> mem[a]]
  BY <1>4
<1> HIDE DEF hits
<1>7. Found(x) = {[addr |-> a, value |-> mem[a]] : a \in hits}
  <2>1. ASSUME NEW f \in Found(x) PROVE \E a \in hits : f = [addr |-> a, value |-> mem[a]]
    BY <1>5, <2>1 DEF Found
  <2>2. ASSUME NEW a \in hits, NEW f, f = [addr |-> a, value |-> mem[a]] PROVE f \in Found(x)
    BY <1>6, <2>2 DEF Found
  <2> QED BY <2>1, <2>2
<1> QED BY <1>7 DEF hits

(***************************************************************************)
(* For every team of threads, every set of regions and every buffer size:  *)
(* a scan of a stopped target lists exactly the wanted values it can       *)
(* reach, with the values the target holds.                                *)
(***************************************************************************)
THEOREM FrozenScan == Spec => []FrozenScanExact
<1>1. IInv /\ ExactInv /\ [Next]_vars => ExactInv' BY ExactNext
<1> QED BY <1>1, Invariance, ExactInit, ExactAtEnd, PTL DEF Spec
-------------------------------------------------------------------------------
(***************************************************************************)
(* The chunked reader.                                                     *)
(***************************************************************************)
-------------------------------------------------------------------------------
\* Divisibility.  p always is a positive divisor.

LEMMA Division ==
  ASSUME NEW a \in Nat, NEW p \in Nat \ {0}
  PROVE  /\ a = p * (a \div p) + (a % p)
         /\ a % p \in 0 .. p - 1
         /\ a \div p \in Nat
BY SMT

LEMMA NoRemainder ==
  ASSUME NEW p \in Nat \ {0}, NEW q \in Int, NEW r \in 0 .. p - 1, p * q + r = 0
  PROVE  r = 0
<1>1. CASE q >= 0
  <2>1. p * q >= 0 BY <1>1, SMT
  <2> QED BY <2>1, SMT
<1>2. CASE q <= -1
  <2>1. p * q <= p * (-1) BY <1>2, SMT
  <2> QED BY <2>1, SMT
<1> QED BY <1>1, <1>2, SMT

\* A multiple of p leaves no remainder.
LEMMA Multiple ==
  ASSUME NEW p \in Nat \ {0}, NEW a \in Nat, NEW q \in Int, a = p * q
  PROVE  a % p = 0
<1> DEFINE d == a \div p
           r == a % p
<1>1. a = p * d + r /\ d \in Nat /\ r \in 0 .. p - 1 BY Division
<1>2. p * (d - q) = p * d - p * q BY <1>1, SMT
<1> HIDE DEF d, r
<1>3. p * (d - q) + r = 0 BY <1>1, <1>2, SMT
<1>4. d - q \in Int BY <1>1
<1>5. r = 0 BY <1>1, <1>3, <1>4, NoRemainder
<1> QED BY <1>5 DEF r

LEMMA Quotient ==
  ASSUME NEW p \in Nat \ {0}, NEW a \in Nat, a % p = 0
  PROVE  \E q \in Nat : a = p * q
<1>1. a = p * (a \div p) + (a % p) /\ a \div p \in Nat BY Division
<1>2. p * (a \div p) \in Nat BY <1>1, SMT
<1>3. a = p * (a \div p) BY <1>1, <1>2, SMT
<1> QED BY <1>1, <1>3

LEMMA SumDivides ==
  ASSUME NEW p \in Nat \ {0}, NEW a \in Nat, NEW b \in Nat, a % p = 0, b % p = 0
  PROVE  (a + b) % p = 0
<1>1. PICK m \in Nat : a = p * m BY Quotient
<1>2. PICK n \in Nat : b = p * n BY Quotient
<1>3. a + b = p * (m + n) BY <1>1, <1>2, SMT
<1>4. a + b \in Nat /\ m + n \in Int OBVIOUS
<1> QED BY <1>3, <1>4, Multiple

LEMMA DifferenceDivides ==
  ASSUME NEW p \in Nat \ {0}, NEW a \in Nat, NEW b \in Nat, a % p = 0, b % p = 0,
         b <= a
  PROVE  (a - b) % p = 0
<1>1. PICK m \in Nat : a = p * m BY Quotient
<1>2. PICK n \in Nat : b = p * n BY Quotient
<1>3. a - b = p * (m - n) BY <1>1, <1>2, SMT
<1>4. a - b \in Nat /\ m - n \in Int OBVIOUS
<1> QED BY <1>3, <1>4, Multiple

LEMMA DividesTransitive ==
  ASSUME NEW s \in Nat \ {0}, NEW p \in Nat \ {0}, NEW a \in Nat, p % s = 0, a % p = 0
  PROVE  a % s = 0
<1>1. PICK m \in Nat : a = p * m BY Quotient
<1>2. PICK n \in Nat : p = s * n BY Quotient
<1>3. a = s * (n * m) BY <1>1, <1>2, SMT
<1>4. n * m \in Int OBVIOUS
<1> QED BY <1>3, <1>4, Multiple

\* What is left after taking the remainder away is a whole number of steps.
LEMMA WholeSteps ==
  ASSUME NEW s \in Nat \ {0}, NEW n \in Nat
  PROVE  /\ n - (n % s) \in 0 .. n
         /\ (n - (n % s)) % s = 0
<1> DEFINE d == n \div s
           r == n % s
<1>1. n = s * d + r /\ d \in Nat /\ r \in 0 .. s - 1 BY Division
<1>2. s * d \in Nat BY <1>1, SMT
<1> HIDE DEF d, r
<1>3. n - r = s * d /\ n - r \in 0 .. n BY <1>1, <1>2, SMT
<1>4. (n - r) % s = 0 BY <1>1, <1>3, Multiple
<1> QED BY <1>3, <1>4 DEF r

\* A positive multiple of the step has room for one more step.
LEMMA OneStep ==
  ASSUME NEW s \in Nat \ {0}, NEW n \in Nat \ {0}, n % s = 0
  PROVE  n >= s /\ (n - s) % s = 0
<1>1. PICK m \in Nat : n = s * m BY Quotient
<1>2. m >= 1 BY <1>1, SMT
<1>3. s * m >= s * 1 BY <1>2, SMT
<1>4. n >= s BY <1>1, <1>3, SMT
<1>5. s = s * 1 /\ s % s = 0 BY Multiple
<1> QED BY <1>4, <1>5, DifferenceDivides

-------------------------------------------------------------------------------
(***************************************************************************)
(* The inductive invariant.  Bounds says where the pointers are, for every *)
(* step; Exact that over an aligned job nothing is ever carried and the    *)
(* window holds the chunk read last, which ends on a page boundary.        *)
(***************************************************************************)
Bounds ==
  /\ win_begin <= iter /\ iter <= win_end /\ win_end <= Backup
  /\ win_end - win_begin <= cached_size
  /\ backup_size < job.step
  /\ job.kind = "number" => (win_end - iter) % job.step = 0

Exact ==
  Aligned(job) =>
    /\ backup_size = 0 /\ win_begin = 0 /\ win_end = cached_size
    /\ NextAddress <= job.end
    /\ NextAddress % Page = 0
    /\ \A c \in 0 .. cached_size - 1 : cache[c] = begin_addr + c

ReaderIInv == ReaderTypeOK /\ Bounds /\ Exact /\ OwnBytes

LEMMA JobFacts ==
  ASSUME job \in Jobs
  PROVE  /\ job.first \in Nat /\ job.end \in Nat /\ job.first <= job.end
         /\ job.step \in Nat \ {0} /\ job.width \in Nat \ {0}
         /\ job.kind \in {"number", "bytes"}
         /\ job.kind = "number" => job.width <= Page
         /\ job.kind = "bytes" => job.step = job.width
BY JobsAssumption, BufferAssumption DEF ScanJob

LEMMA ReaderInitHolds == ReaderInit => ReaderIInv
<1> SUFFICES ASSUME ReaderInit PROVE ReaderIInv
    OBVIOUS
<1> USE BufferAssumption
<1>1. job \in Jobs BY DEF ReaderInit
<1>2. /\ job.first \in Nat /\ job.end \in Nat /\ job.first <= job.end
      /\ job.step \in Nat \ {0}
  BY <1>1, JobFacts
<1>3. 0 % job.step = 0
  <2>1. 0 = job.step * 0 BY <1>2, SMT
  <2> QED BY <1>2, <2>1, Multiple
<1>4. ReaderTypeOK
  BY <1>1, <1>2 DEF ReaderInit, ReaderTypeOK, Cells, Bytes
<1>5. Bounds
  BY <1>2, <1>3 DEF ReaderInit, Bounds, Backup
<1>6. Exact
  BY <1>2 DEF ReaderInit, Exact, NextAddress, Aligned
<1>7. OwnBytes
  BY DEF ReaderInit, OwnBytes
<1> QED BY <1>4, <1>5, <1>6, <1>7 DEF ReaderIInv

\* A read of n bytes that next() performs ends on a page of an aligned job.
LEMMA AlignedRead ==
  ASSUME ReaderIInv, Aligned(job), NEW n \in ReadableSizes(NextAddress)
  PROVE  n % Page = 0 /\ (NextAddress + n) % Page = 0 /\ n % job.step = 0
<1> USE BufferAssumption
<1>1. /\ NextAddress \in Nat /\ NextAddress % Page = 0
      /\ job \in Jobs
  BY DEF ReaderIInv, Exact, ReaderTypeOK, NextAddress
<1>2. job.end \in Nat /\ job.step \in Nat \ {0}
  BY <1>1, JobFacts
<1>3. n \in Nat /\ NextAddress + n \in Nat
  BY <1>1 DEF ReadableSizes
<1>4. n % Page = 0 /\ (NextAddress + n) % Page = 0
  <2>1. CASE n = Capacity
    <3>1. n % Page = 0 BY <2>1 DEF Aligned
    <3> QED BY <1>1, <1>3, <3>1, SumDivides
  <2>2. CASE (NextAddress + n) % Page = 0
    <3> DEFINE stop == NextAddress + n
    <3>1. stop \in Nat /\ stop - NextAddress = n /\ NextAddress <= stop BY <1>1, <1>3
    <3>2. stop % Page = 0 BY <2>2
    <3> HIDE DEF stop
    <3>3. (stop - NextAddress) % Page = 0
      BY <1>1, <3>1, <3>2, DifferenceDivides
    <3> QED BY <2>2, <3>1, <3>3
  <2>3. CASE NextAddress + n = job.end
    BY <2>2, <2>3 DEF Aligned
  <2> QED BY <2>1, <2>2, <2>3 DEF ReadableSizes
<1>5. n % job.step = 0
  BY <1>2, <1>3, <1>4, DividesTransitive DEF Aligned
<1> QED BY <1>4, <1>5

LEMMA NextChunkHolds == ReaderIInv /\ NextChunk => ReaderIInv'
<1> SUFFICES ASSUME ReaderIInv, NextChunk PROVE ReaderIInv'
    OBVIOUS
<1> USE BufferAssumption
<1> DEFINE addr == NextAddress
           at   == IF backup_size = 0 THEN 0 ELSE Page
           start == at - backup_size
<1>1. PICK n \in ReadableSizes(addr) :
        LET left == n % job.step
            stop == start + n - left
            read == ReadInto(at, addr, n)
        IN  /\ left <= Page
            /\ cache' = Copy(Copy(read, start, Backup, backup_size), Backup, stop, left)
            /\ cached_size' = n
            /\ backup_size' = left
            /\ win_begin' = start
            /\ win_end' = stop
            /\ iter' = start
  BY DEF NextChunk
<1> DEFINE left == n % job.step
           stop == start + n - left
           read == ReadInto(at, addr, n)
           joined == Copy(read, start, Backup, backup_size)
<1>2. /\ begin_addr' = addr /\ job' = job /\ seen' = seen /\ state' = state
      /\ addr < job.end
  BY DEF NextChunk
<1>3. /\ job \in Jobs /\ cache \in [Cells -> Bytes] /\ backup_size \in 0 .. Page
      /\ addr \in Nat
  BY DEF ReaderIInv, ReaderTypeOK, NextAddress
<1>4. /\ job.end \in Nat /\ job.step \in Nat \ {0} /\ job.width \in Nat \ {0}
      /\ backup_size < job.step
  BY <1>3, JobFacts DEF ReaderIInv, Bounds
<1>5. n \in 1 .. Capacity /\ addr + n <= job.end
  BY DEF ReadableSizes
<1>6. /\ left \in 0 .. job.step - 1 /\ n - left \in 0 .. n /\ (n - left) % job.step = 0
      /\ left \in 0 .. Page
  <2>1. job.step \in Nat \ {0} /\ n \in Nat BY <1>4, <1>5
  <2>2. left \in 0 .. job.step - 1 BY <2>1, Division
  <2>3. n - left \in 0 .. n /\ (n - left) % job.step = 0 BY <2>1, WholeSteps
  <2>4. left <= Page BY <1>1
  <2> QED BY <1>4, <2>2, <2>3, <2>4
<1>7. at \in 0 .. Page /\ start \in 0 .. Page /\ stop \in start .. Backup /\ stop - start = n - left
  BY <1>3, <1>5, <1>6 DEF Backup
<1> HIDE DEF left, stop, start, at
<1>8. read \in [Cells -> Bytes]
  BY <1>3, <1>5, <1>7 DEF ReadInto, Cells, Bytes
<1>9. joined \in [Cells -> Bytes]
  BY <1>3, <1>7, <1>8 DEF Copy, Cells, Backup
<1>10. cache' \in [Cells -> Bytes]
  <2>1. cache' = Copy(joined, Backup, stop, left) BY <1>1 DEF left, stop, start, at
  <2> QED BY <1>4, <1>6, <1>7, <1>9, <2>1 DEF Copy, Cells, Backup
<1>11. /\ cached_size' = n /\ backup_size' = left /\ win_begin' = start
       /\ win_end' = stop /\ iter' = start
  BY <1>1 DEF left, stop, start, at
<1>12. ReaderTypeOK'
  BY <1>2, <1>3, <1>4, <1>5, <1>6, <1>7, <1>10, <1>11 DEF ReaderIInv, ReaderTypeOK, Cells, Backup
<1>13. Bounds'
  BY <1>2, <1>4, <1>5, <1>6, <1>7, <1>11 DEF Bounds, Backup
<1>14. Exact'
  <2> SUFFICES ASSUME Aligned(job)' PROVE Exact!2'
      BY DEF Exact
  <2>1. Aligned(job) BY <1>2 DEF Aligned
  <2>2. (addr + n) % Page = 0 /\ left = 0 BY <2>1, AlignedRead DEF left
  <2>3. backup_size = 0 /\ at = 0 /\ start = 0 /\ stop = n
    BY <1>5, <2>1, <2>2 DEF ReaderIInv, Exact, at, start, stop
  <2>4. \A c \in 0 .. n - 1 : cache'[c] = addr + c
    <3>1. cache' = Copy(joined, Backup, stop, left) BY <1>1 DEF left, stop, start, at
    <3> SUFFICES ASSUME NEW c \in 0 .. n - 1 PROVE cache'[c] = addr + c
        OBVIOUS
    <3>2. c \in Cells BY <1>5 DEF Cells
    <3>3. read[c] = addr + c BY <1>3, <1>5, <2>3, <3>2 DEF ReadInto
    <3>4. joined[c] = read[c] BY <2>3, <3>2 DEF Copy
    <3>5. cache'[c] = joined[c] BY <2>2, <3>1, <3>2 DEF Copy, Backup
    <3> QED BY <3>3, <3>4, <3>5
  <2> QED
    BY <1>2, <1>3, <1>5, <1>11, <2>2, <2>3, <2>4 DEF Exact, NextAddress
<1>15. OwnBytes'
  BY <1>2 DEF ReaderIInv, OwnBytes, Aligned
<1> QED BY <1>12, <1>13, <1>14, <1>15 DEF ReaderIInv

\* The value found at offset i of the window, when it fits in the cells.
LEMMA CandidateTyped ==
  ASSUME ReaderIInv, NEW i \in win_begin .. Backup, i + job.width <= Backup + Page
  PROVE  Candidate(i) \in [addr : Nat, bytes : [0 .. job.width - 1 -> Bytes]]
<1> USE BufferAssumption
<1>1. job.width \in Nat \ {0}
  BY JobFacts DEF ReaderIInv, ReaderTypeOK
<1>2. begin_addr + (i - win_begin) \in Nat
  BY DEF ReaderIInv, ReaderTypeOK, Cells, Backup
<1>3. \A k \in 0 .. job.width - 1 : i + k \in Cells
  BY <1>1 DEF ReaderIInv, ReaderTypeOK, Cells, Backup
<1>4. \A k \in 0 .. job.width - 1 : cache[i + k] \in Bytes
  BY <1>3 DEF ReaderIInv, ReaderTypeOK
<1> QED BY <1>2, <1>4 DEF Candidate

\* Over an aligned job a value inside the window is compared with its own bytes.
LEMMA CandidateOwn ==
  ASSUME ReaderIInv, Aligned(job), NEW i \in win_begin .. Backup,
         i + job.width <= win_end
  PROVE  /\ Candidate(i).addr = begin_addr + i
         /\ Candidate(i).bytes = [k \in 0 .. job.width - 1 |-> Candidate(i).addr + k]
<1> USE BufferAssumption
<1>1. job.width \in Nat \ {0}
  BY JobFacts DEF ReaderIInv, ReaderTypeOK
<1>2. /\ win_begin = 0 /\ win_end = cached_size
      /\ \A c \in 0 .. cached_size - 1 : cache[c] = begin_addr + c
      /\ begin_addr \in Nat /\ cached_size \in Nat /\ i \in Nat
  BY DEF ReaderIInv, ReaderTypeOK, Exact
<1>3. \A k \in 0 .. job.width - 1 : cache[i + k] = begin_addr + i + k
  BY <1>1, <1>2
<1>4. begin_addr + (i - win_begin) = begin_addr + i
  BY <1>2
<1> QED BY <1>3, <1>4 DEF Candidate

\* The loop of a number scanner has room for the step it takes.
LEMMA RoomForStep ==
  ASSUME ReaderIInv, job.kind = "number", iter # win_end
  PROVE  iter + job.step <= win_end /\ (win_end - (iter + job.step)) % job.step = 0
<1> USE BufferAssumption
<1>1. job.step \in Nat \ {0}
  BY JobFacts DEF ReaderIInv, ReaderTypeOK
<1> DEFINE left == win_end - iter
<1>2. left \in Nat \ {0} /\ left % job.step = 0
  BY DEF ReaderIInv, ReaderTypeOK, Bounds, Cells
<1> HIDE DEF left
<1>3. left >= job.step /\ (left - job.step) % job.step = 0
  BY <1>1, <1>2, OneStep
<1>4. left - job.step = win_end - (iter + job.step)
  BY <1>1 DEF left, ReaderIInv, ReaderTypeOK, Cells
<1>5. iter + job.step <= win_end
  BY <1>1, <1>3 DEF left, ReaderIInv, ReaderTypeOK, Cells
<1> QED BY <1>3, <1>4, <1>5

\* A comparison at offset i moves the cursor on and keeps the invariant.
LEMMA ComparisonHolds ==
  ASSUME ReaderIInv, NEW i \in iter .. Backup, NEW d \in Nat,
         i + d <= win_end, i + job.width <= Backup + Page, job.width <= d \/ ~Aligned(job),
         job.kind = "number" => (win_end - (i + d)) % job.step = 0,
         seen' = Candidate(i), iter' = i + d,
         UNCHANGED <<job, buffer, state>>
  PROVE  ReaderIInv'
<1> USE BufferAssumption DEF buffer
<1>1. i \in win_begin .. Backup
  BY DEF ReaderIInv, ReaderTypeOK, Bounds, Cells, Backup
<1>2. i + d \in Cells /\ win_begin <= i + d
  BY <1>1 DEF ReaderIInv, ReaderTypeOK, Bounds, Cells, Backup
<1>3. Candidate(i) \in [addr : Nat, bytes : [0 .. job.width - 1 -> Bytes]]
  BY <1>1, CandidateTyped
<1>4. ReaderTypeOK'
  BY <1>2, <1>3 DEF ReaderIInv, ReaderTypeOK
<1>5. Bounds'
  BY <1>2 DEF ReaderIInv, Bounds, Backup
<1>6. Exact'
  BY DEF ReaderIInv, Exact, Aligned, NextAddress
<1>7. OwnBytes'
  <2> SUFFICES ASSUME Aligned(job)
      PROVE  seen'.bytes = [k \in 0 .. job.width - 1 |-> seen'.addr + k]
      BY DEF OwnBytes, Aligned
  <2>1. i + job.width <= win_end
    BY <1>1, JobFacts DEF ReaderIInv, ReaderTypeOK, Cells
  <2> QED BY <1>1, <2>1, CandidateOwn
<1> QED BY <1>4, <1>5, <1>6, <1>7 DEF ReaderIInv

LEMMA ReaderNextHolds == ReaderIInv /\ [ReaderNext]_readerVars => ReaderIInv'
<1> SUFFICES ASSUME ReaderIInv, [ReaderNext]_readerVars PROVE ReaderIInv'
    OBVIOUS
<1> USE BufferAssumption
<1>0. job.step \in Nat \ {0} /\ job.width \in Nat \ {0}
  BY JobFacts DEF ReaderIInv, ReaderTypeOK
<1>1. CASE NextChunk
  BY <1>1, NextChunkHolds
<1>2. CASE CarryOverruns \/ ChunkReadFails \/ EndOfRegion \/ UNCHANGED readerVars
  <2>1. /\ UNCHANGED <<job, buffer, iter, seen>>
        /\ state' \in {"scanning", "done", "failed", "overrun"}
    BY <1>2 DEF CarryOverruns, ChunkReadFails, EndOfRegion, readerVars, buffer, ReaderIInv, ReaderTypeOK
  <2> QED
    BY <2>1 DEF buffer, ReaderIInv, ReaderTypeOK, Bounds, Exact, OwnBytes, Aligned, NextAddress
<1>3. CASE CompareNumber
  <2>1. iter + job.step <= win_end /\ (win_end - (iter + job.step)) % job.step = 0
    BY <1>3, RoomForStep DEF CompareNumber
  <2>2. iter \in iter .. Backup
    BY DEF ReaderIInv, ReaderTypeOK, Bounds, Cells, Backup
  <2>3. job.width <= job.step \/ ~Aligned(job)
    BY DEF Aligned
  <2>4. iter + job.width <= Backup + Page
    BY <1>3, JobFacts DEF CompareNumber, ReaderIInv, ReaderTypeOK, Bounds, Cells, Backup
  <2> QED BY <1>0, <1>3, <2>1, <2>2, <2>3, <2>4, ComparisonHolds DEF CompareNumber
<1>4. CASE FindBytes
  <2>1. PICK ptr \in iter .. win_end - job.width :
          seen' = Candidate(ptr) /\ iter' = ptr + job.width
    BY <1>4 DEF FindBytes
  <2>2. ptr \in iter .. Backup /\ ptr + job.width <= win_end
    BY <1>0, <2>1 DEF ReaderIInv, ReaderTypeOK, Bounds, Cells, Backup
  <2>3. job.width <= job.width \/ ~Aligned(job)
    BY <1>0
  <2>4. job.kind # "number"
    BY <1>4 DEF FindBytes
  <2>5. UNCHANGED <<job, buffer, state>>
    BY <1>4 DEF FindBytes
  <2>6. ptr + job.width <= Backup + Page
    BY <1>0, <2>1, <2>2 DEF ReaderIInv, ReaderTypeOK, Bounds, Cells, Backup
  <2> QED BY <1>0, <2>1, <2>2, <2>3, <2>4, <2>5, <2>6, ComparisonHolds
<1> QED BY <1>1, <1>2, <1>3, <1>4 DEF ReaderNext

(***************************************************************************)
(* What is carried is shorter than the step and no longer than the chunk,  *)
(* so it overruns its page only for a step of more than a page and a byte. *)
(***************************************************************************)
Overruns == state = "overrun" => job.step > Page + 1

LEMMA OverrunsHold ==
  ReaderIInv /\ Overruns /\ [ReaderNext]_readerVars => Overruns'
<1> SUFFICES ASSUME ReaderIInv, Overruns, [ReaderNext]_readerVars, state' = "overrun"
    PROVE  job'.step > Page + 1
    BY DEF Overruns
<1> USE BufferAssumption
<1>0. job.step \in Nat \ {0} BY JobFacts DEF ReaderIInv, ReaderTypeOK
<1>1. CASE CarryOverruns
  <2>1. PICK n \in ReadableSizes(NextAddress) : n % job.step > Page
    BY <1>1 DEF CarryOverruns
  <2>2. n \in Nat BY <2>1 DEF ReadableSizes
  <2>3. n % job.step \in 0 .. job.step - 1 BY <1>0, <2>2, Division
  <2>4. job' = job BY <1>1 DEF CarryOverruns
  <2> QED BY <1>0, <2>1, <2>3, <2>4
<1>2. CASE ~CarryOverruns
  <2>1. UNCHANGED <<job, state>>
    BY <1>2 DEF ReaderNext, NextChunk, ChunkReadFails, EndOfRegion, CompareNumber,
                FindBytes, readerVars
  <2> QED BY <2>1 DEF Overruns
<1> QED BY <1>1, <1>2

LEMMA ReaderInvariance == ReaderSpec => []ReaderIInv
<1> QED BY ReaderInitHolds, ReaderNextHolds, PTL DEF ReaderSpec

\* Every variable of the chunked reader keeps its type.
THEOREM ReaderTypeCorrect == ReaderSpec => []ReaderTypeOK
<1>1. ReaderIInv => ReaderTypeOK BY DEF ReaderIInv
<1> QED BY <1>1, ReaderInvariance, PTL

(***************************************************************************)
(* For every step and every length of a string, the scanner touches only   *)
(* the mapping, and so does next() unless the step is longer than a page   *)
(* and a byte: then the memcpy of the carried bytes may leave it.          *)
(***************************************************************************)
THEOREM CacheSafety == ReaderSpec => []AccessesInCache
<1>1. ReaderIInv /\ Overruns => AccessesInCache
  <2> SUFFICES ASSUME ReaderIInv, Overruns PROVE AccessesInCache
      OBVIOUS
  <2>1. /\ job.width \in Nat \ {0} /\ job.step \in Nat \ {0}
        /\ job.kind = "number" => job.width <= Page
    BY JobFacts DEF ReaderIInv, ReaderTypeOK
  <2> QED
    BY <2>1, BufferAssumption
    DEF ReaderIInv, ReaderTypeOK, Bounds, Overruns, AccessesInCache, Cells, Backup
<1>2. ReaderInit => Overruns BY DEF ReaderInit, Overruns
<1> QED BY <1>1, <1>2, OverrunsHold, ReaderInvariance, PTL DEF ReaderSpec

\* The loops of the number scanners meet the end of the window exactly.
THEOREM LoopsMeetEnd == ReaderSpec => []LoopMeetsEnd
<1>1. ReaderIInv => LoopMeetsEnd BY DEF ReaderIInv, Bounds, LoopMeetsEnd
<1> QED BY <1>1, ReaderInvariance, PTL

\* A comparison over an aligned job sees the bytes of the address it reports.
THEOREM ComparisonsExact == ReaderSpec => []OwnBytes
<1>1. ReaderIInv => OwnBytes BY DEF ReaderIInv
<1> QED BY <1>1, ReaderInvariance, PTL

-------------------------------------------------------------------------------
(***************************************************************************)
(* The step simulation: with the cursor's target address as pos, each step *)
(* of the chunked reader is a step of LinearScan or leaves it unchanged.   *)
(***************************************************************************)
Cursor == begin_addr + (iter - win_begin)

LEMMA CursorFacts ==
  ASSUME ReaderIInv, Aligned(job)
  PROVE  /\ Cursor \in Nat /\ Cursor <= NextAddress /\ NextAddress <= job.end
         /\ Cursor = begin_addr + iter
         /\ iter = win_end => Cursor = NextAddress
         /\ job.end \in Nat /\ job.step \in Nat \ {0} /\ job.width \in Nat \ {0}
<1>1. job.end \in Nat /\ job.step \in Nat \ {0} /\ job.width \in Nat \ {0}
  BY BufferAssumption, JobFacts DEF ReaderIInv, ReaderTypeOK
<1> QED
  BY <1>1, BufferAssumption
  DEF ReaderIInv, ReaderTypeOK, Bounds, Exact, Cursor, NextAddress, Cells, Backup

LEMMA NextSimulates ==
  ReaderIInv /\ Aligned(job) /\ [ReaderNext]_readerVars => [Linear!Next]_(Linear!linearVars)
<1> SUFFICES ASSUME ReaderIInv, Aligned(job), [ReaderNext]_readerVars
    PROVE  [Linear!Next]_(Linear!linearVars)
    OBVIOUS
<1> USE DEF Linear!linearVars, buffer
<1>0. /\ Cursor \in Nat /\ Cursor <= NextAddress /\ NextAddress <= job.end
      /\ Cursor = begin_addr + iter
      /\ iter = win_end => Cursor = NextAddress
      /\ job.end \in Nat /\ job.step \in Nat \ {0} /\ job.width \in Nat \ {0}
  BY CursorFacts
<1>1. CASE NextChunk
  <2>1. Cursor' = NextAddress
    <3>1. iter' = win_begin' /\ begin_addr' = NextAddress /\ iter' \in Int
      <4>1. ReaderTypeOK' BY <1>1, NextChunkHolds DEF ReaderIInv
      <4> QED BY <1>1, <4>1, BufferAssumption DEF NextChunk, ReaderTypeOK, Cells
    <3>2. NextAddress \in Nat BY DEF ReaderIInv, ReaderTypeOK, NextAddress
    <3>3. iter' - win_begin' = 0
      <4>1. \A x \in Int : x - x = 0 OBVIOUS
      <4> QED BY <3>1, <4>1
    <3>5. begin_addr' \in Nat BY <3>1, <3>2
    <3>4. begin_addr' + (iter' - win_begin') = begin_addr' BY <3>3, <3>5
    <3> QED BY <3>1, <3>4 DEF Cursor
  <2>2. UNCHANGED <<job, seen, state>> /\ state = "scanning" /\ WindowHandled
    BY <1>1 DEF NextChunk
  <2>3. CASE job.kind = "number"
    <3>1. Cursor' = Cursor
      BY <1>0, <2>1, <2>2, <2>3 DEF WindowHandled
    <3> QED BY <2>2, <3>1 DEF Cursor
  <2>4. CASE job.kind = "bytes"
    <3>1. Cursor' \in Cursor .. job.end
      BY <1>0, <2>1 DEF ReaderIInv, ReaderTypeOK, NextAddress
    <3> QED BY <2>2, <2>4, <3>1 DEF Linear!Next, Linear!Skip, Cursor
  <2> QED BY <2>3, <2>4, JobFacts DEF ReaderIInv, ReaderTypeOK
<1>8. ~CarryOverruns
  <2> SUFFICES ASSUME CarryOverruns PROVE FALSE
      OBVIOUS
  <2>1. PICK n \in ReadableSizes(NextAddress) : n % job.step > Page
    BY DEF CarryOverruns
  <2>2. n % job.step = 0 BY <2>1, AlignedRead
  <2> QED BY <2>1, <2>2, BufferAssumption
<1>2. CASE ChunkReadFails
  <2>1. Cursor < job.end
    BY <1>0, <1>2 DEF ChunkReadFails, ReaderIInv, ReaderTypeOK, NextAddress
  <2> QED BY <1>2, <2>1 DEF ChunkReadFails, Linear!Next, Linear!Abort, Cursor
<1>3. CASE EndOfRegion
  <2>1. job.kind = "number" => Cursor >= job.end
    BY <1>0, <1>3 DEF EndOfRegion, WindowHandled, ReaderIInv, ReaderTypeOK, NextAddress
  <2> QED BY <1>3, <2>1 DEF EndOfRegion, Linear!Next, Linear!Finish, Cursor
<1>4. ASSUME NEW i \in iter .. Backup, job.kind = "number" => i = iter,
             i + job.width <= win_end,
             state = "scanning", seen' = Candidate(i), iter' = i + job.step,
             UNCHANGED <<job, buffer, state>>
      PROVE  Linear!Next
  <2>1. i \in win_begin .. Backup /\ i \in Nat
    BY <1>4 DEF ReaderIInv, ReaderTypeOK, Bounds, Cells, Backup
  <2>2. win_begin = 0 /\ win_end = cached_size /\ begin_addr \in Nat /\ iter \in Nat
        /\ cached_size \in Nat
    BY DEF ReaderIInv, ReaderTypeOK, Exact, Cells
  <2> DEFINE a == begin_addr + i
  <2>3. a \in Cursor .. job.end - 1
    BY <1>0, <1>4, <2>1, <2>2 DEF NextAddress
  <2>4. job.kind = "number" => a = Cursor
    BY <1>0, <1>4
  <2>5. seen' = Linear!ComparisonAt(a, job.width)
    BY <1>4, <2>1, CandidateOwn DEF Candidate, Linear!ComparisonAt, Linear!BytesAt
  <2>6. Cursor' = a + job.step
    BY <1>0, <1>4, <2>1, <2>2 DEF Cursor
  <2> HIDE DEF a
  <2>7. Linear!Compare
    BY <1>4, <2>3, <2>4, <2>5, <2>6 DEF Linear!Compare, Cursor
  <2> QED BY <2>7 DEF Linear!Next
<1>5. CASE CompareNumber
  <2>1. iter + job.step <= win_end /\ job.width <= job.step
    BY <1>5, RoomForStep DEF CompareNumber, Aligned
  <2>2. iter \in iter .. Backup /\ iter + job.width <= win_end
    <3>1. iter \in Nat /\ win_end \in Nat /\ iter <= win_end /\ win_end <= Backup /\ Backup \in Nat
      BY BufferAssumption DEF ReaderIInv, ReaderTypeOK, Bounds, Cells, Backup
    <3> QED BY <1>0, <2>1, <3>1
  <2> QED BY <1>4, <1>5, <2>2 DEF CompareNumber
<1>6. CASE FindBytes
  <2>1. PICK ptr \in iter .. win_end - job.width :
          seen' = Candidate(ptr) /\ iter' = ptr + job.width
    BY <1>6 DEF FindBytes
  <2>2. ptr \in iter .. Backup /\ ptr + job.width <= win_end
    <3>1. iter \in Nat /\ win_end \in Nat /\ iter <= win_end /\ win_end <= Backup /\ Backup \in Nat
      BY BufferAssumption DEF ReaderIInv, ReaderTypeOK, Bounds, Cells, Backup
    <3> QED BY <1>0, <2>1, <3>1
  <2>3. job.kind = "bytes" /\ job.width = job.step
    BY <1>6, JobFacts DEF FindBytes, ReaderIInv, ReaderTypeOK
  <2> QED BY <1>4, <1>6, <2>1, <2>2, <2>3 DEF FindBytes
<1>7. CASE UNCHANGED readerVars
  BY <1>7 DEF readerVars
<1> QED BY <1>1, <1>2, <1>3, <1>5, <1>6, <1>7, <1>8 DEF ReaderNext

(***************************************************************************)
(* Over an aligned job the chunked reader implements LinearScan: every     *)
(* number candidate of the region in order, each with its own bytes, until *)
(* the region ends or a read fails.                                        *)
(***************************************************************************)
THEOREM ImplementsLinearScan == ReaderSpec => LinearScanSpec
<1>1. ReaderInit => Linear!Init
  <2> SUFFICES ASSUME ReaderInit PROVE Linear!Init
      OBVIOUS
  <2>1. job.first \in Nat BY JobFacts DEF ReaderInit
  <2> QED BY <2>1 DEF ReaderInit, Linear!Init
<1>2. ReaderIInv /\ [ReaderNext]_readerVars => [Aligned(job) => Linear!Next]_(Linear!linearVars)
  BY NextSimulates
<1> QED
  BY <1>1, <1>2, ReaderInvariance, PTL DEF ReaderSpec, LinearScanSpec
===============================================================================
