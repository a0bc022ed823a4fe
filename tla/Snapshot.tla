------------------------------- MODULE Snapshot -------------------------------
(***************************************************************************)
(* The snapshot command and the process it loads                           *)
(* (src/src/cmd_snapshot.cpp): save_process copies the regions of a target *)
(* into a .memory file and describes them in a .json file; load_process    *)
(* puts a ProcessSnapshot in the place of the target; its read() relocates *)
(* a list of requests into the saved regions and copies between two lists  *)
(* of buffers of different shapes.                                         *)
(*                                                                         *)
(* When save_process returns, info_file is closed before memory_file: the  *)
(* description can be complete while the FILE still holds back the tail of *)
(* the pages, and nobody looks at what its fclose returns.                 *)
(*                                                                         *)
(* The unit of memory is a page, of which the regions and what             *)
(* process_vm_readv returns are multiples.  A page holds one number; the   *)
(* page at address a holds a until the target stores into it.              *)
(***************************************************************************)
EXTENDS Integers, Sequences, FiniteSetsExt, SequencesExt

CONSTANTS
  Regions,     \* the target's memory map, ascending: [first, end, prot]
  Unreadable,  \* addresses process_vm_readv may refuse
  Buffer,      \* buffer_size, in pages
  FileBuffer,  \* the pages a FILE may hold back
  Names,       \* the file names prefix, prefix1, ...: 0 .. n
  Requests,    \* the remote lists read() is called with
  Shapes,      \* the lengths of the local lists
  MaxStores,   \* bound on the stores of the target
  MaxLoads,    \* bound on the loads and crashes of mypower
  NoFile, Truncated, Zero, Live, NoByte

ASSUME SnapshotAssumption ==
  /\ Buffer \in Nat \ {0} /\ FileBuffer \in Nat /\ Names \subseteq Nat
  /\ Regions \in Seq([first : Nat, end : Nat, prot : Nat]) /\ Regions # <<>>
  /\ \A i \in DOMAIN Regions : Regions[i].first < Regions[i].end
  /\ \A i, j \in DOMAIN Regions : i < j => Regions[i].end <= Regions[j].first

ASSUME RequestsAssumption ==
  Requests \subseteq Seq([addr : Nat, len : Nat]) /\ Shapes \subseteq Seq(Nat)

VARIABLES
  mem,        \* the target's pages
  held,       \* the target does not run: it was stopped, or found stopped
  memory,     \* name -> the pages of the .memory file that reached the disk, or NoFile
  unwritten,  \* the pages the FILE of memory_file holds back
  json,       \* name -> NoFile, Truncated, or the object written
  pc,         \* "idle", "saving", "describing", "closing" or "copying"
  name,       \* the prefix save_process settled on
  items,      \* jregions
  begin,      \* the address the current region is read at next
  saved,      \* saved_size of the current region
  offset,     \* saved_offset
  process,    \* _app._process: Live, or the ProcessSnapshot loaded
  call,       \* the call of read(): [remote, lens]
  copy,       \* iovec_copy's position, see CopyStart
  local,      \* the buffers of the local list
  stores, loads,
  image       \* history: name -> the target's pages when the save began and whether
              \* it was held, or NoFile

saveVars == <<memory, unwritten, json, name, items, begin, saved, offset, image>>
readVars == <<call, copy, local>>
vars == <<mem, held, saveVars, pc, process, readVars, stores, loads>>

Pages == UNION {Regions[i].first .. Regions[i].end - 1 : i \in DOMAIN Regions}

Idle == [d |-> 0, s |-> 0, dptr |-> 0, sptr |-> 0, sz |-> 0]

Init ==
  /\ mem = [a \in Pages |-> a]
  /\ held = FALSE
  /\ memory = [n \in Names |-> NoFile] /\ json = [n \in Names |-> NoFile]
  /\ image = [n \in Names |-> NoFile]
  /\ pc = "idle" /\ name = 0 /\ items = <<>> /\ begin = 0 /\ saved = 0
  /\ unwritten = <<>> /\ offset = 0
  /\ process = Live
  /\ call = [remote |-> <<>>, lens |-> <<>>] /\ copy = Idle /\ local = <<>>
  /\ stores = 0 /\ loads = 0

\* The target stores into a page, unless it is stopped.
TargetRuns ==
  /\ ~held /\ stores < MaxStores
  /\ \E a \in Pages : mem' = [mem EXCEPT ![a] = @ + 100]
  /\ stores' = stores + 1
  /\ UNCHANGED <<held, saveVars, pc, process, readVars, loads>>

-------------------------------------------------------------------------------
(* ProcessSnapshot::read: relocate_remote                                   *)

Map == process.regions

Covers(i, q) == Map[i].first <= q.addr /\ q.addr + q.len <= Map[i].end

\* _address_index.lower_bound, or the last region.
LowerBound(a) == Min({i \in DOMAIN Map : Map[i].first >= a} \union {Len(Map)})

\* The regions the search comes by, downwards from the lower bound.
Holds(i, q) ==
  /\ i <= LowerBound(q.addr) /\ Covers(i, q)
  /\ \A j \in i + 1 .. LowerBound(q.addr) : Map[j].end >= q.addr
  /\ Map[i].prot # 0 /\ Map[i].pages # <<>>

\* relocate_remote: all requests, or none.
Relocates(remote) == \A k \in DOMAIN remote : \E i \in DOMAIN Map : Holds(i, remote[k])

Relocated(q) ==
  LET i == CHOOSE i \in DOMAIN Map : Holds(i, q)
  IN  SubSeq(Map[i].pages, q.addr - Map[i].first + 1, q.addr - Map[i].first + q.len)

-------------------------------------------------------------------------------
(* save_process                                                             *)

\* get_memory_regions of the target, or of the snapshot that is loaded.
Sources == IF process = Live THEN Regions ELSE Map

Current == Sources[Len(items) + 1]

\* The first name without a description.
\* Mutant: the name is taken as it was typed.
FreeNameTyped == 0

FreeName == Min({n \in Names : json[n] = NoFile})

\* AutoSuspendResume stops the target only if it finds it running, and leaves a
\* snapshot alone.  What a snapshot of a snapshot holds is the target of then.
SaveBegins ==
  /\ pc = "idle"
  /\ \E n \in Names : json[n] = NoFile
  /\ name' = FreeName
  /\ held' \in IF process = Live THEN BOOLEAN ELSE {held}
  /\ memory' = [memory EXCEPT ![FreeName] = <<>>]
  /\ image' = [image EXCEPT ![FreeName] =
       IF process = Live THEN [pages |-> mem, held |-> held'] ELSE image[process.from]]
  /\ items' = <<>> /\ begin' = Sources[1].first
  /\ saved' = 0 /\ offset' = 0 /\ unwritten' = <<>>
  /\ pc' = "saving"
  /\ UNCHANGED <<mem, json, process, readVars, stores, loads>>

Wanted == Min({Buffer, Current.end - begin})

Request == [addr |-> begin, len |-> Wanted]

\* The pages one read may return: those of the target up to the first that is
\* refused, or all that was asked of a snapshot.
Reads ==
  IF process = Live
  THEN {[k \in 1 .. n |-> mem[begin + k - 1]] :
          n \in {m \in 1 .. Wanted : m = Wanted \/ begin + m \in Unreadable}}
  ELSE {Relocated(q) : q \in {r \in {Request} : Relocates(<<r>>)}}

\* read() may return -1.
Refused == IF process = Live THEN begin \in Unreadable ELSE ~Relocates(<<Request>>)

\* The first k of the pages w reach the disk.
OnDisk(w, k) == [memory EXCEPT ![name] = @ \o SubSeq(w, 1, k)]

\* fwrite: at most the pages the FILE has room for stay behind.
SaveChunk ==
  /\ pc = "saving" /\ Current.prot # 0 /\ begin < Current.end
  /\ \E pages \in Reads :
       /\ LET w == unwritten \o pages
          IN  \E k \in 0 .. Len(w) :
                /\ Len(w) - k <= FileBuffer
                /\ memory' = OnDisk(w, k)
                /\ unwritten' = SubSeq(w, k + 1, Len(w))
       /\ begin' = begin + Len(pages)
       /\ saved' = saved + Len(pages)
  /\ UNCHANGED <<mem, held, json, pc, name, items, offset, image, process, readVars,
                 stores, loads>>

\* A region in a description.
Item == [first : Nat, end : Nat, prot : Nat, size : Nat, offset : Nat]

\* Region r goes into the description with the offset of its pages.
Listed(prot) ==
  /\ items' = Append(items, [first |-> Current.first, end |-> Current.end, prot |-> prot,
                             size |-> saved, offset |-> offset])
  /\ saved' = 0
  /\ IF Len(items') = Len(Sources)
     THEN pc' = "describing" /\ UNCHANGED begin
     ELSE pc' = "saving" /\ begin' = Sources[Len(items') + 1].first
  /\ UNCHANGED <<mem, held, memory, unwritten, json, name, image, process, readVars,
                 stores, loads>>

\* Mutant: the pages of a region that failed are not counted.
DescribedUncounted(prot) ==
  Listed(prot) /\ offset' = offset + (IF prot = 0 THEN 0 ELSE saved)

Described(prot) == Listed(prot) /\ offset' = offset + saved

SaveRegion ==
  /\ pc = "saving"
  /\ Current.prot # 0 => begin = Current.end
  /\ Described(Current.prot)

\* read() returns -1: what was read of the region stays in the file, but the
\* region is described as one that cannot be accessed.
SaveRegionFails ==
  /\ pc = "saving" /\ Current.prot # 0 /\ begin < Current.end /\ Refused
  /\ Described(0)

\* save_process returns, its locals are gone and the guard continues the target.
Leaves ==
  /\ pc' = "idle" /\ held' = FALSE
  /\ name' = 0 /\ items' = <<>> /\ begin' = 0 /\ saved' = 0 /\ offset' = 0
  /\ unwritten' = <<>>

\* fwrite reports that the disk is full: the command returns, and what the FILE
\* holds still gets to the disk as far as there is room.
DiskFull ==
  /\ pc = "saving" /\ Current.prot # 0 /\ begin < Current.end
  /\ \E pages \in Reads :
       \E k \in 0 .. Len(unwritten \o pages) : memory' = OnDisk(unwritten \o pages, k)
  /\ Leaves
  /\ UNCHANGED <<mem, json, image, process, readVars, stores, loads>>

\* info_file is written and closed; nobody looks whether it could be opened, or
\* whether all of it was written.
Describe ==
  /\ pc = "describing"
  /\ json' \in {json, [json EXCEPT ![name] = items], [json EXCEPT ![name] = Truncated]}
  /\ pc' = "closing"
  /\ UNCHANGED <<mem, held, memory, unwritten, name, items, begin, saved, offset, image,
                 process, readVars, stores, loads>>

\* memory_file is closed: what the FILE holds gets to the disk as far as there
\* is room, and nobody looks how far that is.  The guard goes last.
CloseMemory ==
  /\ pc = "closing"
  /\ \E k \in 0 .. Len(unwritten) : memory' = OnDisk(unwritten, k)
  /\ Leaves
  /\ UNCHANGED <<mem, json, image, process, readVars, stores, loads>>

\* mypower is killed and started again: what the FILE holds is lost.  A
\* description that was begun may be cut off.
Crash ==
  /\ loads < MaxLoads /\ loads' = loads + 1
  /\ pc \in {"saving", "describing", "closing"}
  /\ json' \in {json} \union
       (IF pc = "describing" THEN {[json EXCEPT ![name] = Truncated]} ELSE {})
  /\ Leaves
  /\ process' = Live
  /\ UNCHANGED <<mem, memory, image, readVars, stores>>

-------------------------------------------------------------------------------
(* load_process                                                             *)

\* The pages of region r of a description: fread takes all of what was saved,
\* or the region cannot be accessed; the rest of the vector is zero.
LoadedRegion(n, r) ==
  LET f == memory[n]
      complete == r.size > 0 /\ r.offset + r.size <= Len(f)
  IN  [first |-> r.first, end |-> r.end,
       prot |-> IF r.size > 0 /\ ~complete THEN 0 ELSE r.prot,
       pages |-> IF complete
                 THEN [k \in 1 .. r.end - r.first |->
                         IF k <= r.size THEN f[r.offset + k] ELSE Zero]
                 ELSE <<>>]

Load ==
  /\ pc = "idle" /\ loads < MaxLoads /\ loads' = loads + 1
  /\ \E n \in Names :
       /\ json[n] \notin {NoFile, Truncated}
       /\ process' = [from |-> n,
                      regions |-> [i \in DOMAIN json[n] |-> LoadedRegion(n, json[n][i])]]
  /\ UNCHANGED <<mem, held, saveVars, pc, readVars, stores>>

\* attach -p
Attach ==
  /\ pc = "idle" /\ process # Live
  /\ process' = Live
  /\ UNCHANGED <<mem, held, saveVars, pc, readVars, stores, loads>>

-------------------------------------------------------------------------------
(* ProcessSnapshot::read: iovec_copy                                        *)

\* A call that cannot be relocated returns -1 and copies nothing.
ReadBegins ==
  /\ pc = "idle" /\ process # Live
  /\ \E remote \in Requests, lens \in Shapes :
       /\ Relocates(remote)
       /\ call' = [remote |-> remote, lens |-> lens]
       /\ local' = [d \in DOMAIN lens |-> [k \in 1 .. lens[d] |-> NoByte]]
  /\ copy' = [d |-> 1, s |-> 1, dptr |-> 0, sptr |-> 0, sz |-> 0]
  /\ pc' = "copying"
  /\ UNCHANGED <<mem, held, saveVars, process, stores, loads>>

SrcLeft == call.remote[copy.s].len - copy.sptr
DstLeft == call.lens[copy.d] - copy.dptr
Chunk   == Min({SrcLeft, DstLeft})

\* Mutant: the position in a buffer is lost when the source buffer is used up.
CopyChunkFromStart ==
  /\ pc = "copying" /\ copy.d <= Len(call.lens) /\ copy.s <= Len(call.remote)
  /\ local' = [local EXCEPT ![copy.d] =
       [k \in DOMAIN @ |->
          IF k \in copy.dptr + 1 .. copy.dptr + Chunk
          THEN Relocated(call.remote[copy.s])[copy.sptr + k - copy.dptr] ELSE @[k]]]
  /\ copy' = [d    |-> copy.d + (IF Chunk = DstLeft THEN 1 ELSE 0),
              s    |-> copy.s + (IF Chunk = SrcLeft THEN 1 ELSE 0),
              dptr |-> 0,
              sptr |-> IF Chunk = SrcLeft THEN 0 ELSE copy.sptr + Chunk,
              sz   |-> copy.sz + Chunk]
  /\ UNCHANGED <<mem, held, saveVars, pc, process, call, stores, loads>>

\* One turn of the loop of iovec_copy: memcpy, and the full or the used-up
\* buffer, or both, give way to the next.
CopyChunk ==
  /\ pc = "copying" /\ copy.d <= Len(call.lens) /\ copy.s <= Len(call.remote)
  /\ local' = [local EXCEPT ![copy.d] =
       [k \in DOMAIN @ |->
          IF k \in copy.dptr + 1 .. copy.dptr + Chunk
          THEN Relocated(call.remote[copy.s])[copy.sptr + k - copy.dptr] ELSE @[k]]]
  /\ copy' = [d    |-> copy.d + (IF Chunk = DstLeft THEN 1 ELSE 0),
              s    |-> copy.s + (IF Chunk = SrcLeft THEN 1 ELSE 0),
              dptr |-> IF Chunk = DstLeft THEN 0 ELSE copy.dptr + Chunk,
              sptr |-> IF Chunk = SrcLeft THEN 0 ELSE copy.sptr + Chunk,
              sz   |-> copy.sz + Chunk]
  /\ UNCHANGED <<mem, held, saveVars, pc, process, call, stores, loads>>

\* Mutant: the loop ends when both lists are used up.
CopyDoneBoth == pc = "copying" /\ copy.d > Len(call.lens) /\ copy.s > Len(call.remote)

CopyDone == pc = "copying" /\ (copy.d > Len(call.lens) \/ copy.s > Len(call.remote))

ReadReturns ==
  /\ CopyDone
  /\ pc' = "idle"
  /\ call' = [remote |-> <<>>, lens |-> <<>>] /\ copy' = Idle /\ local' = <<>>
  /\ UNCHANGED <<mem, held, saveVars, process, stores, loads>>

-------------------------------------------------------------------------------
SaveStep ==
  SaveChunk \/ SaveRegion \/ SaveRegionFails \/ DiskFull \/ Describe \/ CloseMemory
ReadStep == CopyChunk \/ ReadReturns

Next == \/ TargetRuns \/ SaveBegins \/ SaveStep \/ Crash
        \/ Load \/ Attach \/ ReadBegins \/ ReadStep

Spec == Init /\ [][Next]_vars

\* The command's own thread goes on: it waits for nobody.
FairSpec == Spec /\ WF_vars(SaveStep \/ ReadStep)

-------------------------------------------------------------------------------
TypeOK ==
  /\ mem \in [Pages -> Nat] /\ held \in BOOLEAN
  /\ DOMAIN json = Names /\ DOMAIN memory = Names /\ DOMAIN image = Names
  /\ pc \in {"idle", "saving", "describing", "closing", "copying"}
  /\ process # Live => process.from \in Names
  /\ pc \in {"saving", "describing", "closing"} =>
       /\ name \in Names /\ items \in Seq(Item) /\ offset \in Nat
       /\ memory[name] \in Seq(Nat) /\ unwritten \in Seq(Nat)
       /\ Len(unwritten) <= FileBuffer
  /\ pc = "saving" =>
       begin \in Current.first .. Current.end /\ saved \in Nat

\* Where the requests of the pending call lie, and what was delivered, each
\* as one sequence of pages.
Asked == FlattenSeq([k \in DOMAIN call.remote |->
           [j \in 1 .. call.remote[k].len |-> call.remote[k].addr + j - 1]])
Delivered == FlattenSeq(local)

\* A read returns the pages asked for, in their order, as many as fit into
\* both lists, whatever the shapes of the lists, and nothing behind them.
ReadDelivers ==
  CopyDone =>
    /\ copy.sz = Min({Len(Asked), Len(Delivered)})
    /\ \A k \in DOMAIN Delivered :
         IF k <= copy.sz
         THEN \E i \in DOMAIN Map :
                /\ Map[i].first <= Asked[k] /\ Asked[k] < Map[i].end
                /\ Delivered[k] = Map[i].pages[Asked[k] - Map[i].first + 1]
         ELSE Delivered[k] = NoByte

\* What can be read from a snapshot is what the target held when it was
\* saved, provided it was stopped: no page of another region, none that was
\* never saved or never reached the disk, none of a file that was written again
\* later; also when it was saved from a snapshot.
SnapshotFaithful ==
  process # Live /\ image[process.from].held =>
    \A i \in DOMAIN Map : Map[i].prot # 0 =>
      \A k \in DOMAIN Map[i].pages : Map[i].pages[k] = image[process.from].pages[Map[i].first + k - 1]

\* A complete description never changes, and neither does its .memory file, by
\* later commands or crashes, but for the tail that the save which wrote the
\* description adds when it closes the file.
FinishedKept ==
  [][\A n \in Names :
       json[n] \notin {NoFile, Truncated} =>
         /\ json'[n] = json[n]
         /\ \/ memory'[n] = memory[n]
            \/ pc = "closing" /\ n = name /\ IsPrefix(memory[n], memory'[n])]_vars

\* A save or a read that has begun comes to an end.
CommandsEnd == pc # "idle" ~> pc = "idle"
===============================================================================
