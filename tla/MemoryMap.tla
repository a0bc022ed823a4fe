-------------------------------- MODULE MemoryMap --------------------------------
(***************************************************************************)
(* The memory map that mypower makes of /proc/pid/maps, and the region     *)
(* command, which filters and shows a copy of it (src/src/vmmap.cpp,       *)
(* cmd_region.cpp).                                                        *)
(***************************************************************************)
EXTENDS Target, FiniteSets, TLC

CONSTANTS
  Rooted,      \* the words that begin with a slash
  RegionList,  \* the view of the regions
  Selections   \* arguments of the region command: what the regions are selected by,
               \* and the address or the word

ASSUME MapAssumption == RegionList \in OtherViews

\* A process has finitely many lines; none is empty, and no two of them overlap.
ASSUME LinesAssumption ==
  \A m \in InitialMaps : \A p \in Pids :
    /\ IsFiniteSet(m[p])
    /\ \A line \in m[p] : line.first < line.end
    /\ \A a, b \in m[p] : a # b => Cells(a) \cap Cells(b) = {}

Bss == <<"[anon:.bss]">>

VARIABLES
  listed   \* the regions a RegionListView shows, or Nothing

\* The lines of a map come in ascending order.
LinesOf(p) ==
  CHOOSE s \in [1 .. Cardinality(maps[p]) -> maps[p]] :
    \A i, j \in DOMAIN s : i < j => s[i].first < s[j].first

\* A file is the first word, if it is a path; everything else describes the region.
FileOf(name) == IF name # <<>> /\ name[1] \in Rooted THEN <<name[1]>> ELSE <<>>
DescOf(name) == SubSeq(name, Len(FileOf(name)) + 1, Len(name))

\* Mutant: a region takes over the file of the region before it, wherever that ends.
AdoptsAnywhere(before, line) == before # <<>> /\ DescOf(line.name) = Bss

\* A region of zeros directly behind another belongs to the same file.
Adopts(before, line) ==
  /\ before # <<>> /\ DescOf(line.name) = Bss
  /\ before[Len(before)].end = line.first

\* The region of a line, given the regions before it.
RegionOf(before, line) ==
  [first  |-> line.first, end |-> line.end,
   prot   |-> line.perms \ {"s"}, shared |-> "s" \in line.perms,
   file   |-> IF Adopts(before, line) THEN before[Len(before)].file ELSE FileOf(line.name),
   desc   |-> DescOf(line.name),
   android_bss |-> Adopts(before, line)]

\* VMRegion::snapshot.
MapOf(p) ==
  LET lines == LinesOf(p)
      Front[n \in 0 .. Len(lines)] ==
        IF n = 0 THEN <<>> ELSE Append(Front[n - 1], RegionOf(Front[n - 1], lines[n]))
  IN  Front[Len(lines)]

\* The regions an argument selects: those that hold an address, those whose file or
\* description matches, or all.
Selected(map, s) ==
  SelectSeq(map, LAMBDA r :
    \/ s.by = "all"
    \/ s.by = "address" /\ r.first <= s.arg /\ s.arg < r.end
    \/ s.by = "name" /\ \E i \in DOMAIN (r.file \o r.desc) : (r.file \o r.desc)[i] = s.arg)

MapInit == listed = Nothing

\* region: what is listed is a copy, which outlives changes of the map.  An address
\* that is an expression but not a number is used without a check.
RegionCommand(s) ==
  /\ process # Nothing
  /\ IF s.by = "address" /\ s.arg \notin Nat
     THEN crashed' = TRUE /\ UNCHANGED <<vars, listed>>
     ELSE /\ listed' = Selected(MapOf(process), s)
          /\ Show(RegionList)
          /\ UNCHANGED <<crashed, process, scans, sessions, current>>

\* The keys s and S sort the regions by their size, equal ones in any order.
SortRegions ==
  /\ shown = RegionList
  /\ LET Orders  == {[i \in DOMAIN listed |-> listed[order[i]]] :
                       order \in Permutations(DOMAIN listed)}
         Bytes(r) == r.end - r.first
     IN  \/ listed' \in {q \in Orders : \A i, j \in DOMAIN q : i < j => Bytes(q[i]) <= Bytes(q[j])}
         \/ listed' \in {q \in Orders : \A i, j \in DOMAIN q : i < j => Bytes(q[i]) >= Bytes(q[j])}
  /\ UNCHANGED <<vars, crashed>>
-------------------------------------------------------------------------------
(***************************************************************************)
(* Properties.                                                             *)
(***************************************************************************)
(***************************************************************************)
(* A scan that leaves out files still searches the zeros behind a program  *)
(* or a library, and the list names the file they belong to: a region that *)
(* is taken for them follows the regions of that file without a gap, also  *)
(* when the process has unmapped some of them, and every other region      *)
(* names the file of its own line.                                         *)
(***************************************************************************)
BssFollowsFile ==
  \A p \in Pids :
    LET map == MapOf(p)
    IN  \A i \in 1 .. Len(map) :
          IF map[i].android_bss
          THEN \E j \in 1 .. i - 1 :
                 /\ ~map[j].android_bss /\ map[j].file = map[i].file
                 /\ \A k \in j .. i - 1 : /\ map[k].end = map[k + 1].first
                                          /\ map[k + 1].android_bss
          ELSE \E line \in maps[p] :
                 /\ line.first = map[i].first /\ line.end = map[i].end
                 /\ map[i].file = FileOf(line.name)
===============================================================================
