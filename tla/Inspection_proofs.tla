---------------------------- MODULE Inspection_proofs ----------------------------
(***************************************************************************)
(* The chains that a pointer search prints can be followed, they are all   *)
(* the chains there are when the memory stands still, and what a data view *)
(* shows is memory of the process it was opened for, for any               *)
(* number of processes, words, limits and changes of the memory and for    *)
(* every interleaving; and the commands that inspect memory are commands   *)
(* of the application.                                                     *)
(***************************************************************************)
EXTENDS Inspection, App_proofs, FiniteSetTheorems

(***************************************************************************)
(* Sequences of which the last element is changed or taken away.           *)
(***************************************************************************)
LEMMA ReplaceIs ==
  ASSUME NEW S, NEW s \in Seq(S), NEW i \in 1 .. Len(s), NEW x \in S
  PROVE  /\ [s EXCEPT ![i] = x] \in Seq(S)
         /\ Len([s EXCEPT ![i] = x]) = Len(s)
         /\ \A j \in 1 .. Len(s) : [s EXCEPT ![i] = x][j] = IF j = i THEN x ELSE s[j]
BY ExceptSeq

LEMMA FrontIs ==
  ASSUME NEW S, NEW s \in Seq(S), s # <<>>
  PROVE  /\ SubSeq(s, 1, Len(s) - 1) \in Seq(S)
         /\ Len(SubSeq(s, 1, Len(s) - 1)) = Len(s) - 1
         /\ \A n \in 1 .. Len(s) - 1 : SubSeq(s, 1, Len(s) - 1)[n] = s[n]
<1> DEFINE m == Len(s) - 1
<1>1. m \in Nat /\ m < Len(s) /\ Len(s) \in Nat BY EmptySeq, LenProperties
<1> HIDE DEF m
<1>2. \A n \in 1 .. m : n \in 1 .. Len(s) BY <1>1
<1>3. \A n \in 1 .. m : s[n] \in S BY <1>2, ElementOfSeq
<1>4. /\ SubSeq(s, 1, m) \in Seq(S)
      /\ Len(SubSeq(s, 1, m)) = IF 1 <= m THEN m - 1 + 1 ELSE 0
      /\ \A n \in 1 .. m - 1 + 1 : SubSeq(s, 1, m)[n] = s[1 + n - 1]
  BY <1>1, <1>3, SubSeqProperties
<1>5. (IF 1 <= m THEN m - 1 + 1 ELSE 0) = m /\ m - 1 + 1 = m BY <1>1
<1>6. \A n \in 1 .. m : 1 + n - 1 = n BY <1>1
<1> QED BY <1>4, <1>5, <1>6 DEF m

-------------------------------------------------------------------------------
(***************************************************************************)
(* The memory map: its lines in ascending order.                           *)
(***************************************************************************)
InLineOrder(s, T) ==
  /\ s \in [1 .. Cardinality(T) -> T]
  /\ \A i, j \in 1 .. Cardinality(T) : i < j => s[i].first < s[j].first

\* The lowest line comes before the others.
LEMMA LowestFirst ==
  ASSUME NEW T, IsFiniteSet(T), \A x \in T : x.first \in Nat,
         NEW low, low.first \in Nat, \A x \in T : low.first < x.first,
         NEW s, InLineOrder(s, T)
  PROVE  \E t : InLineOrder(t, T \union {low})
<1> DEFINE c == Cardinality(T)
           U == T \union {low}
           t == [k \in 1 .. c + 1 |-> IF k = 1 THEN low ELSE s[k - 1]]
<1>1. low \notin T
  <2> SUFFICES ASSUME low \in T PROVE FALSE OBVIOUS
  <2>1. low.first < low.first OBVIOUS
  <2> QED BY <2>1
<1>2. c \in Nat /\ Cardinality(U) = c + 1 BY <1>1, FS_CardinalityType, FS_AddElement
<1> HIDE DEF c
<1>3. /\ s \in [1 .. c -> T]
      /\ \A i, j \in 1 .. c : i < j => s[i].first < s[j].first
  BY DEF InLineOrder, c
<1>4. \A k \in 1 .. c + 1 : k = 1 \/ k - 1 \in 1 .. c BY <1>2
<1>5. \A k \in 1 .. c : s[k] \in T BY <1>3
<1>6. t \in [1 .. c + 1 -> U] BY <1>4, <1>5
<1>7. ASSUME NEW i \in 1 .. c + 1, NEW j \in 1 .. c + 1, i < j PROVE t[i].first < t[j].first
  <2>1. j # 1 /\ j - 1 \in 1 .. c BY <1>2, <1>7
  <2>2. t[j] = s[j - 1] /\ t[j] \in T BY <1>5, <2>1
  <2>3. CASE i = 1
    <3>1. t[i] = low BY <2>3
    <3> QED BY <2>2, <3>1
  <2>4. CASE i # 1
    <3>1. i - 1 \in 1 .. c /\ i - 1 < j - 1 BY <1>2, <1>7, <2>4
    <3>2. t[i] = s[i - 1] BY <2>4
    <3> QED BY <1>3, <2>1, <2>2, <3>1, <3>2
  <2> QED BY <2>3, <2>4
<1> HIDE DEF t, U
<1>8. InLineOrder(t, U) BY <1>2, <1>6, <1>7 DEF InLineOrder
<1> QED BY <1>8 DEF U

\* By the least number of lines for which it fails.
LEMMA LineOrderExists ==
  ASSUME NEW S, IsFiniteSet(S), \A x \in S : x.first \in Nat,
         \A x, y \in S : x.first = y.first => x = y
  PROVE  \E s : InLineOrder(s, S)
<1> DEFINE Fails(T) == \A s : ~InLineOrder(s, T)
           Bad == {c \in Nat : \E T \in SUBSET S : Cardinality(T) = c /\ Fails(T)}
<1>0. IsFiniteSet(S) /\ Cardinality(S) \in Nat BY FS_CardinalityType
<1> SUFFICES ASSUME Bad # {} PROVE FALSE
  <2>1. S \in SUBSET S OBVIOUS
  <2> HIDE DEF Fails
  <2>2. ~Fails(S) BY <1>0, <2>1
  <2> QED BY <2>2 DEF Fails
<1> HIDE DEF Fails
<1>1. PICK c \in Bad : \A k \in Bad : c <= k
  <2>1. Bad \subseteq Nat OBVIOUS
  <2> HIDE DEF Bad
  <2> QED BY <2>1, LeastInSet
<1>2. c \in Nat BY <1>1
<1>3. PICK T \in SUBSET S : Cardinality(T) = c /\ Fails(T) BY <1>1
<1>4. IsFiniteSet(T) BY <1>0, <1>3, FS_Subset
<1>5. T # {}
  <2> SUFFICES ASSUME T = {} PROVE FALSE OBVIOUS
  <2>1. Cardinality(T) = 0 BY FS_EmptySet
  <2>2. InLineOrder([k \in 1 .. 0 |-> 0], T) BY <2>1 DEF InLineOrder
  <2> QED BY <1>3, <2>2 DEF Fails
<1>6. PICK low \in T : \A x \in T : low.first <= x.first
  <2> DEFINE F == {x.first : x \in T}
  <2>1. F \subseteq Nat /\ F # {} BY <1>5
  <2> HIDE DEF F
  <2>2. PICK n \in F : \A m \in F : n <= m BY <2>1, LeastInSet
  <2>3. PICK x \in T : n = x.first BY <2>2 DEF F
  <2>4. \A y \in T : y.first \in F BY DEF F
  <2>5. \A y \in T : x.first <= y.first BY <2>2, <2>3, <2>4
  <2> QED BY <2>5
<1> DEFINE R == T \ {low}
<1>7. /\ IsFiniteSet(R) /\ R \in SUBSET S /\ R \union {low} = T
      /\ Cardinality(R) = c - 1
  BY <1>3, <1>4, <1>6, FS_RemoveElement
<1>8. Cardinality(R) \in Nat BY <1>7, FS_CardinalityType
<1>9. ASSUME NEW x \in R PROVE x.first \in Nat /\ low.first \in Nat /\ low.first < x.first
  <2>1. x \in S /\ low \in S /\ x # low BY <1>3, <1>6
  <2>2. x.first \in Nat /\ low.first \in Nat /\ x.first # low.first BY <2>1
  <2>3. low.first <= x.first BY <1>6
  <2> QED BY <2>2, <2>3
<1>10. low.first \in Nat BY <1>3, <1>6
<1> HIDE DEF R
<1>11. ~Fails(R)
  <2> SUFFICES ASSUME Fails(R) PROVE FALSE OBVIOUS
  <2>1. c - 1 \in Bad BY <1>7, <1>8
  <2>2. c <= c - 1 BY <1>1, <2>1
  <2> QED BY <1>2, <2>2
<1>12. PICK s : InLineOrder(s, R) BY <1>11 DEF Fails
<1>13. \E t : InLineOrder(t, R \union {low}) BY <1>7, <1>9, <1>10, <1>12, LowestFirst
<1> QED BY <1>3, <1>7, <1>13 DEF Fails

-------------------------------------------------------------------------------
(***************************************************************************)
(* The memory map: the regions of its lines.                               *)
(***************************************************************************)
\* Region i of a map is no .bss, or follows the regions of its file.
Follows(map, i) ==
  map[i].android_bss =>
    \E j \in 1 .. i - 1 :
      /\ ~map[j].android_bss /\ map[j].file = map[i].file
      /\ \A k \in j .. i - 1 : map[k].end = map[k + 1].first /\ map[k + 1].android_bss

\* It is no .bss and has the file of its line, one of T.
OwnFile(map, i, T) ==
  ~map[i].android_bss =>
    \E line \in T : /\ line.first = map[i].first /\ line.end = map[i].end
                    /\ map[i].file = FileOf(line.name)

Region ==
  [first : Nat, end : Nat, prot : {line.perms \ {"s"} : line \in Lines}, shared : BOOLEAN,
   file : {FileOf(line.name) : line \in Lines}, desc : {DescOf(line.name) : line \in Lines},
   android_bss : BOOLEAN]

GoodMaps(T) ==
  {map \in Seq(Region) : \A i \in 1 .. Len(map) : Follows(map, i) /\ OwnFile(map, i, T)}

LEMMA RegionIs ==
  ASSUME NEW T \in SUBSET Lines, NEW map \in GoodMaps(T), NEW line \in T
  PROVE  Append(map, RegionOf(map, line)) \in GoodMaps(T)
<1> DEFINE r == RegionOf(map, line)
<1>1. line.first \in Nat /\ line.end \in Nat BY TargetAssumption
<1>2. /\ map \in Seq(Region)
      /\ \A i \in 1 .. Len(map) : Follows(map, i) /\ OwnFile(map, i, T)
  BY DEF GoodMaps
<1>3. /\ r.first = line.first /\ r.end = line.end /\ r.android_bss = Adopts(map, line)
      /\ r.file = IF Adopts(map, line) THEN map[Len(map)].file ELSE FileOf(line.name)
  BY DEF RegionOf
<1>4. PICK n \in Nat : n = Len(map) BY <1>2
<1>5. Adopts(map, line) => n \in 1 .. n /\ map[n] \in Region /\ map[n].end = line.first
  BY <1>2, <1>4 DEF Adopts
<1>6. r \in Region
  <2>1. r.file \in {FileOf(l.name) : l \in Lines} BY <1>3, <1>4, <1>5 DEF Region
  <2>2. Adopts(map, line) \in BOOLEAN BY DEF Adopts
  <2> QED BY <1>1, <1>3, <2>1, <2>2 DEF Region, RegionOf
<1> HIDE DEF r
<1>7. PICK new : new = Append(map, r) OBVIOUS
<1>8. /\ new \in Seq(Region) /\ Len(new) = n + 1
      /\ \A i \in 1 .. n : new[i] = map[i]
      /\ new[n + 1] = r
  BY <1>2, <1>4, <1>6, <1>7, AppendProperties
<1>9. ASSUME NEW i \in 1 .. n PROVE Follows(new, i)
  <2>1. Follows(map, i) /\ new[i] = map[i] BY <1>2, <1>4, <1>8
  <2> SUFFICES ASSUME map[i].android_bss
               PROVE  \E j \in 1 .. i - 1 :
                        /\ ~new[j].android_bss /\ new[j].file = new[i].file
                        /\ \A k \in j .. i - 1 : /\ new[k].end = new[k + 1].first
                                                 /\ new[k + 1].android_bss
    BY <2>1 DEF Follows
  <2>2. PICK j \in 1 .. i - 1 :
          /\ ~map[j].android_bss /\ map[j].file = map[i].file
          /\ \A k \in j .. i - 1 : map[k].end = map[k + 1].first /\ map[k + 1].android_bss
    BY <2>1 DEF Follows
  <2>3. j \in 1 .. n BY <1>4
  <2>4. \A k \in j .. i - 1 : k \in 1 .. n /\ k + 1 \in 1 .. n BY <1>4
  <2> QED BY <1>8, <2>1, <2>2, <2>3, <2>4
<1>10. Follows(new, n + 1)
  <2> SUFFICES ASSUME Adopts(map, line)
               PROVE  \E j \in 1 .. n :
                        /\ ~new[j].android_bss /\ new[j].file = r.file
                        /\ \A k \in j .. n : /\ new[k].end = new[k + 1].first
                                             /\ new[k + 1].android_bss
    <3>1. n + 1 - 1 = n BY <1>4
    <3> QED BY <1>3, <1>8, <3>1 DEF Follows
  <2>1. n \in 1 .. n /\ new[n] = map[n] /\ new[n + 1] = r BY <1>5, <1>8
  <2>2. /\ new[n].end = new[n + 1].first /\ new[n + 1].android_bss
        /\ r.file = map[n].file
    BY <1>3, <1>4, <1>5, <2>1
  <2>3. CASE ~map[n].android_bss
    <3>1. \A k \in n .. n : k = n BY <1>4
    <3> QED BY <2>1, <2>2, <2>3, <3>1
  <2>4. CASE map[n].android_bss
    <3>1. PICK j \in 1 .. n - 1 :
            /\ ~map[j].android_bss /\ map[j].file = map[n].file
            /\ \A k \in j .. n - 1 : map[k].end = map[k + 1].first /\ map[k + 1].android_bss
      BY <1>2, <1>4, <2>1, <2>4 DEF Follows
    <3>2. j \in 1 .. n /\ new[j] = map[j] BY <1>8
    <3>3. ASSUME NEW k \in j .. n
          PROVE  new[k].end = new[k + 1].first /\ new[k + 1].android_bss
      <4>1. CASE k = n BY <2>2, <4>1
      <4>2. CASE k # n
        <5>1. k \in j .. n - 1 /\ k \in 1 .. n /\ k + 1 \in 1 .. n BY <4>2
        <5> QED BY <1>8, <3>1, <5>1
      <4> QED BY <4>1, <4>2
    <3> QED BY <2>2, <3>1, <3>2, <3>3
  <2> QED BY <2>3, <2>4
<1>11. \A i \in 1 .. n + 1 : i \in 1 .. n \/ i = n + 1 BY <1>4
<1>12. ASSUME NEW i \in 1 .. n + 1 PROVE OwnFile(new, i, T)
  <2>1. CASE i \in 1 .. n
    <3>1. OwnFile(map, i, T) /\ new[i] = map[i] BY <1>2, <1>4, <1>8, <2>1
    <3> QED BY <3>1 DEF OwnFile
  <2>2. CASE i = n + 1
    <3>1. new[i] = r BY <1>8, <2>2
    <3> QED BY <1>3, <3>1 DEF OwnFile
  <2> QED BY <1>11, <2>1, <2>2
<1> QED BY <1>7, <1>8, <1>9, <1>10, <1>11, <1>12 DEF GoodMaps, r

\* What a target keeps of the maps it began with.
MapsOK ==
  /\ maps \in [Pids -> SUBSET Lines]
  /\ \A p \in Pids :
       /\ IsFiniteSet(maps[p])
       /\ \A line \in maps[p] : line.first < line.end
       /\ \A a, b \in maps[p] : a # b => Cells(a) \cap Cells(b) = {}

LEMMA FirstsDiffer ==
  ASSUME MapsOK, NEW p \in Pids, NEW a \in maps[p], NEW b \in maps[p], a.first = b.first
  PROVE  a = b
<1>1. a \in Lines /\ b \in Lines BY DEF MapsOK
<1>2. a.first \in Nat /\ a.end \in Nat /\ b.end \in Nat BY <1>1, TargetAssumption
<1>3. a.first < a.end /\ a.first < b.end BY DEF MapsOK
<1>4. a.first \in Cells(a) /\ a.first \in Cells(b) BY <1>2, <1>3 DEF Cells
<1> QED BY <1>4 DEF MapsOK

LEMMA MapIsGood ==
  ASSUME MapsOK, NEW p \in Pids
  PROVE  MapOf(p) \in GoodMaps(maps[p])
<1>0. PICK Good : Good = GoodMaps(maps[p]) OBVIOUS
<1> DEFINE lines == LinesOf(p)
           n     == Cardinality(maps[p])
           step  == [i \in 1 .. n |-> [map \in Good |-> Append(map, RegionOf(map, lines[i]))]]
           Is(f) == f = [i \in 0 .. Len(lines) |->
                           IF i = 0 THEN <<>> ELSE Append(f[i - 1], RegionOf(f[i - 1], lines[i]))]
           Front == CHOOSE f : Is(f)
<1>1. maps[p] \subseteq Lines /\ IsFiniteSet(maps[p]) /\ n \in Nat BY FS_CardinalityType DEF MapsOK
<1>2. lines \in [1 .. n -> maps[p]] /\ Len(lines) = n
  <2> DEFINE Q(s) == \A i, j \in DOMAIN s : i < j => s[i].first < s[j].first
  <2>1. \A x \in maps[p] : x.first \in Nat BY <1>1, TargetAssumption
  <2>2. PICK s : InLineOrder(s, maps[p]) BY <1>1, <2>1, FirstsDiffer, LineOrderExists
  <2>3. s \in [1 .. n -> maps[p]] /\ Q(s) BY <2>2 DEF InLineOrder
  <2>4. lines \in [1 .. n -> maps[p]]
    <3>1. lines = CHOOSE t \in [1 .. n -> maps[p]] : Q(t) BY DEF LinesOf
    <3> HIDE DEF Q, n, lines
    <3> QED BY <2>3, <3>1
  <2> HIDE DEF n, lines
  <2>5. PICK T : T = maps[p] OBVIOUS
  <2>6. lines \in [1 .. n -> T] BY <2>4, <2>5
  <2>7. Len(lines) = n BY <1>1, <2>6, SeqDef, LenProperties
  <2> QED BY <2>4, <2>7
<1>3. MapOf(p) = Front[Len(lines)] BY DEF MapOf
<1> HIDE DEF lines, n
<1>4. ASSUME NEW i \in 1 .. n, NEW map \in Good
      PROVE  Append(map, RegionOf(map, lines[i])) \in Good
  <2>1. lines[i] \in maps[p] /\ maps[p] \in SUBSET Lines BY <1>1, <1>2
  <2> QED BY <1>0, <2>1, RegionIs
<1>5. <<>> \in Good BY <1>0 DEF GoodMaps
<1>6. \A i \in 1 .. n : \A map \in Good : step[i][map] = Append(map, RegionOf(map, lines[i]))
  OBVIOUS
<1> HIDE DEF step
<1>7. PICK g : Recursive(g, Good, <<>>, n, step)
  <2>1. \A i \in 1 .. n : \A map \in Good : step[i][map] \in Good
    <3> SUFFICES ASSUME NEW i \in 1 .. n, NEW map \in Good PROVE step[i][map] \in Good
      OBVIOUS
    <3>1. step[i][map] = Append(map, RegionOf(map, lines[i])) BY <1>6
    <3> QED BY <1>4, <3>1, Zenon
  <2> QED BY <1>1, <1>5, <2>1, RecursionExists, Zenon
<1>8. Is(g)
  <2>1. ASSUME NEW i \in 0 .. n
        PROVE  g[i] = IF i = 0 THEN <<>> ELSE Append(g[i - 1], RegionOf(g[i - 1], lines[i]))
    <3>1. CASE i = 0 BY <1>7, <3>1 DEF Recursive
    <3>2. CASE i # 0
      <4>1. i \in 1 .. n /\ i - 1 \in 0 .. n BY <1>1, <3>2
      <4>2. g[i - 1] \in Good /\ g[i] = step[i][g[i - 1]] BY <1>7, <4>1 DEF Recursive
      <4> QED BY <1>6, <3>2, <4>1, <4>2
    <3> QED BY <3>1, <3>2
  <2>2. g = [i \in 0 .. n |-> g[i]] BY <1>7 DEF Recursive
  <2> QED BY <1>2, <2>1, <2>2
<1>9. Is(Front)
  <2> HIDE DEF Is
  <2> QED BY <1>8
<1> HIDE DEF Front
<1>10. \A i \in 0 .. n :
         Front[i] = IF i = 0 THEN <<>> ELSE Append(Front[i - 1], RegionOf(Front[i - 1], lines[i]))
  <2> SUFFICES ASSUME NEW i \in 0 .. n
               PROVE  Front[i] = IF i = 0 THEN <<>>
                                 ELSE Append(Front[i - 1], RegionOf(Front[i - 1], lines[i]))
    OBVIOUS
  <2>1. Front = [j \in 0 .. n |->
                   IF j = 0 THEN <<>> ELSE Append(Front[j - 1], RegionOf(Front[j - 1], lines[j]))]
    BY <1>2, <1>9
  <2> QED BY <2>1, Zenon
<1>11. ASSUME NEW i \in 1 .. n, Front[i - 1] \in Good PROVE Front[i] \in Good
  <2>1. i \in 0 .. n /\ i # 0 BY <1>1
  <2>2. Front[i] = Append(Front[i - 1], RegionOf(Front[i - 1], lines[i])) BY <1>10, <2>1
  <2> QED BY <1>4, <1>11, <2>2
<1>12. Front[0] \in Good
  <2>1. 0 \in 0 .. n BY <1>1
  <2> QED BY <1>5, <1>10, <2>1
<1>13. \A i \in 0 .. n : Front[i] \in Good BY <1>1, <1>11, <1>12, AllStay, Zenon
<1>14. n \in 0 .. n BY <1>1
<1> QED BY <1>0, <1>2, <1>3, <1>13, <1>14

LEMMA MapsFollow == MapsOK => BssFollowsFile
<1> SUFFICES ASSUME MapsOK, NEW p \in Pids
             PROVE  LET map == MapOf(p)
                    IN  \A i \in 1 .. Len(map) : Follows(map, i) /\ OwnFile(map, i, maps[p])
  BY DEF BssFollowsFile, Follows, OwnFile
<1>1. PICK map : map = MapOf(p) OBVIOUS
<1>2. map \in GoodMaps(maps[p]) BY <1>1, MapIsGood
<1> QED BY <1>1, <1>2 DEF GoodMaps

LEMMA MapsStay == MapsOK /\ [InspectionNext]_inspectionVars => MapsOK'
<1> SUFFICES ASSUME MapsOK, [InspectionNext]_inspectionVars PROVE MapsOK' OBVIOUS
<1>1. ASSUME \A p \in Pids : maps'[p] \subseteq maps[p], maps' \in [Pids -> SUBSET Lines]
      PROVE  MapsOK'
  <2>1. \A p \in Pids : IsFiniteSet(maps'[p]) BY <1>1, FS_Subset DEF MapsOK
  <2>2. \A p \in Pids : /\ \A line \in maps'[p] : line.first < line.end
                        /\ \A a, b \in maps'[p] : a # b => Cells(a) \cap Cells(b) = {}
    BY <1>1 DEF MapsOK
  <2> QED BY <1>1, <2>1, <2>2 DEF MapsOK
<1>2. CASE UNCHANGED maps BY <1>2 DEF MapsOK
<1>3. CASE Unmap
  <2>1. PICK q \in Pids : \E line \in maps[q] : maps' = [maps EXCEPT ![q] = @ \ {line}]
    BY <1>3 DEF Unmap
  <2>2. \A p \in Pids : maps'[p] \subseteq maps[p] BY <2>1 DEF MapsOK
  <2>3. maps' \in [Pids -> SUBSET Lines] BY <2>1 DEF MapsOK
  <2> QED BY <1>1, <2>2, <2>3
<1>4. UNCHANGED maps \/ Unmap
  <2>1. CASE Commands BY <2>1 DEF Commands, PointerCommand
  <2>2. CASE Work BY <2>2 DEF Work, PointerReturns
  <2>3. CASE TargetRuns BY <2>3 DEF TargetRuns, Store
  <2>4. CASE UNCHANGED inspectionVars BY <2>4 DEF inspectionVars, targetVars
  <2> QED BY <2>1, <2>2, <2>3, <2>4 DEF InspectionNext
<1> QED BY <1>2, <1>3, <1>4

(***************************************************************************)
(* VMRegion::snapshot takes zeros for the .bss of a file only where they   *)
(* follow the regions of that file without a gap, and gives every other    *)
(* region the file of its own line, whatever the process maps at the start *)
(* and unmaps while mypower runs.                                          *)
(***************************************************************************)
THEOREM BssIsAdopted == InspectionSpec => []BssFollowsFile
<1>1. InspectionInit => MapsOK
  BY TargetAssumption, LinesAssumption DEF InspectionInit, TargetInit, MapsOK
<1> QED BY <1>1, MapsStay, MapsFollow, PTL DEF InspectionSpec

-------------------------------------------------------------------------------
(***************************************************************************)
(* The pointer search.                                                     *)
(***************************************************************************)
USE TargetAssumption, SearchAssumption, ViewAssumption, AppAssumption

\* Every link so far was close enough to be followed, and led outside of the base.
Inner(links) ==
  \A i \in 1 .. Len(links) :
    links[i].offset < config.offset_max /\ ~InBase(links[i].addr)

FrameOK(f) ==
  /\ f \in Frame
  /\ Linked(f.links) /\ Inner(f.links)
  /\ \A m \in f.found : <<process, m[1], m[2]>> \in held["search"]

ChainOK(chain) ==
  /\ chain \in Seq(Link) /\ chain # <<>>
  /\ Len(chain) <= config.depth_max
  /\ InBase(chain[Len(chain)].addr)
  /\ Linked(chain)

MemoryOK ==
  /\ memory \in [Pids -> [Addresses -> Values]]
  /\ maps \in [Pids -> SUBSET Lines]
  /\ held = [w \in Watchers |-> held[w]]
  /\ process \in Pids \union {Nothing}

\* What holds while find_ref is at work.
\* A scan has a step, and the parts of its regions are intervals.
ScanOK ==
  search = "scan" => config.step # 0 /\ regions \subseteq [next : Nat, end : Nat]

SearchOK ==
  /\ process \in Pids /\ config \in Config
  /\ Facts(process) \subseteq held["search"]
  /\ stack \in Seq(Frame)
  /\ \A n \in 1 .. Len(stack) : FrameOK(stack[n])
  /\ \A n \in 1 .. Len(stack) :
       n < Len(stack) \/ search # "enter" => Len(stack[n].links) < config.depth_max
  /\ search \in {"enter", "scan", "walk"} => stack # <<>>
  /\ ScanOK
  /\ \A chain \in chains : ChainOK(chain)

SInv ==
  /\ MemoryOK
  /\ search \in {"idle", "enter", "scan", "walk", "done"}
  /\ search = "idle" => chains = {}
  /\ search # "idle" => SearchOK

-------------------------------------------------------------------------------
LEMMA ReadableFact ==
  ASSUME MemoryOK, NEW p \in Pids, NEW a, Readable(p, a)
  PROVE  a \in Addresses /\ <<p, a, memory[p][a]>> \in Facts(p)
<1>1. a \in Addresses
  <2>1. PICK line \in maps[p] : a \in Cells(line) BY DEF Readable
  <2>2. line \in Lines BY <2>1 DEF MemoryOK
  <2> QED BY <2>1, <2>2 DEF Cells
<1> QED BY <1>1 DEF Facts

LEMMA InitSInv == InspectionInit => SInv
<1> SUFFICES ASSUME InspectionInit PROVE SInv OBVIOUS
<1>1. MemoryOK
  BY DEF InspectionInit, TargetInit, Init, MemoryOK
<1> QED BY <1>1 DEF InspectionInit, SearchInit, SInv

(***************************************************************************)
(* Steps that leave the search alone.                                      *)
(***************************************************************************)
LEMMA IdleKeeps ==
  ASSUME SInv, search = "idle", MemoryOK', UNCHANGED searchVars
  PROVE  SInv'
BY DEF SInv, searchVars

LEMMA PlainHolds ==
  ASSUME SInv, Plain, UNCHANGED <<memory, maps, changes, searchVars>>, search = "idle"
  PROVE  SInv'
<1>1. process' \in Pids \union {Nothing}
  <2>1. process' = process \/ process' \in Pids
    BY DEF Plain, Report, Attach, Scan, Filter, ResetSession, SelectSession, DeleteSession,
           ShowView, EmptyLine, vars
  <2> QED BY <2>1 DEF SInv, MemoryOK
<1>2. held' = [w \in Watchers |-> held'[w]]
  BY DEF Plain, KeepData, SInv, MemoryOK
<1> QED BY <1>1, <1>2, IdleKeeps DEF SInv, MemoryOK

-------------------------------------------------------------------------------
(***************************************************************************)
(* Steps of the search.                                                    *)
(***************************************************************************)
\* A frame or a chain stays as good as it was while memory is only looked at.
LEMMA LookingKeeps ==
  ASSUME UNCHANGED <<memory, maps, process, held, config>>
  PROVE  /\ \A f : FrameOK(f) => FrameOK(f)'
         /\ \A chain : ChainOK(chain) => ChainOK(chain)'
         /\ Facts(process)' = Facts(process)
<1>1. \A f : FrameOK(f) => FrameOK(f)' BY DEF FrameOK, Linked, Inner, InBase
<1>2. \A chain : ChainOK(chain) => ChainOK(chain)' BY DEF ChainOK, Linked, InBase
<1>3. Facts(process)' = Facts(process) BY DEF Facts, Readable
<1> QED BY <1>1, <1>2, <1>3

\* What a step of the search has to show.
LEMMA StepHolds ==
  ASSUME SInv, search # "idle", search' \in {"enter", "scan", "walk", "done"},
         UNCHANGED <<memory, maps, process, held, config>>,
         stack' \in Seq(Frame),
         \A n \in 1 .. Len(stack') : FrameOK(stack'[n]),
         \A n \in 1 .. Len(stack') :
           n < Len(stack') \/ search' # "enter" => Len(stack'[n].links) < config.depth_max,
         search' \in {"enter", "scan", "walk"} => stack' # <<>>,
         ScanOK', \A chain \in chains' : ChainOK(chain)
  PROVE  SInv'
<1>1. MemoryOK' BY DEF SInv, MemoryOK
<1>2. SearchOK' BY LookingKeeps DEF SInv, SearchOK
<1> QED BY <1>1, <1>2 DEF SInv

LEMMA ReturnHolds ==
  ASSUME SInv, search \in {"enter", "scan", "walk"}, Return,
         UNCHANGED <<memory, maps, process, held>>
  PROVE  SInv'
<1>1. stack \in Seq(Frame) /\ stack # <<>> /\ Len(stack) \in Nat \ {0}
  BY DEF SInv, SearchOK
<1>2. /\ stack' \in Seq(Frame) /\ Len(stack') = Len(stack) - 1
      /\ \A n \in 1 .. Len(stack') : stack'[n] = stack[n]
  <2>1. stack' = SubSeq(stack, 1, Len(stack) - 1) BY DEF Return
  <2> QED BY <1>1, <2>1, FrontIs
<1>3. \A n \in 1 .. Len(stack') :
        /\ FrameOK(stack'[n]) /\ Len(stack'[n].links) < config.depth_max
  <2> TAKE n \in 1 .. Len(stack')
  <2>1. n \in 1 .. Len(stack) /\ n < Len(stack) BY <1>1, <1>2
  <2> QED BY <1>2, <2>1 DEF SInv, SearchOK
<1>4. search' \in {"walk", "done"} /\ (search' = "walk" => Len(stack') # 0)
  BY <1>1, <1>2 DEF Return
<1>5. UNCHANGED <<config, chains>> BY DEF Return
<1>6. search' \in {"enter", "scan", "walk"} => stack' # <<>> BY <1>2, <1>4
<1>7. \A chain \in chains' : ChainOK(chain) BY <1>5 DEF SInv, SearchOK
<1>8. ScanOK' BY <1>4 DEF ScanOK
<1> QED BY <1>2, <1>3, <1>4, <1>5, <1>6, <1>7, <1>8, StepHolds

\* The call at work, and a stack of which only its frame changes.
LEMMA TopFacts ==
  ASSUME SInv, search \in {"enter", "scan", "walk"}
  PROVE  /\ Len(stack) \in Nat \ {0} /\ Len(stack) \in 1 .. Len(stack)
         /\ stack \in Seq(Frame) /\ stack # <<>> /\ Top \in Frame
         /\ FrameOK(Top) /\ Pointer \in Words
         /\ search # "enter" => Len(Top.links) < config.depth_max
<1>1. stack \in Seq(Frame) /\ stack # <<>> /\ Len(stack) \in Nat \ {0}
  BY DEF SInv, SearchOK
<1>2. Len(stack) \in 1 .. Len(stack) BY <1>1
<1>3. FrameOK(Top) /\ (search # "enter" => Len(Top.links) < config.depth_max)
  BY <1>2 DEF SInv, SearchOK, Top
<1>4. Top \in Frame BY <1>3 DEF FrameOK
<1>5. Pointer \in Words
  <2>1. CASE Top.links = <<>>
    BY <2>1 DEF Pointer, PointerOf, SInv, SearchOK, Config
  <2>2. CASE Top.links # <<>>
    <3>1. Top.links \in Seq(Link) BY <1>4 DEF Frame
    <3>2. Top.links[Len(Top.links)] \in Link BY <2>2, <3>1
    <3> QED BY <2>2, <3>2 DEF Pointer, PointerOf, Link
  <2> QED BY <2>1, <2>2
<1> QED BY <1>1, <1>2, <1>3, <1>4, <1>5

LEMMA TopReplaced ==
  ASSUME SInv, search \in {"scan", "walk"}, NEW found,
         found \subseteq Addresses \X Values,
         \A m \in found : <<process, m[1], m[2]>> \in held["search"],
         NEW t, t = [stack EXCEPT ![Len(stack)].found = found]
  PROVE  /\ t \in Seq(Frame) /\ Len(t) = Len(stack) /\ t # <<>>
         /\ \A n \in 1 .. Len(t) : FrameOK(t[n]) /\ Len(t[n].links) < config.depth_max
<1>1. /\ Len(stack) \in 1 .. Len(stack) /\ stack \in Seq(Frame) /\ FrameOK(Top)
      /\ Len(Top.links) < config.depth_max
  BY TopFacts
<1> DEFINE f == [Top EXCEPT !.found = found]
<1>2. /\ f.links = Top.links /\ f.found = found /\ f \in Frame
  BY <1>1 DEF FrameOK, Frame
<1>3. FrameOK(f) BY <1>1, <1>2 DEF FrameOK
<1>4. t = [stack EXCEPT ![Len(stack)] = f] BY <1>1 DEF Top
<1> HIDE DEF f
<1>5. /\ t \in Seq(Frame) /\ Len(t) = Len(stack)
      /\ \A n \in 1 .. Len(stack) : t[n] = IF n = Len(stack) THEN f ELSE stack[n]
  <2>1. stack \in Seq(Frame) /\ Len(stack) \in 1 .. Len(stack) /\ f \in Frame
    BY <1>1, <1>2
  <2>2. /\ [stack EXCEPT ![Len(stack)] = f] \in Seq(Frame)
        /\ Len([stack EXCEPT ![Len(stack)] = f]) = Len(stack)
        /\ \A j \in 1 .. Len(stack) :
             [stack EXCEPT ![Len(stack)] = f][j] = IF j = Len(stack) THEN f ELSE stack[j]
    BY <2>1, ReplaceIs
  <2> QED BY <1>4, <2>2
<1>6. \A n \in 1 .. Len(t) : FrameOK(t[n]) /\ Len(t[n].links) < config.depth_max
  BY <1>1, <1>2, <1>3, <1>5 DEF SInv, SearchOK
<1>7. t # <<>> BY <1>1, <1>5
<1> QED BY <1>5, <1>6, <1>7

LEMMA TopChanges ==
  ASSUME SInv, search \in {"scan", "walk"}, search' \in {"scan", "walk", "done"},
         ScanOK', UNCHANGED <<memory, maps, process, held, config>>,
         NEW found, found \subseteq Addresses \X Values,
         \A m \in found : <<process, m[1], m[2]>> \in held["search"],
         stack' = [stack EXCEPT ![Len(stack)].found = found],
         \A chain \in chains' : ChainOK(chain)
  PROVE  SInv'
<1>1. /\ stack' \in Seq(Frame) /\ Len(stack') = Len(stack) /\ stack' # <<>>
      /\ \A n \in 1 .. Len(stack') :
           FrameOK(stack'[n]) /\ Len(stack'[n].links) < config.depth_max
  BY TopReplaced
<1> QED BY <1>1, StepHolds

LEMMA StackStays ==
  ASSUME SInv, search \in {"scan", "walk"}, search' \in {"scan", "walk"},
         ScanOK', UNCHANGED <<memory, maps, process, held, config, stack, chains>>
  PROVE  SInv'
BY StepHolds DEF SInv, SearchOK

LEMMA ListRegionsHolds ==
  ASSUME SInv, ListRegions, UNCHANGED <<memory, maps, process, held>>
  PROVE  SInv'
<1>1. \A n \in 1 .. Len(stack) : Len(stack[n].links) < config.depth_max
  <2> TAKE n \in 1 .. Len(stack)
  <2>1. Len(stack) \in Nat BY TopFacts DEF ListRegions
  <2>2. CASE n = Len(stack) BY <2>2 DEF ListRegions, Top
  <2>3. CASE n < Len(stack) BY <2>3 DEF ListRegions, SInv, SearchOK
  <2> QED BY <2>1, <2>2, <2>3
<1>2. /\ search' = "scan" /\ search = "enter" /\ UNCHANGED <<config, stack, chains>>
      /\ config.step # 0
      /\ regions' = {[next |-> line.first, end |-> line.end] :
                       line \in {l \in maps[process] : {"r", "w"} \subseteq l.perms}}
  BY DEF ListRegions
<1>3. \A line \in maps[process] : line.first \in Nat /\ line.end \in Nat
  BY <1>2, TargetAssumption DEF SInv, SearchOK, MemoryOK
<1>4. ScanOK' BY <1>2, <1>3 DEF ScanOK
<1> QED BY <1>1, <1>2, <1>4, StepHolds DEF SInv, SearchOK

\* A step that can be read is a word that can be read.
LEMMA WholeIs ==
  ASSUME SInv, search = "scan", NEW r \in regions
  PROVE  /\ r \in [next : Nat, end : Nat] /\ config.step \in Nat \ {0}
         /\ Whole(r) => Readable(process, r.next)
<1>1. r \in [next : Nat, end : Nat] /\ config.step \in Nat \ {0}
  BY DEF SInv, SearchOK, ScanOK, Config
<1>2. r.next \in r.next .. r.next + config.step - 1 BY <1>1
<1> QED BY <1>1, <1>2 DEF Whole

LEMMA ReadWordHolds ==
  ASSUME SInv, NEW r \in regions, ReadWord(r), UNCHANGED <<memory, maps, process, held>>
  PROVE  SInv'
<1> DEFINE v == memory[process][r.next]
<1>1. search = "scan" /\ UNCHANGED <<search, config, chains>> BY DEF ReadWord
<1>4. ScanOK'
  <2>1. ScanOK /\ r \in [next : Nat, end : Nat] /\ config.step \in Nat
    BY <1>1, WholeIs DEF SInv, SearchOK
  <2>2. Advance(r) \subseteq [next : Nat, end : Nat] BY <2>1 DEF Advance
  <2>3. regions' \subseteq regions \union Advance(r) BY DEF ReadWord
  <2> QED BY <1>1, <2>1, <2>2, <2>3 DEF ScanOK
<1>2. CASE UNCHANGED stack BY <1>1, <1>2, <1>4, StackStays
<1>3. CASE /\ Whole(r)
           /\ stack' = [stack EXCEPT ![Len(stack)].found = @ \union {<<r.next, v>>}]
  <2> DEFINE found == Top.found \union {<<r.next, v>>}
  <2>1. SearchOK BY <1>1 DEF SInv
  <2>2. MemoryOK /\ process \in Pids /\ Facts(process) \subseteq held["search"]
    BY <2>1 DEF SInv, SearchOK
  <2>3. r.next \in Addresses /\ <<process, r.next, v>> \in Facts(process)
    BY <1>1, <1>3, <2>2, WholeIs, ReadableFact
  <2>4. v \in Values BY <2>2, <2>3 DEF MemoryOK
  <2>5. /\ Top.found \subseteq Addresses \X Values
        /\ \A m \in Top.found : <<process, m[1], m[2]>> \in held["search"]
    BY <1>1, TopFacts DEF FrameOK, Frame
  <2> HIDE DEF v
  <2>6. /\ found \subseteq Addresses \X Values
        /\ \A m \in found : <<process, m[1], m[2]>> \in held["search"]
    BY <2>2, <2>3, <2>4, <2>5
  <2>7. stack' = [stack EXCEPT ![Len(stack)].found = found] BY <1>3 DEF Top
  <2>8. \A chain \in chains' : ChainOK(chain) BY <1>1, <2>1 DEF SearchOK
  <2> HIDE DEF found
  <2> QED BY <1>1, <1>4, <2>6, <2>7, <2>8, TopChanges
<1> QED BY <1>2, <1>3 DEF ReadWord

(***************************************************************************)
(* A match becomes a link.                                                 *)
(***************************************************************************)
LEMMA LinkAppended ==
  ASSUME SInv, search = "walk", NEW m \in Nearest, m[2] <= Pointer,
         NEW links, links = Append(Top.links, LinkOf(m))
  PROVE  /\ links \in Seq(Link) /\ links # <<>>
         /\ Len(links) \in Nat /\ Len(links) = Len(Top.links) + 1
         /\ Len(links) <= config.depth_max
         /\ links[Len(links)] = LinkOf(m)
         /\ \A i \in 1 .. Len(Top.links) : links[i] = Top.links[i]
         /\ Linked(links)
<1>1. /\ FrameOK(Top) /\ Top \in Frame /\ Pointer \in Words
      /\ Len(Top.links) < config.depth_max
  BY TopFacts
<1>2. m \in Top.found BY DEF Nearest
<1>3. m[1] \in Addresses /\ m[2] \in Values BY <1>1, <1>2 DEF Frame
<1>4. m[2] \in Nat /\ Pointer \in Nat /\ Pointer - m[2] \in Words
  <2>1. m[2] \in 0 .. Word - 1 /\ Pointer \in 0 .. Word - 1 /\ Word \in Nat
    BY <1>1, <1>3 DEF Words
  <2>2. m[2] <= Pointer OBVIOUS
  <2> DEFINE low == m[2]  high == Pointer
  <2> HIDE DEF low, high
  <2>3. low \in Nat /\ high \in Nat /\ high - low \in 0 .. Word - 1
    BY <2>1, <2>2 DEF low, high
  <2> QED BY <2>3 DEF low, high, Words
<1>5. LinkOf(m) \in Link BY <1>3, <1>4 DEF LinkOf, Link
<1>6. Top.links \in Seq(Link) /\ Len(Top.links) \in Nat BY <1>1 DEF Frame
<1>7. /\ links \in Seq(Link) /\ links # <<>> /\ Len(links) = Len(Top.links) + 1
      /\ \A i \in 1 .. Len(Top.links) : links[i] = Top.links[i]
      /\ links[Len(Top.links) + 1] = LinkOf(m)
  BY <1>5, <1>6, AppendProperties
<1>8. config.depth_max \in Nat BY DEF SInv, SearchOK, Config
<1>9. ASSUME NEW i \in 1 .. Len(links)
      PROVE  /\ <<process, links[i].addr, links[i].value>> \in held["search"]
             /\ links[i].value + links[i].offset
                  = IF i = 1 THEN config.pointer ELSE links[i - 1].addr
             /\ i < Len(links) =>
                  links[i].offset < config.offset_max /\ ~InBase(links[i].addr)
  <2>1. CASE i < Len(links)
    <3>1. i \in 1 .. Len(Top.links) /\ (i # 1 => i - 1 \in 1 .. Len(Top.links))
      BY <1>6, <1>7, <2>1
    <3>2. links[i] = Top.links[i] /\ (i # 1 => links[i - 1] = Top.links[i - 1])
      BY <1>7, <3>1
    <3>3. Linked(Top.links) /\ Inner(Top.links) BY <1>1 DEF FrameOK
    <3> QED BY <3>1, <3>2, <3>3 DEF Linked, Inner
  <2>2. CASE i = Len(links)
    <3>1. links[i] = LinkOf(m) BY <1>7, <2>2
    <3>2. Pointer = IF i = 1 THEN config.pointer ELSE links[i - 1].addr
      <4>1. CASE Top.links = <<>>
        BY <1>7, <2>2, <4>1 DEF Pointer, PointerOf
      <4>2. CASE Top.links # <<>>
        <5>1. Len(Top.links) \in Nat \ {0} BY <1>6, <4>2, EmptySeq
        <5>2. i # 1 /\ i - 1 = Len(Top.links) BY <1>7, <2>2, <5>1
        <5> QED BY <1>7, <4>2, <5>1, <5>2 DEF Pointer, PointerOf
      <4> QED BY <4>1, <4>2
    <3>3. <<process, m[1], m[2]>> \in held["search"] BY <1>1, <1>2 DEF FrameOK
    <3>4. links[i].addr = m[1] /\ links[i].value = m[2] /\ links[i].offset = Pointer - m[2]
      BY <3>1 DEF LinkOf
    <3>5. m[2] + (Pointer - m[2]) = Pointer BY <1>4
    <3>6. ~(i < Len(links)) BY <1>6, <1>7, <2>2
    <3>7. <<process, links[i].addr, links[i].value>> \in held["search"] BY <3>3, <3>4
    <3>8. links[i].value + links[i].offset = Pointer BY <3>4, <3>5
    <3> QED BY <3>2, <3>6, <3>7, <3>8
  <2>3. i < Len(links) \/ i = Len(links) BY <1>6, <1>7
  <2> QED BY <2>1, <2>2, <2>3
<1>10. Linked(links) BY <1>9 DEF Linked
<1>11. Len(links) \in Nat /\ Len(links) <= config.depth_max BY <1>1, <1>6, <1>7, <1>8
<1> QED BY <1>7, <1>10, <1>11

LEMMA HandledIs ==
  ASSUME SInv, search = "walk", NEW m
  PROVE  LET found == Top.found \ {m}
         IN  /\ Handled(m) = [stack EXCEPT ![Len(stack)].found = found]
             /\ found \subseteq Addresses \X Values
             /\ \A n \in found : <<process, n[1], n[2]>> \in held["search"]
BY TopFacts DEF Handled, Top, FrameOK, Frame

LEMMA PassOverHolds ==
  ASSUME SInv, NEW m, PassOver(m), UNCHANGED <<memory, maps, process, held>>
  PROVE  SInv'
<1>1. search = "walk" /\ UNCHANGED <<search, config, chains>> /\ stack' = Handled(m)
  BY DEF PassOver
<1>2. \A chain \in chains' : ChainOK(chain) BY <1>1 DEF SInv, SearchOK
<1> QED BY <1>1, <1>2, HandledIs, TopChanges DEF ScanOK

LEMMA ReportChainHolds ==
  ASSUME SInv, NEW m \in Nearest, ReportChain(m), UNCHANGED <<memory, maps, process, held>>
  PROVE  SInv'
<1> DEFINE links == Append(Top.links, LinkOf(m))
<1>1. /\ search = "walk" /\ UNCHANGED config /\ m[2] <= Pointer /\ InBase(m[1])
      /\ chains' = chains \union {links}
  BY DEF ReportChain
<1>2. ChainOK(links)
  <2>1. /\ links \in Seq(Link) /\ links # <<>> /\ Len(links) <= config.depth_max
        /\ links[Len(links)] = LinkOf(m) /\ Linked(links)
    BY <1>1, LinkAppended
  <2> HIDE DEF links
  <2>2. links[Len(links)].addr = m[1] BY <2>1 DEF LinkOf
  <2> QED BY <1>1, <2>1, <2>2 DEF ChainOK
<1>3. \A chain \in chains' : ChainOK(chain) BY <1>1, <1>2 DEF SInv, SearchOK
<1>4. CASE stack' = Handled(m) /\ UNCHANGED search
  BY <1>1, <1>3, <1>4, HandledIs, TopChanges DEF ScanOK
<1>5. CASE stack' = <<>> /\ search' = "done"
  BY <1>1, <1>3, <1>5, StepHolds DEF ScanOK
<1> QED BY <1>4, <1>5 DEF ReportChain

LEMMA FollowHolds ==
  ASSUME SInv, NEW m \in Nearest, Follow(m), UNCHANGED <<memory, maps, process, held>>
  PROVE  SInv'
<1> DEFINE links == Append(Top.links, LinkOf(m))
           f     == [links |-> links, found |-> {}]
           t     == Handled(m)
<1>1. /\ search = "walk" /\ search' = "enter" /\ UNCHANGED <<config, chains>>
      /\ m[2] <= Pointer /\ ~InBase(m[1]) /\ Pointer - m[2] < config.offset_max
      /\ stack' = Append(t, f)
  BY DEF Follow
<1>2. /\ t \in Seq(Frame)
      /\ \A n \in 1 .. Len(t) : FrameOK(t[n]) /\ Len(t[n].links) < config.depth_max
  BY <1>1, HandledIs, TopReplaced
<1>3. FrameOK(f)
  <2>1. /\ links \in Seq(Link) /\ Len(links) \in Nat /\ Len(links) = Len(Top.links) + 1
        /\ links[Len(links)] = LinkOf(m)
        /\ \A i \in 1 .. Len(Top.links) : links[i] = Top.links[i]
        /\ Linked(links)
    BY <1>1, LinkAppended
  <2> HIDE DEF links
  <2>2. Inner(Top.links) BY <1>1, TopFacts DEF FrameOK
  <2>3. ASSUME NEW i \in 1 .. Len(links)
        PROVE  links[i].offset < config.offset_max /\ ~InBase(links[i].addr)
    <3>1. CASE i = Len(links) BY <1>1, <2>1, <3>1 DEF LinkOf
    <3>2. CASE i # Len(links)
      <4>1. i \in 1 .. Len(Top.links) BY <2>1, <3>2
      <4> QED BY <2>1, <2>2, <4>1 DEF Inner
    <3> QED BY <3>1, <3>2
  <2>4. f \in Frame BY <2>1 DEF Frame
  <2> QED BY <2>1, <2>3, <2>4 DEF FrameOK, Inner
<1>4. f \in Frame BY <1>3 DEF FrameOK
<1> HIDE DEF f, t
<1>5. /\ stack' \in Seq(Frame) /\ stack' # <<>> /\ Len(stack') = Len(t) + 1
      /\ \A n \in 1 .. Len(t) : stack'[n] = t[n]
      /\ stack'[Len(t) + 1] = f
  BY <1>1, <1>2, <1>4, AppendProperties
<1>6. Len(t) \in Nat BY <1>2
<1>7. \A n \in 1 .. Len(stack') :
        /\ FrameOK(stack'[n])
        /\ n < Len(stack') => Len(stack'[n].links) < config.depth_max
  <2> TAKE n \in 1 .. Len(stack')
  <2>1. n = Len(t) + 1 \/ n \in 1 .. Len(t) BY <1>5, <1>6
  <2> QED BY <1>2, <1>3, <1>5, <1>6, <2>1
<1>8. \A chain \in chains' : ChainOK(chain) BY <1>1 DEF SInv, SearchOK
<1> QED BY <1>1, <1>5, <1>7, <1>8, StepHolds DEF ScanOK

(***************************************************************************)
(* Steps of others, while find_ref may be at work: what was in memory      *)
(* before remains on record.                                               *)
(***************************************************************************)
LEMMA Undisturbed ==
  ASSUME SInv, MemoryOK', UNCHANGED <<searchVars, process>>,
         held["search"] \subseteq held'["search"],
         search # "idle" => Facts(process)' \subseteq held'["search"]
  PROVE  SInv'
<1>1. CASE search = "idle" BY <1>1, IdleKeeps
<1>2. CASE search # "idle"
  <2>1. SearchOK /\ UNCHANGED <<search, config, stack, chains, regions>>
    BY <1>2 DEF SInv, searchVars
  <2>2. \A f : FrameOK(f) => FrameOK(f)' BY <2>1 DEF FrameOK, Linked, Inner, InBase
  <2>3. \A chain : ChainOK(chain) => ChainOK(chain)' BY <2>1 DEF ChainOK, Linked, InBase
  <2>4. ScanOK' BY <2>1 DEF SearchOK, ScanOK
  <2>5. SearchOK' BY <1>2, <2>1, <2>2, <2>3, <2>4 DEF SearchOK
  <2> QED BY <2>1, <2>5 DEF SInv
<1> QED BY <1>1, <1>2

LEMMA SearchStepHolds ==
  ASSUME SInv, SearchStep, UNCHANGED <<memory, maps, process>>
  PROVE  SInv'
<1>1. UNCHANGED held BY DEF SearchStep, StepOfZero
<1>9. CASE StepOfZero
  <2>1. UNCHANGED <<memory, maps, process, held, searchVars>> BY <1>9 DEF StepOfZero
  <2>2. MemoryOK' /\ Facts(process)' = Facts(process)
    BY <2>1 DEF SInv, MemoryOK, Facts, Readable
  <2> QED BY <2>1, <2>2, Undisturbed DEF SInv, SearchOK
<1>2. CASE TooDeep BY <1>1, <1>2, ReturnHolds DEF TooDeep
<1>3. CASE ListRegions BY <1>1, <1>3, ListRegionsHolds
<1>4. CASE TooManyResults BY <1>1, <1>4, ReturnHolds DEF TooManyResults
<1>5. CASE SortResults BY <1>1, <1>5, StackStays DEF SortResults, ScanOK
<1>6. CASE WalkEnds BY <1>1, <1>6, ReturnHolds DEF WalkEnds
<1>7. ASSUME NEW r \in regions, ReadWord(r) PROVE SInv' BY <1>1, <1>7, ReadWordHolds
<1>8. ASSUME NEW m \in Nearest, ReportChain(m) \/ Follow(m) \/ PassOver(m) PROVE SInv'
  BY <1>1, <1>8, ReportChainHolds, FollowHolds, PassOverHolds
<1> QED BY <1>2, <1>3, <1>4, <1>5, <1>6, <1>7, <1>8, <1>9 DEF SearchStep

LEMMA SearchReturnsHolds ==
  ASSUME SInv, SearchReturns, UNCHANGED <<memory, maps, process>>
  PROVE  SInv'
<1>1. search' = "idle" /\ chains' = {} /\ held' = [held EXCEPT !["search"] = {}]
  BY DEF SearchReturns
<1>2. MemoryOK' BY <1>1 DEF SInv, MemoryOK
<1> QED BY <1>1, <1>2 DEF SInv

LEMMA SearchBeginsHolds ==
  ASSUME SInv, NEW c \in Configs, SearchBegins(c), UNCHANGED <<memory, maps, process>>
  PROVE  SInv'
<1>1. search = "idle" /\ chains = {} /\ chains' = {} BY DEF SearchBegins, SInv
<1>2. CASE process = Nothing BY <1>1, <1>2 DEF SearchBegins, SInv, MemoryOK
<1>3. CASE process # Nothing
  <2> DEFINE f == [links |-> <<>>, found |-> {}]
  <2>1. /\ search' = "enter" /\ config' = c /\ stack' = <<f>>
        /\ held' = [held EXCEPT !["search"] = Facts(process)]
    BY <1>3 DEF SearchBegins, Watch
  <2>2. MemoryOK' BY <2>1 DEF SInv, MemoryOK
  <2>3. process' \in Pids /\ config' \in Config BY <1>3, <2>1 DEF SInv, MemoryOK
  <2>4. Facts(process)' \subseteq held'["search"]
    <3>1. Facts(process)' = Facts(process) BY DEF Facts, Readable
    <3>2. held'["search"] = Facts(process) BY <2>1 DEF SInv, MemoryOK
    <3> QED BY <3>1, <3>2
  <2>5. f \in Frame /\ f.links = <<>> /\ f.found = {} BY DEF Frame
  <2>6. stack' \in Seq(Frame) /\ Len(stack') = 1 /\ stack'[1] = f /\ stack' # <<>>
    BY <2>1, <2>5
  <2>7. FrameOK(f)' BY <2>5 DEF FrameOK, Linked, Inner
  <2> HIDE DEF f
  <2>8. SearchOK' BY <1>1, <2>1, <2>3, <2>4, <2>6, <2>7 DEF SearchOK, ScanOK
  <2> QED BY <2>1, <2>2, <2>8 DEF SInv
<1> QED BY <1>2, <1>3

\* The target forgets nothing that was seen, and what it stores is seen.
LEMMA TargetGrows ==
  ASSUME MemoryOK, TargetRuns, UNCHANGED process
  PROVE  /\ MemoryOK'
         /\ \A w \in Watchers : held[w] \subseteq held'[w]
         /\ \A p \in Pids : \A a : Readable(p, a)' => Readable(p, a)
         /\ \A p \in Pids, w \in Watchers :
              Facts(p) \subseteq held[w] => Facts(p)' \subseteq held'[w]
<1>1. CASE Store
  <2> DEFINE Stored(q, a, v) ==
               /\ memory' = [memory EXCEPT ![q][a] = v]
               /\ held' = [w \in Watchers |-> held[w] \union {<<q, a, v>>}]
  <2>1. PICK q \in Pids : \E line \in maps[q] : \E a \in Cells(line) \ Holes :
          "w" \in line.perms /\ \E v \in Values \ {memory[q][a]} : Stored(q, a, v)
    BY <1>1, Zenon DEF Store
  <2>2. PICK line \in maps[q] : \E a \in Cells(line) \ Holes :
           "w" \in line.perms /\ \E v \in Values \ {memory[q][a]} : Stored(q, a, v)
    BY <2>1, Zenon
  <2>3. PICK a \in Cells(line), v \in Values : Stored(q, a, v)
    BY <2>2, ZenonT(40)
  <2>4. UNCHANGED maps BY <1>1 DEF Store
  <2>5. a \in Addresses
    <3>1. line \in Lines BY <2>3 DEF MemoryOK
    <3> QED BY <2>3, <3>1 DEF Cells
  <2>6. /\ memory' \in [Pids -> [Addresses -> Values]]
        /\ \A p \in Pids, b \in Addresses :
             memory'[p][b] = IF p = q /\ b = a THEN v ELSE memory[p][b]
    BY <2>3, <2>5 DEF MemoryOK
  <2>7. MemoryOK' BY <2>3, <2>4, <2>6 DEF MemoryOK
  <2>8. \A w \in Watchers : held'[w] = held[w] \union {<<q, a, v>>} BY <2>3
  <2>9. \A p \in Pids : \A b : Readable(p, b)' => Readable(p, b) BY <2>4 DEF Readable
  <2>10. ASSUME NEW p \in Pids, NEW w \in Watchers, Facts(p) \subseteq held[w],
                NEW b \in Addresses, Readable(p, b)'
         PROVE  <<p, b, memory'[p][b]>> \in held'[w]
    <3>1. <<p, b, memory[p][b]>> \in held[w] BY <2>9, <2>10 DEF Facts
    <3> QED BY <2>6, <2>8, <3>1
  <2>11. \A p \in Pids, w \in Watchers :
           Facts(p) \subseteq held[w] => Facts(p)' \subseteq held'[w]
    BY <2>10 DEF Facts
  <2> QED BY <2>7, <2>8, <2>9, <2>11
<1>2. CASE Unmap
  <2>1. PICK q \in Pids : \E line \in maps[q] : maps' = [maps EXCEPT ![q] = @ \ {line}]
    BY <1>2 DEF Unmap
  <2>2. UNCHANGED <<memory, held>> BY <1>2 DEF Unmap
  <2>3. MemoryOK' BY <2>1, <2>2 DEF MemoryOK
  <2>4. \A p \in Pids : maps'[p] \subseteq maps[p] BY <2>1 DEF MemoryOK
  <2>5. \A p \in Pids : \A b : Readable(p, b)' => Readable(p, b) BY <2>4 DEF Readable
  <2>6. \A p \in Pids : Facts(p)' \subseteq Facts(p) BY <2>2, <2>5 DEF Facts
  <2> QED BY <2>2, <2>3, <2>5, <2>6
<1> QED BY <1>1, <1>2 DEF TargetRuns

LEMMA TargetHolds ==
  ASSUME SInv, TargetRuns, UNCHANGED <<searchVars, process>>
  PROVE  SInv'
<1>1. MemoryOK /\ "search" \in Watchers BY DEF SInv
<1>2. MemoryOK' /\ held["search"] \subseteq held'["search"] BY <1>1, TargetGrows
<1>3. search # "idle" => Facts(process)' \subseteq held'["search"]
  BY <1>1, TargetGrows DEF SInv, SearchOK
<1> QED BY <1>2, <1>3, Undisturbed

LEMMA RefreshHolds ==
  ASSUME SInv, Refresh, UNCHANGED <<memory, maps, searchVars>>
  PROVE  SInv'
<1>1. UNCHANGED process BY DEF Refresh, BeginRefresh, RefreshCell, EndRefresh, vars
<1>2. held' = held \/ held' = [held EXCEPT !["refresh"] = Facts(process)]
  BY DEF Refresh, BeginRefresh, RefreshCell, EndRefresh, Watch
<1>3. MemoryOK' BY <1>1, <1>2 DEF SInv, MemoryOK
<1>4. held'["search"] = held["search"] BY <1>2 DEF SInv, MemoryOK
<1>5. Facts(process)' = Facts(process) BY <1>1 DEF Facts, Readable
<1>6. search # "idle" => Facts(process) \subseteq held["search"] BY DEF SInv, SearchOK
<1> QED BY <1>1, <1>3, <1>4, <1>5, <1>6, Undisturbed

-------------------------------------------------------------------------------
(***************************************************************************)
(* Commands, which start only when no search is at work.                   *)
(***************************************************************************)
LEMMA CommandsHold ==
  ASSUME SInv, Commands
  PROVE  SInv'
<1>1. search = "idle" BY DEF Commands, Awaiting
<1>2. CASE PointerCommand
  BY <1>2, SearchBeginsHolds DEF PointerCommand, vars
<1>3. CASE UNCHANGED <<memory, maps, changes, searchVars, searches>>
  <2>1. CASE Plain BY <1>1, <1>3, <2>1, PlainHolds
  <2>2. ASSUME UNCHANGED process, held' = [w \in Watchers |-> held'[w]]
        PROVE  SInv'
    <3>1. MemoryOK' BY <1>3, <2>2 DEF SInv, MemoryOK
    <3> QED BY <1>1, <1>3, <3>1, IdleKeeps
  <2>3. KeepData => held' = [w \in Watchers |-> held'[w]]
    BY DEF KeepData, SInv, MemoryOK
  <2>4. UNCHANGED held => held' = [w \in Watchers |-> held'[w]]
    BY DEF SInv, MemoryOK
  <2>5. Watch("view") => held' = [w \in Watchers |-> held'[w]]
    BY DEF Watch, SInv, MemoryOK
  <2>6. CASE ViewCommand
    <3>1. PICK r \in Requests : OpenData(r) \/ RefuseData(r) \/ CrashOnData(r)
      BY <2>6 DEF ViewCommand
    <3>2. UNCHANGED process
      BY <3>1 DEF OpenData, RefuseData, CrashOnData, Report, vars
    <3>3. KeepData \/ UNCHANGED held \/ Watch("view")
      BY <3>1 DEF OpenData, RefuseData, CrashOnData
    <3> QED BY <2>2, <2>3, <2>4, <2>5, <3>2, <3>3
  <2>7. CASE DataKeys
    BY <2>2, <2>4, <2>7 DEF DataKeys, DataKey, Timeout, vars
  <2>8. CASE ListCommand
    BY <2>2, <2>3, <2>8 DEF ListCommand, RegionCommand, SortRegions, vars
  <2> QED BY <1>2, <2>1, <2>6, <2>7, <2>8 DEF Commands
<1> QED BY <1>2, <1>3 DEF Commands

LEMMA SInvInvariant == InspectionSpec => []SInv
<1>1. SInv /\ InspectionNext => SInv'
  <2> SUFFICES ASSUME SInv, InspectionNext PROVE SInv' OBVIOUS
  <2>1. CASE Commands BY <2>1, CommandsHold
  <2>2. CASE Work
    BY <2>2, SearchStepHolds, SearchReturnsHolds, RefreshHolds DEF Work, PointerReturns, vars
  <2>3. CASE TargetRuns /\ UNCHANGED <<vars, searchVars>>
    BY <2>3, TargetHolds DEF vars
  <2> QED BY <2>1, <2>2, <2>3 DEF InspectionNext
<1>2. SInv /\ UNCHANGED inspectionVars => SInv'
  <2> SUFFICES ASSUME SInv, UNCHANGED inspectionVars PROVE SInv' OBVIOUS
  <2>1. UNCHANGED <<memory, maps, held, process, searchVars>>
    BY DEF inspectionVars, targetVars, vars
  <2>2. MemoryOK' BY <2>1 DEF SInv, MemoryOK
  <2>3. Facts(process)' = Facts(process) BY <2>1 DEF Facts, Readable
  <2> QED BY <2>1, <2>2, <2>3, Undisturbed DEF SInv, SearchOK
<1> QED BY <1>1, <1>2, InitSInv, PTL DEF InspectionSpec

(***************************************************************************)
(* A chain that is printed can be followed: each of its links was in       *)
(* memory while the command ran, leads to the link before it within the    *)
(* limits, and the last one lies in the base.                              *)
(***************************************************************************)
THEOREM ChainsHold == InspectionSpec => []LinksHeld
<1>1. SInv => LinksHeld BY DEF SInv, SearchOK, ChainOK, LinksHeld
<1> QED BY <1>1, SInvInvariant, PTL

-------------------------------------------------------------------------------
(***************************************************************************)
(* The search of a memory that stands still.                               *)
(***************************************************************************)
\* The words that the search for an address may find, however many they are.
Matching(to) ==
  {a \in Reached : Masked[config.mask][memory[process][a]] = Masked[config.mask][to]}

\* What the i-th link has to point to, and whether the memory as it is has such a link.
To(links, i) == IF i = 1 THEN config.pointer ELSE links[i - 1].addr
GoodLink(to, l) ==
  l.addr \in Close(to) /\ l.value = memory[process][l.addr] /\ l.offset = to - l.value

\* Whether the search goes on from a link.
Onward(l) == l.offset < config.offset_max /\ ~InBase(l.addr)

IsChain(c) ==
  /\ c \in Seq(Link) /\ Len(c) \in 1 .. config.depth_max
  /\ \A i \in 1 .. Len(c) :
       /\ GoodLink(To(c, i), c[i])
       /\ IF i = Len(c) THEN InBase(c[i].addr) ELSE Onward(c[i])

IsPrefix(links) ==
  links \in Seq(Link)
    /\ \A i \in 1 .. Len(links) : GoodLink(To(links, i), links[i]) /\ Onward(links[i])

\* What is in a frame is in the memory as it is; its matches are within the limit.
FrozenFrame(f) ==
  /\ IsPrefix(f.links)
  /\ \A m \in f.found :
       m[1] \in Matching(PointerOf(f.links)) /\ m[2] = memory[process][m[1]]
Within(f) == ~(Cardinality(Matching(PointerOf(f.links))) > config.result_max)

\* The scan will come to an address of a region.
Left(r, a) ==
  /\ \E k \in Nat : a = r.next + k * config.step
  /\ a + config.step <= r.end
  /\ \A b \in r.next .. a + config.step - 1 : Readable(process, b)

\* The addresses of which a call has still to find or to handle the word.
Todo(n) ==
  IF n < Len(stack) \/ search = "walk" THEN {m[1] : m \in stack[n].found}
  ELSE IF search = "enter" THEN Addresses
  ELSE {m[1] : m \in stack[n].found} \union {a \in Addresses : \E r \in regions : Left(r, a)}

Extends(c, links) == Len(links) < Len(c) /\ \A i \in 1 .. Len(links) : c[i] = links[i]

\* A chain that a call will come to.
Under(c, n) ==
  Extends(c, stack[n].links) /\ c[Len(stack[n].links) + 1].addr \in Todo(n)

Calls ==
  \A n \in 1 .. Len(stack) :
    FrozenFrame(stack[n]) /\ (n < Len(stack) \/ search = "walk" => Within(stack[n]))

Scanning ==
  /\ \A r \in regions :
       /\ r \in [next : Nat, end : Nat] /\ r.next < r.end
       /\ \A a \in Addresses : Left(r, a) => a \in Reached
  /\ \A a \in Matching(Pointer) :
       <<a, memory[process][a]>> \in Top.found \/ \E r \in regions : Left(r, a)

\* Every chain is printed, or still to come, or was not asked for.
Complete ==
  \A c : IsChain(c) =>
    \/ c \in chains \/ \E n \in 1 .. Len(stack) : Under(c, n)
    \/ ~config.find_all /\ chains # {}

OneIsEnough ==
  ~config.find_all => chains = {} \/ (search = "done" /\ \E c : chains = {c})

FrozenOK ==
  /\ Calls
  /\ search = "scan" => Scanning
  /\ \A c \in chains : IsChain(c)
  /\ Complete
  /\ OneIsEnough

Frozen == held["search"] = Facts(process)

FInv ==
  /\ search = "done" => stack = <<>>
  /\ search # "idle" /\ Frozen => FrozenOK

-------------------------------------------------------------------------------
(***************************************************************************)
(* Chains, as sequences of links.                                          *)
(***************************************************************************)
\* What the search finds is memory.
LEMMA MatchingIs ==
  ASSUME MemoryOK, process \in Pids, NEW to
  PROVE  /\ Reached \subseteq Addresses /\ Matching(to) \subseteq Reached
         /\ Close(to) \subseteq Matching(to)
         /\ \A a \in Close(to) : memory[process][a] <= to
         /\ \A a \in Matching(to) : memory[process][a] \in Values
         /\ ~(Cardinality(Matching(to)) > config.result_max) =>
              \A a \in Matching(to) : memory[process][a] <= to => a \in Close(to)
         /\ Cardinality(Matching(to)) > config.result_max => Close(to) = {}
<1>1. Reached \subseteq Addresses BY DEF Reached
<1>2. Matching(to) \subseteq Reached BY DEF Matching
<1>3. \A a \in Matching(to) : memory[process][a] \in Values BY <1>1, <1>2 DEF MemoryOK
<1>4. Close(to) = IF Cardinality(Matching(to)) > config.result_max THEN {}
                  ELSE {a \in Matching(to) : memory[process][a] <= to}
  BY DEF Close, Matching
<1> QED BY <1>1, <1>2, <1>3, <1>4

LEMMA GoodLinkIs ==
  ASSUME MemoryOK, process \in Pids, NEW to \in Words, NEW a \in Close(to)
  PROVE  [addr |-> a, value |-> memory[process][a], offset |-> to - memory[process][a]] \in Link
<1>1. a \in Addresses /\ memory[process][a] \in Values /\ memory[process][a] <= to
  BY MatchingIs
<1>2. to - memory[process][a] \in Words
  <2>1. PICK v : v = memory[process][a] OBVIOUS
  <2>2. v \in 0 .. Word - 1 /\ to \in 0 .. Word - 1 /\ Word \in Nat /\ v <= to
    BY <1>1, <2>1 DEF Words
  <2>3. to - v \in 0 .. Word - 1 BY <2>2
  <2> QED BY <2>1, <2>3 DEF Words
<1> QED BY <1>1, <1>2 DEF Link

LEMMA PathIs ==
  ASSUME NEW S, NEW d, NEW path \in UNION {[1 .. n -> S] : n \in 1 .. d}
  PROVE  \E n \in 1 .. d : path \in [1 .. n -> S]
OBVIOUS

\* AllChains holds just the sequences of links that are chains.
LEMMA ChainsAre ==
  ASSUME MemoryOK, process \in Pids, config \in Config
  PROVE  \A c : c \in AllChains <=> IsChain(c)
<1> DEFINE ToOf(path, i) == IF i = 1 THEN config.pointer ELSE path[i - 1]
           Paths == UNION {[1 .. n -> Reached] : n \in 1 .. config.depth_max}
           Leads(path) ==
             /\ \A i \in 1 .. Len(path) :
                  /\ path[i] \in Close(ToOf(path, i))
                  /\ IF i = Len(path) THEN InBase(path[i])
                     ELSE /\ ~InBase(path[i])
                          /\ ToOf(path, i) - memory[process][path[i]] < config.offset_max
           LinkAt(path, i) ==
             [addr |-> path[i], value |-> memory[process][path[i]],
              offset |-> ToOf(path, i) - memory[process][path[i]]]
           ChainOf(path) == [i \in 1 .. Len(path) |-> LinkAt(path, i)]
<1>1. AllChains = {ChainOf(path) : path \in {p \in Paths : Leads(p)}} BY DEF AllChains
<1>2. config.pointer \in Words /\ config.depth_max \in Nat BY DEF Config
<1>3. ASSUME NEW path \in Paths, Leads(path) PROVE IsChain(ChainOf(path))
  <2>1. PICK n \in 1 .. config.depth_max : path \in [1 .. n -> Reached] BY <1>3, PathIs
  <2>2. n \in Nat /\ Len(path) = n BY <1>2, <2>1, LenProperties, SeqDef
  <2> DEFINE c == ChainOf(path)
  <2>3. Reached \subseteq Words BY MatchingIs
  <2>4. \A i \in 1 .. n : ToOf(path, i) \in Words
    <3>1. \A i \in 1 .. n : i = 1 \/ i - 1 \in 1 .. n BY <2>2
    <3>2. \A i \in 1 .. n : path[i] \in Words BY <2>1, <2>3
    <3> QED BY <1>2, <3>1, <3>2
  <2>5. \A i \in 1 .. n : LinkAt(path, i) \in Link
    <3> SUFFICES ASSUME NEW i \in 1 .. n PROVE LinkAt(path, i) \in Link OBVIOUS
    <3>1. path[i] \in Close(ToOf(path, i)) /\ ToOf(path, i) \in Words
      BY <1>3, <2>2, <2>4
    <3> HIDE DEF ToOf
    <3> QED BY <3>1, GoodLinkIs
  <2>6. c \in [1 .. n -> Link] /\ \A i \in 1 .. n : c[i] = LinkAt(path, i)
    <3> HIDE DEF LinkAt
    <3> QED BY <2>2, <2>5
  <2> HIDE DEF c
  <2>7. c \in Seq(Link) /\ Len(c) = n BY <2>2, <2>6, SeqDef, LenProperties
  <2>8. ASSUME NEW i \in 1 .. n
        PROVE  /\ GoodLink(To(c, i), c[i])
               /\ IF i = Len(c) THEN InBase(c[i].addr) ELSE Onward(c[i])
    <3>1. c[i] = LinkAt(path, i) BY <2>6
    <3>2. To(c, i) = ToOf(path, i)
      <4>1. CASE i = 1 BY <4>1 DEF To
      <4>2. CASE i # 1
        <5>1. i - 1 \in 1 .. n BY <2>2, <4>2
        <5>2. c[i - 1].addr = path[i - 1] BY <2>6, <5>1
        <5> QED BY <4>2, <5>2 DEF To
      <4> QED BY <4>1, <4>2
    <3>3. /\ path[i] \in Close(ToOf(path, i))
          /\ IF i = n THEN InBase(path[i])
             ELSE /\ ~InBase(path[i])
                  /\ ToOf(path, i) - memory[process][path[i]] < config.offset_max
      BY <1>3, <2>2
    <3> HIDE DEF ToOf
    <3> QED BY <2>7, <3>1, <3>2, <3>3 DEF GoodLink, Onward
  <2> QED BY <1>2, <2>2, <2>7, <2>8 DEF IsChain, c
<1>4. ASSUME NEW c, IsChain(c)
      PROVE  \E path \in Paths : Leads(path) /\ c = ChainOf(path)
  <2> DEFINE path == [i \in 1 .. Len(c) |-> c[i].addr]
  <2>1. PICK n \in 1 .. config.depth_max : n = Len(c) BY <1>4 DEF IsChain
  <2>2. c \in [1 .. n -> Link] BY <1>4, <2>1 DEF IsChain
  <2>3. \A i \in 1 .. n : GoodLink(To(c, i), c[i]) BY <1>4, <2>1 DEF IsChain
  <2>4. \A i \in 1 .. n : c[i].addr \in Close(To(c, i)) /\ c[i].addr \in Reached
    BY <2>3, MatchingIs DEF GoodLink
  <2>5. path \in [1 .. n -> Reached] /\ \A i \in 1 .. n : path[i] = c[i].addr
    BY <2>1, <2>4
  <2> HIDE DEF path
  <2>6. path \in Paths BY <2>5
  <2>7. Len(path) = n BY <1>2, <2>1, <2>5, LenProperties, SeqDef
  <2>8. \A i \in 1 .. n : ToOf(path, i) = To(c, i)
    <3>1. \A i \in 1 .. n : i = 1 \/ i - 1 \in 1 .. n BY <2>1
    <3> QED BY <2>5, <3>1 DEF To
  <2>9. ASSUME NEW i \in 1 .. n
        PROVE  /\ path[i] \in Close(ToOf(path, i))
               /\ IF i = n THEN InBase(path[i])
                  ELSE /\ ~InBase(path[i])
                       /\ ToOf(path, i) - memory[process][path[i]] < config.offset_max
               /\ c[i] = LinkAt(path, i)
    <3>1. /\ path[i] = c[i].addr /\ ToOf(path, i) = To(c, i)
          /\ GoodLink(To(c, i), c[i]) /\ c[i] \in Link
          /\ IF i = n THEN InBase(c[i].addr) ELSE Onward(c[i])
      BY <1>4, <2>1, <2>2, <2>3, <2>5, <2>8 DEF IsChain
    <3>2. c[i] = [addr |-> c[i].addr, value |-> c[i].value, offset |-> c[i].offset]
      BY <3>1 DEF Link
    <3> HIDE DEF ToOf
    <3> QED BY <3>1, <3>2 DEF GoodLink, Onward
  <2>10. Leads(path)
    <3> HIDE DEF ToOf
    <3> QED BY <2>7, <2>9
  <2>11. c = ChainOf(path)
    <3>1. c = [i \in 1 .. n |-> c[i]] BY <2>2
    <3>2. [i \in 1 .. n |-> c[i]] = [i \in 1 .. n |-> LinkAt(path, i)]
      <4> HIDE DEF LinkAt
      <4> QED BY <2>9
    <3> HIDE DEF LinkAt
    <3> QED BY <2>7, <3>1, <3>2
  <2> HIDE DEF Paths, Leads, ChainOf
  <2> QED BY <2>6, <2>10, <2>11
<1> HIDE DEF Paths, Leads, ChainOf
<1> QED BY <1>1, <1>3, <1>4

\* Steps from the beginning of a region.
LEMMA StepsGrow ==
  ASSUME NEW k \in Nat, NEW n \in Nat \ {0}
  PROVE  /\ k * n \in Nat /\ (k + 1) * n = n + k * n
         /\ k # 0 => k - 1 \in Nat /\ k * n = n + (k - 1) * n /\ (k - 1) * n \in Nat
OBVIOUS

LEMMA StepsWithin ==
  ASSUME NEW first \in Nat, NEW n \in Nat \ {0}, NEW k \in Nat
  PROVE  k \in 0 .. first + k * n
<1>1. n - 1 \in Nat /\ k * (n - 1) \in Nat /\ k * n = k + k * (n - 1) OBVIOUS
<1>2. k <= first + k * n BY <1>1
<1>3. first + k * n \in Int BY <1>1
<1> QED BY <1>2, <1>3

\* The words that a scan reaches can be read, and so can all of the region before them.
LEMMA ReachedIs ==
  ASSUME process \in Pids, MemoryOK, config \in Config, NEW a \in Addresses,
         NEW line \in maps[process], config.step # 0,
         \E k \in 0 .. a : a = line.first + k * config.step,
         \A b \in line.first .. a + config.step - 1 : Readable(process, b)
  PROVE  Readable(process, line.first) /\ Readable(process, a)
<1>1. line.first \in Nat /\ config.step \in Nat \ {0} /\ a \in Nat
  BY TargetAssumption DEF MemoryOK, Config
<1>2. PICK k \in 0 .. a : a = line.first + k * config.step OBVIOUS
<1>3. line.first <= a BY <1>1, <1>2, StepsGrow
<1>4. line.first \in line.first .. a + config.step - 1 /\ a \in line.first .. a + config.step - 1
  BY <1>1, <1>3
<1> QED BY <1>4

\* A scan finds no more than a finite number of words.
LEMMA MatchingFinite ==
  ASSUME MemoryOK, MapsOK, process \in Pids, config \in Config, NEW to
  PROVE  IsFiniteSet(Matching(to))
<1> DEFINE All == {Cells(line) : line \in maps[process]}
<1>1. IsFiniteSet(maps[process]) /\ maps[process] \subseteq Lines BY DEF MapsOK
<1>2. \A line \in maps[process] : IsFiniteSet(Cells(line))
  <2> SUFFICES ASSUME NEW line \in maps[process] PROVE IsFiniteSet(Cells(line)) OBVIOUS
  <2>1. line.first \in Int /\ line.end - 1 \in Int BY <1>1
  <2> QED BY <2>1, FS_Interval DEF Cells
<1>3. IsFiniteSet(All)
  <2> DEFINE f == [line \in maps[process] |-> Cells(line)]
  <2>1. f \in Surjection(maps[process], All) BY DEF Surjection
  <2> HIDE DEF f, All
  <2> QED BY <1>1, <2>1, FS_Surjection
<1>4. \A T \in All : IsFiniteSet(T) BY <1>2
<1> HIDE DEF All
<1>5. IsFiniteSet(UNION All) BY <1>3, <1>4, FS_UNION
<1>6. Matching(to) \subseteq UNION All
  <2>1. ASSUME NEW a \in Matching(to) PROVE Readable(process, a)
    BY ReachedIs DEF Matching, Reached
  <2> QED BY <2>1 DEF Readable, All
<1> QED BY <1>5, <1>6, FS_Subset

\* Nothing of this depends on more than the memory that can be read.
LEMMA StillSame ==
  ASSUME config' = config, memory'[process'] = memory[process], Reached' = Reached,
         \A a : Readable(process, a)' <=> Readable(process, a)
  PROVE  /\ \A to : Matching(to)' = Matching(to) /\ Close(to)' = Close(to)
         /\ \A c : IsChain(c)' <=> IsChain(c)
         /\ \A f : (FrozenFrame(f)' <=> FrozenFrame(f)) /\ (Within(f)' <=> Within(f))
         /\ \A r, a : Left(r, a)' <=> Left(r, a)
         /\ \A links : PointerOf(links)' = PointerOf(links)
<1>1. \A to : Matching(to)' = Matching(to) BY DEF Matching
<1>2. \A to : Close(to)' = Close(to)
  <2> TAKE to
  <2>1. Close(to) = IF Cardinality(Matching(to)) > config.result_max THEN {}
                    ELSE {a \in Matching(to) : memory[process][a] <= to}
    BY DEF Close, Matching
  <2>2. Close(to)' = IF Cardinality(Matching(to)') > config'.result_max THEN {}
                     ELSE {a \in Matching(to)' : memory'[process'][a] <= to}
    BY DEF Close, Matching
  <2> QED BY <1>1, <2>1, <2>2
<1>3. \A a : InBase(a)' <=> InBase(a) BY DEF InBase
<1>4. \A l : Onward(l)' <=> Onward(l) BY <1>3 DEF Onward
<1>5. \A links, i : To(links, i)' = To(links, i) BY DEF To
<1>7. \A links, i : GoodLink(To(links, i), links[i])' <=> GoodLink(To(links, i), links[i])
  <2> TAKE links, i
  <2>1. PICK to : to = To(links, i) OBVIOUS
  <2>2. To(links, i)' = to BY <1>5, <2>1
  <2> QED BY <1>2, <2>1, <2>2 DEF GoodLink
<1>8. \A c : IsChain(c)' <=> IsChain(c) BY <1>3, <1>4, <1>7 DEF IsChain
<1>9. \A links : IsPrefix(links)' <=> IsPrefix(links) BY <1>4, <1>7 DEF IsPrefix
<1>10. \A links : PointerOf(links)' = PointerOf(links) BY DEF PointerOf
<1>11. \A links : Matching(PointerOf(links))' = Matching(PointerOf(links))
  <2> TAKE links
  <2>1. PICK to : to = PointerOf(links) OBVIOUS
  <2>2. PointerOf(links)' = to BY <1>10, <2>1
  <2> QED BY <2>1, <2>2 DEF Matching
<1>12. \A f : FrozenFrame(f)' <=> FrozenFrame(f) BY <1>9, <1>11 DEF FrozenFrame
<1>13. \A f : Within(f)' <=> Within(f) BY <1>11 DEF Within
<1>14. \A r, a : Left(r, a)' <=> Left(r, a) BY DEF Left
<1> QED BY <1>1, <1>2, <1>8, <1>10, <1>12, <1>13, <1>14

\* What comes next in a chain that extends some links.
LEMMA NextLink ==
  ASSUME NEW links \in Seq(Link), NEW c, IsChain(c), Extends(c, links),
         config.depth_max \in Nat,
         NEW k, k = Len(links) + 1
  PROVE  /\ k \in 1 .. Len(c) /\ c[k] \in Link
         /\ Len(links) < config.depth_max
         /\ GoodLink(PointerOf(links), c[k])
         /\ k = Len(c) => InBase(c[k].addr) /\ c = Append(links, c[k])
         /\ k # Len(c) => Onward(c[k]) /\ Extends(c, Append(links, c[k]))
<1>1. /\ c \in Seq(Link) /\ Len(c) \in Nat /\ Len(c) <= config.depth_max
      /\ Len(links) \in Nat /\ Len(links) < Len(c)
      /\ \A i \in 1 .. Len(links) : c[i] = links[i]
  BY DEF IsChain, Extends
<1>2. k \in 1 .. Len(c) /\ Len(links) < config.depth_max BY <1>1
<1>3. c[k] \in Link BY <1>1, <1>2
<1>4. To(c, k) = PointerOf(links)
  <2>1. CASE links = <<>>
    <3>1. k = 1 BY <2>1
    <3> QED BY <2>1, <3>1 DEF To, PointerOf
  <2>2. CASE links # <<>>
    <3>1. Len(links) # 0 BY <2>2, EmptySeq
    <3>2. k # 1 /\ k - 1 = Len(links) /\ k - 1 \in 1 .. Len(links) BY <1>1, <3>1
    <3> QED BY <1>1, <2>2, <3>2 DEF To, PointerOf
  <2> QED BY <2>1, <2>2
<1>5. GoodLink(PointerOf(links), c[k]) BY <1>2, <1>4 DEF IsChain
<1> DEFINE more == Append(links, c[k])
<1>6. /\ more \in Seq(Link) /\ Len(more) = k
      /\ \A i \in 1 .. Len(links) : more[i] = links[i]
      /\ more[k] = c[k]
  BY <1>3, AppendProperties
<1> HIDE DEF more
<1>7. \A i \in 1 .. k : more[i] = c[i]
  <2>1. \A i \in 1 .. k : i \in 1 .. Len(links) \/ i = k BY <1>1
  <2> QED BY <1>1, <1>6, <2>1
<1>8. k = Len(c) => InBase(c[k].addr) /\ c = more
  <2> SUFFICES ASSUME k = Len(c) PROVE InBase(c[k].addr) /\ c = more OBVIOUS
  <2>1. InBase(c[k].addr) BY <1>2 DEF IsChain
  <2>2. c = more BY <1>1, <1>6, <1>7, SeqEqual
  <2> QED BY <2>1, <2>2
<1>9. k # Len(c) => Onward(c[k]) /\ Extends(c, more)
  <2> SUFFICES ASSUME k # Len(c) PROVE Onward(c[k]) /\ Extends(c, more) OBVIOUS
  <2>1. Onward(c[k]) BY <1>2 DEF IsChain
  <2>2. k < Len(c) BY <1>1, <1>2
  <2> QED BY <1>6, <1>7, <2>1, <2>2 DEF Extends
<1> QED BY <1>2, <1>3, <1>5, <1>8, <1>9 DEF more

-------------------------------------------------------------------------------
(***************************************************************************)
(* Steps of the search, in a memory that stands still.                     *)
(***************************************************************************)
\* What a step has to show.
LEMMA FrozenStep ==
  ASSUME UNCHANGED <<memory, maps, process, config>>,
         \A n \in 1 .. Len(stack') :
           /\ FrozenFrame(stack'[n])
           /\ n < Len(stack') \/ search' = "walk" => Within(stack'[n]),
         search' = "scan" => Scanning',
         \A c \in chains' : IsChain(c),
         \A c : IsChain(c) =>
           \/ c \in chains' \/ \E n \in 1 .. Len(stack') : Under(c, n)'
           \/ ~config.find_all /\ chains' # {},
         OneIsEnough'
  PROVE  FrozenOK'
<1>1. Reached' = Reached /\ \A a : Readable(process, a)' <=> Readable(process, a)
  BY DEF Reached, Readable
<1>2. /\ \A c : IsChain(c)' <=> IsChain(c)
      /\ \A f : (FrozenFrame(f)' <=> FrozenFrame(f)) /\ (Within(f)' <=> Within(f))
  BY <1>1, StillSame
<1>3. Calls'
  <2> SUFFICES ASSUME NEW n \in 1 .. Len(stack')
               PROVE  /\ FrozenFrame(stack[n])'
                      /\ n < Len(stack') \/ search' = "walk" => Within(stack[n])'
    BY DEF Calls
  <2>1. PICK f : f = stack'[n] OBVIOUS
  <2>2. FrozenFrame(f)' /\ (n < Len(stack') \/ search' = "walk" => Within(f)')
    BY <1>2, <2>1
  <2>3. FrozenFrame(stack[n])' <=> FrozenFrame(f)'
    <3>1. IsPrefix(stack[n].links)' <=> IsPrefix(f.links)'
      BY <2>1 DEF IsPrefix, GoodLink, To, Onward, Close, Reached, Readable, InBase
    <3>2. (\A m \in stack[n].found :
             m[1] \in Matching(PointerOf(stack[n].links)) /\ m[2] = memory[process][m[1]])'
          <=> (\A m \in f.found :
                 m[1] \in Matching(PointerOf(f.links)) /\ m[2] = memory[process][m[1]])'
      BY <2>1 DEF Matching, PointerOf, Reached, Readable
    <3> QED BY <3>1, <3>2 DEF FrozenFrame
  <2>4. Within(stack[n])' <=> Within(f)'
    BY <2>1 DEF Within, Matching, PointerOf, Reached, Readable
  <2> QED BY <2>2, <2>3, <2>4
<1>4. \A c \in chains' : IsChain(c)' BY <1>2
<1>5. Complete' BY <1>2 DEF Complete
<1> QED BY <1>3, <1>4, <1>5 DEF FrozenOK

LEMMA TopFrozen ==
  ASSUME SInv, FrozenOK, search \in {"enter", "scan", "walk"}
  PROVE  /\ process \in Pids /\ MemoryOK /\ config \in Config /\ config.depth_max \in Nat
         /\ Pointer = PointerOf(Top.links) /\ Pointer \in Words
         /\ IsPrefix(Top.links) /\ Top.links \in Seq(Link)
         /\ Top.found \subseteq Addresses \X Values
         /\ search = "walk" => Within(Top)
         /\ \A m \in Top.found : /\ m[1] \in Matching(Pointer) /\ m[1] \in Addresses
                                 /\ m[2] = memory[process][m[1]] /\ m = <<m[1], m[2]>>
<1>1. process \in Pids /\ MemoryOK /\ config \in Config /\ config.depth_max \in Nat
  BY DEF SInv, SearchOK, Config
<1>2. Len(stack) \in 1 .. Len(stack) /\ Top \in Frame /\ Pointer \in Words BY TopFacts
<1>3. FrozenFrame(Top) /\ (search = "walk" => Within(Top))
  BY <1>2 DEF FrozenOK, Calls, Top
<1>4. Pointer = PointerOf(Top.links) BY DEF Pointer
<1>5. Top.found \subseteq Addresses \X Values BY <1>2 DEF Frame
<1>6. IsPrefix(Top.links) /\ Top.links \in Seq(Link) BY <1>3 DEF FrozenFrame, IsPrefix
<1>7. \A m \in Top.found : m[1] \in Matching(Pointer) /\ m[2] = memory[process][m[1]]
  BY <1>3, <1>4 DEF FrozenFrame
<1>8. \A m \in Top.found : m[1] \in Addresses /\ m = <<m[1], m[2]>> BY <1>5
<1> QED BY <1>1, <1>2, <1>3, <1>4, <1>5, <1>6, <1>7, <1>8

\* What the calls below the one at work have still to handle stays.
LEMMA BelowStays ==
  ASSUME NEW n \in 1 .. Len(stack), n < Len(stack),
         stack'[n] = stack[n], n < Len(stack') \/ search' = "walk", NEW c
  PROVE  Under(c, n) => Under(c, n)'
<1>1. Todo(n)' = Todo(n) BY DEF Todo
<1> QED BY <1>1 DEF Under

\* A call returns when there is no chain to be found under it.
LEMMA ReturnFreezes ==
  ASSUME SInv, FrozenOK, search \in {"enter", "scan", "walk"}, Return,
         UNCHANGED <<memory, maps, process>>,
         \A c : IsChain(c) => ~Under(c, Len(stack))
  PROVE  FrozenOK'
<1>1. /\ stack' \in Seq(Frame) /\ Len(stack') = Len(stack) - 1
      /\ \A n \in 1 .. Len(stack') : stack'[n] = stack[n]
      /\ Len(stack) \in Nat \ {0}
  <2>1. stack' = SubSeq(stack, 1, Len(stack) - 1) BY DEF Return
  <2> QED BY <2>1, TopFacts, FrontIs
<1>2. \A n \in 1 .. Len(stack') : n \in 1 .. Len(stack) /\ n < Len(stack) BY <1>1
<1>3. \A n \in 1 .. Len(stack) : n = Len(stack) \/ (n \in 1 .. Len(stack') /\ n < Len(stack))
  BY <1>1
<1>4. search' \in {"walk", "done"} /\ (Len(stack) # 1 => search' = "walk")
      /\ UNCHANGED <<config, chains>>
  BY DEF Return
<1>5. \A n \in 1 .. Len(stack') : FrozenFrame(stack'[n]) /\ Within(stack'[n])
  BY <1>1, <1>2 DEF FrozenOK, Calls
<1>6. ASSUME NEW c, IsChain(c)
      PROVE  \/ c \in chains' \/ \E n \in 1 .. Len(stack') : Under(c, n)'
             \/ ~config.find_all /\ chains' # {}
  <2>1. CASE c \in chains \/ (~config.find_all /\ chains # {}) BY <1>4, <2>1
  <2>2. ASSUME NEW n \in 1 .. Len(stack), Under(c, n)
        PROVE  \E k \in 1 .. Len(stack') : Under(c, k)'
    <3>1. n # Len(stack) BY <1>6, <2>2
    <3>2. n \in 1 .. Len(stack') /\ n < Len(stack) BY <1>3, <3>1
    <3>3. Len(stack) # 1 /\ stack'[n] = stack[n] BY <1>1, <3>2
    <3>4. Under(c, n)' BY <1>4, <2>2, <3>2, <3>3, BelowStays
    <3> QED BY <3>2, <3>4
  <2> QED BY <1>6, <2>1, <2>2 DEF FrozenOK, Complete
<1>7. OneIsEnough' BY <1>4 DEF FrozenOK, OneIsEnough
<1>8. \A c \in chains' : IsChain(c) BY <1>4 DEF FrozenOK
<1> QED BY <1>4, <1>5, <1>6, <1>7, <1>8, FrozenStep

LEMMA TooDeepFreezes ==
  ASSUME SInv, FrozenOK, TooDeep, UNCHANGED <<memory, maps, process>>
  PROVE  FrozenOK'
<1>1. search = "enter" /\ Len(Top.links) >= config.depth_max /\ Return BY DEF TooDeep
<1>2. ASSUME NEW c, IsChain(c), Under(c, Len(stack)) PROVE FALSE
  <2>1. Extends(c, Top.links) BY <1>2 DEF Under, Top
  <2>2. Len(Top.links) < config.depth_max /\ Len(Top.links) \in Nat /\ config.depth_max \in Nat
    BY <1>1, <1>2, <2>1, TopFrozen, NextLink
  <2> QED BY <1>1, <2>2
<1> QED BY <1>1, <1>2, ReturnFreezes

\* Of the matches none is nearer than one above the pointer, if that is the nearest.
LEMMA NearestAbove ==
  ASSUME NEW to \in Words, NEW low \in Words, NEW high \in Words,
         high > to, (to - high) % Word <= (to - low) % Word
  PROVE  low > to
<1>1. /\ Word \in Nat /\ to \in Nat /\ low \in Nat /\ high \in Nat
      /\ to < Word /\ low < Word /\ high < Word
  BY DEF Words
<1> SUFFICES ASSUME low <= to PROVE FALSE BY <1>1
<1>2. (to - low) % Word = to - low BY <1>1
<1>3. (to - high) % Word = to - high + Word BY <1>1
<1> QED BY <1>1, <1>2, <1>3

LEMMA WalkEndsFreezes ==
  ASSUME SInv, FrozenOK, WalkEnds, UNCHANGED <<memory, maps, process>>
  PROVE  FrozenOK'
<1>1. search = "walk" /\ Return BY DEF WalkEnds
<1>2. ASSUME NEW c, IsChain(c), Under(c, Len(stack)) PROVE FALSE
  <2> DEFINE k == Len(Top.links) + 1
  <2>1. Extends(c, Top.links) /\ c[k].addr \in {m[1] : m \in Top.found}
    BY <1>1, <1>2 DEF Under, Top, Todo
  <2>2. PICK m \in Top.found : m[1] = c[k].addr BY <2>1
  <2>3. GoodLink(Pointer, c[k]) BY <1>1, <1>2, <2>1, TopFrozen, NextLink
  <2>4. /\ m[2] = memory[process][m[1]] /\ m[2] \in Words /\ Pointer \in Words
        /\ MemoryOK /\ process \in Pids
    BY <1>1, TopFrozen
  <2>5. m[2] <= Pointer BY <2>2, <2>3, <2>4, MatchingIs DEF GoodLink
  <2>6. PICK near \in Nearest : near[2] > Pointer BY <1>1, <2>2 DEF WalkEnds
  <2>7. near \in Top.found /\ Distance(near[2]) <= Distance(m[2]) BY <2>6 DEF Nearest
  <2>8. near[2] \in Words BY <1>1, <2>7, TopFrozen
  <2>9. m[2] > Pointer BY <2>4, <2>6, <2>7, <2>8, NearestAbove DEF Distance
  <2>10. m[2] \in Nat /\ Pointer \in Nat BY <2>4 DEF Words
  <2> QED BY <2>5, <2>9, <2>10
<1> QED BY <1>1, <1>2, ReturnFreezes

\* When the scan is over, it has found the words there are.
LEMMA FoundAll ==
  ASSUME SInv, MapsOK, FrozenOK, search = "scan", regions = {}
  PROVE  /\ Cardinality(Top.found) = Cardinality(Matching(Pointer))
         /\ Cardinality(Top.found) \in Nat
<1> DEFINE M == Matching(Pointer)
           f == [a \in M |-> <<a, memory[process][a]>>]
<1>1. /\ MemoryOK /\ process \in Pids /\ config \in Config
      /\ \A m \in Top.found : m[1] \in M /\ m[2] = memory[process][m[1]] /\ m = <<m[1], m[2]>>
  BY TopFrozen
<1>2. IsFiniteSet(M) BY <1>1, MatchingFinite
<1>3. \A a \in M : <<a, memory[process][a]>> \in Top.found
  BY DEF FrozenOK, Scanning
<1> HIDE DEF M
<1>4. f \in [M -> Top.found] BY <1>3
<1>5. \A m \in Top.found : f[m[1]] = m BY <1>1
<1>6. \A a, b \in M : f[a] = f[b] => a = b OBVIOUS
<1> HIDE DEF f
<1>7. f \in Bijection(M, Top.found)
  BY <1>1, <1>4, <1>5, <1>6 DEF Bijection, Injection, Surjection, IsInjective
<1>8. ExistsBijection(M, Top.found) BY <1>7 DEF ExistsBijection
<1>9. /\ IsFiniteSet(Top.found) /\ Cardinality(Top.found) = Cardinality(M)
  BY <1>2, <1>8, FS_Bijection
<1> QED BY <1>9, FS_CardinalityType DEF M

LEMMA TooManyFreezes ==
  ASSUME SInv, MapsOK, FrozenOK, TooManyResults, UNCHANGED <<memory, maps, process>>
  PROVE  FrozenOK'
<1>1. /\ search = "scan" /\ regions = {} /\ Return
      /\ Cardinality(Top.found) > config.result_max
  BY DEF TooManyResults
<1>2. MemoryOK /\ process \in Pids BY <1>1, TopFrozen
<1>3. Close(Pointer) = {} BY <1>1, <1>2, FoundAll, MatchingIs
<1>4. ASSUME NEW c, IsChain(c), Under(c, Len(stack)) PROVE FALSE
  <2>1. Extends(c, Top.links) BY <1>4 DEF Under, Top
  <2>2. GoodLink(Pointer, c[Len(Top.links) + 1]) BY <1>1, <1>4, <2>1, TopFrozen, NextLink
  <2> QED BY <1>3, <2>2 DEF GoodLink
<1> QED BY <1>1, <1>4, ReturnFreezes

LEMMA SortResultsFreezes ==
  ASSUME SInv, MapsOK, FrozenOK, SortResults, UNCHANGED <<memory, maps, process>>
  PROVE  FrozenOK'
<1>1. /\ search = "scan" /\ regions = {} /\ Cardinality(Top.found) <= config.result_max
      /\ search' = "walk" /\ UNCHANGED <<config, stack, chains>>
  BY DEF SortResults
<1>2. Len(stack) \in Nat /\ Pointer = PointerOf(Top.links) /\ config \in Config
  BY <1>1, TopFacts, TopFrozen
<1>3. Within(Top)
  <2>1. config.result_max \in Nat BY <1>2 DEF Config
  <2>2. /\ Cardinality(Top.found) = Cardinality(Matching(Pointer))
        /\ Cardinality(Top.found) \in Nat
    BY <1>1, FoundAll
  <2> QED BY <1>1, <1>2, <2>1, <2>2 DEF Within
<1>4. \A n \in 1 .. Len(stack) : FrozenFrame(stack[n]) /\ Within(stack[n])
  <2>1. \A n \in 1 .. Len(stack) : n < Len(stack) \/ n = Len(stack) BY <1>2
  <2> QED BY <1>3, <2>1 DEF FrozenOK, Calls, Top
<1>5. \A n \in 1 .. Len(stack) : Todo(n)' = Todo(n)
  <2> TAKE n \in 1 .. Len(stack)
  <2>1. n < Len(stack) \/ ~(n < Len(stack)) OBVIOUS
  <2> QED BY <1>1, <2>1 DEF Todo
<1>6. \A c : \A n \in 1 .. Len(stack) : Under(c, n) => Under(c, n)' BY <1>1, <1>5 DEF Under
<1>7. OneIsEnough' BY <1>1 DEF FrozenOK, OneIsEnough
<1>8. \A c \in chains' : IsChain(c) BY <1>1 DEF FrozenOK
<1>9. \A c : IsChain(c) =>
        \/ c \in chains' \/ \E n \in 1 .. Len(stack') : Under(c, n)'
        \/ ~config.find_all /\ chains' # {}
  BY <1>1, <1>6 DEF FrozenOK, Complete
<1> QED BY <1>1, <1>4, <1>7, <1>8, <1>9, FrozenStep

\* A scan begins or goes on: whatever leads to the pointer is found or still to be read.
LEMMA ScanFreezes ==
  ASSUME SInv, FrozenOK, search \in {"enter", "scan"}, search' = "scan",
         UNCHANGED <<memory, maps, process, config, chains>>,
         Len(stack') = Len(stack), \A n \in 1 .. Len(stack) : n < Len(stack) => stack'[n] = stack[n],
         stack'[Len(stack)].links = Top.links, FrozenFrame(stack'[Len(stack)]),
         Scanning'
  PROVE  FrozenOK'
<1>1. Len(stack) \in Nat /\ Len(stack) \in 1 .. Len(stack) BY TopFacts
<1>2. Top' = stack'[Len(stack)] /\ Pointer' = Pointer
  BY DEF Top, Pointer, PointerOf
<1>3. \A n \in 1 .. Len(stack') :
        /\ FrozenFrame(stack'[n])
        /\ n < Len(stack') \/ search' = "walk" => Within(stack'[n])
  <2>1. \A n \in 1 .. Len(stack) : n < Len(stack) \/ n = Len(stack) BY <1>1
  <2> QED BY <2>1 DEF FrozenOK, Calls
<1>4. Matching(Pointer)' = Matching(Pointer)
  BY <1>2 DEF Matching, Reached, Readable
<1>5. ASSUME NEW c, IsChain(c), Extends(c, Top.links) PROVE Under(c, Len(stack))'
  <2>1. MemoryOK /\ process \in Pids BY TopFrozen
  <2>2. GoodLink(Pointer, c[Len(Top.links) + 1]) BY <1>5, TopFrozen, NextLink
  <2>3. PICK a \in Matching(Pointer) : a = c[Len(Top.links) + 1].addr /\ a \in Addresses
    BY <2>1, <2>2, MatchingIs DEF GoodLink
  <2>4. <<a, memory[process][a]>> \in Top'.found \/ \E r \in regions' : Left(r, a)'
    BY <1>4, <2>3 DEF Scanning
  <2>5. Todo(Len(stack))' =
          {m[1] : m \in stack'[Len(stack)].found}
            \union {b \in Addresses : \E r \in regions' : Left(r, b)'}
    <3>1. ~(Len(stack) < Len(stack')) BY <1>1
    <3> QED BY <3>1 DEF Todo
  <2>6. a \in Todo(Len(stack))'
    <3>1. <<a, memory[process][a]>>[1] = a OBVIOUS
    <3> QED BY <1>2, <2>3, <2>4, <2>5, <3>1
  <2>7. Extends(c, stack'[Len(stack)].links) BY <1>5
  <2> QED BY <2>3, <2>6, <2>7 DEF Under
<1>6. ASSUME NEW c, IsChain(c)
      PROVE  \/ c \in chains' \/ \E n \in 1 .. Len(stack') : Under(c, n)'
             \/ ~config.find_all /\ chains' # {}
  <2>1. ASSUME NEW n \in 1 .. Len(stack), Under(c, n)
        PROVE  Under(c, n)'
    <3>1. CASE n < Len(stack) BY <2>1, <3>1, BelowStays
    <3>2. CASE n = Len(stack)
      <4>1. Extends(c, Top.links) BY <2>1, <3>2 DEF Under, Top
      <4> QED BY <1>5, <1>6, <3>2, <4>1
    <3> QED BY <1>1, <3>1, <3>2
  <2> QED BY <1>6, <2>1 DEF FrozenOK, Complete
<1>7. OneIsEnough'
  <2>1. ~config.find_all => chains = {} BY DEF FrozenOK, OneIsEnough
  <2> QED BY <2>1 DEF OneIsEnough
<1>8. \A c \in chains' : IsChain(c) BY DEF FrozenOK
<1> QED BY <1>3, <1>6, <1>7, <1>8, FrozenStep

LEMMA ListRegionsFreezes ==
  ASSUME SInv, MapsOK, FrozenOK, ListRegions, UNCHANGED <<memory, maps, process>>
  PROVE  FrozenOK'
<1>1. /\ search = "enter" /\ search' = "scan" /\ UNCHANGED <<config, stack, chains>>
      /\ regions' = {[next |-> line.first, end |-> line.end] :
                       line \in {l \in maps[process] : {"r", "w"} \subseteq l.perms}}
      /\ config.step # 0
  BY DEF ListRegions
<1>2. /\ MemoryOK /\ process \in Pids /\ Top' = Top /\ Pointer' = Pointer
      /\ config.step \in Nat
  BY <1>1, TopFrozen DEF Top, Pointer, PointerOf, Config
<1>3. FrozenFrame(Top) BY <1>1, TopFacts DEF FrozenOK, Calls, Top
<1>4. Matching(Pointer)' = Matching(Pointer) /\ Reached' = Reached
  BY <1>1, <1>2 DEF Matching, Reached, Readable
<1>5. ASSUME NEW r \in regions'
      PROVE  /\ r \in [next : Nat, end : Nat] /\ r.next < r.end
             /\ \A a \in Addresses : Left(r, a)' => a \in Reached
  <2>1. PICK line \in maps[process] :
          {"r", "w"} \subseteq line.perms /\ r = [next |-> line.first, end |-> line.end]
    BY <1>1
  <2>2. line.first \in Nat /\ line.end \in Nat /\ line.first < line.end
    BY <1>2, <2>1 DEF MapsOK
  <2>3. ASSUME NEW a \in Addresses, Left(r, a)' PROVE a \in Reached
    <3>1. /\ \E k \in Nat : a = line.first + k * config.step
          /\ a + config.step <= line.end
          /\ \A b \in line.first .. a + config.step - 1 : Readable(process, b)
      BY <1>1, <2>1, <2>3 DEF Left, Readable
    <3>2. \E k \in 0 .. a : a = line.first + k * config.step
      <4>1. PICK k \in Nat : a = line.first + k * config.step BY <3>1
      <4>2. config.step \in Nat \ {0} BY <1>1, <1>2
      <4>3. k \in 0 .. line.first + k * config.step BY <2>2, <4>2, StepsWithin
      <4> QED BY <4>1, <4>3
    <3> QED BY <1>1, <2>1, <3>1, <3>2 DEF Reached
  <2> QED BY <2>1, <2>2, <2>3
<1>6. ASSUME NEW a \in Matching(Pointer) PROVE \E r \in regions' : Left(r, a)'
  <2>1. a \in Reached BY DEF Matching
  <2>2. PICK line \in maps[process] :
          /\ {"r", "w"} \subseteq line.perms
          /\ \E k \in 0 .. a : a = line.first + k * config.step
          /\ a + config.step <= line.end
          /\ \A b \in line.first .. a + config.step - 1 : Readable(process, b)
    BY <2>1 DEF Reached
  <2> DEFINE r == [next |-> line.first, end |-> line.end]
  <2>3. r \in regions' BY <1>1, <2>2
  <2>4. \A k \in 0 .. a : k \in Nat BY <2>1 DEF Reached
  <2>6. Left(r, a)' BY <1>1, <2>2, <2>4 DEF Left, Readable
  <2> QED BY <2>3, <2>6
<1>7. Scanning' BY <1>4, <1>5, <1>6 DEF Scanning
<1> QED BY <1>1, <1>3, <1>7, ScanFreezes DEF Top

\* A stack of which only the matches of the call at work change.
WithFound(found) == [stack EXCEPT ![Len(stack)].found = found]

LEMMA TopIs ==
  ASSUME SInv, search \in {"scan", "walk"}, NEW found, found \subseteq Addresses \X Values,
         NEW t, t = WithFound(found)
  PROVE  /\ t \in Seq(Frame) /\ Len(t) = Len(stack) /\ Len(stack) \in 1 .. Len(stack)
         /\ \A n \in 1 .. Len(stack) : n # Len(stack) => t[n] = stack[n]
         /\ t[Len(stack)].links = Top.links /\ t[Len(stack)].found = found
<1>1. Len(stack) \in 1 .. Len(stack) /\ stack \in Seq(Frame) /\ Top \in Frame
  BY TopFacts
<1> DEFINE f == [Top EXCEPT !.found = found]
<1>2. f.links = Top.links /\ f.found = found /\ f \in Frame BY <1>1 DEF Frame
<1>3. t = [stack EXCEPT ![Len(stack)] = f] BY <1>1 DEF Top, WithFound
<1> HIDE DEF f
<1>4. /\ [stack EXCEPT ![Len(stack)] = f] \in Seq(Frame)
      /\ Len([stack EXCEPT ![Len(stack)] = f]) = Len(stack)
      /\ \A j \in 1 .. Len(stack) :
           [stack EXCEPT ![Len(stack)] = f][j] = IF j = Len(stack) THEN f ELSE stack[j]
  BY <1>1, <1>2, ReplaceIs
<1> QED BY <1>1, <1>2, <1>3, <1>4

\* What is left of a region after its first step was read.
LEMMA AdvanceIs ==
  ASSUME NEW r \in [next : Nat, end : Nat], Whole(r), config.step \in Nat \ {0}
  PROVE  /\ \A s \in Advance(r) :
              /\ s \in [next : Nat, end : Nat] /\ s.next < s.end
              /\ \A a \in Addresses : Left(s, a) => Left(r, a)
         /\ \A a \in Addresses :
              Left(r, a) => a = r.next \/ \E s \in Advance(r) : Left(s, a)
<1> DEFINE n == config.step
           s == [next |-> r.next + n, end |-> r.end]
<1>1. [r EXCEPT !.next = @ + config.step] = s OBVIOUS
<1>2. Advance(r) = IF r.next + n < r.end THEN {s} ELSE {} BY <1>1 DEF Advance
<1>3. s \in [next : Nat, end : Nat] /\ s.next = r.next + n /\ s.end = r.end OBVIOUS
<1> HIDE DEF s
<1>4. ASSUME NEW a \in Addresses, Left(s, a) PROVE Left(r, a)
  <2>1. PICK k \in Nat : a = r.next + n + k * n BY <1>3, <1>4 DEF Left
  <2>2. /\ a + n <= r.end
        /\ \A b \in r.next + n .. a + n - 1 : Readable(process, b)
    BY <1>3, <1>4 DEF Left
  <2>3. k + 1 \in Nat /\ a = r.next + (k + 1) * n
    BY <2>1, StepsGrow
  <2>4. \A b \in r.next .. a + n - 1 : b \in r.next .. r.next + n - 1 \/ b \in r.next + n .. a + n - 1
    BY <2>1
  <2>5. \A b \in r.next .. a + n - 1 : Readable(process, b) BY <2>2, <2>4 DEF Whole
  <2> QED BY <2>2, <2>3, <2>5 DEF Left
<1>5. ASSUME NEW a \in Addresses, Left(r, a), a # r.next
      PROVE  r.next + n < r.end /\ Left(s, a)
  <2>1. PICK k \in Nat : a = r.next + k * n BY <1>5 DEF Left
  <2>2. a + n <= r.end /\ \A b \in r.next .. a + n - 1 : Readable(process, b)
    BY <1>5 DEF Left
  <2>3. k # 0
    <3>1. 0 * n = 0 OBVIOUS
    <3> QED BY <1>5, <2>1, <3>1
  <2>4. k - 1 \in Nat /\ a = r.next + n + (k - 1) * n /\ (k - 1) * n \in Nat
    BY <2>1, <2>3, StepsGrow
  <2>5. r.next + n < r.end BY <2>2, <2>4
  <2>6. \A b \in r.next + n .. a + n - 1 : b \in r.next .. a + n - 1 BY <2>4
  <2> QED BY <1>3, <2>2, <2>4, <2>5, <2>6 DEF Left
<1>6. ASSUME NEW x \in Advance(r) PROVE x = s /\ r.next + n < r.end
  BY <1>2, <1>6
<1>7. \A x \in Advance(r) :
        /\ x \in [next : Nat, end : Nat] /\ x.next < x.end
        /\ \A a \in Addresses : Left(x, a) => Left(r, a)
  <2> SUFFICES ASSUME NEW x \in Advance(r)
      PROVE  /\ x \in [next : Nat, end : Nat] /\ x.next < x.end
             /\ \A a \in Addresses : Left(x, a) => Left(r, a)
      OBVIOUS
  <2>1. x = s /\ r.next + n < r.end BY <1>6
  <2>2. s \in [next : Nat, end : Nat] /\ s.next < s.end BY <1>3, <2>1
  <2>3. \A a \in Addresses : Left(s, a) => Left(r, a) BY <1>4
  <2> QED BY <2>1, <2>2, <2>3
<1>8. ASSUME NEW a \in Addresses, Left(r, a), a # r.next
      PROVE  \E x \in Advance(r) : Left(x, a)
  <2>1. r.next + n < r.end /\ Left(s, a) BY <1>5, <1>8
  <2>2. s \in Advance(r) BY <1>2, <2>1
  <2> QED BY <2>1, <2>2
<1> QED BY <1>7, <1>8

LEMMA ReadWordFreezes ==
  ASSUME SInv, FrozenOK, NEW r \in regions, ReadWord(r),
         UNCHANGED <<memory, maps, process>>
  PROVE  FrozenOK'
<1>1. search = "scan" /\ search' = "scan" /\ UNCHANGED <<config, chains>> BY DEF ReadWord
<1>2. Scanning BY <1>1 DEF FrozenOK
<1>3. /\ MemoryOK /\ process \in Pids /\ Len(stack) \in 1 .. Len(stack)
      /\ Top.found \subseteq Addresses \X Values
  BY <1>1, TopFacts, TopFrozen
<1>4. /\ r \in [next : Nat, end : Nat] /\ r.next < r.end
      /\ config.step \in Nat \ {0}
  BY <1>1, <1>2, WholeIs DEF Scanning
<1>5. \A s, a : Left(s, a)' <=> Left(s, a) BY <1>1 DEF Left, Readable
<1>6. Reached' = Reached BY <1>1 DEF Reached, Readable
<1>7. ASSUME Len(stack') = Len(stack),
             \A n \in 1 .. Len(stack) : n < Len(stack) => stack'[n] = stack[n],
             stack'[Len(stack)].links = Top.links,
             \A m \in stack'[Len(stack)].found :
               m[1] \in Matching(Pointer) /\ m[2] = memory[process][m[1]],
             \A s \in regions' : /\ s \in [next : Nat, end : Nat] /\ s.next < s.end
                                 /\ \A a \in Addresses : Left(s, a) => a \in Reached,
             \A a \in Matching(Pointer) :
               \/ <<a, memory[process][a]>> \in stack'[Len(stack)].found
               \/ \E s \in regions' : Left(s, a)
      PROVE  FrozenOK'
  <2>1. Top' = stack'[Len(stack)] BY <1>7 DEF Top
  <2>2. Pointer' = Pointer BY <1>1, <1>7, <2>1 DEF Pointer, PointerOf
  <2>3. Matching(Pointer)' = Matching(Pointer) BY <1>1, <1>6, <2>2 DEF Matching
  <2>4. Scanning' BY <1>5, <1>6, <1>7, <2>1, <2>3 DEF Scanning
  <2>5. FrozenFrame(stack'[Len(stack)])
    BY <1>1, <1>7, TopFrozen DEF FrozenFrame
  <2> QED BY <1>1, <1>7, <2>4, <2>5, ScanFreezes
<1>8. \A a \in Matching(Pointer) : a \in Addresses BY <1>3, MatchingIs
<1>9. CASE ~Whole(r)
  <2>1. regions' = regions \ {r} /\ stack' = stack BY <1>9 DEF ReadWord
  <2>2. ASSUME NEW a \in Matching(Pointer)
        PROVE  \/ <<a, memory[process][a]>> \in Top.found
               \/ \E s \in regions' : Left(s, a)
    <3>1. a \in Nat BY <1>8
    <3>2. ~Left(r, a)
      <4> SUFFICES ASSUME Left(r, a) PROVE FALSE OBVIOUS
      <4>1. PICK k \in Nat : a = r.next + k * config.step BY DEF Left
      <4>2. /\ a + config.step <= r.end
            /\ \A b \in r.next .. a + config.step - 1 : Readable(process, b)
        BY DEF Left
      <4>3. r.next <= a BY <1>4, <4>1, StepsGrow
      <4>4. r.next + config.step <= r.end BY <1>4, <3>1, <4>2, <4>3
      <4>5. \A b \in r.next .. r.next + config.step - 1 : b \in r.next .. a + config.step - 1
        BY <1>4, <3>1, <4>3
      <4> QED BY <1>9, <4>2, <4>4, <4>5 DEF Whole
    <3> QED BY <1>2, <2>1, <3>2 DEF Scanning
  <2>3. \A m \in Top.found : m[1] \in Matching(Pointer) /\ m[2] = memory[process][m[1]]
    BY <1>1, TopFrozen
  <2>4. stack'[Len(stack)] = Top BY <2>1 DEF Top
  <2> QED BY <1>2, <1>7, <2>1, <2>2, <2>3, <2>4 DEF Scanning
<1>10. CASE Whole(r)
  <2> DEFINE v   == memory[process][r.next]
             new == IF Matches(v) THEN Top.found \union {<<r.next, v>>} ELSE Top.found
  <2>1. r.next \in Addresses /\ v \in Values
    <3>1. r.next \in Addresses BY <1>1, <1>3, <1>10, WholeIs, ReadableFact
    <3> QED BY <1>3, <3>1 DEF MemoryOK
  <2>2. r.next \in Reached
    <3>1. r.next = r.next + 0 * config.step BY <1>4
    <3>2. Left(r, r.next) BY <1>10, <3>1 DEF Left, Whole
    <3> QED BY <1>2, <2>1, <3>2 DEF Scanning
  <2>3. Matches(v) <=> r.next \in Matching(Pointer) BY <2>2 DEF Matches, Matching
  <2>4. regions' = (regions \ {r}) \union Advance(r) BY <1>10 DEF ReadWord
  <2>5. stack' = WithFound(new)
    <3>1. stack' = IF Matches(v)
                   THEN [stack EXCEPT ![Len(stack)].found = @ \union {<<r.next, v>>}]
                   ELSE stack
      BY <1>10 DEF ReadWord
    <3>2. CASE Matches(v) BY <3>1, <3>2 DEF Top, WithFound
    <3>3. CASE ~Matches(v)
      <4>1. stack \in Seq(Frame) /\ stack[Len(stack)] \in Frame BY <1>1, TopFacts DEF Top
      <4>2. stack = [stack EXCEPT ![Len(stack)].found = @] BY <1>3, <4>1 DEF Frame
      <4> QED BY <3>1, <3>3, <4>2 DEF Top, WithFound
    <3> QED BY <3>2, <3>3
  <2> HIDE DEF v
  <2>6. new \subseteq Addresses \X Values BY <1>3, <2>1
  <2>7. \A m \in new : m[1] \in Matching(Pointer) /\ m[2] = memory[process][m[1]]
    <3>1. \A m \in Top.found : m[1] \in Matching(Pointer) /\ m[2] = memory[process][m[1]]
      BY <1>1, TopFrozen
    <3> QED BY <2>3, <3>1 DEF v
  <2>8. /\ Top.found \subseteq new
        /\ r.next \in Matching(Pointer) => <<r.next, memory[process][r.next]>> \in new
    BY <2>3 DEF v
  <2> HIDE DEF new
  <2>9. /\ Len(stack') = Len(stack)
        /\ \A n \in 1 .. Len(stack) : n < Len(stack) => stack'[n] = stack[n]
        /\ stack'[Len(stack)].links = Top.links /\ stack'[Len(stack)].found = new
    <3>1. \A n \in 1 .. Len(stack) : n < Len(stack) => n # Len(stack) BY <1>3
    <3> QED BY <1>1, <2>5, <2>6, <3>1, TopIs
  <2>10. \A s \in regions' : /\ s \in [next : Nat, end : Nat] /\ s.next < s.end
                             /\ \A a \in Addresses : Left(s, a) => a \in Reached
    <3>1. \A s \in Advance(r) : /\ s \in [next : Nat, end : Nat] /\ s.next < s.end
                                /\ \A a \in Addresses : Left(s, a) => Left(r, a)
      BY <1>4, <1>10, AdvanceIs
    <3> QED BY <1>2, <2>4, <3>1 DEF Scanning
  <2>11. ASSUME NEW a \in Matching(Pointer)
         PROVE  \/ <<a, memory[process][a]>> \in new
                \/ \E s \in regions' : Left(s, a)
    <3>1. CASE <<a, memory[process][a]>> \in Top.found BY <2>8, <3>1
    <3>2. ASSUME NEW s \in regions, Left(s, a)
          PROVE  \/ <<a, memory[process][a]>> \in new
                 \/ \E t \in regions' : Left(t, a)
      <4>1. CASE s # r BY <2>4, <3>2, <4>1
      <4>2. CASE s = r
        <5>1. a = r.next \/ \E t \in Advance(r) : Left(t, a)
          BY <1>4, <1>8, <1>10, <3>2, <4>2, AdvanceIs
        <5> QED BY <2>4, <2>8, <5>1
      <4> QED BY <4>1, <4>2
    <3> QED BY <1>2, <3>1, <3>2 DEF Scanning
  <2> QED BY <1>7, <2>7, <2>9, <2>10, <2>11
<1> QED BY <1>9, <1>10

LEMMA LinkIs ==
  ASSUME SInv, FrozenOK, search = "walk", NEW m \in Top.found,
         NEW l \in Link, l.addr = m[1], GoodLink(Pointer, l)
  PROVE  l = LinkOf(m)
<1>1. m[2] = memory[process][m[1]] BY TopFrozen
<1>2. l = [addr |-> l.addr, value |-> l.value, offset |-> l.offset] BY DEF Link
<1> QED BY <1>1, <1>2 DEF GoodLink, LinkOf

\* The links up to a match that is near enough are in the memory.
LEMMA LinksExtended ==
  ASSUME SInv, FrozenOK, search = "walk", NEW m \in Nearest, m[2] <= Pointer,
         NEW links, links = Append(Top.links, LinkOf(m))
  PROVE  /\ links \in Seq(Link) /\ Len(links) \in Nat /\ Len(links) = Len(Top.links) + 1
         /\ Len(links) <= config.depth_max /\ links[Len(links)] = LinkOf(m)
         /\ \A i \in 1 .. Len(links) : GoodLink(To(links, i), links[i])
         /\ \A i \in 1 .. Len(links) : i # Len(links) => Onward(links[i])
<1>1. /\ links \in Seq(Link) /\ Len(links) \in Nat /\ Len(links) = Len(Top.links) + 1
      /\ Len(links) <= config.depth_max /\ links[Len(links)] = LinkOf(m)
      /\ \A i \in 1 .. Len(Top.links) : links[i] = Top.links[i]
  BY LinkAppended
<1>2. /\ IsPrefix(Top.links) /\ Top.links \in Seq(Link) /\ Pointer = PointerOf(Top.links)
      /\ Within(Top) /\ MemoryOK /\ process \in Pids
  BY TopFrozen
<1>3. Len(Top.links) \in Nat BY <1>2
<1>4. GoodLink(Pointer, LinkOf(m))
  <2>1. m \in Top.found BY DEF Nearest
  <2>2. m[1] \in Matching(Pointer) /\ m[2] = memory[process][m[1]] BY <2>1, TopFrozen
  <2>3. ~(Cardinality(Matching(Pointer)) > config.result_max) BY <1>2 DEF Within
  <2>4. m[1] \in Close(Pointer) BY <1>2, <2>2, <2>3, MatchingIs
  <2> QED BY <2>2, <2>4 DEF GoodLink, LinkOf
<1>5. ASSUME NEW i \in 1 .. Len(links)
      PROVE  GoodLink(To(links, i), links[i]) /\ (i # Len(links) => Onward(links[i]))
  <2>1. CASE i # Len(links)
    <3>1. i \in 1 .. Len(Top.links) /\ (i # 1 => i - 1 \in 1 .. Len(Top.links))
      BY <1>1, <1>3, <2>1
    <3>2. To(links, i) = To(Top.links, i) BY <1>1, <3>1 DEF To
    <3>3. links[i] = Top.links[i] BY <1>1, <3>1
    <3> QED BY <1>2, <3>1, <3>2, <3>3 DEF IsPrefix
  <2>2. CASE i = Len(links)
    <3>1. To(links, i) = Pointer
      <4>1. CASE Top.links = <<>>
        <5>1. i = 1 BY <1>1, <2>2, <4>1
        <5> QED BY <1>2, <4>1, <5>1 DEF To, PointerOf
      <4>2. CASE Top.links # <<>>
        <5>1. Len(Top.links) # 0 BY <1>2, <4>2, EmptySeq
        <5>2. i # 1 /\ i - 1 = Len(Top.links) /\ i - 1 \in 1 .. Len(Top.links)
          BY <1>1, <1>3, <2>2, <5>1
        <5>3. links[i - 1] = Top.links[Len(Top.links)] BY <1>1, <5>2
        <5> QED BY <1>2, <4>2, <5>2, <5>3 DEF To, PointerOf
      <4> QED BY <4>1, <4>2
    <3> QED BY <1>1, <1>4, <2>2, <3>1
  <2> QED BY <2>1, <2>2
<1> QED BY <1>1, <1>5

\* The stack without a match that was handled.
LEMMA HandledFrozen ==
  ASSUME SInv, FrozenOK, search = "walk", NEW m, NEW t, t = Handled(m)
  PROVE  /\ t \in Seq(Frame) /\ Len(t) = Len(stack) /\ Len(stack) \in Nat
         /\ Len(stack) \in 1 .. Len(stack)
         /\ \A n \in 1 .. Len(stack) : n < Len(stack) => t[n] = stack[n]
         /\ t[Len(stack)].links = Top.links /\ t[Len(stack)].found = Top.found \ {m}
         /\ \A n \in 1 .. Len(stack) : FrozenFrame(t[n]) /\ Within(t[n])
<1>1. Top.found \ {m} \subseteq Addresses \X Values BY TopFrozen
<1>2. t = WithFound(Top.found \ {m}) BY DEF Handled, WithFound, Top
<1>3. /\ t \in Seq(Frame) /\ Len(t) = Len(stack) /\ Len(stack) \in 1 .. Len(stack)
      /\ \A n \in 1 .. Len(stack) : n # Len(stack) => t[n] = stack[n]
      /\ t[Len(stack)].links = Top.links /\ t[Len(stack)].found = Top.found \ {m}
  BY <1>1, <1>2, TopIs
<1>4. Len(stack) \in Nat BY TopFacts
<1>5. ASSUME NEW n \in 1 .. Len(stack) PROVE FrozenFrame(t[n]) /\ Within(t[n])
  <2>1. FrozenFrame(stack[n]) /\ Within(stack[n]) BY DEF FrozenOK, Calls
  <2>2. CASE n # Len(stack) BY <1>3, <2>1, <2>2
  <2>3. CASE n = Len(stack)
    <3>1. stack[n] = Top BY <2>3 DEF Top
    <3>2. t[n].links = Top.links /\ t[n].found \subseteq Top.found BY <1>3, <2>3
    <3> QED BY <2>1, <3>1, <3>2 DEF FrozenFrame, Within
  <2> QED BY <2>2, <2>3
<1>6. \A n \in 1 .. Len(stack) : n < Len(stack) => n # Len(stack) BY <1>4
<1> QED BY <1>3, <1>4, <1>5, <1>6

\* A match is handled: the chains it leads to are printed, or there are none.
LEMMA HandledFreezes ==
  ASSUME SInv, FrozenOK, search = "walk", search' = "walk", NEW m \in Top.found,
         stack' = Handled(m), UNCHANGED <<memory, maps, process, config>>,
         chains \subseteq chains', \A c \in chains' : IsChain(c),
         config.find_all \/ chains' = chains,
         \A c : IsChain(c) /\ Extends(c, Top.links) /\ c[Len(Top.links) + 1].addr = m[1]
                  => c \in chains'
  PROVE  FrozenOK'
<1>1. /\ Len(stack') = Len(stack) /\ Len(stack) \in Nat
      /\ \A n \in 1 .. Len(stack) : n < Len(stack) => stack'[n] = stack[n]
      /\ stack'[Len(stack)].links = Top.links
      /\ stack'[Len(stack)].found = Top.found \ {m}
      /\ \A n \in 1 .. Len(stack) : FrozenFrame(stack'[n]) /\ Within(stack'[n])
  BY HandledFrozen
<1>2. ASSUME NEW c, IsChain(c)
      PROVE  \/ c \in chains' \/ \E n \in 1 .. Len(stack') : Under(c, n)'
             \/ ~config.find_all /\ chains' # {}
  <2>1. CASE c \in chains \/ (~config.find_all /\ chains # {}) BY <2>1
  <2>2. ASSUME NEW n \in 1 .. Len(stack), Under(c, n), c \notin chains'
        PROVE  Under(c, n)'
    <3>1. CASE n < Len(stack) BY <1>1, <2>2, <3>1, BelowStays
    <3>2. CASE n = Len(stack)
      <4>1. /\ Extends(c, Top.links)
            /\ c[Len(Top.links) + 1].addr \in {x[1] : x \in Top.found}
        BY <2>2, <3>2 DEF Under, Top, Todo
      <4>2. PICK x \in Top.found : x[1] = c[Len(Top.links) + 1].addr BY <4>1
      <4>3. x # m BY <1>2, <2>2, <4>1, <4>2
      <4>4. x \in stack'[n].found /\ stack'[n].links = Top.links BY <1>1, <3>2, <4>2, <4>3
      <4>5. Todo(n)' = {y[1] : y \in stack'[n].found} BY DEF Todo
      <4>6. x[1] \in Todo(n)' BY <4>4, <4>5
      <4> QED BY <4>1, <4>2, <4>4, <4>6 DEF Under
    <3> QED BY <1>1, <3>1, <3>2
  <2> QED BY <1>1, <1>2, <2>1, <2>2 DEF FrozenOK, Complete
<1>3. OneIsEnough' BY DEF FrozenOK, OneIsEnough
<1> QED BY <1>1, <1>2, <1>3, FrozenStep

LEMMA PassOverFreezes ==
  ASSUME SInv, FrozenOK, NEW m \in Nearest, PassOver(m), UNCHANGED <<memory, maps, process>>
  PROVE  FrozenOK'
<1>1. /\ search = "walk" /\ UNCHANGED <<search, config, chains>> /\ stack' = Handled(m)
      /\ ~InBase(m[1]) /\ Pointer - m[2] >= config.offset_max
  BY DEF PassOver
<1>2. m \in Top.found BY DEF Nearest
<1>3. ASSUME NEW c, IsChain(c), Extends(c, Top.links), c[Len(Top.links) + 1].addr = m[1]
      PROVE  FALSE
  <2>1. PICK k : k = Len(Top.links) + 1 OBVIOUS
  <2>2. /\ c[k] \in Link /\ GoodLink(Pointer, c[k])
        /\ k = Len(c) => InBase(c[k].addr)
        /\ k # Len(c) => Onward(c[k])
    BY <1>1, <1>3, <2>1, TopFrozen, NextLink
  <2>3. c[k] = LinkOf(m) BY <1>1, <1>2, <1>3, <2>1, <2>2, LinkIs
  <2>4. c[k].offset < config.offset_max BY <1>1, <1>3, <2>1, <2>2 DEF Onward
  <2>5. c[k].offset = Pointer - m[2] /\ c[k].offset \in Nat
    BY <2>2, <2>3 DEF LinkOf, Link, Words
  <2>6. config.offset_max \in Nat BY <1>1, TopFrozen DEF Config
  <2> QED BY <1>1, <2>4, <2>5, <2>6
<1>4. \A c \in chains' : IsChain(c) BY <1>1 DEF FrozenOK
<1> QED BY <1>1, <1>2, <1>3, <1>4, HandledFreezes

LEMMA ReportChainFreezes ==
  ASSUME SInv, FrozenOK, NEW m \in Nearest, ReportChain(m), UNCHANGED <<memory, maps, process>>
  PROVE  FrozenOK'
<1>1. /\ search = "walk" /\ UNCHANGED config /\ m[2] <= Pointer /\ InBase(m[1])
      /\ chains' = chains \union {Append(Top.links, LinkOf(m))}
  BY DEF ReportChain
<1>2. PICK links : links = Append(Top.links, LinkOf(m)) OBVIOUS
<1>3. IsChain(links)
  <2>1. /\ links \in Seq(Link) /\ Len(links) \in Nat /\ Len(links) = Len(Top.links) + 1
        /\ Len(links) <= config.depth_max /\ links[Len(links)] = LinkOf(m)
        /\ \A i \in 1 .. Len(links) : GoodLink(To(links, i), links[i])
        /\ \A i \in 1 .. Len(links) : i # Len(links) => Onward(links[i])
    BY <1>1, <1>2, LinksExtended
  <2>2. Len(Top.links) \in Nat /\ config.depth_max \in Nat BY <1>1, TopFrozen
  <2>3. Len(links) \in 1 .. config.depth_max BY <2>1, <2>2
  <2>4. InBase(links[Len(links)].addr) BY <1>1, <2>1 DEF LinkOf
  <2> QED BY <2>1, <2>3, <2>4 DEF IsChain
<1>4. \A c \in chains' : IsChain(c) BY <1>1, <1>2, <1>3 DEF FrozenOK
<1>5. m \in Top.found BY DEF Nearest
<1>6. CASE config.find_all
  <2>1. stack' = Handled(m) /\ UNCHANGED search BY <1>6 DEF ReportChain
  <2>2. ASSUME NEW c, IsChain(c), Extends(c, Top.links), c[Len(Top.links) + 1].addr = m[1]
        PROVE  c \in chains'
    <3>1. PICK k : k = Len(Top.links) + 1 OBVIOUS
    <3>2. /\ c[k] \in Link /\ GoodLink(Pointer, c[k])
          /\ k = Len(c) => c = Append(Top.links, c[k])
          /\ k # Len(c) => Onward(c[k])
      BY <1>1, <2>2, <3>1, TopFrozen, NextLink
    <3>3. c[k] = LinkOf(m) BY <1>1, <1>5, <2>2, <3>1, <3>2, LinkIs
    <3>4. k = Len(c) BY <1>1, <2>2, <3>1, <3>2 DEF Onward
    <3> QED BY <1>1, <3>2, <3>3, <3>4
  <2> QED BY <1>1, <1>4, <1>5, <1>6, <2>1, <2>2, HandledFreezes
<1>7. CASE ~config.find_all
  <2>1. stack' = <<>> /\ search' = "done" BY <1>7 DEF ReportChain
  <2>2. chains = {} BY <1>1, <1>7 DEF FrozenOK, OneIsEnough
  <2>3. chains' = {links} BY <1>1, <1>2, <2>2
  <2>4. OneIsEnough' BY <2>1, <2>3 DEF OneIsEnough
  <2>5. 1 .. Len(stack') = {} BY <2>1
  <2> QED BY <1>1, <1>4, <1>7, <2>1, <2>3, <2>4, <2>5, FrozenStep
<1> QED BY <1>6, <1>7

LEMMA FollowFreezes ==
  ASSUME SInv, FrozenOK, NEW m \in Nearest, Follow(m), UNCHANGED <<memory, maps, process>>
  PROVE  FrozenOK'
<1>1. PICK links : links = Append(Top.links, LinkOf(m)) OBVIOUS
<1>2. PICK f : f = [links |-> links, found |-> {}] OBVIOUS
<1>3. PICK t : t = Handled(m) OBVIOUS
<1>4. /\ search = "walk" /\ search' = "enter" /\ UNCHANGED <<config, chains>>
      /\ m[2] <= Pointer /\ ~InBase(m[1]) /\ Pointer - m[2] < config.offset_max
      /\ stack' = Append(t, f)
  BY <1>1, <1>2, <1>3 DEF Follow
<1>5. /\ t \in Seq(Frame) /\ Len(t) = Len(stack) /\ Len(stack) \in Nat
      /\ Len(stack) \in 1 .. Len(stack)
      /\ \A n \in 1 .. Len(stack) : n < Len(stack) => t[n] = stack[n]
      /\ t[Len(stack)].links = Top.links /\ t[Len(stack)].found = Top.found \ {m}
      /\ \A n \in 1 .. Len(stack) : FrozenFrame(t[n]) /\ Within(t[n])
  BY <1>3, <1>4, HandledFrozen
<1>6. /\ links \in Seq(Link) /\ Len(links) = Len(Top.links) + 1
      /\ links[Len(links)] = LinkOf(m)
      /\ \A i \in 1 .. Len(links) : GoodLink(To(links, i), links[i])
      /\ \A i \in 1 .. Len(links) : i # Len(links) => Onward(links[i])
  BY <1>1, <1>4, LinksExtended
<1>7. Onward(LinkOf(m)) BY <1>4 DEF Onward, LinkOf
<1>8. f \in Frame /\ f.links = links /\ f.found = {} BY <1>2, <1>6 DEF Frame
<1>9. FrozenFrame(f) BY <1>6, <1>7, <1>8 DEF FrozenFrame, IsPrefix
<1>10. /\ Len(stack') = Len(stack) + 1 /\ stack'[Len(stack) + 1] = f
       /\ \A n \in 1 .. Len(stack) : stack'[n] = t[n]
  BY <1>4, <1>5, <1>8, AppendProperties
<1>11. \A n \in 1 .. Len(stack') :
         \/ n \in 1 .. Len(stack) /\ n < Len(stack')
         \/ n = Len(stack) + 1 /\ ~(n < Len(stack'))
  BY <1>5, <1>10
<1>12. \A n \in 1 .. Len(stack') :
         /\ FrozenFrame(stack'[n])
         /\ n < Len(stack') \/ search' = "walk" => Within(stack'[n])
  BY <1>4, <1>5, <1>9, <1>10, <1>11
<1>13. \A n \in 1 .. Len(stack) : n \in 1 .. Len(stack') /\ n < Len(stack')
  BY <1>5, <1>10
<1>14. ASSUME NEW c, IsChain(c), NEW n \in 1 .. Len(stack), Under(c, n)
       PROVE  \E i \in 1 .. Len(stack') : Under(c, i)'
  <2>1. CASE n < Len(stack)
    <3>1. stack'[n] = stack[n] BY <1>5, <1>10, <2>1
    <3>2. Under(c, n)' BY <1>13, <1>14, <2>1, <3>1, BelowStays
    <3> QED BY <1>13, <3>2
  <2>2. CASE n = Len(stack)
    <3>1. PICK k : k = Len(Top.links) + 1 OBVIOUS
    <3>2. Extends(c, Top.links) /\ c[k].addr \in {x[1] : x \in Top.found}
      BY <1>4, <1>14, <2>2, <3>1 DEF Under, Top, Todo
    <3>3. PICK x \in Top.found : x[1] = c[k].addr BY <3>2
    <3>4. CASE x # m
      <4>1. x \in stack'[n].found /\ stack'[n].links = Top.links
        BY <1>5, <1>10, <2>2, <3>4
      <4>2. Todo(n)' = {y[1] : y \in stack'[n].found} BY <1>13 DEF Todo
      <4>3. x[1] \in Todo(n)' BY <4>1, <4>2
      <4>4. Under(c, n)' BY <3>1, <3>2, <3>3, <4>1, <4>3 DEF Under
      <4> QED BY <1>13, <4>4
    <3>5. CASE x = m
      <4>1. /\ c[k] \in Link /\ GoodLink(Pointer, c[k])
            /\ k = Len(c) => InBase(c[k].addr)
            /\ k # Len(c) => Extends(c, Append(Top.links, c[k]))
        <5>1. /\ Top.links \in Seq(Link) /\ config.depth_max \in Nat
              /\ Pointer = PointerOf(Top.links)
          BY <1>4, TopFrozen
        <5>2. IsChain(c) /\ Extends(c, Top.links) BY <1>14, <3>2
        <5> QED BY <3>1, <5>1, <5>2, NextLink
      <4>2. c[k] = LinkOf(m) BY <1>4, <3>3, <3>5, <4>1, LinkIs
      <4>3. Extends(c, links) BY <1>1, <1>4, <3>3, <3>5, <4>1, <4>2
      <4>4. c[Len(links) + 1].addr \in Addresses
        <5>1. c \in Seq(Link) BY <1>14 DEF IsChain
        <5>2. Len(links) + 1 \in 1 .. Len(c) BY <1>6, <4>3, <5>1 DEF Extends
        <5>3. c[Len(links) + 1] \in Link BY <5>1, <5>2, ElementOfSeq
        <5> QED BY <5>3 DEF Link
      <4>5. PICK i : i = Len(stack) + 1 OBVIOUS
      <4>6. i \in 1 .. Len(stack') /\ ~(i < Len(stack')) /\ stack'[i].links = links
        BY <1>5, <1>8, <1>10, <4>5
      <4>7. Todo(i)' = Addresses BY <1>4, <4>6 DEF Todo
      <4>8. Under(c, i)' BY <4>3, <4>4, <4>6, <4>7 DEF Under
      <4> QED BY <4>6, <4>8
    <3> QED BY <3>4, <3>5
  <2> QED BY <1>5, <2>1, <2>2
<1>15. \A c : IsChain(c) =>
         \/ c \in chains' \/ \E n \in 1 .. Len(stack') : Under(c, n)'
         \/ ~config.find_all /\ chains' # {}
  BY <1>4, <1>14 DEF FrozenOK, Complete
<1>16. OneIsEnough' BY <1>4 DEF FrozenOK, OneIsEnough
<1>17. \A c \in chains' : IsChain(c) BY <1>4 DEF FrozenOK
<1> QED BY <1>4, <1>12, <1>15, <1>16, <1>17, FrozenStep

-------------------------------------------------------------------------------
(***************************************************************************)
(* The search as a whole, and the steps of others.                         *)
(***************************************************************************)
\* A step of others that leaves what can be read of the process.
LEMMA StillFreezes ==
  ASSUME FInv, UNCHANGED searchVars, Frozen' => Frozen,
         memory'[process'] = memory[process], Reached' = Reached,
         \A a : Readable(process, a)' <=> Readable(process, a)
  PROVE  FInv'
<1>1. UNCHANGED <<search, config, stack, regions, chains>> BY DEF searchVars
<1>2. /\ \A c : IsChain(c)' <=> IsChain(c)
      /\ \A f : (FrozenFrame(f)' <=> FrozenFrame(f)) /\ (Within(f)' <=> Within(f))
      /\ \A r, a : Left(r, a)' <=> Left(r, a)
      /\ \A links : PointerOf(links)' = PointerOf(links)
  BY <1>1, StillSame
<1>3. SUFFICES ASSUME FrozenOK PROVE FrozenOK' BY <1>1 DEF FInv
<1>4. Calls'
  <2> SUFFICES ASSUME NEW n \in 1 .. Len(stack)
               PROVE  /\ FrozenFrame(stack[n])'
                      /\ n < Len(stack) \/ search = "walk" => Within(stack[n])'
    BY <1>1 DEF Calls
  <2>1. PICK f : f = stack[n] OBVIOUS
  <2>2. FrozenFrame(f)' /\ (n < Len(stack) \/ search = "walk" => Within(f)')
    BY <1>2, <1>3, <2>1 DEF FrozenOK, Calls
  <2>3. stack'[n] = f BY <1>1, <2>1
  <2>4. FrozenFrame(stack[n])' <=> FrozenFrame(f)'
    BY <2>3 DEF FrozenFrame, IsPrefix, GoodLink, To, Matching, PointerOf, Onward, Close, InBase
  <2>5. Within(stack[n])' <=> Within(f)' BY <2>3 DEF Within, Matching, PointerOf
  <2> QED BY <2>2, <2>4, <2>5
<1>5. Top' = Top /\ Pointer' = Pointer BY <1>1 DEF Top, Pointer, PointerOf
<1>6. Matching(Pointer)' = Matching(Pointer) BY <1>1, <1>5 DEF Matching
<1>7. Scanning => Scanning' BY <1>1, <1>2, <1>5, <1>6 DEF Scanning
<1>8. \A n : Todo(n)' = Todo(n) BY <1>1, <1>2 DEF Todo
<1>9. \A c, n : Under(c, n)' <=> Under(c, n) BY <1>1, <1>8 DEF Under
<1>10. Complete' BY <1>1, <1>2, <1>3, <1>9 DEF FrozenOK, Complete
<1> QED BY <1>1, <1>2, <1>3, <1>4, <1>7, <1>10 DEF FrozenOK, OneIsEnough

LEMMA SearchStepFreezes ==
  ASSUME SInv, MapsOK, FInv, SearchStep, UNCHANGED <<memory, maps, process>>
  PROVE  FInv'
<1>1. UNCHANGED held BY DEF SearchStep, StepOfZero
<1>2. Facts(process)' = Facts(process) BY DEF Facts, Readable
<1>3. search # "idle"
  BY DEF SearchStep, StepOfZero, TooDeep, ListRegions, TooManyResults, SortResults, WalkEnds, ReadWord
<1>4. Frozen' => FrozenOK BY <1>1, <1>2, <1>3 DEF FInv, Frozen
<1>5. ASSUME Frozen' PROVE FrozenOK'
  <2>1. FrozenOK BY <1>4, <1>5
  <2>2. CASE TooDeep BY <2>1, <2>2, TooDeepFreezes
  <2>3. CASE ListRegions BY <2>1, <2>3, ListRegionsFreezes
  <2>4. CASE TooManyResults BY <2>1, <2>4, TooManyFreezes
  <2>5. CASE SortResults BY <2>1, <2>5, SortResultsFreezes
  <2>6. CASE WalkEnds BY <2>1, <2>6, WalkEndsFreezes
  <2>7. ASSUME NEW r \in regions, ReadWord(r) PROVE FrozenOK' BY <2>1, <2>7, ReadWordFreezes
  <2>8. ASSUME NEW m \in Nearest, ReportChain(m) \/ Follow(m) \/ PassOver(m) PROVE FrozenOK'
    BY <2>1, <2>8, ReportChainFreezes, FollowFreezes, PassOverFreezes
  <2>9. CASE StepOfZero
    <3>1. UNCHANGED searchVars BY <2>9 DEF StepOfZero
    <3>2. Frozen' => Frozen BY <1>1, <1>2 DEF Frozen
    <3>3. /\ memory'[process'] = memory[process] /\ Reached' = Reached
          /\ \A a : Readable(process, a)' <=> Readable(process, a)
      BY <3>1 DEF Reached, Readable, searchVars
    <3>4. FInv' BY <3>1, <3>2, <3>3, StillFreezes
    <3>5. search' # "idle" BY <1>3, <3>1 DEF searchVars
    <3> QED BY <1>5, <3>4, <3>5 DEF FInv
  <2> QED BY <2>2, <2>3, <2>4, <2>5, <2>6, <2>7, <2>8, <2>9 DEF SearchStep
<1>6. search' = "done" => stack' = <<>>
  <2>1. ASSUME Return, search \in {"enter", "scan", "walk"}, search' = "done" PROVE stack' = <<>>
    <3>1. Len(stack) = 1 /\ stack' = SubSeq(stack, 1, Len(stack) - 1) BY <2>1 DEF Return
    <3>2. stack' \in Seq(Frame) /\ Len(stack') = 0 BY <2>1, <3>1, TopFacts, FrontIs
    <3> QED BY <3>2, EmptySeq
  <2>2. CASE TooDeep BY <2>1, <2>2 DEF TooDeep
  <2>3. CASE TooManyResults BY <2>1, <2>3 DEF TooManyResults
  <2>4. CASE WalkEnds BY <2>1, <2>4 DEF WalkEnds
  <2>5. CASE ListRegions \/ SortResults BY <2>5 DEF ListRegions, SortResults
  <2>6. ASSUME NEW r \in regions, ReadWord(r) PROVE search' = "scan" BY <2>6 DEF ReadWord
  <2>7. ASSUME NEW m \in Nearest, ReportChain(m) \/ Follow(m) \/ PassOver(m)
        PROVE  search' = "done" => stack' = <<>>
    BY <2>7 DEF ReportChain, Follow, PassOver
  <2>8. CASE StepOfZero BY <2>8 DEF StepOfZero, searchVars, FInv
  <2> QED BY <2>2, <2>3, <2>4, <2>5, <2>6, <2>7, <2>8 DEF SearchStep
<1> QED BY <1>5, <1>6 DEF FInv

LEMMA SearchBeginsFreezes ==
  ASSUME SInv, NEW c \in Configs, SearchBegins(c), UNCHANGED <<memory, maps, process>>
  PROVE  FInv'
<1>1. search = "idle" /\ chains' = {} BY DEF SearchBegins, SInv
<1>2. CASE process = Nothing BY <1>1, <1>2 DEF SearchBegins, FInv
<1>3. CASE process # Nothing
  <2> DEFINE f == [links |-> <<>>, found |-> {}]
  <2>1. search' = "enter" /\ stack' = <<f>> BY <1>3 DEF SearchBegins
  <2>2. f \in Frame /\ f.links = <<>> /\ f.found = {} BY DEF Frame
  <2> HIDE DEF f
  <2>3. Len(stack') = 1 /\ stack'[1] = f BY <2>1, <2>2
  <2>4. \A n \in 1 .. Len(stack') : n = 1 BY <2>3
  <2>5. FrozenFrame(stack[1])'
    <3>1. stack'[1].links = <<>> /\ stack'[1].found = {} BY <2>2, <2>3
    <3>2. <<>> \in Seq(Link) /\ 1 .. Len(<<>>) = {} OBVIOUS
    <3> QED BY <3>1, <3>2 DEF FrozenFrame, IsPrefix
  <2>6. Calls'
    <3> SUFFICES ASSUME NEW n \in 1 .. Len(stack')
                 PROVE  /\ FrozenFrame(stack[n])'
                        /\ n < Len(stack') \/ search' = "walk" => Within(stack[n])'
      BY DEF Calls
    <3>1. n = 1 /\ ~(n < Len(stack')) BY <2>3, <2>4
    <3> QED BY <2>1, <2>5, <3>1
  <2>7. ASSUME NEW d, IsChain(d)' PROVE Under(d, 1)'
    <3>1. d \in Seq(Link) /\ Len(d) \in 1 .. config'.depth_max BY <2>7 DEF IsChain
    <3>2. Len(d) \in Nat /\ Len(d) # 0 BY <3>1
    <3>3. 1 \in 1 .. Len(d) BY <3>2
    <3>4. d[1] \in Link BY <3>1, <3>3, ElementOfSeq
    <3>5. Todo(1)' = Addresses BY <2>1, <2>3 DEF Todo
    <3>6. Len(stack'[1].links) = 0 BY <2>2, <2>3
    <3>7. Extends(d, stack'[1].links) BY <3>2, <3>6 DEF Extends
    <3>8. d[Len(stack'[1].links) + 1].addr \in Todo(1)' BY <3>4, <3>5, <3>6 DEF Link
    <3> QED BY <3>7, <3>8 DEF Under
  <2>8. 1 \in 1 .. Len(stack') BY <2>3
  <2>9. Complete' BY <2>7, <2>8 DEF Complete
  <2>10. OneIsEnough' BY <1>1 DEF OneIsEnough
  <2>11. FrozenOK' BY <1>1, <2>1, <2>6, <2>9, <2>10 DEF FrozenOK
  <2> QED BY <2>1, <2>11 DEF FInv
<1> QED BY <1>2, <1>3

\* What can be read is the same if the facts and the memory are.
LEMMA SameFacts ==
  ASSUME MemoryOK, MemoryOK', process \in Pids, UNCHANGED <<memory, process>>,
         Facts(process)' = Facts(process), NEW a
  PROVE  Readable(process, a)' <=> Readable(process, a)
<1>1. ASSUME Readable(process, a) PROVE Readable(process, a)'
  <2>1. <<process, a, memory[process][a]>> \in Facts(process)' BY <1>1, ReadableFact
  <2> QED BY <2>1 DEF Facts
<1>2. ASSUME Readable(process, a)' PROVE Readable(process, a)
  <2>1. a \in Addresses
    <3>1. PICK line \in maps'[process] : a \in Cells(line) BY <1>2 DEF Readable
    <3>2. line \in Lines BY <3>1 DEF MemoryOK
    <3> QED BY <3>1, <3>2 DEF Cells
  <2>2. <<process, a, memory[process][a]>> \in Facts(process)' BY <1>2, <2>1 DEF Facts
  <2>3. <<process, a, memory[process][a]>> \in Facts(process) BY <2>2
  <2> QED BY <2>3 DEF Facts
<1> QED BY <1>1, <1>2

\* What is stored differs from what was there: from then on the record holds more
\* than the memory.
LEMMA StoreThaws ==
  ASSUME MemoryOK, process \in Pids, UNCHANGED process, Store,
         Facts(process) \subseteq held["search"]
  PROVE  ~Frozen'
<1> DEFINE Stored(q, a, v) ==
             /\ memory' = [memory EXCEPT ![q][a] = v]
             /\ held' = [w \in Watchers |-> held[w] \union {<<q, a, v>>}]
<1>1. PICK q \in Pids : \E line \in maps[q] : \E a \in Cells(line) \ Holes :
        "w" \in line.perms /\ \E v \in Values \ {memory[q][a]} : Stored(q, a, v)
  BY Zenon DEF Store
<1>2. PICK line \in maps[q] : \E a \in Cells(line) \ Holes :
         "w" \in line.perms /\ \E v \in Values \ {memory[q][a]} : Stored(q, a, v)
  BY <1>1, Zenon
<1>3. PICK a \in Cells(line) : \E v \in Values \ {memory[q][a]} : Stored(q, a, v)
  BY <1>2, Zenon
<1>4. PICK v \in Values : v # memory[q][a] /\ Stored(q, a, v) BY <1>3, Zenon
<1>5. a \in Addresses
  <2>1. line \in Lines BY <1>2 DEF MemoryOK
  <2> QED BY <2>1 DEF Cells
<1>6. UNCHANGED maps BY DEF Store
<1>7. memory'[q][a] = v BY <1>4, <1>5 DEF MemoryOK
<1>8. held'["search"] = held["search"] \union {<<q, a, v>>} BY <1>4
<1> SUFFICES ASSUME Frozen' PROVE FALSE OBVIOUS
<1>9. <<q, a, v>> \in Facts(process)' BY <1>8 DEF Frozen
<1>10. q = process /\ Readable(process, a)' BY <1>9 DEF Facts
<1>11. Readable(process, a) BY <1>6, <1>10 DEF Readable
<1>12. <<process, a, memory[process][a]>> \in Facts(process)
  BY <1>11, ReadableFact
<1>13. <<process, a, memory[process][a]>> \in Facts(process)' BY <1>8, <1>12 DEF Frozen
<1>14. memory[process][a] = memory'[process][a] BY <1>13 DEF Facts
<1> QED BY <1>4, <1>7, <1>10, <1>14

\* Nothing that the scan reaches is unmapped without the record telling.
LEMMA UnmapReaches ==
  ASSUME MemoryOK, MemoryOK', MapsOK, process \in Pids, config \in Config,
         UNCHANGED <<process, config>>, Unmap,
         \A a : Readable(process, a)' <=> Readable(process, a)
  PROVE  Reached' = Reached
<1>1. PICK q \in Pids : \E line \in maps[q] : maps' = [maps EXCEPT ![q] = @ \ {line}]
  BY DEF Unmap
<1>2. PICK gone \in maps[q] : maps' = [maps EXCEPT ![q] = @ \ {gone}] BY <1>1
<1>3. maps'[process] = IF q = process THEN maps[process] \ {gone} ELSE maps[process]
  BY <1>2 DEF MemoryOK
<1>4. ASSUME NEW line \in maps[process], Readable(process, line.first)
      PROVE  line \in maps'[process]
  <2>1. PICK other \in maps'[process] : line.first \in Cells(other)
    BY <1>4 DEF Readable
  <2>2. other \in maps[process] /\ line.first \in Cells(line)
    <3>1. line \in Lines BY DEF MemoryOK
    <3>2. line.first \in Nat /\ line.end \in Nat /\ line.first < line.end
      BY <3>1 DEF MapsOK
    <3>3. line.first \in Cells(line) BY <3>2 DEF Cells
    <3> QED BY <1>3, <2>1, <3>3
  <2>3. other = line BY <2>1, <2>2 DEF MapsOK
  <2> QED BY <2>1, <2>3
<1>5. ASSUME NEW a \in Addresses, NEW line \in maps[process], config.step # 0,
             \E k \in 0 .. a : a = line.first + k * config.step,
             \A b \in line.first .. a + config.step - 1 : Readable(process, b)
      PROVE  line \in maps'[process]
  <2>1. Readable(process, line.first) BY <1>5, ReachedIs
  <2> QED BY <1>4, <2>1
<1>6. maps'[process] \subseteq maps[process] BY <1>3
<1> QED BY <1>5, <1>6 DEF Reached

LEMMA TargetFreezes ==
  ASSUME SInv, MapsOK, FInv, TargetRuns, UNCHANGED <<searchVars, process>>
  PROVE  FInv'
<1>1. UNCHANGED <<search, stack>> BY DEF searchVars
<1>2. CASE search = "idle" BY <1>1, <1>2 DEF FInv
<1>3. CASE search # "idle" /\ ~Frozen' BY <1>1, <1>3 DEF FInv
<1>4. CASE search # "idle" /\ Frozen'
  <2>1. /\ MemoryOK /\ process \in Pids /\ config \in Config
        /\ Facts(process) \subseteq held["search"] /\ UNCHANGED config
    BY <1>4 DEF SInv, SearchOK, searchVars
  <2>2. Unmap BY <1>4, <2>1, StoreThaws DEF TargetRuns
  <2>3. UNCHANGED <<memory, held>> BY <2>2 DEF Unmap
  <2>4. MemoryOK' /\ \A a : Readable(process, a)' => Readable(process, a)
    BY <2>1, TargetGrows
  <2>5. Facts(process)' \subseteq Facts(process) BY <2>3, <2>4 DEF Facts
  <2>6. Facts(process)' = held["search"] BY <1>4, <2>3 DEF Frozen
  <2>7. Facts(process)' = Facts(process)
    <3>1. Facts(process) \subseteq Facts(process)' BY <2>1, <2>6
    <3> QED BY <2>5, <3>1
  <2>8. Frozen BY <2>6, <2>7 DEF Frozen
  <2>9. \A a : Readable(process, a)' <=> Readable(process, a)
    BY <2>1, <2>3, <2>4, <2>7, SameFacts
  <2>10. Reached' = Reached BY <2>1, <2>2, <2>4, <2>9, UnmapReaches
  <2> QED BY <2>3, <2>8, <2>9, <2>10, StillFreezes
<1> QED BY <1>2, <1>3, <1>4

LEMMA NextFreezes ==
  ASSUME SInv, MapsOK, FInv, [InspectionNext]_inspectionVars
  PROVE  FInv'
<1>1. CASE Commands
  <2>1. search = "idle" BY <1>1 DEF Commands, Awaiting
  <2>2. CASE PointerCommand BY <2>2, SearchBeginsFreezes DEF PointerCommand, vars
  <2>3. CASE UNCHANGED searchVars BY <2>1, <2>3 DEF FInv, searchVars
  <2> QED BY <1>1, <2>2, <2>3 DEF Commands
<1>2. CASE SearchStep /\ UNCHANGED <<vars, memory, maps>>
  BY <1>2, SearchStepFreezes DEF vars
<1>3. CASE PointerReturns BY <1>3 DEF PointerReturns, SearchReturns, FInv
<1>4. ASSUME UNCHANGED <<searchVars, process, memory, maps>>, held'["search"] = held["search"]
      PROVE  FInv'
  <2>1. Facts(process)' = Facts(process) BY <1>4 DEF Facts, Readable
  <2>2. Frozen' => Frozen BY <1>4, <2>1 DEF Frozen
  <2>3. Reached' = Reached BY <1>4 DEF Reached, Readable, searchVars
  <2>4. \A a : Readable(process, a)' <=> Readable(process, a) BY <1>4 DEF Readable
  <2> QED BY <1>4, <2>2, <2>3, <2>4, StillFreezes
<1>5. CASE Refresh /\ UNCHANGED <<memory, maps, searchVars>>
  <2>1. UNCHANGED process
    BY <1>5 DEF Refresh, BeginRefresh, RefreshCell, EndRefresh, vars
  <2>2. held' = held \/ held' = [held EXCEPT !["refresh"] = Facts(process)]
    BY <1>5 DEF Refresh, BeginRefresh, RefreshCell, EndRefresh, Watch
  <2>3. held'["search"] = held["search"] BY <2>2 DEF SInv, MemoryOK
  <2> QED BY <1>4, <1>5, <2>1, <2>3
<1>6. CASE TargetRuns /\ UNCHANGED <<vars, searchVars>>
  BY <1>6, TargetFreezes DEF vars
<1>7. CASE UNCHANGED inspectionVars
  BY <1>4, <1>7 DEF inspectionVars, targetVars, vars
<1> QED BY <1>1, <1>2, <1>3, <1>5, <1>6, <1>7 DEF InspectionNext, Work

LEMMA FInvShows ==
  ASSUME SInv, FInv
  PROVE  FrozenSearchExact
<1> SUFFICES ASSUME search = "done", Frozen
             PROVE  IF config.find_all THEN chains = AllChains
                    ELSE /\ chains \subseteq AllChains /\ Cardinality(chains) <= 1
                         /\ chains = {} => AllChains = {}
  BY DEF FrozenSearchExact, Frozen
<1>1. FrozenOK /\ stack = <<>> BY DEF FInv
<1>2. MemoryOK /\ process \in Pids /\ config \in Config BY DEF SInv, SearchOK
<1>3. \A c : c \in AllChains <=> IsChain(c) BY <1>2, ChainsAre
<1>4. chains \subseteq AllChains BY <1>1, <1>3 DEF FrozenOK
<1>5. \A c \in AllChains : c \in chains \/ (~config.find_all /\ chains # {})
  <2>1. 1 .. Len(stack) = {} BY <1>1
  <2> QED BY <1>1, <1>3, <2>1 DEF FrozenOK, Complete
<1>6. ~config.find_all => Cardinality(chains) <= 1
  <2> SUFFICES ASSUME ~config.find_all PROVE Cardinality(chains) <= 1 OBVIOUS
  <2>1. chains = {} \/ \E c : chains = {c} BY <1>1 DEF FrozenOK, OneIsEnough
  <2>2. Cardinality(chains) = 0 \/ Cardinality(chains) = 1
    BY <2>1, FS_EmptySet, FS_Singleton
  <2> QED BY <2>2
<1>7. config.find_all => chains = AllChains BY <1>4, <1>5
<1>8. ~config.find_all /\ chains = {} => AllChains = {} BY <1>5
<1> QED BY <1>4, <1>6, <1>7, <1>8

(***************************************************************************)
(* If the target changes nothing while the command runs, the command       *)
(* prints exactly the chains there are, or one of them if there is one and *)
(* not all are wanted: the recursion, the order of the scans, the early    *)
(* end of the loop and the calls that give up lose nothing but what the    *)
(* limits exclude.                                                         *)
(***************************************************************************)
THEOREM FrozenSearch == InspectionSpec => []FrozenSearchExact
<1>1. InspectionInit => MapsOK
  BY TargetAssumption, LinesAssumption DEF InspectionInit, TargetInit, MapsOK
<1>2. InspectionInit => FInv BY DEF InspectionInit, SearchInit, FInv
<1>3. InspectionSpec => []MapsOK BY <1>1, MapsStay, PTL DEF InspectionSpec
<1>4. SInv /\ MapsOK /\ FInv /\ [InspectionNext]_inspectionVars => FInv' BY NextFreezes
<1>5. InspectionSpec => []FInv BY <1>2, <1>3, <1>4, SInvInvariant, PTL DEF InspectionSpec
<1>6. SInv /\ FInv => FrozenSearchExact BY FInvShows
<1> QED BY <1>5, <1>6, SInvInvariant, PTL

USE AppAssumption, ViewAssumption, MapAssumption, InspectionAssumption

-------------------------------------------------------------------------------
(***************************************************************************)
(* Inspection implements App.                                              *)
(***************************************************************************)
LEMMA ViewNames ==
  /\ Data \in Views /\ RegionList \in Views /\ Message \in Views
  /\ Data \notin Ids /\ Data # Nothing /\ Data # Message /\ Data # RegionList
BY DEF Views, Ids

LEMMA PlainSimulates == Plain => [Next]_vars
BY DEF Plain, Next, Views

LEMMA CommandsSimulate == Commands => [Next]_vars
<1> SUFFICES ASSUME Commands PROVE [Next]_vars OBVIOUS
<1>1. ASSUME NEW v \in Views, ShowView(v) PROVE [Next]_vars BY <1>1 DEF Next
<1>2. Report => [Next]_vars BY DEF Next
<1>3. CASE Plain BY <1>3, PlainSimulates
<1>4. CASE ViewCommand
  <2>1. PICK r \in Requests : OpenData(r) \/ RefuseData(r) \/ CrashOnData(r)
    BY <1>4 DEF ViewCommand
  <2>2. CASE OpenData(r)
    <3>1. ShowView(Data) BY <2>2 DEF OpenData, ShowView
    <3> QED BY <1>1, <3>1, ViewNames
  <2>3. CASE RefuseData(r) BY <1>2, <2>3 DEF RefuseData
  <2>4. CASE CrashOnData(r) BY <2>4 DEF CrashOnData
  <2> QED BY <2>1, <2>2, <2>3, <2>4
<1>5. CASE DataKeys BY <1>5 DEF DataKeys, DataKey, Timeout
<1>6. CASE ListCommand
  <2>1. (\E s \in Selections : RegionCommand(s)) \/ SortRegions BY <1>6 DEF ListCommand
  <2>2. RegionList \in Views BY ViewNames
  <2>3. UNCHANGED vars \/ ShowView(RegionList)
    BY <2>1 DEF RegionCommand, SortRegions, ShowView
  <2> QED BY <1>1, <2>2, <2>3
<1>7. CASE PointerCommand BY <1>7 DEF PointerCommand
<1> QED BY <1>3, <1>4, <1>5, <1>6, <1>7 DEF Commands

LEMMA InspectionSimulates == [InspectionNext]_inspectionVars => [Next]_vars
<1> SUFFICES ASSUME [InspectionNext]_inspectionVars PROVE [Next]_vars OBVIOUS
<1>1. CASE Commands BY <1>1, CommandsSimulate
<1>2. CASE Work
  BY <1>2 DEF Work, PointerReturns, Refresh, BeginRefresh, RefreshCell, EndRefresh
<1>3. CASE UNCHANGED vars BY <1>3
<1>4. UNCHANGED inspectionVars => UNCHANGED vars BY DEF inspectionVars
<1> QED BY <1>1, <1>2, <1>3, <1>4 DEF InspectionNext

(***************************************************************************)
(* With pointer searches, data views and region lists the application      *)
(* still is the one of App, whose theorems hold of it: none of them        *)
(* touches a session, and what they show, they show as commands do.        *)
(***************************************************************************)
THEOREM InspectionIsApp == InspectionSpec => Spec
<1>1. InspectionInit => Init BY DEF InspectionInit
<1> QED BY <1>1, InspectionSimulates, PTL DEF InspectionSpec, Spec

-------------------------------------------------------------------------------
(***************************************************************************)
(* The invariant.                                                          *)
(***************************************************************************)
View == [pid : Pids, address : Nat, auto : BOOLEAN, cells : Seq(Values \union {Zero})]

Fact(i) == <<data.pid, data.address + i - 1, data.cells[i]>>

\* The view on the screen is one of the attached process; its cells are zeros or
\* have been in memory since it was opened.
ViewOK ==
  /\ data \in View /\ data.pid = process
  /\ Facts(process) \subseteq held["view"]
  /\ \A i \in 1 .. Len(data.cells) : data.cells[i] = Zero \/ Fact(i) \in held["view"]

\* The reading at work, or the last one.
ReadingOK ==
  /\ row <= Len(data.cells)
  /\ Facts(process) \subseteq held["refresh"]
  /\ \A i \in 1 .. Len(data.cells) : i <= row => Fact(i) \in held["refresh"]

DInv ==
  /\ passes \in Nat /\ row \in Nat /\ reading \in BOOLEAN
  /\ reading => passes > 0
  /\ passes > 0 => shown = Data
  /\ shown = Data => ViewOK
  /\ shown = Data /\ (reading \/ passes = 0) => ReadingOK
  /\ shown = Data /\ passes = 0 /\ row < Len(data.cells) => ~Readable(process, Source)

LEMMA DInvShows == DInv => CellsHonest
BY DEF DInv, ViewOK, ReadingOK, CellsHonest, Source, Fact, View

LEMMA InitDInv == InspectionInit => DInv
<1> SUFFICES ASSUME InspectionInit PROVE DInv OBVIOUS
<1>1. shown # Data /\ passes = 0 /\ reading = FALSE
  BY ViewNames DEF InspectionInit, Init, ViewInit
<1>2. passes \in Nat /\ ~(passes > 0) /\ row \in Nat
  BY <1>1 DEF InspectionInit, ViewInit
<1>3. reading \in BOOLEAN /\ ~reading BY <1>1
<1> QED BY <1>1, <1>2, <1>3, Zenon DEF DInv

-------------------------------------------------------------------------------
(***************************************************************************)
(* Commands.                                                               *)
(***************************************************************************)
\* A step that does not concern the view.
LEMMA ViewStays ==
  ASSUME DInv, UNCHANGED <<process, shown, memory, maps, data, passes, row, reading>>,
         held'["view"] = held["view"], held'["refresh"] = held["refresh"]
  PROVE  DInv'
<1>1. Facts(process)' = Facts(process) BY DEF Facts, Readable
<1>2. \A i : Fact(i)' = Fact(i) BY DEF Fact
<1> QED BY <1>1, <1>2 DEF DInv, ViewOK, ReadingOK, Readable, Source

\* Another view is on the screen, or the same one, and it is read once more.
LEMMA ShownAgain ==
  ASSUME DInv, passes = 0,
         shown' = Data => /\ shown = Data /\ held'["view"] = held["view"]
                          /\ UNCHANGED <<data, process, memory, maps>>,
         Turn(0)
  PROVE  DInv'
<1>1. ~reading BY DEF DInv
<1>2. reading' \in BOOLEAN /\ ~reading' BY <1>1 DEF DInv, Turn
<1>3. row' \in Nat BY DEF DInv, Turn
<1>4. CASE shown' # Data
  <2>1. passes' = 0 BY <1>4 DEF Turn
  <2>2. passes' \in Nat /\ ~(passes' > 0) BY <2>1
  <2> QED BY <1>2, <1>3, <1>4, <2>2, Zenon DEF DInv
<1>5. CASE shown' = Data
  <2>1. /\ shown = Data /\ held'["view"] = held["view"]
        /\ UNCHANGED <<data, process, memory, maps>>
    BY <1>5
  <2>2. ViewOK BY <2>1 DEF DInv
  <2>3. Facts(process)' = Facts(process) BY <2>1 DEF Facts, Readable
  <2>4. \A i : Fact(i)' = Fact(i) BY <2>1 DEF Fact
  <2>5. ViewOK' BY <2>1, <2>2, <2>3, <2>4 DEF ViewOK
  <2>6. passes' = 1 BY <1>5 DEF Turn
  <2>7. passes' \in Nat /\ passes' # 0 BY <2>6
  <2> QED BY <1>2, <1>3, <1>5, <2>5, <2>7, Zenon DEF DInv
<1> QED BY <1>4, <1>5

\* Of the commands of App only those that leave the process leave the view.
LEMMA PlainShows ==
  ASSUME IInv, Plain, shown' = Data
  PROVE  shown = Data /\ UNCHANGED process
<1>1. current \in Ids \union {Nothing} /\ sessions \in Seq(Session)
  BY DEF IInv, TypeOK
<1>2. \A v : Show(v) /\ v # Data => shown' # Data BY ViewNames DEF Show
<1>3. \A i \in 1 .. Len(sessions) : sessions[i].id \in Ids
  <2>1. \A i \in 1 .. Len(sessions) : sessions[i] \in Session BY <1>1
  <2> QED BY <2>1 DEF Session
<1>4. ~Report /\ ~(\E p \in Pids : Attach(p)) /\ ~EmptyLine /\ ~ResetSession
  BY <1>1, <1>2, ViewNames DEF Report, Attach, EmptyLine, ResetSession
<1>5. ~\E name \in Names : Scan(name)
  <2>1. ASSUME NEW name \in Names, Scan(name) PROVE scans' \in Ids
    BY <2>1 DEF IInv, TypeOK, Scan, Ids
  <2> QED BY <1>2, <2>1, ViewNames DEF Scan
<1>6. ASSUME NEW i \in 1 .. Len(sessions), SelectSession(i) PROVE FALSE
  BY <1>2, <1>3, <1>6, ViewNames DEF SelectSession
<1>7. ASSUME NEW i \in 1 .. Len(sessions), DeleteSession(i) PROVE FALSE
  <2>1. sessions' \in Seq(Session) BY <1>1, <1>7, WithoutFacts DEF DeleteSession
  <2>2. sessions' # <<>> => sessions'[1] \in Session BY <2>1
  <2>3. current' \in Ids \union {Nothing} BY <1>7, <2>2 DEF DeleteSession, Session
  <2> QED BY <1>2, <1>7, <2>3, ViewNames DEF DeleteSession
<1>8. ~\E v \in Views \ {Data, RegionList} : ShowView(v) BY <1>2 DEF ShowView
<1>9. Filter \/ UNCHANGED vars
  BY <1>4, <1>5, <1>6, <1>7, <1>8 DEF Plain, Argument
<1> QED BY <1>9 DEF Filter, vars

LEMMA PlainKeepsView ==
  ASSUME DInv, IInv, passes = 0, Plain, UNCHANGED <<memory, maps>>
  PROVE  DInv'
<1>1. shown' = Data => UNCHANGED <<data, held>> BY DEF Plain, KeepData
<1>2. Turn(0) BY DEF Plain
<1> QED BY <1>1, <1>2, PlainShows, ShownAgain

LEMMA CellsCount ==
  ASSUME NEW r \in Requests, ~Refused(r), ~Crashes(r)
  PROVE  CellsOf(r) \in Nat /\ r.address \in Nat
<1>1. r \in Request OBVIOUS
<1>2. r.address \in Nat /\ r.count \in Nat
  BY <1>1 DEF Request, Expression, Refused, Crashes
<1>3. Count(r) \in Nat
  <2>1. \A n \in Int : n % AddressMod \in Nat OBVIOUS
  <2> QED BY <1>2, <2>1 DEF Count
<1>4. Size[TypeOf(r)] \in Nat \ {0}
  <2>1. TypeOf(r) \in DOMAIN Size BY <1>1 DEF TypeOf, Request, Refused
  <2> QED BY <2>1
<1>5. ASSUME NEW n \in Nat, NEW s \in Nat \ {0}
      PROVE  n - (n % s) \in Nat /\ n * s \in Nat
  <2>1. n % s \in Int /\ n % s <= n BY <1>5
  <2> QED BY <2>1
<1> QED BY <1>2, <1>3, <1>4, <1>5 DEF CellsOf

LEMMA OpenDataHolds ==
  ASSUME DInv, MemoryOK, passes = 0, NEW r \in Requests, OpenData(r), UNCHANGED <<memory, maps>>
  PROVE  DInv'
<1> DEFINE cells == [i \in 1 .. CellsOf(r) |-> Zero]
<1>1. CellsOf(r) \in Nat /\ r.address \in Nat BY CellsCount DEF OpenData
<1>2. process \in Pids /\ UNCHANGED process
  BY DEF OpenData, Refused, MemoryOK
<1>3. /\ cells \in Seq(Values \union {Zero}) /\ Len(cells) = CellsOf(r)
      /\ \A i \in 1 .. Len(cells) : cells[i] = Zero
  BY <1>1
<1> HIDE DEF cells
<1>4. data' = [pid |-> process, address |-> r.address, auto |-> FALSE, cells |-> cells]
  BY DEF OpenData, cells
<1>5. data' \in View BY <1>1, <1>2, <1>3, <1>4 DEF View
<1>6. Facts(process)' = Facts(process) BY <1>2 DEF Facts, Readable
<1>7. held'["view"] = Facts(process) BY DEF OpenData, Watch, MemoryOK
<1>8. ViewOK' BY <1>2, <1>3, <1>4, <1>5, <1>6, <1>7 DEF ViewOK
<1>9. shown' = Data BY ViewNames DEF OpenData, Show
<1>10. passes' = 2 /\ ~reading' /\ reading' \in BOOLEAN /\ row' \in Nat
  BY <1>9 DEF OpenData, Turn, DInv
<1>11. passes' \in Nat /\ passes' # 0 BY <1>10
<1> QED BY <1>8, <1>9, <1>10, <1>11, Zenon DEF DInv

LEMMA DataKeysHold ==
  ASSUME DInv, passes = 0, DataKeys, UNCHANGED <<memory, maps>>
  PROVE  DInv'
<1>1. shown = Data /\ UNCHANGED <<vars, held>> BY DEF DataKeys, DataKey, Timeout
<1>2. UNCHANGED <<shown, process>> BY <1>1 DEF vars
<1>3. CASE Timeout BY <1>1, <1>2, <1>3, ShownAgain DEF Timeout
<1>4. CASE DataKey
  <2>1. PICK auto \in BOOLEAN, handler \in {0, 1} :
          data' = [data EXCEPT !.auto = auto] /\ Turn(handler)
    BY <1>4 DEF DataKey
  <2>2. ViewOK BY <1>1 DEF DInv
  <2>3. /\ data' \in View /\ data'.pid = data.pid /\ data'.address = data.address
        /\ data'.cells = data.cells
    BY <2>1, <2>2 DEF ViewOK, View
  <2>4. Facts(process)' = Facts(process) BY <1>2 DEF Facts, Readable
  <2>5. \A i : Fact(i)' = Fact(i) BY <2>3 DEF Fact
  <2>6. ViewOK' BY <1>1, <1>2, <2>2, <2>3, <2>4, <2>5 DEF ViewOK
  <2>7. passes' \in Nat /\ passes' # 0 /\ row' \in Nat
    BY <1>1, <1>2, <2>1 DEF Turn, DInv
  <2>8. reading' \in BOOLEAN /\ ~reading' BY <2>1 DEF DInv, Turn
  <2> QED BY <1>1, <1>2, <2>6, <2>7, <2>8, Zenon DEF DInv
<1> QED BY <1>3, <1>4 DEF DataKeys

LEMMA CommandsKeepView ==
  ASSUME DInv, IInv, MemoryOK, Commands
  PROVE  DInv'
<1>1. passes = 0 BY DEF Commands, Awaiting
<1>2. CASE PointerCommand
  <2>1. /\ UNCHANGED <<process, shown, memory, maps, data, passes, row, reading>>
        /\ held'["view"] = held["view"] /\ held'["refresh"] = held["refresh"]
    BY <1>2 DEF PointerCommand, SearchBegins, Watch, vars, viewVars, MemoryOK
  <2> QED BY <2>1, ViewStays
<1>3. CASE UNCHANGED <<memory, maps, changes, searchVars, searches>>
  <2>1. CASE Plain BY <1>1, <1>3, <2>1, PlainKeepsView
  <2>2. KeepData /\ shown' = Data => UNCHANGED <<data, held>> BY DEF KeepData
  <2>3. CASE ViewCommand
    <3>1. PICK r \in Requests : OpenData(r) \/ RefuseData(r) \/ CrashOnData(r)
      BY <2>3 DEF ViewCommand
    <3>2. CASE OpenData(r) BY <1>1, <1>3, <3>2, OpenDataHolds
    <3>3. CASE RefuseData(r)
      <4>1. shown' # Data BY <3>3, ViewNames DEF RefuseData, Report, Show
      <4> QED BY <1>1, <3>3, <4>1, ShownAgain DEF RefuseData
    <3>4. CASE CrashOnData(r)
      <4>1. UNCHANGED <<process, shown, memory, maps, data, passes, row, reading, held>>
        BY <1>3, <3>4 DEF CrashOnData, vars, viewVars
      <4> QED BY <4>1, ViewStays
    <3> QED BY <3>1, <3>2, <3>3, <3>4
  <2>4. CASE DataKeys BY <1>1, <1>3, <2>4, DataKeysHold
  <2>5. CASE ListCommand
    <3>1. shown' = Data => shown = Data /\ UNCHANGED process
      BY <2>5, ViewNames DEF ListCommand, RegionCommand, SortRegions, Show, vars
    <3> QED BY <1>1, <1>3, <2>2, <2>5, <3>1, ShownAgain DEF ListCommand
  <2> QED BY <1>2, <2>1, <2>3, <2>4, <2>5 DEF Commands
<1> QED BY <1>2, <1>3 DEF Commands

-------------------------------------------------------------------------------
(***************************************************************************)
(* The reading, and the target.                                            *)
(***************************************************************************)
LEMMA RefreshKeepsView ==
  ASSUME DInv, MemoryOK, Refresh, UNCHANGED <<memory, maps>>
  PROVE  DInv'
<1>1. UNCHANGED <<process, shown>>
  BY DEF Refresh, BeginRefresh, RefreshCell, EndRefresh, vars
<1>2. shown = Data /\ ViewOK /\ passes \in Nat /\ passes > 0
  BY DEF Refresh, BeginRefresh, RefreshCell, EndRefresh, DInv
<1>3. Facts(process)' = Facts(process) BY <1>1 DEF Facts, Readable
<1>4. Len(data.cells) \in Nat /\ process \in Pids /\ data.address \in Nat
  BY <1>2 DEF ViewOK, View
<1>5. CASE BeginRefresh
  <2>1. /\ UNCHANGED <<data, passes>> /\ row' = 0 /\ reading' = TRUE
        /\ held'["refresh"] = Facts(process) /\ held'["view"] = held["view"]
    BY <1>5 DEF BeginRefresh, Watch, MemoryOK
  <2>2. \A i : Fact(i)' = Fact(i) BY <2>1 DEF Fact
  <2>3. ViewOK' BY <1>1, <1>2, <1>3, <2>1, <2>2 DEF ViewOK
  <2>4. ReadingOK' BY <1>3, <1>4, <2>1 DEF ReadingOK
  <2>5. row' \in Nat /\ passes' \in Nat /\ passes' > 0 /\ passes' # 0 BY <1>2, <2>1
  <2> QED BY <1>1, <1>2, <2>1, <2>3, <2>4, <2>5, Zenon DEF DInv
<1>6. CASE RefreshCell
  <2> DEFINE value == memory[process][Source]
  <2>1. /\ reading /\ row < Len(data.cells) /\ Readable(process, Source)
        /\ data' = [data EXCEPT !.cells[row + 1] = value]
        /\ row' = row + 1 /\ UNCHANGED <<passes, reading, held>>
    BY <1>6 DEF RefreshCell
  <2>2. ReadingOK /\ row \in Nat /\ row + 1 \in 1 .. Len(data.cells)
    BY <1>2, <1>4, <2>1 DEF DInv
  <2>3. Source \in Addresses /\ <<process, Source, value>> \in Facts(process)
    BY <1>4, <2>1, ReadableFact
  <2>4. value \in Values BY <1>4, <2>3 DEF MemoryOK
  <2> HIDE DEF value
  <2>5. PICK n : n = row + 1 OBVIOUS
  <2>6. /\ data' \in View /\ data'.pid = data.pid /\ data'.address = data.address
        /\ Len(data'.cells) = Len(data.cells)
        /\ \A i \in 1 .. Len(data.cells) :
             data'.cells[i] = IF i = n THEN value ELSE data.cells[i]
    <3> DEFINE cells == [data.cells EXCEPT ![n] = value]
    <3>1. data \in View /\ n \in 1 .. Len(data.cells) BY <1>2, <2>2, <2>5 DEF ViewOK
    <3>2. data.cells \in Seq(Values \union {Zero}) BY <3>1 DEF View
    <3>3. /\ cells \in Seq(Values \union {Zero}) /\ Len(cells) = Len(data.cells)
          /\ \A i \in 1 .. Len(data.cells) :
               cells[i] = IF i = n THEN value ELSE data.cells[i]
      BY <2>4, <3>1, <3>2, ReplaceIs
    <3>4. data' = [data EXCEPT !.cells = cells] BY <2>1, <2>5, <3>1 DEF View
    <3> HIDE DEF cells
    <3>5. data'.cells = cells BY <3>1, <3>4 DEF View
    <3>6. /\ data' \in View /\ data'.pid = data.pid /\ data'.address = data.address
      BY <3>1, <3>3, <3>4 DEF View
    <3> QED BY <3>3, <3>5, <3>6
  <2>7. \A i \in 1 .. Len(data.cells) : i # n => Fact(i)' = Fact(i)
    BY <2>6 DEF Fact
  <2>8. Fact(n)' = <<process, Source, value>>
    <3>1. data.address + n - 1 = Source BY <1>4, <2>2, <2>5 DEF Source
    <3>2. data'.cells[n] = value BY <2>2, <2>5, <2>6
    <3> QED BY <1>2, <2>6, <3>1, <3>2 DEF Fact, ViewOK
  <2>9. ViewOK'
    <3>1. \A i \in 1 .. Len(data.cells) : (data.cells[i])' = Zero \/ Fact(i)' \in held'["view"]
      BY <1>2, <2>1, <2>3, <2>6, <2>7, <2>8, ZenonT(40) DEF ViewOK
    <3> QED BY <1>1, <1>2, <1>3, <2>1, <2>6, <3>1 DEF ViewOK
  <2>10. ReadingOK'
    <3>1. row' <= Len(data'.cells) BY <1>4, <2>1, <2>2, <2>6
    <3>2. ASSUME NEW i \in 1 .. Len(data.cells), i <= row' PROVE Fact(i)' \in held'["refresh"]
      <4>1. CASE i = n BY <2>1, <2>2, <2>3, <2>8, <4>1 DEF ReadingOK
      <4>2. CASE i # n
        <5>1. i <= row BY <1>4, <2>1, <2>2, <2>5, <3>2, <4>2
        <5> QED BY <2>1, <2>2, <2>7, <4>2, <5>1 DEF ReadingOK
      <4> QED BY <4>1, <4>2
    <3> QED BY <1>3, <2>1, <2>2, <2>6, <3>1, <3>2 DEF ReadingOK
  <2>11. row' \in Nat /\ passes' \in Nat /\ passes' > 0 /\ passes' # 0 BY <1>2, <2>1, <2>2
  <2>12. reading' \in BOOLEAN BY <2>1 DEF DInv
  <2> QED BY <1>1, <1>2, <2>9, <2>10, <2>11, <2>12, Zenon DEF DInv
<1>7. CASE EndRefresh
  <2>1. /\ reading /\ reading' = FALSE /\ passes' = passes - 1
        /\ row < Len(data.cells) => ~Readable(process, Source)
        /\ UNCHANGED <<data, row, held>>
    BY <1>7 DEF EndRefresh
  <2>2. \A i : Fact(i)' = Fact(i) BY <2>1 DEF Fact
  <2>3. ReadingOK /\ row \in Nat BY <1>2, <2>1 DEF DInv
  <2>4. ViewOK' BY <1>1, <1>2, <1>3, <2>1, <2>2 DEF ViewOK
  <2>5. ReadingOK' BY <1>3, <2>1, <2>2, <2>3 DEF ReadingOK
  <2>6. row' \in Nat /\ passes' \in Nat BY <1>2, <2>1, <2>3
  <2>7. (row < Len(data.cells))' => ~Readable(process, Source)'
    BY <1>1, <2>1 DEF Readable, Source
  <2> QED BY <1>1, <1>2, <2>1, <2>4, <2>5, <2>6, <2>7, Zenon DEF DInv
<1> QED BY <1>5, <1>6, <1>7 DEF Refresh

LEMMA TargetKeepsView ==
  ASSUME DInv, MemoryOK, TargetRuns, UNCHANGED <<process, shown, data, passes, row, reading>>
  PROVE  DInv'
<1>1. "view" \in Watchers /\ "refresh" \in Watchers OBVIOUS
<1>2. CASE shown # Data BY <1>2 DEF DInv
<1>3. CASE shown = Data
  <2>1. ViewOK /\ process \in Pids BY <1>3 DEF DInv, ViewOK, View
  <2>2. \A i : Fact(i)' = Fact(i) BY DEF Fact
  <2>3. ViewOK' BY <1>1, <2>1, <2>2, TargetGrows DEF ViewOK
  <2>4. ReadingOK => ReadingOK' BY <1>1, <2>1, <2>2, TargetGrows DEF ReadingOK
  <2>5. Readable(process, Source)' => Readable(process, Source)
    <3>1. PICK a : a = Source OBVIOUS
    <3>2. Readable(process, a)' => Readable(process, a) BY <2>1, TargetGrows
    <3> QED BY <3>1, <3>2 DEF Source, Readable
  <2> QED BY <1>3, <2>3, <2>4, <2>5 DEF DInv
<1> QED BY <1>2, <1>3

\* No view is read while a search is at work.
Alone == search # "idle" => passes = 0

LEMMA NextKeepsView ==
  ASSUME SInv, IInv, DInv, Alone, InspectionNext
  PROVE  DInv' /\ Alone'
<1>1. MemoryOK BY DEF SInv
<1>2. CASE Commands
  <2>1. passes = 0 /\ search = "idle" BY <1>2 DEF Commands, Awaiting
  <2>2. PointerCommand \/ UNCHANGED searchVars BY <1>2 DEF Commands
  <2>3. Alone' BY <2>1, <2>2 DEF Alone, PointerCommand, viewVars, searchVars
  <2> QED BY <1>1, <1>2, <2>3, CommandsKeepView
<1>3. CASE Refresh /\ UNCHANGED <<memory, maps, searchVars>>
  <2>1. passes > 0 /\ passes \in Nat
    BY <1>3 DEF Refresh, BeginRefresh, RefreshCell, EndRefresh, DInv
  <2>2. search = "idle" BY <2>1 DEF Alone
  <2> QED BY <1>1, <1>3, <2>2, RefreshKeepsView DEF Alone, searchVars
<1>4. CASE SearchStep /\ UNCHANGED <<vars, memory, maps, viewVars>>
  <2>1. UNCHANGED <<process, shown, memory, maps, data, passes, row, reading, held>>
    BY <1>4 DEF SearchStep, StepOfZero, vars, viewVars
  <2>2. search # "idle"
    BY <1>4 DEF SearchStep, StepOfZero, TooDeep, ListRegions, TooManyResults, SortResults, WalkEnds, ReadWord
  <2> QED BY <2>1, <2>2, ViewStays DEF Alone
<1>5. CASE PointerReturns
  <2>1. /\ passes = 0 /\ search' = "idle" /\ held'["view"] = held["view"]
        /\ UNCHANGED <<process, shown, memory, maps, data>> /\ Turn(0)
    BY <1>1, <1>5 DEF PointerReturns, SearchReturns, Alone, MemoryOK, vars
  <2> QED BY <2>1, ShownAgain DEF Alone
<1>6. CASE TargetRuns /\ UNCHANGED <<vars, searchVars, viewVars>>
  <2>1. UNCHANGED <<process, shown, data, passes, row, reading, search>>
    BY <1>6 DEF vars, searchVars, viewVars
  <2> QED BY <1>1, <1>6, <2>1, TargetKeepsView DEF Alone
<1> QED BY <1>2, <1>3, <1>4, <1>5, <1>6 DEF InspectionNext, Work

(***************************************************************************)
(* What a data view shows while a key is awaited is memory of the process  *)
(* it was opened for, although it reads whatever process is attached.      *)
(***************************************************************************)
THEOREM CellsAreHonest == InspectionSpec => []CellsHonest
<1>1. InspectionInit => DInv /\ Alone
  BY InitDInv DEF InspectionInit, SearchInit, Alone
<1>2. DInv /\ Alone /\ UNCHANGED inspectionVars => DInv' /\ Alone'
  <2> SUFFICES ASSUME DInv, Alone, UNCHANGED inspectionVars PROVE DInv' /\ Alone' OBVIOUS
  <2>1. UNCHANGED <<process, shown, memory, maps, data, passes, row, reading, held, search>>
    BY DEF inspectionVars, targetVars, searchVars, viewVars, vars
  <2> QED BY <2>1, ViewStays DEF Alone
<1>3. SInv /\ IInv /\ DInv /\ Alone /\ [InspectionNext]_inspectionVars => DInv' /\ Alone'
  BY <1>2, NextKeepsView
<1>4. InspectionSpec => []IInv BY InspectionIsApp, Invariance, PTL
<1>5. InspectionSpec => []DInv BY <1>1, <1>3, <1>4, SInvInvariant, PTL DEF InspectionSpec
<1> QED BY <1>5, DInvShows, PTL
===============================================================================
