---------------------------- MODULE Snapshot_proofs ----------------------------
(***************************************************************************)
(* What a finished snapshot holds and what a read of it returns, for any   *)
(* memory map, any reads that are refused or cut short, any size of the    *)
(* buffer, any number of files and any shape of the two lists of a read.   *)
(***************************************************************************)
EXTENDS Snapshot, SequenceTheorems, WellFoundedInduction, TLAPS

\* A set of two numbers has a least one.
LEMMA LeastOfTwo ==
  ASSUME NEW a \in Int, NEW b \in Int
  PROVE  Min({a, b}) \in {a, b} /\ Min({a, b}) <= a /\ Min({a, b}) <= b
<1>1. PICK x \in {a, b} : \A y \in {a, b} : x <= y
  <2>1. CASE a <= b BY <2>1
  <2>2. CASE b <= a BY <2>2
  <2> QED BY <2>1, <2>2
<1> QED BY <1>1 DEF Min

\* A set of numbers that is not empty has a least one.
LEMMA LowestInSet ==
  ASSUME NEW S, S \subseteq Nat, S # {}
  PROVE  \E x \in S : \A y \in S : x <= y
<1>1. PICK x \in S : \A y \in S : <<y, x>> \notin OpToRel(<, Nat)
  BY NatLessThanWellFounded, WFMin
<1>2. \A y \in S : ~(y < x)
  <2> SUFFICES ASSUME NEW y \in S, y < x PROVE FALSE OBVIOUS
  <2>1. <<y, x>> \in Nat \X Nat BY <1>1
  <2>2. <<y, x>>[1] < <<y, x>>[2] OBVIOUS
  <2>3. <<y, x>> \in {ss \in Nat \X Nat : ss[1] < ss[2]} BY <2>1, <2>2
  <2> QED BY <1>1, <2>3 DEF OpToRel
<1>3. \A y \in S : x <= y BY <1>2
<1> QED BY <1>3

LEMMA LeastInSet ==
  ASSUME NEW S, S \subseteq Nat, S # {}
  PROVE  Min(S) \in S
BY LowestInSet DEF Min

\* Induction on the numbers up to n.
LEMMA EveryPlace ==
  ASSUME NEW n \in Nat, NEW G, 0 \in G, \A i \in 1 .. n : i - 1 \in G => i \in G
  PROVE  \A i \in 0 .. n : i \in G
<1> DEFINE Bad == {i \in 0 .. n : i \notin G}
<1> SUFFICES ASSUME Bad # {} PROVE FALSE OBVIOUS
<1>1. PICK i \in Bad : \A j \in Bad : i <= j
  <2>1. Bad \subseteq Nat OBVIOUS
  <2> HIDE DEF Bad
  <2> QED BY <2>1, LowestInSet
<1>2. i \in 1 .. n /\ i \notin G BY <1>1
<1>3. i - 1 \in 0 .. n /\ ~(i <= i - 1) BY <1>2
<1>4. i - 1 \in G BY <1>1, <1>3
<1> QED BY <1>2, <1>4

\* g is defined at every place up to n from its value at the place before.
Recursive(g, S, base, n, step) ==
  g \in [0 .. n -> S] /\ g[0] = base /\ \A i \in 1 .. n : g[i] = step[i][g[i - 1]]

LEMMA RecursionExists ==
  ASSUME NEW S, NEW base \in S, NEW n \in Nat, NEW step,
         \A i \in 1 .. n : \A x \in S : step[i][x] \in S
  PROVE  \E g : Recursive(g, S, base, n, step)
<1> DEFINE G == {m \in 0 .. n : \E g : Recursive(g, S, base, m, step)}
<1>1. 0 \in G
  <2>1. Recursive([i \in 0 .. 0 |-> base], S, base, 0, step) BY DEF Recursive
  <2> QED BY <2>1
<1>2. ASSUME NEW m \in 1 .. n, m - 1 \in G PROVE m \in G
  <2>1. PICK f : Recursive(f, S, base, m - 1, step) BY <1>2
  <2>2. /\ f \in [0 .. m - 1 -> S] /\ f[0] = base
        /\ \A i \in 1 .. m - 1 : f[i] = step[i][f[i - 1]]
    BY <2>1 DEF Recursive
  <2>3. m - 1 \in 0 .. m - 1 /\ m \notin 0 .. m - 1 OBVIOUS
  <2>4. step[m][f[m - 1]] \in S BY <2>2, <2>3
  <2> DEFINE g == [i \in 0 .. m |-> IF i = m THEN step[m][f[m - 1]] ELSE f[i]]
  <2>5. \A i \in 0 .. m : i = m \/ i \in 0 .. m - 1 OBVIOUS
  <2>6. g \in [0 .. m -> S] BY <2>2, <2>4, <2>5
  <2>7. \A i \in 0 .. m - 1 : g[i] = f[i] BY <2>3
  <2>8. g[m] = step[m][f[m - 1]] OBVIOUS
  <2> HIDE DEF g
  <2>9. g[0] = base BY <2>2, <2>7
  <2>10. ASSUME NEW i \in 1 .. m PROVE g[i] = step[i][g[i - 1]]
    <3>1. i - 1 \in 0 .. m - 1 /\ g[i - 1] = f[i - 1] BY <2>7
    <3>2. CASE i = m BY <2>8, <3>1, <3>2
    <3>3. CASE i # m
      <4>1. i \in 1 .. m - 1 /\ i \in 0 .. m - 1 BY <3>3
      <4> QED BY <2>2, <2>7, <3>1, <4>1
    <3> QED BY <3>2, <3>3
  <2>11. Recursive(g, S, base, m, step) BY <2>6, <2>9, <2>10 DEF Recursive
  <2> QED BY <2>11
<1> HIDE DEF G
<1>3. n \in G
  <2>1. \A m \in 0 .. n : m \in G BY <1>1, <1>2, EveryPlace, Zenon
  <2> QED BY <2>1
<1> QED BY <1>3 DEF G

LEMMA ListOf ==
  ASSUME NEW S, NEW n \in Nat, NEW f \in [1 .. n -> S]
  PROVE  f \in Seq(S) /\ Len(f) = n
<1>1. f \in Seq(S) BY SeqDef
<1> QED BY <1>1, LenProperties

-------------------------------------------------------------------------------
(***************************************************************************)
(* Places in a list of buffers.                                            *)
(***************************************************************************)
\* off[i] is the length of the first i of n buffers, whose lengths are x.
Starting(off, x, n) ==
  off \in [0 .. n -> Nat] /\ off[0] = 0 /\ \A i \in 1 .. n : off[i] = off[i - 1] + x[i]

Starts(x, n) == CHOOSE off : Starting(off, x, n)

LEMMA StartsAre ==
  ASSUME NEW n \in Nat, NEW x, \A i \in 1 .. n : x[i] \in Nat
  PROVE  Starting(Starts(x, n), x, n)
<1> DEFINE step == [i \in 1 .. n |-> [m \in Nat |-> m + x[i]]]
<1>1. \A i \in 1 .. n : \A m \in Nat : step[i][m] = m + x[i] /\ step[i][m] \in Nat OBVIOUS
<1> HIDE DEF step
<1>2. PICK g : Recursive(g, Nat, 0, n, step)
  <2>1. 0 \in Nat /\ \A i \in 1 .. n : \A m \in Nat : step[i][m] \in Nat BY <1>1
  <2> QED BY <2>1, RecursionExists, Zenon
<1>3. \A i \in 1 .. n : g[i] = g[i - 1] + x[i]
  <2> SUFFICES ASSUME NEW i \in 1 .. n PROVE g[i] = g[i - 1] + x[i] OBVIOUS
  <2>1. i - 1 \in 0 .. n OBVIOUS
  <2> QED BY <1>1, <1>2, <2>1 DEF Recursive
<1>4. Starting(g, x, n) BY <1>2, <1>3 DEF Recursive, Starting
<1> QED BY <1>4 DEF Starts

LEMMA StartsGrow ==
  ASSUME NEW n \in Nat, NEW x, NEW off, Starting(off, x, n), \A i \in 1 .. n : x[i] \in Nat,
         NEW i \in 0 .. n, NEW j \in 0 .. n, i <= j
  PROVE  off[i] <= off[j]
<1> DEFINE G == {k \in 0 .. n : i <= k => off[i] <= off[k]}
<1>1. \A k \in 0 .. n : off[k] \in Nat BY DEF Starting
<1>2. 0 \in G
  <2>1. i <= 0 => i = 0 OBVIOUS
  <2>2. off[i] <= off[i] BY <1>1
  <2> QED BY <2>1, <2>2
<1>3. ASSUME NEW k \in 1 .. n, k - 1 \in G PROVE k \in G
  <2>1. off[k] = off[k - 1] + x[k] /\ x[k] \in Nat BY DEF Starting
  <2>2. k - 1 \in 0 .. n /\ k \in 0 .. n OBVIOUS
  <2>3. CASE i = k BY <1>1, <2>2, <2>3
  <2>4. CASE i # k
    <3>1. i <= k => off[i] <= off[k - 1] BY <1>3, <2>4
    <3> QED BY <1>1, <2>1, <2>2, <3>1
  <2> QED BY <2>3, <2>4
<1> HIDE DEF G
<1>4. \A k \in 0 .. n : k \in G BY <1>2, <1>3, EveryPlace, Zenon
<1> QED BY <1>4 DEF G

\* Every place up to the end is one of a buffer.
LEMMA PlaceIn ==
  ASSUME NEW n \in Nat, NEW x, NEW off, Starting(off, x, n), \A i \in 1 .. n : x[i] \in Nat,
         NEW k \in 1 .. off[n]
  PROVE  \E i \in 1 .. n : \E p \in 1 .. x[i] : k = off[i - 1] + p
<1> DEFINE G == {m \in 0 .. n : k <= off[m] =>
                   \E i \in 1 .. n : \E p \in 1 .. x[i] : k = off[i - 1] + p}
<1>0. \A m \in 0 .. n : off[m] \in Nat BY DEF Starting
<1>00. k \in Nat \ {0} /\ k <= off[n]
  <2>1. n \in 0 .. n OBVIOUS
  <2> QED BY <1>0, <2>1
<1>1. 0 \in G BY <1>00 DEF Starting
<1>2. ASSUME NEW m \in 1 .. n, m - 1 \in G PROVE m \in G
  <2>1. off[m] = off[m - 1] + x[m] /\ x[m] \in Nat BY DEF Starting
  <2>2. m - 1 \in 0 .. n /\ m \in 0 .. n OBVIOUS
  <2>3. CASE k <= off[m - 1] BY <1>2, <2>2, <2>3
  <2>4. CASE ~(k <= off[m - 1]) /\ k <= off[m]
    <3>1. PICK p \in Int : p = k - off[m - 1] BY <1>0, <1>00, <2>2
    <3>2. p \in 1 .. x[m] /\ k = off[m - 1] + p BY <1>0, <1>00, <2>1, <2>2, <2>4, <3>1
    <3> QED BY <2>2, <3>2
  <2>5. CASE ~(k <= off[m]) BY <2>2, <2>5
  <2> QED BY <2>3, <2>4, <2>5
<1> HIDE DEF G
<1>3. \A m \in 0 .. n : m \in G BY <1>1, <1>2, EveryPlace, Zenon
<1>4. n \in G BY <1>3
<1> QED BY <1>00, <1>4 DEF G

\* t is the first i of the buffers seqs, one behind the other.
Joined(t, seqs, off, i, S) ==
  /\ t \in Seq(S) /\ Len(t) = off[i]
  /\ \A j \in 1 .. i : \A p \in 1 .. Len(seqs[j]) :
       off[j - 1] + p \in 1 .. off[i] /\ t[off[j - 1] + p] = seqs[j][p]

LEMMA JoinedGrows ==
  ASSUME NEW S, NEW seqs \in Seq(Seq(S)), NEW off,
         Starting(off, [j \in 1 .. Len(seqs) |-> Len(seqs[j])], Len(seqs)),
         NEW i \in 1 .. Len(seqs), NEW t, Joined(t, seqs, off, i - 1, S)
  PROVE  Joined(t \o seqs[i], seqs, off, i, S)
<1>1. seqs[i] \in Seq(S) /\ Len(seqs[i]) \in Nat
  <2> DEFINE T == Seq(S)
  <2>1. seqs \in Seq(T) OBVIOUS
  <2>2. seqs[i] \in T BY <2>1, ElementOfSeq
  <2> QED BY <2>2, LenProperties
<1>2. /\ off[i] = off[i - 1] + Len(seqs[i]) /\ off[i] \in Nat
      /\ \A j \in 1 .. i : off[j - 1] \in Nat
  <2>1. Len(seqs) \in Nat BY LenProperties
  <2>2. \A j \in 0 .. Len(seqs) : off[j] \in Nat BY DEF Starting
  <2>3. i \in 0 .. Len(seqs) /\ \A j \in 1 .. i : j - 1 \in 0 .. Len(seqs) BY <2>1
  <2>4. off[i] = off[i - 1] + [j \in 1 .. Len(seqs) |-> Len(seqs[j])][i] BY DEF Starting
  <2> QED BY <2>2, <2>3, <2>4
<1>3. t \in Seq(S) /\ Len(t) = off[i - 1] BY DEF Joined
<1> DEFINE v == seqs[i]
           u == t \o v
<1>4. /\ u \in Seq(S) /\ Len(u) = off[i]
      /\ \A k \in 1 .. off[i - 1] : u[k] = t[k]
      /\ \A p \in 1 .. Len(v) : u[off[i - 1] + p] = v[p]
  <2>1. v \in Seq(S) /\ Len(v) \in Nat BY <1>1
  <2> HIDE DEF v
  <2>2. /\ t \o v \in Seq(S) /\ Len(t \o v) = Len(t) + Len(v)
        /\ \A k \in 1 .. Len(t) + Len(v) :
             (t \o v)[k] = IF k <= Len(t) THEN t[k] ELSE v[k - Len(t)]
    BY <1>3, <2>1, ConcatProperties
  <2>3. off[i] = off[i - 1] + Len(v) /\ off[i - 1] \in Nat BY <1>2 DEF v
  <2>4. \A k \in 1 .. off[i - 1] : u[k] = t[k] BY <1>3, <2>1, <2>2, <2>3
  <2>5. \A p \in 1 .. Len(v) : u[off[i - 1] + p] = v[p]
    <3> SUFFICES ASSUME NEW p \in 1 .. Len(v) PROVE u[off[i - 1] + p] = v[p] OBVIOUS
    <3>1. PICK k \in Nat : k = off[i - 1] + p BY <2>1, <2>3
    <3>2. k \in 1 .. Len(t) + Len(v) /\ ~(k <= Len(t)) /\ k - Len(t) = p
      BY <1>3, <2>1, <2>3, <3>1
    <3> QED BY <2>2, <3>1, <3>2
  <2> QED BY <1>3, <2>2, <2>3, <2>4, <2>5
<1>5. ASSUME NEW j \in 1 .. i, NEW p \in 1 .. Len(seqs[j])
      PROVE  off[j - 1] + p \in 1 .. off[i] /\ u[off[j - 1] + p] = seqs[j][p]
  <2>0. v = seqs[i] OBVIOUS
  <2> HIDE DEF v, u
  <2>1. CASE j = i
    <3>1. p \in 1 .. Len(v) /\ u[off[i - 1] + p] = v[p] BY <1>4, <2>0, <2>1
    <3>2. i \in 1 .. i /\ off[i - 1] \in Nat BY <1>2
    <3>3. off[i - 1] + p \in 1 .. off[i]
      <4>1. PICK a \in Nat : a = off[i - 1] BY <3>2
      <4>2. PICK b \in Nat : b = Len(v) BY <1>1, <2>0
      <4>3. off[i] = a + b BY <1>2, <2>0, <4>1, <4>2
      <4>4. p \in 1 .. b BY <3>1, <4>2
      <4>5. a + p \in 1 .. a + b BY <4>4
      <4> QED BY <4>1, <4>3, <4>5
    <3> QED BY <2>0, <2>1, <3>1, <3>3
  <2>2. CASE j # i
    <3>1. j \in 1 .. i - 1 /\ i \in 1 .. i BY <2>2
    <3>2. off[j - 1] + p \in 1 .. off[i - 1] /\ t[off[j - 1] + p] = seqs[j][p]
      BY <3>1 DEF Joined
    <3>3. off[i - 1] \in Nat /\ off[i - 1] <= off[i] BY <1>1, <1>2, <3>1
    <3>4. u[off[j - 1] + p] = t[off[j - 1] + p] BY <1>4, <3>2
    <3>5. PICK k : k = off[j - 1] + p OBVIOUS
    <3>6. k \in 1 .. off[i] BY <1>2, <3>2, <3>3, <3>5
    <3> QED BY <3>2, <3>4, <3>5, <3>6
  <2> QED BY <2>1, <2>2
<1> HIDE DEF v, u
<1>6. Joined(u, seqs, off, i, S) BY <1>4, <1>5 DEF Joined
<1> QED BY <1>6 DEF u, v

\* FlattenSeq puts the buffers one behind the other.
LEMMA FlatIs ==
  ASSUME NEW S, NEW seqs \in Seq(Seq(S)), NEW off,
         Starting(off, [j \in 1 .. Len(seqs) |-> Len(seqs[j])], Len(seqs))
  PROVE  Joined(FlattenSeq(seqs), seqs, off, Len(seqs), S)
<1> DEFINE n == Len(seqs)
<1>1. n \in Nat /\ \A i \in 1 .. n : seqs[i] \in Seq(S)
  <2> DEFINE T == Seq(S)
  <2>1. seqs \in Seq(T) OBVIOUS
  <2> HIDE DEF T
  <2>2. Len(seqs) \in Nat /\ \A i \in 1 .. Len(seqs) : seqs[i] \in T
    BY <2>1, ElementOfSeq, LenProperties
  <2> QED BY <2>2 DEF T
<1>2. Joined(<<>>, seqs, off, 0, S)
  <2>1. off[0] = 0 BY DEF Starting
  <2>2. 1 .. 0 = {} OBVIOUS
  <2> QED BY <2>1, <2>2, EmptySeq DEF Joined
<1>3. CASE n = 0
  <2>1. seqs = <<>> BY <1>3, EmptySeq
  <2>2. FlattenSeq(seqs) = seqs BY <1>3 DEF FlattenSeq
  <2> QED BY <1>2, <1>3, <2>1, <2>2
<1>4. CASE n # 0
  <2> DEFINE Is(f) == f = [i \in 1 .. n |-> IF i = 1 THEN seqs[i] ELSE f[i - 1] \o seqs[i]]
             step == [i \in 1 .. n |-> [x \in Seq(S) |-> x \o seqs[i]]]
             fl == CHOOSE f : Is(f)
  <2>1. n \in 1 .. n /\ 1 \in 1 .. n BY <1>1, <1>4
  <2>2. FlattenSeq(seqs) = fl[n] BY <1>4 DEF FlattenSeq
  <2>3. \E f : Is(f)
    <3>1. \A i \in 1 .. n : \A x \in Seq(S) : step[i][x] = x \o seqs[i] /\ step[i][x] \in Seq(S)
      <4> SUFFICES ASSUME NEW i \in 1 .. n, NEW x \in Seq(S) PROVE x \o seqs[i] \in Seq(S) OBVIOUS
      <4>1. seqs[i] \in Seq(S) BY <1>1
      <4> QED BY <4>1, ConcatProperties
    <3>2. <<>> \in Seq(S) BY EmptySeq
    <3> HIDE DEF step, n
    <3>3. PICK g : Recursive(g, Seq(S), <<>>, n, step)
      <4> DEFINE T == Seq(S)
      <4>1. <<>> \in T /\ \A i \in 1 .. n : \A x \in T : step[i][x] \in T BY <3>1, <3>2
      <4> HIDE DEF T
      <4>2. \E g : Recursive(g, T, <<>>, n, step) BY <1>1, <4>1, RecursionExists, Zenon
      <4> QED BY <4>2 DEF T
    <3>4. \A i \in 1 .. n : i - 1 \in 0 .. n /\ g[i - 1] \in Seq(S) /\ g[i] = g[i - 1] \o seqs[i]
      <4> SUFFICES ASSUME NEW i \in 1 .. n
                   PROVE  i - 1 \in 0 .. n /\ g[i - 1] \in Seq(S) /\ g[i] = g[i - 1] \o seqs[i]
        OBVIOUS
      <4>1. i - 1 \in 0 .. n BY <1>1
      <4>2. g[i - 1] \in Seq(S) /\ g[i] = step[i][g[i - 1]] BY <3>3, <4>1 DEF Recursive
      <4> QED BY <3>1, <4>1, <4>2
    <3>5. g[0] = <<>> BY <3>3 DEF Recursive
    <3> DEFINE f0 == [i \in 1 .. n |-> g[i]]
    <3>6. ASSUME NEW i \in 1 .. n
          PROVE  f0[i] = IF i = 1 THEN seqs[i] ELSE f0[i - 1] \o seqs[i]
      <4>1. CASE i = 1
        <5>0. i - 1 = 0 BY <4>1
        <5>1. g[i] = g[i - 1] \o seqs[i] BY <3>4, Zenon
        <5>2. seqs[i] \in Seq(S) BY <1>1
        <5>3. <<>> \o seqs[i] = seqs[i] BY <5>2, ConcatEmptySeq
        <5>4. f0[i] = g[i] OBVIOUS
        <5> HIDE DEF f0
        <5>5. f0[i] = seqs[i] BY <3>5, <5>0, <5>1, <5>3, <5>4, Zenon
        <5> QED BY <4>1, <5>5
      <4>2. CASE i # 1
        <5>1. i - 1 \in 1 .. n BY <1>1, <4>2
        <5> QED BY <3>4, <4>2, <5>1
      <4> QED BY <4>1, <4>2
    <3>7. f0 = [i \in 1 .. n |-> IF i = 1 THEN seqs[i] ELSE f0[i - 1] \o seqs[i]]
      <4>1. f0 = [i \in 1 .. n |-> f0[i]] OBVIOUS
      <4> HIDE DEF f0
      <4> QED BY <3>6, <4>1, Zenon
    <3> QED BY <3>7
  <2>4. Is(fl)
    <3> HIDE DEF Is
    <3> QED BY <2>3
  <2> HIDE DEF fl, step
  <2>5. \A i \in 1 .. n : fl[i] = IF i = 1 THEN seqs[i] ELSE fl[i - 1] \o seqs[i]
    BY <2>4, Zenon
  <2> HIDE DEF Is
  <2> DEFINE h == [i \in 0 .. n |-> IF i = 0 THEN <<>> ELSE fl[i]]
  <2>6. h[0] = <<>> /\ h[n] = fl[n] BY <1>1, <2>1
  <2>7. ASSUME NEW i \in 1 .. n PROVE h[i] = h[i - 1] \o seqs[i]
    <3>1. i \in 0 .. n /\ i - 1 \in 0 .. n /\ i # 0 BY <1>1
    <3>2. CASE i = 1
      <4>1. h[i] = seqs[i] /\ h[i - 1] = <<>> BY <2>5, <3>1, <3>2
      <4>2. seqs[i] \in Seq(S) BY <1>1
      <4>3. <<>> \o seqs[i] = seqs[i] BY <4>2, ConcatEmptySeq
      <4> QED BY <4>1, <4>3
    <3>3. CASE i # 1
      <4>1. h[i] = fl[i] /\ h[i - 1] = fl[i - 1] BY <3>1, <3>3
      <4> QED BY <2>5, <3>3, <4>1
    <3> QED BY <3>2, <3>3
  <2> HIDE DEF h
  <2> DEFINE G == {i \in 0 .. n : Joined(h[i], seqs, off, i, S)}
  <2>8. 0 \in G BY <1>1, <1>2, <2>6
  <2>9. ASSUME NEW i \in 1 .. n, i - 1 \in G PROVE i \in G
    <3>1. Joined(h[i - 1], seqs, off, i - 1, S) BY <2>9
    <3>2. Joined(h[i - 1] \o seqs[i], seqs, off, i, S) BY <3>1, JoinedGrows
    <3>3. i \in 0 .. n BY <1>1
    <3> QED BY <2>7, <3>2, <3>3
  <2>10. n \in G
    <3> HIDE DEF G, n
    <3>1. \A i \in 0 .. n : i \in G BY <1>1, <2>8, <2>9, EveryPlace, Zenon
    <3>2. n \in 0 .. n BY <1>1
    <3> QED BY <3>1, <3>2
  <2> QED BY <2>2, <2>6, <2>10
<1> QED BY <1>3, <1>4

\* What lies before buffer i of a list of buffers whose lengths are x.
Before(x, i) == Starts(x, Len(x))[i - 1]

LEMMA BeforeIs ==
  ASSUME NEW x \in Seq(Nat)
  PROVE  /\ Before(x, 1) = 0
         /\ \A i \in 1 .. Len(x) + 1 : Before(x, i) \in Nat
         /\ \A i \in 1 .. Len(x) : Before(x, i + 1) = Before(x, i) + x[i]
         /\ \A i, j \in 1 .. Len(x) + 1 : i <= j => Before(x, i) <= Before(x, j)
<1> DEFINE n == Len(x)
           off == Starts(x, n)
<1>1. n \in Nat /\ \A i \in 1 .. n : x[i] \in Nat BY ElementOfSeq, LenProperties
<1> HIDE DEF n
<1>2. Starting(off, x, n) BY <1>1, StartsAre
<1>3. \A i : Before(x, i) = off[i - 1] BY DEF Before, n
<1> HIDE DEF off
<1>4. Before(x, 1) = 0
  <2>1. 1 - 1 = 0 OBVIOUS
  <2> QED BY <1>2, <1>3, <2>1 DEF Starting
<1>5. \A i \in 1 .. n + 1 : i - 1 \in 0 .. n BY <1>1
<1>6. \A i \in 1 .. n + 1 : Before(x, i) \in Nat BY <1>2, <1>3, <1>5, SMTT(30) DEF Starting
<1>7. ASSUME NEW i \in 1 .. n PROVE Before(x, i + 1) = Before(x, i) + x[i]
  <2>1. (i + 1) - 1 = i OBVIOUS
  <2>2. off[i] = off[i - 1] + x[i] BY <1>2 DEF Starting
  <2>3. Before(x, i + 1) = off[i] BY <1>3, <2>1
  <2> QED BY <1>3, <2>2, <2>3
<1>8. ASSUME NEW i \in 1 .. n + 1, NEW j \in 1 .. n + 1, i <= j
      PROVE  Before(x, i) <= Before(x, j)
  <2>1. PICK a \in 0 .. n : a = i - 1 BY <1>5
  <2>2. PICK b \in 0 .. n : b = j - 1 BY <1>5
  <2>3. a <= b BY <1>8, <2>1, <2>2
  <2>4. off[a] <= off[b] BY <1>1, <1>2, <2>3, StartsGrow
  <2> QED BY <1>3, <2>1, <2>2, <2>4
<1> QED BY <1>4, <1>6, <1>7, <1>8 DEF n

\* Where every element of a list of buffers is, when they are put one behind the
\* other; nothing else is there.
LEMMA FlatAt ==
  ASSUME NEW S, NEW seqs \in Seq(Seq(S)), NEW x \in Seq(Nat), Len(x) = Len(seqs),
         \A i \in 1 .. Len(x) : Len(seqs[i]) = x[i]
  PROVE  /\ FlattenSeq(seqs) \in Seq(S)
         /\ Len(FlattenSeq(seqs)) = Before(x, Len(x) + 1)
         /\ \A i \in 1 .. Len(x) : \A p \in 1 .. x[i] :
              FlattenSeq(seqs)[Before(x, i) + p] = seqs[i][p]
         /\ \A k \in 1 .. Before(x, Len(x) + 1) :
              \E i \in 1 .. Len(x) : \E p \in 1 .. x[i] : k = Before(x, i) + p
<1> DEFINE n == Len(x)
           off == Starts(x, n)
           F == FlattenSeq(seqs)
           lens == [j \in 1 .. Len(seqs) |-> Len(seqs[j])]
<1>1. n \in Nat /\ n = Len(seqs) /\ \A i \in 1 .. n : x[i] \in Nat /\ Len(seqs[i]) = x[i]
  BY ElementOfSeq, LenProperties
<1>2. \A i \in 1 .. n : lens[i] = x[i] BY <1>1
<1>3. \A i : Before(x, i) = off[i - 1] BY DEF Before
<1> HIDE DEF n
<1>4. Starting(off, x, n) BY <1>1, StartsAre
<1> HIDE DEF off, lens
<1>5. Starting(off, lens, Len(seqs)) BY <1>1, <1>2, <1>4 DEF Starting
<1>6. Joined(F, seqs, off, n, S) BY <1>1, <1>5, FlatIs DEF lens
<1>7. n + 1 \in Int /\ (n + 1) - 1 = n BY <1>1
<1>8. Before(x, n + 1) = off[n] BY <1>3, <1>7
<1>9. \A k \in 1 .. off[n] : \E i \in 1 .. n : \E p \in 1 .. x[i] : k = off[i - 1] + p
  <2> SUFFICES ASSUME NEW k \in 1 .. off[n]
               PROVE  \E i \in 1 .. n : \E p \in 1 .. x[i] : k = off[i - 1] + p
    OBVIOUS
  <2>1. n \in Nat BY <1>1
  <2>2. \A i \in 1 .. n : x[i] \in Nat BY <1>1
  <2> QED BY <1>4, <2>1, <2>2, PlaceIn
<1> HIDE DEF F
<1>10. ASSUME NEW i \in 1 .. n, NEW p \in 1 .. x[i] PROVE F[Before(x, i) + p] = seqs[i][p]
  <2>1. p \in 1 .. Len(seqs[i]) BY <1>1
  <2>2. F[off[i - 1] + p] = seqs[i][p] BY <1>6, <2>1, Zenon DEF Joined
  <2> QED BY <1>3, <2>2, Zenon
<1>11. F \in Seq(S) /\ Len(F) = Before(x, n + 1) BY <1>6, <1>8 DEF Joined
<1>12. \A k \in 1 .. Before(x, n + 1) :
         \E i \in 1 .. n : \E p \in 1 .. x[i] : k = Before(x, i) + p
  BY <1>3, <1>8, <1>9
<1> QED BY <1>10, <1>11, <1>12 DEF F, n

\* ptr elements of buffer d are behind the position sz in a list of buffers.
AtPlace(d, ptr, sz, x) ==
  /\ d \in 1 .. Len(x) + 1 /\ ptr \in Nat /\ sz = Before(x, d) + ptr
  /\ d <= Len(x) => ptr <= x[d]
  /\ d > Len(x) => ptr = 0

LEMMA PlaceMoves ==
  ASSUME NEW x \in Seq(Nat), NEW d, NEW ptr, NEW sz, AtPlace(d, ptr, sz, x), d <= Len(x),
         NEW c \in Nat, c <= x[d] - ptr
  PROVE  /\ AtPlace(d + (IF c = x[d] - ptr THEN 1 ELSE 0),
                    IF c = x[d] - ptr THEN 0 ELSE ptr + c, sz + c, x)
         /\ sz + c <= Before(x, d + 1)
<1>1. Len(x) \in Nat /\ d \in 1 .. Len(x) /\ d + 1 \in 1 .. Len(x) + 1 /\ d \in 1 .. Len(x) + 1
  BY LenProperties DEF AtPlace
<1>2. PICK a \in Nat : a = Before(x, d) BY <1>1, BeforeIs
<1>3. PICK b \in Nat : b = x[d] BY <1>1, ElementOfSeq
<1>4. Before(x, d + 1) = a + b BY <1>1, <1>2, <1>3, BeforeIs
<1>5. ptr \in Nat /\ sz = a + ptr /\ ptr <= b /\ c <= b - ptr BY <1>1, <1>2, <1>3 DEF AtPlace
<1>6. CASE c = b - ptr
  <2>1. sz + c = Before(x, d + 1) + 0 BY <1>4, <1>5, <1>6
  <2>2. AtPlace(d + 1, 0, sz + c, x)
    <3>1. d + 1 <= Len(x) => 0 <= x[d + 1]
      <4>1. d + 1 <= Len(x) => d + 1 \in 1 .. Len(x) BY <1>1
      <4>2. d + 1 \in 1 .. Len(x) => x[d + 1] \in Nat BY ElementOfSeq
      <4> QED BY <4>1, <4>2
    <3> QED BY <1>1, <2>1, <3>1 DEF AtPlace
  <2>3. sz + c <= Before(x, d + 1) BY <1>4, <2>1
  <2> QED BY <1>3, <1>6, <2>2, <2>3
<1>7. CASE c # b - ptr
  <2>1. ptr + c \in Nat /\ sz + c = a + (ptr + c) /\ ptr + c <= b BY <1>5, <1>7
  <2>2. AtPlace(d, ptr + c, sz + c, x) BY <1>1, <1>2, <1>3, <2>1 DEF AtPlace
  <2>3. d + 0 = d BY <1>1
  <2>4. sz + c <= Before(x, d + 1) BY <1>4, <2>1
  <2> QED BY <1>3, <1>7, <2>2, <2>3, <2>4
<1> QED BY <1>6, <1>7

\* Every buffer holds, up to the position sz, what the requests have at the same
\* place, pages[s] for request s, and behind it what it held before the call.
Filled(loc, sz, pages, asked, lens) ==
  /\ loc = [d \in 1 .. Len(lens) |-> [p \in 1 .. lens[d] |-> loc[d][p]]]
  /\ \A d \in 1 .. Len(lens) : \A p \in 1 .. lens[d] :
       IF Before(lens, d) + p <= sz
       THEN \E s \in 1 .. Len(asked) : \E r \in 1 .. asked[s] :
              /\ Before(asked, s) + r = Before(lens, d) + p
              /\ loc[d][p] = pages[s][r]
       ELSE loc[d][p] = NoByte

\* What memcpy leaves in a buffer: c pages of piece behind the first sptr of it go
\* behind the first dptr of the buffer.
Patched(buffer, dptr, piece, sptr, c) ==
  [k \in DOMAIN buffer |-> IF k \in dptr + 1 .. dptr + c
                           THEN piece[sptr + k - dptr] ELSE buffer[k]]

\* A chunk goes from the position in one list to the position in the other.
LEMMA ChunkFills ==
  ASSUME NEW asked \in Seq(Nat), NEW lens \in Seq(Nat), NEW pages, NEW loc, NEW sz,
         NEW d, NEW dptr, AtPlace(d, dptr, sz, lens), d <= Len(lens),
         NEW s, NEW sptr, AtPlace(s, sptr, sz, asked), s <= Len(asked),
         NEW c \in Nat, c <= lens[d] - dptr, c <= asked[s] - sptr,
         Filled(loc, sz, pages, asked, lens)
  PROVE  Filled([loc EXCEPT ![d] = Patched(loc[d], dptr, pages[s], sptr, c)],
                sz + c, pages, asked, lens)
<1> DEFINE n == Len(lens)
           buffer == Patched(loc[d], dptr, pages[s], sptr, c)
           new == [loc EXCEPT ![d] = buffer]
<1>1. n \in Nat /\ \A e \in 1 .. n : lens[e] \in Nat BY ElementOfSeq, LenProperties
<1>2. d \in 1 .. n /\ s \in 1 .. Len(asked) BY LenProperties DEF AtPlace
<1>0. /\ \A e \in 1 .. n : e \in 1 .. n + 1 /\ Before(lens, e) \in Nat
      /\ Before(asked, s) \in Nat
  <2>1. \A e \in 1 .. n : e \in 1 .. n + 1 BY <1>1
  <2>2. s \in 1 .. Len(asked) + 1 BY DEF AtPlace
  <2> QED BY <2>1, <2>2, BeforeIs
<1>3. PICK a \in Nat : a = Before(lens, d) BY <1>0, <1>2
<1>4. PICK b \in Nat : b = Before(asked, s) BY <1>0
<1>5. /\ dptr \in Nat /\ sptr \in Nat /\ lens[d] \in Nat /\ asked[s] \in Nat
      /\ sz = a + dptr /\ sz = b + sptr
  BY <1>1, <1>2, <1>3, <1>4, ElementOfSeq DEF AtPlace
<1>6. /\ DOMAIN loc = 1 .. n /\ \A e \in 1 .. n : DOMAIN loc[e] = 1 .. lens[e]
  <2> DEFINE all == [e \in 1 .. n |-> [p \in 1 .. lens[e] |-> loc[e][p]]]
  <2>1. loc = all BY DEF Filled
  <2>2. DOMAIN all = 1 .. n /\ \A e \in 1 .. n : DOMAIN all[e] = 1 .. lens[e] OBVIOUS
  <2> HIDE DEF all
  <2> QED BY <2>1, <2>2
<1>7. /\ DOMAIN buffer = 1 .. lens[d]
      /\ buffer = [p \in 1 .. lens[d] |-> buffer[p]]
      /\ \A p \in 1 .. lens[d] : buffer[p] = IF p \in dptr + 1 .. dptr + c
                                             THEN pages[s][sptr + p - dptr] ELSE loc[d][p]
  BY <1>2, <1>6 DEF Patched
<1> HIDE DEF buffer
<1>8. new[d] = buffer /\ (\A e \in 1 .. n \ {d} : new[e] = loc[e]) /\ DOMAIN new = 1 .. n
  BY <1>2, <1>6
<1>9. new = [e \in 1 .. n |-> [p \in 1 .. lens[e] |-> new[e][p]]]
  <2>1. new = [e \in 1 .. n |-> new[e]] BY <1>8
  <2>2. ASSUME NEW e \in 1 .. n PROVE new[e] = [p \in 1 .. lens[e] |-> new[e][p]]
    <3>1. CASE e = d BY <1>7, <1>8, <3>1
    <3>2. CASE e # d
      <4>1. loc = [f \in 1 .. n |-> [p \in 1 .. lens[f] |-> loc[f][p]]] BY DEF Filled
      <4>2. loc[e] = [p \in 1 .. lens[e] |-> loc[e][p]] BY <4>1, Zenon
      <4>3. new[e] = loc[e] BY <1>8, <3>2
      <4> QED BY <4>2, <4>3
    <3> QED BY <3>1, <3>2
  <2> HIDE DEF new
  <2> QED BY <2>1, <2>2, Zenon
<1> HIDE DEF new
<1> DEFINE Same(v, k) ==
      \E t \in 1 .. Len(asked) : \E r \in 1 .. asked[t] :
         Before(asked, t) + r = k /\ v = pages[t][r]
<1>10. ASSUME NEW e \in 1 .. n, NEW p \in 1 .. lens[e]
       PROVE  IF Before(lens, e) + p <= sz + c
              THEN Same(new[e][p], Before(lens, e) + p) ELSE new[e][p] = NoByte
  <2>1. IF Before(lens, e) + p <= sz
        THEN Same(loc[e][p], Before(lens, e) + p) ELSE loc[e][p] = NoByte
    BY DEF Filled
  <2>2. PICK g \in Nat : g = Before(lens, e) BY <1>0
  <2>3. p \in Nat /\ 1 <= p /\ p <= lens[e] BY <1>1
  <2>4. CASE e = d /\ p \in dptr + 1 .. dptr + c
    <3>1. g = a BY <1>3, <2>2, <2>4
    <3>2. PICK r \in Int : r = sptr + p - dptr BY <1>5, <2>3
    <3>3. r \in 1 .. asked[s] /\ b + r = g + p /\ g + p <= sz + c
      <4>1. PICK q \in Nat : q = asked[s] BY <1>5
      <4>2. c <= q - sptr BY <4>1
      <4>3. dptr + 1 <= p /\ p <= dptr + c BY <1>5, <2>4
      <4> HIDE DEF Same
      <4>4. dptr \in Nat /\ sptr \in Nat /\ sz = a + dptr /\ sz = b + sptr BY <1>5
      <4>5. 1 <= r BY <2>3, <3>2, <4>3, <4>4
      <4>6. r <= q BY <2>3, <3>2, <4>2, <4>3, <4>4
      <4>7. b + r = a + p BY <2>3, <3>2, <4>4
      <4>8. a + p <= sz + c BY <2>3, <4>3, <4>4
      <4> QED BY <3>1, <4>1, <4>5, <4>6, <4>7, <4>8
    <3>4. new[e][p] = pages[s][r] BY <1>7, <1>8, <2>4, <3>2
    <3>5. Same(new[e][p], g + p) BY <1>2, <1>4, <3>3, <3>4
    <3> QED BY <2>2, <3>3, <3>5
  <2>5. CASE ~(e = d /\ p \in dptr + 1 .. dptr + c)
    <3>1. new[e][p] = loc[e][p] BY <1>7, <1>8, <2>5
    <3>2. g + p <= sz <=> g + p <= sz + c
      <4>1. CASE e = d
        <5>1. g = a /\ p \notin dptr + 1 .. dptr + c BY <1>3, <2>2, <2>5, <4>1
        <5>2. p <= dptr \/ p > dptr + c BY <1>5, <2>3, <5>1
        <5>3. CASE p <= dptr BY <1>5, <2>3, <5>1, <5>3
        <5>4. CASE p > dptr + c BY <1>5, <2>3, <5>1, <5>4
        <5> QED BY <5>2, <5>3, <5>4
      <4>2. CASE e # d
        <5>1. e \in 1 .. n + 1 /\ e + 1 \in 1 .. n + 1 /\ d \in 1 .. n + 1 /\ d + 1 \in 1 .. n + 1
              /\ (e + 1 <= d \/ d + 1 <= e)
          BY <1>1, <1>2, <4>2, SMTT(30)
        <5>2. CASE e + 1 <= d
          <6>1. Before(lens, e + 1) <= Before(lens, d) BY <5>1, <5>2, BeforeIs
          <6>2. Before(lens, e + 1) = Before(lens, e) + lens[e] BY BeforeIs
          <6>3. g + lens[e] <= a BY <1>3, <2>2, <6>1, <6>2
          <6> QED BY <1>1, <1>5, <2>3, <6>3
        <5>3. CASE d + 1 <= e
          <6>1. Before(lens, d + 1) <= Before(lens, e) BY <5>1, <5>3, BeforeIs
          <6>2. Before(lens, d + 1) = Before(lens, d) + lens[d] BY <1>2, BeforeIs
          <6>3. PICK q \in Nat : q = lens[d] BY <1>5
          <6>4. a + q <= g BY <1>3, <2>2, <6>1, <6>2, <6>3
          <6>5. c <= q - dptr BY <6>3
          <6>6. dptr \in Nat /\ sz = a + dptr /\ p \in Nat /\ 1 <= p BY <1>5, <2>3
          <6> HIDE DEF Same
          <6>7. sz + c <= g BY <6>4, <6>5, <6>6
          <6>8. sz \in Nat /\ sz <= sz + c BY <6>6
          <6>9. ~(g + p <= sz) /\ ~(g + p <= sz + c) BY <6>6, <6>7, <6>8
          <6> QED BY <6>9
        <5>4. e + 1 <= d \/ d + 1 <= e BY <5>1
        <5> QED BY <5>2, <5>3, <5>4
      <4> QED BY <4>1, <4>2
    <3> HIDE DEF Same
    <3> QED BY <2>1, <2>2, <3>1, <3>2
  <2> QED BY <2>4, <2>5
<1>11. Filled(new, sz + c, pages, asked, lens) BY <1>9, <1>10 DEF Filled
<1> QED BY <1>11 DEF new, buffer

-------------------------------------------------------------------------------
(***************************************************************************)
(* The invariant.                                                          *)
(***************************************************************************)
Finished(n) == n \in Names /\ json[n] \notin {NoFile, Truncated}

\* Region r of a description, f its .memory file, or what there is of it, and img
\* the target when the save began: a region that can be accessed was saved as a
\* whole, and its pages are in the file as far as the file goes.
Faithful(r, f, img) ==
  /\ r \in Item /\ r.first < r.end
  /\ r.prot # 0 =>
       /\ r.size = r.end - r.first
       /\ img.held => \A k \in 1 .. r.size :
            r.offset + k <= Len(f) => f[r.offset + k] = img.pages[r.first + k - 1]

\* Every finished file.
Files ==
  \A n \in Names : Finished(n) =>
    /\ json[n] \in Seq(Item) /\ json[n] # <<>> /\ memory[n] \in Seq(Nat)
    /\ \A i \in 1 .. Len(json[n]) : Faithful(json[n][i], memory[n], image[n])

\* The pages that were read, on the disk or not.
Sent == memory[name] \o unwritten

\* The file that is being written, up to the region that is being read.  Its
\* description comes into being before the last of its pages reach the disk.
Saving ==
  pc \in {"saving", "describing", "closing"} =>
    /\ name \in Names
    /\ json[name] \in IF pc = "closing" THEN {NoFile, Truncated, items} ELSE {NoFile}
    /\ memory[name] \in Seq(Nat) /\ unwritten \in Seq(Nat)
    /\ Len(unwritten) <= FileBuffer
    /\ items \in Seq(Item) /\ offset \in Nat
    /\ pc # "saving" => items # <<>>
    /\ \A i \in 1 .. Len(items) :
         Faithful(items[i], Sent, image[name]) /\ items[i].offset + items[i].size <= Len(Sent)
    /\ IF process = Live
       THEN image[name].held = held /\ (held => image[name].pages = mem)
       ELSE image[name] = image[process.from]

\* The region that is being read: its pages are the last ones that were read.
Reading ==
  pc = "saving" =>
    /\ Len(items) + 1 \in DOMAIN Sources
    /\ begin \in Current.first .. Current.end
    /\ saved \in Nat /\ saved = begin - Current.first
    /\ offset + saved = Len(Sent)
    /\ image[name].held =>
         \A k \in 1 .. saved : Sent[offset + k] = image[name].pages[Current.first + k - 1]

\* The regions of the snapshot that is loaded.
Loaded ==
  process # Live =>
    /\ Finished(process.from)
    /\ Len(Map) \in Nat \ {0} /\ DOMAIN Map = 1 .. Len(Map)
    /\ \A i \in DOMAIN Map :
         /\ Map[i].first \in Nat /\ Map[i].end \in Nat /\ Map[i].prot \in Nat
         /\ Map[i].first < Map[i].end
         /\ Map[i].prot # 0 /\ Map[i].pages # <<>> =>
              Map[i].pages \in Seq(Nat) /\ Len(Map[i].pages) = Map[i].end - Map[i].first

Shape ==
  /\ mem \in [Pages -> Nat] /\ held \in BOOLEAN
  /\ pc \in {"idle", "saving", "describing", "closing", "copying"}
  /\ DOMAIN json = Names /\ DOMAIN memory = Names /\ DOMAIN image = Names

IInv == Shape /\ Files /\ Saving /\ Reading /\ Loaded /\ SnapshotFaithful

\* What a step does to the finished files.
Kept ==
  \A n \in Names : Finished(n) =>
    /\ json'[n] = json[n]
    /\ \/ memory'[n] = memory[n]
       \/ pc = "closing" /\ n = name /\ IsPrefix(memory[n], memory'[n])

-------------------------------------------------------------------------------
LEMMA RegionFacts ==
  /\ Len(Regions) \in Nat /\ DOMAIN Regions = 1 .. Len(Regions) /\ 1 \in DOMAIN Regions
  /\ \A i \in DOMAIN Regions :
       /\ Regions[i].first \in Nat /\ Regions[i].end \in Nat /\ Regions[i].prot \in Nat
       /\ Regions[i].first < Regions[i].end
       /\ \A a \in Regions[i].first .. Regions[i].end - 1 : a \in Pages /\ a \in Nat
<1>1. /\ Len(Regions) \in Nat /\ DOMAIN Regions = 1 .. Len(Regions)
      /\ \A i \in DOMAIN Regions : Regions[i] \in [first : Nat, end : Nat, prot : Nat]
  <2> DEFINE S == [first : Nat, end : Nat, prot : Nat]
  <2>1. Regions \in Seq(S) BY SnapshotAssumption
  <2> HIDE DEF S
  <2>2. /\ Len(Regions) \in Nat /\ DOMAIN Regions = 1 .. Len(Regions)
        /\ \A i \in DOMAIN Regions : Regions[i] \in S
    BY <2>1, LenProperties, ElementOfSeq
  <2> QED BY <2>2 DEF S
<1>2. Len(Regions) # 0 BY SnapshotAssumption
<1>3. \A i \in DOMAIN Regions :
        /\ Regions[i].first \in Nat /\ Regions[i].end \in Nat /\ Regions[i].prot \in Nat
        /\ Regions[i].first < Regions[i].end
  BY <1>1, SnapshotAssumption
<1>4. ASSUME NEW i \in DOMAIN Regions, NEW a \in Regions[i].first .. Regions[i].end - 1
      PROVE  a \in Pages /\ a \in Nat
  <2>1. a \in Nat BY <1>3
  <2>2. a \in Pages BY DEF Pages
  <2> QED BY <2>1, <2>2
<1> QED BY <1>1, <1>2, <1>3, <1>4

\* The regions that are saved, of the target or of a snapshot.
LEMMA SourceFacts ==
  ASSUME Loaded
  PROVE  /\ Len(Sources) \in Nat /\ DOMAIN Sources = 1 .. Len(Sources) /\ 1 \in DOMAIN Sources
         /\ \A i \in DOMAIN Sources :
              /\ Sources[i].first \in Nat /\ Sources[i].end \in Nat /\ Sources[i].prot \in Nat
              /\ Sources[i].first < Sources[i].end
<1>1. CASE process = Live BY <1>1, RegionFacts DEF Sources
<1>2. CASE process # Live
  <2>1. Sources = Map BY <1>2 DEF Sources
  <2>2. /\ Len(Map) \in Nat \ {0} /\ DOMAIN Map = 1 .. Len(Map)
        /\ \A i \in DOMAIN Map :
             /\ Map[i].first \in Nat /\ Map[i].end \in Nat /\ Map[i].prot \in Nat
             /\ Map[i].first < Map[i].end
    BY <1>2 DEF Loaded
  <2> QED BY <2>1, <2>2
<1> QED BY <1>1, <1>2

\* A file that grows keeps what its regions say, if it had their pages.
LEMMA FaithfulKept ==
  ASSUME NEW r, NEW f \in Seq(Nat), NEW g \in Seq(Nat), NEW img,
         Faithful(r, f, img), r.offset + r.size <= Len(f)
  PROVE  Faithful(r, f \o g, img) /\ r.offset + r.size <= Len(f \o g)
<1>1. /\ f \o g \in Seq(Nat) /\ Len(f \o g) = Len(f) + Len(g)
      /\ \A k \in 1 .. Len(f) : (f \o g)[k] = f[k]
      /\ Len(f) \in Nat /\ Len(g) \in Nat
  OBVIOUS
<1>2. r.offset \in Nat /\ r.size \in Nat BY DEF Faithful, Item
<1>3. r.offset + r.size <= Len(f \o g) BY <1>1, <1>2
<1>4. \A k \in 1 .. r.size : r.offset + k \in 1 .. Len(f) /\ r.offset + k <= Len(f) BY <1>1, <1>2
<1> QED BY <1>1, <1>3, <1>4 DEF Faithful

\* So does what there is of a file of which only the beginning reached the disk.
LEMMA FaithfulBegun ==
  ASSUME NEW r, NEW f, NEW g, NEW img, Faithful(r, f, img), Len(f) \in Nat, Len(g) \in Nat,
         Len(g) <= Len(f), \A i \in 1 .. Len(g) : g[i] = f[i]
  PROVE  Faithful(r, g, img)
<1>1. r.offset \in Nat /\ r.size \in Nat BY DEF Faithful, Item
<1>2. \A k \in 1 .. r.size : r.offset + k <= Len(g) =>
        r.offset + k \in 1 .. Len(g) /\ r.offset + k <= Len(f)
  BY <1>1
<1> QED BY <1>2 DEF Faithful

LEMMA Associates ==
  \A S : \A f, g, h \in Seq(S) : (f \o g) \o h = f \o (g \o h)
BY ConcatAssociative

LEMMA PagesAssociate ==
  ASSUME NEW f \in Seq(Nat), NEW g \in Seq(Nat), NEW h \in Seq(Nat)
  PROVE  (f \o g) \o h = f \o (g \o h)
BY Associates

\* What reaches the disk of the pages w, and what is held back.
LEMMA DiskTakes ==
  ASSUME NEW f \in Seq(Nat), NEW w \in Seq(Nat), NEW k \in 0 .. Len(w)
  PROVE  /\ SubSeq(w, k + 1, Len(w)) \in Seq(Nat)
         /\ Len(SubSeq(w, k + 1, Len(w))) = Len(w) - k
         /\ LET g == f \o SubSeq(w, 1, k)
            IN  /\ g \in Seq(Nat) /\ IsPrefix(f, g) /\ Len(g) <= Len(f \o w)
                /\ \A i \in 1 .. Len(g) : g[i] = (f \o w)[i]
                /\ g \o SubSeq(w, k + 1, Len(w)) = f \o w
<1> DEFINE a == SubSeq(w, 1, k)
           b == SubSeq(w, k + 1, Len(w))
           g == f \o a
<1>1. Len(w) \in Nat /\ Len(f) \in Nat BY LenProperties
<1>2. a \in Seq(Nat) /\ Len(a) = k
  <2>1. \A i \in 1 .. k : w[i] \in Nat BY <1>1, ElementOfSeq
  <2> QED BY <1>1, <2>1, SubSeqProperties
<1>3. b \in Seq(Nat) /\ Len(b) = Len(w) - k
  <2>1. \A i \in k + 1 .. Len(w) : w[i] \in Nat BY <1>1, ElementOfSeq
  <2> QED BY <1>1, <2>1, SubSeqProperties
<1>4. a \o b = w
  <2>1. SubSeq(w, 1, k) \o SubSeq(w, k + 1, Len(w)) = SubSeq(w, 1, Len(w))
    <3>1. PICK m \in Nat : m = 1 OBVIOUS
    <3>2. m \in 1 .. Len(w) + 1 /\ k \in m - 1 .. Len(w) /\ Len(w) \in k .. Len(w)
      BY <1>1, <3>1
    <3>3. SubSeq(w, m, k) \o SubSeq(w, k + 1, Len(w)) = SubSeq(w, m, Len(w))
      BY <3>2, ConcatAdjacentSubSeq
    <3> QED BY <3>1, <3>3
  <2>2. SubSeq(w, 1, Len(w)) = w BY SubSeqFull
  <2> QED BY <2>1, <2>2
<1> HIDE DEF a, b
<1>5. g \in Seq(Nat) /\ Len(g) = Len(f) + k BY <1>2, ConcatProperties
<1>6. g \o b = f \o w
  <2>1. a \in Seq(Nat) /\ b \in Seq(Nat) BY <1>2, <1>3
  <2>2. (f \o a) \o b = f \o (a \o b) BY <2>1, PagesAssociate
  <2> QED BY <1>4, <2>2
<1>7. IsPrefix(f, g)
  <2>1. CASE Len(f) = 0
    <3>1. SubSeq(g, 1, Len(f)) = <<>> /\ SubSeq(f, 1, Len(f)) = <<>> BY <2>1, SubSeqEmpty
    <3> QED BY <1>1, <1>5, <3>1 DEF IsPrefix
  <2>2. CASE Len(f) # 0
    <3>1. 1 \in 1 .. Len(f) /\ Len(f) \in 1 .. Len(f) BY <1>1, <2>2
    <3>2. SubSeq(g, 1, Len(f)) = SubSeq(f, 1, Len(f)) BY <1>2, <3>1, SubSeqOfConcat1
    <3> QED BY <1>1, <1>5, <3>2 DEF IsPrefix
  <2> QED BY <2>1, <2>2
<1>8. Len(g) <= Len(g \o b) /\ \A i \in 1 .. Len(g) : g[i] = (g \o b)[i]
  BY <1>3, <1>5, ConcatProperties
<1> QED BY <1>3, <1>5, <1>6, <1>7, <1>8 DEF a, b

LEMMA InitHolds == Init => IInv
<1> SUFFICES ASSUME Init PROVE IInv OBVIOUS
<1>1. Pages \subseteq Nat
  <2> SUFFICES ASSUME NEW a \in Pages PROVE a \in Nat OBVIOUS
  <2>1. PICK i \in DOMAIN Regions : a \in Regions[i].first .. Regions[i].end - 1 BY DEF Pages
  <2> QED BY <2>1, RegionFacts
<1>2. mem \in [Pages -> Nat] /\ held \in BOOLEAN /\ pc = "idle" BY <1>1 DEF Init
<1>3. DOMAIN json = Names /\ DOMAIN memory = Names /\ DOMAIN image = Names BY DEF Init
<1>4. Files BY DEF Init, Files, Finished
<1>5. Saving /\ Reading BY DEF Init, Saving, Reading
<1>6. Loaded /\ SnapshotFaithful BY DEF Init, Loaded, SnapshotFaithful
<1> QED BY <1>2, <1>3, <1>4, <1>5, <1>6 DEF IInv, Shape

\* What holds of the finished files and of the one loaded holds as long as they
\* stay as they are.
LEMMA FilesKept ==
  ASSUME IInv,
         \A n \in Names : Finished(n)' =>
           Finished(n) /\ UNCHANGED <<json[n], memory[n], image[n]>>
  PROVE  Files'
BY DEF IInv, Files, Finished

LEMMA LoadedKept ==
  ASSUME IInv, process' \in {process, Live},
         \A n \in Names : Finished(n) => Finished(n)' /\ image'[n] = image[n]
  PROVE  Loaded' /\ SnapshotFaithful'
<1>1. CASE process' = Live BY <1>1 DEF Loaded, SnapshotFaithful
<1>2. CASE process' = process /\ process # Live
  <2>1. Finished(process.from) BY <1>2 DEF IInv, Loaded
  <2>2. process.from \in Names BY <2>1 DEF Finished
  <2>3. Map' = Map BY <1>2 DEF Map
  <2>4. Loaded' BY <1>2, <2>1, <2>2, <2>3 DEF IInv, Loaded
  <2>5. SnapshotFaithful' BY <1>2, <2>1, <2>2, <2>3 DEF IInv, SnapshotFaithful
  <2> QED BY <2>4, <2>5
<1> QED BY <1>1, <1>2

\* The target moves on only while it is not held.
LEMMA TargetRunsHolds ==
  ASSUME IInv, TargetRuns
  PROVE  IInv' /\ Kept
<1>1. /\ ~held /\ pc' = pc /\ process' = process
      /\ UNCHANGED <<held, memory, unwritten, json, name, items, begin, saved, offset, image>>
  BY DEF TargetRuns, saveVars
<1>2. Shape' BY <1>1 DEF TargetRuns, IInv, Shape
<1>3. Files' BY <1>1, FilesKept DEF Finished
<1>4. Loaded' /\ SnapshotFaithful' BY <1>1, LoadedKept DEF Finished
<1>5. Sent' = Sent BY <1>1 DEF Sent
<1>6. Saving' BY <1>1, <1>5 DEF IInv, Saving
<1>7. Sources' = Sources /\ Current' = Current BY <1>1 DEF Sources, Current, Map
<1>8. Reading' BY <1>1, <1>5, <1>7 DEF IInv, Reading
<1>9. Kept BY <1>1 DEF Kept
<1> QED BY <1>2, <1>3, <1>4, <1>6, <1>8, <1>9 DEF IInv

LEMMA SaveBeginsHolds ==
  ASSUME IInv, SaveBegins
  PROVE  IInv' /\ Kept
<1>1. FreeName \in Names /\ json[FreeName] = NoFile
  <2> DEFINE free == {n \in Names : json[n] = NoFile}
  <2>1. free \subseteq Nat /\ free # {} BY SnapshotAssumption DEF SaveBegins
  <2> HIDE DEF free
  <2>2. Min(free) \in free BY <2>1, LeastInSet
  <2> QED BY <2>2 DEF free, FreeName
<1> DEFINE new == FreeName
           img == IF process = Live THEN [pages |-> mem, held |-> held'] ELSE image[process.from]
<1>2. /\ name' = new /\ pc' = "saving"
      /\ held' \in IF process = Live THEN BOOLEAN ELSE {held}
      /\ memory' = [memory EXCEPT ![new] = <<>>]
      /\ image' = [image EXCEPT ![new] = img]
      /\ items' = <<>> /\ begin' = Sources[1].first /\ saved' = 0 /\ offset' = 0
      /\ unwritten' = <<>>
      /\ UNCHANGED <<mem, json, process>>
  BY DEF SaveBegins
<1>3. new \in Names /\ json[new] = NoFile BY <1>1
<1> HIDE DEF new
<1>4. Shape' BY <1>2 DEF IInv, Shape
<1>5. \A n \in Names \ {new} : memory'[n] = memory[n] /\ image'[n] = image[n]
  BY <1>2 DEF IInv, Shape
<1>6. \A n \in Names : Finished(n) => n # new BY <1>3 DEF Finished
<1>7. \A n \in Names : Finished(n)' <=> Finished(n) BY <1>2 DEF Finished
<1>8. Files' BY <1>2, <1>5, <1>6, <1>7, FilesKept
<1>9. Loaded' /\ SnapshotFaithful' BY <1>2, <1>5, <1>6, <1>7, LoadedKept
<1>10. memory'[new] = <<>> /\ image'[new] = img /\ Sent' = <<>> /\ Len(Sent') = 0
  <2>1. memory'[new] = <<>> /\ image'[new] = img BY <1>2, <1>3 DEF IInv, Shape
  <2>2. <<>> \o <<>> = <<>> /\ Len(<<>>) = 0 OBVIOUS
  <2> QED BY <1>2, <2>1, <2>2 DEF Sent
<1>11. Saving'
  <2>1. /\ <<>> \in Seq(Nat) /\ <<>> \in Seq(Item) /\ 1 .. Len(<<>>) = {}
        /\ Len(<<>>) <= FileBuffer
    BY SnapshotAssumption
  <2>2. \A i \in 1 .. Len(items') :
          /\ Faithful(items'[i], Sent', image'[new])
          /\ items'[i].offset + items'[i].size <= Len(Sent')
    BY <1>2, <2>1
  <2>3. json'[new] = NoFile /\ name' = new BY <1>2, <1>3
  <2>4. /\ memory'[new] \in Seq(Nat) /\ items' \in Seq(Item) /\ unwritten' \in Seq(Nat)
        /\ Len(unwritten') <= FileBuffer /\ offset' \in Nat
    BY <1>2, <1>10, <2>1
  <2>5. CASE process = Live
    <3>1. image'[new].held = held' /\ image'[new].pages = mem' BY <1>2, <1>10, <2>5
    <3> QED BY <1>2, <1>3, <2>2, <2>3, <2>4, <2>5, <3>1 DEF Saving
  <2>6. CASE process # Live
    <3>1. process.from \in Names /\ process.from # new BY <1>6, <2>6 DEF IInv, Loaded, Finished
    <3>2. image'[new] = image'[process.from] BY <1>5, <1>10, <2>6, <3>1
    <3> QED BY <1>2, <1>3, <2>2, <2>3, <2>4, <2>6, <3>2 DEF Saving
  <2> QED BY <2>5, <2>6
<1>12. Reading'
  <2>1. Len(items') + 1 = 1 /\ Sources' = Sources /\ Current' = Sources[1]
    BY <1>2 DEF Current, Sources, Map
  <2>2. /\ 1 \in DOMAIN Sources /\ Sources[1].first \in Nat /\ Sources[1].end \in Nat
        /\ Sources[1].first < Sources[1].end
    BY SourceFacts DEF IInv
  <2>3. /\ begin' \in Sources[1].first .. Sources[1].end /\ saved' = begin' - Sources[1].first
        /\ saved' \in Nat /\ offset' + saved' = 0 /\ 1 .. saved' = {}
    BY <1>2, <2>2
  <2> QED BY <1>10, <2>1, <2>2, <2>3 DEF Reading
<1>13. Kept BY <1>2, <1>5, <1>6 DEF Kept
<1> QED BY <1>4, <1>8, <1>9, <1>11, <1>12, <1>13 DEF IInv

\* What one read returns of the region that is being saved.
LEMMA ReadsAre ==
  ASSUME IInv, pc = "saving", Current.prot # 0, begin < Current.end, NEW g \in Reads
  PROVE  /\ g \in Seq(Nat) /\ begin + Len(g) <= Current.end
         /\ image[name].held =>
              \A k \in 1 .. Len(g) : g[k] = image[name].pages[begin + k - 1]
<1> DEFINE r == Current
<1>1. /\ r.first \in Nat /\ r.end \in Nat /\ begin \in r.first .. r.end
      /\ Len(items) + 1 \in DOMAIN Sources
  BY SourceFacts DEF IInv, Reading, Current
<1>2. begin \in Nat /\ begin < r.end BY <1>1
<1>3. Wanted \in Nat \ {0} /\ begin + Wanted <= r.end
  <2>1. Buffer \in Nat \ {0} BY SnapshotAssumption
  <2>2. Buffer \in Int /\ r.end - begin \in Int /\ r.end - begin > 0 BY <1>1, <1>2, <2>1
  <2> HIDE DEF r
  <2>3. /\ Min({Buffer, r.end - begin}) \in {Buffer, r.end - begin}
        /\ Min({Buffer, r.end - begin}) <= r.end - begin
    BY <2>2, LeastOfTwo
  <2>4. Wanted = Min({Buffer, r.end - begin}) BY DEF Wanted, r
  <2> QED BY <1>1, <1>2, <2>1, <2>2, <2>3, <2>4
<1>4. CASE process = Live
  <2>1. PICK n \in 1 .. Wanted : g = [k \in 1 .. n |-> mem[begin + k - 1]]
    BY <1>4 DEF Reads
  <2>2. r = Regions[Len(items) + 1] /\ Len(items) + 1 \in DOMAIN Regions
    BY <1>1, <1>4 DEF Current, Sources
  <2>3. \A k \in 1 .. n : begin + k - 1 \in r.first .. r.end - 1
    <3> HIDE DEF r
    <3> QED BY <1>1, <1>2, <1>3
  <2>4. \A k \in 1 .. n : mem[begin + k - 1] \in Nat BY <2>2, <2>3, RegionFacts DEF IInv, Shape
  <2>5. n \in Nat /\ n <= Wanted BY <1>3
  <2>6. g \in Seq(Nat) /\ Len(g) = n BY <2>1, <2>4, <2>5, ListOf
  <2>7. begin + n <= r.end
    <3> HIDE DEF r
    <3> QED BY <1>1, <1>2, <1>3, <2>5
  <2>8. image[name].held => image[name].pages = mem BY <1>4 DEF IInv, Saving
  <2> QED BY <2>1, <2>6, <2>7, <2>8
<1>5. CASE process # Live
  <2>1. g = Relocated(Request) /\ Relocates(<<Request>>) BY <1>5 DEF Reads
  <2> DEFINE i == CHOOSE j \in DOMAIN Map : Holds(j, Request)
  <2>2. i \in DOMAIN Map /\ Holds(i, Request)
    <3>1. 1 \in DOMAIN <<Request>> /\ <<Request>>[1] = Request OBVIOUS
    <3>2. \E j \in DOMAIN Map : Holds(j, Request) BY <2>1, <3>1 DEF Relocates
    <3> QED BY <3>2
  <2>3. g = SubSeq(Map[i].pages, begin - Map[i].first + 1, begin - Map[i].first + Wanted)
    BY <2>1 DEF Relocated, Request
  <2> HIDE DEF i
  <2>4. /\ Map[i].first \in Nat /\ Map[i].end \in Nat
        /\ Map[i].first <= begin /\ begin + Wanted <= Map[i].end
        /\ Map[i].prot # 0
        /\ Map[i].pages \in Seq(Nat) /\ Len(Map[i].pages) = Map[i].end - Map[i].first
    BY <1>5, <2>2 DEF IInv, Loaded, Holds, Covers, Request
  <2> DEFINE p == Map[i].pages
  <2>5. PICK f \in Nat : f = Map[i].first BY <2>4
  <2>6. PICK lo \in Nat : lo = begin - f BY <1>2, <2>4, <2>5
  <2>7. p \in Seq(Nat) /\ lo + Wanted <= Len(p) /\ Len(p) \in Nat /\ DOMAIN p = 1 .. Len(p)
    <3>1. PICK e \in Nat : e = Map[i].end BY <2>4
    <3>2. Len(p) = e - f /\ begin + Wanted <= e /\ f <= begin BY <2>4, <2>5, <3>1
    <3>3. PICK l \in Nat : l = Len(p) BY <2>4, LenProperties
    <3>4. PICK n \in Nat : n = Wanted BY <1>3
    <3>5. l = e - f /\ begin + n <= e /\ f <= begin /\ begin \in Nat /\ lo = begin - f
      BY <1>2, <2>6, <3>2, <3>3, <3>4
    <3>6. lo + n <= l BY <3>5
    <3> QED BY <2>4, <3>3, <3>4, <3>6, LenProperties
  <2>8. p = Map[i].pages OBVIOUS
  <2> HIDE DEF p
  <2>9. PICK a \in Nat : a = lo + 1 OBVIOUS
  <2>10. PICK b \in Nat : b = lo + Wanted BY <1>3
  <2>11. g = SubSeq(p, a, b) BY <2>3, <2>5, <2>6, <2>8, <2>9, <2>10
  <2>12. \A k \in a .. b : p[k] \in Nat
    <3>1. PICK l \in Nat : l = Len(p) BY <2>7
    <3>2. \A k \in a .. b : k \in 1 .. l BY <2>7, <2>9, <2>10, <3>1
    <3> QED BY <2>7, <3>1, <3>2, ElementOfSeq
  <2>13. g \in Seq(Nat) /\ Len(g) = Wanted /\ \A k \in 1 .. Wanted : g[k] = p[lo + k]
    <3>1. /\ SubSeq(p, a, b) \in Seq(Nat)
          /\ Len(SubSeq(p, a, b)) = IF a <= b THEN b - a + 1 ELSE 0
          /\ \A k \in 1 .. b - a + 1 : SubSeq(p, a, b)[k] = p[a + k - 1]
      BY <2>12, SubSeqProperties
    <3>2. b - a + 1 = Wanted /\ a <= b BY <1>3, <2>9, <2>10
    <3>3. \A k \in 1 .. Wanted : a + k - 1 = lo + k BY <1>3, <2>9
    <3> QED BY <2>11, <3>1, <3>2, <3>3
  <2>14. ASSUME image[name].held, NEW k \in 1 .. Wanted
         PROVE  g[k] = image[name].pages[begin + k - 1]
    <3>1. image[name] = image[process.from] BY <1>5 DEF IInv, Saving
    <3>2. lo + k \in DOMAIN p
      <4>1. PICK l \in Nat : l = Len(p) BY <2>7
      <4>2. PICK n \in Nat : n = Wanted BY <1>3
      <4>3. lo + k \in 1 .. l BY <2>7, <4>1, <4>2
      <4> QED BY <2>7, <4>1, <4>3
    <3>3. \A m \in DOMAIN Map[i].pages :
            Map[i].pages[m] = image[process.from].pages[Map[i].first + m - 1]
      BY <1>5, <2>2, <2>4, <2>14, <3>1 DEF IInv, SnapshotFaithful
    <3>4. p[lo + k] = image[name].pages[f + (lo + k) - 1] BY <2>5, <2>8, <3>1, <3>2, <3>3
    <3>5. f + (lo + k) - 1 = begin + k - 1 BY <1>2, <1>3, <2>6
    <3> QED BY <2>13, <3>4, <3>5
  <2> QED BY <1>3, <2>13, <2>14
<1> QED BY <1>4, <1>5

\* A read adds its pages to the region's, behind those that were read before.
LEMMA SaveChunkHolds ==
  ASSUME IInv, SaveChunk
  PROVE  IInv' /\ Kept
<1>1. /\ pc = "saving" /\ Current.prot # 0 /\ begin < Current.end
      /\ UNCHANGED <<mem, held, json, pc, name, items, offset, image, process>>
  BY DEF SaveChunk
<1>2. PICK g \in Reads :
        /\ \E k \in 0 .. Len(unwritten \o g) :
             /\ Len(unwritten \o g) - k <= FileBuffer
             /\ memory' = OnDisk(unwritten \o g, k)
             /\ unwritten' = SubSeq(unwritten \o g, k + 1, Len(unwritten \o g))
        /\ begin' = begin + Len(g)
        /\ saved' = saved + Len(g)
  BY DEF SaveChunk
<1> DEFINE w == unwritten \o g
           f == memory[name]
           r == Current
           img == image[name]
<1>3. PICK k \in 0 .. Len(w) :
        /\ Len(w) - k <= FileBuffer
        /\ memory' = [memory EXCEPT ![name] = f \o SubSeq(w, 1, k)]
        /\ unwritten' = SubSeq(w, k + 1, Len(w))
  BY <1>2 DEF OnDisk
<1>4. /\ name \in Names /\ json[name] = NoFile /\ f \in Seq(Nat) /\ unwritten \in Seq(Nat)
      /\ offset \in Nat /\ items \in Seq(Item)
      /\ begin \in r.first .. r.end /\ saved \in Nat /\ saved = begin - r.first
      /\ offset + saved = Len(Sent) /\ Len(items) + 1 \in DOMAIN Sources
  BY <1>1 DEF IInv, Saving, Reading
<1>5. /\ g \in Seq(Nat) /\ begin + Len(g) <= r.end
      /\ img.held => \A j \in 1 .. Len(g) : g[j] = img.pages[begin + j - 1]
  BY <1>1, ReadsAre
<1>6. r.first \in Nat /\ r.end \in Nat BY <1>4, SourceFacts DEF IInv, Current
<1>7. w \in Seq(Nat) /\ Sent \o g = f \o w /\ Sent \in Seq(Nat)
  <2>1. (f \o unwritten) \o g = f \o (unwritten \o g) BY <1>4, <1>5, PagesAssociate
  <2> QED BY <1>4, <1>5, <2>1, ConcatProperties DEF Sent
<1> HIDE DEF w
<1>8. /\ unwritten' \in Seq(Nat) /\ Len(unwritten') <= FileBuffer
      /\ memory'[name] \in Seq(Nat) /\ Sent' = Sent \o g
  <2>1. /\ SubSeq(w, k + 1, Len(w)) \in Seq(Nat)
        /\ Len(SubSeq(w, k + 1, Len(w))) = Len(w) - k
        /\ f \o SubSeq(w, 1, k) \in Seq(Nat)
        /\ (f \o SubSeq(w, 1, k)) \o SubSeq(w, k + 1, Len(w)) = f \o w
    BY <1>4, <1>7, DiskTakes, Zenon
  <2>2. memory'[name] = f \o SubSeq(w, 1, k) BY <1>3, <1>4 DEF IInv, Shape
  <2> QED BY <1>1, <1>3, <1>7, <2>1, <2>2 DEF Sent
<1>9. \A m \in Names \ {name} : memory'[m] = memory[m] BY <1>3 DEF IInv, Shape
<1>10. Shape' BY <1>1, <1>3 DEF IInv, Shape
<1>11. \A m \in Names : Finished(m) => m # name BY <1>4 DEF Finished
<1>12. \A m \in Names : Finished(m)' <=> Finished(m) BY <1>1 DEF Finished
<1>13. Files' BY <1>1, <1>9, <1>11, <1>12, FilesKept
<1>14. Loaded' /\ SnapshotFaithful' BY <1>1, <1>11, <1>12, LoadedKept
<1>15. Sources' = Sources /\ r' = r BY <1>1 DEF Sources, Current, Map
<1>16. /\ Len(Sent) \in Nat /\ Len(g) \in Nat /\ Len(Sent \o g) = Len(Sent) + Len(g)
       /\ \A j \in 1 .. Len(Sent) : (Sent \o g)[j] = Sent[j]
       /\ \A j \in 1 .. Len(g) : (Sent \o g)[Len(Sent) + j] = g[j]
  <2> DEFINE s == Sent
  <2>0. s \in Seq(Nat) BY <1>7
  <2> HIDE DEF s
  <2>1. /\ Len(s) \in Nat /\ Len(g) \in Nat /\ Len(s \o g) = Len(s) + Len(g)
        /\ \A j \in 1 .. Len(s) + Len(g) :
             (s \o g)[j] = IF j <= Len(s) THEN s[j] ELSE g[j - Len(s)]
    BY <1>5, <2>0, ConcatProperties, LenProperties
  <2>2. \A j \in 1 .. Len(s) : j \in 1 .. Len(s) + Len(g) /\ j <= Len(s) BY <2>1
  <2>3. \A j \in 1 .. Len(g) :
          Len(s) + j \in 1 .. Len(s) + Len(g) /\ ~(Len(s) + j <= Len(s)) /\ Len(s) + j - Len(s) = j
    BY <2>1
  <2> QED BY <2>1, <2>2, <2>3 DEF s
<1>17. Saving'
  <2>1. \A i \in 1 .. Len(items) :
          /\ Faithful(items[i], Sent \o g, img)
          /\ items[i].offset + items[i].size <= Len(Sent \o g)
    <3> SUFFICES ASSUME NEW i \in 1 .. Len(items)
                 PROVE  /\ Faithful(items[i], Sent \o g, img)
                        /\ items[i].offset + items[i].size <= Len(Sent \o g)
      OBVIOUS
    <3>1. Faithful(items[i], Sent, img) /\ items[i].offset + items[i].size <= Len(Sent)
      BY <1>1 DEF IInv, Saving
    <3> QED BY <1>5, <1>7, <3>1, FaithfulKept
  <2>2. IF process' = Live
        THEN image'[name].held = held' /\ (held' => image'[name].pages = mem')
        ELSE image'[name] = image'[process'.from]
    BY <1>1 DEF IInv, Saving
  <2> QED BY <1>1, <1>4, <1>8, <2>1, <2>2 DEF Saving
<1> HIDE DEF r, f, img
<1>18. Reading'
  <2>0. PICK m \in Nat : m = Len(Sent) BY <1>16
  <2>1. PICK n \in Nat : n = Len(g) BY <1>16
  <2> DEFINE l == r.first
             e == r.end
  <2>01. /\ offset \in Nat /\ saved \in Nat /\ begin \in Nat /\ l \in Nat /\ e \in Nat
         /\ offset + saved = m /\ saved = begin - l /\ l <= begin /\ begin <= e
    BY <1>4, <1>6, <2>0
  <2>02. begin' = begin + n /\ saved' = saved + n /\ begin + n <= e BY <1>2, <1>5, <2>1
  <2> HIDE DEF l, e
  <2>2. /\ begin' \in r.first .. r.end /\ saved' \in Nat /\ saved' = begin' - r.first
        /\ offset + saved' = Len(Sent \o g)
    <3>1. Len(Sent \o g) = m + n BY <1>16, <2>0, <2>1
    <3>2. /\ begin' \in l .. e /\ saved' \in Nat /\ saved' = begin' - l
          /\ offset + saved' = m + n
      BY <2>01, <2>02
    <3> QED BY <3>1, <3>2 DEF l, e
  <2>3. ASSUME img.held, NEW j \in 1 .. saved'
        PROVE  (Sent \o g)[offset + j] = img.pages[r.first + j - 1]
    <3>1. saved' = saved + n /\ j \in Nat /\ 1 <= j /\ j <= saved + n BY <2>01, <2>02
    <3>2. CASE j <= saved
      <4>0. j \in 1 .. saved /\ offset + j \in 1 .. m BY <2>01, <3>1, <3>2
      <4>1. j \in 1 .. saved /\ offset + j \in 1 .. Len(Sent) BY <2>0, <4>0
      <4>2. Sent[offset + j] = img.pages[r.first + j - 1]
        BY <1>1, <2>3, <4>1 DEF IInv, Reading, img, r
      <4> QED BY <1>16, <4>1, <4>2
    <3>3. CASE ~(j <= saved)
      <4>1. PICK i \in Nat : i = j - saved BY <2>01, <3>1, <3>3
      <4>0. i \in 1 .. n /\ offset + j = m + i BY <2>01, <3>1, <3>3, <4>1
      <4>2. i \in 1 .. Len(g) BY <2>1, <4>0
      <4>3. offset + j = Len(Sent) + i BY <2>0, <4>0
      <4>4. g[i] = img.pages[begin + i - 1] BY <1>5, <2>3, <4>2
      <4>6. begin + i - 1 = l + j - 1 BY <2>01, <3>1, <4>1
      <4>5. begin + i - 1 = r.first + j - 1 BY <4>6 DEF l
      <4> QED BY <1>16, <4>2, <4>3, <4>4, <4>5
    <3> QED BY <3>2, <3>3
  <2>4. Len(items') + 1 \in DOMAIN Sources' BY <1>1, <1>4, <1>15
  <2>5. image'[name'] = img /\ offset' = offset BY <1>1 DEF img
  <2> QED BY <1>8, <1>15, <2>2, <2>3, <2>4, <2>5 DEF Reading, r
<1>19. Kept BY <1>1, <1>9, <1>11 DEF Kept
<1> QED BY <1>10, <1>13, <1>14, <1>17, <1>18, <1>19 DEF IInv

\* A region is described as one that can be accessed only when all of it was read.
LEMMA DescribedHolds ==
  ASSUME IInv, pc = "saving", NEW prot,
         prot = 0 \/ (prot = Current.prot /\ begin = Current.end),
         Described(prot)
  PROVE  IInv' /\ Kept
<1> DEFINE r == Current
           item == [first |-> r.first, end |-> r.end, prot |-> prot,
                    size |-> saved, offset |-> offset]
<1>1. /\ items' = Append(items, item) /\ saved' = 0 /\ offset' = offset + saved
      /\ UNCHANGED <<mem, held, memory, unwritten, json, name, image, process>>
      /\ IF Len(items') = Len(Sources)
         THEN pc' = "describing" /\ UNCHANGED begin
         ELSE pc' = "saving" /\ begin' = Sources[Len(items') + 1].first
  BY DEF Described, Listed
<1>2. /\ name \in Names /\ json[name] = NoFile /\ memory[name] \in Seq(Nat)
      /\ unwritten \in Seq(Nat) /\ Len(unwritten) <= FileBuffer
      /\ items \in Seq(Item) /\ Len(items) \in Nat /\ offset \in Nat
      /\ begin \in r.first .. r.end /\ saved \in Nat /\ saved = begin - r.first
      /\ offset + saved = Len(Sent) /\ Len(items) + 1 \in DOMAIN Sources
      /\ image[name].held =>
           \A k \in 1 .. saved : Sent[offset + k] = image[name].pages[r.first + k - 1]
  BY LenProperties DEF IInv, Saving, Reading
<1>3. r.first \in Nat /\ r.end \in Nat /\ r.first < r.end /\ prot \in Nat
  BY <1>2, SourceFacts DEF IInv, Current
<1>4. item \in Item BY <1>2, <1>3 DEF Item
<1>5. Faithful(item, Sent, image[name]) /\ item.offset + item.size <= Len(Sent)
  <2>1. /\ item.first = r.first /\ item.end = r.end /\ item.prot = prot
        /\ item.size = saved /\ item.offset = offset
    OBVIOUS
  <2>2. prot # 0 => saved = r.end - r.first BY <1>2
  <2>3. Len(Sent) <= Len(Sent) BY <1>2
  <2> HIDE DEF item, r
  <2> QED BY <1>2, <1>3, <1>4, <2>1, <2>2, <2>3 DEF Faithful
<1>6. /\ items' \in Seq(Item) /\ Len(items') = Len(items) + 1
      /\ \A i \in 1 .. Len(items) : items'[i] = items[i]
      /\ items'[Len(items) + 1] = item
  <2> HIDE DEF item
  <2> QED BY <1>1, <1>2, <1>4, AppendProperties
<1> HIDE DEF item
<1>7. Shape' BY <1>1 DEF IInv, Shape
<1>8. Files' BY <1>1, FilesKept DEF Finished
<1>9. Loaded' /\ SnapshotFaithful' BY <1>1, LoadedKept DEF Finished
<1>10. Sent' = Sent /\ Sources' = Sources BY <1>1 DEF Sent, Sources, Map
<1>11. Saving'
  <2>1. \A i \in 1 .. Len(items') :
          Faithful(items'[i], Sent, image[name]) /\ items'[i].offset + items'[i].size <= Len(Sent)
    <3> SUFFICES ASSUME NEW i \in 1 .. Len(items')
                 PROVE  /\ Faithful(items'[i], Sent, image[name])
                        /\ items'[i].offset + items'[i].size <= Len(Sent)
      OBVIOUS
    <3>1. i \in 1 .. Len(items) \/ i = Len(items) + 1 BY <1>2, <1>6
    <3>2. \A j \in 1 .. Len(items) :
            Faithful(items[j], Sent, image[name]) /\ items[j].offset + items[j].size <= Len(Sent)
      BY DEF IInv, Saving
    <3> QED BY <1>5, <1>6, <3>1, <3>2
  <2>2. items' # <<>> /\ offset' \in Nat
    <3>1. Len(items') # 0 BY <1>2, <1>6
    <3>2. items' # <<>> BY <3>1
    <3> QED BY <1>1, <1>2, <3>2
  <2>3. IF process' = Live
        THEN image'[name].held = held' /\ (held' => image'[name].pages = mem')
        ELSE image'[name] = image'[process'.from]
    BY <1>1 DEF IInv, Saving
  <2>4. name' = name /\ memory' = memory /\ unwritten' = unwritten /\ json' = json
        /\ image' = image /\ pc' # "closing"
    BY <1>1
  <2> QED BY <1>2, <1>6, <1>10, <2>1, <2>2, <2>3, <2>4 DEF Saving
<1>12. Reading'
  <2> SUFFICES ASSUME pc' = "saving" PROVE Reading' BY DEF Reading
  <2>1. Len(items') # Len(Sources) /\ begin' = Sources[Len(items') + 1].first BY <1>1
  <2>2. Len(items') + 1 \in DOMAIN Sources
    <3>1. Len(items) + 1 \in 1 .. Len(Sources) /\ Len(Sources) \in Nat
      BY <1>2, SourceFacts DEF IInv
    <3>2. Len(items') + 1 \in 1 .. Len(Sources) BY <1>2, <1>6, <2>1, <3>1
    <3> QED BY <3>2, SourceFacts DEF IInv
  <2>3. Current' = Sources[Len(items') + 1] BY <1>10 DEF Current
  <2>4. Current'.first \in Nat /\ Current'.end \in Nat /\ Current'.first < Current'.end
    BY <2>2, <2>3, SourceFacts DEF IInv
  <2>5. begin' \in Current'.first .. Current'.end /\ saved' \in Nat
        /\ saved' = begin' - Current'.first /\ 1 .. saved' = {}
    BY <1>1, <2>1, <2>3, <2>4
  <2>6. offset' + saved' = Len(Sent') BY <1>1, <1>2, <1>10
  <2> QED BY <1>10, <2>2, <2>5, <2>6 DEF Reading
<1>13. Kept BY <1>1 DEF Kept
<1> QED BY <1>7, <1>8, <1>9, <1>11, <1>12, <1>13 DEF IInv

LEMMA SaveRegionsHold ==
  ASSUME IInv, SaveRegion \/ SaveRegionFails
  PROVE  IInv' /\ Kept
<1>1. CASE SaveRegion
  <2>1. pc = "saving" /\ Described(Current.prot) /\ (Current.prot # 0 => begin = Current.end)
    BY <1>1 DEF SaveRegion
  <2>2. Current.prot = 0 \/ (Current.prot = Current.prot /\ begin = Current.end) BY <2>1
  <2> QED BY <2>1, <2>2, DescribedHolds
<1>2. CASE SaveRegionFails
  <2>1. pc = "saving" /\ Described(0) BY <1>2 DEF SaveRegionFails
  <2> QED BY <2>1, DescribedHolds
<1> QED BY <1>1, <1>2

\* The disk is full: what there is of the file has no description.
LEMMA DiskFullHolds ==
  ASSUME IInv, DiskFull
  PROVE  IInv' /\ Kept
<1>1. /\ pc = "saving" /\ pc' = "idle" /\ held' = FALSE
      /\ UNCHANGED <<mem, json, image, process>>
      /\ \E f : memory' = [memory EXCEPT ![name] = f]
  BY DEF DiskFull, Leaves, OnDisk
<1>2. name \in Names /\ json[name] = NoFile BY <1>1 DEF IInv, Saving
<1>3. \A n \in Names : Finished(n) => n # name BY <1>2 DEF Finished
<1>4. \A n \in Names \ {name} : memory'[n] = memory[n] BY <1>1 DEF IInv, Shape
<1>5. \A n \in Names : Finished(n)' <=> Finished(n) BY <1>1 DEF Finished
<1>6. Shape' BY <1>1 DEF IInv, Shape
<1>7. Files' BY <1>1, <1>3, <1>4, <1>5, FilesKept
<1>8. Loaded' /\ SnapshotFaithful' BY <1>1, <1>3, <1>5, LoadedKept
<1>9. Saving' /\ Reading' BY <1>1 DEF Saving, Reading
<1>10. Kept BY <1>1, <1>3, <1>4 DEF Kept
<1> QED BY <1>6, <1>7, <1>8, <1>9, <1>10 DEF IInv

\* What the .memory file is now is the beginning of what was read.
LEMMA FileIsBegun ==
  ASSUME IInv, pc \in {"describing", "closing"}, NEW i \in 1 .. Len(items)
  PROVE  Faithful(items[i], memory[name], image[name])
<1>1. /\ memory[name] \in Seq(Nat) /\ unwritten \in Seq(Nat)
      /\ Faithful(items[i], Sent, image[name])
  BY DEF IInv, Saving
<1>2. /\ Len(memory[name]) \in Nat /\ Len(Sent) \in Nat /\ Len(memory[name]) <= Len(Sent)
      /\ \A k \in 1 .. Len(memory[name]) : memory[name][k] = Sent[k]
  BY <1>1 DEF Sent
<1> QED BY <1>1, <1>2, FaithfulBegun

\* A description is written whole, cut off or not at all, and always under a name
\* that had none, while a part of the pages may not have reached the disk.
LEMMA DescribeHolds ==
  ASSUME IInv, Describe
  PROVE  IInv' /\ Kept
<1>1. /\ pc = "describing" /\ pc' = "closing"
      /\ UNCHANGED <<mem, held, memory, unwritten, name, items, offset, image, process>>
      /\ json' \in {json, [json EXCEPT ![name] = items], [json EXCEPT ![name] = Truncated]}
  BY DEF Describe
<1>2. /\ name \in Names /\ json[name] = NoFile /\ items \in Seq(Item) /\ items # <<>>
      /\ memory[name] \in Seq(Nat)
  BY <1>1 DEF IInv, Saving
<1>3. /\ DOMAIN json' = Names /\ \A n \in Names \ {name} : json'[n] = json[n]
      /\ json'[name] \in {NoFile, items, Truncated}
  BY <1>1, <1>2 DEF IInv, Shape
<1>4. Shape' BY <1>1, <1>3 DEF IInv, Shape
<1>5. \A n \in Names : Finished(n) => n # name BY <1>2 DEF Finished
<1>6. Files'
  <2> SUFFICES ASSUME NEW n \in Names, Finished(n)'
               PROVE  /\ json'[n] \in Seq(Item) /\ json'[n] # <<>> /\ memory[n] \in Seq(Nat)
                      /\ \A i \in 1 .. Len(json'[n]) : Faithful(json'[n][i], memory[n], image[n])
    BY <1>1 DEF Files
  <2>1. CASE n = name
    <3>1. json'[n] = items BY <1>3, <2>1 DEF Finished
    <3>2. \A i \in 1 .. Len(items) : Faithful(items[i], memory[name], image[name])
      BY <1>1, FileIsBegun
    <3> QED BY <1>2, <2>1, <3>1, <3>2
  <2>2. CASE n # name
    <3>1. json'[n] = json[n] /\ Finished(n) BY <1>3, <2>2 DEF Finished
    <3> QED BY <3>1 DEF IInv, Files
  <2> QED BY <2>1, <2>2
<1>7. \A n \in Names : Finished(n) => Finished(n)' BY <1>3, <1>5 DEF Finished
<1>8. Loaded' /\ SnapshotFaithful' BY <1>1, <1>7, LoadedKept
<1>9. Sent' = Sent BY <1>1 DEF Sent
<1>10. Saving' BY <1>1, <1>3, <1>9 DEF IInv, Saving
<1>11. Reading' BY <1>1 DEF Reading
<1>12. Kept BY <1>1, <1>3, <1>5 DEF Kept
<1> QED BY <1>4, <1>6, <1>8, <1>10, <1>11, <1>12 DEF IInv

\* The tail of the pages reaches the disk, as far as there is room, behind those
\* that did before.
LEMMA CloseMemoryHolds ==
  ASSUME IInv, CloseMemory
  PROVE  IInv' /\ Kept
<1>1. /\ pc = "closing" /\ pc' = "idle" /\ held' = FALSE
      /\ UNCHANGED <<mem, json, image, process>>
  BY DEF CloseMemory, Leaves
<1>2. PICK k \in 0 .. Len(unwritten) :
        memory' = [memory EXCEPT ![name] = @ \o SubSeq(unwritten, 1, k)]
  BY DEF CloseMemory, OnDisk
<1> DEFINE f == memory[name]
           g == f \o SubSeq(unwritten, 1, k)
<1>3. /\ name \in Names /\ json[name] \in {NoFile, Truncated, items}
      /\ f \in Seq(Nat) /\ unwritten \in Seq(Nat) /\ items \in Seq(Item) /\ items # <<>>
      /\ \A i \in 1 .. Len(items) : Faithful(items[i], Sent, image[name])
  BY <1>1 DEF IInv, Saving
<1>4. memory'[name] = g /\ \A n \in Names \ {name} : memory'[n] = memory[n]
  BY <1>2, <1>3 DEF IInv, Shape
<1>5. /\ g \in Seq(Nat) /\ IsPrefix(f, g) /\ Len(g) <= Len(Sent) /\ Len(g) \in Nat
      /\ Len(Sent) \in Nat /\ \A i \in 1 .. Len(g) : g[i] = Sent[i]
  <2>1. /\ g \in Seq(Nat) /\ IsPrefix(f, g) /\ Len(g) <= Len(f \o unwritten)
        /\ \A i \in 1 .. Len(g) : g[i] = (f \o unwritten)[i]
    BY <1>3, DiskTakes
  <2>2. f \o unwritten \in Seq(Nat) BY <1>3, ConcatProperties
  <2> QED BY <2>1, <2>2, LenProperties DEF Sent
<1> HIDE DEF g
<1>6. Shape' BY <1>1, <1>2 DEF IInv, Shape
<1>7. Files'
  <2> SUFFICES ASSUME NEW n \in Names, Finished(n)
               PROVE  /\ json[n] \in Seq(Item) /\ json[n] # <<>> /\ memory'[n] \in Seq(Nat)
                      /\ \A i \in 1 .. Len(json[n]) : Faithful(json[n][i], memory'[n], image[n])
    BY <1>1 DEF Files, Finished
  <2>1. CASE n = name
    <3>1. json[n] = items BY <1>3, <2>1 DEF Finished
    <3>2. \A i \in 1 .. Len(items) : Faithful(items[i], g, image[name])
      BY <1>3, <1>5, FaithfulBegun
    <3> QED BY <1>3, <1>4, <1>5, <2>1, <3>1, <3>2
  <2>2. CASE n # name BY <1>4, <2>2 DEF IInv, Files
  <2> QED BY <2>1, <2>2
<1>8. Loaded' /\ SnapshotFaithful' BY <1>1, LoadedKept DEF Finished
<1>9. Saving' /\ Reading' BY <1>1 DEF Saving, Reading
<1>10. Kept
  <2>1. IsPrefix(memory[name], memory'[name]) BY <1>4, <1>5
  <2> QED BY <1>1, <1>4, <2>1 DEF Kept
<1> QED BY <1>6, <1>7, <1>8, <1>9, <1>10 DEF IInv

\* A crash cuts off at most the description that is being written.
LEMMA CrashHolds ==
  ASSUME IInv, Crash
  PROVE  IInv' /\ Kept
<1>1. /\ pc \in {"saving", "describing", "closing"} /\ pc' = "idle" /\ held' = FALSE
      /\ process' = Live /\ UNCHANGED <<mem, memory, image>>
      /\ json' = json \/ (pc = "describing" /\ json' = [json EXCEPT ![name] = Truncated])
  BY DEF Crash, Leaves
<1>2. /\ DOMAIN json' = Names
      /\ \A n \in Names : json'[n] = json[n] \/ (n = name /\ json[n] = NoFile /\ json'[n] = Truncated)
  <2>1. CASE json' = json BY <2>1 DEF IInv, Shape
  <2>2. CASE pc = "describing" /\ json' = [json EXCEPT ![name] = Truncated]
    <3>1. name \in Names /\ json[name] = NoFile BY <2>2 DEF IInv, Saving
    <3> QED BY <2>2, <3>1 DEF IInv, Shape
  <2> QED BY <1>1, <2>1, <2>2
<1>3. \A n \in Names : (Finished(n)' <=> Finished(n)) /\ (Finished(n) => json'[n] = json[n])
  BY <1>2 DEF Finished
<1>4. Shape' BY <1>1, <1>2 DEF IInv, Shape
<1>5. Files' BY <1>1, <1>3, FilesKept
<1>6. Loaded' /\ SnapshotFaithful' BY <1>1, <1>3, LoadedKept
<1>7. Saving' /\ Reading' BY <1>1 DEF Saving, Reading
<1>8. Kept BY <1>1, <1>3 DEF Kept
<1> QED BY <1>4, <1>5, <1>6, <1>7, <1>8 DEF IInv

\* A region that was loaded, and img the target when it was saved.
WellLoaded(m, img) ==
  /\ m.first \in Nat /\ m.end \in Nat /\ m.prot \in Nat /\ m.first < m.end
  /\ m.prot # 0 /\ m.pages # <<>> =>
       m.pages \in Seq(Nat) /\ Len(m.pages) = m.end - m.first
  /\ img.held /\ m.prot # 0 =>
       \A k \in DOMAIN m.pages : m.pages[k] = img.pages[m.first + k - 1]

\* A region of a description is loaded as it is in the file, if all of it is there.
LEMMA RegionIsLoaded ==
  ASSUME NEW n, NEW r, memory[n] \in Seq(Nat), Faithful(r, memory[n], image[n])
  PROVE  WellLoaded(LoadedRegion(n, r), image[n])
<1> DEFINE f == memory[n]
           m == LoadedRegion(n, r)
           complete == r.size > 0 /\ r.offset + r.size <= Len(f)
<1>1. /\ m.first = r.first /\ m.end = r.end
      /\ m.prot = IF r.size > 0 /\ ~complete THEN 0 ELSE r.prot
      /\ m.pages = IF complete
                   THEN [k \in 1 .. r.end - r.first |->
                           IF k <= r.size THEN f[r.offset + k] ELSE Zero]
                   ELSE <<>>
  BY DEF LoadedRegion
<1> HIDE DEF m
<1>2. /\ r.first \in Nat /\ r.end \in Nat /\ r.prot \in Nat /\ r.size \in Nat /\ r.offset \in Nat
      /\ r.first < r.end
  BY DEF Faithful, Item
<1>3. m.first \in Nat /\ m.end \in Nat /\ m.prot \in Nat /\ m.first < m.end
  <2>1. 0 \in Nat OBVIOUS
  <2> QED BY <1>1, <1>2, <2>1
<1>4. m.prot # 0 /\ ~complete => m.pages = <<>> BY <1>1
<1>5. CASE m.prot # 0 /\ complete
  <2>1. r.prot # 0 BY <1>1, <1>5
  <2>2. /\ r.size = r.end - r.first
        /\ image[n].held => \A k \in 1 .. r.size :
             r.offset + k <= Len(f) => f[r.offset + k] = image[n].pages[r.first + k - 1]
    BY <2>1 DEF Faithful
  <2>3. PICK s \in Nat : s = r.size BY <1>2
  <2>4. PICK o \in Nat : o = r.offset BY <1>2
  <2>5. PICK l \in Nat : l = Len(f) BY LenProperties
  <2>6. o + s <= l BY <1>5, <2>3, <2>4, <2>5
  <2>7. \A k \in 1 .. s : o + k \in 1 .. l /\ o + k <= l /\ k <= s BY <2>6
  <2>8. m.pages = [k \in 1 .. s |-> f[o + k]] BY <1>1, <1>5, <2>2, <2>3, <2>4, <2>7
  <2>9. \A k \in 1 .. s : f[o + k] \in Nat BY <2>5, <2>7, ElementOfSeq
  <2>10. m.pages \in Seq(Nat) /\ Len(m.pages) = s BY <2>8, <2>9, ListOf
  <2>11. ASSUME image[n].held, NEW k \in DOMAIN m.pages
         PROVE  m.pages[k] = image[n].pages[m.first + k - 1]
    <3>1. k \in 1 .. s /\ m.pages[k] = f[o + k] BY <2>8
    <3>2. f[o + k] = image[n].pages[r.first + k - 1]
      BY <2>2, <2>3, <2>4, <2>5, <2>7, <2>11, <3>1
    <3> QED BY <1>1, <3>1, <3>2
  <2>12. s = m.end - m.first BY <1>1, <2>2, <2>3
  <2> QED BY <1>3, <2>10, <2>11, <2>12 DEF m, WellLoaded
<1>6. CASE ~(m.prot # 0 /\ complete)
  <2>1. m.prot # 0 => m.pages = <<>> BY <1>4, <1>6
  <2>2. DOMAIN <<>> = {} OBVIOUS
  <2> QED BY <1>3, <2>1, <2>2 DEF m, WellLoaded
<1> QED BY <1>5, <1>6

LEMMA LoadHolds ==
  ASSUME IInv, Load
  PROVE  IInv' /\ Kept
<1>1. PICK n \in Names :
        /\ json[n] \notin {NoFile, Truncated}
        /\ process' = [from |-> n,
                       regions |-> [i \in DOMAIN json[n] |-> LoadedRegion(n, json[n][i])]]
  BY DEF Load
<1>2. /\ pc = "idle"
      /\ UNCHANGED <<mem, held, memory, unwritten, json, name, items, begin, saved, offset, image, pc>>
  BY DEF Load, saveVars
<1> DEFINE d == json[n]
           regions == [i \in 1 .. Len(d) |-> LoadedRegion(n, d[i])]
<1>3. Finished(n) BY <1>1 DEF Finished
<1>4. /\ d \in Seq(Item) /\ d # <<>> /\ memory[n] \in Seq(Nat)
      /\ \A i \in 1 .. Len(d) : Faithful(d[i], memory[n], image[n])
  BY <1>3 DEF IInv, Files
<1>5. DOMAIN d = 1 .. Len(d) /\ Len(d) \in Nat \ {0}
  <2>1. DOMAIN d = 1 .. Len(d) /\ Len(d) \in Nat BY <1>4, LenProperties
  <2>2. Len(d) # 0 BY <1>4
  <2> QED BY <2>1, <2>2
<1>6. process'.from = n /\ Map' = regions BY <1>1, <1>5 DEF Map
<1>7. Len(regions) = Len(d) /\ DOMAIN regions = 1 .. Len(d)
  <2> DEFINE S == {regions[i] : i \in 1 .. Len(d)}
  <2>1. regions \in [1 .. Len(d) -> S] OBVIOUS
  <2> HIDE DEF S
  <2> QED BY <1>5, <2>1, ListOf
<1>8. \A i \in 1 .. Len(d) : WellLoaded(regions[i], image[n])
  <2>1. \A i \in 1 .. Len(d) : WellLoaded(LoadedRegion(n, d[i]), image[n])
    BY <1>4, RegionIsLoaded
  <2> QED BY <2>1
<1> HIDE DEF d, regions
<1>9. Shape' BY <1>2 DEF IInv, Shape
<1>10. Files' BY <1>2, FilesKept DEF Finished
<1>11. Saving' /\ Reading' BY <1>2 DEF Saving, Reading
<1>12. Finished(n)' BY <1>2, <1>3 DEF Finished
<1>13. Loaded' BY <1>5, <1>6, <1>7, <1>8, <1>12 DEF Loaded, WellLoaded
<1>14. SnapshotFaithful' BY <1>2, <1>6, <1>7, <1>8 DEF SnapshotFaithful, WellLoaded
<1>15. Kept BY <1>2 DEF Kept
<1> QED BY <1>9, <1>10, <1>11, <1>13, <1>14, <1>15 DEF IInv

\* Steps that only read what was loaded, or leave it.
LEMMA AsideHolds ==
  ASSUME IInv, UNCHANGED <<mem, held, saveVars>>, process' \in {process, Live},
         \/ pc' = pc /\ process' = process
         \/ pc' \in {"idle", "copying"}
  PROVE  IInv' /\ Kept
<1>1. UNCHANGED <<mem, held, memory, unwritten, json, name, items, begin, saved, offset, image>>
  BY DEF saveVars
<1>2. Shape' BY <1>1 DEF IInv, Shape
<1>3. Files' BY <1>1, FilesKept DEF Finished
<1>4. Loaded' /\ SnapshotFaithful' BY <1>1, LoadedKept DEF Finished
<1>5. CASE pc' = pc /\ process' = process
  <2>1. Sent' = Sent /\ Sources' = Sources /\ Current' = Current
    BY <1>1, <1>5 DEF Sent, Sources, Current, Map
  <2>2. Saving' BY <1>1, <1>5, <2>1 DEF IInv, Saving
  <2>3. Reading' BY <1>1, <1>5, <2>1 DEF IInv, Reading
  <2> QED BY <2>2, <2>3, <1>1, <1>2, <1>3, <1>4 DEF IInv, Kept
<1>6. CASE pc' \in {"idle", "copying"}
  <2>1. Saving' /\ Reading' BY <1>6 DEF Saving, Reading
  <2> QED BY <2>1, <1>1, <1>2, <1>3, <1>4 DEF IInv, Kept
<1> QED BY <1>5, <1>6

LEMMA NextHolds ==
  ASSUME IInv, [Next]_vars
  PROVE  IInv' /\ Kept
<1>1. CASE TargetRuns BY <1>1, TargetRunsHolds
<1>2. CASE SaveBegins BY <1>2, SaveBeginsHolds
<1>3. CASE SaveStep
  BY <1>3, SaveChunkHolds, SaveRegionsHold, DiskFullHolds, DescribeHolds, CloseMemoryHolds
     DEF SaveStep
<1>4. CASE Crash BY <1>4, CrashHolds
<1>5. CASE Load BY <1>5, LoadHolds
<1>6. CASE Attach \/ ReadBegins \/ ReadStep \/ UNCHANGED vars
  <2>1. /\ UNCHANGED <<mem, held, saveVars>> /\ process' \in {process, Live}
        /\ \/ pc' = pc /\ process' = process
           \/ pc' \in {"idle", "copying"}
    BY <1>6 DEF Attach, ReadBegins, ReadStep, CopyChunk, ReadReturns, vars
  <2> QED BY <2>1, AsideHolds
<1> QED BY <1>1, <1>2, <1>3, <1>4, <1>5, <1>6 DEF Next

LEMMA Invariance == Spec => []IInv
<1>1. IInv /\ [Next]_vars => IInv' BY NextHolds
<1> QED BY <1>1, InitHolds, PTL DEF Spec

-------------------------------------------------------------------------------
(***************************************************************************)
(* A read: what the buffers hold after every turn of the loop.             *)
(***************************************************************************)
\* How much every request asks for, and what the loaded process has for it.
Lengths(remote) == [k \in DOMAIN remote |-> remote[k].len]
Pieces(remote)  == [k \in DOMAIN remote |-> Relocated(remote[k])]


Copying ==
  pc = "copying" =>
    /\ process # Live
    /\ call.remote \in Requests /\ call.lens \in Shapes /\ Relocates(call.remote)
    /\ AtPlace(copy.d, copy.dptr, copy.sz, call.lens)
    /\ AtPlace(copy.s, copy.sptr, copy.sz, Lengths(call.remote))
    /\ Filled(local, copy.sz, Pieces(call.remote), Lengths(call.remote), call.lens)

LEMMA RequestFacts ==
  ASSUME NEW remote \in Requests
  PROVE  /\ Len(remote) \in Nat /\ DOMAIN remote = 1 .. Len(remote)
         /\ Lengths(remote) \in Seq(Nat) /\ Len(Lengths(remote)) = Len(remote)
         /\ \A k \in 1 .. Len(remote) :
              /\ remote[k].addr \in Nat /\ remote[k].len \in Nat
              /\ Lengths(remote)[k] = remote[k].len
              /\ Pieces(remote)[k] = Relocated(remote[k])
<1>1. remote \in Seq([addr : Nat, len : Nat]) BY RequestsAssumption
<1>2. /\ Len(remote) \in Nat /\ DOMAIN remote = 1 .. Len(remote)
      /\ \A k \in 1 .. Len(remote) : remote[k] \in [addr : Nat, len : Nat]
  <2> DEFINE Q == [addr : Nat, len : Nat]
  <2>1. remote \in Seq(Q) BY <1>1
  <2> HIDE DEF Q
  <2>2. /\ Len(remote) \in Nat /\ DOMAIN remote = 1 .. Len(remote)
        /\ \A k \in 1 .. Len(remote) : remote[k] \in Q
    BY <2>1, ElementOfSeq, LenProperties
  <2> QED BY <2>2 DEF Q
<1>3. Lengths(remote) \in [1 .. Len(remote) -> Nat] BY <1>2 DEF Lengths
<1>4. Lengths(remote) \in Seq(Nat) /\ Len(Lengths(remote)) = Len(remote)
  BY <1>2, <1>3, ListOf
<1>5. \A k \in 1 .. Len(remote) :
        /\ Lengths(remote)[k] = remote[k].len
        /\ Pieces(remote)[k] = Relocated(remote[k])
  BY <1>2 DEF Lengths, Pieces
<1> QED BY <1>2, <1>4, <1>5

\* Where a request is relocated depends on the loaded process only.
LEMMA PiecesStay ==
  ASSUME process' = process, call'.remote = call.remote
  PROVE  /\ Pieces(call.remote)' = Pieces(call.remote)
         /\ Relocates(call.remote)' <=> Relocates(call.remote)
<1>1. Map' = Map BY Zenon DEF Map
<1>2. \A q : \A i : Holds(i, q)' <=> Holds(i, q)
  <2> SUFFICES ASSUME NEW q, NEW i PROVE Holds(i, q)' <=> Holds(i, q) OBVIOUS
  <2>1. LowerBound(q.addr)' = LowerBound(q.addr) BY <1>1, Zenon DEF LowerBound
  <2> QED BY <1>1, <2>1 DEF Holds, Covers
<1>3. ASSUME NEW q PROVE Relocated(q)' = Relocated(q)
  <2>1. (CHOOSE i \in DOMAIN Map' : Holds(i, q)') = (CHOOSE i \in DOMAIN Map : Holds(i, q))
    BY <1>1, <1>2
  <2> QED BY <1>1, <2>1, Zenon DEF Relocated
<1>4. Pieces(call.remote)' = Pieces(call.remote) BY <1>3, Zenon DEF Pieces
<1>5. Relocates(call.remote)' <=> Relocates(call.remote) BY <1>1, <1>2 DEF Relocates
<1> QED BY <1>4, <1>5

LEMMA PlaceAtStart ==
  ASSUME NEW x \in Seq(Nat)
  PROVE  AtPlace(1, 0, 0, x)
<1>1. Len(x) \in Nat /\ \A i \in 1 .. Len(x) : x[i] \in Nat BY ElementOfSeq, LenProperties
<1>2. Before(x, 1) = 0 BY BeforeIs
<1> QED BY <1>1, <1>2 DEF AtPlace

LEMMA ReadBeginsCopies ==
  ASSUME ReadBegins
  PROVE  Copying'
<1>1. PICK remote \in Requests, lens \in Shapes :
        /\ Relocates(remote)
        /\ call' = [remote |-> remote, lens |-> lens]
        /\ local' = [d \in DOMAIN lens |-> [k \in 1 .. lens[d] |-> NoByte]]
  BY DEF ReadBegins
<1>2. /\ process' = process /\ process # Live
      /\ copy' = [d |-> 1, s |-> 1, dptr |-> 0, sptr |-> 0, sz |-> 0]
  BY DEF ReadBegins
<1>3. lens \in Seq(Nat) /\ Lengths(remote) \in Seq(Nat) BY RequestsAssumption, RequestFacts
<1>4. AtPlace(1, 0, 0, lens) /\ AtPlace(1, 0, 0, Lengths(remote)) BY <1>3, PlaceAtStart
<1>5. \A pages : Filled(local', 0, pages, Lengths(remote), lens)
  <2>1. /\ DOMAIN lens = 1 .. Len(lens)
        /\ \A d \in 1 .. Len(lens) : d \in 1 .. Len(lens) + 1 /\ lens[d] \in Nat
    BY <1>3, ElementOfSeq, LenProperties
  <2>2. \A d \in 1 .. Len(lens) : Before(lens, d) \in Nat BY <1>3, <2>1, BeforeIs
  <2>3. local' = [d \in 1 .. Len(lens) |-> [p \in 1 .. lens[d] |-> local'[d][p]]]
    BY <1>1, <2>1
  <2>4. \A d \in 1 .. Len(lens) : \A p \in 1 .. lens[d] :
          local'[d][p] = NoByte /\ ~(Before(lens, d) + p <= 0)
    BY <1>1, <2>1, <2>2
  <2> QED BY <2>3, <2>4 DEF Filled
<1>6. Relocates(remote)'
  BY <1>1, <1>2, Zenon DEF Relocates, Holds, Covers, LowerBound, Map
<1> QED BY <1>1, <1>2, <1>4, <1>5, <1>6 DEF Copying

\* One turn of the loop moves both positions by the chunk, and fills it in.
LEMMA CopyChunkCopies ==
  ASSUME Copying, CopyChunk
  PROVE  Copying'
<1> DEFINE d == copy.d
           s == copy.s
           dptr == copy.dptr
           sptr == copy.sptr
           sz == copy.sz
           lens == call.lens
           remote == call.remote
           asked == Lengths(remote)
           pages == Pieces(remote)
           c == Chunk
<1>1. /\ process # Live /\ remote \in Requests /\ lens \in Shapes /\ Relocates(remote)
      /\ AtPlace(d, dptr, sz, lens) /\ AtPlace(s, sptr, sz, asked)
      /\ Filled(local, sz, pages, asked, lens)
  BY DEF Copying, CopyChunk
<1>2. /\ d <= Len(lens) /\ s <= Len(remote)
      /\ local' = [local EXCEPT ![d] =
           [k \in DOMAIN @ |-> IF k \in dptr + 1 .. dptr + c
                               THEN Relocated(remote[s])[sptr + k - dptr] ELSE @[k]]]
      /\ copy' = [d    |-> d + (IF c = DstLeft THEN 1 ELSE 0),
                  s    |-> s + (IF c = SrcLeft THEN 1 ELSE 0),
                  dptr |-> IF c = DstLeft THEN 0 ELSE dptr + c,
                  sptr |-> IF c = SrcLeft THEN 0 ELSE sptr + c,
                  sz   |-> sz + c]
      /\ UNCHANGED <<pc, process, call>>
  BY DEF CopyChunk
<1>3. /\ lens \in Seq(Nat) /\ asked \in Seq(Nat) /\ Len(asked) = Len(remote)
      /\ s \in 1 .. Len(remote) => asked[s] = remote[s].len /\ pages[s] = Relocated(remote[s])
  BY <1>1, RequestsAssumption, RequestFacts
<1>4. /\ d \in 1 .. Len(lens) /\ s \in 1 .. Len(remote) /\ dptr \in Nat /\ sptr \in Nat
      /\ dptr <= lens[d] /\ sptr <= asked[s] /\ lens[d] \in Nat /\ asked[s] \in Nat
  <2>1. Len(lens) \in Nat /\ Len(remote) \in Nat BY <1>1, <1>3, RequestFacts, LenProperties
  <2>2. /\ d \in 1 .. Len(lens) + 1 /\ dptr \in Nat /\ dptr <= lens[d]
        /\ s \in 1 .. Len(asked) + 1 /\ sptr \in Nat /\ sptr <= asked[s]
    BY <1>1, <1>2, <1>3 DEF AtPlace
  <2>3. d \in 1 .. Len(lens) /\ s \in 1 .. Len(asked) BY <1>2, <1>3, <2>1, <2>2
  <2>4. lens[d] \in Nat /\ asked[s] \in Nat BY <1>3, <2>3, ElementOfSeq
  <2> QED BY <1>3, <2>2, <2>3, <2>4
<1>5. DstLeft = lens[d] - dptr /\ SrcLeft = asked[s] - sptr
  BY <1>3, <1>4 DEF DstLeft, SrcLeft
<1>6. c \in Nat /\ c <= lens[d] - dptr /\ c <= asked[s] - sptr
  <2>1. DstLeft \in Nat /\ SrcLeft \in Nat BY <1>4, <1>5
  <2>2. c \in {SrcLeft, DstLeft} /\ c <= SrcLeft /\ c <= DstLeft
    BY <2>1, LeastOfTwo DEF Chunk
  <2> QED BY <1>5, <2>1, <2>2
<1>7. pages[s] = Relocated(remote[s]) BY <1>3, <1>4
<1> HIDE DEF c, asked, pages
<1>8. AtPlace(copy'.d, copy'.dptr, copy'.sz, lens)
  <2>1. AtPlace(d + (IF c = lens[d] - dptr THEN 1 ELSE 0),
                IF c = lens[d] - dptr THEN 0 ELSE dptr + c, sz + c, lens)
    BY <1>1, <1>2, <1>3, <1>6, PlaceMoves
  <2>2. /\ copy'.d = d + (IF c = lens[d] - dptr THEN 1 ELSE 0)
        /\ copy'.dptr = IF c = lens[d] - dptr THEN 0 ELSE dptr + c
        /\ copy'.sz = sz + c
    BY <1>2, <1>5
  <2> QED BY <2>1, <2>2, Zenon
<1>9. AtPlace(copy'.s, copy'.sptr, copy'.sz, asked)
  <2>1. AtPlace(s + (IF c = asked[s] - sptr THEN 1 ELSE 0),
                IF c = asked[s] - sptr THEN 0 ELSE sptr + c, sz + c, asked)
    <3>1. s <= Len(asked) BY <1>2, <1>3
    <3> QED BY <1>1, <1>3, <1>6, <3>1, PlaceMoves
  <2>2. /\ copy'.s = s + (IF c = asked[s] - sptr THEN 1 ELSE 0)
        /\ copy'.sptr = IF c = asked[s] - sptr THEN 0 ELSE sptr + c
        /\ copy'.sz = sz + c
    BY <1>2, <1>5
  <2> QED BY <2>1, <2>2, Zenon
<1>10. Filled(local', copy'.sz, pages, asked, lens)
  <2>1. local' = [local EXCEPT ![d] = Patched(local[d], dptr, pages[s], sptr, c)]
    BY <1>2, <1>7, Zenon DEF Patched
  <2>2. /\ AtPlace(d, dptr, sz, lens) /\ d <= Len(lens)
        /\ AtPlace(s, sptr, sz, asked) /\ s <= Len(asked)
        /\ Filled(local, sz, pages, asked, lens) /\ copy'.sz = sz + c
    BY <1>1, <1>2, <1>3
  <2> HIDE DEF d, s, dptr, sptr, sz, lens, remote
  <2>3. Filled([local EXCEPT ![d] = Patched(local[d], dptr, pages[s], sptr, c)],
               sz + c, pages, asked, lens)
    BY <1>3, <1>6, <2>2, ChunkFills
  <2> QED BY <2>1, <2>2, <2>3, Zenon
<1>11. Pieces(call.remote)' = pages /\ Relocates(call.remote)'
  BY <1>1, <1>2, PiecesStay DEF pages
<1>12. /\ Lengths(call.remote)' = asked /\ call' = call /\ process' # Live
  BY <1>1, <1>2 DEF asked, Lengths
<1> QED BY <1>1, <1>8, <1>9, <1>10, <1>11, <1>12 DEF Copying

\* A step that leaves the call and the loaded process alone.
LEMMA CopyingStays ==
  ASSUME Copying, UNCHANGED <<process, readVars>>, pc' = "copying" => pc = "copying"
  PROVE  Copying'
<1>1. process' = process /\ call' = call /\ copy' = copy /\ local' = local BY DEF readVars
<1>2. /\ Pieces(call.remote)' = Pieces(call.remote)
      /\ Relocates(call.remote)' <=> Relocates(call.remote)
  BY <1>1, PiecesStay
<1>3. Lengths(call.remote)' = Lengths(call.remote) BY <1>1 DEF Lengths
<1> QED BY <1>1, <1>2, <1>3 DEF Copying

LEMMA CopyingHolds ==
  ASSUME IInv, Copying, [Next]_vars
  PROVE  Copying'
<1>1. CASE ReadBegins BY <1>1, ReadBeginsCopies
<1>2. CASE CopyChunk BY <1>2, CopyChunkCopies
<1>3. CASE TargetRuns \/ UNCHANGED vars
  <2>1. UNCHANGED <<process, readVars>> /\ pc' = pc BY <1>3 DEF TargetRuns, vars, readVars
  <2> QED BY <2>1, CopyingStays
<1>4. CASE SaveBegins \/ SaveStep \/ Crash \/ Load \/ Attach \/ ReadReturns
  <2>1. pc' # "copying"
    BY <1>4 DEF SaveBegins, SaveStep, SaveChunk, SaveRegion, SaveRegionFails, Described,
                Listed, DiskFull, Describe, CloseMemory, Crash, Leaves, Load, Attach,
                ReadReturns
  <2> QED BY <2>1 DEF Copying
<1> QED BY <1>1, <1>2, <1>3, <1>4 DEF Next, ReadStep

\* A position is never behind the end, and at the end when the buffers are used up.
LEMMA PlaceAtEnd ==
  ASSUME NEW x \in Seq(Nat), NEW d, NEW ptr, NEW sz, AtPlace(d, ptr, sz, x)
  PROVE  /\ sz \in Nat /\ Before(x, Len(x) + 1) \in Nat
         /\ sz <= Before(x, Len(x) + 1)
         /\ d > Len(x) => sz = Before(x, Len(x) + 1)
<1>1. Len(x) \in Nat /\ d \in 1 .. Len(x) + 1 /\ Len(x) + 1 \in 1 .. Len(x) + 1
  BY LenProperties DEF AtPlace
<1>2. PICK a \in Nat : a = Before(x, d) BY <1>1, BeforeIs
<1>3. PICK e \in Nat : e = Before(x, Len(x) + 1) BY <1>1, BeforeIs
<1>4. ptr \in Nat /\ sz = a + ptr BY <1>2 DEF AtPlace
<1>5. CASE d > Len(x)
  <2>1. d = Len(x) + 1 /\ ptr = 0 BY <1>1, <1>5 DEF AtPlace
  <2> QED BY <1>2, <1>3, <1>4, <2>1
<1>6. CASE ~(d > Len(x))
  <2>1. d \in 1 .. Len(x) /\ d + 1 \in 1 .. Len(x) + 1 /\ d + 1 <= Len(x) + 1 BY <1>1, <1>6
  <2>2. PICK b \in Nat : b = x[d] BY <2>1, ElementOfSeq
  <2>3. Before(x, d + 1) = a + b BY <1>2, <2>1, <2>2, BeforeIs
  <2>4. a + b <= e BY <1>1, <1>3, <2>1, <2>3, BeforeIs
  <2>5. ptr <= b BY <2>1, <2>2 DEF AtPlace
  <2>6. a + ptr <= e BY <1>4, <2>4, <2>5
  <2> QED BY <1>3, <1>4, <1>6, <2>6
<1> QED BY <1>5, <1>6

\* Where page r of a request is.
Address(q, r) == q.addr + r - 1

\* A request that is relocated gets the pages of one region, at its addresses.
LEMMA PieceIs ==
  ASSUME Loaded, process # Live, NEW remote \in Requests, Relocates(remote),
         NEW k \in 1 .. Len(remote), NEW r \in 1 .. remote[k].len
  PROVE  \E i \in DOMAIN Map :
           LET u == Address(remote[k], r)
           IN  /\ Map[i].first <= u /\ u < Map[i].end
               /\ Pieces(remote)[k][r] = Map[i].pages[u - Map[i].first + 1]
<1>1. /\ remote[k].addr \in Nat /\ remote[k].len \in Nat /\ k \in DOMAIN remote
      /\ Pieces(remote)[k] = Relocated(remote[k])
  BY RequestFacts
<1> DEFINE q == remote[k]
           i == CHOOSE j \in DOMAIN Map : Holds(j, q)
<1>2. i \in DOMAIN Map /\ Holds(i, q)
  <2>1. \E j \in DOMAIN Map : Holds(j, q) BY <1>1 DEF Relocates
  <2> QED BY <2>1
<1>3. Relocated(q) = SubSeq(Map[i].pages, q.addr - Map[i].first + 1, q.addr - Map[i].first + q.len)
  BY DEF Relocated
<1> HIDE DEF i
<1>4. PICK a \in Nat : a = q.addr BY <1>1
<1>5. PICK n \in Nat : n = q.len BY <1>1
<1>6. PICK f \in Nat : f = Map[i].first BY <1>2 DEF Loaded
<1>7. PICK e \in Nat : e = Map[i].end BY <1>2 DEF Loaded
<1>8. f <= a /\ a + n <= e BY <1>2, <1>4, <1>5, <1>6, <1>7 DEF Holds, Covers
<1>9. r \in Nat /\ 1 <= r /\ r <= n BY <1>5
<1>10. SubSeq(Map[i].pages, a - f + 1, a - f + n)[r] = Map[i].pages[a + r - 1 - f + 1]
  <2>1. PICK lo \in Int : lo = a - f + 1 OBVIOUS
  <2>2. PICK hi \in Int : hi = a - f + n OBVIOUS
  <2> DEFINE g == Map[i].pages
             S == {g[j] : j \in lo .. hi}
  <2>3. \A j \in lo .. hi : g[j] \in S OBVIOUS
  <2> HIDE DEF g, S
  <2>4. \A j \in 1 .. hi - lo + 1 : SubSeq(g, lo, hi)[j] = g[lo + j - 1]
    BY ONLY lo \in Int, hi \in Int, <2>3, SubSeqProperties
  <2>5. r \in 1 .. hi - lo + 1 /\ lo + r - 1 = a + r - 1 - f + 1 BY <1>9, <2>1, <2>2
  <2>6. SubSeq(g, lo, hi)[r] = g[lo + r - 1] BY <2>4, <2>5
  <2> QED BY <2>1, <2>2, <2>5, <2>6 DEF g
<1>11. PICK u \in Int : u = a + r - 1 BY <1>9
<1>12. f <= u /\ u < e BY <1>8, <1>9, <1>11
<1>13. Pieces(remote)[k][r] = Map[i].pages[u - f + 1]
  <2>1. Relocated(q) = SubSeq(Map[i].pages, a - f + 1, a - f + n)
    BY <1>3, <1>4, <1>5, <1>6, Zenon
  <2>2. Pieces(remote)[k] = SubSeq(Map[i].pages, a - f + 1, a - f + n)
    BY <1>1, <2>1, Zenon
  <2>3. Pieces(remote)[k][r] = Map[i].pages[a + r - 1 - f + 1] BY <1>10, <2>2, Zenon
  <2>4. a + r - 1 - f + 1 = u - f + 1 BY <1>9, <1>11
  <2> QED BY <2>3, <2>4, Zenon
<1>14. u = Address(q, r) BY <1>4, <1>11 DEF Address
<1> QED BY <1>2, <1>6, <1>7, <1>12, <1>13, <1>14

LEMMA DeliveredAtEnd ==
  ASSUME Loaded, Copying
  PROVE  ReadDelivers
<1> SUFFICES ASSUME CopyDone PROVE ReadDelivers BY DEF ReadDelivers
<1> DEFINE sz == copy.sz
           lens == call.lens
           remote == call.remote
           asked == Lengths(remote)
           wanted == [k \in DOMAIN remote |->
                        [j \in 1 .. remote[k].len |-> remote[k].addr + j - 1]]
<1>1. /\ process # Live /\ remote \in Requests /\ lens \in Shapes /\ Relocates(remote)
      /\ AtPlace(copy.d, copy.dptr, sz, lens) /\ AtPlace(copy.s, copy.sptr, sz, asked)
      /\ Filled(local, sz, Pieces(remote), asked, lens)
  BY DEF Copying, CopyDone
<1>2. /\ lens \in Seq(Nat) /\ asked \in Seq(Nat) /\ Len(asked) = Len(remote)
      /\ Len(remote) \in Nat /\ DOMAIN remote = 1 .. Len(remote)
      /\ \A k \in 1 .. Len(remote) :
           remote[k].addr \in Nat /\ remote[k].len \in Nat /\ asked[k] = remote[k].len
  BY <1>1, RequestsAssumption, RequestFacts
<1>3. Len(lens) \in Nat /\ \A d \in 1 .. Len(lens) : lens[d] \in Nat
  BY <1>2, ElementOfSeq, LenProperties
<1>4. copy.d > Len(lens) \/ copy.s > Len(asked) BY <1>2 DEF CopyDone
<1>5. Asked = FlattenSeq(wanted) BY DEF Asked
<1>6. /\ Len(Asked) = Before(asked, Len(asked) + 1)
      /\ \A k \in 1 .. Len(asked) : \A r \in 1 .. asked[k] :
           Asked[Before(asked, k) + r] = remote[k].addr + r - 1
  <2>1. \A k \in 1 .. Len(remote) :
          wanted[k] \in [1 .. asked[k] -> Nat] /\ asked[k] \in Nat
    <3> SUFFICES ASSUME NEW k \in 1 .. Len(remote) PROVE wanted[k] \in [1 .. asked[k] -> Nat]
      BY <1>2
    <3>1. wanted[k] = [j \in 1 .. remote[k].len |-> remote[k].addr + j - 1] BY <1>2
    <3>2. \A j \in 1 .. remote[k].len : remote[k].addr + j - 1 \in Nat
      <4>1. PICK a \in Nat : a = remote[k].addr BY <1>2
      <4>2. PICK b \in Nat : b = remote[k].len BY <1>2
      <4>3. \A j \in 1 .. b : a + j - 1 \in Nat OBVIOUS
      <4> QED BY <4>1, <4>2, <4>3
    <3> HIDE DEF wanted
    <3> QED BY <1>2, <3>1, <3>2
  <2>2. \A k \in 1 .. Len(remote) : \A r \in 1 .. asked[k] :
          wanted[k][r] = remote[k].addr + r - 1
    BY <1>2
  <2>3. wanted = [k \in 1 .. Len(remote) |-> wanted[k]] BY <1>2
  <2> HIDE DEF wanted
  <2>4. \A k \in 1 .. Len(remote) : wanted[k] \in Seq(Nat) /\ Len(wanted[k]) = asked[k]
    BY <2>1, ListOf
  <2>5. wanted \in Seq(Seq(Nat)) /\ Len(wanted) = Len(remote)
    <3> DEFINE T == Seq(Nat)
    <3>1. wanted \in [1 .. Len(remote) -> T] BY <2>3, <2>4
    <3> HIDE DEF T
    <3>2. wanted \in Seq(T) /\ Len(wanted) = Len(remote) BY <1>2, <3>1, ListOf
    <3> QED BY <3>2 DEF T
  <2>6. /\ Len(FlattenSeq(wanted)) = Before(asked, Len(asked) + 1)
        /\ \A k \in 1 .. Len(asked) : \A r \in 1 .. asked[k] :
             FlattenSeq(wanted)[Before(asked, k) + r] = wanted[k][r]
    <3>1. Len(asked) = Len(wanted) /\ \A k \in 1 .. Len(asked) : Len(wanted[k]) = asked[k]
      BY <1>2, <2>4, <2>5
    <3> HIDE DEF asked, remote
    <3> DEFINE N == Nat
    <3>2. wanted \in Seq(Seq(N)) BY <2>5
    <3> HIDE DEF N
    <3> QED BY <1>2, <3>1, <3>2, FlatAt, ZenonT(40)
  <2> QED BY <1>2, <1>5, <2>2, <2>6
<1> HIDE DEF wanted
<1>7. /\ DOMAIN Delivered = 1 .. Len(Delivered)
      /\ Len(Delivered) = Before(lens, Len(lens) + 1)
      /\ \A d \in 1 .. Len(lens) : \A p \in 1 .. lens[d] :
           Delivered[Before(lens, d) + p] = local[d][p]
      /\ \A k \in 1 .. Before(lens, Len(lens) + 1) :
           \E d \in 1 .. Len(lens) : \E p \in 1 .. lens[d] : k = Before(lens, d) + p
  <2> DEFINE S == UNION {{local[d][p] : p \in 1 .. lens[d]} : d \in 1 .. Len(lens)}
             all == [d \in 1 .. Len(lens) |-> [p \in 1 .. lens[d] |-> local[d][p]]]
  <2>1. \A d \in 1 .. Len(lens) : all[d] \in [1 .. lens[d] -> S] OBVIOUS
  <2>2. local = all BY <1>1 DEF Filled
  <2>3. all = [d \in 1 .. Len(lens) |-> all[d]] OBVIOUS
  <2> HIDE DEF S, all
  <2>4. \A d \in 1 .. Len(lens) : local[d] \in Seq(S) /\ Len(local[d]) = lens[d]
    BY <1>3, <2>1, <2>2, ListOf
  <2>5. local \in Seq(Seq(S)) /\ Len(local) = Len(lens)
    <3> DEFINE T == Seq(S)
    <3>1. local \in [1 .. Len(lens) -> T] BY <2>2, <2>3, <2>4
    <3> HIDE DEF T
    <3>2. local \in Seq(T) /\ Len(local) = Len(lens) BY <1>3, <3>1, ListOf
    <3> QED BY <3>2 DEF T
  <2>6. /\ Delivered \in Seq(S)
        /\ Len(Delivered) = Before(lens, Len(lens) + 1)
        /\ \A d \in 1 .. Len(lens) : \A p \in 1 .. lens[d] :
             Delivered[Before(lens, d) + p] = local[d][p]
        /\ \A k \in 1 .. Before(lens, Len(lens) + 1) :
             \E d \in 1 .. Len(lens) : \E p \in 1 .. lens[d] : k = Before(lens, d) + p
    BY <1>2, <2>4, <2>5, FlatAt DEF Delivered
  <2>7. DOMAIN Delivered = 1 .. Len(Delivered) BY <2>6, LenProperties
  <2> QED BY <2>6, <2>7
<1>8. sz = Min({Len(Asked), Len(Delivered)})
  <2>1. /\ sz \in Nat /\ Before(lens, Len(lens) + 1) \in Nat
        /\ sz <= Before(lens, Len(lens) + 1)
        /\ copy.d > Len(lens) => sz = Before(lens, Len(lens) + 1)
    BY <1>1, <1>2, PlaceAtEnd
  <2>2. /\ Before(asked, Len(asked) + 1) \in Nat
        /\ sz <= Before(asked, Len(asked) + 1)
        /\ copy.s > Len(asked) => sz = Before(asked, Len(asked) + 1)
    BY <1>1, <1>2, PlaceAtEnd
  <2>3. PICK a \in Nat : a = Len(Asked) BY <1>6, <2>2
  <2>4. PICK b \in Nat : b = Len(Delivered) BY <1>7, <2>1
  <2>5. sz <= a /\ sz <= b /\ (sz = a \/ sz = b) BY <1>4, <1>6, <1>7, <2>1, <2>2, <2>3, <2>4
  <2>6. Min({a, b}) \in {a, b} /\ Min({a, b}) <= a /\ Min({a, b}) <= b BY LeastOfTwo
  <2>7. sz = Min({a, b}) BY <2>1, <2>5, <2>6
  <2> QED BY <2>3, <2>4, <2>7
<1>9. ASSUME NEW k \in DOMAIN Delivered
      PROVE  IF k <= sz
             THEN \E i \in DOMAIN Map :
                    /\ Map[i].first <= Asked[k] /\ Asked[k] < Map[i].end
                    /\ Delivered[k] = Map[i].pages[Asked[k] - Map[i].first + 1]
             ELSE Delivered[k] = NoByte
  <2>1. PICK d \in 1 .. Len(lens) : \E p \in 1 .. lens[d] : k = Before(lens, d) + p
    BY <1>7
  <2>2. PICK p \in 1 .. lens[d] : k = Before(lens, d) + p BY <2>1
  <2>3. Delivered[k] = local[d][p] BY <1>7, <2>2
  <2>4. CASE k <= sz
    <3>1. PICK s \in 1 .. Len(asked) : \E r \in 1 .. asked[s] :
            Before(asked, s) + r = k /\ local[d][p] = Pieces(remote)[s][r]
      BY <1>1, <2>2, <2>4 DEF Filled
    <3>2. PICK r \in 1 .. asked[s] :
            Before(asked, s) + r = k /\ local[d][p] = Pieces(remote)[s][r]
      BY <3>1
    <3>3. Asked[k] = Address(remote[s], r) BY <1>6, <3>2 DEF Address
    <3>4. s \in 1 .. Len(remote) /\ r \in 1 .. remote[s].len BY <1>2, <3>2
    <3>5. \E i \in DOMAIN Map :
            /\ Map[i].first <= Asked[k] /\ Asked[k] < Map[i].end
            /\ Pieces(remote)[s][r] = Map[i].pages[Asked[k] - Map[i].first + 1]
      <4>1. \E i \in DOMAIN Map :
              LET u == Address(remote[s], r)
              IN  /\ Map[i].first <= u /\ u < Map[i].end
                  /\ Pieces(remote)[s][r] = Map[i].pages[u - Map[i].first + 1]
        BY <1>1, <3>4, PieceIs
      <4> QED BY <3>3, <4>1, Zenon
    <3>6. Delivered[k] = Pieces(remote)[s][r] BY <2>3, <3>2, Zenon
    <3> QED BY <2>4, <3>5, <3>6
  <2>5. CASE ~(k <= sz) BY <1>1, <2>2, <2>3, <2>5 DEF Filled
  <2> QED BY <2>4, <2>5
<1> QED BY <1>8, <1>9 DEF ReadDelivers

LEMMA ReadInvariance == Spec => [](IInv /\ Copying)
<1>1. Init => Copying BY DEF Init, Copying
<1>2. IInv /\ Copying /\ [Next]_vars => Copying' BY CopyingHolds
<1> QED BY <1>1, <1>2, Invariance, PTL DEF Spec

-------------------------------------------------------------------------------
\* The files, the region that is being read and the process that was loaded keep
\* their types, for any memory map and any size of the buffer.
THEOREM TypeCorrect == Spec => []TypeOK
<1>1. IInv => TypeOK
  BY SnapshotAssumption DEF IInv, Shape, Saving, Reading, Loaded, Finished, TypeOK
<1> QED BY <1>1, Invariance, PTL

(***************************************************************************)
(* What can be read from a loaded snapshot is what the target held when it *)
(* was saved, provided it was stopped, whichever reads were refused or cut *)
(* short, and whatever was saved, cut off or overwritten since.            *)
(***************************************************************************)
THEOREM LoadedIsFaithful == Spec => []SnapshotFaithful
<1>1. IInv => SnapshotFaithful BY DEF IInv
<1> QED BY <1>1, Invariance, PTL

(***************************************************************************)
(* A read of a loaded snapshot returns the pages asked for, in their       *)
(* order, as many as fit into both lists, however the requests and the     *)
(* buffers are cut, and writes nothing behind them.                        *)
(***************************************************************************)
THEOREM ReadIsFaithful == Spec => []ReadDelivers
<1>1. IInv /\ Copying => ReadDelivers BY DeliveredAtEnd DEF IInv
<1> QED BY <1>1, ReadInvariance, PTL

(***************************************************************************)
(* No save, crash or full disk changes a snapshot whose description is     *)
(* complete: a new one takes a name that has none.  Only the save that     *)
(* wrote the description adds to its .memory file, and only at its end,    *)
(* when it closes the file last.                                           *)
(***************************************************************************)
THEOREM FinishedStays == Spec => FinishedKept
<1> DEFINE Step == \A n \in Names :
      json[n] \notin {NoFile, Truncated} =>
        /\ json'[n] = json[n]
        /\ \/ memory'[n] = memory[n]
           \/ pc = "closing" /\ n = name /\ IsPrefix(memory[n], memory'[n])
<1>1. IInv /\ [Next]_vars => [Step]_vars BY NextHolds DEF Finished, Kept
<1> QED BY <1>1, Invariance, PTL DEF Spec, FinishedKept
===============================================================================
