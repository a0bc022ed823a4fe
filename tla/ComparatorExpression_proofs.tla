------------------------ MODULE ComparatorExpression_proofs ------------------------
(***************************************************************************)
(* The code of an expression computes what its text means, reads nothing   *)
(* that it did not write and traps only where the text has no value, and a *)
(* comparator without code agrees with it, for words and numbers of any    *)
(* width, any texts, any inputs and either sign.                           *)
(***************************************************************************)
EXTENDS ComparatorExpression, SequenceTheorems, WellFoundedInduction, TLAPS

(***************************************************************************)
(* Induction and recursion on places.                                      *)
(***************************************************************************)
LEMMA EveryPlace ==
  ASSUME NEW n \in Nat, NEW G, 0 \in G, \A i \in 1 .. n : i - 1 \in G => i \in G
  PROVE  \A i \in 0 .. n : i \in G
<1> DEFINE Bad == {i \in 0 .. n : i \notin G}
<1> SUFFICES ASSUME Bad # {} PROVE FALSE OBVIOUS
<1>1. PICK i \in Bad : \A j \in Bad : <<j, i>> \notin OpToRel(<, Nat)
  <2>1. Bad \subseteq Nat OBVIOUS
  <2> HIDE DEF Bad
  <2> QED BY <2>1, NatLessThanWellFounded, WFMin
<1>2. i \in 1 .. n /\ i \notin G
  <2>1. i \in 0 .. n /\ i \notin G BY <1>1
  <2>2. i # 0 BY <2>1
  <2> QED BY <2>1, <2>2
<1>3. i - 1 \in 0 .. n /\ i - 1 < i BY <1>2
<1>4. <<i - 1, i>> \in OpToRel(<, Nat)
  <2>1. <<i - 1, i>> \in Nat \X Nat BY <1>2
  <2>2. <<i - 1, i>>[1] < <<i - 1, i>>[2] BY <1>3
  <2>3. <<i - 1, i>> \in {ss \in Nat \X Nat : ss[1] < ss[2]} BY <2>1, <2>2
  <2> QED BY <2>3 DEF OpToRel
<1>5. i - 1 \in G BY <1>1, <1>3, <1>4
<1> QED BY <1>2, <1>5

\* g is defined at every place up to n from its value at the place before.
Recursive(g, S, base, n, step) ==
  g \in [0 .. n -> S] /\ g[0] = base /\ \A i \in 1 .. n : g[i] = step[i][g[i - 1]]

\* What a step makes of the value before it exists at every place.
LEMMA RecursionExists ==
  ASSUME NEW S, NEW base \in S, NEW n \in Nat, NEW step,
         \A i \in 1 .. n : \A x \in S : step[i][x] \in S
  PROVE  \E g : Recursive(g, S, base, n, step)
<1> DEFINE G == {m \in 0 .. n : \E g : Recursive(g, S, base, m, step)}
<1>1. 0 \in G
  <2>1. Recursive([i \in 0 .. 0 |-> base], S, base, 0, step) BY DEF Recursive
  <2> QED BY <2>1
<1>2. ASSUME NEW m \in 1 .. n, m - 1 \in G PROVE m \in G
  <2>1. PICK f : Recursive(f, S, base, m - 1, step) BY <1>2
  <2>2. /\ f \in [0 .. m - 1 -> S] /\ f[0] = base
        /\ \A i \in 1 .. m - 1 : f[i] = step[i][f[i - 1]]
    BY <2>1 DEF Recursive
  <2>3. m - 1 \in 0 .. m - 1 /\ m \notin 0 .. m - 1 OBVIOUS
  <2>4. step[m][f[m - 1]] \in S BY <2>2, <2>3
  <2> DEFINE g == [i \in 0 .. m |-> IF i = m THEN step[m][f[m - 1]] ELSE f[i]]
  <2>5. \A i \in 0 .. m : i = m \/ i \in 0 .. m - 1 OBVIOUS
  <2>6. g \in [0 .. m -> S] BY <2>2, <2>4, <2>5
  <2>7. \A i \in 0 .. m - 1 : g[i] = f[i] BY <2>3
  <2>8. g[m] = step[m][f[m - 1]] OBVIOUS
  <2> HIDE DEF g
  <2>9. g[0] = base BY <2>2, <2>7
  <2>10. ASSUME NEW i \in 1 .. m PROVE g[i] = step[i][g[i - 1]]
    <3>1. i - 1 \in 0 .. m - 1 /\ g[i - 1] = f[i - 1] BY <2>7
    <3>2. CASE i = m BY <2>8, <3>1, <3>2
    <3>3. CASE i # m
      <4>1. i \in 1 .. m - 1 /\ i \in 0 .. m - 1 BY <3>3
      <4> QED BY <2>2, <2>7, <3>1, <4>1
    <3> QED BY <3>2, <3>3
  <2>11. Recursive(g, S, base, m, step) BY <2>6, <2>9, <2>10 DEF Recursive
  <2> QED BY <2>11
<1> HIDE DEF G
<1>3. n \in G
  <2>1. \A m \in 0 .. n : m \in G BY <1>1, <1>2, EveryPlace, Zenon
  <2> QED BY <2>1
<1> QED BY <1>3 DEF G

\* f is defined at every place up to n from its values at the places before.
Below(f, i) == [j \in 1 .. i - 1 |-> f[j]]
FromBelow(f, V, n, step) ==
  f \in [1 .. n -> V] /\ \A i \in 1 .. n : f[i] = step[i][Below(f, i)]

\* So does what a step makes of all the values before it.
LEMMA FromBelowExists ==
  ASSUME NEW V, NEW n \in Nat, NEW step,
         \A i \in 1 .. n : \A g \in [1 .. i - 1 -> V] : step[i][g] \in V
  PROVE  \E f : FromBelow(f, V, n, step)
<1> DEFINE G == {m \in 0 .. n : \E f : FromBelow(f, V, m, step)}
<1>1. 0 \in G
  <2>1. FromBelow([i \in 1 .. 0 |-> 0], V, 0, step) BY DEF FromBelow
  <2> QED BY <2>1
<1>2. ASSUME NEW m \in 1 .. n, m - 1 \in G PROVE m \in G
  <2>1. PICK f : FromBelow(f, V, m - 1, step) BY <1>2
  <2>2. f \in [1 .. m - 1 -> V] /\ \A i \in 1 .. m - 1 : f[i] = step[i][Below(f, i)]
    BY <2>1 DEF FromBelow
  <2>3. step[m][f] \in V BY <2>2
  <2> DEFINE g == [i \in 1 .. m |-> IF i = m THEN step[m][f] ELSE f[i]]
  <2>4. \A i \in 1 .. m : i = m \/ i \in 1 .. m - 1 OBVIOUS
  <2>5. g \in [1 .. m -> V] BY <2>2, <2>3, <2>4
  <2>6. \A i \in 1 .. m - 1 : g[i] = f[i] OBVIOUS
  <2>7. g[m] = step[m][f] OBVIOUS
  <2> HIDE DEF g
  <2>8. ASSUME NEW i \in 1 .. m PROVE g[i] = step[i][Below(g, i)]
    <3>1. Below(g, i) = Below(f, i)
      <4>1. \A j \in 1 .. i - 1 : j \in 1 .. m - 1 OBVIOUS
      <4> QED BY <2>6, <4>1 DEF Below
    <3>2. CASE i = m
      <4>1. f = [j \in 1 .. m - 1 |-> f[j]] BY <2>2
      <4>2. f = Below(f, m) BY <4>1 DEF Below
      <4> QED BY <2>7, <3>1, <3>2, <4>2
    <3>3. CASE i # m
      <4>1. i \in 1 .. m - 1 BY <3>3
      <4> QED BY <2>2, <2>6, <3>1, <4>1
    <3> QED BY <3>2, <3>3
  <2>9. FromBelow(g, V, m, step) BY <2>5, <2>8 DEF FromBelow
  <2> QED BY <2>9
<1> HIDE DEF G
<1>3. n \in G
  <2>1. \A m \in 0 .. n : m \in G BY <1>1, <1>2, EveryPlace, Zenon
  <2> QED BY <2>1
<1> QED BY <1>3 DEF G

-------------------------------------------------------------------------------
(***************************************************************************)
(* Powers of two, words and their bits.                                    *)
(***************************************************************************)
USE WordAssumption

\* The powers of two that a word needs.
LEMMA PowIs ==
  /\ Pow2 \in [0 .. WordBits -> Nat \ {0}] /\ Pow2[0] = 1
  /\ \A n \in 1 .. WordBits : n - 1 \in 0 .. WordBits /\ Pow2[n] = 2 * Pow2[n - 1]
<1> DEFINE step == [n \in 1 .. WordBits |-> [p \in Nat \ {0} |-> 2 * p]]
<1>1. \A n \in 1 .. WordBits : \A p \in Nat \ {0} : step[n][p] = 2 * p /\ step[n][p] \in Nat \ {0}
  OBVIOUS
<1> HIDE DEF step
<1>2. PICK g : Recursive(g, Nat \ {0}, 1, WordBits, step)
  <2>1. 1 \in Nat \ {0} /\ WordBits \in Nat /\ \A n \in 1 .. WordBits : \A p \in Nat \ {0} : step[n][p] \in Nat \ {0}
    BY <1>1
  <2> QED BY <2>1, RecursionExists, Zenon
<1>3. /\ g \in [0 .. WordBits -> Nat \ {0}] /\ g[0] = 1
      /\ \A n \in 1 .. WordBits : g[n] = step[n][g[n - 1]]
  BY <1>2 DEF Recursive
<1>4. \A n \in 1 .. WordBits : n - 1 \in 0 .. WordBits /\ g[n] = 2 * g[n - 1]
  <2> SUFFICES ASSUME NEW n \in 1 .. WordBits
               PROVE  n - 1 \in 0 .. WordBits /\ g[n] = 2 * g[n - 1]
    OBVIOUS
  <2>1. n - 1 \in 0 .. WordBits OBVIOUS
  <2>2. g[n - 1] \in Nat \ {0} BY <1>3, <2>1
  <2> QED BY <1>1, <1>3, <2>1, <2>2
<1> DEFINE Equation(f) == [n \in 0 .. WordBits |-> IF n = 0 THEN 1 ELSE 2 * f[n - 1]]
<1>5. g = Equation(g)
  <2>1. \A n \in 0 .. WordBits : n = 0 \/ n \in 1 .. WordBits OBVIOUS
  <2>2. \A n \in 0 .. WordBits : g[n] = IF n = 0 THEN 1 ELSE 2 * g[n - 1]
    BY <1>3, <1>4, <2>1
  <2> QED BY <1>3, <2>2
<1>6. Pow2 = CHOOSE f : f = Equation(f) BY DEF Pow2
<1> HIDE DEF Equation
<1>7. Pow2 = Equation(Pow2) BY <1>5, <1>6
<1>8. DOMAIN Pow2 = 0 .. WordBits /\ \A n \in 0 .. WordBits : Pow2[n] = IF n = 0 THEN 1 ELSE 2 * Pow2[n - 1]
  BY <1>7 DEF Equation
<1>12. Pow2[0] = 1
  <2>1. 0 \in 0 .. WordBits OBVIOUS
  <2> QED BY <1>8, <2>1
<1>13. \A n \in 1 .. WordBits : Pow2[n] = 2 * Pow2[n - 1]
  <2>1. \A n \in 1 .. WordBits : n \in 0 .. WordBits /\ n # 0 OBVIOUS
  <2> QED BY <1>8, <2>1
<1>9. \A n \in 0 .. WordBits : Pow2[n] = g[n]
  <2> DEFINE G == {n \in 0 .. WordBits : Pow2[n] = g[n]}
  <2>1. 0 \in G BY <1>3, <1>12
  <2>2. ASSUME NEW n \in 1 .. WordBits, n - 1 \in G PROVE n \in G BY <1>4, <1>13, <2>2
  <2> HIDE DEF G
  <2>3. WordBits \in Nat OBVIOUS
  <2>4. \A n \in 0 .. WordBits : n \in G BY <2>1, <2>2, <2>3, EveryPlace, Zenon
  <2> QED BY <2>4 DEF G
<1>10. Pow2 = [n \in 0 .. WordBits |-> Pow2[n]] BY <1>7 DEF Equation
<1>11. Pow2 \in [0 .. WordBits -> Nat \ {0}] BY <1>3, <1>9, <1>10
<1> QED BY <1>4, <1>12, <1>13, <1>11

\* They grow with their exponent.
LEMMA PowGrows ==
  ASSUME NEW i \in 0 .. WordBits, NEW j \in 0 .. WordBits, i <= j
  PROVE  Pow2[i] <= Pow2[j]
<1> DEFINE G == {k \in 0 .. WordBits : i <= k => Pow2[i] <= Pow2[k]}
<1>1. \A k \in 0 .. WordBits : Pow2[k] \in Nat \ {0} BY PowIs
<1>2. 0 \in G
  <2>1. i <= 0 => i = 0 OBVIOUS
  <2> QED BY <1>1, <2>1
<1>3. ASSUME NEW k \in 1 .. WordBits, k - 1 \in G PROVE k \in G
  <2>1. Pow2[k] = 2 * Pow2[k - 1] /\ k - 1 \in 0 .. WordBits BY PowIs
  <2>2. CASE i = k BY <1>1, <2>2
  <2>3. CASE i # k
    <3>1. i <= k => Pow2[i] <= Pow2[k - 1] BY <1>3, <2>3
    <3> QED BY <1>1, <2>1, <3>1
  <2> QED BY <2>2, <2>3
<1> HIDE DEF G
<1>4. \A k \in 0 .. WordBits : k \in G
  <2>1. WordBits \in Nat OBVIOUS
  <2> QED BY <1>2, <1>3, <2>1, EveryPlace, Zenon
<1> QED BY <1>4 DEF G

\* The number of words, and half of it.
LEMMA WordIs ==
  \E M, P \in Nat :
    /\ M = Pow2[WordBits] /\ P = Pow2[WordBits - 1] /\ M = 2 * P /\ P > 0
    /\ Words = 0 .. M - 1
    /\ \A n : Wrapped(n) = n % M
    /\ \A w : AsSigned(w) = IF w < P THEN w ELSE w - M
<1>1. WordBits \in 1 .. WordBits /\ WordBits - 1 \in 0 .. WordBits /\ WordBits \in 0 .. WordBits OBVIOUS
<1>2. Pow2[WordBits] \in Nat \ {0} /\ Pow2[WordBits - 1] \in Nat \ {0} /\ Pow2[WordBits] = 2 * Pow2[WordBits - 1]
  BY <1>1, PowIs
<1>3. \A n : Wrapped(n) = n % Pow2[WordBits] BY DEF Wrapped
<1>4. \A w : AsSigned(w) = IF w < Pow2[WordBits - 1] THEN w ELSE w - Pow2[WordBits]
  BY DEF AsSigned
<1> QED BY <1>2, <1>3, <1>4 DEF Words

\* Words are what wrapping returns, and what it leaves alone.
LEMMA WrappedIs ==
  /\ \A n \in Int : Wrapped(n) \in Words
  /\ \A w \in Words : Wrapped(w) = w
  /\ 0 \in Words /\ 1 \in Words /\ \A p : Truth(p) \in Words
  /\ Words \subseteq Nat
<1>1. PICK M \in Nat, P \in Nat : /\ M = 2 * P /\ P > 0 /\ Words = 0 .. M - 1
                                  /\ \A n : Wrapped(n) = n % M
  BY WordIs
<1>2. \A n \in Int : n % M \in 0 .. M - 1 BY <1>1
<1>3. \A w \in 0 .. M - 1 : w % M = w BY <1>1
<1>4. 0 \in 0 .. M - 1 /\ 1 \in 0 .. M - 1 BY <1>1
<1>5. \A p : Truth(p) \in {0, 1} BY DEF Truth
<1> QED BY <1>1, <1>2, <1>3, <1>4, <1>5

\* The k low bits of w are those of S.
LowAre(w, S, k) == \A i \in 0 .. k - 1 : (w \div Pow2[i]) % 2 = 1 <=> i \in S

\* The bits of half of a word are its bits but the lowest.
LEMMA HalfIs ==
  ASSUME NEW w \in Nat, NEW i \in 1 .. WordBits
  PROVE  w \div Pow2[i] = (w \div 2) \div Pow2[i - 1] /\ w \div 2 \in Nat /\ i - 1 \in 0 .. WordBits
<1>1. Pow2[i - 1] \in Nat \ {0} /\ Pow2[i] = 2 * Pow2[i - 1] /\ i - 1 \in 0 .. WordBits BY PowIs
<1>2. \A p \in Nat \ {0} : w \div (2 * p) = (w \div 2) \div p OBVIOUS
<1> QED BY <1>1, <1>2

\* Every set of places is the bits of a word.
LEMMA WordOfBits ==
  ASSUME NEW S
  PROVE  \E w \in Words : LowAre(w, S, WordBits)
<1> DEFINE G == {k \in 0 .. WordBits : \A T : \E w \in 0 .. Pow2[k] - 1 : LowAre(w, T, k)}
<1>1. 0 \in G
  <2>1. 0 \in 0 .. Pow2[0] - 1 BY PowIs
  <2>2. \A T : LowAre(0, T, 0) BY DEF LowAre
  <2> QED BY <2>1, <2>2
<1>2. ASSUME NEW k \in 1 .. WordBits, k - 1 \in G PROVE k \in G
  <2> SUFFICES ASSUME NEW T PROVE \E w \in 0 .. Pow2[k] - 1 : LowAre(w, T, k)
    OBVIOUS
  <2> DEFINE U == {i \in 0 .. k - 2 : i + 1 \in T}
  <2>1. PICK w \in 0 .. Pow2[k - 1] - 1 : LowAre(w, U, k - 1) BY <1>2
  <2>2. PICK z \in {0, 1} : z = 1 <=> 0 \in T
    <3>1. CASE 0 \in T BY <3>1
    <3>2. CASE 0 \notin T BY <3>2
    <3> QED BY <3>1, <3>2
  <2>3. Pow2[k] = 2 * Pow2[k - 1] /\ Pow2[k - 1] \in Nat \ {0} BY PowIs
  <2>4. 2 * w + z \in 0 .. Pow2[k] - 1
    <3>1. Pow2[k - 1] \in Nat /\ w \in Nat /\ w <= Pow2[k - 1] - 1 BY <2>1, <2>3
    <3> QED BY <2>3, <3>1
  <2>5. w \in Nat /\ (2 * w + z) \div 2 = w /\ (2 * w + z) % 2 = z /\ 2 * w + z \in Nat
    <3>1. w \in Nat BY <2>1, <2>3
    <3> QED BY <3>1
  <2>6. ASSUME NEW i \in 0 .. k - 1 PROVE ((2 * w + z) \div Pow2[i]) % 2 = 1 <=> i \in T
    <3>1. CASE i = 0
      <4>1. (2 * w + z) \div 1 = 2 * w + z BY <2>5
      <4>2. Pow2[i] = 1 BY <3>1, PowIs
      <4> QED BY <2>2, <2>5, <3>1, <4>1, <4>2
    <3>2. CASE i # 0
      <4>1. i \in 1 .. WordBits /\ i - 1 \in 0 .. k - 2 /\ i - 1 \in 0 .. (k - 1) - 1 /\ i - 1 + 1 = i BY <3>2
      <4>2. (2 * w + z) \div Pow2[i] = w \div Pow2[i - 1] BY <2>5, <4>1, HalfIs
      <4>3. (w \div Pow2[i - 1]) % 2 = 1 <=> i - 1 \in U BY <2>1, <4>1 DEF LowAre
      <4> QED BY <4>1, <4>2, <4>3
    <3> QED BY <3>1, <3>2
  <2>7. LowAre(2 * w + z, T, k) BY <2>6 DEF LowAre
  <2> QED BY <2>4, <2>7
<1> HIDE DEF G
<1>3. \A k \in 0 .. WordBits : k \in G
  <2>1. WordBits \in Nat OBVIOUS
  <2> QED BY <1>1, <1>2, <2>1, EveryPlace, Zenon
<1>4. WordBits \in G BY <1>3
<1> QED BY <1>4 DEF G, Words

\* Words with the same bits are the same.
LEMMA BitsDetermine ==
  ASSUME NEW v \in Words, NEW w \in Words, BitsOf(v) = BitsOf(w)
  PROVE  v = w
<1> DEFINE Same(k, x, y) == \A i \in 0 .. k - 1 : (x \div Pow2[i]) % 2 = 1 <=> (y \div Pow2[i]) % 2 = 1
           G == {k \in 0 .. WordBits : \A x, y \in 0 .. Pow2[k] - 1 : Same(k, x, y) => x = y}
<1>1. 0 \in G
  <2>1. \A x \in 0 .. Pow2[0] - 1 : x = 0 BY PowIs
  <2> QED BY <2>1
<1>2. ASSUME NEW k \in 1 .. WordBits, k - 1 \in G PROVE k \in G
  <2> SUFFICES ASSUME NEW x \in 0 .. Pow2[k] - 1, NEW y \in 0 .. Pow2[k] - 1, Same(k, x, y)
               PROVE  x = y
    OBVIOUS
  <2>1. Pow2[k] = 2 * Pow2[k - 1] /\ Pow2[k - 1] \in Nat \ {0} /\ Pow2[0] = 1 BY PowIs
  <2>2. x \in Nat /\ y \in Nat BY <2>1
  <2>3. x \div 2 \in 0 .. Pow2[k - 1] - 1 /\ y \div 2 \in 0 .. Pow2[k - 1] - 1
    <3>1. PICK p \in Nat \ {0} : p = Pow2[k - 1] BY <2>1
    <3>2. x <= 2 * p - 1 /\ y <= 2 * p - 1 BY <2>1, <3>1
    <3> QED BY <2>2, <3>1, <3>2
  <2>4. Same(k - 1, x \div 2, y \div 2)
    <3> SUFFICES ASSUME NEW i \in 0 .. (k - 1) - 1
                 PROVE  ((x \div 2) \div Pow2[i]) % 2 = 1 <=> ((y \div 2) \div Pow2[i]) % 2 = 1
      OBVIOUS
    <3>1. i + 1 \in 0 .. k - 1 /\ i + 1 \in 1 .. WordBits /\ i + 1 - 1 = i OBVIOUS
    <3>2. x \div Pow2[i + 1] = (x \div 2) \div Pow2[i] /\ y \div Pow2[i + 1] = (y \div 2) \div Pow2[i]
      BY <2>2, <3>1, HalfIs
    <3> QED BY <3>1, <3>2
  <2>5. x \div 2 = y \div 2 BY <1>2, <2>3, <2>4
  <2>6. x % 2 = 1 <=> y % 2 = 1
    <3>1. 0 \in 0 .. k - 1 /\ x \div 1 = x /\ y \div 1 = y BY <2>2
    <3> QED BY <2>1, <3>1
  <2> QED BY <2>2, <2>5, <2>6
<1> HIDE DEF G
<1>3. \A k \in 0 .. WordBits : k \in G
  <2>1. WordBits \in Nat OBVIOUS
  <2> QED BY <1>1, <1>2, <2>1, EveryPlace, Zenon
<1>4. WordBits \in G BY <1>3
<1>5. Same(WordBits, v, w)
  <2> SUFFICES ASSUME NEW i \in 0 .. WordBits - 1
               PROVE  (v \div Pow2[i]) % 2 = 1 <=> (w \div Pow2[i]) % 2 = 1
    OBVIOUS
  <2>1. i \in BitsOf(v) <=> i \in BitsOf(w) OBVIOUS
  <2> QED BY <2>1 DEF BitsOf
<1> QED BY <1>4, <1>5 DEF G, Words

\* The words & and | yield, by their bits.
LEMMA OfBitsIs ==
  ASSUME NEW S \in SUBSET (0 .. WordBits - 1)
  PROVE  OfBits(S) \in Words /\ BitsOf(OfBits(S)) = S
<1>1. PICK w \in Words : LowAre(w, S, WordBits) BY WordOfBits
<1>2. BitsOf(w) = S BY <1>1 DEF BitsOf, LowAre
<1> QED BY <1>2 DEF OfBits

\* The two bitwise operators, as sets of bits.
LEMMA BitwiseIs ==
  ASSUME NEW a, NEW b
  PROVE  /\ a & b \in Words /\ BitsOf(a & b) = BitsOf(a) \intersect BitsOf(b)
         /\ a | b \in Words /\ BitsOf(a | b) = BitsOf(a) \union BitsOf(b)
<1>1. BitsOf(a) \in SUBSET (0 .. WordBits - 1) /\ BitsOf(b) \in SUBSET (0 .. WordBits - 1) BY DEF BitsOf
<1>2. /\ BitsOf(a) \intersect BitsOf(b) \in SUBSET (0 .. WordBits - 1)
      /\ BitsOf(a) \union BitsOf(b) \in SUBSET (0 .. WordBits - 1)
  BY <1>1
<1> QED BY <1>2, OfBitsIs DEF &, |

\* A word read as signed is an integer.
LEMMA SignedIs ==
  ASSUME NEW w \in Words
  PROVE  AsSigned(w) \in Int
<1>1. PICK M \in Nat, P \in Nat : Words = 0 .. M - 1 /\ AsSigned(w) = IF w < P THEN w ELSE w - M
  BY WordIs
<1> QED BY <1>1

\* So is the quotient of two integers.
LEMMA QuotientIs ==
  ASSUME NEW x \in Int, NEW y \in Int, y # 0
  PROVE  Quotient(x, y) \in Int
<1> DEFINE abs(n) == IF n < 0 THEN 0 - n ELSE n
<1>1. abs(x) \in Nat /\ abs(y) \in Nat \ {0} OBVIOUS
<1>2. abs(x) \div abs(y) \in Nat BY <1>1
<1> HIDE DEF abs
<1>3. (IF x < 0 <=> y < 0 THEN abs(x) \div abs(y) ELSE 0 - (abs(x) \div abs(y))) \in Int BY <1>2
<1> QED BY <1>3 DEF Quotient, abs

\* What the binary operators return, and of what they return nothing.
LEMMA BinaryIs ==
  ASSUME NEW opr \in BinaryOprs, NEW a \in Words \union {Undef}, NEW b \in Words \union {Undef},
         NEW u \in BOOLEAN
  PROVE  /\ Binary(opr, a, b, u) \in Words \union {Undef}
         /\ a = Undef \/ b = Undef => Binary(opr, a, b, u) = Undef
         /\ opr \in Comparisons /\ a \in Words /\ b \in Words => Binary(opr, a, b, u) \in {0, 1}
         /\ opr \notin Divisions \union Shifts /\ a \in Words /\ b \in Words =>
              Binary(opr, a, b, u) \in Words
<1>1. CASE a = Undef \/ b = Undef
  <2>1. Undef \in {a, b} BY <1>1
  <2>2. Binary(opr, a, b, u) = Undef BY <2>1 DEF Binary
  <2> QED BY <1>1, <2>2
<1>2. CASE a \in Words /\ b \in Words
  <2> DEFINE x == IF u THEN a ELSE AsSigned(a)
             y == IF u THEN b ELSE AsSigned(b)
             overflows == ~u /\ x = 0 - Pow2[WordBits - 1] /\ y = 0 - 1
  <2>1. Undef \notin {a, b} BY <1>2
  <2>2. Words \subseteq Nat /\ \A n \in Int : Wrapped(n) \in Words BY WrappedIs
  <2>3. a \in Nat /\ b \in Nat BY <1>2, <2>2
  <2>4. x \in Int /\ y \in Int BY <1>2, <2>3, SignedIs
  <2>5. CASE opr \in Comparisons
    <3>4. opr \notin Divisions /\ opr \notin Shifts /\ opr \notin {"+", "-", "*", "&", "|", "&&", "||"}
      BY <2>5 DEF Divisions, Comparisons, Shifts
    <3>1. Binary(opr, a, b, u) = Truth(Compares(opr, x, y)) BY <2>1, <2>5, <3>4 DEF Binary
    <3>2. Truth(Compares(opr, x, y)) \in {0, 1} BY DEF Truth
    <3>3. 0 \in Words /\ 1 \in Words BY WrappedIs
    <3> QED BY <1>2, <2>5, <3>1, <3>2, <3>3 DEF Comparisons, Divisions, Shifts
  <2>6. CASE opr \in Divisions
    <3>1. opr \notin Comparisons /\ opr \notin Shifts /\ opr \notin {"+", "-", "*", "&", "|", "&&", "||"}
      BY <2>6 DEF Divisions, Comparisons, Shifts
    <3>2. Binary(opr, a, b, u) =
            IF y = 0 \/ overflows THEN Undef
            ELSE Wrapped(IF opr = "/" THEN Quotient(x, y) ELSE x - y * Quotient(x, y))
      BY <2>1, <2>6, <3>1 DEF Binary
    <3>3. y # 0 => (IF opr = "/" THEN Quotient(x, y) ELSE x - y * Quotient(x, y)) \in Int
      <4> HIDE DEF x, y
      <4> SUFFICES ASSUME y # 0
                   PROVE  (IF opr = "/" THEN Quotient(x, y) ELSE x - y * Quotient(x, y)) \in Int
        OBVIOUS
      <4>1. Quotient(x, y) \in Int BY <2>4, QuotientIs
      <4> QED BY <2>4, <4>1
    <3> HIDE DEF x, y, overflows
    <3> QED BY <1>2, <2>2, <2>6, <3>1, <3>2, <3>3
  <2>7. CASE opr \in Shifts
    <3>1. opr \notin Comparisons /\ opr \notin Divisions /\ opr \notin {"+", "-", "*", "&", "|", "&&", "||"} BY <2>7 DEF Divisions, Comparisons, Shifts
    <3>2. Binary(opr, a, b, u) =
            IF b >= WordBits THEN Undef ELSE IF opr = "<<" THEN Wrapped(a * Pow2[b]) ELSE a \div Pow2[b]
      BY <2>1, <2>7, <3>1 DEF Binary
    <3>3. b < WordBits => Pow2[b] \in Nat \ {0}
      <4>1. b < WordBits => b \in 0 .. WordBits BY <2>3
      <4> QED BY <4>1, PowIs
    <3>4. b < WordBits => Wrapped(a * Pow2[b]) \in Words BY <2>2, <2>3, <3>3
    <3>5. b < WordBits => a \div Pow2[b] \in Words
      <4> SUFFICES ASSUME b < WordBits PROVE a \div Pow2[b] \in Words
        OBVIOUS
      <4>1. PICK p \in Nat \ {0} : p = Pow2[b] BY <3>3
      <4>2. PICK M \in Nat : Words = 0 .. M - 1 BY WordIs
      <4>3. a \div p \in Nat /\ a \div p <= a BY <2>3
      <4> QED BY <1>2, <4>1, <4>2, <4>3
    <3> QED BY <1>2, <2>3, <2>7, <3>1, <3>2, <3>4, <3>5
  <2>8. CASE opr \in {"+", "-", "*", "&", "|", "&&", "||"}
    <3>1. opr \notin Comparisons /\ opr \notin Divisions /\ opr \notin Shifts
      BY <2>8 DEF Divisions, Comparisons, Shifts
    <3>2. Binary(opr, a, b, u) \in
            {Wrapped(a + b), Wrapped(a - b), Wrapped(a * b), a & b, a | b,
             Truth(a # 0 /\ b # 0), Truth(a # 0 \/ b # 0)}
      BY <2>1, <2>8, <3>1 DEF Binary
    <3>3. a + b \in Int /\ a - b \in Int /\ a * b \in Int BY <2>3
    <3>4. \A p : Truth(p) \in Words BY WrappedIs
    <3>5. Binary(opr, a, b, u) \in Words BY <2>2, <3>2, <3>3, <3>4, BitwiseIs
    <3> QED BY <1>2, <3>1, <3>5
  <2> QED BY <2>5, <2>6, <2>7, <2>8 DEF BinaryOprs
<1> QED BY <1>1, <1>2

\* The same of the unary operators.
LEMMA UnaryIs ==
  ASSUME NEW opr \in UnaryOprs, NEW a \in Words \union {Undef}
  PROVE  /\ Unary(opr, a) \in Words \union {Undef}
         /\ a = Undef => Unary(opr, a) = Undef
         /\ a \in Words => Unary(opr, a) \in Words
<1>1. CASE a = Undef BY <1>1 DEF Unary
<1>2. CASE a \in Words
  <2>1. a # Undef BY <1>2
  <2>2. Words \subseteq Nat /\ (\A n \in Int : Wrapped(n) \in Words) /\ \A p : Truth(p) \in Words BY WrappedIs
  <2>3. 0 - a \in Int /\ 0 - 1 - a \in Int BY <1>2, <2>2
  <2>4. Unary(opr, a) \in {Wrapped(0 - a), Wrapped(0 - 1 - a), Truth(a = 0)}
    BY <2>1 DEF Unary, UnaryOprs
  <2> QED BY <1>2, <2>2, <2>3, <2>4
<1> QED BY <1>1, <1>2

\* What UnaryCode subtracts from is as good as the operation.
LEMMA SubtractionIs ==
  ASSUME NEW a \in Words, NEW u \in BOOLEAN
  PROVE  /\ 0 \in Words /\ Wrapped(0 - 1) \in Words
         /\ Binary("-", 0, a, u) = Unary("-", a)
         /\ Binary("-", Wrapped(0 - 1), a, u) = Unary("~", a)
<1>1. 0 \in Words /\ Wrapped(0 - 1) \in Words /\ Words \subseteq Nat BY WrappedIs
<1>2. Undef # a /\ Undef # 0 /\ Undef # Wrapped(0 - 1) BY <1>1
<1>3. \A z \in Words : Binary("-", z, a, u) = Wrapped(z - a)
  BY DEF Binary, Comparisons, Divisions, Shifts
<1>4. Unary("-", a) = Wrapped(0 - a) /\ Unary("~", a) = Wrapped(0 - 1 - a) BY <1>2 DEF Unary
<1>5. Wrapped(Wrapped(0 - 1) - a) = Wrapped(0 - 1 - a)
  <2>1. PICK M \in Nat : M > 0 /\ Words = 0 .. M - 1 /\ \A n : Wrapped(n) = n % M BY WordIs
  <2>2. (0 - 1) % M = M - 1 BY <2>1
  <2>3. a \in 0 .. M - 1 BY <2>1
  <2>4. M - 1 - a \in 0 .. M - 1 BY <2>3
  <2>5. (M - 1 - a) % M = M - 1 - a BY <2>1, <2>4
  <2>6. (0 - 1 - a) % M = M - 1 - a
    <3>1. 0 - 1 - a = M * (0 - 1) + (M - 1 - a) BY <2>3
    <3> QED BY <2>1, <2>3, <2>4, <3>1
  <2> QED BY <2>1, <2>2, <2>5, <2>6
<1> QED BY <1>1, <1>3, <1>4, <1>5
-------------------------------------------------------------------------------
(***************************************************************************)
(* Trees: a node is made of nodes that were allocated before it.           *)
(***************************************************************************)
LEMMA EarlierPlaces ==
  ASSUME NEW n \in Nat, NEW G, \A i \in 1 .. n : (\A j \in 1 .. i - 1 : j \in G) => i \in G
  PROVE  \A i \in 1 .. n : i \in G
<1> DEFINE H == {i \in 0 .. n : \A j \in 1 .. i : j \in G}
<1>1. 0 \in H OBVIOUS
<1>2. ASSUME NEW i \in 1 .. n, i - 1 \in H PROVE i \in H
  <2>1. \A j \in 1 .. i - 1 : j \in G BY <1>2
  <2>2. \A j \in 1 .. i : j = i \/ j \in 1 .. i - 1 OBVIOUS
  <2> QED BY <2>1, <2>2
<1> HIDE DEF H
<1>3. \A i \in 0 .. n : i \in H BY <1>1, <1>2, EveryPlace, Zenon
<1> QED BY <1>3 DEF H

NodesOf(P) ==
  [node : {"Number"}, value : Words] \union [node : {"Ref"}, name : DOMAIN LocalVars]
    \union [node : {"Opr1"}, opr : UnaryOprs, expr : P]
    \union [node : {"Opr2"}, lexpr : P, opr : BinaryOprs, rexpr : P]
    \union [node : {"Opr3"}, cond : P, expr1 : P, expr2 : P]
    \union [node : {"Range"}, expr : P, min : P, max : P, reverse : BOOLEAN]
    \union [node : {"Mask"}, expr : P, value : P, mask : P, reverse : BOOLEAN]

WellFormed(ast) ==
  ast \in Seq(NodesOf(Nat)) /\ \A i \in 1 .. Len(ast) : ast[i] \in NodesOf(1 .. i - 1)

\* What the kind of a node says of its parts.
Parts(n, P) ==
  \/ n.node = "Number" /\ n.value \in Words
  \/ n.node = "Ref" /\ n.name \in DOMAIN LocalVars
  \/ n.node = "Opr1" /\ n.opr \in UnaryOprs /\ n.expr \in P
  \/ n.node = "Opr2" /\ n.opr \in BinaryOprs /\ n.lexpr \in P /\ n.rexpr \in P
  \/ n.node = "Opr3" /\ n.cond \in P /\ n.expr1 \in P /\ n.expr2 \in P
  \/ n.node = "Range" /\ n.expr \in P /\ n.min \in P /\ n.max \in P /\ n.reverse \in BOOLEAN
  \/ n.node = "Mask" /\ n.expr \in P /\ n.value \in P /\ n.mask \in P /\ n.reverse \in BOOLEAN

\* A node of a heap has the fields of its kind.
LEMMA PartsOf ==
  ASSUME NEW P, NEW n \in NodesOf(P)
  PROVE  Parts(n, P)
BY DEF NodesOf, Parts

\* So have all nodes of a tree, and their children come before them.
LEMMA TreeIs ==
  ASSUME NEW ast, WellFormed(ast)
  PROVE  Len(ast) \in Nat /\ DOMAIN ast = 1 .. Len(ast) /\ \A i \in 1 .. Len(ast) : Parts(ast[i], 1 .. i - 1)
BY PartsOf DEF WellFormed

\* The maximum of two and of three numbers.
LEMMA MaxIs ==
  ASSUME NEW a \in Nat, NEW b \in Nat, NEW c \in Nat
  PROVE  /\ Max({a, b}) \in Nat /\ a <= Max({a, b}) /\ b <= Max({a, b})
         /\ Max({a, b}) \in {a, b}
         /\ Max({a, b, c}) \in Nat /\ a <= Max({a, b, c}) /\ b <= Max({a, b, c}) /\ c <= Max({a, b, c})
         /\ Max({a, b, c}) \in {a, b, c}
<1>1. \E x \in {a, b} : \A y \in {a, b} : x >= y OBVIOUS
<1>2. \E x \in {a, b, c} : \A y \in {a, b, c} : x >= y
  <2>1. CASE a >= b /\ a >= c BY <2>1
  <2>2. CASE b >= a /\ b >= c BY <2>2
  <2>3. CASE c >= a /\ c >= b BY <2>3
  <2> QED BY <2>1, <2>2, <2>3
<1>3. Max({a, b}) \in {a, b} /\ \A y \in {a, b} : Max({a, b}) >= y BY <1>1 DEF Max
<1>4. Max({a, b, c}) \in {a, b, c} /\ \A y \in {a, b, c} : Max({a, b, c}) >= y BY <1>2 DEF Max
<1> QED BY <1>3, <1>4

\* f and g say the same of the places P.
Agree(f, g, P, V) == \A j \in P : f[j] \in V /\ g[j] = f[j]

\* The depth of a node depends on the depths of its children only.
LEMMA NodeDepthIs ==
  ASSUME NEW P \in SUBSET Nat, NEW n, Parts(n, P), NEW f, NEW g, Agree(f, g, P, [Nat -> Nat]),
         NEW d \in Nat
  PROVE  NodeDepth(f, n, d) \in Nat /\ NodeDepth(g, n, d) = NodeDepth(f, n, d)
<1>1. d + 1 \in Nat /\ d + 2 \in Nat OBVIOUS
<1>9. \A j \in P : f[j] \in [Nat -> Nat] /\ g[j] = f[j] BY DEF Agree
<1>2. \A j \in P : f[j][d] \in Nat /\ f[j][d + 1] \in Nat /\ f[j][d + 2] \in Nat BY <1>1, <1>9
<1>3. CASE n.node \in {"Number", "Ref"} BY <1>3 DEF NodeDepth
<1>4. CASE n.node = "Opr1"
  <2>1. n.expr \in P BY <1>4 DEF Parts
  <2> QED BY <1>2, <1>9, <1>4, <2>1 DEF NodeDepth
<1>5. CASE n.node = "Opr2"
  <2>1. n.lexpr \in P /\ n.rexpr \in P BY <1>5 DEF Parts
  <2>2. /\ NodeDepth(f, n, d) = Max({f[n.lexpr][d + 1], f[n.rexpr][d]})
        /\ NodeDepth(g, n, d) = Max({g[n.lexpr][d + 1], g[n.rexpr][d]})
    BY <1>5 DEF NodeDepth
  <2>3. Max({f[n.lexpr][d + 1], f[n.rexpr][d]}) \in Nat BY <1>2, <2>1, MaxIs
  <2> QED BY <1>9, <2>1, <2>2, <2>3
<1>6. CASE n.node = "Opr3"
  <2>1. n.cond \in P /\ n.expr1 \in P /\ n.expr2 \in P BY <1>6 DEF Parts
  <2>2. /\ NodeDepth(f, n, d) = Max({f[n.cond][d], f[n.expr1][d], f[n.expr2][d]})
        /\ NodeDepth(g, n, d) = Max({g[n.cond][d], g[n.expr1][d], g[n.expr2][d]})
    BY <1>6 DEF NodeDepth
  <2>3. Max({f[n.cond][d], f[n.expr1][d], f[n.expr2][d]}) \in Nat BY <1>2, <2>1, MaxIs
  <2> QED BY <1>9, <2>1, <2>2, <2>3
<1>7. CASE n.node = "Range"
  <2>1. n.expr \in P /\ n.min \in P /\ n.max \in P BY <1>7 DEF Parts
  <2>2. /\ NodeDepth(f, n, d) = Max({f[n.expr][d], f[n.min][d + 1], f[n.max][d + 2]})
        /\ NodeDepth(g, n, d) = Max({g[n.expr][d], g[n.min][d + 1], g[n.max][d + 2]})
    BY <1>7 DEF NodeDepth
  <2>3. Max({f[n.expr][d], f[n.min][d + 1], f[n.max][d + 2]}) \in Nat BY <1>2, <2>1, MaxIs
  <2> QED BY <1>9, <2>1, <2>2, <2>3
<1>8. CASE n.node = "Mask"
  <2>1. n.expr \in P /\ n.value \in P /\ n.mask \in P BY <1>8 DEF Parts
  <2>2. /\ NodeDepth(f, n, d) = Max({f[n.value][d], f[n.mask][d + 1], f[n.expr][d + 2]})
        /\ NodeDepth(g, n, d) = Max({g[n.value][d], g[n.mask][d + 1], g[n.expr][d + 2]})
    BY <1>8 DEF NodeDepth
  <2>3. Max({f[n.value][d], f[n.mask][d + 1], f[n.expr][d + 2]}) \in Nat BY <1>2, <2>1, MaxIs
  <2> QED BY <1>9, <2>1, <2>2, <2>3
<1> QED BY <1>3, <1>4, <1>5, <1>6, <1>7, <1>8 DEF Parts

\* The depths of all nodes: each is made of its children's.
LEMMA DepthIs ==
  ASSUME NEW ast, WellFormed(ast)
  PROVE  /\ Depth(ast) \in [1 .. Len(ast) -> [Nat -> Nat]]
         /\ \A i \in 1 .. Len(ast) : \A d \in Nat : Depth(ast)[i][d] = NodeDepth(Depth(ast), ast[i], d)
<1> DEFINE V == [Nat -> Nat]
           step == [i \in 1 .. Len(ast) |-> [g \in [1 .. i - 1 -> V] |-> [d \in Nat |-> NodeDepth(g, ast[i], d)]]]
           Equation(f) == [i \in DOMAIN ast |-> [d \in Nat |-> NodeDepth(f, ast[i], d)]]
<1>1. Len(ast) \in Nat /\ DOMAIN ast = 1 .. Len(ast) /\ \A i \in 1 .. Len(ast) : Parts(ast[i], 1 .. i - 1)
  BY TreeIs
<1>2. \A i \in 1 .. Len(ast) : \A g \in [1 .. i - 1 -> V] : step[i][g] \in V
  <2> SUFFICES ASSUME NEW i \in 1 .. Len(ast), NEW g \in [1 .. i - 1 -> V] PROVE step[i][g] \in V
    OBVIOUS
  <2>1. step[i][g] = [d \in Nat |-> NodeDepth(g, ast[i], d)] OBVIOUS
  <2>2. Agree(g, g, 1 .. i - 1, [Nat -> Nat]) BY DEF Agree
  <2>3. 1 .. i - 1 \in SUBSET Nat OBVIOUS
  <2>4. ASSUME NEW d \in Nat PROVE NodeDepth(g, ast[i], d) \in Nat
    BY <1>1, <2>2, <2>3, NodeDepthIs
  <2> QED BY <2>1, <2>4
<1> HIDE DEF V
<1>3. \E f : FromBelow(f, V, Len(ast), step)
  <2> HIDE DEF step
  <2> QED BY <1>1, <1>2, FromBelowExists, Zenon
<1>4. PICK f : f \in [1 .. Len(ast) -> V] /\ \A i \in 1 .. Len(ast) : f[i] = step[i][Below(f, i)]
  BY <1>3 DEF FromBelow
<1>5. ASSUME NEW i \in 1 .. Len(ast) PROVE f[i] = [d \in Nat |-> NodeDepth(f, ast[i], d)]
  <2>1. Below(f, i) \in [1 .. i - 1 -> V] /\ \A j \in 1 .. i - 1 : f[j] \in V
    BY <1>1, <1>4 DEF Below
  <2>2. f[i] = [d \in Nat |-> NodeDepth(Below(f, i), ast[i], d)] BY <1>4, <2>1
  <2>3. Parts(ast[i], 1 .. i - 1) BY <1>1
  <2>5. 1 .. i - 1 \in SUBSET Nat OBVIOUS
  <2>6. Agree(f, Below(f, i), 1 .. i - 1, [Nat -> Nat]) BY <2>1 DEF Agree, Below, V
  <2>4. \A d \in Nat : NodeDepth(Below(f, i), ast[i], d) = NodeDepth(f, ast[i], d)
    BY <2>3, <2>5, <2>6, NodeDepthIs
  <2> QED BY <2>2, <2>4
<1>6. f = Equation(f)
  <2>1. f = [i \in 1 .. Len(ast) |-> f[i]] BY <1>4
  <2> QED BY <1>1, <1>5, <2>1
<1>7. Depth(ast) = CHOOSE h : h = Equation(h) BY DEF Depth
<1> HIDE DEF Equation
<1>8. Depth(ast) = Equation(Depth(ast)) BY <1>6, <1>7
<1> DEFINE h == Depth(ast)
<1>9. DOMAIN h = 1 .. Len(ast) /\ \A i \in 1 .. Len(ast) : h[i] = [d \in Nat |-> NodeDepth(h, ast[i], d)]
  BY <1>1, <1>8 DEF Equation
<1> DEFINE G == {i \in 1 .. Len(ast) : h[i] \in [Nat -> Nat]}
<1> HIDE DEF h
<1>10. \A i \in 1 .. Len(ast) : i \in G
  <2>1. ASSUME NEW i \in 1 .. Len(ast), \A j \in 1 .. i - 1 : j \in G PROVE i \in G
    <3>1. 1 .. i - 1 \in SUBSET Nat OBVIOUS
    <3>3. Agree(h, h, 1 .. i - 1, [Nat -> Nat]) BY <2>1 DEF Agree
    <3>2. ASSUME NEW d \in Nat PROVE NodeDepth(h, ast[i], d) \in Nat BY <1>1, <3>1, <3>3, NodeDepthIs
    <3> QED BY <1>9, <3>2
  <2> HIDE DEF G
  <2> QED BY <1>1, <2>1, EarlierPlaces, Zenon
<1>11. h \in [1 .. Len(ast) -> [Nat -> Nat]]
  <2>1. h = [i \in 1 .. Len(ast) |-> h[i]] BY <1>8, <1>1 DEF h, Equation
  <2> QED BY <1>10, <2>1
<1> QED BY <1>9, <1>11 DEF h
Grown(a, b, c, aa, bb, cc) ==
  /\ a \in Nat /\ b \in Nat /\ c \in Nat /\ aa \in Nat /\ bb \in Nat /\ cc \in Nat
  /\ a <= aa /\ b <= bb /\ c <= cc

\* A maximum grows with the numbers it is taken of.
LEMMA MaxGrows ==
  ASSUME NEW a, NEW b, NEW c, NEW aa, NEW bb, NEW cc, Grown(a, b, c, aa, bb, cc)
  PROVE  /\ Max({a, b}) \in Nat /\ a <= Max({a, b}) /\ Max({a, b}) <= Max({aa, bb})
         /\ Max({a, b, c}) \in Nat /\ a <= Max({a, b, c}) /\ Max({a, b, c}) <= Max({aa, bb, cc})
<1>3. /\ a \in Nat /\ b \in Nat /\ c \in Nat /\ aa \in Nat /\ bb \in Nat /\ cc \in Nat
      /\ a <= aa /\ b <= bb /\ c <= cc
  BY DEF Grown
<1>1. /\ Max({aa, bb}) \in Nat /\ aa <= Max({aa, bb}) /\ bb <= Max({aa, bb})
      /\ Max({aa, bb, cc}) \in Nat
      /\ aa <= Max({aa, bb, cc}) /\ bb <= Max({aa, bb, cc}) /\ cc <= Max({aa, bb, cc})
  BY <1>3, MaxIs
<1>2. /\ Max({a, b}) \in {a, b} /\ a <= Max({a, b})
      /\ Max({a, b, c}) \in {a, b, c} /\ a <= Max({a, b, c})
  BY <1>3, MaxIs
<1> QED BY <1>1, <1>2, <1>3

\* A node needs at least its own slots, and no fewer when they begin later.
LEMMA DepthGrows ==
  ASSUME NEW ast, WellFormed(ast)
  PROVE  \A i \in 1 .. Len(ast) : \A d \in Nat : /\ Depth(ast)[i][d] \in Nat
                                                 /\ d <= Depth(ast)[i][d]
                                                 /\ Depth(ast)[i][d] <= Depth(ast)[i][d + 1]
<1> DEFINE h == Depth(ast)
           Grows(i) == \A d \in Nat : h[i][d] \in Nat /\ d <= h[i][d] /\ h[i][d] <= h[i][d + 1]
           G == {i \in 1 .. Len(ast) : Grows(i)}
<1>1. Len(ast) \in Nat /\ \A i \in 1 .. Len(ast) : Parts(ast[i], 1 .. i - 1) BY TreeIs
<1>2. \A i \in 1 .. Len(ast) : \A d \in Nat : h[i][d] = NodeDepth(h, ast[i], d) BY DepthIs
<1> HIDE DEF h
<1>3. ASSUME NEW i \in 1 .. Len(ast), \A j \in 1 .. i - 1 : j \in G PROVE i \in G
  <2> SUFFICES ASSUME NEW d \in Nat PROVE h[i][d] \in Nat /\ d <= h[i][d] /\ h[i][d] <= h[i][d + 1]
    OBVIOUS
  <2> DEFINE n == ast[i]
             P == 1 .. i - 1
  <2>1. Parts(n, P) BY <1>1
  <2>2. h[i][d] = NodeDepth(h, n, d) /\ h[i][d + 1] = NodeDepth(h, n, d + 1) BY <1>2
  <2>3. d + 1 \in Nat /\ d + 2 \in Nat /\ d + 3 \in Nat /\ d + 1 + 1 = d + 2 /\ d + 1 + 2 = d + 3 OBVIOUS
  <2>4. \A j \in P : Grows(j) BY <1>3
  <2>5. \A j \in P : \A e \in {d, d + 1, d + 2} : /\ h[j][e] \in Nat /\ h[j][e + 1] \in Nat
                                                  /\ d <= h[j][e] /\ h[j][e] <= h[j][e + 1]
    <3> SUFFICES ASSUME NEW j \in P, NEW e \in {d, d + 1, d + 2}
                 PROVE  h[j][e] \in Nat /\ h[j][e + 1] \in Nat /\ d <= h[j][e] /\ h[j][e] <= h[j][e + 1]
      OBVIOUS
    <3>1. e \in Nat /\ e + 1 \in Nat /\ d <= e OBVIOUS
    <3>2. Grows(j) BY <2>4
    <3> HIDE DEF P
    <3>3. h[j][e] \in Nat /\ e <= h[j][e] /\ h[j][e] <= h[j][e + 1] /\ h[j][e + 1] \in Nat
      BY <3>1, <3>2
    <3> QED BY <3>1, <3>3
  <2> HIDE DEF n, P, Grows, G
  <2>6. CASE n.node \in {"Number", "Ref"} BY <2>2, <2>6 DEF NodeDepth
  <2>7. CASE n.node = "Opr1"
    <3>1. n.expr \in P BY <2>1, <2>7 DEF Parts
    <3>2. NodeDepth(h, n, d) = h[n.expr][d + 1] /\ NodeDepth(h, n, d + 1) = h[n.expr][d + 2]
      BY <2>3, <2>7 DEF NodeDepth
    <3>3. /\ h[n.expr][d + 1] \in Nat /\ h[n.expr][d + 2] \in Nat
          /\ d <= h[n.expr][d + 1] /\ h[n.expr][d + 1] <= h[n.expr][d + 2]
      BY <2>3, <2>5, <3>1
    <3> QED BY <2>2, <3>2, <3>3
  <2>8. CASE n.node = "Opr2"
    <3>1. n.lexpr \in P /\ n.rexpr \in P BY <2>1, <2>8 DEF Parts
    <3>2. /\ NodeDepth(h, n, d) = Max({h[n.lexpr][d + 1], h[n.rexpr][d]})
          /\ NodeDepth(h, n, d + 1) = Max({h[n.lexpr][d + 2], h[n.rexpr][d + 1]})
      BY <2>3, <2>8 DEF NodeDepth
    <3>3. /\ h[n.lexpr][d + 1] \in Nat /\ h[n.lexpr][d + 2] \in Nat /\ d <= h[n.lexpr][d + 1] /\ h[n.lexpr][d + 1] <= h[n.lexpr][d + 2]
          /\ h[n.rexpr][d] \in Nat /\ h[n.rexpr][d + 1] \in Nat /\ d <= h[n.rexpr][d] /\ h[n.rexpr][d] <= h[n.rexpr][d + 1]
      BY <2>3, <2>5, <3>1
    <3>4. Grown(h[n.lexpr][d + 1], h[n.rexpr][d], h[n.rexpr][d],
                h[n.lexpr][d + 2], h[n.rexpr][d + 1], h[n.rexpr][d + 1])
      BY <3>3 DEF Grown
    <3>5. Max({h[n.lexpr][d + 1], h[n.rexpr][d]}) \in Nat /\ h[n.lexpr][d + 1] <= Max({h[n.lexpr][d + 1], h[n.rexpr][d]})
          /\ Max({h[n.lexpr][d + 1], h[n.rexpr][d]}) <= Max({h[n.lexpr][d + 2], h[n.rexpr][d + 1]})
      BY <3>4, MaxGrows, Zenon
    <3>6. NodeDepth(h, n, d) \in Nat /\ h[n.lexpr][d + 1] <= NodeDepth(h, n, d) /\ NodeDepth(h, n, d) <= NodeDepth(h, n, d + 1)
      BY <3>2, <3>5
    <3> QED BY <2>2, <3>3, <3>6
  <2>9. CASE n.node = "Opr3"
    <3>1. n.cond \in P /\ n.expr1 \in P /\ n.expr2 \in P BY <2>1, <2>9 DEF Parts
    <3>2. /\ NodeDepth(h, n, d) = Max({h[n.cond][d], h[n.expr1][d], h[n.expr2][d]})
          /\ NodeDepth(h, n, d + 1) = Max({h[n.cond][d + 1], h[n.expr1][d + 1], h[n.expr2][d + 1]})
      BY <2>3, <2>9 DEF NodeDepth
    <3>3. /\ h[n.cond][d] \in Nat /\ h[n.cond][d + 1] \in Nat /\ d <= h[n.cond][d] /\ h[n.cond][d] <= h[n.cond][d + 1]
          /\ h[n.expr1][d] \in Nat /\ h[n.expr1][d + 1] \in Nat /\ d <= h[n.expr1][d] /\ h[n.expr1][d] <= h[n.expr1][d + 1]
          /\ h[n.expr2][d] \in Nat /\ h[n.expr2][d + 1] \in Nat /\ d <= h[n.expr2][d] /\ h[n.expr2][d] <= h[n.expr2][d + 1]
      BY <2>3, <2>5, <3>1
    <3>4. Grown(h[n.cond][d], h[n.expr1][d], h[n.expr2][d],
                h[n.cond][d + 1], h[n.expr1][d + 1], h[n.expr2][d + 1])
      BY <3>3 DEF Grown
    <3>5. Max({h[n.cond][d], h[n.expr1][d], h[n.expr2][d]}) \in Nat /\ h[n.cond][d] <= Max({h[n.cond][d], h[n.expr1][d], h[n.expr2][d]})
          /\ Max({h[n.cond][d], h[n.expr1][d], h[n.expr2][d]}) <= Max({h[n.cond][d + 1], h[n.expr1][d + 1], h[n.expr2][d + 1]})
      BY <3>4, MaxGrows, Zenon
    <3>6. NodeDepth(h, n, d) \in Nat /\ h[n.cond][d] <= NodeDepth(h, n, d) /\ NodeDepth(h, n, d) <= NodeDepth(h, n, d + 1)
      BY <3>2, <3>5
    <3> QED BY <2>2, <3>3, <3>6
  <2>10. CASE n.node = "Range"
    <3>1. n.expr \in P /\ n.min \in P /\ n.max \in P BY <2>1, <2>10 DEF Parts
    <3>2. /\ NodeDepth(h, n, d) = Max({h[n.expr][d], h[n.min][d + 1], h[n.max][d + 2]})
          /\ NodeDepth(h, n, d + 1) = Max({h[n.expr][d + 1], h[n.min][d + 2], h[n.max][d + 3]})
      BY <2>3, <2>10 DEF NodeDepth
    <3>3. /\ h[n.expr][d] \in Nat /\ h[n.expr][d + 1] \in Nat /\ d <= h[n.expr][d] /\ h[n.expr][d] <= h[n.expr][d + 1]
          /\ h[n.min][d + 1] \in Nat /\ h[n.min][d + 2] \in Nat /\ d <= h[n.min][d + 1] /\ h[n.min][d + 1] <= h[n.min][d + 2]
          /\ h[n.max][d + 2] \in Nat /\ h[n.max][d + 3] \in Nat /\ d <= h[n.max][d + 2] /\ h[n.max][d + 2] <= h[n.max][d + 3]
      BY SMTT(30), <2>3, <2>5, <3>1
    <3>4. Grown(h[n.expr][d], h[n.min][d + 1], h[n.max][d + 2],
                h[n.expr][d + 1], h[n.min][d + 2], h[n.max][d + 3])
      BY <3>3 DEF Grown
    <3>5. Max({h[n.expr][d], h[n.min][d + 1], h[n.max][d + 2]}) \in Nat /\ h[n.expr][d] <= Max({h[n.expr][d], h[n.min][d + 1], h[n.max][d + 2]})
          /\ Max({h[n.expr][d], h[n.min][d + 1], h[n.max][d + 2]}) <= Max({h[n.expr][d + 1], h[n.min][d + 2], h[n.max][d + 3]})
      BY <3>4, MaxGrows, Zenon
    <3>6. NodeDepth(h, n, d) \in Nat /\ h[n.expr][d] <= NodeDepth(h, n, d) /\ NodeDepth(h, n, d) <= NodeDepth(h, n, d + 1)
      BY <3>2, <3>5
    <3> QED BY <2>2, <3>3, <3>6
  <2>11. CASE n.node = "Mask"
    <3>1. n.expr \in P /\ n.value \in P /\ n.mask \in P BY <2>1, <2>11 DEF Parts
    <3>2. /\ NodeDepth(h, n, d) = Max({h[n.value][d], h[n.mask][d + 1], h[n.expr][d + 2]})
          /\ NodeDepth(h, n, d + 1) = Max({h[n.value][d + 1], h[n.mask][d + 2], h[n.expr][d + 3]})
      BY <2>3, <2>11 DEF NodeDepth
    <3>3. /\ h[n.value][d] \in Nat /\ h[n.value][d + 1] \in Nat /\ d <= h[n.value][d] /\ h[n.value][d] <= h[n.value][d + 1]
          /\ h[n.mask][d + 1] \in Nat /\ h[n.mask][d + 2] \in Nat /\ d <= h[n.mask][d + 1] /\ h[n.mask][d + 1] <= h[n.mask][d + 2]
          /\ h[n.expr][d + 2] \in Nat /\ h[n.expr][d + 3] \in Nat /\ d <= h[n.expr][d + 2] /\ h[n.expr][d + 2] <= h[n.expr][d + 3]
      BY SMTT(30), <2>3, <2>5, <3>1
    <3>4. Grown(h[n.value][d], h[n.mask][d + 1], h[n.expr][d + 2],
                h[n.value][d + 1], h[n.mask][d + 2], h[n.expr][d + 3])
      BY <3>3 DEF Grown
    <3>5. Max({h[n.value][d], h[n.mask][d + 1], h[n.expr][d + 2]}) \in Nat /\ h[n.value][d] <= Max({h[n.value][d], h[n.mask][d + 1], h[n.expr][d + 2]})
          /\ Max({h[n.value][d], h[n.mask][d + 1], h[n.expr][d + 2]}) <= Max({h[n.value][d + 1], h[n.mask][d + 2], h[n.expr][d + 3]})
      BY <3>4, MaxGrows, Zenon
    <3>6. NodeDepth(h, n, d) \in Nat /\ h[n.value][d] <= NodeDepth(h, n, d) /\ NodeDepth(h, n, d) <= NodeDepth(h, n, d + 1)
      BY <3>2, <3>5
    <3> QED BY <2>2, <3>3, <3>6
  <2> QED BY <2>1, <2>6, <2>7, <2>8, <2>9, <2>10, <2>11 DEF Parts
<1> HIDE DEF G
<1>4. \A i \in 1 .. Len(ast) : i \in G BY <1>1, <1>3, EarlierPlaces, Zenon
<1> QED BY <1>4 DEF G, h
-------------------------------------------------------------------------------
(***************************************************************************)
(* Code.                                                                   *)
(***************************************************************************)
Operand == ({"reg"} \X (0 .. 2)) \union ({"slot"} \X Nat) \union ({"imm"} \X Words)
Places  == ({"reg"} \X (0 .. 2)) \union ({"slot"} \X Nat)

Instruction ==
  [op : {"mov"}, dst : Places, a : Operand]
    \union [op : {"alu"}, opr : BinaryOprs, dst : Places, a : Operand, b : Operand]
    \union [op : {"cmp"}, opr : Comparisons, signless : BOOLEAN, a : Operand, b : Operand, skip : Nat]
    \union [op : {"jump"}, skip : Nat]

\* The instructions the generator writes are instructions of the machine.
LEMMA InstructionsAre ==
  /\ \A dst \in Places, a \in Operand : Mov(dst, a) \in Instruction
  /\ \A opr \in BinaryOprs, dst \in Places, a, b \in Operand : Alu(opr, dst, a, b) \in Instruction
  /\ \A opr \in Comparisons, a, b \in Operand, n \in Nat :
       JumpIf(opr, a, b, n) \in Instruction /\ JumpIfU(opr, a, b, n) \in Instruction
  /\ \A n \in Nat : Jump(n) \in Instruction
<1>1. \A dst \in Places, a \in Operand : Mov(dst, a) \in Instruction BY DEF Mov, Instruction
<1>2. \A opr \in BinaryOprs, dst \in Places, a, b \in Operand : Alu(opr, dst, a, b) \in Instruction
  BY DEF Alu, Instruction
<1>3. \A opr \in Comparisons, a, b \in Operand, n \in Nat :
        JumpIf(opr, a, b, n) \in Instruction /\ JumpIfU(opr, a, b, n) \in Instruction
  BY DEF JumpIf, JumpIfU, Instruction
<1>4. \A n \in Nat : Jump(n) \in Instruction BY DEF Jump, Instruction
<1> QED BY <1>1, <1>2, <1>3, <1>4

\* So are the operands.
LEMMA OperandsAre ==
  /\ Places \subseteq Operand
  /\ R0 \in Places /\ R1 \in Places /\ R2 \in Places /\ Targets = {R0, R1}
  /\ \A d \in Nat : Slot(d) \in Places
  /\ \A w \in Words : Imm(w) \in Operand
  /\ \A name \in DOMAIN LocalVars : <<"slot", LocalVars[name]>> \in Places
<1>1. Places \subseteq Operand BY DEF Places, Operand
<1>2. R0 \in Places /\ R1 \in Places /\ R2 \in Places BY DEF Places, R0, R1, R2
<1>3. \A d \in Nat : Slot(d) \in Places
  <2>1. \A d \in Nat : LocalSize + d \in Nat BY DEF LocalSize
  <2> QED BY <2>1 DEF Slot, Places
<1>4. \A w \in Words : Imm(w) \in Operand BY DEF Imm, Operand
<1>5. \A name \in DOMAIN LocalVars : LocalVars[name] \in Nat BY DEF LocalVars
<1> QED BY <1>1, <1>2, <1>3, <1>4, <1>5 DEF Places, Targets

Codes == Seq(Instruction)

\* Code is made of instructions and of code.
LEMMA JoinIs ==
  /\ \A c, e \in Codes : c \o e \in Codes
  /\ \A x \in Instruction : <<x>> \in Codes
  /\ \A x, y \in Instruction : <<x, y>> \in Codes
  /\ \A x, y, z \in Instruction : <<x, y, z>> \in Codes
  /\ \A x, y, z, v \in Instruction : <<x, y, z, v>> \in Codes
  /\ \A x, y, z, v, w \in Instruction : <<x, y, z, v, w>> \in Codes
<1>1. \A c, e \in Codes : c \o e \in Codes BY ConcatProperties DEF Codes
<1> QED BY <1>1 DEF Codes

\* The code that ends a comparator is code.
LEMMA OutcomeIs ==
  ASSUME NEW yes \in {0, 1}
  PROVE  SetOutcome(yes) \in Codes
<1>1. 1 - yes \in Words /\ yes \in Words BY WrappedIs
<1>2. Mov(R0, Imm(1 - yes)) \in Instruction /\ Jump(1) \in Instruction /\ Mov(R0, Imm(yes)) \in Instruction
  BY <1>1, OperandsAre, InstructionsAre
<1> QED BY <1>2, JoinIs DEF SetOutcome

\* So is the code of an operator.
LEMMA WordCodeIs ==
  /\ \A opr \in BinaryOprs : BinaryCode(opr) \in Codes
  /\ \A opr \in UnaryOprs : UnaryCode(opr) \in Codes
<1>1. SetOutcome(0) \in Codes /\ SetOutcome(1) \in Codes BY OutcomeIs
<1>2. R0 \in Operand /\ R1 \in Operand /\ R0 \in Places /\ R1 \in Places BY OperandsAre
<1>3. Imm(0) \in Operand /\ Imm(Wrapped(0 - 1)) \in Operand
  <2>1. 0 \in Words /\ Wrapped(0 - 1) \in Words BY WrappedIs
  <2> QED BY <2>1, OperandsAre
<1>4. ASSUME NEW opr \in BinaryOprs PROVE BinaryCode(opr) \in Codes
  <2>1. CASE opr \in Comparisons
    <3>1. opr \notin {"&&", "||", "%"} BY <2>1 DEF Comparisons
    <3>2. BinaryCode(opr) = <<JumpIf(opr, R0, R1, 2)>> \o SetOutcome(1) BY <2>1, <3>1 DEF BinaryCode
    <3>3. <<JumpIf(opr, R0, R1, 2)>> \in Codes BY <1>2, <2>1, InstructionsAre, JoinIs
    <3> QED BY <1>1, <3>2, <3>3, JoinIs
  <2>2. CASE opr = "&&"
    <3>1. opr \notin Comparisons BY <2>2 DEF Comparisons
    <3>2. BinaryCode(opr) = <<JumpIf("=", R0, Imm(0), 3), JumpIf("=", R1, Imm(0), 2)>> \o SetOutcome(0)
      BY <2>2, <3>1 DEF BinaryCode
    <3>3. "=" \in Comparisons BY DEF Comparisons
    <3>4. <<JumpIf("=", R0, Imm(0), 3), JumpIf("=", R1, Imm(0), 2)>> \in Codes
      BY <1>2, <1>3, <3>3, InstructionsAre, JoinIs
    <3> QED BY <1>1, <3>2, <3>4, JoinIs
  <2>3. CASE opr = "||"
    <3>1. opr \notin Comparisons BY <2>3 DEF Comparisons
    <3>2. BinaryCode(opr) = <<JumpIf("!=", R0, Imm(0), 1), JumpIf("=", R1, Imm(0), 2)>> \o SetOutcome(0)
      BY <2>3, <3>1 DEF BinaryCode
    <3>3. "=" \in Comparisons /\ "!=" \in Comparisons BY DEF Comparisons
    <3>4. <<JumpIf("!=", R0, Imm(0), 1), JumpIf("=", R1, Imm(0), 2)>> \in Codes
      BY <1>2, <1>3, <3>3, InstructionsAre, JoinIs
    <3> QED BY <1>1, <3>2, <3>4, JoinIs
  <2>4. CASE opr = "%"
    <3>1. opr \notin Comparisons BY <2>4 DEF Comparisons
    <3>2. BinaryCode(opr) = <<Alu("%", R1, R0, R1), Mov(R0, R1)>> BY <2>4, <3>1 DEF BinaryCode
    <3>3. Alu("%", R1, R0, R1) \in Instruction /\ Mov(R0, R1) \in Instruction
      BY <1>2, <2>4, InstructionsAre
    <3> QED BY <3>2, <3>3, JoinIs
  <2>5. CASE opr \notin Comparisons /\ opr \notin {"&&", "||", "%"}
    <3>1. BinaryCode(opr) = <<Alu(opr, R0, R0, R1)>> BY <2>5 DEF BinaryCode
    <3>2. Alu(opr, R0, R0, R1) \in Instruction BY <1>2, InstructionsAre
    <3> QED BY <3>1, <3>2, JoinIs
  <2> QED BY <2>1, <2>2, <2>3, <2>4, <2>5
<1>5. ASSUME NEW opr \in UnaryOprs PROVE UnaryCode(opr) \in Codes
  <2>1. "-" \in BinaryOprs /\ "=" \in Comparisons BY DEF BinaryOprs, Comparisons
  <2>2. /\ Alu("-", R0, Imm(0), R0) \in Instruction /\ Alu("-", R0, Imm(Wrapped(0 - 1)), R0) \in Instruction
        /\ JumpIf("=", R0, Imm(0), 2) \in Instruction
    BY <1>2, <1>3, <2>1, InstructionsAre
  <2>3. /\ <<Alu("-", R0, Imm(0), R0)>> \in Codes /\ <<Alu("-", R0, Imm(Wrapped(0 - 1)), R0)>> \in Codes
        /\ <<JumpIf("=", R0, Imm(0), 2)>> \o SetOutcome(0) \in Codes
    BY <1>1, <2>2, JoinIs
  <2> QED BY <2>3 DEF UnaryCode, UnaryOprs
<1> QED BY <1>4, <1>5
Generated == [Nat -> [Targets -> Codes]]

\* The code of the nodes P, each at any slot.
LEMMA NodeCodeIs ==
  ASSUME NEW P \in SUBSET Nat, NEW n, Parts(n, P), NEW f, NEW g, Agree(f, g, P, Generated),
         NEW ast, NEW d \in Nat, NEW target \in Targets
  PROVE  /\ NodeCode(f, ast, n, d, target) \in Codes
         /\ NodeCode(g, ast, n, d, target) = NodeCode(f, ast, n, d, target)
<1>1. d + 1 \in Nat /\ d + 2 \in Nat OBVIOUS
<1>2. \A j \in P : g[j] = f[j] BY DEF Agree
<1>3. \A j \in P : f[j][d][R0] \in Codes /\ f[j][d][R1] \in Codes /\ f[j][d + 1][R0] \in Codes /\ f[j][d + 2][R0] \in Codes
  BY <1>1 DEF Agree, Generated, Targets
<1>4. /\ R0 \in Places /\ R1 \in Places /\ R2 \in Places /\ target \in Places /\ Places \subseteq Operand
      /\ Slot(d) \in Places /\ Slot(d + 1) \in Places
  BY <1>1, OperandsAre
<1>5. /\ <<Mov(Slot(d), R0)>> \in Codes /\ <<Mov(Slot(d + 1), R0)>> \in Codes
      /\ <<Mov(R1, Slot(d))>> \in Codes /\ <<Mov(R1, R0)>> \in Codes
  <2>1. /\ Mov(Slot(d), R0) \in Instruction /\ Mov(Slot(d + 1), R0) \in Instruction
        /\ Mov(R1, Slot(d)) \in Instruction /\ Mov(R1, R0) \in Instruction
    BY <1>4, InstructionsAre
  <2> QED BY <2>1, JoinIs
<1>6. CASE n.node = "Number"
  <2>1. Imm(n.value) \in Operand BY <1>6, OperandsAre DEF Parts
  <2>2. <<Mov(target, Imm(n.value))>> \in Codes BY <1>4, <2>1, InstructionsAre, JoinIs
  <2> QED BY <1>6, <2>2 DEF NodeCode
<1>7. CASE n.node = "Ref"
  <2>1. <<"slot", LocalVars[n.name]>> \in Operand BY <1>7, OperandsAre DEF Parts
  <2>2. <<Mov(target, <<"slot", LocalVars[n.name]>>)>> \in Codes BY <1>4, <2>1, InstructionsAre, JoinIs
  <2> QED BY <1>7, <2>2 DEF NodeCode
<1>8. CASE n.node = "Opr1"
  <2>1. n.expr \in P /\ n.opr \in UnaryOprs BY <1>8 DEF Parts
  <2>2. /\ NodeCode(f, ast, n, d, target) = f[n.expr][d][R0] \o UnaryCode(n.opr)
        /\ NodeCode(g, ast, n, d, target) = g[n.expr][d][R0] \o UnaryCode(n.opr)
    BY <1>8 DEF NodeCode
  <2>3. UnaryCode(n.opr) \in Codes BY <2>1, WordCodeIs
  <2> QED BY <1>2, <1>3, <2>1, <2>2, <2>3, JoinIs
<1>9. CASE n.node = "Opr2"
  <2>1. n.lexpr \in P /\ n.rexpr \in P /\ n.opr \in BinaryOprs BY <1>9 DEF Parts
  <2>2. /\ NodeCode(f, ast, n, d, target) = Operands(f, ast, n, d) \o BinaryCode(n.opr)
        /\ NodeCode(g, ast, n, d, target) = Operands(g, ast, n, d) \o BinaryCode(n.opr)
    BY <1>9 DEF NodeCode
  <2>3. BinaryCode(n.opr) \in Codes BY <2>1, WordCodeIs
  <2>4. g[n.lexpr] = f[n.lexpr] /\ g[n.rexpr] = f[n.rexpr] BY <1>2, <2>1
  <2>5. Operands(g, ast, n, d) = Operands(f, ast, n, d) BY <2>4 DEF Operands
  <2>6. /\ f[n.lexpr][d][R0] \in Codes /\ f[n.lexpr][d + 1][R0] \in Codes
        /\ f[n.rexpr][d][R0] \in Codes /\ f[n.rexpr][d][R1] \in Codes
    BY <1>3, <2>1
  <2>7. Operands(f, ast, n, d) \in Codes BY <1>5, <2>6, JoinIs DEF Operands
  <2> QED BY <2>2, <2>3, <2>5, <2>7, JoinIs
<1>10. CASE n.node = "Opr3"
  <2>1. n.cond \in P /\ n.expr1 \in P /\ n.expr2 \in P BY <1>10 DEF Parts
  <2>2. PICK c \in Codes, c1 \in Codes, c2 \in Codes :
           c = f[n.cond][d][R0] /\ c1 = f[n.expr1][d][R0] /\ c2 = f[n.expr2][d][R0]
    BY <1>3, <2>1
  <2>3. g[n.cond] = f[n.cond] /\ g[n.expr1] = f[n.expr1] /\ g[n.expr2] = f[n.expr2] BY <1>2, <2>1
  <2>4. /\ NodeCode(f, ast, n, d, target) = ConditionCode(c, c1, c2)
        /\ NodeCode(g, ast, n, d, target) = ConditionCode(c, c1, c2)
    BY <1>10, <2>2, <2>3 DEF NodeCode
  <2>5. Len(c1) + 1 \in Nat /\ Len(c2) \in Nat BY DEF Codes
  <2>6. Imm(0) \in Operand /\ "=" \in Comparisons
    <3>1. 0 \in Words BY WrappedIs
    <3> QED BY <3>1, OperandsAre DEF Comparisons
  <2>7. <<JumpIf("=", R0, Imm(0), Len(c1) + 1)>> \in Codes /\ <<Jump(Len(c2))>> \in Codes
    BY <1>4, <2>5, <2>6, InstructionsAre, JoinIs
  <2>8. ConditionCode(c, c1, c2) \in Codes BY <2>7, JoinIs DEF ConditionCode
  <2> QED BY <2>4, <2>8
<1>11. CASE n.node = "Range"
  <2>1. n.expr \in P /\ n.min \in P /\ n.max \in P BY <1>11 DEF Parts
  <2>2. NodeCode(f, ast, n, d, target) = RangeCode(f, n, d) /\ NodeCode(g, ast, n, d, target) = RangeCode(g, n, d)
    BY <1>11 DEF NodeCode
  <2>3. g[n.expr] = f[n.expr] /\ g[n.min] = f[n.min] /\ g[n.max] = f[n.max] BY <1>2, <2>1
  <2>4. RangeCode(g, n, d) = RangeCode(f, n, d) BY <2>3 DEF RangeCode
  <2>5. f[n.expr][d][R0] \in Codes /\ f[n.min][d + 1][R0] \in Codes /\ f[n.max][d + 2][R0] \in Codes
    BY <1>3, <2>1
  <2>6. SetOutcome(Truth(n.reverse)) \in Codes
    <3>1. Truth(n.reverse) \in {0, 1} BY DEF Truth
    <3> QED BY <3>1, OutcomeIs
  <2>7. /\ Mov(R1, Slot(d)) \in Instruction /\ Mov(R0, Slot(d + 1)) \in Instruction
        /\ JumpIfU(">", R1, R0, 4) \in Instruction /\ JumpIfU("<", R1, R0, 2) \in Instruction
    <3>1. ">" \in Comparisons /\ "<" \in Comparisons BY DEF Comparisons
    <3> QED BY <1>4, <3>1, InstructionsAre
  <2>8. <<Mov(R1, Slot(d)), JumpIfU(">", R1, R0, 4), Mov(R0, Slot(d + 1)), JumpIfU("<", R1, R0, 2)>> \in Codes
    BY <2>7, JoinIs
  <2>9. RangeCode(f, n, d) \in Codes BY <1>5, <2>5, <2>6, <2>8, JoinIs DEF RangeCode
  <2> QED BY <2>2, <2>4, <2>9
<1>12. CASE n.node = "Mask"
  <2>1. n.expr \in P /\ n.value \in P /\ n.mask \in P BY <1>12 DEF Parts
  <2>2. NodeCode(f, ast, n, d, target) = MaskCode(f, n, d) /\ NodeCode(g, ast, n, d, target) = MaskCode(g, n, d)
    BY <1>12 DEF NodeCode
  <2>3. g[n.expr] = f[n.expr] /\ g[n.value] = f[n.value] /\ g[n.mask] = f[n.mask] BY <1>2, <2>1
  <2>4. MaskCode(g, n, d) = MaskCode(f, n, d) BY <2>3 DEF MaskCode
  <2>5. f[n.value][d][R0] \in Codes /\ f[n.mask][d + 1][R0] \in Codes /\ f[n.expr][d + 2][R0] \in Codes
    BY <1>3, <2>1
  <2>6. SetOutcome(Truth(n.reverse)) \in Codes
    <3>1. Truth(n.reverse) \in {0, 1} BY DEF Truth
    <3> QED BY <3>1, OutcomeIs
  <2>7. /\ Mov(R1, Slot(d)) \in Instruction /\ Mov(R2, Slot(d + 1)) \in Instruction
        /\ Alu("&", R0, R0, R2) \in Instruction /\ Alu("&", R1, R1, R2) \in Instruction
        /\ JumpIf("!=", R0, R1, 2) \in Instruction
    <3>1. "!=" \in Comparisons /\ "&" \in BinaryOprs BY DEF Comparisons, BinaryOprs
    <3> QED BY <1>4, <3>1, InstructionsAre
  <2>8. <<Mov(R1, Slot(d)), Mov(R2, Slot(d + 1)), Alu("&", R0, R0, R2), Alu("&", R1, R1, R2),
          JumpIf("!=", R0, R1, 2)>> \in Codes
    BY <2>7, JoinIs
  <2>9. MaskCode(f, n, d) \in Codes BY <1>5, <2>5, <2>6, <2>8, JoinIs DEF MaskCode
  <2> QED BY <2>2, <2>4, <2>9
<1> QED BY <1>6, <1>7, <1>8, <1>9, <1>10, <1>11, <1>12 DEF Parts

\* The code of all nodes: each is made of its children's.
LEMMA CodeIs ==
  ASSUME NEW ast, WellFormed(ast)
  PROVE  /\ Code(ast) \in [1 .. Len(ast) -> Generated]
         /\ \A i \in 1 .. Len(ast) : \A d \in Nat : \A target \in Targets :
              Code(ast)[i][d][target] = NodeCode(Code(ast), ast, ast[i], d, target)
<1> DEFINE V == Generated
           step == [i \in 1 .. Len(ast) |-> [g \in [1 .. i - 1 -> V] |->
                      [d \in Nat |-> [target \in Targets |-> NodeCode(g, ast, ast[i], d, target)]]]]
           Whole(f) == [i \in DOMAIN ast |->
                         [d \in Nat |-> [target \in Targets |-> NodeCode(f, ast, ast[i], d, target)]]]
<1>1. Len(ast) \in Nat /\ DOMAIN ast = 1 .. Len(ast) /\ \A i \in 1 .. Len(ast) : Parts(ast[i], 1 .. i - 1)
  BY TreeIs
<1>2. \A i \in 1 .. Len(ast) : \A g \in [1 .. i - 1 -> V] : step[i][g] \in V
  <2> SUFFICES ASSUME NEW i \in 1 .. Len(ast), NEW g \in [1 .. i - 1 -> V] PROVE step[i][g] \in V
    OBVIOUS
  <2>1. step[i][g] = [d \in Nat |-> [target \in Targets |-> NodeCode(g, ast, ast[i], d, target)]] OBVIOUS
  <2>2. Agree(g, g, 1 .. i - 1, Generated) BY DEF Agree
  <2>3. 1 .. i - 1 \in SUBSET Nat OBVIOUS
  <2>4. ASSUME NEW d \in Nat, NEW target \in Targets PROVE NodeCode(g, ast, ast[i], d, target) \in Codes
    BY <1>1, <2>2, <2>3, NodeCodeIs
  <2> QED BY <2>1, <2>4 DEF Generated
<1> HIDE DEF V
<1>3. \E f : FromBelow(f, V, Len(ast), step)
  <2> HIDE DEF step
  <2> QED BY <1>1, <1>2, FromBelowExists, Zenon
<1>4. PICK f : f \in [1 .. Len(ast) -> V] /\ \A i \in 1 .. Len(ast) : f[i] = step[i][Below(f, i)]
  BY <1>3 DEF FromBelow
<1>5. ASSUME NEW i \in 1 .. Len(ast)
      PROVE  f[i] = [d \in Nat |-> [target \in Targets |-> NodeCode(f, ast, ast[i], d, target)]]
  <2>1. Below(f, i) \in [1 .. i - 1 -> V] /\ \A j \in 1 .. i - 1 : f[j] \in V
    BY <1>1, <1>4 DEF Below
  <2>2. f[i] = [d \in Nat |-> [target \in Targets |-> NodeCode(Below(f, i), ast, ast[i], d, target)]]
    BY <1>4, <2>1
  <2>3. Parts(ast[i], 1 .. i - 1) BY <1>1
  <2>4. 1 .. i - 1 \in SUBSET Nat OBVIOUS
  <2>5. Agree(f, Below(f, i), 1 .. i - 1, Generated) BY <2>1 DEF Agree, Below, V
  <2>6. ASSUME NEW d \in Nat, NEW target \in Targets
        PROVE  NodeCode(Below(f, i), ast, ast[i], d, target) = NodeCode(f, ast, ast[i], d, target)
    BY <2>3, <2>4, <2>5, NodeCodeIs
  <2> QED BY <2>2, <2>6
<1>6. f = Whole(f)
  <2>1. f = [i \in 1 .. Len(ast) |-> f[i]] BY <1>4
  <2> QED BY <1>1, <1>5, <2>1
<1>7. Code(ast) = CHOOSE h : h = Whole(h) BY DEF Code
<1> HIDE DEF Whole
<1>8. Code(ast) = Whole(Code(ast)) BY <1>6, <1>7
<1> DEFINE h == Code(ast)
<1>9. /\ DOMAIN h = 1 .. Len(ast)
      /\ \A i \in 1 .. Len(ast) : h[i] = [d \in Nat |-> [target \in Targets |-> NodeCode(h, ast, ast[i], d, target)]]
  BY <1>1, <1>8 DEF Whole
<1> DEFINE G == {i \in 1 .. Len(ast) : h[i] \in Generated}
<1> HIDE DEF h
<1>10. \A i \in 1 .. Len(ast) : i \in G
  <2>1. ASSUME NEW i \in 1 .. Len(ast), \A j \in 1 .. i - 1 : j \in G PROVE i \in G
    <3>1. 1 .. i - 1 \in SUBSET Nat OBVIOUS
    <3>2. Agree(h, h, 1 .. i - 1, Generated) BY <2>1 DEF Agree
    <3>3. ASSUME NEW d \in Nat, NEW target \in Targets PROVE NodeCode(h, ast, ast[i], d, target) \in Codes
      BY <1>1, <3>1, <3>2, NodeCodeIs
    <3>4. h[i] = [d \in Nat |-> [target \in Targets |-> NodeCode(h, ast, ast[i], d, target)]] BY <1>9
    <3>5. h[i] \in Generated BY <3>3, <3>4 DEF Generated
    <3> QED BY <3>5
  <2> HIDE DEF G
  <2> QED BY <1>1, <2>1, EarlierPlaces, Zenon
<1>11. h \in [1 .. Len(ast) -> Generated]
  <2>1. h = [i \in 1 .. Len(ast) |-> h[i]] BY <1>8, <1>1 DEF h, Whole
  <2> QED BY <1>10, <2>1
<1>12. ASSUME NEW i \in 1 .. Len(ast), NEW d \in Nat, NEW target \in Targets
       PROVE  h[i][d][target] = NodeCode(h, ast, ast[i], d, target)
  BY <1>9
<1> QED BY <1>11, <1>12 DEF h
-------------------------------------------------------------------------------
(***************************************************************************)
(* Execution.  A job is a code with the sign it was compiled for, the size *)
(* of its frame and the value it ought to return.  A state of a job is     *)
(* safe if, whatever the code leaves undefined, it goes on to read nothing *)
(* that was not written, to trap only if there is no value to return, and  *)
(* to return the value if there is one.                                    *)
(***************************************************************************)
Cells == Words \union {Junk}

Job == [body : Codes, unsigned : BOOLEAN, size : Nat, value : Words \union {Undef}]

States(k) == [pc : Nat \ {0}, regs : [0 .. 2 -> Cells], frame : [0 .. k.size - 1 -> Cells]]

At(s, x) ==
  CASE x[1] = "imm"  -> x[2]
    [] x[1] = "reg"  -> s.regs[x[2]]
    [] x[1] = "slot" -> IF x[2] \in DOMAIN s.frame THEN s.frame[x[2]] ELSE Junk

Put(s, x, w) ==
  [pc    |-> s.pc + 1,
   regs  |-> IF x[1] = "reg" THEN [s.regs EXCEPT ![x[2]] = w] ELSE s.regs,
   frame |-> IF x[1] = "slot" /\ x[2] \in DOMAIN s.frame THEN [s.frame EXCEPT ![x[2]] = w] ELSE s.frame]

Goto(s, p) == [pc |-> p, regs |-> s.regs, frame |-> s.frame]

Outcomes(r) == IF r = Undef THEN Words ELSE {r}

Moves(k, s, A) ==
  LET i == k.body[s.pc]
  IN  /\ i.op = "mov"
      /\ At(s, i.a) # Junk
      /\ i.dst[1] = "slot" => i.dst[2] \in DOMAIN s.frame
      /\ Put(s, i.dst, At(s, i.a)) \in A

Computes(k, s, A) ==
  LET i == k.body[s.pc]
      r == Binary(i.opr, At(s, i.a), At(s, i.b), k.unsigned)
  IN  /\ i.op = "alu"
      /\ At(s, i.a) # Junk /\ At(s, i.b) # Junk
      /\ r = Undef => k.value = Undef
      /\ \A w \in Outcomes(r) : Put(s, i.dst, w) \in A

Branches(k, s, A) ==
  LET i == k.body[s.pc]
  IN  /\ i.op = "cmp"
      /\ At(s, i.a) # Junk /\ At(s, i.b) # Junk
      /\ Goto(s, s.pc + 1 + Binary(i.opr, At(s, i.a), At(s, i.b), k.unsigned \/ i.signless) * i.skip) \in A

Jumps(k, s, A) ==
  LET i == k.body[s.pc]
  IN  i.op = "jump" /\ Goto(s, s.pc + 1 + i.skip) \in A

Returns(k, s) == k.value \in {Undef, s.regs[0]}

Allowed(k, s, A) ==
  IF s.pc > Len(k.body) THEN Returns(k, s)
  ELSE Moves(k, s, A) \/ Computes(k, s, A) \/ Branches(k, s, A) \/ Jumps(k, s, A)

Safe(k) == UNION {A \in SUBSET States(k) : \A s \in A : Allowed(k, s, A)}

\* A state allowed to reach some states may reach more of them.
LEMMA AllowedMore ==
  ASSUME NEW k, NEW s, NEW A, NEW B, A \subseteq B, Allowed(k, s, A)
  PROVE  Allowed(k, s, B)
<1>1. Moves(k, s, A) => Moves(k, s, B) BY DEF Moves
<1>2. Computes(k, s, A) => Computes(k, s, B) BY DEF Computes
<1>3. Branches(k, s, A) => Branches(k, s, B) BY DEF Branches
<1>4. Jumps(k, s, A) => Jumps(k, s, B) BY DEF Jumps
<1> QED BY <1>1, <1>2, <1>3, <1>4 DEF Allowed

\* A safe state may take its step, to safe states only; and one that may is safe.
LEMMA SafeIs ==
  ASSUME NEW k, NEW s \in Safe(k)
  PROVE  s \in States(k) /\ Allowed(k, s, Safe(k))
<1>1. PICK A \in SUBSET States(k) : s \in A /\ \A x \in A : Allowed(k, x, A) BY DEF Safe
<1>2. A \subseteq Safe(k) BY <1>1 DEF Safe
<1>3. Allowed(k, s, A) BY <1>1
<1> QED BY <1>1, <1>2, <1>3, AllowedMore

\* A state is safe if what it may do next is safe.
LEMMA SafeFrom ==
  ASSUME NEW k, NEW s \in States(k), Allowed(k, s, Safe(k))
  PROVE  s \in Safe(k)
<1> DEFINE B == Safe(k) \union {s}
<1>1. B \in SUBSET States(k) BY SafeIs
<1>2. Safe(k) \subseteq B OBVIOUS
<1>3. ASSUME NEW x \in B PROVE Allowed(k, x, B)
  <2>1. Allowed(k, x, Safe(k)) BY SafeIs
  <2> QED BY <1>2, <2>1, AllowedMore
<1>4. s \in B OBVIOUS
<1> HIDE DEF B
<1> QED BY <1>1, <1>3, <1>4 DEF Safe

\* c is at place o + 1 of body, and on.
HasAt(body, o, c) ==
  o \in Nat /\ o + Len(c) <= Len(body) /\ \A j \in 1 .. Len(c) : body[o + j] = c[j]

\* Code that holds two pieces holds each of them.
LEMMA HasParts ==
  ASSUME NEW body \in Codes, NEW o, NEW c \in Codes, NEW e \in Codes, HasAt(body, o, c \o e)
  PROVE  /\ HasAt(body, o, c) /\ HasAt(body, o + Len(c), e)
         /\ Len(c \o e) = Len(c) + Len(e) /\ Len(c) \in Nat /\ Len(e) \in Nat
<1>1. Len(c) \in Nat /\ Len(e) \in Nat /\ Len(body) \in Nat BY DEF Codes
<1>2. Len(c \o e) = Len(c) + Len(e) BY DEF Codes
<1>3. o \in Nat /\ o + Len(c) + Len(e) <= Len(body) BY <1>1, <1>2 DEF HasAt
<1>4. \A j \in 1 .. Len(c) + Len(e) : body[o + j] = (c \o e)[j] BY <1>2 DEF HasAt
<1>5. ASSUME NEW j \in 1 .. Len(c) PROVE body[o + j] = c[j]
  <2>1. j \in 1 .. Len(c) + Len(e) BY <1>1
  <2>2. (c \o e)[j] = c[j] BY <1>1, <2>1 DEF Codes
  <2> QED BY <1>4, <2>1, <2>2
<1>6. ASSUME NEW j \in 1 .. Len(e) PROVE body[o + Len(c) + j] = e[j]
  <2>1. Len(c) + j \in 1 .. Len(c) + Len(e) /\ Len(c) + j > Len(c) /\ (Len(c) + j) - Len(c) = j BY <1>1
  <2>2. (c \o e)[Len(c) + j] = e[j] BY <1>1, <2>1 DEF Codes
  <2>3. o + (Len(c) + j) = o + Len(c) + j BY <1>1, <1>3
  <2> QED BY <1>4, <2>1, <2>2, <2>3
<1> QED BY <1>1, <1>2, <1>3, <1>5, <1>6 DEF HasAt
Bad(k) == States(k) \ Safe(k)

\* How s2 differs from s after an instruction.
Loads(s, s2, r, w) ==
  /\ s2.pc = s.pc + 1 /\ s2.frame = s.frame
  /\ s2.regs[r] = w /\ \A q \in 0 .. 2 : q # r => s2.regs[q] = s.regs[q]

Stores(s, s2, j, w) ==
  /\ s2.pc = s.pc + 1 /\ s2.regs = s.regs
  /\ s2.frame[j] = w /\ \A q \in DOMAIN s.frame : q # j => s2.frame[q] = s.frame[q]

Turns(s, s2, p) == s2.pc = p /\ s2.regs = s.regs /\ s2.frame = s.frame

\* What writing a register or a slot changes.
LEMMA PutIs ==
  ASSUME NEW k \in Job, NEW s \in States(k), NEW w \in Words
  PROVE  /\ \A r \in 0 .. 2 : Put(s, <<"reg", r>>, w) \in States(k) /\ Loads(s, Put(s, <<"reg", r>>, w), r, w)
         /\ \A j \in 0 .. k.size - 1 :
              Put(s, <<"slot", j>>, w) \in States(k) /\ Stores(s, Put(s, <<"slot", j>>, w), j, w)
<1>1. /\ s.pc \in Nat \ {0} /\ s.pc + 1 \in Nat \ {0}
      /\ s.regs \in [0 .. 2 -> Cells] /\ s.frame \in [0 .. k.size - 1 -> Cells]
  BY DEF States
<1>2. w \in Cells BY DEF Cells
<1>3. ASSUME NEW r \in 0 .. 2
      PROVE  Put(s, <<"reg", r>>, w) \in States(k) /\ Loads(s, Put(s, <<"reg", r>>, w), r, w)
  <2>1. Put(s, <<"reg", r>>, w) = [pc |-> s.pc + 1, regs |-> [s.regs EXCEPT ![r] = w], frame |-> s.frame]
    BY DEF Put
  <2>2. [s.regs EXCEPT ![r] = w] \in [0 .. 2 -> Cells] BY <1>1, <1>2
  <2>3. [s.regs EXCEPT ![r] = w][r] = w /\ \A q \in 0 .. 2 : q # r => [s.regs EXCEPT ![r] = w][q] = s.regs[q]
    BY <1>1
  <2> QED BY <1>1, <2>1, <2>2, <2>3 DEF States, Loads
<1>4. ASSUME NEW j \in 0 .. k.size - 1
      PROVE  Put(s, <<"slot", j>>, w) \in States(k) /\ Stores(s, Put(s, <<"slot", j>>, w), j, w)
  <2>1. Put(s, <<"slot", j>>, w) = [pc |-> s.pc + 1, regs |-> s.regs, frame |-> [s.frame EXCEPT ![j] = w]]
    BY <1>1 DEF Put
  <2>2. PICK f \in [0 .. k.size - 1 -> Cells] :
           /\ f = [s.frame EXCEPT ![j] = w]
           /\ f[j] = w /\ \A q \in DOMAIN s.frame : q # j => f[q] = s.frame[q]
    <3>1. PICK g : g = s.frame OBVIOUS
    <3>2. g \in [0 .. k.size - 1 -> Cells] BY <1>1, <3>1
    <3>3. [g EXCEPT ![j] = w] \in [0 .. k.size - 1 -> Cells] BY <1>2, <3>2
    <3>4. [g EXCEPT ![j] = w][j] = w /\ \A q \in DOMAIN g : q # j => [g EXCEPT ![j] = w][q] = g[q] BY <3>2
    <3> QED BY <3>1, <3>3, <3>4
  <2>3. Put(s, <<"slot", j>>, w) = [pc |-> s.pc + 1, regs |-> s.regs, frame |-> f] BY <2>1, <2>2
  <2>4. Put(s, <<"slot", j>>, w) \in States(k) BY <1>1, <2>3 DEF States
  <2> QED BY <2>2, <2>3, <2>4 DEF Stores
<1> QED BY <1>3, <1>4

\* What moving the program counter changes.
LEMMA GotoIs ==
  ASSUME NEW k \in Job, NEW s \in States(k), NEW p \in Nat \ {0}
  PROVE  Goto(s, p) \in States(k) /\ Turns(s, Goto(s, p), p)
BY DEF Goto, States, Turns

WithinBody(k, s) == s.pc <= Len(k.body)

\* If a state is not safe, neither is one that an instruction leads to.
LEMMA BadLoad ==
  ASSUME NEW k \in Job, NEW s \in Bad(k), WithinBody(k, s), NEW r \in 0 .. 2, NEW a,
         k.body[s.pc] = Mov(<<"reg", r>>, a), At(s, a) \in Words
  PROVE  \E s2 \in Bad(k) : Loads(s, s2, r, At(s, a))
<1> DEFINE s2 == Put(s, <<"reg", r>>, At(s, a))
<1>1. s \in States(k) /\ s \notin Safe(k) BY DEF Bad
<1>2. s2 \in States(k) /\ Loads(s, s2, r, At(s, a)) BY <1>1, PutIs
<1>3. s2 \in Safe(k) => Moves(k, s, Safe(k))
  <2>1. At(s, a) # Junk BY ExpressionAssumption
  <2> QED BY <2>1 DEF Moves, Mov
<1>4. ~Allowed(k, s, Safe(k)) BY <1>1, SafeFrom
<1>5. s.pc \in Nat /\ Len(k.body) \in Nat /\ ~(s.pc > Len(k.body)) BY <1>1 DEF WithinBody, States, Job, Codes
<1> HIDE DEF s2
<1>6. s2 \in Bad(k) BY <1>2, <1>3, <1>4, <1>5 DEF Allowed, Bad
<1> QED BY <1>2, <1>6

\* A bad state that is about to store has a bad successor.
LEMMA BadStore ==
  ASSUME NEW k \in Job, NEW s \in Bad(k), WithinBody(k, s), NEW j \in 0 .. k.size - 1, NEW a,
         k.body[s.pc] = Mov(<<"slot", j>>, a), At(s, a) \in Words
  PROVE  \E s2 \in Bad(k) : Stores(s, s2, j, At(s, a))
<1> DEFINE s2 == Put(s, <<"slot", j>>, At(s, a))
<1>1. s \in States(k) /\ s \notin Safe(k) BY DEF Bad
<1>2. s2 \in States(k) /\ Stores(s, s2, j, At(s, a)) BY <1>1, PutIs
<1>3. s2 \in Safe(k) => Moves(k, s, Safe(k))
  <2>1. At(s, a) # Junk BY ExpressionAssumption
  <2>2. j \in DOMAIN s.frame BY <1>1 DEF States
  <2> QED BY <2>1, <2>2 DEF Moves, Mov
<1>4. ~Allowed(k, s, Safe(k)) BY <1>1, SafeFrom
<1>5. s.pc \in Nat /\ Len(k.body) \in Nat /\ ~(s.pc > Len(k.body)) BY <1>1 DEF WithinBody, States, Job, Codes
<1> HIDE DEF s2
<1>6. s2 \in Bad(k) BY <1>2, <1>3, <1>4, <1>5 DEF Allowed, Bad
<1> QED BY <1>2, <1>6

\* So has one that computes, unless it may trap there.
LEMMA BadAlu ==
  ASSUME NEW k \in Job, NEW s \in Bad(k), WithinBody(k, s), NEW r \in 0 .. 2, NEW a, NEW b,
         NEW opr \in BinaryOprs,
         k.body[s.pc] = Alu(opr, <<"reg", r>>, a, b), At(s, a) \in Words, At(s, b) \in Words,
         Binary(opr, At(s, a), At(s, b), k.unsigned) = Undef => k.value = Undef
  PROVE  \E s2 \in Bad(k), w \in Words :
           /\ Loads(s, s2, r, w)
           /\ Binary(opr, At(s, a), At(s, b), k.unsigned) \in {Undef, w}
<1> DEFINE v == Binary(opr, At(s, a), At(s, b), k.unsigned)
<1>1. s \in States(k) /\ s \notin Safe(k) BY DEF Bad
<1>2. k.unsigned \in BOOLEAN BY DEF Job
<1>3. v \in Words \union {Undef} BY <1>2, BinaryIs
<1>4. Outcomes(v) \subseteq Words /\ \A w \in Outcomes(v) : v \in {Undef, w} BY <1>3 DEF Outcomes
<1>5. At(s, a) # Junk /\ At(s, b) # Junk BY ExpressionAssumption
<1>6. (\A w \in Outcomes(v) : Put(s, <<"reg", r>>, w) \in Safe(k)) => Computes(k, s, Safe(k))
  BY <1>5 DEF Computes, Alu
<1>7. ~Allowed(k, s, Safe(k)) BY <1>1, SafeFrom
<1>8. s.pc \in Nat /\ Len(k.body) \in Nat /\ ~(s.pc > Len(k.body)) BY <1>1 DEF WithinBody, States, Job, Codes
<1> HIDE DEF v
<1>9. PICK w \in Outcomes(v) : Put(s, <<"reg", r>>, w) \notin Safe(k) BY <1>6, <1>7, <1>8 DEF Allowed
<1>10. w \in Words /\ v \in {Undef, w} BY <1>4
<1>11. Put(s, <<"reg", r>>, w) \in States(k) /\ Loads(s, Put(s, <<"reg", r>>, w), r, w) BY <1>1, <1>10, PutIs
<1>12. Put(s, <<"reg", r>>, w) \in Bad(k) BY <1>9, <1>11 DEF Bad
<1> QED BY <1>10, <1>11, <1>12 DEF v

\* s is before a jump over n instructions that is taken if v is 1.
Tests(k, s, i, n, v) ==
  /\ i.op = "cmp" /\ i.opr \in Comparisons /\ i.signless \in BOOLEAN /\ i.skip = n /\ n \in Nat
  /\ At(s, i.a) \in Words /\ At(s, i.b) \in Words
  /\ v = Binary(i.opr, At(s, i.a), At(s, i.b), k.unsigned \/ i.signless)

\* So has one that tests and branches.
LEMMA BadCmp ==
  ASSUME NEW k \in Job, NEW s \in Bad(k), WithinBody(k, s), NEW n, NEW v,
         Tests(k, s, k.body[s.pc], n, v)
  PROVE  \E s2 \in Bad(k) : Turns(s, s2, IF v = 1 THEN s.pc + 1 + n ELSE s.pc + 1)
<1> DEFINE s2 == Goto(s, s.pc + 1 + v * n)
<1>1. s \in States(k) /\ s \notin Safe(k) BY DEF Bad
<1> DEFINE i == k.body[s.pc]
<1>2. /\ i.op = "cmp" /\ i.opr \in Comparisons /\ i.signless \in BOOLEAN /\ i.skip = n /\ n \in Nat
      /\ At(s, i.a) \in Words /\ At(s, i.b) \in Words
      /\ v = Binary(i.opr, At(s, i.a), At(s, i.b), k.unsigned \/ i.signless)
  BY DEF Tests
<1>3. v \in {0, 1}
  <2>1. i.opr \in BinaryOprs BY <1>2 DEF BinaryOprs
  <2>2. (k.unsigned \/ i.signless) \in BOOLEAN OBVIOUS
  <2> QED BY <1>2, <2>1, <2>2, BinaryIs
<1>4. s.pc \in Nat /\ s.pc + 1 + v * n \in Nat \ {0}
  <2>1. s.pc \in Nat \ {0} BY <1>1 DEF States
  <2>2. v * n \in Nat BY <1>2, <1>3
  <2> QED BY <2>1, <2>2
<1>5. s2 \in States(k) /\ Turns(s, s2, s.pc + 1 + v * n) BY <1>1, <1>4, GotoIs
<1>6. s2 \in Safe(k) => Branches(k, s, Safe(k))
  <2>1. At(s, i.a) # Junk /\ At(s, i.b) # Junk BY <1>2, ExpressionAssumption
  <2> QED BY <1>2, <2>1 DEF Branches
<1>7. ~Allowed(k, s, Safe(k)) BY <1>1, SafeFrom
<1>8. s.pc \in Nat /\ Len(k.body) \in Nat /\ ~(s.pc > Len(k.body)) BY <1>1 DEF WithinBody, States, Job, Codes
<1> HIDE DEF s2
<1>9. s2 \in Bad(k) BY <1>5, <1>6, <1>7, <1>8 DEF Allowed, Bad
<1>10. s.pc + 1 + v * n = IF v = 1 THEN s.pc + 1 + n ELSE s.pc + 1 BY <1>2, <1>3, <1>8
<1> QED BY <1>5, <1>9, <1>10

\* So has one that jumps.
LEMMA BadJump ==
  ASSUME NEW k \in Job, NEW s \in Bad(k), WithinBody(k, s), NEW n \in Nat, k.body[s.pc] = Jump(n)
  PROVE  \E s2 \in Bad(k) : Turns(s, s2, s.pc + 1 + n)
<1> DEFINE s2 == Goto(s, s.pc + 1 + n)
<1>1. s \in States(k) /\ s \notin Safe(k) BY DEF Bad
<1>2. s.pc \in Nat /\ s.pc + 1 + n \in Nat \ {0} BY <1>1 DEF States
<1>3. s2 \in States(k) /\ Turns(s, s2, s.pc + 1 + n) BY <1>1, <1>2, GotoIs
<1>4. s2 \in Safe(k) => Jumps(k, s, Safe(k)) BY DEF Jumps, Jump
<1>5. ~Allowed(k, s, Safe(k)) BY <1>1, SafeFrom
<1>6. s.pc \in Nat /\ Len(k.body) \in Nat /\ ~(s.pc > Len(k.body)) BY <1>1 DEF WithinBody, States, Job, Codes
<1> HIDE DEF s2
<1>7. s2 \in Bad(k) BY <1>3, <1>4, <1>5, <1>6 DEF Allowed, Bad
<1> QED BY <1>3, <1>7
-------------------------------------------------------------------------------
\* How the words compare.
LEMMA ComparisonIs ==
  ASSUME NEW a \in Words, NEW b \in Words, NEW u \in BOOLEAN
  PROVE  /\ Binary("=", a, b, u) = (IF a = b THEN 1 ELSE 0)
         /\ Binary("!=", a, b, u) = (IF a = b THEN 0 ELSE 1)
         /\ u => /\ Binary(">", a, b, u) = (IF a > b THEN 1 ELSE 0)
                 /\ Binary("<", a, b, u) = (IF a < b THEN 1 ELSE 0)
<1>1. Undef # a /\ Undef # b OBVIOUS
<1>2. AsSigned(a) = AsSigned(b) <=> a = b
  <2>1. PICK M \in Nat, P \in Nat : /\ M = 2 * P /\ P > 0 /\ Words = 0 .. M - 1
                                    /\ \A w : AsSigned(w) = IF w < P THEN w ELSE w - M
    BY WordIs
  <2>2. a \in 0 .. M - 1 /\ b \in 0 .. M - 1 BY <2>1
  <2> QED BY <2>1, <2>2
<1>3. \A opr \in Comparisons : opr \notin Divisions /\ opr \notin Shifts /\ opr \notin {"+", "-", "*", "&", "|", "&&", "||"}
  BY DEF Comparisons, Divisions, Shifts
<1>4. {"=", "!=", ">", "<"} \subseteq Comparisons BY DEF Comparisons
<1>5. CASE u = TRUE
  <2>1. \A opr \in Comparisons : Binary(opr, a, b, TRUE) = Truth(Compares(opr, a, b))
    BY <1>1, <1>3 DEF Binary
  <2>2. (Compares("=", a, b) <=> a = b) /\ (Compares("!=", a, b) <=> a # b)
    BY DEF Compares
  <2>3. (Compares(">", a, b) <=> a > b) /\ (Compares("<", a, b) <=> a < b) BY DEF Compares
  <2> QED BY <1>4, <1>5, <2>1, <2>2, <2>3 DEF Truth
<1>6. CASE u = FALSE
  <2> DEFINE x == AsSigned(a)
             y == AsSigned(b)
  <2>1. \A opr \in Comparisons : Binary(opr, a, b, FALSE) = Truth(Compares(opr, x, y))
    BY <1>1, <1>3 DEF Binary
  <2>2. Binary("=", a, b, FALSE) = Truth(Compares("=", x, y)) /\ Binary("!=", a, b, FALSE) = Truth(Compares("!=", x, y))
    BY <1>4, <2>1
  <2>3. x = y <=> a = b BY <1>2
  <2> HIDE DEF x, y
  <2>4. (Compares("=", x, y) <=> x = y) /\ (Compares("!=", x, y) <=> x # y) BY DEF Compares
  <2> QED BY <1>6, <2>2, <2>3, <2>4 DEF Truth
<1> QED BY <1>5, <1>6

\* The instruction a state is at.
Here(k, s, o, c, j) == HasAt(k.body, o, c) /\ Len(c) \in Nat /\ j \in 1 .. Len(c) /\ s.pc = o + j

\* The instruction at a place within a piece of the code.
LEMMA HereIs ==
  ASSUME NEW k \in Job, NEW s \in Bad(k), NEW o, NEW c, NEW j, Here(k, s, o, c, j)
  PROVE  WithinBody(k, s) /\ k.body[s.pc] = c[j]
<1>1. Len(k.body) \in Nat BY DEF Job, Codes
<1> QED BY <1>1 DEF Here, HasAt, WithinBody

\* What is known of a bad state.
LEMMA BadIs ==
  ASSUME NEW k \in Job, NEW s \in Bad(k)
  PROVE  /\ s \in States(k) /\ s \notin Safe(k) /\ s.pc \in Nat \ {0}
         /\ s.regs \in [0 .. 2 -> Cells] /\ s.frame \in [0 .. k.size - 1 -> Cells]
         /\ k.body \in Codes /\ k.unsigned \in BOOLEAN /\ k.size \in Nat /\ k.value \in Words \union {Undef}
BY DEF Bad, States, Job

\* The operands of an instruction.
LEMMA OperandAt ==
  ASSUME NEW k \in Job, NEW s \in Bad(k)
  PROVE  /\ R0 = <<"reg", 0>> /\ R1 = <<"reg", 1>> /\ R2 = <<"reg", 2>>
         /\ At(s, R0) = s.regs[0] /\ At(s, R1) = s.regs[1] /\ At(s, R2) = s.regs[2]
         /\ \A w : At(s, Imm(w)) = w
         /\ \A j \in 0 .. k.size - 1 : At(s, <<"slot", j>>) = s.frame[j]
         /\ \A d : Slot(d) = <<"slot", LocalSize + d>>
<1>1. DOMAIN s.frame = 0 .. k.size - 1 BY BadIs
<1> QED BY <1>1 DEF At, R0, R1, R2, Imm, Slot

Ends(s, s2, p, v) ==
  s2.pc = p /\ s2.frame = s.frame /\ s2.regs[0] \in Words /\ v \in {Undef, s2.regs[0]}

\* The end of a comparator leaves 1 or 0 behind the place it is entered at.
LEMMA OutcomeRuns ==
  ASSUME NEW k \in Job, NEW s \in Bad(k), NEW o, NEW yes \in {0, 1},
         HasAt(k.body, o, SetOutcome(yes)), s.pc \in {o + 1, o + 3}
  PROVE  \E s2 \in Bad(k) : Ends(s, s2, o + 4, IF s.pc = o + 1 THEN 1 - yes ELSE yes)
<1> DEFINE c == SetOutcome(yes)
<1>1. o \in Nat BY DEF HasAt
<1>2. Len(c) = 3 /\ c[1] = Mov(R0, Imm(1 - yes)) /\ c[2] = Jump(1) /\ c[3] = Mov(R0, Imm(yes))
  BY DEF SetOutcome
<1> HIDE DEF c
<1>3. HasAt(k.body, o, c) BY DEF c
<1>4. 1 - yes \in Words /\ yes \in Words BY WrappedIs
<1>5. CASE s.pc = o + 1
  <2>1. WithinBody(k, s) /\ k.body[s.pc] = Mov(<<"reg", 0>>, Imm(1 - yes))
    <3>1. Here(k, s, o, c, 1) BY <1>2, <1>3, <1>5 DEF Here
    <3> QED BY <1>2, <3>1, HereIs, OperandAt
  <2>2. At(s, Imm(1 - yes)) = 1 - yes BY OperandAt
  <2>3. PICK s1 \in Bad(k) : Loads(s, s1, 0, 1 - yes) BY <1>4, <2>1, <2>2, BadLoad
  <2>4. s1.pc = o + 2 /\ s1.frame = s.frame /\ s1.regs[0] = 1 - yes BY <1>1, <1>5, <2>3 DEF Loads
  <2>5. WithinBody(k, s1) /\ k.body[s1.pc] = Jump(1)
    <3>1. Here(k, s1, o, c, 2) BY <1>2, <1>3, <2>4 DEF Here
    <3> QED BY <1>2, <3>1, HereIs
  <2>6. PICK s2 \in Bad(k) : Turns(s1, s2, s1.pc + 1 + 1) BY <2>5, BadJump
  <2>7. s2.pc = o + 4 /\ s2.frame = s.frame /\ s2.regs[0] = 1 - yes BY <1>1, <2>4, <2>6 DEF Turns
  <2> QED BY <1>4, <1>5, <2>7 DEF Ends
<1>6. CASE s.pc = o + 3
  <2>1. WithinBody(k, s) /\ k.body[s.pc] = Mov(<<"reg", 0>>, Imm(yes))
    <3>1. Here(k, s, o, c, 3) BY <1>2, <1>3, <1>6 DEF Here
    <3> QED BY <1>2, <3>1, HereIs, OperandAt
  <2>2. At(s, Imm(yes)) = yes BY OperandAt
  <2>3. PICK s1 \in Bad(k) : Loads(s, s1, 0, yes) BY <1>4, <2>1, <2>2, BadLoad
  <2>4. s1.pc = o + 4 /\ s1.frame = s.frame /\ s1.regs[0] = yes BY <1>1, <1>6, <2>3 DEF Loads
  <2>5. s.pc # o + 1 BY <1>1, <1>6
  <2> QED BY <1>4, <2>4, <2>5 DEF Ends
<1> QED BY <1>5, <1>6

\* A load at a place within a piece of the code.
LEMMA BadLoadAt ==
  ASSUME NEW k \in Job, NEW s \in Bad(k), NEW o, NEW c, NEW j, Here(k, s, o, c, j),
         NEW r \in 0 .. 2, NEW a, c[j] = Mov(<<"reg", r>>, a), At(s, a) \in Words
  PROVE  \E s2 \in Bad(k) : Loads(s, s2, r, At(s, a))
<1>1. WithinBody(k, s) /\ k.body[s.pc] = Mov(<<"reg", r>>, a) BY HereIs
<1> QED BY <1>1, BadLoad

\* A store there.
LEMMA BadStoreAt ==
  ASSUME NEW k \in Job, NEW s \in Bad(k), NEW o, NEW c, NEW i, Here(k, s, o, c, i),
         NEW j \in 0 .. k.size - 1, NEW a, c[i] = Mov(<<"slot", j>>, a), At(s, a) \in Words
  PROVE  \E s2 \in Bad(k) : Stores(s, s2, j, At(s, a))
<1>1. WithinBody(k, s) /\ k.body[s.pc] = Mov(<<"slot", j>>, a) BY HereIs
<1> QED BY <1>1, BadStore

\* A computation there.
LEMMA BadAluAt ==
  ASSUME NEW k \in Job, NEW s \in Bad(k), NEW o, NEW c, NEW j, Here(k, s, o, c, j),
         NEW r \in 0 .. 2, NEW a, NEW b, NEW opr \in BinaryOprs,
         c[j] = Alu(opr, <<"reg", r>>, a, b), At(s, a) \in Words, At(s, b) \in Words,
         NEW v, v = Binary(opr, At(s, a), At(s, b), k.unsigned), v = Undef => k.value = Undef
  PROVE  \E s2 \in Bad(k), w \in Words : Loads(s, s2, r, w) /\ v \in {Undef, w}
<1>1. WithinBody(k, s) /\ k.body[s.pc] = Alu(opr, <<"reg", r>>, a, b) BY HereIs
<1> QED BY <1>1, BadAlu

\* What the two conditional jumps decide on.
LEMMA TestsAre ==
  ASSUME NEW k \in Job, NEW s \in Bad(k), NEW a, NEW b, NEW opr \in Comparisons, NEW n \in Nat,
         At(s, a) \in Words, At(s, b) \in Words
  PROVE  /\ Tests(k, s, JumpIf(opr, a, b, n), n, Binary(opr, At(s, a), At(s, b), k.unsigned))
         /\ Tests(k, s, JumpIfU(opr, a, b, n), n, Binary(opr, At(s, a), At(s, b), TRUE))
<1>1. k.unsigned \in BOOLEAN BY BadIs
<1>2. (k.unsigned \/ FALSE) = k.unsigned /\ (k.unsigned \/ TRUE) = TRUE BY <1>1
<1>3. Tests(k, s, JumpIf(opr, a, b, n), n, Binary(opr, At(s, a), At(s, b), k.unsigned))
  <2>1. JumpIf(opr, a, b, n).signless = FALSE BY DEF JumpIf
  <2>2. (k.unsigned \/ JumpIf(opr, a, b, n).signless) = k.unsigned BY <1>2, <2>1
  <2> QED BY <2>2 DEF Tests, JumpIf
<1>4. Tests(k, s, JumpIfU(opr, a, b, n), n, Binary(opr, At(s, a), At(s, b), TRUE))
  <2>1. JumpIfU(opr, a, b, n).signless = TRUE BY DEF JumpIfU
  <2>2. (k.unsigned \/ JumpIfU(opr, a, b, n).signless) = TRUE BY <1>2, <2>1
  <2> QED BY <2>2 DEF Tests, JumpIfU
<1> QED BY <1>3, <1>4

\* x is whether the jump is taken.
LEMMA BadBranch ==
  ASSUME NEW k \in Job, NEW s \in Bad(k), NEW o, NEW c, NEW j, Here(k, s, o, c, j),
         NEW n \in Nat, NEW x, Tests(k, s, c[j], n, x)
  PROVE  \E s2 \in Bad(k) : Turns(s, s2, IF x = 1 THEN s.pc + 1 + n ELSE s.pc + 1)
<1>1. WithinBody(k, s) /\ k.body[s.pc] = c[j] BY HereIs
<1> QED BY <1>1, BadCmp

\* A jump at a place within a piece of the code.
LEMMA BadJumpAt ==
  ASSUME NEW k \in Job, NEW s \in Bad(k), NEW o, NEW c, NEW j, Here(k, s, o, c, j),
         NEW n \in Nat, c[j] = Jump(n)
  PROVE  \E s2 \in Bad(k) : Turns(s, s2, s.pc + 1 + n)
<1>1. WithinBody(k, s) /\ k.body[s.pc] = Jump(n) BY HereIs
<1> QED BY <1>1, BadJump

\* What the code of a unary operator computes: that of "!" the truth of its operand.
CodedUnary(opr, a) == IF opr = "!" /\ a # Undef THEN Truth(a # 0) ELSE Unary(opr, a)

\* Two jumps that test R0 and R1 and the outcome they select.
LEMMA TestRuns ==
  ASSUME NEW k \in Job, NEW s \in Bad(k), NEW o, NEW c \in Codes, NEW yes \in {0, 1},
         HasAt(k.body, o, c \o SetOutcome(yes)), NEW x \in {1 - yes, yes}, NEW s1 \in Bad(k),
         Turns(s, s1, o + Len(c) + (IF x = yes THEN 3 ELSE 1))
  PROVE  \E s2 \in Bad(k) : Ends(s, s2, o + 1 + Len(c \o SetOutcome(yes)), x)
<1>1. SetOutcome(yes) \in Codes BY OutcomeIs
<1>2. HasAt(k.body, o + Len(c), SetOutcome(yes)) /\ Len(c) \in Nat /\ Len(c \o SetOutcome(yes)) = Len(c) + 3
  <2>1. Len(SetOutcome(yes)) = 3 BY DEF SetOutcome
  <2>2. k.body \in Codes BY DEF Job
  <2>3. HasAt(k.body, o + Len(c), SetOutcome(yes)) /\ Len(c \o SetOutcome(yes)) = Len(c) + Len(SetOutcome(yes)) /\ Len(c) \in Nat
    BY <1>1, <2>2, HasParts
  <2> QED BY <2>1, <2>3
<1>3. o \in Nat BY DEF HasAt
<1>4. s1.pc = o + Len(c) + (IF x = yes THEN 3 ELSE 1) /\ s1.frame = s.frame BY DEF Turns
<1>5. PICK s2 \in Bad(k) : Ends(s1, s2, o + Len(c) + 4, IF s1.pc = o + Len(c) + 1 THEN 1 - yes ELSE yes)
  <2>1. s1.pc \in {o + Len(c) + 1, o + Len(c) + 3} BY <1>4
  <2> QED BY <1>2, <2>1, OutcomeRuns
<1>6. x = IF s1.pc = o + Len(c) + 1 THEN 1 - yes ELSE yes
  <2>1. o + Len(c) \in Nat BY <1>2, <1>3
  <2> QED BY <1>4, <2>1
<1>7. o + Len(c) + 4 = o + 1 + Len(c \o SetOutcome(yes)) BY <1>2, <1>3
<1> QED BY <1>4, <1>5, <1>6, <1>7 DEF Ends

\* The code of a unary operator leaves its result in the first register.
LEMMA UnaryRuns ==
  ASSUME NEW k \in Job, NEW s \in Bad(k), NEW o, NEW opr \in UnaryOprs,
         HasAt(k.body, o, UnaryCode(opr)), s.pc = o + 1, s.regs[0] \in Words
  PROVE  \E s2 \in Bad(k) : Ends(s, s2, o + 1 + Len(UnaryCode(opr)), CodedUnary(opr, s.regs[0]))
<1>1. o \in Nat BY DEF HasAt
<1>2. PICK a \in Words : a = s.regs[0] OBVIOUS
<1>3. a # Undef /\ k.unsigned \in BOOLEAN BY <1>2, BadIs
<1>4. At(s, R0) = a BY <1>2, OperandAt
<1>5. ASSUME NEW z \in Words, UnaryCode(opr) = <<Alu("-", R0, Imm(z), R0)>>,
             Binary("-", z, a, k.unsigned) = CodedUnary(opr, a)
      PROVE  \E s2 \in Bad(k) : Ends(s, s2, o + 1 + Len(UnaryCode(opr)), CodedUnary(opr, a))
  <2>1. Len(UnaryCode(opr)) = 1 /\ UnaryCode(opr)[1] = Alu("-", <<"reg", 0>>, Imm(z), R0)
    BY <1>5 DEF R0
  <2>2. Here(k, s, o, UnaryCode(opr), 1) BY <2>1 DEF Here
  <2>4. At(s, Imm(z)) = z BY OperandAt
  <2>5. "-" \in BinaryOprs /\ "-" \notin Divisions \union Shifts BY DEF BinaryOprs, Divisions, Shifts
  <2>6. Binary("-", z, a, k.unsigned) \in Words BY <1>3, <2>5, BinaryIs
  <2>7. Binary("-", z, a, k.unsigned) # Undef BY <2>6
  <2>8. PICK s2 \in Bad(k), w \in Words :
           Loads(s, s2, 0, w) /\ Binary("-", z, a, k.unsigned) \in {Undef, w}
    BY <1>4, <2>1, <2>2, <2>4, <2>5, <2>7, BadAluAt
  <2> QED BY <1>1, <1>5, <2>1, <2>8 DEF Ends, Loads
<1>6. CASE opr = "-"
  <2>1. UnaryCode(opr) = <<Alu("-", R0, Imm(0), R0)>> /\ CodedUnary(opr, a) = Unary("-", a)
    BY <1>6 DEF UnaryCode, CodedUnary
  <2>2. 0 \in Words /\ Binary("-", 0, a, k.unsigned) = Unary("-", a) BY <1>3, SubtractionIs
  <2> QED BY <1>2, <1>5, <2>1, <2>2
<1>7. CASE opr = "~"
  <2>1. UnaryCode(opr) = <<Alu("-", R0, Imm(Wrapped(0 - 1)), R0)>> /\ CodedUnary(opr, a) = Unary("~", a)
    BY <1>7 DEF UnaryCode, CodedUnary
  <2>2. Wrapped(0 - 1) \in Words /\ Binary("-", Wrapped(0 - 1), a, k.unsigned) = Unary("~", a)
    BY <1>3, SubtractionIs
  <2> QED BY <1>2, <1>5, <2>1, <2>2
<1>8. CASE opr = "!"
  <2> DEFINE c == <<JumpIf("=", R0, Imm(0), 2)>>
  <2>1. UnaryCode(opr) = c \o SetOutcome(0) /\ CodedUnary(opr, a) = Truth(a # 0)
    BY <1>3, <1>8 DEF UnaryCode, CodedUnary
  <2>2. Len(c) = 1 /\ c[1] = JumpIf("=", R0, Imm(0), 2) OBVIOUS
  <2>3. c \in Codes
    <3>1. R0 \in Operand /\ Imm(0) \in Operand BY WrappedIs, OperandsAre
    <3>2. "=" \in Comparisons BY DEF Comparisons
    <3> QED BY <3>1, <3>2, InstructionsAre, JoinIs
  <2> HIDE DEF c
  <2>4. HasAt(k.body, o, c \o SetOutcome(0)) BY <2>1
  <2>5. HasAt(k.body, o, c) BY <2>3, <2>4, BadIs, HasParts, OutcomeIs
  <2>6. Here(k, s, o, c, 1) BY <2>2, <2>5 DEF Here
  <2>7. At(s, Imm(0)) = 0 /\ 0 \in Words /\ "=" \in Comparisons BY OperandAt, WrappedIs DEF Comparisons
  <2>8. PICK x \in {0, 1} : x = Binary("=", a, 0, k.unsigned) /\ (x = 1 <=> a = 0)
    <3>1. Binary("=", a, 0, k.unsigned) = (IF a = 0 THEN 1 ELSE 0) BY <1>3, <2>7, ComparisonIs
    <3> QED BY <3>1
  <2>9. PICK s1 \in Bad(k) : Turns(s, s1, IF x = 1 THEN s.pc + 1 + 2 ELSE s.pc + 1)
    <3>1. Tests(k, s, c[1], 2, x) BY <1>4, <2>2, <2>7, <2>8, TestsAre
    <3> QED BY <2>6, <3>1, BadBranch
  <2>11. Truth(a # 0) = 1 - x BY <2>8 DEF Truth
  <2>12. Turns(s, s1, o + Len(c) + (IF Truth(a # 0) = 0 THEN 3 ELSE 1))
    <3>1. CASE x = 1
      <4>1. Truth(a # 0) = 0 /\ s.pc + 1 + 2 = o + Len(c) + 3 BY <1>1, <2>2, <2>11, <3>1
      <4> QED BY <2>9, <3>1, <4>1
    <3>2. CASE x = 0
      <4>1. Truth(a # 0) = 1 /\ s.pc + 1 = o + Len(c) + 1 BY <1>1, <2>2, <2>11, <3>2
      <4> QED BY <2>9, <3>2, <4>1
    <3> QED BY <3>1, <3>2
  <2>14. Truth(a # 0) \in {1 - 0, 0} BY DEF Truth
  <2>13. \E s2 \in Bad(k) : Ends(s, s2, o + 1 + Len(c \o SetOutcome(0)), Truth(a # 0))
    BY <2>3, <2>4, <2>12, <2>14, TestRuns
  <2> QED BY <1>2, <2>1, <2>13
<1> QED BY <1>6, <1>7, <1>8 DEF UnaryOprs

\* The two logical operators, by the zeros they test for.
LEMMA LogicIs ==
  ASSUME NEW a \in Words, NEW b \in Words, NEW u \in BOOLEAN
  PROVE  /\ Binary("&&", a, b, u) = (IF a # 0 /\ b # 0 THEN 1 ELSE 0)
         /\ Binary("||", a, b, u) = (IF a # 0 \/ b # 0 THEN 1 ELSE 0)
<1>1. Undef # a /\ Undef # b OBVIOUS
<1>2. /\ "&&" \notin Comparisons /\ "&&" \notin Divisions /\ "&&" \notin Shifts
      /\ "||" \notin Comparisons /\ "||" \notin Divisions /\ "||" \notin Shifts
  BY DEF Comparisons, Divisions, Shifts
<1>3. Binary("&&", a, b, u) = Truth(a # 0 /\ b # 0) BY <1>1, <1>2 DEF Binary
<1>4. Binary("||", a, b, u) = Truth(a # 0 \/ b # 0) BY <1>1, <1>2 DEF Binary
<1> QED BY <1>3, <1>4 DEF Truth

\* Two words are in R0 and R1.
LEMMA BinaryRuns ==
  ASSUME NEW k \in Job, NEW s \in Bad(k), NEW o, NEW opr \in BinaryOprs,
         HasAt(k.body, o, BinaryCode(opr)), s.pc = o + 1,
         NEW a \in Words, NEW b \in Words, s.regs[0] = a, s.regs[1] = b,
         NEW v, v = Binary(opr, a, b, k.unsigned), v = Undef => k.value = Undef
  PROVE  \E s2 \in Bad(k) : Ends(s, s2, o + 1 + Len(BinaryCode(opr)), v)
<1>1. o \in Nat BY DEF HasAt
<1>2. At(s, R0) = a /\ At(s, R1) = b /\ At(s, Imm(0)) = 0 /\ 0 \in Words BY OperandAt, WrappedIs
<1>3. k.body \in Codes /\ k.unsigned \in BOOLEAN BY BadIs
<1>4. R0 = <<"reg", 0>> /\ R1 = <<"reg", 1>> BY DEF R0, R1
<1>5. R0 \in Operand /\ R1 \in Operand /\ Imm(0) \in Operand BY <1>2, OperandsAre
<1>6. CASE opr \in Comparisons
  <2> DEFINE c == <<JumpIf(opr, R0, R1, 2)>>
  <2>1. BinaryCode(opr) = c \o SetOutcome(1)
    <3>1. opr \notin {"&&", "||", "%"} BY <1>6 DEF Comparisons
    <3> QED BY <1>6, <3>1 DEF BinaryCode
  <2>2. Len(c) = 1 /\ c[1] = JumpIf(opr, R0, R1, 2) OBVIOUS
  <2>3. c \in Codes BY <1>5, <1>6, InstructionsAre, JoinIs
  <2> HIDE DEF c
  <2>4. HasAt(k.body, o, c \o SetOutcome(1)) BY <2>1
  <2>5. HasAt(k.body, o, c) BY <1>3, <2>3, <2>4, HasParts, OutcomeIs
  <2>6. Here(k, s, o, c, 1) BY <2>2, <2>5 DEF Here
  <2>7. Tests(k, s, c[1], 2, v) BY <1>2, <1>6, <2>2, TestsAre
  <2>8. PICK s1 \in Bad(k) : Turns(s, s1, IF v = 1 THEN s.pc + 1 + 2 ELSE s.pc + 1) BY <2>6, <2>7, BadBranch
  <2>9. v \in {0, 1} BY <1>3, <1>6, BinaryIs
  <2>10. (IF v = 1 THEN s.pc + 1 + 2 ELSE s.pc + 1) = o + Len(c) + (IF v = 1 THEN 3 ELSE 1)
    BY <1>1, <2>2, <2>9
  <2>11. Turns(s, s1, o + Len(c) + (IF v = 1 THEN 3 ELSE 1)) BY <2>8, <2>10
  <2>12. v \in {1 - 1, 1} BY <2>9
  <2>13. \E s2 \in Bad(k) : Ends(s, s2, o + 1 + Len(c \o SetOutcome(1)), v)
    BY <2>3, <2>4, <2>11, <2>12, TestRuns
  <2> QED BY <2>1, <2>13
<1>7. CASE opr = "&&"
  <2> DEFINE c == <<JumpIf("=", R0, Imm(0), 3), JumpIf("=", R1, Imm(0), 2)>>
  <2>1. BinaryCode(opr) = c \o SetOutcome(0) BY <1>7 DEF BinaryCode, Comparisons
  <2>2. Len(c) = 2 /\ c[1] = JumpIf("=", R0, Imm(0), 3) /\ c[2] = JumpIf("=", R1, Imm(0), 2) OBVIOUS
  <2>20. "=" \in Comparisons BY DEF Comparisons
  <2>3. c \in Codes BY <1>5, <2>20, InstructionsAre, JoinIs
  <2> HIDE DEF c
  <2>4. HasAt(k.body, o, c \o SetOutcome(0)) BY <2>1
  <2>5. HasAt(k.body, o, c) BY <1>3, <2>3, <2>4, HasParts, OutcomeIs
  <2>6. v = IF a # 0 /\ b # 0 THEN 1 ELSE 0 BY <1>3, <1>7, LogicIs
  <2>7. PICK x : x = Binary("=", a, 0, k.unsigned) OBVIOUS
  <2>8. x = IF a = 0 THEN 1 ELSE 0 BY <1>2, <1>3, <2>7, ComparisonIs
  <2>9. Here(k, s, o, c, 1) /\ Tests(k, s, c[1], 3, x)
    <3>1. Here(k, s, o, c, 1) BY <2>2, <2>5 DEF Here
    <3>2. Tests(k, s, c[1], 3, x) BY <1>2, <2>2, <2>7, <2>20, TestsAre
    <3> QED BY <3>1, <3>2
  <2>10. PICK s1 \in Bad(k) : Turns(s, s1, IF x = 1 THEN s.pc + 1 + 3 ELSE s.pc + 1) BY <2>9, BadBranch
  <2>11. \E s2 \in Bad(k) : Turns(s, s2, o + Len(c) + (IF v = 0 THEN 3 ELSE 1))
    <3>1. CASE a = 0
      <4>1. s.pc + 1 + 3 = o + Len(c) + 3 BY <1>1, <2>2
      <4> QED BY <2>6, <2>8, <2>10, <3>1, <4>1
    <3>2. CASE a # 0
      <4>1. s1.pc = o + 2 /\ s1.regs = s.regs /\ s1.frame = s.frame BY <1>1, <2>8, <2>10, <3>2 DEF Turns
      <4>2. At(s1, R1) = b /\ At(s1, Imm(0)) = 0 BY <4>1, OperandAt
      <4>3. PICK y : y = Binary("=", b, 0, k.unsigned) OBVIOUS
      <4>4. y = IF b = 0 THEN 1 ELSE 0 BY <1>2, <1>3, <4>3, ComparisonIs
      <4>5. Here(k, s1, o, c, 2) BY <2>2, <2>5, <4>1 DEF Here
      <4>6. Tests(k, s1, c[2], 2, y) BY <1>2, <2>2, <2>20, <4>2, <4>3, TestsAre
      <4>7. PICK s2 \in Bad(k) : Turns(s1, s2, IF y = 1 THEN s1.pc + 1 + 2 ELSE s1.pc + 1)
        BY <4>5, <4>6, BadBranch
      <4>8. (IF y = 1 THEN s1.pc + 1 + 2 ELSE s1.pc + 1) = o + Len(c) + (IF v = 0 THEN 3 ELSE 1)
        BY <1>1, <2>2, <2>6, <3>2, <4>1, <4>4
      <4>9. Turns(s, s2, o + Len(c) + (IF v = 0 THEN 3 ELSE 1)) BY <4>1, <4>7, <4>8 DEF Turns
      <4> QED BY <4>9
    <3> QED BY <3>1, <3>2
  <2>12. v \in {1 - 0, 0} BY <2>6
  <2>13. \E s2 \in Bad(k) : Ends(s, s2, o + 1 + Len(c \o SetOutcome(0)), v)
    BY <2>3, <2>4, <2>11, <2>12, TestRuns
  <2> QED BY <2>1, <2>13
<1>8. CASE opr = "||"
  <2> DEFINE c == <<JumpIf("!=", R0, Imm(0), 1), JumpIf("=", R1, Imm(0), 2)>>
  <2>1. BinaryCode(opr) = c \o SetOutcome(0) BY <1>8 DEF BinaryCode, Comparisons
  <2>2. Len(c) = 2 /\ c[1] = JumpIf("!=", R0, Imm(0), 1) /\ c[2] = JumpIf("=", R1, Imm(0), 2) OBVIOUS
  <2>20. "=" \in Comparisons /\ "!=" \in Comparisons BY DEF Comparisons
  <2>3. c \in Codes BY <1>5, <2>20, InstructionsAre, JoinIs
  <2> HIDE DEF c
  <2>4. HasAt(k.body, o, c \o SetOutcome(0)) BY <2>1
  <2>5. HasAt(k.body, o, c) BY <1>3, <2>3, <2>4, HasParts, OutcomeIs
  <2>6. v = IF a # 0 \/ b # 0 THEN 1 ELSE 0 BY <1>3, <1>8, LogicIs
  <2>7. PICK x : x = Binary("!=", a, 0, k.unsigned) OBVIOUS
  <2>8. x = IF a = 0 THEN 0 ELSE 1 BY <1>2, <1>3, <2>7, ComparisonIs
  <2>9. Here(k, s, o, c, 1) /\ Tests(k, s, c[1], 1, x)
    <3>1. Here(k, s, o, c, 1) BY <2>2, <2>5 DEF Here
    <3>2. Tests(k, s, c[1], 1, x) BY <1>2, <2>2, <2>7, <2>20, TestsAre
    <3> QED BY <3>1, <3>2
  <2>10. PICK s1 \in Bad(k) : Turns(s, s1, IF x = 1 THEN s.pc + 1 + 1 ELSE s.pc + 1) BY <2>9, BadBranch
  <2>11. \E s2 \in Bad(k) : Turns(s, s2, o + Len(c) + (IF v = 0 THEN 3 ELSE 1))
    <3>1. CASE a # 0
      <4>1. s.pc + 1 + 1 = o + Len(c) + 1 BY <1>1, <2>2
      <4> QED BY <2>6, <2>8, <2>10, <3>1, <4>1
    <3>2. CASE a = 0
      <4>1. s1.pc = o + 2 /\ s1.regs = s.regs /\ s1.frame = s.frame BY <1>1, <2>8, <2>10, <3>2 DEF Turns
      <4>2. At(s1, R1) = b /\ At(s1, Imm(0)) = 0 BY <4>1, OperandAt
      <4>3. PICK y : y = Binary("=", b, 0, k.unsigned) OBVIOUS
      <4>4. y = IF b = 0 THEN 1 ELSE 0 BY <1>2, <1>3, <4>3, ComparisonIs
      <4>5. Here(k, s1, o, c, 2) BY <2>2, <2>5, <4>1 DEF Here
      <4>6. Tests(k, s1, c[2], 2, y) BY <1>2, <2>2, <2>20, <4>2, <4>3, TestsAre
      <4>7. PICK s2 \in Bad(k) : Turns(s1, s2, IF y = 1 THEN s1.pc + 1 + 2 ELSE s1.pc + 1)
        BY <4>5, <4>6, BadBranch
      <4>8. (IF y = 1 THEN s1.pc + 1 + 2 ELSE s1.pc + 1) = o + Len(c) + (IF v = 0 THEN 3 ELSE 1)
        BY <1>1, <2>2, <2>6, <3>2, <4>1, <4>4
      <4>9. Turns(s, s2, o + Len(c) + (IF v = 0 THEN 3 ELSE 1)) BY <4>1, <4>7, <4>8 DEF Turns
      <4> QED BY <4>9
    <3> QED BY <3>1, <3>2
  <2>12. v \in {1 - 0, 0} BY <2>6
  <2>13. \E s2 \in Bad(k) : Ends(s, s2, o + 1 + Len(c \o SetOutcome(0)), v)
    BY <2>3, <2>4, <2>11, <2>12, TestRuns
  <2> QED BY <2>1, <2>13
<1>9. CASE opr = "%"
  <2> DEFINE c == <<Alu("%", R1, R0, R1), Mov(R0, R1)>>
  <2>1. BinaryCode(opr) = c BY <1>9 DEF BinaryCode, Comparisons
  <2>2. Len(c) = 2 /\ c[1] = Alu(opr, <<"reg", 1>>, R0, R1) /\ c[2] = Mov(<<"reg", 0>>, R1) BY <1>4, <1>9
  <2> HIDE DEF c
  <2>3. HasAt(k.body, o, c) BY <2>1
  <2>4. Here(k, s, o, c, 1) BY <2>2, <2>3 DEF Here
  <2>5. PICK s1 \in Bad(k), w \in Words : Loads(s, s1, 1, w) /\ v \in {Undef, w}
    BY <1>2, <2>2, <2>4, BadAluAt
  <2>6. s1.pc = o + 2 /\ s1.frame = s.frame /\ s1.regs[1] = w BY <1>1, <2>5 DEF Loads
  <2>7. Here(k, s1, o, c, 2) BY <2>2, <2>3, <2>6 DEF Here
  <2>8. At(s1, R1) = w BY <2>6, OperandAt
  <2>9. PICK s2 \in Bad(k) : Loads(s1, s2, 0, w) BY <2>2, <2>7, <2>8, BadLoadAt
  <2> QED BY <1>1, <2>1, <2>2, <2>5, <2>6, <2>9 DEF Loads, Ends
<1>10. CASE opr \notin Comparisons /\ opr \notin {"&&", "||", "%"}
  <2> DEFINE c == <<Alu(opr, R0, R0, R1)>>
  <2>1. BinaryCode(opr) = c BY <1>10 DEF BinaryCode
  <2>2. Len(c) = 1 /\ c[1] = Alu(opr, <<"reg", 0>>, R0, R1) BY <1>4
  <2> HIDE DEF c
  <2>3. HasAt(k.body, o, c) BY <2>1
  <2>4. Here(k, s, o, c, 1) BY <2>2, <2>3 DEF Here
  <2>5. PICK s1 \in Bad(k), w \in Words : Loads(s, s1, 0, w) /\ v \in {Undef, w}
    BY <1>2, <2>2, <2>4, BadAluAt
  <2> QED BY <1>1, <2>1, <2>2, <2>5 DEF Loads, Ends
<1> QED BY <1>6, <1>7, <1>8, <1>9, <1>10
RangeTest(d) ==
  <<Mov(R1, Slot(d)), JumpIfU(">", R1, R0, 4), Mov(R0, Slot(d + 1)), JumpIfU("<", R1, R0, 2)>>

\* Two values are in the slots d and d + 1.
InSlots(k, s, d, v, w) ==
  LocalSize + d + 1 < k.size /\ s.frame[LocalSize + d] = v /\ s.frame[LocalSize + d + 1] = w

RangeValue(e, lo, hi, yes) == IF e >= lo /\ e <= hi THEN 1 - yes ELSE yes
MaskValue(e, w, m, yes) == IF (e & m) = (w & m) THEN 1 - yes ELSE yes

\* A word is in a slot, the lower bound in the next one and the upper one in R0.
LEMMA RangeRuns ==
  ASSUME NEW k \in Job, NEW s \in Bad(k), NEW o \in Nat, NEW d \in Nat,
         NEW yes \in {0, 1}, NEW t, t = RangeTest(d) \o SetOutcome(yes),
         HasAt(k.body, o, t), s.pc = o + 1,
         NEW e \in Words, NEW lo \in Words, NEW hi \in Words,
         InSlots(k, s, d, e, lo), s.regs[0] = hi
  PROVE  \E s2 \in Bad(k) : Ends(s, s2, o + 1 + Len(t), RangeValue(e, lo, hi, yes))
<1> DEFINE c == RangeTest(d)
           v == RangeValue(e, lo, hi, yes)
<1>1. o \in Nat /\ d + 1 \in Nat OBVIOUS
<1>2. /\ Len(c) = 4 /\ c[1] = Mov(R1, Slot(d)) /\ c[2] = JumpIfU(">", R1, R0, 4)
      /\ c[3] = Mov(R0, Slot(d + 1)) /\ c[4] = JumpIfU("<", R1, R0, 2)
  BY DEF RangeTest
<1>3. c \in Codes
  <2>1. /\ R0 \in Places /\ R1 \in Places /\ R0 \in Operand /\ R1 \in Operand
        /\ Slot(d) \in Operand /\ Slot(d + 1) \in Operand
    BY <1>1, OperandsAre
  <2>2. ">" \in Comparisons /\ "<" \in Comparisons BY DEF Comparisons
  <2>3. /\ Mov(R1, Slot(d)) \in Instruction /\ JumpIfU(">", R1, R0, 4) \in Instruction
        /\ Mov(R0, Slot(d + 1)) \in Instruction /\ JumpIfU("<", R1, R0, 2) \in Instruction
    BY <2>1, <2>2, InstructionsAre
  <2> QED BY <2>3, JoinIs DEF RangeTest
<1>4. HasAt(k.body, o, c)
  <2>1. k.body \in Codes BY BadIs
  <2> QED BY <1>3, <2>1, HasParts, OutcomeIs
<1>5. /\ Slot(d) = <<"slot", LocalSize + d>> /\ Slot(d + 1) = <<"slot", LocalSize + d + 1>>
      /\ LocalSize + d \in 0 .. k.size - 1 /\ LocalSize + d + 1 \in 0 .. k.size - 1
  <2>1. k.size \in Nat /\ LocalSize \in Nat /\ LocalSize + d + 1 < k.size BY BadIs DEF LocalSize, InSlots
  <2>2. LocalSize + (d + 1) = LocalSize + d + 1 BY <2>1
  <2> QED BY <2>1, <2>2 DEF Slot
<1>6. R0 = <<"reg", 0>> /\ R1 = <<"reg", 1>> BY DEF R0, R1
<1>7. HasAt(k.body, o, c \o SetOutcome(yes)) OBVIOUS
<1> HIDE DEF c
<1>8. PICK s1 \in Bad(k) : Loads(s, s1, 1, e)
  <2>1. Here(k, s, o, c, 1) BY <1>2, <1>4 DEF Here
  <2>2. At(s, Slot(d)) = e BY <1>5, OperandAt DEF InSlots
  <2> QED BY SMTT(30), <1>2, <1>6, <2>1, <2>2, BadLoadAt
<1>9. s1.pc = o + 2 /\ s1.frame = s.frame /\ s1.regs[1] = e /\ s1.regs[0] = hi BY <1>1, <1>8 DEF Loads
<1>10. PICK x : x = Binary(">", e, hi, TRUE) OBVIOUS
<1>11. x = IF e > hi THEN 1 ELSE 0 BY <1>10, ComparisonIs
<1>12. PICK s2 \in Bad(k) : Turns(s1, s2, IF x = 1 THEN s1.pc + 1 + 4 ELSE s1.pc + 1)
  <2>1. Here(k, s1, o, c, 2) BY <1>2, <1>4, <1>9 DEF Here
  <2>2. At(s1, R1) = e /\ At(s1, R0) = hi BY <1>9, OperandAt
  <2>3. ">" \in Comparisons BY DEF Comparisons
  <2>4. Tests(k, s1, c[2], 4, x) BY <1>2, <1>10, <2>2, <2>3, TestsAre
  <2> QED BY <2>1, <2>4, BadBranch
<1>13. e \in Nat /\ lo \in Nat /\ hi \in Nat BY WrappedIs
<1>14. v \in {1 - yes, yes} BY DEF RangeValue
<1>15. 1 - yes # yes OBVIOUS
<1>16. \E s3, s4 \in Bad(k) : s3.frame = s.frame /\ Turns(s3, s4, o + Len(c) + (IF v = yes THEN 3 ELSE 1))
  <2>1. CASE e > hi
    <3>1. v = yes BY <1>13, <2>1 DEF RangeValue
    <3>2. Turns(s1, s2, o + Len(c) + 3) BY <1>1, <1>2, <1>9, <1>11, <1>12, <2>1
    <3> QED BY <1>9, <3>1, <3>2
  <2>2. CASE ~(e > hi)
    <3>1. s2.pc = o + 3 /\ s2.frame = s.frame /\ s2.regs[1] = e BY <1>1, <1>9, <1>11, <1>12, <2>2 DEF Turns
    <3>2. PICK s3 \in Bad(k) : Loads(s2, s3, 0, lo)
      <4>1. Here(k, s2, o, c, 3) BY <1>2, <1>4, <3>1 DEF Here
      <4>2. At(s2, Slot(d + 1)) = lo BY <1>5, <3>1, OperandAt DEF InSlots
      <4> QED BY <1>2, <1>6, <4>1, <4>2, BadLoadAt
    <3>3. s3.pc = o + 4 /\ s3.frame = s.frame /\ s3.regs[1] = e /\ s3.regs[0] = lo BY <1>1, <3>1, <3>2 DEF Loads
    <3>4. PICK y : y = Binary("<", e, lo, TRUE) OBVIOUS
    <3>5. y = IF e < lo THEN 1 ELSE 0 BY <3>4, ComparisonIs
    <3>6. PICK s4 \in Bad(k) : Turns(s3, s4, IF y = 1 THEN s3.pc + 1 + 2 ELSE s3.pc + 1)
      <4>1. Here(k, s3, o, c, 4) BY <1>2, <1>4, <3>3 DEF Here
      <4>2. At(s3, R1) = e /\ At(s3, R0) = lo BY <3>3, OperandAt
      <4>3. "<" \in Comparisons BY DEF Comparisons
      <4>4. Tests(k, s3, c[4], 2, y) BY <1>2, <3>4, <4>2, <4>3, TestsAre
      <4> QED BY <4>1, <4>4, BadBranch
    <3>7. v = yes <=> y = 1 BY <1>13, <1>15, <2>2, <3>5 DEF RangeValue
    <3>8. (IF y = 1 THEN s3.pc + 1 + 2 ELSE s3.pc + 1) = o + Len(c) + (IF v = yes THEN 3 ELSE 1)
      <4> HIDE DEF v
      <4> QED BY <1>1, <1>2, <3>3, <3>7
    <3> QED BY <3>3, <3>6, <3>8
  <2> QED BY <2>1, <2>2
<1>17. PICK s3 \in Bad(k), s4 \in Bad(k) :
         s3.frame = s.frame /\ Turns(s3, s4, o + Len(c) + (IF v = yes THEN 3 ELSE 1))
  BY <1>16
<1> HIDE DEF v
<1>18. PICK s5 \in Bad(k) : Ends(s3, s5, o + 1 + Len(c \o SetOutcome(yes)), v)
  BY <1>3, <1>7, <1>14, <1>17, TestRuns
<1>19. Ends(s, s5, o + 1 + Len(c \o SetOutcome(yes)), v) BY <1>17, <1>18 DEF Ends
<1> QED BY <1>19 DEF c, v

MaskTest(d) ==
  <<Mov(R1, Slot(d)), Mov(R2, Slot(d + 1)),
    Alu("&", R0, R0, R2), Alu("&", R1, R1, R2), JumpIf("!=", R0, R1, 2)>>

\* The conjunction of bits never fails.
LEMMA BitwiseAnd ==
  ASSUME NEW a \in Words, NEW b \in Words, NEW u \in BOOLEAN
  PROVE  Binary("&", a, b, u) = a & b /\ a & b \in Words /\ a & b # Undef /\ "&" \in BinaryOprs
<1>1. Undef # a /\ Undef # b OBVIOUS
<1>2. "&" \notin Comparisons /\ "&" \notin Divisions /\ "&" \notin Shifts BY DEF Comparisons, Divisions, Shifts
<1>3. a & b \in Words BY BitwiseIs
<1>4. Binary("&", a, b, u) = a & b BY <1>1, <1>2 DEF Binary
<1> QED BY <1>3, <1>4 DEF BinaryOprs

\* The value is in a slot, the mask in the next one and the word in R0.
LEMMA MaskRuns ==
  ASSUME NEW k \in Job, NEW s \in Bad(k), NEW o \in Nat, NEW d \in Nat,
         NEW yes \in {0, 1}, NEW t, t = MaskTest(d) \o SetOutcome(yes),
         HasAt(k.body, o, t), s.pc = o + 1,
         NEW e \in Words, NEW w \in Words, NEW m \in Words,
         InSlots(k, s, d, w, m), s.regs[0] = e
  PROVE  \E s2 \in Bad(k) : Ends(s, s2, o + 1 + Len(t), MaskValue(e, w, m, yes))
<1> DEFINE c == MaskTest(d)
           v == MaskValue(e, w, m, yes)
<1>1. o \in Nat /\ d + 1 \in Nat OBVIOUS
<1>2. /\ Len(c) = 5 /\ c[1] = Mov(R1, Slot(d)) /\ c[2] = Mov(R2, Slot(d + 1))
      /\ c[3] = Alu("&", R0, R0, R2) /\ c[4] = Alu("&", R1, R1, R2) /\ c[5] = JumpIf("!=", R0, R1, 2)
  BY DEF MaskTest
<1>3. c \in Codes
  <2>1. /\ R0 \in Places /\ R1 \in Places /\ R2 \in Places /\ R0 \in Operand /\ R1 \in Operand /\ R2 \in Operand
        /\ Slot(d) \in Operand /\ Slot(d + 1) \in Operand
    BY <1>1, OperandsAre
  <2>2. "!=" \in Comparisons /\ "&" \in BinaryOprs BY DEF Comparisons, BinaryOprs
  <2>3. /\ Mov(R1, Slot(d)) \in Instruction /\ Mov(R2, Slot(d + 1)) \in Instruction
        /\ Alu("&", R0, R0, R2) \in Instruction /\ Alu("&", R1, R1, R2) \in Instruction
        /\ JumpIf("!=", R0, R1, 2) \in Instruction
    BY <2>1, <2>2, InstructionsAre
  <2> QED BY <2>3, JoinIs DEF MaskTest
<1>4. HasAt(k.body, o, c)
  <2>1. k.body \in Codes BY BadIs
  <2> QED BY <1>3, <2>1, HasParts, OutcomeIs
<1>5. /\ Slot(d) = <<"slot", LocalSize + d>> /\ Slot(d + 1) = <<"slot", LocalSize + d + 1>>
      /\ LocalSize + d \in 0 .. k.size - 1 /\ LocalSize + d + 1 \in 0 .. k.size - 1
  <2>1. k.size \in Nat /\ LocalSize \in Nat /\ LocalSize + d + 1 < k.size BY BadIs DEF LocalSize, InSlots
  <2>2. LocalSize + (d + 1) = LocalSize + d + 1 BY <2>1
  <2> QED BY <2>1, <2>2 DEF Slot
<1>6. R0 = <<"reg", 0>> /\ R1 = <<"reg", 1>> /\ R2 = <<"reg", 2>> BY DEF R0, R1, R2
<1>7. HasAt(k.body, o, c \o SetOutcome(yes)) OBVIOUS
<1>20. k.unsigned \in BOOLEAN BY BadIs
<1> HIDE DEF c
<1>8. PICK s1 \in Bad(k) : Loads(s, s1, 1, w)
  <2>1. Here(k, s, o, c, 1) BY <1>2, <1>4 DEF Here
  <2>2. At(s, Slot(d)) = w BY <1>5, OperandAt DEF InSlots
  <2> QED BY <1>2, <1>6, <2>1, <2>2, BadLoadAt
<1>9. s1.pc = o + 2 /\ s1.frame = s.frame /\ s1.regs[1] = w /\ s1.regs[0] = e BY <1>1, <1>8 DEF Loads
<1>10. PICK s2 \in Bad(k) : Loads(s1, s2, 2, m)
  <2>1. Here(k, s1, o, c, 2) BY <1>2, <1>4, <1>9 DEF Here
  <2>2. At(s1, Slot(d + 1)) = m BY <1>5, <1>9, OperandAt DEF InSlots
  <2> QED BY <1>2, <1>6, <2>1, <2>2, BadLoadAt
<1>11. s2.pc = o + 3 /\ s2.frame = s.frame /\ s2.regs[1] = w /\ s2.regs[0] = e /\ s2.regs[2] = m
  BY <1>1, <1>9, <1>10 DEF Loads
<1>12. PICK s3 \in Bad(k) : Loads(s2, s3, 0, e & m)
  <2>1. Here(k, s2, o, c, 3) BY <1>2, <1>4, <1>11 DEF Here
  <2>2. At(s2, R0) = e /\ At(s2, R2) = m BY <1>11, OperandAt
  <2>3. e & m = Binary("&", e, m, k.unsigned) /\ e & m \in Words /\ e & m # Undef /\ "&" \in BinaryOprs
    BY <1>20, BitwiseAnd
  <2>4. c[3] = Alu("&", <<"reg", 0>>, R0, R2) BY <1>2, <1>6
  <2>5. \E z \in Bad(k), x \in Words : Loads(s2, z, 0, x) /\ e & m \in {Undef, x}
    BY <2>1, <2>2, <2>3, <2>4, BadAluAt
  <2> QED BY <2>3, <2>5
<1>13. s3.pc = o + 4 /\ s3.frame = s.frame /\ s3.regs[1] = w /\ s3.regs[0] = e & m /\ s3.regs[2] = m
  BY <1>1, <1>11, <1>12 DEF Loads
<1>14. PICK s4 \in Bad(k) : Loads(s3, s4, 1, w & m)
  <2>1. Here(k, s3, o, c, 4) BY <1>2, <1>4, <1>13 DEF Here
  <2>2. At(s3, R1) = w /\ At(s3, R2) = m BY <1>13, OperandAt
  <2>3. w & m = Binary("&", w, m, k.unsigned) /\ w & m \in Words /\ w & m # Undef /\ "&" \in BinaryOprs
    BY <1>20, BitwiseAnd
  <2>4. c[4] = Alu("&", <<"reg", 1>>, R1, R2) BY <1>2, <1>6
  <2>5. \E z \in Bad(k), x \in Words : Loads(s3, z, 1, x) /\ w & m \in {Undef, x}
    BY <2>1, <2>2, <2>3, <2>4, BadAluAt
  <2> QED BY <2>3, <2>5
<1>15. s4.pc = o + 5 /\ s4.frame = s.frame /\ s4.regs[1] = w & m /\ s4.regs[0] = e & m
  BY <1>1, <1>13, <1>14 DEF Loads
<1>16. e & m \in Words /\ w & m \in Words BY BitwiseIs
<1>17. PICK x : x = Binary("!=", e & m, w & m, k.unsigned) OBVIOUS
<1>18. x = IF (e & m) = (w & m) THEN 0 ELSE 1 BY <1>16, <1>17, <1>20, ComparisonIs
<1>19. PICK s5 \in Bad(k) : Turns(s4, s5, IF x = 1 THEN s4.pc + 1 + 2 ELSE s4.pc + 1)
  <2>1. Here(k, s4, o, c, 5) BY <1>2, <1>4, <1>15 DEF Here
  <2>2. At(s4, R0) = e & m /\ At(s4, R1) = w & m BY <1>15, OperandAt
  <2>3. "!=" \in Comparisons BY DEF Comparisons
  <2>4. Tests(k, s4, c[5], 2, x) BY <1>2, <1>16, <1>17, <2>2, <2>3, TestsAre
  <2> QED BY <2>1, <2>4, BadBranch
<1>21. v \in {1 - yes, yes} /\ 1 - yes # yes BY DEF MaskValue
<1>22. v = yes <=> x = 1 BY <1>18, <1>21 DEF MaskValue
<1>23. (IF x = 1 THEN s4.pc + 1 + 2 ELSE s4.pc + 1) = o + Len(c) + (IF v = yes THEN 3 ELSE 1)
  <2> HIDE DEF v
  <2> QED BY <1>1, <1>2, <1>15, <1>22
<1> HIDE DEF v
<1>24. Turns(s4, s5, o + Len(c) + (IF v = yes THEN 3 ELSE 1)) BY <1>19, <1>23
<1>25. PICK s6 \in Bad(k) : Ends(s4, s6, o + 1 + Len(c \o SetOutcome(yes)), v)
  BY <1>3, <1>7, <1>21, <1>24, TestRuns
<1>26. Ends(s, s6, o + 1 + Len(c \o SetOutcome(yes)), v) BY <1>15, <1>25 DEF Ends
<1> QED BY <1>26 DEF c, v
-------------------------------------------------------------------------------
(***************************************************************************)
(* The values of the nodes of a tree, as its code computes them, and the   *)
(* code of a node: from a state that is not safe it would lead to another  *)
(* one, with the value in R0 and the slots below its own untouched.        *)
(***************************************************************************)
WordsIn == [old : Words, new : Words, addr : Words]

NodeValue(val, n, in, u) ==
  CASE n.node = "Number" -> n.value
    [] n.node = "Ref"    -> in[n.name]
    [] n.node = "Opr1"   -> CodedUnary(n.opr, val[n.expr])
    [] n.node = "Opr2"   -> Binary(n.opr, val[n.lexpr], val[n.rexpr], u)
    [] n.node = "Opr3"   -> IF val[n.cond] = Undef THEN Undef
                            ELSE IF val[n.cond] = 0 THEN val[n.expr2] ELSE val[n.expr1]
    [] n.node = "Range"  -> IF Undef \in {val[n.expr], val[n.min], val[n.max]} THEN Undef
                            ELSE IF val[n.expr] >= val[n.min] /\ val[n.expr] <= val[n.max]
                                 THEN 1 - Truth(n.reverse) ELSE Truth(n.reverse)
    [] n.node = "Mask"   -> IF Undef \in {val[n.expr], val[n.value], val[n.mask]} THEN Undef
                            ELSE IF (val[n.expr] & val[n.mask]) = (val[n.value] & val[n.mask])
                                 THEN 1 - Truth(n.reverse) ELSE Truth(n.reverse)

Valuation(val, ast, in, u) ==
  \A i \in 1 .. Len(ast) : val[i] \in Words \union {Undef} /\ val[i] = NodeValue(val, ast[i], in, u)

Setting(k, ast, in, val) ==
  k \in Job /\ WellFormed(ast) /\ in \in WordsIn /\ Valuation(val, ast, in, k.unsigned)

Loaded(s, in) == s.frame[0] = in.old /\ s.frame[1] = in.new /\ s.frame[2] = in.addr

Kept(s, s2, d) == \A j \in 0 .. LocalSize + d - 1 : s2.frame[j] = s.frame[j]

\* The code of node i, whose slots begin at d, is at o + 1, and s is about to run it.
Ready(k, ast, in, val, i, d, o, s) ==
  /\ d \in Nat /\ o \in Nat /\ s \in Bad(k) /\ s.pc = o + 1
  /\ HasAt(k.body, o, Code(ast)[i][d][R0])
  /\ LocalSize + Depth(ast)[i][d] <= k.size
  /\ Loaded(s, in)
  /\ val[i] = Undef => k.value = Undef

Reached(s, s2, d, p, v) ==
  s2.pc = p /\ Kept(s, s2, d) /\ s2.regs[0] \in Words /\ v \in {Undef, s2.regs[0]}

Reaches(k, ast, in, val, i) ==
  \A d, o, s : Ready(k, ast, in, val, i, d, o, s) =>
    \E s2 \in Bad(k) : Reached(s, s2, d, o + 1 + Len(Code(ast)[i][d][R0]), val[i])

\* A bad state at the start of a node's code reaches its end.
LEMMA ReadyReaches ==
  ASSUME NEW k, NEW ast, NEW in, NEW val, NEW i, Reaches(k, ast, in, val, i),
         NEW d, NEW o, NEW s, Ready(k, ast, in, val, i, d, o, s)
  PROVE  \E s2 \in Bad(k) : Reached(s, s2, d, o + 1 + Len(Code(ast)[i][d][R0]), val[i])
BY DEF Reaches

\* Slots that were kept stay kept, and so do the inputs.
LEMMA KeptIs ==
  ASSUME NEW s, NEW s2, NEW s3, NEW d \in Nat, NEW e \in Nat, d <= e, NEW in
  PROVE  /\ s2.frame = s.frame => Kept(s, s2, d)
         /\ Kept(s, s2, d) /\ Kept(s2, s3, e) => Kept(s, s3, d)
         /\ Kept(s, s2, e) /\ Kept(s2, s3, d) => Kept(s, s3, d)
         /\ Kept(s, s2, d) /\ Loaded(s, in) => Loaded(s2, in)
<1>1. 0 .. LocalSize + d - 1 \subseteq 0 .. LocalSize + e - 1 BY DEF LocalSize
<1>2. {0, 1, 2} \subseteq 0 .. LocalSize + d - 1 BY DEF LocalSize
<1> QED BY <1>1, <1>2 DEF Kept, Loaded

\* The code and the depth of one node.
LEMMA CodeAt ==
  ASSUME NEW ast, WellFormed(ast), NEW i \in 1 .. Len(ast), NEW d \in Nat
  PROVE  /\ Code(ast)[i][d][R0] \in Codes /\ Code(ast)[i][d][R1] \in Codes
         /\ Code(ast)[i][d][R0] = NodeCode(Code(ast), ast, ast[i], d, R0)
         /\ Code(ast)[i][d][R1] = NodeCode(Code(ast), ast, ast[i], d, R1)
         /\ Depth(ast)[i][d] = NodeDepth(Depth(ast), ast[i], d)
         /\ Depth(ast)[i][d] \in Nat /\ d <= Depth(ast)[i][d] /\ Depth(ast)[i][d] <= Depth(ast)[i][d + 1]
<1>1. R0 \in Targets /\ R1 \in Targets BY DEF Targets
<1>2. /\ Code(ast) \in [1 .. Len(ast) -> Generated]
      /\ \A target \in Targets : Code(ast)[i][d][target] = NodeCode(Code(ast), ast, ast[i], d, target)
  BY CodeIs
<1>3. Code(ast)[i] \in Generated BY <1>2
<1>4. Code(ast)[i][d][R0] \in Codes /\ Code(ast)[i][d][R1] \in Codes BY <1>1, <1>3 DEF Generated
<1>5. Depth(ast)[i][d] = NodeDepth(Depth(ast), ast[i], d) BY DepthIs
<1> QED BY <1>1, <1>2, <1>4, <1>5, DepthGrows

\* A leaf loads either register and leaves everything else.
LEMMA LeafRuns ==
  ASSUME NEW k, NEW ast, NEW in, NEW val, Setting(k, ast, in, val),
         NEW i \in 1 .. Len(ast), IsRetarget(ast[i]), NEW d \in Nat, NEW o, NEW s \in Bad(k),
         s.pc = o + 1, Loaded(s, in), LocalSize <= k.size
  PROVE  /\ val[i] \in Words
         /\ Len(Code(ast)[i][d][R0]) = 1 /\ Len(Code(ast)[i][d][R1]) = 1
         /\ HasAt(k.body, o, Code(ast)[i][d][R0]) => \E s2 \in Bad(k) : Loads(s, s2, 0, val[i])
         /\ HasAt(k.body, o, Code(ast)[i][d][R1]) => \E s2 \in Bad(k) : Loads(s, s2, 1, val[i])
<1>1. k \in Job /\ WellFormed(ast) /\ in \in WordsIn /\ val[i] = NodeValue(val, ast[i], in, k.unsigned)
  BY DEF Setting, Valuation
<1>2. Parts(ast[i], 1 .. i - 1) BY <1>1, TreeIs
<1>3. /\ Code(ast)[i][d][R0] = NodeCode(Code(ast), ast, ast[i], d, R0)
      /\ Code(ast)[i][d][R1] = NodeCode(Code(ast), ast, ast[i], d, R1)
  BY <1>1, CodeAt
<1>4. \E a : /\ At(s, a) = val[i] /\ val[i] \in Words
             /\ Code(ast)[i][d][R0] = <<Mov(R0, a)>> /\ Code(ast)[i][d][R1] = <<Mov(R1, a)>>
  <2>1. CASE ast[i].node = "Number"
    <3>1. val[i] = ast[i].value /\ ast[i].value \in Words BY <1>1, <1>2, <2>1 DEF NodeValue, Parts
    <3>2. At(s, Imm(ast[i].value)) = val[i] BY <1>1, <3>1, OperandAt
    <3>3. /\ Code(ast)[i][d][R0] = <<Mov(R0, Imm(ast[i].value))>>
          /\ Code(ast)[i][d][R1] = <<Mov(R1, Imm(ast[i].value))>>
      BY <1>3, <2>1 DEF NodeCode
    <3> QED BY <3>1, <3>2, <3>3
  <2>2. CASE ast[i].node = "Ref"
    <3> DEFINE name == ast[i].name
    <3>1. val[i] = in[name] /\ name \in {"old", "new", "addr"} BY <1>1, <1>2, <2>2 DEF NodeValue, Parts, LocalVars
    <3>2. in[name] \in Words BY <1>1, <3>1 DEF WordsIn
    <3>3. LocalVars[name] \in 0 .. 2 /\ s.frame[LocalVars[name]] = in[name] BY <3>1 DEF LocalVars, Loaded
    <3>4. k.size \in Nat /\ 3 <= k.size BY <1>1, BadIs DEF LocalSize
    <3>5. At(s, <<"slot", LocalVars[name]>>) = val[i] BY <1>1, <3>1, <3>3, <3>4, OperandAt
    <3>6. /\ Code(ast)[i][d][R0] = <<Mov(R0, <<"slot", LocalVars[name]>>)>>
          /\ Code(ast)[i][d][R1] = <<Mov(R1, <<"slot", LocalVars[name]>>)>>
      BY <1>3, <2>2 DEF NodeCode
    <3> QED BY <3>1, <3>2, <3>5, <3>6
  <2> QED BY <2>1, <2>2 DEF IsRetarget
<1>5. PICK a : /\ At(s, a) = val[i] /\ val[i] \in Words
               /\ Code(ast)[i][d][R0] = <<Mov(R0, a)>> /\ Code(ast)[i][d][R1] = <<Mov(R1, a)>>
  BY <1>4
<1>6. HasAt(k.body, o, Code(ast)[i][d][R0]) => \E s2 \in Bad(k) : Loads(s, s2, 0, val[i])
  <2> SUFFICES ASSUME HasAt(k.body, o, Code(ast)[i][d][R0]) PROVE \E s2 \in Bad(k) : Loads(s, s2, 0, val[i])
    OBVIOUS
  <2> DEFINE c == Code(ast)[i][d][R0]
  <2>1. c[1] = Mov(<<"reg", 0>>, a) /\ Len(c) = 1 BY <1>5 DEF R0
  <2> HIDE DEF c
  <2>2. HasAt(k.body, o, c) BY DEF c
  <2>3. Here(k, s, o, c, 1) BY <2>1, <2>2 DEF Here
  <2> QED BY <1>1, <1>5, <2>1, <2>3, BadLoadAt
<1>7. HasAt(k.body, o, Code(ast)[i][d][R1]) => \E s2 \in Bad(k) : Loads(s, s2, 1, val[i])
  <2> SUFFICES ASSUME HasAt(k.body, o, Code(ast)[i][d][R1]) PROVE \E s2 \in Bad(k) : Loads(s, s2, 1, val[i])
    OBVIOUS
  <2> DEFINE c == Code(ast)[i][d][R1]
  <2>1. c[1] = Mov(<<"reg", 1>>, a) /\ Len(c) = 1 BY <1>5 DEF R1
  <2> HIDE DEF c
  <2>2. HasAt(k.body, o, c) BY DEF c
  <2>3. Here(k, s, o, c, 1) BY <2>1, <2>2 DEF Here
  <2> QED BY <1>1, <1>5, <2>1, <2>3, BadLoadAt
<1>8. Len(Code(ast)[i][d][R0]) = 1 /\ Len(Code(ast)[i][d][R1]) = 1 BY <1>5
<1> QED BY <1>5, <1>6, <1>7, <1>8

\* Its one instruction is all the code of a leaf.
LEMMA LeafReaches ==
  ASSUME NEW k, NEW ast, NEW in, NEW val, Setting(k, ast, in, val),
         NEW i \in 1 .. Len(ast), IsRetarget(ast[i])
  PROVE  Reaches(k, ast, in, val, i)
<1> SUFFICES ASSUME NEW d, NEW o, NEW s, Ready(k, ast, in, val, i, d, o, s)
             PROVE  \E s2 \in Bad(k) : Reached(s, s2, d, o + 1 + Len(Code(ast)[i][d][R0]), val[i])
  BY DEF Reaches
<1>1. /\ d \in Nat /\ o \in Nat /\ s \in Bad(k) /\ s.pc = o + 1 /\ HasAt(k.body, o, Code(ast)[i][d][R0])
      /\ LocalSize + Depth(ast)[i][d] <= k.size /\ Loaded(s, in)
  BY DEF Ready
<1>2. k \in Job /\ WellFormed(ast) BY DEF Setting
<1>3. LocalSize <= k.size
  <2>1. Depth(ast)[i][d] \in Nat BY <1>1, <1>2, CodeAt
  <2>2. k.size \in Nat BY <1>1, <1>2, BadIs
  <2> QED BY <1>1, <2>1, <2>2 DEF LocalSize
<1>4. val[i] \in Words /\ Len(Code(ast)[i][d][R0]) = 1 /\ \E s2 \in Bad(k) : Loads(s, s2, 0, val[i])
  BY <1>1, <1>3, LeafRuns
<1>5. PICK s2 \in Bad(k) : Loads(s, s2, 0, val[i]) BY <1>4
<1>6. s2.pc = o + 1 + Len(Code(ast)[i][d][R0]) /\ s2.frame = s.frame /\ s2.regs[0] = val[i]
  BY <1>1, <1>4, <1>5 DEF Loads
<1> QED BY <1>4, <1>6 DEF Reached, Kept
\* a is c and then e.
Join(a, c, e) == a = c \o e

\* Two pieces of code can be joined.
LEMMA JoinExists ==
  ASSUME NEW c \in Codes, NEW e \in Codes
  PROVE  \E a \in Codes : Join(a, c, e)
BY JoinIs DEF Join

\* The pieces of a joined code are where they were joined.
LEMMA HasJoined ==
  ASSUME NEW body \in Codes, NEW o \in Nat, NEW a, NEW c \in Codes, NEW e \in Codes, Join(a, c, e),
         HasAt(body, o, a)
  PROVE  /\ HasAt(body, o, c) /\ HasAt(body, o + Len(c), e)
         /\ Len(a) = Len(c) + Len(e) /\ Len(a) \in Nat /\ Len(c) \in Nat /\ Len(e) \in Nat
<1>1. HasAt(body, o, c \o e) BY DEF Join
<1>2. /\ HasAt(body, o, c) /\ HasAt(body, o + Len(c), e)
      /\ Len(c \o e) = Len(c) + Len(e) /\ Len(c) \in Nat /\ Len(e) \in Nat
  BY <1>1, HasParts
<1> QED BY <1>2 DEF Join

\* The places of c and e, which are a, in a body that has a at o.
Split(body, o, a, c, e) ==
  /\ HasAt(body, o, c) /\ HasAt(body, o + Len(c), e)
  /\ Len(a) = Len(c) + Len(e) /\ Len(a) \in Nat /\ Len(c) \in Nat /\ Len(e) \in Nat

\* The same, under one name.
LEMMA IsSplit ==
  ASSUME NEW body \in Codes, NEW o \in Nat, NEW a, NEW c \in Codes, NEW e \in Codes, Join(a, c, e),
         HasAt(body, o, a)
  PROVE  Split(body, o, a, c, e)
BY HasJoined DEF Split

Store(d) == <<Mov(Slot(d), R0)>>
HasSlot(k, d) == LocalSize + d \in 0 .. k.size - 1

Stored(s, s2, d, p, v) ==
  s2.pc = p /\ Kept(s, s2, d) /\ s2.frame[LocalSize + d] \in Words /\ v \in {Undef, s2.frame[LocalSize + d]}

\* The code of a node and the store of its value into the first of its slots.
LEMMA StoreReaches ==
  ASSUME NEW k \in Job, NEW ast, NEW in, NEW val, NEW i, Reaches(k, ast, in, val, i),
         NEW d \in Nat, NEW o \in Nat, NEW s, Ready(k, ast, in, val, i, d, o, s), HasSlot(k, d),
         Code(ast)[i][d][R0] \in Codes,
         HasAt(k.body, o + Len(Code(ast)[i][d][R0]), Store(d))
  PROVE  \E s2 \in Bad(k) : Stored(s, s2, d, o + 1 + Len(Code(ast)[i][d][R0]) + 1, val[i])
<1> DEFINE n == Len(Code(ast)[i][d][R0])
           c == Store(d)
<1>1. PICK s1 \in Bad(k) : Reached(s, s1, d, o + 1 + n, val[i]) BY ReadyReaches
<1>2. n \in Nat /\ d \in Nat /\ o \in Nat BY DEF Codes, Ready
<1>3. LocalSize + d \in 0 .. k.size - 1 BY DEF HasSlot
<1>4. c[1] = Mov(<<"slot", LocalSize + d>>, R0) /\ Len(c) = 1 BY DEF Slot, Store
<1>5. HasAt(k.body, o + n, c) OBVIOUS
<1> HIDE DEF c, n
<1>6. s1.pc = o + 1 + n /\ Kept(s, s1, d) /\ s1.regs[0] \in Words /\ val[i] \in {Undef, s1.regs[0]}
  BY <1>1 DEF Reached
<1>7. Here(k, s1, o + n, c, 1) BY <1>2, <1>4, <1>5, <1>6 DEF Here
<1>8. At(s1, R0) = s1.regs[0] BY OperandAt
<1>9. PICK s2 \in Bad(k) : Stores(s1, s2, LocalSize + d, s1.regs[0])
  BY <1>3, <1>4, <1>6, <1>7, <1>8, BadStoreAt
<1>10. s2.pc = o + 1 + n + 1 /\ s2.frame[LocalSize + d] = s1.regs[0] BY <1>6, <1>9 DEF Stores
<1>11. Kept(s1, s2, d)
  <2> SUFFICES ASSUME NEW j \in 0 .. LocalSize + d - 1 PROVE s2.frame[j] = s1.frame[j]
    BY DEF Kept
  <2>1. DOMAIN s1.frame = 0 .. k.size - 1 /\ k.size \in Nat /\ LocalSize \in Nat BY BadIs DEF LocalSize
  <2>2. j \in DOMAIN s1.frame /\ j # LocalSize + d BY <1>2, <1>3, <2>1
  <2> QED BY <1>9, <2>2 DEF Stores
<1>12. Kept(s, s2, d) BY <1>2, <1>6, <1>11, KeptIs
<1> QED BY <1>6, <1>10, <1>12 DEF n, Stored

\* The code of a unary node computes its value.
LEMMA Opr1Reaches ==
  ASSUME NEW k, NEW ast, NEW in, NEW val, Setting(k, ast, in, val), NEW i \in 1 .. Len(ast),
         \A j \in 1 .. i - 1 : Reaches(k, ast, in, val, j), ast[i].node = "Opr1"
  PROVE  Reaches(k, ast, in, val, i)
<1> SUFFICES ASSUME NEW d, NEW o, NEW s, Ready(k, ast, in, val, i, d, o, s)
             PROVE  \E s2 \in Bad(k) : Reached(s, s2, d, o + 1 + Len(Code(ast)[i][d][R0]), val[i])
  BY DEF Reaches
<1> DEFINE n == ast[i]
           j == n.expr
           c == Code(ast)[j][d][R0]
           e == UnaryCode(n.opr)
<1>1. /\ d \in Nat /\ o \in Nat /\ s \in Bad(k) /\ s.pc = o + 1 /\ HasAt(k.body, o, Code(ast)[i][d][R0])
      /\ LocalSize + Depth(ast)[i][d] <= k.size /\ Loaded(s, in) /\ (val[i] = Undef => k.value = Undef)
  BY DEF Ready
<1>2. k \in Job /\ WellFormed(ast) /\ val[i] = NodeValue(val, ast[i], in, k.unsigned) BY DEF Setting, Valuation
<1>3. n.opr \in UnaryOprs /\ j \in 1 .. i - 1 BY <1>2, TreeIs DEF Parts
<1>4. j \in 1 .. Len(ast) BY <1>3
<1>5. Code(ast)[i][d][R0] = c \o e BY ZenonT(60), <1>1, <1>2, CodeAt DEF NodeCode
<1>6. c \in Codes /\ e \in Codes BY <1>1, <1>2, <1>3, <1>4, CodeAt, WordCodeIs
<1>7. Depth(ast)[i][d] = Depth(ast)[j][d + 1] /\ Depth(ast)[j][d] <= Depth(ast)[j][d + 1]
      /\ Depth(ast)[j][d] \in Nat /\ Depth(ast)[j][d + 1] \in Nat
  <2>1. d + 1 \in Nat BY <1>1
  <2>2. Depth(ast)[i][d] = NodeDepth(Depth(ast), ast[i], d) BY <1>1, <1>2, CodeAt
  <2>3. Depth(ast)[j][d + 1] \in Nat /\ Depth(ast)[j][d] \in Nat /\ Depth(ast)[j][d] <= Depth(ast)[j][d + 1]
    BY <1>1, <1>2, <1>4, <2>1, CodeAt
  <2> QED BY <2>2, <2>3 DEF NodeDepth
<1>8. val[i] = CodedUnary(n.opr, val[j]) /\ val[j] \in Words \union {Undef}
  BY <1>2, <1>4 DEF NodeValue, Setting, Valuation
<1>9. val[j] = Undef => val[i] = Undef BY <1>3, <1>8, UnaryIs DEF CodedUnary
<1> HIDE DEF c, e, j, n
<1>10. HasAt(k.body, o, c) /\ HasAt(k.body, o + Len(c), e) /\ Len(c \o e) = Len(c) + Len(e) /\ Len(c) \in Nat /\ Len(e) \in Nat
  <2>1. k.body \in Codes BY <1>1, <1>2, BadIs
  <2> QED BY <1>1, <1>5, <1>6, <2>1, HasParts
<1>11. Ready(k, ast, in, val, j, d, o, s)
  <2>1. LocalSize + Depth(ast)[j][d] <= k.size
    <3>1. PICK x \in Nat, y \in Nat : x = Depth(ast)[j][d] /\ y = Depth(ast)[i][d] /\ x <= y BY <1>7
    <3>2. LocalSize + y <= k.size BY <1>1, <3>1
    <3>3. k.size \in Nat BY <1>1, <1>2, BadIs
    <3> QED BY <3>1, <3>2, <3>3 DEF LocalSize
  <2> QED BY <1>1, <1>9, <1>10, <2>1 DEF Ready, c
<1>12. PICK s1 \in Bad(k) : Reached(s, s1, d, o + 1 + Len(c), val[j])
  <2>1. Reaches(k, ast, in, val, j) BY <1>3
  <2> QED BY <1>11, <2>1, ReadyReaches DEF c
<1>13. s1.pc = o + Len(c) + 1 /\ Kept(s, s1, d) /\ s1.regs[0] \in Words /\ val[j] \in {Undef, s1.regs[0]}
  BY <1>1, <1>10, <1>12 DEF Reached
<1>14. PICK s2 \in Bad(k) : Ends(s1, s2, o + Len(c) + 1 + Len(e), CodedUnary(n.opr, s1.regs[0]))
  <2>1. HasAt(k.body, o + Len(c), UnaryCode(n.opr)) /\ e = UnaryCode(n.opr) BY <1>10 DEF e
  <2> QED BY <1>2, <1>3, <1>13, <2>1, UnaryRuns
<1>15. val[i] \in {Undef, s2.regs[0]} /\ s2.regs[0] \in Words /\ s2.frame = s1.frame /\ s2.pc = o + 1 + (Len(c) + Len(e))
  <2>1. /\ s2.pc = o + Len(c) + 1 + Len(e) /\ s2.frame = s1.frame /\ s2.regs[0] \in Words
        /\ CodedUnary(n.opr, s1.regs[0]) \in {Undef, s2.regs[0]}
    BY <1>14 DEF Ends
  <2>2. o + Len(c) + 1 + Len(e) = o + 1 + (Len(c) + Len(e)) BY <1>1, <1>10
  <2>3. CASE val[j] = Undef BY <1>9, <2>1, <2>2, <2>3
  <2>4. CASE val[j] = s1.regs[0] BY <1>8, <2>1, <2>2, <2>4
  <2> QED BY <1>13, <2>3, <2>4
<1>16. Kept(s, s2, d)
  <2>1. Kept(s1, s2, d) BY <1>15 DEF Kept
  <2> QED BY <1>1, <1>13, <2>1, KeptIs
<1> QED BY <1>5, <1>10, <1>15, <1>16 DEF Reached

\* The frame has room for what node i stores from slot d on.
Room(k, ast, i, d) == d \in Nat /\ LocalSize + Depth(ast)[i][d] <= k.size

\* The frame has room for the slots a node stands above.
LEMMA RoomIs ==
  ASSUME NEW k \in Job, NEW ast, WellFormed(ast), NEW i \in 1 .. Len(ast), NEW d, Room(k, ast, i, d)
  PROVE  LocalSize + d <= k.size
<1>1. PICK x \in Nat : x = Depth(ast)[i][d] /\ d <= x BY CodeAt DEF Room
<1>2. LocalSize + x <= k.size /\ d \in Nat BY <1>1 DEF Room
<1>3. k.size \in Nat BY DEF Job
<1> QED BY <1>1, <1>2, <1>3 DEF LocalSize

\* Room for a node is room for one that needs less.
LEMMA RoomLess ==
  ASSUME NEW k \in Job, NEW ast, WellFormed(ast), NEW i, NEW d, Room(k, ast, i, d),
         NEW x \in Nat, x = Depth(ast)[i][d], NEW j \in 1 .. Len(ast), NEW e \in Nat, Depth(ast)[j][e] <= x
  PROVE  Room(k, ast, j, e)
<1>1. PICK y \in Nat : y = Depth(ast)[j][e] BY CodeAt
<1>2. LocalSize + x <= k.size BY DEF Room
<1>3. k.size \in Nat BY DEF Job
<1>4. LocalSize + y <= k.size BY <1>1, <1>2, <1>3 DEF LocalSize
<1> QED BY <1>1, <1>4 DEF Room

\* It has room for the children of a node it has room for.
LEMMA RoomOf ==
  ASSUME NEW k \in Job, NEW ast, WellFormed(ast), NEW i \in 1 .. Len(ast), NEW d, Room(k, ast, i, d)
  PROVE  /\ ast[i].node = "Opr1" => Room(k, ast, ast[i].expr, d)
         /\ ast[i].node = "Opr2" => /\ Room(k, ast, ast[i].lexpr, d) /\ Room(k, ast, ast[i].lexpr, d + 1)
                                    /\ Room(k, ast, ast[i].rexpr, d)
         /\ ast[i].node = "Opr3" => /\ Room(k, ast, ast[i].cond, d) /\ Room(k, ast, ast[i].expr1, d)
                                    /\ Room(k, ast, ast[i].expr2, d)
         /\ ast[i].node = "Range" => /\ Room(k, ast, ast[i].expr, d) /\ Room(k, ast, ast[i].min, d + 1)
                                     /\ Room(k, ast, ast[i].max, d + 2)
         /\ ast[i].node = "Mask" => /\ Room(k, ast, ast[i].value, d) /\ Room(k, ast, ast[i].mask, d + 1)
                                    /\ Room(k, ast, ast[i].expr, d + 2)
<1> DEFINE n == ast[i]
           h == Depth(ast)
<1>1. d \in Nat /\ d + 1 \in Nat /\ d + 2 \in Nat BY DEF Room
<1>2. Parts(n, 1 .. i - 1) /\ 1 .. i - 1 \subseteq 1 .. Len(ast) BY TreeIs
<1>3. PICK x \in Nat : x = h[i][d] /\ x = NodeDepth(h, n, d) BY <1>1, CodeAt
<1>4. \A j \in 1 .. Len(ast) : /\ h[j][d] \in Nat /\ h[j][d + 1] \in Nat /\ h[j][d + 2] \in Nat
                               /\ h[j][d] <= h[j][d + 1]
  BY <1>1, CodeAt
<1>5. \A j \in 1 .. Len(ast), e \in Nat : h[j][e] <= x => Room(k, ast, j, e) BY <1>3, RoomLess
<1> HIDE DEF n, h
<1>6. ASSUME n.node = "Opr1" PROVE Room(k, ast, n.expr, d)
  <2>1. n.expr \in 1 .. Len(ast) BY <1>2, <1>6 DEF Parts
  <2>2. x = h[n.expr][d + 1] BY <1>3, <1>6 DEF NodeDepth
  <2> QED BY <1>1, <1>4, <1>5, <2>1, <2>2
<1>7. ASSUME n.node = "Opr2"
      PROVE  Room(k, ast, n.lexpr, d) /\ Room(k, ast, n.lexpr, d + 1) /\ Room(k, ast, n.rexpr, d)
  <2>1. n.lexpr \in 1 .. Len(ast) /\ n.rexpr \in 1 .. Len(ast) BY <1>2, <1>7 DEF Parts
  <2>2. PICK a \in Nat, b \in Nat, c \in Nat : a = h[n.lexpr][d + 1] /\ b = h[n.rexpr][d] /\ c = h[n.lexpr][d] /\ c <= a
    BY <1>4, <2>1
  <2>3. x = Max({a, b}) BY <1>3, <1>7, <2>2 DEF NodeDepth
  <2>4. a <= x /\ b <= x BY <2>3, MaxIs
  <2>5. c <= x BY <2>2, <2>4
  <2> QED BY <1>1, <1>5, <2>1, <2>2, <2>4, <2>5
<1>8. ASSUME n.node = "Opr3"
      PROVE  Room(k, ast, n.cond, d) /\ Room(k, ast, n.expr1, d) /\ Room(k, ast, n.expr2, d)
  <2>1. n.cond \in 1 .. Len(ast) /\ n.expr1 \in 1 .. Len(ast) /\ n.expr2 \in 1 .. Len(ast) BY <1>2, <1>8 DEF Parts
  <2>2. PICK a \in Nat, b \in Nat, c \in Nat : a = h[n.cond][d] /\ b = h[n.expr1][d] /\ c = h[n.expr2][d]
    BY <1>4, <2>1
  <2>3. x = Max({a, b, c}) BY <1>3, <1>8, <2>2 DEF NodeDepth
  <2>4. a <= x /\ b <= x /\ c <= x BY <2>3, MaxIs
  <2> QED BY <1>1, <1>5, <2>1, <2>2, <2>4
<1>9. ASSUME n.node = "Range"
      PROVE  Room(k, ast, n.expr, d) /\ Room(k, ast, n.min, d + 1) /\ Room(k, ast, n.max, d + 2)
  <2>1. n.expr \in 1 .. Len(ast) /\ n.min \in 1 .. Len(ast) /\ n.max \in 1 .. Len(ast) BY <1>2, <1>9 DEF Parts
  <2>2. PICK a \in Nat, b \in Nat, c \in Nat : a = h[n.expr][d] /\ b = h[n.min][d + 1] /\ c = h[n.max][d + 2]
    BY <1>4, <2>1
  <2>3. x = Max({a, b, c}) BY <1>3, <1>9, <2>2 DEF NodeDepth
  <2>4. a <= x /\ b <= x /\ c <= x BY <2>3, MaxIs
  <2> QED BY <1>1, <1>5, <2>1, <2>2, <2>4
<1>10. ASSUME n.node = "Mask"
       PROVE  Room(k, ast, n.value, d) /\ Room(k, ast, n.mask, d + 1) /\ Room(k, ast, n.expr, d + 2)
  <2>1. n.expr \in 1 .. Len(ast) /\ n.value \in 1 .. Len(ast) /\ n.mask \in 1 .. Len(ast) BY <1>2, <1>10 DEF Parts
  <2>2. PICK a \in Nat, b \in Nat, c \in Nat : a = h[n.value][d] /\ b = h[n.mask][d + 1] /\ c = h[n.expr][d + 2]
    BY <1>4, <2>1
  <2>3. x = Max({a, b, c}) BY <1>3, <1>10, <2>2 DEF NodeDepth
  <2>4. a <= x /\ b <= x /\ c <= x BY <2>3, MaxIs
  <2> QED BY <1>1, <1>5, <2>1, <2>2, <2>4
<1> QED BY <1>6, <1>7, <1>8, <1>9, <1>10 DEF n

\* Ready, told from its parts, and the code of node i from there.
LEMMA NodeReaches ==
  ASSUME NEW k \in Job, NEW ast, NEW in, NEW val, NEW i, Reaches(k, ast, in, val, i),
         NEW d, NEW o \in Nat, NEW s \in Bad(k), s.pc = o + 1, Room(k, ast, i, d), Loaded(s, in),
         NEW c, c = Code(ast)[i][d][R0], HasAt(k.body, o, c), val[i] = Undef => k.value = Undef
  PROVE  \E s2 \in Bad(k) : Reached(s, s2, d, o + 1 + Len(c), val[i])
<1>1. Ready(k, ast, in, val, i, d, o, s) BY DEF Ready, Room
<1> QED BY <1>1, ReadyReaches

\* The same of a node whose code starts here.
LEMMA NodeStores ==
  ASSUME NEW k \in Job, NEW ast, NEW in, NEW val, NEW i, Reaches(k, ast, in, val, i),
         NEW d \in Nat, NEW o \in Nat, NEW s \in Bad(k), s.pc = o + 1, Room(k, ast, i, d), Loaded(s, in),
         NEW c \in Codes, c = Code(ast)[i][d][R0], HasAt(k.body, o, c), val[i] = Undef => k.value = Undef,
         HasSlot(k, d), HasAt(k.body, o + Len(c), Store(d))
  PROVE  \E s2 \in Bad(k) : Stored(s, s2, d, o + 1 + Len(c) + 1, val[i])
<1>1. Ready(k, ast, in, val, i, d, o, s) BY DEF Ready, Room
<1>2. Code(ast)[i][d][R0] \in Codes /\ HasAt(k.body, o + Len(Code(ast)[i][d][R0]), Store(d)) OBVIOUS
<1> QED BY <1>1, <1>2, StoreReaches

\* A single instruction that loads register r from a.
LEMMA MoveRuns ==
  ASSUME NEW k \in Job, NEW s \in Bad(k), NEW o \in Nat, s.pc = o + 1, NEW r \in 0 .. 2, NEW a,
         NEW c, c = <<Mov(<<"reg", r>>, a)>>, HasAt(k.body, o, c), NEW w \in Words, At(s, a) = w
  PROVE  \E s2 \in Bad(k) : Loads(s, s2, r, w)
<1>1. c[1] = Mov(<<"reg", r>>, a) /\ Len(c) = 1 OBVIOUS
<1>2. Here(k, s, o, c, 1) BY <1>1 DEF Here
<1> QED BY <1>1, <1>2, BadLoadAt

\* The code of a leaf is one instruction.
LEMMA LeafLength ==
  ASSUME NEW ast, WellFormed(ast), NEW i \in 1 .. Len(ast), IsRetarget(ast[i]), NEW d \in Nat
  PROVE  Len(Code(ast)[i][d][R0]) = 1 /\ Len(Code(ast)[i][d][R1]) = 1
<1>1. /\ Code(ast)[i][d][R0] = NodeCode(Code(ast), ast, ast[i], d, R0)
      /\ Code(ast)[i][d][R1] = NodeCode(Code(ast), ast, ast[i], d, R1)
  BY CodeAt
<1>2. CASE ast[i].node = "Number" BY <1>1, <1>2 DEF NodeCode
<1>3. CASE ast[i].node = "Ref" BY <1>1, <1>3 DEF NodeCode
<1> QED BY <1>2, <1>3 DEF IsRetarget

\* The code of every node before node i leads on.
Earlier(k, ast, in, val, i) == \A j \in 1 .. i - 1 : Reaches(k, ast, in, val, j)

\* The operands of a binary operator get into R0 and R1.
LEMMA OperandsRun ==
  ASSUME NEW k \in Job, NEW ast, NEW in, NEW val, Setting(k, ast, in, val), NEW i \in 1 .. Len(ast),
         Earlier(k, ast, in, val, i), ast[i].node = "Opr2",
         NEW d, NEW o \in Nat, NEW s \in Bad(k), s.pc = o + 1, Room(k, ast, i, d), Loaded(s, in),
         HasAt(k.body, o, Operands(Code(ast), ast, ast[i], d)),
         val[ast[i].lexpr] = Undef \/ val[ast[i].rexpr] = Undef => k.value = Undef
  PROVE  \E s2 \in Bad(k), a, b \in Words :
           /\ s2.pc = o + 1 + Len(Operands(Code(ast), ast, ast[i], d)) /\ Kept(s, s2, d)
           /\ s2.regs[0] = a /\ val[ast[i].lexpr] \in {Undef, a}
           /\ s2.regs[1] = b /\ val[ast[i].rexpr] \in {Undef, b}
<1> DEFINE n == ast[i]
           l == n.lexpr
           r == n.rexpr
           all == Operands(Code(ast), ast, n, d)
<1>1. WellFormed(ast) /\ d \in Nat /\ d + 1 \in Nat BY DEF Setting, Room
<1>2. l \in 1 .. i - 1 /\ r \in 1 .. i - 1 BY <1>1, TreeIs DEF Parts
<1>3. l \in 1 .. Len(ast) /\ r \in 1 .. Len(ast) BY <1>2
<1>4. Room(k, ast, l, d) /\ Room(k, ast, l, d + 1) /\ Room(k, ast, r, d) BY <1>1, RoomOf
<1>5. Reaches(k, ast, in, val, l) /\ Reaches(k, ast, in, val, r) BY <1>2 DEF Earlier
<1>6. k.body \in Codes /\ k.size \in Nat BY BadIs
<1>7. LocalSize + (d + 1) <= k.size BY <1>1, <1>3, <1>4, RoomIs
<1>8. LocalSize + d < k.size /\ LocalSize + d \in 0 .. k.size - 1 /\ LocalSize + d \in 0 .. LocalSize + (d + 1) - 1
  BY <1>1, <1>6, <1>7 DEF LocalSize
<1>15. LocalSize <= k.size BY <1>1, <1>6, <1>7 DEF LocalSize
<1>9. R0 = <<"reg", 0>> /\ R1 = <<"reg", 1>> /\ Slot(d) = <<"slot", LocalSize + d>> BY DEF R0, R1, Slot
<1>10. <<Mov(Slot(d), R0)>> \in Codes /\ <<Mov(R1, Slot(d))>> \in Codes /\ <<Mov(R1, R0)>> \in Codes
  BY <1>1, OperandsAre, InstructionsAre, JoinIs
<1>11. HasAt(k.body, o, all) OBVIOUS
<1>12. CASE IsRetarget(ast[r])
  <2>1. PICK c \in Codes, e \in Codes : c = Code(ast)[l][d][R0] /\ e = Code(ast)[r][d][R1] BY <1>1, <1>3, CodeAt
  <2>2. Join(all, c, e) BY <1>12, <2>1 DEF Operands, Join
  <2> HIDE DEF all, l, r, n
  <2>3. Len(e) = 1 BY <1>1, <1>3, <1>12, <2>1, LeafLength
  <2>12. Len(c) \in Nat BY DEF Codes
  <2>4. HasAt(k.body, o, c) /\ HasAt(k.body, o + Len(c), e) /\ Len(all) = Len(c) + Len(e)
    <3>1. PICK body \in Codes : body = k.body BY <1>6
    <3>2. HasAt(body, o, all) BY <1>11, <3>1
    <3>3. Split(body, o, all, c, e) BY Zenon, <2>2, <3>2, IsSplit
    <3> QED BY <3>1, <3>3 DEF Split
  <2>5. PICK s1 \in Bad(k) : Reached(s, s1, d, o + 1 + Len(c), val[l])
    BY <1>4, <1>5, <2>1, <2>4, NodeReaches DEF l, r, n
  <2>6. PICK a \in Words : /\ s1.pc = (o + Len(c)) + 1 /\ Kept(s, s1, d) /\ Loaded(s1, in)
                           /\ s1.regs[0] = a /\ val[l] \in {Undef, a}
    <3>1. o + 1 + Len(c) = (o + Len(c)) + 1 BY <2>12
    <3> QED BY SMTT(30), <1>1, <2>5, <3>1, KeptIs DEF Reached
  <2>7. val[r] \in Words /\ \E s2 \in Bad(k) : Loads(s1, s2, 1, val[r])
    BY <1>1, <1>3, <1>12, <1>15, <2>1, <2>4, <2>6, LeafRuns
  <2>8. PICK s2 \in Bad(k) : Loads(s1, s2, 1, val[r]) BY <2>7
  <2>9. s2.pc = s1.pc + 1 /\ s2.frame = s1.frame /\ s2.regs[0] = s1.regs[0] /\ s2.regs[1] = val[r] BY <2>8 DEF Loads
  <2>10. s2.pc = o + 1 + Len(all) BY <2>3, <2>4, <2>6, <2>9, <2>12
  <2>11. Kept(s, s2, d) BY <2>6, <2>9 DEF Kept
  <2> QED BY <2>6, <2>7, <2>9, <2>10, <2>11 DEF all, l, r, n
<1>13. CASE IsRetarget(ast[l]) /\ ~IsRetarget(ast[r])
  <2> DEFINE m == <<Mov(R1, R0)>>
  <2>1. PICK c \in Codes, e \in Codes : c = Code(ast)[r][d][R0] /\ e = Code(ast)[l][d][R0] BY <1>1, <1>3, CodeAt
  <2>2. all = (c \o m) \o e BY <1>13, <2>1 DEF Operands
  <2>4. Len(m) = 1 /\ m = <<Mov(<<"reg", 1>>, R0)>> BY <1>9
  <2>18. m \in Codes BY <1>10
  <2> HIDE DEF all, l, r, n, m
  <2>3. Len(e) = 1 BY <1>1, <1>3, <1>13, <2>1, LeafLength
  <2>5. PICK q \in Codes : Join(q, c, m) BY <2>18, JoinExists
  <2>6. HasAt(k.body, o, q) /\ HasAt(k.body, o + Len(q), e) /\ Len(all) = Len(q) + Len(e)
    <3>1. Join(all, q, e) BY <2>2, <2>5 DEF Join
    <3> QED BY <1>6, <1>11, <3>1, HasJoined
  <2>19. Len(c) \in Nat BY DEF Codes
  <2>7. HasAt(k.body, o, c) /\ HasAt(k.body, o + Len(c), m) /\ Len(q) = Len(c) + Len(m)
    BY <1>6, <2>18, <2>5, <2>6, HasJoined
  <2>8. PICK s1 \in Bad(k) : Reached(s, s1, d, o + 1 + Len(c), val[r])
    BY <1>4, <1>5, <2>1, <2>7, NodeReaches DEF l, r, n
  <2>9. PICK b \in Words : /\ s1.pc = (o + Len(c)) + 1 /\ o + Len(c) \in Nat /\ Kept(s, s1, d) /\ Loaded(s1, in)
                           /\ s1.regs[0] = b /\ val[r] \in {Undef, b}
    <3>1. o + 1 + Len(c) = (o + Len(c)) + 1 /\ o + Len(c) \in Nat BY <2>19
    <3> QED BY <1>1, <2>8, <3>1, KeptIs DEF Reached
  <2>10. PICK s2 \in Bad(k) : Loads(s1, s2, 1, b)
    <3>1. At(s1, R0) = b BY <2>9, OperandAt
    <3>2. 1 \in 0 .. 2 OBVIOUS
    <3> QED BY <2>4, <2>7, <2>9, <3>1, <3>2, MoveRuns
  <2>11. /\ s2.pc = s1.pc + 1 /\ s2.frame = s1.frame /\ s2.regs[1] = b BY <2>10 DEF Loads
  <2>12. s2.pc = (o + Len(q)) + 1 /\ Kept(s, s2, d) /\ Loaded(s2, in)
    <3>1. s2.pc = (o + Len(q)) + 1 BY <2>4, <2>7, <2>9, <2>11, <2>19
    <3>2. Kept(s, s2, d) BY <2>9, <2>11 DEF Kept
    <3>3. Loaded(s2, in) BY <2>9, <2>11 DEF Loaded
    <3> QED BY <3>1, <3>2, <3>3
  <2>13. val[l] \in Words /\ \E s3 \in Bad(k) : Loads(s2, s3, 0, val[l])
    BY <1>1, <1>3, <1>13, <1>15, <2>1, <2>6, <2>12, LeafRuns
  <2>14. PICK s3 \in Bad(k) : Loads(s2, s3, 0, val[l]) BY <2>13
  <2>15. s3.pc = s2.pc + 1 /\ s3.frame = s2.frame /\ s3.regs[1] = b /\ s3.regs[0] = val[l] BY <2>11, <2>14 DEF Loads
  <2>16. s3.pc = o + 1 + Len(all) BY <2>3, <2>4, <2>6, <2>7, <2>12, <2>15, <2>19
  <2>17. Kept(s, s3, d) BY <2>12, <2>15 DEF Kept
  <2> QED BY <2>9, <2>13, <2>15, <2>16, <2>17 DEF all, l, r, n
<1>14. CASE ~IsRetarget(ast[l]) /\ ~IsRetarget(ast[r])
  <2> DEFINE t == <<Mov(Slot(d), R0)>>
             m == <<Mov(R1, Slot(d))>>
  <2>1. PICK c \in Codes, e \in Codes : c = Code(ast)[r][d][R0] /\ e = Code(ast)[l][d + 1][R0]
    BY <1>1, <1>3, CodeAt
  <2>2. all = ((c \o t) \o e) \o m BY <1>14, <2>1 DEF Operands
  <2>4. Len(t) = 1 /\ Len(m) = 1 /\ m = <<Mov(<<"reg", 1>>, Slot(d))>> BY <1>9
  <2>22. t \in Codes /\ m \in Codes BY <1>10
  <2>19. t = <<Mov(Slot(d), R0)>> OBVIOUS
  <2> HIDE DEF all, l, r, n, m, t
  <2>5. PICK p \in Codes : Join(p, c, t) BY <2>22, JoinExists
  <2>21. PICK q \in Codes : Join(q, p, e) BY JoinExists
  <2>6. HasAt(k.body, o, q) /\ HasAt(k.body, o + Len(q), m) /\ Len(all) = Len(q) + Len(m)
    <3>1. Join(all, q, m) BY <2>2, <2>5, <2>21 DEF Join
    <3> QED BY <1>6, <1>11, <2>22, <3>1, HasJoined
  <2>7. /\ HasAt(k.body, o, p) /\ HasAt(k.body, o + Len(p), e)
        /\ Len(q) = Len(p) + Len(e) /\ Len(e) \in Nat
    BY <1>6, <2>6, <2>21, HasJoined
  <2>23. Len(c) \in Nat BY DEF Codes
  <2>8. HasAt(k.body, o, c) /\ HasAt(k.body, o + Len(c), t) /\ Len(p) = Len(c) + Len(t)
    BY <1>6, <2>5, <2>7, <2>22, HasJoined
  <2>24. PICK s1 \in Bad(k) : Stored(s, s1, d, o + 1 + Len(c) + 1, val[r])
    <3>1. HasAt(k.body, o + Len(c), Store(d)) BY <2>8, <2>19 DEF Store
    <3>2. Room(k, ast, r, d) /\ Reaches(k, ast, in, val, r) /\ HasSlot(k, d) /\ (val[r] = Undef => k.value = Undef)
      BY <1>4, <1>5, <1>8 DEF l, r, n, HasSlot
    <3>3. c = Code(ast)[r][d][R0] /\ HasAt(k.body, o, c) BY <2>1, <2>8
    <3> QED BY <1>1, <3>1, <3>2, <3>3, NodeStores
  <2>9. PICK b \in Words : /\ s1.pc = o + 1 + Len(c) + 1 /\ Kept(s, s1, d)
                           /\ s1.frame[LocalSize + d] = b /\ val[r] \in {Undef, b}
    BY <2>24 DEF Stored
  <2>10. s1.pc = (o + Len(p)) + 1 /\ o + Len(p) \in Nat /\ Loaded(s1, in)
    <3>1. s1.pc = (o + Len(p)) + 1 /\ o + Len(p) \in Nat BY <2>4, <2>8, <2>9, <2>23
    <3> QED BY <1>1, <2>9, <3>1, KeptIs
  <2>11. PICK s2 \in Bad(k) : Reached(s1, s2, d + 1, (o + Len(p)) + 1 + Len(e), val[l])
    BY <1>4, <1>5, <2>1, <2>7, <2>10, NodeReaches DEF l, r, n
  <2>12. PICK a \in Words : /\ s2.pc = (o + Len(p)) + 1 + Len(e) /\ Kept(s1, s2, d + 1)
                            /\ s2.regs[0] = a /\ val[l] \in {Undef, a}
    BY <2>11 DEF Reached
  <2>13. s2.frame[LocalSize + d] = b BY <1>8, <2>9, <2>12 DEF Kept
  <2>14. Kept(s, s2, d)
    <3>1. d <= d + 1 BY <1>1
    <3> QED BY <1>1, <2>9, <2>12, <3>1, KeptIs
  <2>15. s2.pc = (o + Len(q)) + 1 /\ o + Len(q) \in Nat BY <2>7, <2>10, <2>12
  <2>16. PICK s3 \in Bad(k) : Loads(s2, s3, 1, b)
    <3>1. At(s2, Slot(d)) = b BY <1>8, <1>9, <2>13, OperandAt
    <3>2. 1 \in 0 .. 2 OBVIOUS
    <3> QED BY <2>4, <2>6, <2>15, <3>1, <3>2, MoveRuns
  <2>17. s3.pc = s2.pc + 1 /\ s3.frame = s2.frame /\ s3.regs[1] = b /\ s3.regs[0] = a BY <2>12, <2>16 DEF Loads
  <2>18. s3.pc = o + 1 + Len(all) BY <2>4, <2>6, <2>15, <2>17
  <2>20. Kept(s, s3, d) BY <2>14, <2>17 DEF Kept
  <2> QED BY <2>9, <2>12, <2>17, <2>18, <2>20 DEF all, l, r, n
<1> QED BY <1>12, <1>13, <1>14

\* The code of a binary node computes its value, in each of the orders it uses.
LEMMA Opr2Reaches ==
  ASSUME NEW k, NEW ast, NEW in, NEW val, Setting(k, ast, in, val), NEW i \in 1 .. Len(ast),
         Earlier(k, ast, in, val, i), ast[i].node = "Opr2"
  PROVE  Reaches(k, ast, in, val, i)
<1> SUFFICES ASSUME NEW d, NEW o, NEW s, Ready(k, ast, in, val, i, d, o, s)
             PROVE  \E s2 \in Bad(k) : Reached(s, s2, d, o + 1 + Len(Code(ast)[i][d][R0]), val[i])
  BY DEF Reaches
<1> DEFINE n == ast[i]
           l == n.lexpr
           r == n.rexpr
           c == Operands(Code(ast), ast, n, d)
           e == BinaryCode(n.opr)
           u == k.unsigned
<1>1. /\ d \in Nat /\ o \in Nat /\ s \in Bad(k) /\ s.pc = o + 1 /\ HasAt(k.body, o, Code(ast)[i][d][R0])
      /\ Room(k, ast, i, d) /\ Loaded(s, in) /\ (val[i] = Undef => k.value = Undef)
  BY DEF Ready, Room
<1>2. k \in Job /\ WellFormed(ast) /\ val[i] = NodeValue(val, ast[i], in, k.unsigned) BY DEF Setting, Valuation
<1>3. n.opr \in BinaryOprs /\ l \in 1 .. i - 1 /\ r \in 1 .. i - 1 BY <1>2, TreeIs DEF Parts
<1>4. l \in 1 .. Len(ast) /\ r \in 1 .. Len(ast) BY <1>3
<1>5. Join(Code(ast)[i][d][R0], c, e) BY ZenonT(60), <1>1, <1>2, CodeAt DEF NodeCode, Join
<1>6. e \in Codes BY <1>3, WordCodeIs
<1>7. c \in Codes
  <2>1. /\ Code(ast)[l][d][R0] \in Codes /\ Code(ast)[r][d][R0] \in Codes /\ Code(ast)[r][d][R1] \in Codes
    BY <1>1, <1>2, <1>4, CodeAt
  <2>2. Code(ast)[l][d + 1][R0] \in Codes
    <3>1. d + 1 \in Nat BY <1>1
    <3> QED BY <1>2, <1>4, <3>1, CodeAt
  <2>3. <<Mov(Slot(d), R0)>> \in Codes /\ <<Mov(R1, Slot(d))>> \in Codes /\ <<Mov(R1, R0)>> \in Codes
    BY <1>1, OperandsAre, InstructionsAre, JoinIs
  <2> HIDE DEF l, r, n
  <2> QED BY <2>1, <2>2, <2>3, JoinIs DEF Operands, l, r
<1>8. val[i] = Binary(n.opr, val[l], val[r], u) /\ val[l] \in Words \union {Undef} /\ val[r] \in Words \union {Undef}
  BY <1>2, <1>4 DEF NodeValue, Setting, Valuation
<1>9. val[l] = Undef \/ val[r] = Undef => val[i] = Undef
  <2>1. u \in BOOLEAN BY <1>2 DEF Job
  <2> HIDE DEF l, r, n, u
  <2> QED BY <1>3, <1>8, <2>1, BinaryIs
<1>10. /\ HasAt(k.body, o, c) /\ HasAt(k.body, o + Len(c), e)
       /\ Len(Code(ast)[i][d][R0]) = Len(c) + Len(e) /\ Len(c) \in Nat /\ Len(e) \in Nat
  <2>1. k.body \in Codes BY <1>1, <1>2, BadIs
  <2>2. PICK all : all = Code(ast)[i][d][R0] OBVIOUS
  <2>5. o \in Nat BY <1>1
  <2>3. HasAt(k.body, o, all) /\ Join(all, c, e) BY <1>1, <1>5, <2>2
  <2> HIDE DEF c, e
  <2>4. /\ HasAt(k.body, o, c) /\ HasAt(k.body, o + Len(c), e)
        /\ Len(all) = Len(c) + Len(e) /\ Len(c) \in Nat /\ Len(e) \in Nat
    BY <1>6, <1>7, <2>1, <2>3, <2>5, HasJoined
  <2> QED BY <2>2, <2>4
<1>11. PICK s1 \in Bad(k), a \in Words, b \in Words :
          /\ s1.pc = o + 1 + Len(c) /\ Kept(s, s1, d)
          /\ s1.regs[0] = a /\ val[l] \in {Undef, a}
          /\ s1.regs[1] = b /\ val[r] \in {Undef, b}
  <2>1. HasAt(k.body, o, Operands(Code(ast), ast, ast[i], d)) BY <1>10
  <2>2. val[ast[i].lexpr] = Undef \/ val[ast[i].rexpr] = Undef => k.value = Undef BY <1>1, <1>9
  <2>3. \E s1 \in Bad(k), a, b \in Words :
           /\ s1.pc = o + 1 + Len(Operands(Code(ast), ast, ast[i], d)) /\ Kept(s, s1, d)
           /\ s1.regs[0] = a /\ val[ast[i].lexpr] \in {Undef, a}
           /\ s1.regs[1] = b /\ val[ast[i].rexpr] \in {Undef, b}
    <3>1. /\ k \in Job /\ o \in Nat /\ s \in Bad(k) /\ s.pc = o + 1 /\ Room(k, ast, i, d) /\ Loaded(s, in)
      BY <1>1, <1>2
    <3> HIDE DEF c, e, l, r, n, u
    <3> QED BY <2>1, <2>2, <3>1, OperandsRun
  <2> QED BY <2>3
<1> HIDE DEF c, e, l, r
<1>12. PICK v : v = Binary(n.opr, a, b, u) OBVIOUS
<1>13. val[i] \in {Undef, v} /\ (v = Undef => k.value = Undef)
  <2>1. CASE val[l] = Undef \/ val[r] = Undef BY <1>1, <1>9, <2>1
  <2>2. CASE val[l] = a /\ val[r] = b BY <1>1, <1>8, <1>12, <2>2
  <2> QED BY <1>11, <2>1, <2>2
<1>14. o + Len(c) \in Nat /\ s1.pc = (o + Len(c)) + 1 BY <1>1, <1>10, <1>11
<1>15. PICK s2 \in Bad(k) : Ends(s1, s2, (o + Len(c)) + 1 + Len(e), v)
  <2>1. HasAt(k.body, o + Len(c), BinaryCode(n.opr)) /\ e = BinaryCode(n.opr) BY <1>10 DEF e
  <2> HIDE DEF n
  <2> QED BY <1>2, <1>3, <1>11, <1>12, <1>13, <1>14, <2>1, BinaryRuns DEF u
<1>16. /\ s2.pc = (o + Len(c)) + 1 + Len(e) /\ s2.frame = s1.frame
       /\ s2.regs[0] \in Words /\ v \in {Undef, s2.regs[0]}
  BY <1>15 DEF Ends
<1>17. s2.pc = o + 1 + Len(Code(ast)[i][d][R0]) BY <1>1, <1>10, <1>16
<1>18. val[i] \in {Undef, s2.regs[0]} BY <1>13, <1>16
<1>19. Kept(s, s2, d) BY <1>11, <1>16 DEF Kept
<1> QED BY <1>16, <1>17, <1>18, <1>19 DEF Reached

\* The code of a conditional computes its value, whichever branch it takes.
LEMMA Opr3Reaches ==
  ASSUME NEW k, NEW ast, NEW in, NEW val, Setting(k, ast, in, val), NEW i \in 1 .. Len(ast),
         Earlier(k, ast, in, val, i), ast[i].node = "Opr3"
  PROVE  Reaches(k, ast, in, val, i)
<1> SUFFICES ASSUME NEW d, NEW o, NEW s, Ready(k, ast, in, val, i, d, o, s)
             PROVE  \E s2 \in Bad(k) : Reached(s, s2, d, o + 1 + Len(Code(ast)[i][d][R0]), val[i])
  BY DEF Reaches
<1>1. /\ d \in Nat /\ o \in Nat /\ s \in Bad(k) /\ s.pc = o + 1 /\ HasAt(k.body, o, Code(ast)[i][d][R0])
      /\ Room(k, ast, i, d) /\ Loaded(s, in) /\ (val[i] = Undef => k.value = Undef)
  BY DEF Ready, Room
<1>2. k \in Job /\ WellFormed(ast) /\ val[i] = NodeValue(val, ast[i], in, k.unsigned) BY DEF Setting, Valuation
<1>3. PICK p \in 1 .. i - 1, p1 \in 1 .. i - 1, p2 \in 1 .. i - 1 :
         p = ast[i].cond /\ p1 = ast[i].expr1 /\ p2 = ast[i].expr2
  BY <1>2, TreeIs DEF Parts
<1>4. p \in 1 .. Len(ast) /\ p1 \in 1 .. Len(ast) /\ p2 \in 1 .. Len(ast) OBVIOUS
<1>5. PICK c \in Codes, c1 \in Codes, c2 \in Codes :
         c = Code(ast)[p][d][R0] /\ c1 = Code(ast)[p1][d][R0] /\ c2 = Code(ast)[p2][d][R0]
  BY <1>1, <1>2, <1>4, CodeAt
<1>6. Code(ast)[i][d][R0] = ConditionCode(c, c1, c2)
  <2>1. Code(ast)[i][d][R0] = NodeCode(Code(ast), ast, ast[i], d, R0) BY <1>1, <1>2, CodeAt
  <2> QED BY <1>3, <1>5, <2>1 DEF NodeCode
<1>7. Len(c) \in Nat /\ Len(c1) \in Nat /\ Len(c2) \in Nat /\ Len(c1) + 1 \in Nat BY DEF Codes
<1> DEFINE j1 == <<JumpIf("=", R0, Imm(0), Len(c1) + 1)>>
           j2 == <<Jump(Len(c2))>>
<1>8. 0 \in Words /\ "=" \in Comparisons BY WrappedIs DEF Comparisons
<1>9. j1 \in Codes /\ j2 \in Codes
  <2>1. R0 \in Operand /\ Imm(0) \in Operand BY <1>8, OperandsAre
  <2> QED BY <1>7, <1>8, <2>1, InstructionsAre, JoinIs
<1>10. ConditionCode(c, c1, c2) = (((c \o j1) \o c1) \o j2) \o c2 BY DEF ConditionCode
<1>11. Len(j1) = 1 /\ j1[1] = JumpIf("=", R0, Imm(0), Len(c1) + 1) OBVIOUS
<1>12. Len(j2) = 1 /\ j2[1] = Jump(Len(c2)) OBVIOUS
<1> HIDE DEF j1, j2
<1>13. PICK q \in Codes : Join(q, c, j1) BY <1>9, JoinExists
<1>14. PICK q1 \in Codes : Join(q1, q, c1) BY JoinExists
<1>15. PICK q2 \in Codes : Join(q2, q1, j2) BY <1>9, JoinExists
<1>35. o \in Nat BY <1>1
<1>34. PICK all : all = Code(ast)[i][d][R0] OBVIOUS
<1>16. Join(all, q2, c2) BY <1>6, <1>10, <1>13, <1>14, <1>15, <1>34 DEF Join
<1>17. k.body \in Codes BY <1>1, <1>2, BadIs
<1>18. HasAt(k.body, o, q2) /\ HasAt(k.body, o + Len(q2), c2) /\ Len(all) = Len(q2) + Len(c2)
  <2>1. HasAt(k.body, o, all) BY <1>1, <1>34
  <2>2. PICK body \in Codes : body = k.body BY <1>17
  <2>3. HasAt(body, o, all) BY <2>1, <2>2
  <2>4. Split(body, o, all, q2, c2) BY Zenon, <1>16, <1>35, <2>3, IsSplit
  <2> QED BY <2>2, <2>4 DEF Split
<1>19. HasAt(k.body, o, q1) /\ HasAt(k.body, o + Len(q1), j2) /\ Len(q2) = Len(q1) + Len(j2)
  BY <1>9, <1>15, <1>17, <1>18, <1>35, HasJoined
<1>20. HasAt(k.body, o, q) /\ HasAt(k.body, o + Len(q), c1) /\ Len(q1) = Len(q) + Len(c1)
  BY <1>14, <1>17, <1>19, <1>35, HasJoined
<1>21. HasAt(k.body, o, c) /\ HasAt(k.body, o + Len(c), j1) /\ Len(q) = Len(c) + Len(j1)
  BY <1>9, <1>13, <1>17, <1>20, <1>35, HasJoined
<1>22. val[i] = (IF val[p] = Undef THEN Undef ELSE IF val[p] = 0 THEN val[p2] ELSE val[p1])
  BY <1>2, <1>3 DEF NodeValue
<1>23. Room(k, ast, p, d) /\ Room(k, ast, p1, d) /\ Room(k, ast, p2, d) BY <1>1, <1>2, <1>3, RoomOf
<1>24. Reaches(k, ast, in, val, p) /\ Reaches(k, ast, in, val, p1) /\ Reaches(k, ast, in, val, p2)
  BY DEF Earlier
<1>25. PICK s1 \in Bad(k) : Reached(s, s1, d, o + 1 + Len(c), val[p])
  <2>1. val[p] = Undef => k.value = Undef BY <1>1, <1>22
  <2> QED BY <1>1, <1>2, <1>5, <1>21, <1>23, <1>24, <2>1, NodeReaches
<1>26. PICK w \in Words : s1.pc = (o + Len(c)) + 1 /\ Kept(s, s1, d) /\ s1.regs[0] = w /\ val[p] \in {Undef, w}
  <2>1. o + 1 + Len(c) = (o + Len(c)) + 1 BY <1>1, <1>7
  <2> QED BY <1>25, <2>1 DEF Reached
<1>27. PICK x : x = Binary("=", w, 0, k.unsigned) OBVIOUS
<1>28. x = IF w = 0 THEN 1 ELSE 0
  <2>1. k.unsigned \in BOOLEAN BY <1>2 DEF Job
  <2> QED BY <1>8, <1>27, <2>1, ComparisonIs
<1>29. PICK s2 \in Bad(k) : Turns(s1, s2, IF x = 1 THEN s1.pc + 1 + (Len(c1) + 1) ELSE s1.pc + 1)
  <2>1. Here(k, s1, o + Len(c), j1, 1) BY <1>11, <1>21, <1>26 DEF Here
  <2>2. At(s1, R0) = w /\ At(s1, Imm(0)) = 0 BY <1>2, <1>26, OperandAt
  <2>3. Tests(k, s1, j1[1], Len(c1) + 1, x) BY <1>2, <1>7, <1>8, <1>11, <1>27, <2>2, TestsAre
  <2>4. k \in Job /\ Len(c1) + 1 \in Nat BY <1>2, <1>7
  <2> QED BY <2>1, <2>3, <2>4, BadBranch
<1>30. s2.frame = s1.frame /\ s2.pc = (IF x = 1 THEN s1.pc + 1 + (Len(c1) + 1) ELSE s1.pc + 1) BY <1>29 DEF Turns
<1>31. Kept(s, s2, d) /\ Loaded(s2, in)
  <2>1. Kept(s, s2, d) BY <1>26, <1>30 DEF Kept
  <2> QED BY <1>1, <2>1, KeptIs
<1>32. CASE w = 0
  <2>1. o + Len(q2) \in Nat /\ s2.pc = (o + Len(q2)) + 1
    BY <1>1, <1>7, <1>11, <1>12, <1>19, <1>20, <1>21, <1>26, <1>28, <1>30, <1>32
  <2>2. val[i] \in {Undef, val[p2]} /\ (val[p2] = Undef => k.value = Undef) BY <1>1, <1>22, <1>26, <1>32
  <2>3. PICK s3 \in Bad(k) : Reached(s2, s3, d, (o + Len(q2)) + 1 + Len(c2), val[p2])
    BY <1>2, <1>5, <1>18, <1>23, <1>24, <1>31, <2>1, <2>2, NodeReaches
  <2>4. /\ s3.pc = (o + Len(q2)) + 1 + Len(c2) /\ Kept(s2, s3, d) /\ s3.regs[0] \in Words
        /\ val[p2] \in {Undef, s3.regs[0]}
    BY <2>3 DEF Reached
  <2>5. s3.pc = o + 1 + Len(all)
    <3>1. Len(q2) \in Nat BY DEF Codes
    <3> QED BY <1>1, <1>7, <1>18, <2>4, <3>1
  <2>6. Kept(s, s3, d) BY <1>1, <1>31, <2>4, KeptIs
  <2>7. val[i] \in {Undef, s3.regs[0]} BY <2>2, <2>4
  <2> QED BY <1>34, <2>4, <2>5, <2>6, <2>7 DEF Reached
<1>33. CASE w # 0
  <2>1. o + Len(q) \in Nat /\ s2.pc = (o + Len(q)) + 1
    BY SMTT(30), <1>1, <1>7, <1>11, <1>21, <1>26, <1>28, <1>30, <1>33
  <2>2. val[i] \in {Undef, val[p1]} /\ (val[p1] = Undef => k.value = Undef) BY <1>1, <1>22, <1>26, <1>33
  <2>3. PICK s3 \in Bad(k) : Reached(s2, s3, d, (o + Len(q)) + 1 + Len(c1), val[p1])
    BY <1>2, <1>5, <1>20, <1>23, <1>24, <1>31, <2>1, <2>2, NodeReaches
  <2>4. /\ s3.pc = (o + Len(q)) + 1 + Len(c1) /\ Kept(s2, s3, d) /\ s3.regs[0] \in Words
        /\ val[p1] \in {Undef, s3.regs[0]}
    BY <2>3 DEF Reached
  <2>5. s3.pc = (o + Len(q1)) + 1
    <3>1. Len(q) \in Nat BY DEF Codes
    <3> QED BY <1>1, <1>7, <1>20, <2>4, <3>1
  <2>6. PICK s4 \in Bad(k) : Turns(s3, s4, s3.pc + 1 + Len(c2))
    <3>1. Here(k, s3, o + Len(q1), j2, 1) BY <1>12, <1>19, <2>5 DEF Here
    <3> QED BY <1>2, <1>7, <1>12, <3>1, BadJumpAt
  <2>7. s4.pc = s3.pc + 1 + Len(c2) /\ s4.regs = s3.regs /\ s4.frame = s3.frame BY <2>6 DEF Turns
  <2>8. s4.pc = o + 1 + Len(all)
    <3>1. Len(q1) \in Nat BY DEF Codes
    <3> QED BY <1>1, <1>7, <1>12, <1>18, <1>19, <2>5, <2>7, <3>1
  <2>9. Kept(s, s4, d)
    <3>1. Kept(s, s3, d) BY <1>1, <1>31, <2>4, KeptIs
    <3> QED BY <2>7, <3>1 DEF Kept
  <2>10. s4.regs[0] \in Words /\ val[i] \in {Undef, s4.regs[0]} BY <2>2, <2>4, <2>7
  <2> QED BY <1>34, <2>8, <2>9, <2>10 DEF Reached
<1> QED BY <1>32, <1>33

\* The code of the nodes p, p1 and p2, the values of the first two of which wait
\* in slots.
ThreeCode(ast, p, p1, p2, d) ==
  Code(ast)[p][d][R0] \o Store(d) \o Code(ast)[p1][d + 1][R0] \o Store(d + 1) \o Code(ast)[p2][d + 2][R0]

ThreeReached(s, s2, d, q, v, v1, v2) ==
  /\ s2.pc = q /\ Kept(s, s2, d)
  /\ s2.frame[LocalSize + d] \in Words /\ v \in {Undef, s2.frame[LocalSize + d]}
  /\ s2.frame[LocalSize + d + 1] \in Words /\ v1 \in {Undef, s2.frame[LocalSize + d + 1]}
  /\ s2.regs[0] \in Words /\ v2 \in {Undef, s2.regs[0]}

\* The three operands of a range or a mask are computed and kept.
LEMMA ThreeReach ==
  ASSUME NEW k \in Job, NEW ast, NEW in, NEW val, Setting(k, ast, in, val),
         NEW p \in 1 .. Len(ast), NEW p1 \in 1 .. Len(ast), NEW p2 \in 1 .. Len(ast),
         Reaches(k, ast, in, val, p), Reaches(k, ast, in, val, p1), Reaches(k, ast, in, val, p2),
         NEW d \in Nat, NEW o \in Nat, NEW s \in Bad(k), s.pc = o + 1,
         Room(k, ast, p, d), Room(k, ast, p1, d + 1), Room(k, ast, p2, d + 2), Loaded(s, in),
         NEW t \in Codes, t = ThreeCode(ast, p, p1, p2, d), HasAt(k.body, o, t),
         Undef \in {val[p], val[p1], val[p2]} => k.value = Undef
  PROVE  \E s2 \in Bad(k) : ThreeReached(s, s2, d, o + Len(t) + 1, val[p], val[p1], val[p2])
<1>1. WellFormed(ast) /\ k.body \in Codes BY BadIs DEF Setting
<1>2. PICK f \in Nat, g \in Nat : f = d + 1 /\ g = d + 2 OBVIOUS
<1>3. PICK c \in Codes, c1 \in Codes, c2 \in Codes :
         c = Code(ast)[p][d][R0] /\ c1 = Code(ast)[p1][f][R0] /\ c2 = Code(ast)[p2][g][R0]
  BY <1>1, CodeAt
<1>4. Store(d) \in Codes /\ Store(f) \in Codes
  <2>1. R0 \in Operand /\ Slot(d) \in Places /\ Slot(f) \in Places BY OperandsAre
  <2> QED BY <2>1, InstructionsAre, JoinIs DEF Store
<1>5. Len(Store(d)) = 1 /\ Len(Store(f)) = 1 BY DEF Store
<1>6. PICK q1 \in Codes : Join(q1, c, Store(d)) BY <1>4, JoinExists
<1>7. PICK q2 \in Codes : Join(q2, q1, c1) BY JoinExists
<1>8. PICK q3 \in Codes : Join(q3, q2, Store(f)) BY <1>4, JoinExists
<1>9. Join(t, q3, c2)
  <2>1. t = (((c \o Store(d)) \o c1) \o Store(f)) \o c2 BY <1>2, <1>3 DEF ThreeCode
  <2> QED BY <1>6, <1>7, <1>8, <2>1 DEF Join
<1>10. HasAt(k.body, o, q3) /\ HasAt(k.body, o + Len(q3), c2) /\ Len(t) = Len(q3) + Len(c2)
  BY <1>1, <1>9, HasJoined
<1>11. HasAt(k.body, o, q2) /\ HasAt(k.body, o + Len(q2), Store(f)) /\ Len(q3) = Len(q2) + Len(Store(f))
  BY SMTT(30), <1>1, <1>4, <1>8, <1>10, HasJoined
<1>12. HasAt(k.body, o, q1) /\ HasAt(k.body, o + Len(q1), c1) /\ Len(q2) = Len(q1) + Len(c1)
  BY SMTT(30), <1>1, <1>7, <1>11, HasJoined
<1>13. HasAt(k.body, o, c) /\ HasAt(k.body, o + Len(c), Store(d)) /\ Len(q1) = Len(c) + Len(Store(d))
  BY SMTT(30), <1>1, <1>4, <1>6, <1>12, HasJoined
<1>14. Len(c) \in Nat /\ Len(c1) \in Nat /\ Len(c2) \in Nat BY SMTT(30) DEF Codes
<1>15. LocalSize + g <= k.size /\ k.size \in Nat
  <2>1. Room(k, ast, p2, g) BY <1>2
  <2> QED BY <1>1, <2>1, BadIs, RoomIs
<1>16. HasSlot(k, d) /\ HasSlot(k, f) BY <1>2, <1>15 DEF HasSlot, LocalSize
<1>17. Room(k, ast, p1, f) /\ Room(k, ast, p2, g) BY <1>2
<1>18. (val[p] = Undef => k.value = Undef) /\ (val[p1] = Undef => k.value = Undef) /\ (val[p2] = Undef => k.value = Undef)
  OBVIOUS
<1>19. PICK s1 \in Bad(k) : Stored(s, s1, d, o + 1 + Len(c) + 1, val[p])
  BY <1>3, <1>13, <1>16, <1>18, NodeStores
<1>20. PICK a \in Words : s1.pc = (o + Len(q1)) + 1 /\ Kept(s, s1, d) /\ s1.frame[LocalSize + d] = a /\ val[p] \in {Undef, a}
  <2>1. o + 1 + Len(c) + 1 = (o + Len(q1)) + 1 BY <1>5, <1>13, <1>14
  <2> QED BY <1>19, <2>1 DEF Stored
<1>21. o + Len(q1) \in Nat /\ Loaded(s1, in)
  <2>1. o + Len(q1) \in Nat BY SMTT(30), <1>5, <1>13, <1>14
  <2> QED BY <1>20, <2>1, KeptIs
<1>22. PICK s2 \in Bad(k) : Stored(s1, s2, f, (o + Len(q1)) + 1 + Len(c1) + 1, val[p1])
  <2>1. HasAt(k.body, (o + Len(q1)) + Len(c1), Store(f))
    <3>1. (o + Len(q1)) + Len(c1) = o + Len(q2) BY <1>5, <1>12, <1>13, <1>14
    <3> QED BY <1>11, <3>1
  <2>2. PICK x \in Nat : x = o + Len(q1) BY <1>21
  <2>3. \E s2 \in Bad(k) : Stored(s1, s2, f, x + 1 + Len(c1) + 1, val[p1])
    <3>1. s1.pc = x + 1 /\ HasAt(k.body, x, c1) /\ HasAt(k.body, x + Len(c1), Store(f)) BY <1>12, <1>20, <2>1, <2>2
    <3> QED BY <1>3, <1>16, <1>17, <1>18, <1>21, <3>1, NodeStores
  <2> QED BY <2>2, <2>3
<1>23. PICK b \in Words : s2.pc = (o + Len(q3)) + 1 /\ Kept(s1, s2, f) /\ s2.frame[LocalSize + f] = b /\ val[p1] \in {Undef, b}
  <2>1. (o + Len(q1)) + 1 + Len(c1) + 1 = (o + Len(q3)) + 1 BY SMTT(30), <1>5, <1>11, <1>12, <1>13, <1>14
  <2> QED BY <1>22, <2>1 DEF Stored
<1>24. Kept(s, s2, d) /\ Loaded(s2, in) /\ s2.frame[LocalSize + d] = a
  <2>1. d <= f /\ LocalSize + d \in 0 .. LocalSize + f - 1 BY <1>2 DEF LocalSize
  <2>2. Kept(s, s2, d) BY <1>20, <1>23, <2>1, KeptIs
  <2>3. Loaded(s2, in) BY <2>2, KeptIs
  <2> QED BY <1>20, <1>23, <2>1, <2>2, <2>3 DEF Kept
<1>25. PICK y \in Nat : y = o + Len(q3) BY SMTT(30), <1>5, <1>11, <1>12, <1>13, <1>14
<1>26. PICK s3 \in Bad(k) : Reached(s2, s3, g, y + 1 + Len(c2), val[p2])
  <2>1. s2.pc = y + 1 /\ HasAt(k.body, y, c2) BY <1>10, <1>23, <1>25
  <2> QED BY <1>3, <1>17, <1>18, <1>24, <2>1, NodeReaches
<1>27. /\ s3.pc = o + Len(t) + 1 /\ Kept(s2, s3, g) /\ s3.regs[0] \in Words /\ val[p2] \in {Undef, s3.regs[0]}
  <2>1. Len(q3) \in Nat BY DEF Codes
  <2>2. y + 1 + Len(c2) = o + Len(t) + 1 BY <1>10, <1>14, <1>25, <2>1
  <2> QED BY <1>26, <2>2 DEF Reached
<1>28. Kept(s, s3, d)
  <2>1. d <= g BY <1>2
  <2> QED BY <1>24, <1>27, <2>1, KeptIs
<1>29. s3.frame[LocalSize + d] = a /\ s3.frame[LocalSize + d + 1] = b
  <2>1. LocalSize + d \in 0 .. LocalSize + g - 1 /\ LocalSize + f \in 0 .. LocalSize + g - 1 BY <1>2 DEF LocalSize
  <2>2. LocalSize + f = LocalSize + d + 1 BY <1>2 DEF LocalSize
  <2>3. s3.frame[LocalSize + d] = a /\ s3.frame[LocalSize + f] = b BY <1>23, <1>24, <1>27, <2>1 DEF Kept
  <2> QED BY <2>2, <2>3
<1>30. ThreeReached(s, s3, d, o + Len(t) + 1, val[p], val[p1], val[p2])
  BY <1>20, <1>23, <1>27, <1>28, <1>29 DEF ThreeReached
<1> QED BY <1>30

\* The code of a range computes its value.
LEMMA RangeReaches ==
  ASSUME NEW k, NEW ast, NEW in, NEW val, Setting(k, ast, in, val), NEW i \in 1 .. Len(ast),
         Earlier(k, ast, in, val, i), ast[i].node = "Range"
  PROVE  Reaches(k, ast, in, val, i)
<1> SUFFICES ASSUME NEW d, NEW o, NEW s, Ready(k, ast, in, val, i, d, o, s)
             PROVE  \E s2 \in Bad(k) : Reached(s, s2, d, o + 1 + Len(Code(ast)[i][d][R0]), val[i])
  BY DEF Reaches
<1>1. /\ d \in Nat /\ o \in Nat /\ s \in Bad(k) /\ s.pc = o + 1 /\ HasAt(k.body, o, Code(ast)[i][d][R0])
      /\ Room(k, ast, i, d) /\ Loaded(s, in) /\ (val[i] = Undef => k.value = Undef)
  BY DEF Ready, Room
<1>2. k \in Job /\ WellFormed(ast) /\ val[i] = NodeValue(val, ast[i], in, k.unsigned) BY DEF Setting, Valuation
<1>3. PICK p \in 1 .. i - 1, p1 \in 1 .. i - 1, p2 \in 1 .. i - 1 :
         p = ast[i].expr /\ p1 = ast[i].min /\ p2 = ast[i].max /\ ast[i].reverse \in BOOLEAN
  BY <1>2, TreeIs DEF Parts
<1>4. p \in 1 .. Len(ast) /\ p1 \in 1 .. Len(ast) /\ p2 \in 1 .. Len(ast) OBVIOUS
<1>5. PICK yes \in {0, 1} : yes = Truth(ast[i].reverse) BY DEF Truth
<1>6. PICK t \in Codes : t = ThreeCode(ast, p, p1, p2, d)
  <2>1. Code(ast)[p][d][R0] \in Codes BY <1>1, <1>2, <1>4, CodeAt
  <2>2. Code(ast)[p1][d + 1][R0] \in Codes
    <3>1. d + 1 \in Nat BY <1>1
    <3> QED BY <1>2, <1>4, <3>1, CodeAt
  <2>3. Code(ast)[p2][d + 2][R0] \in Codes
    <3>1. d + 2 \in Nat BY <1>1
    <3> QED BY <1>2, <1>4, <3>1, CodeAt
  <2>4. Store(d) \in Codes /\ Store(d + 1) \in Codes
    <3>1. R0 \in Operand /\ Slot(d) \in Places /\ Slot(d + 1) \in Places BY <1>1, OperandsAre
    <3> QED BY <3>1, InstructionsAre, JoinIs DEF Store
  <2> QED BY <2>1, <2>2, <2>3, <2>4, JoinIs DEF ThreeCode
<1>7. RangeTest(d) \in Codes /\ SetOutcome(yes) \in Codes
  <2>1. /\ R0 \in Places /\ R1 \in Places /\ R0 \in Operand /\ R1 \in Operand
        /\ Slot(d) \in Operand /\ Slot(d + 1) \in Operand
    BY <1>1, OperandsAre
  <2>2. ">" \in Comparisons /\ "<" \in Comparisons BY DEF Comparisons
  <2>3. /\ Mov(R1, Slot(d)) \in Instruction /\ JumpIfU(">", R1, R0, 4) \in Instruction
        /\ Mov(R0, Slot(d + 1)) \in Instruction /\ JumpIfU("<", R1, R0, 2) \in Instruction
    BY <2>1, <2>2, InstructionsAre
  <2> QED BY <2>3, JoinIs, OutcomeIs DEF RangeTest
<1>8. PICK e \in Codes : e = RangeTest(d) \o SetOutcome(yes) BY <1>7, JoinIs
<1>9. PICK all : all = Code(ast)[i][d][R0] OBVIOUS
<1>10. Join(all, t, e)
  <2>1. all = NodeCode(Code(ast), ast, ast[i], d, R0) BY <1>1, <1>2, <1>9, CodeAt
  <2>2. all = RangeCode(Code(ast), ast[i], d) BY <2>1 DEF NodeCode
  <2>3. RangeCode(Code(ast), ast[i], d) = (t \o RangeTest(d)) \o SetOutcome(yes)
    BY <1>3, <1>5, <1>6 DEF RangeCode, ThreeCode, Store, RangeTest
  <2>4. (t \o RangeTest(d)) \o SetOutcome(yes) = t \o (RangeTest(d) \o SetOutcome(yes))
    BY SMTT(30), <1>7, ConcatAssociative DEF Codes
  <2> QED BY <1>8, <2>2, <2>3, <2>4 DEF Join
<1>11. HasAt(k.body, o, t) /\ HasAt(k.body, o + Len(t), e) /\ Len(all) = Len(t) + Len(e)
  <2>1. k.body \in Codes /\ HasAt(k.body, o, all) /\ o \in Nat BY <1>1, <1>2, <1>9, BadIs
  <2> QED BY <1>10, <2>1, HasJoined
<1>12. Len(t) \in Nat /\ Len(e) \in Nat BY DEF Codes
<1>13. Room(k, ast, p, d) /\ Room(k, ast, p1, d + 1) /\ Room(k, ast, p2, d + 2) BY <1>1, <1>2, <1>3, RoomOf
<1>14. val[i] = (IF Undef \in {val[p], val[p1], val[p2]} THEN Undef
                 ELSE IF val[p] >= val[p1] /\ val[p] <= val[p2] THEN 1 - yes ELSE yes)
  BY <1>2, <1>3, <1>5 DEF NodeValue
<1>15. PICK s1 \in Bad(k) : ThreeReached(s, s1, d, o + Len(t) + 1, val[p], val[p1], val[p2])
  <2>1. Reaches(k, ast, in, val, p) /\ Reaches(k, ast, in, val, p1) /\ Reaches(k, ast, in, val, p2)
    BY DEF Earlier
  <2>2. Undef \in {val[p], val[p1], val[p2]} => k.value = Undef BY <1>1, <1>14
  <2> QED BY <1>1, <1>2, <1>4, <1>6, <1>11, <1>13, <2>1, <2>2, ThreeReach
<1>16. PICK a \in Words, b \in Words, w \in Words :
          /\ s1.pc = o + Len(t) + 1 /\ Kept(s, s1, d)
          /\ s1.frame[LocalSize + d] = a /\ s1.frame[LocalSize + d + 1] = b /\ s1.regs[0] = w
          /\ val[p] \in {Undef, a} /\ val[p1] \in {Undef, b} /\ val[p2] \in {Undef, w}
  BY <1>15 DEF ThreeReached
<1>17. PICK v : v = RangeValue(a, b, w, yes) OBVIOUS
<1>18. val[i] \in {Undef, v}
  <2>1. CASE Undef \in {val[p], val[p1], val[p2]} BY <1>14, <2>1
  <2>2. CASE val[p] = a /\ val[p1] = b /\ val[p2] = w BY <1>14, <1>17, <2>2 DEF RangeValue
  <2> QED BY <1>16, <2>1, <2>2
<1>19. PICK y \in Nat : y = o + Len(t) BY <1>1, <1>12
<1>20. PICK s2 \in Bad(k) : Ends(s1, s2, y + 1 + Len(e), v)
  <2>1. LocalSize + d + 1 < k.size
    <3>1. PICK g \in Nat : g = d + 2 BY <1>1
    <3>2. LocalSize + g <= k.size
      <4>1. Room(k, ast, p2, g) BY <1>13, <3>1
      <4> QED BY <1>2, <1>4, <4>1, RoomIs
    <3>3. k.size \in Nat BY <1>2 DEF Job
    <3> QED BY SMTT(30), <1>1, <3>1, <3>2, <3>3 DEF LocalSize
  <2>2. HasAt(k.body, y, e) /\ s1.pc = y + 1 BY <1>11, <1>16, <1>19
  <2>3. InSlots(k, s1, d, a, b) BY <1>16, <2>1 DEF InSlots
  <2> QED BY <1>1, <1>2, <1>8, <1>16, <1>17, <2>2, <2>3, RangeRuns
<1>21. s2.pc = o + 1 + Len(all) /\ s2.frame = s1.frame /\ s2.regs[0] \in Words /\ v \in {Undef, s2.regs[0]}
  <2>1. y + 1 + Len(e) = o + 1 + Len(all) BY <1>1, <1>11, <1>12, <1>19
  <2> QED BY <1>20, <2>1 DEF Ends
<1>22. val[i] \in {Undef, s2.regs[0]} BY <1>18, <1>21
<1>23. Kept(s, s2, d) BY <1>16, <1>21 DEF Kept
<1> QED BY <1>9, <1>21, <1>22, <1>23 DEF Reached

\* The code of a mask computes its value.
LEMMA MaskReaches ==
  ASSUME NEW k, NEW ast, NEW in, NEW val, Setting(k, ast, in, val), NEW i \in 1 .. Len(ast),
         Earlier(k, ast, in, val, i), ast[i].node = "Mask"
  PROVE  Reaches(k, ast, in, val, i)
<1> SUFFICES ASSUME NEW d, NEW o, NEW s, Ready(k, ast, in, val, i, d, o, s)
             PROVE  \E s2 \in Bad(k) : Reached(s, s2, d, o + 1 + Len(Code(ast)[i][d][R0]), val[i])
  BY DEF Reaches
<1>1. /\ d \in Nat /\ o \in Nat /\ s \in Bad(k) /\ s.pc = o + 1 /\ HasAt(k.body, o, Code(ast)[i][d][R0])
      /\ Room(k, ast, i, d) /\ Loaded(s, in) /\ (val[i] = Undef => k.value = Undef)
  BY DEF Ready, Room
<1>2. k \in Job /\ WellFormed(ast) /\ val[i] = NodeValue(val, ast[i], in, k.unsigned) BY DEF Setting, Valuation
<1>3. PICK p \in 1 .. i - 1, p1 \in 1 .. i - 1, p2 \in 1 .. i - 1 :
         p = ast[i].value /\ p1 = ast[i].mask /\ p2 = ast[i].expr /\ ast[i].reverse \in BOOLEAN
  BY <1>2, TreeIs DEF Parts
<1>4. p \in 1 .. Len(ast) /\ p1 \in 1 .. Len(ast) /\ p2 \in 1 .. Len(ast) OBVIOUS
<1>5. PICK yes \in {0, 1} : yes = Truth(ast[i].reverse) BY DEF Truth
<1>6. PICK t \in Codes : t = ThreeCode(ast, p, p1, p2, d)
  <2>1. Code(ast)[p][d][R0] \in Codes BY <1>1, <1>2, <1>4, CodeAt
  <2>2. Code(ast)[p1][d + 1][R0] \in Codes
    <3>1. d + 1 \in Nat BY <1>1
    <3> QED BY <1>2, <1>4, <3>1, CodeAt
  <2>3. Code(ast)[p2][d + 2][R0] \in Codes
    <3>1. d + 2 \in Nat BY <1>1
    <3> QED BY <1>2, <1>4, <3>1, CodeAt
  <2>4. Store(d) \in Codes /\ Store(d + 1) \in Codes
    <3>1. R0 \in Operand /\ Slot(d) \in Places /\ Slot(d + 1) \in Places BY <1>1, OperandsAre
    <3> QED BY <3>1, InstructionsAre, JoinIs DEF Store
  <2> QED BY <2>1, <2>2, <2>3, <2>4, JoinIs DEF ThreeCode
<1>7. MaskTest(d) \in Codes /\ SetOutcome(yes) \in Codes
  <2>1. /\ R0 \in Places /\ R1 \in Places /\ R2 \in Places /\ R0 \in Operand /\ R1 \in Operand /\ R2 \in Operand
        /\ Slot(d) \in Operand /\ Slot(d + 1) \in Operand
    BY <1>1, OperandsAre
  <2>2. "!=" \in Comparisons /\ "&" \in BinaryOprs BY DEF Comparisons, BinaryOprs
  <2>3. /\ Mov(R1, Slot(d)) \in Instruction /\ Mov(R2, Slot(d + 1)) \in Instruction
        /\ Alu("&", R0, R0, R2) \in Instruction /\ Alu("&", R1, R1, R2) \in Instruction
        /\ JumpIf("!=", R0, R1, 2) \in Instruction
    BY <2>1, <2>2, InstructionsAre
  <2> QED BY <2>3, JoinIs, OutcomeIs DEF MaskTest
<1>8. PICK e \in Codes : e = MaskTest(d) \o SetOutcome(yes) BY <1>7, JoinIs
<1>9. PICK all : all = Code(ast)[i][d][R0] OBVIOUS
<1>10. Join(all, t, e)
  <2>1. all = NodeCode(Code(ast), ast, ast[i], d, R0) BY <1>1, <1>2, <1>9, CodeAt
  <2>2. all = MaskCode(Code(ast), ast[i], d) BY <2>1 DEF NodeCode
  <2>3. MaskCode(Code(ast), ast[i], d) = (t \o MaskTest(d)) \o SetOutcome(yes)
    BY <1>3, <1>5, <1>6 DEF MaskCode, ThreeCode, Store, MaskTest
  <2>4. (t \o MaskTest(d)) \o SetOutcome(yes) = t \o (MaskTest(d) \o SetOutcome(yes))
    <3>1. PICK x \in Codes, z \in Codes : x = MaskTest(d) /\ z = SetOutcome(yes) BY <1>7
    <3>2. (t \o x) \o z = t \o (x \o z) BY SMTT(30), ConcatAssociative DEF Codes
    <3> QED BY <3>1, <3>2
  <2> QED BY <1>8, <2>2, <2>3, <2>4 DEF Join
<1>11. HasAt(k.body, o, t) /\ HasAt(k.body, o + Len(t), e) /\ Len(all) = Len(t) + Len(e)
  <2>1. k.body \in Codes /\ HasAt(k.body, o, all) /\ o \in Nat BY <1>1, <1>2, <1>9, BadIs
  <2> QED BY <1>10, <2>1, HasJoined
<1>12. Len(t) \in Nat /\ Len(e) \in Nat BY DEF Codes
<1>13. Room(k, ast, p, d) /\ Room(k, ast, p1, d + 1) /\ Room(k, ast, p2, d + 2) BY <1>1, <1>2, <1>3, RoomOf
<1>14. val[i] = (IF Undef \in {val[p], val[p1], val[p2]} THEN Undef
                 ELSE IF (val[p2] & val[p1]) = (val[p] & val[p1]) THEN 1 - yes ELSE yes)
  BY <1>2, <1>3, <1>5 DEF NodeValue
<1>15. PICK s1 \in Bad(k) : ThreeReached(s, s1, d, o + Len(t) + 1, val[p], val[p1], val[p2])
  <2>1. Reaches(k, ast, in, val, p) /\ Reaches(k, ast, in, val, p1) /\ Reaches(k, ast, in, val, p2)
    BY DEF Earlier
  <2>2. Undef \in {val[p], val[p1], val[p2]} => k.value = Undef BY <1>1, <1>14
  <2> QED BY <1>1, <1>2, <1>4, <1>6, <1>11, <1>13, <2>1, <2>2, ThreeReach
<1>16. PICK a \in Words, b \in Words, w \in Words :
          /\ s1.pc = o + Len(t) + 1 /\ Kept(s, s1, d)
          /\ s1.frame[LocalSize + d] = a /\ s1.frame[LocalSize + d + 1] = b /\ s1.regs[0] = w
          /\ val[p] \in {Undef, a} /\ val[p1] \in {Undef, b} /\ val[p2] \in {Undef, w}
  BY <1>15 DEF ThreeReached
<1>17. PICK v : v = MaskValue(w, a, b, yes) OBVIOUS
<1>18. val[i] \in {Undef, v}
  <2>1. CASE Undef \in {val[p], val[p1], val[p2]} BY <1>14, <2>1
  <2>2. CASE val[p] = a /\ val[p1] = b /\ val[p2] = w BY <1>14, <1>17, <2>2 DEF MaskValue
  <2> QED BY <1>16, <2>1, <2>2
<1>19. PICK y \in Nat : y = o + Len(t) BY <1>1, <1>12
<1>20. PICK s2 \in Bad(k) : Ends(s1, s2, y + 1 + Len(e), v)
  <2>1. LocalSize + d + 1 < k.size
    <3>1. PICK g \in Nat : g = d + 2 BY <1>1
    <3>2. LocalSize + g <= k.size
      <4>1. Room(k, ast, p2, g) BY <1>13, <3>1
      <4> QED BY <1>2, <1>4, <4>1, RoomIs
    <3>3. k.size \in Nat BY <1>2 DEF Job
    <3> QED BY SMTT(30), <1>1, <3>1, <3>2, <3>3 DEF LocalSize
  <2>2. HasAt(k.body, y, e) /\ s1.pc = y + 1 BY <1>11, <1>16, <1>19
  <2>3. InSlots(k, s1, d, a, b) BY <1>16, <2>1 DEF InSlots
  <2> QED BY <1>1, <1>2, <1>8, <1>16, <1>17, <2>2, <2>3, MaskRuns
<1>21. s2.pc = o + 1 + Len(all) /\ s2.frame = s1.frame /\ s2.regs[0] \in Words /\ v \in {Undef, s2.regs[0]}
  <2>1. y + 1 + Len(e) = o + 1 + Len(all) BY <1>1, <1>11, <1>12, <1>19
  <2> QED BY <1>20, <2>1 DEF Ends
<1>22. val[i] \in {Undef, s2.regs[0]} BY <1>18, <1>21
<1>23. Kept(s, s2, d) BY <1>16, <1>21 DEF Kept
<1> QED BY <1>9, <1>21, <1>22, <1>23 DEF Reached
-------------------------------------------------------------------------------
(***************************************************************************)
(* The whole code, from the call to the return.                            *)
(***************************************************************************)
LEMMA EveryNodeReaches ==
  ASSUME NEW k, NEW ast, NEW in, NEW val, Setting(k, ast, in, val)
  PROVE  \A i \in 1 .. Len(ast) : Reaches(k, ast, in, val, i)
<1> DEFINE G == {i \in 1 .. Len(ast) : Reaches(k, ast, in, val, i)}
<1>1. WellFormed(ast) BY DEF Setting
<1>2. Len(ast) \in Nat BY <1>1, TreeIs
<1>3. ASSUME NEW i \in 1 .. Len(ast), \A j \in 1 .. i - 1 : j \in G PROVE i \in G
  <2>1. Earlier(k, ast, in, val, i) BY <1>3 DEF Earlier
  <2>2. \A j \in 1 .. i - 1 : Reaches(k, ast, in, val, j) BY <1>3
  <2>3. Parts(ast[i], 1 .. i - 1) BY <1>1, TreeIs
  <2>4. CASE ast[i].node \in {"Number", "Ref"}
    <3>1. IsRetarget(ast[i]) BY <2>4 DEF IsRetarget
    <3> QED BY <3>1, LeafReaches
  <2>5. CASE ast[i].node = "Opr1" BY <2>2, <2>5, Opr1Reaches
  <2>6. CASE ast[i].node = "Opr2" BY <2>1, <2>6, Opr2Reaches
  <2>7. CASE ast[i].node = "Opr3" BY <2>1, <2>7, Opr3Reaches
  <2>8. CASE ast[i].node = "Range" BY <2>1, <2>8, RangeReaches
  <2>9. CASE ast[i].node = "Mask" BY <2>1, <2>9, MaskReaches
  <2> QED BY <2>3, <2>4, <2>5, <2>6, <2>7, <2>8, <2>9 DEF Parts
<1> HIDE DEF G
<1>4. \A i \in 1 .. Len(ast) : i \in G BY <1>2, <1>3, EarlierPlaces, Zenon
<1> QED BY <1>4 DEF G

JobOf(code, u, v) == [body |-> code.body, unsigned |-> u, size |-> code.size, value |-> v]

\* What the prologue leaves.
Called(size, in) ==
  [pc    |-> 1,
   regs  |-> [r \in 0 .. 2 |-> Junk],
   frame |-> [i \in 0 .. size - 1 |->
                CASE i = 0 -> in.old [] i = 1 -> in.new [] i = 2 -> in.addr [] OTHER -> Junk]]

\* A call of compiled code is safe.
LEMMA CalledIsSafe ==
  ASSUME NEW ast, WellFormed(ast), NEW root \in 1 .. Len(ast), NEW u \in BOOLEAN, NEW in \in WordsIn,
         NEW val, Valuation(val, ast, in, u), NEW v \in {Undef, val[root]}
  PROVE  Called(CompileAST(ast, root).size, in) \in Safe(JobOf(CompileAST(ast, root), u, v))
<1> DEFINE c == Code(ast)[root][0][R0]
           size == FrameSize(ast, root)
           k == JobOf(CompileAST(ast, root), u, v)
           s == Called(size, in)
<1>1. CompileAST(ast, root) = [body |-> c, size |-> size] BY DEF CompileAST
<1>2. k = [body |-> c, unsigned |-> u, size |-> size, value |-> v] BY <1>1 DEF JobOf
<1>3. c \in Codes /\ Depth(ast)[root][0] \in Nat
  <2>1. 0 \in Nat OBVIOUS
  <2> QED BY <2>1, CodeAt
<1>4. size \in Nat /\ size >= 3 /\ size = LocalSize + Depth(ast)[root][0] BY <1>3 DEF FrameSize, LocalSize
<1> HIDE DEF c, size
<1>5. k \in Job
  <2>1. val[root] \in Words \union {Undef} BY DEF Valuation
  <2> QED BY <1>2, <1>3, <1>4, <2>1 DEF Job
<1>6. k.body = c /\ k.unsigned = u /\ k.size = size /\ k.value = v BY <1>2
<1>7. s \in States(k)
  <2>1. s.pc = 1 /\ s.regs = [r \in 0 .. 2 |-> Junk] BY DEF Called
  <2>2. s.frame \in [0 .. size - 1 -> Cells]
    <3>1. in.old \in Cells /\ in.new \in Cells /\ in.addr \in Cells /\ Junk \in Cells BY DEF WordsIn, Cells
    <3> QED BY <3>1 DEF Called
  <2>3. s.regs \in [0 .. 2 -> Cells] BY <2>1 DEF Cells
  <2> QED BY <1>6, <2>1, <2>2, <2>3 DEF States, Called
<1>8. s.pc = 1 /\ Loaded(s, in) BY <1>4 DEF Called, Loaded
<1> HIDE DEF k, s
<1>9. SUFFICES ASSUME s \notin Safe(k) PROVE FALSE BY <1>1 DEF s, k
<1>10. s \in Bad(k) BY <1>7, <1>9 DEF Bad
<1>11. Setting(k, ast, in, val) BY <1>5, <1>6 DEF Setting
<1>12. Reaches(k, ast, in, val, root) BY <1>11, EveryNodeReaches
<1>13. HasAt(k.body, 0, c)
  <2>1. Len(c) \in Nat BY <1>3 DEF Codes
  <2> QED BY <1>6, <2>1 DEF HasAt
<1>14. Room(k, ast, root, 0)
  <2>1. LocalSize + Depth(ast)[root][0] <= k.size BY <1>4, <1>6
  <2> QED BY <2>1 DEF Room
<1>15. PICK s2 \in Bad(k) : Reached(s, s2, 0, 0 + 1 + Len(c), val[root])
  <2>1. s.pc = 0 + 1 /\ c = Code(ast)[root][0][R0] BY <1>8 DEF c
  <2>2. val[root] = Undef => k.value = Undef BY <1>6
  <2>3. 0 \in Nat OBVIOUS
  <2> QED BY <1>5, <1>8, <1>10, <1>12, <1>13, <1>14, <2>1, <2>2, <2>3, NodeReaches
<1>16. s2 \in States(k) /\ s2 \notin Safe(k) BY <1>5, BadIs
<1>17. s2.pc > Len(k.body) /\ Returns(k, s2)
  <2>1. Len(c) \in Nat BY <1>3 DEF Codes
  <2> QED BY <1>6, <1>15, <2>1 DEF Reached, Returns
<1>18. Allowed(k, s2, Safe(k)) BY <1>17 DEF Allowed
<1> QED BY <1>16, <1>18, SafeFrom
-------------------------------------------------------------------------------
(***************************************************************************)
(* Every tree has its values.                                              *)
(***************************************************************************)
LEMMA CodedUnaryIs ==
  ASSUME NEW opr \in UnaryOprs, NEW a \in Words \union {Undef}
  PROVE  /\ CodedUnary(opr, a) \in Words \union {Undef}
         /\ opr # "!" => CodedUnary(opr, a) = Unary(opr, a)
BY UnaryIs, WrappedIs DEF CodedUnary

\* The value of a node depends on the values of its children only.
LEMMA NodeValueIs ==
  ASSUME NEW P, NEW n, Parts(n, P), NEW f, NEW g, Agree(f, g, P, Words \union {Undef}),
         NEW in \in WordsIn, NEW u \in BOOLEAN
  PROVE  NodeValue(f, n, in, u) \in Words \union {Undef} /\ NodeValue(g, n, in, u) = NodeValue(f, n, in, u)
<1>1. \A j \in P : f[j] \in Words \union {Undef} /\ g[j] = f[j] BY DEF Agree
<1>2. CASE n.node = "Number" BY <1>2 DEF NodeValue, Parts
<1>3. CASE n.node = "Ref"
  <2>1. n.name \in {"old", "new", "addr"} BY <1>3 DEF Parts, LocalVars
  <2>2. in[n.name] \in Words BY <2>1 DEF WordsIn
  <2> QED BY <1>3, <2>2 DEF NodeValue
<1>4. CASE n.node = "Opr1"
  <2>1. n.expr \in P /\ n.opr \in UnaryOprs BY <1>4 DEF Parts
  <2>2. NodeValue(f, n, in, u) = CodedUnary(n.opr, f[n.expr]) /\ NodeValue(g, n, in, u) = CodedUnary(n.opr, g[n.expr])
    BY <1>4 DEF NodeValue
  <2>3. CodedUnary(n.opr, f[n.expr]) \in Words \union {Undef} BY <1>1, <2>1, CodedUnaryIs
  <2> QED BY <1>1, <2>1, <2>2, <2>3
<1>5. CASE n.node = "Opr2"
  <2>1. n.lexpr \in P /\ n.rexpr \in P /\ n.opr \in BinaryOprs BY <1>5 DEF Parts
  <2>2. /\ NodeValue(f, n, in, u) = Binary(n.opr, f[n.lexpr], f[n.rexpr], u)
        /\ NodeValue(g, n, in, u) = Binary(n.opr, g[n.lexpr], g[n.rexpr], u)
    BY <1>5 DEF NodeValue
  <2>3. Binary(n.opr, f[n.lexpr], f[n.rexpr], u) \in Words \union {Undef} BY <1>1, <2>1, BinaryIs
  <2> QED BY <1>1, <2>1, <2>2, <2>3
<1>6. CASE n.node = "Opr3"
  <2>1. n.cond \in P /\ n.expr1 \in P /\ n.expr2 \in P BY <1>6 DEF Parts
  <2> QED BY <1>1, <1>6, <2>1 DEF NodeValue
<1>7. \A p : Truth(p) \in Words /\ 1 - Truth(p) \in Words BY WrappedIs DEF Truth
<1>8. CASE n.node = "Range"
  <2>1. n.expr \in P /\ n.min \in P /\ n.max \in P BY <1>8 DEF Parts
  <2>2. /\ g[n.expr] = f[n.expr] /\ g[n.min] = f[n.min] /\ g[n.max] = f[n.max] BY <1>1, <2>1
  <2>3. PICK yes, no \in Words : yes = Truth(n.reverse) /\ no = 1 - Truth(n.reverse) BY <1>7
  <2> QED BY <1>8, <2>2, <2>3 DEF NodeValue
<1>9. CASE n.node = "Mask"
  <2>1. n.expr \in P /\ n.value \in P /\ n.mask \in P BY <1>9 DEF Parts
  <2>2. /\ g[n.expr] = f[n.expr] /\ g[n.value] = f[n.value] /\ g[n.mask] = f[n.mask] BY <1>1, <2>1
  <2>3. PICK yes, no \in Words : yes = Truth(n.reverse) /\ no = 1 - Truth(n.reverse) BY <1>7
  <2> QED BY <1>9, <2>2, <2>3 DEF NodeValue
<1> QED BY <1>2, <1>3, <1>4, <1>5, <1>6, <1>8, <1>9 DEF Parts

SameValue(f, g, n, in, u) == NodeValue(g, n, in, u) = NodeValue(f, n, in, u)

\* The same, under one name.
LEMMA NodesAgree ==
  ASSUME NEW P, NEW n, Parts(n, P), NEW f, NEW g, Agree(f, g, P, Words \union {Undef}),
         NEW in \in WordsIn, NEW u \in BOOLEAN
  PROVE  SameValue(f, g, n, in, u)
BY NodeValueIs DEF SameValue

\* Every tree has a value at each of its nodes.
LEMMA ValuationExists ==
  ASSUME NEW ast, WellFormed(ast), NEW in \in WordsIn, NEW u \in BOOLEAN
  PROVE  \E val : Valuation(val, ast, in, u)
<1> DEFINE V == Words \union {Undef}
           step == [i \in 1 .. Len(ast) |-> [g \in [1 .. i - 1 -> V] |-> NodeValue(g, ast[i], in, u)]]
<1>1. Len(ast) \in Nat /\ \A i \in 1 .. Len(ast) : Parts(ast[i], 1 .. i - 1) BY TreeIs
<1>2. \A i \in 1 .. Len(ast) : \A g \in [1 .. i - 1 -> V] : step[i][g] \in V
  <2> SUFFICES ASSUME NEW i \in 1 .. Len(ast), NEW g \in [1 .. i - 1 -> V] PROVE step[i][g] \in V
    OBVIOUS
  <2>1. step[i][g] = NodeValue(g, ast[i], in, u) OBVIOUS
  <2>2. Agree(g, g, 1 .. i - 1, Words \union {Undef}) BY DEF Agree
  <2>3. NodeValue(g, ast[i], in, u) \in V BY <1>1, <2>2, NodeValueIs
  <2> QED BY <2>1, <2>3
<1> HIDE DEF V
<1>3. \E f : FromBelow(f, V, Len(ast), step)
  <2> HIDE DEF step
  <2> QED BY <1>1, <1>2, FromBelowExists, Zenon
<1>4. PICK f : f \in [1 .. Len(ast) -> V] /\ \A i \in 1 .. Len(ast) : f[i] = step[i][Below(f, i)]
  BY <1>3 DEF FromBelow
<1>5. ASSUME NEW i \in 1 .. Len(ast) PROVE f[i] \in V /\ f[i] = NodeValue(f, ast[i], in, u)
  <2>1. PICK b : b = Below(f, i) OBVIOUS
  <2>2. \A j \in 1 .. i - 1 : j \in 1 .. Len(ast) BY <1>1
  <2>3. \A j \in 1 .. i - 1 : f[j] \in V BY <1>4, <2>2
  <2>4. b \in [1 .. i - 1 -> V] BY <2>1, <2>3 DEF Below
  <2>5. f[i] = NodeValue(b, ast[i], in, u) BY <1>4, <2>1, <2>4
  <2> HIDE DEF step
  <2>6. Agree(f, b, 1 .. i - 1, Words \union {Undef}) BY <2>1, <2>3 DEF Agree, Below, V
  <2>7. Parts(ast[i], 1 .. i - 1) BY <1>1
  <2>8. PICK n : n = ast[i] OBVIOUS
  <2>9. SameValue(f, b, n, in, u) BY <2>6, <2>7, <2>8, NodesAgree
  <2> QED BY <1>4, <2>5, <2>8, <2>9 DEF SameValue
<1> QED BY <1>5 DEF Valuation, V

\* A tree keeps its values when nodes are added after it.
Extends(ast2, ast) ==
  Len(ast) <= Len(ast2) /\ \A i \in 1 .. Len(ast) : i \in 1 .. Len(ast2) /\ ast2[i] = ast[i]

\* The values of a tree are the values of the heap it grew from.
LEMMA ValuationOfPart ==
  ASSUME NEW ast, NEW ast2, Extends(ast2, ast), NEW in, NEW u, NEW val, Valuation(val, ast2, in, u)
  PROVE  Valuation(val, ast, in, u)
BY DEF Extends, Valuation

\* A heap with one more node.
LEMMA Allocated ==
  ASSUME NEW ast, WellFormed(ast), NEW n \in NodesOf(1 .. Len(ast))
  PROVE  /\ WellFormed(Append(ast, n)) /\ Extends(Append(ast, n), ast)
         /\ Len(Append(ast, n)) = Len(ast) + 1 /\ Append(ast, n)[Len(ast) + 1] = n
<1> DEFINE new == Append(ast, n)
<1>1. Len(ast) \in Nat /\ ast \in Seq(NodesOf(Nat)) BY DEF WellFormed
<1>2. n \in NodesOf(Nat)
  <2>1. 1 .. Len(ast) \subseteq Nat BY <1>1
  <2> QED BY <2>1 DEF NodesOf
<1>3. /\ new \in Seq(NodesOf(Nat)) /\ Len(new) = Len(ast) + 1 /\ new[Len(ast) + 1] = n
      /\ \A i \in 1 .. Len(ast) : new[i] = ast[i]
  <2>1. \A i \in 1 .. Len(ast) + 1 : new[i] = IF i <= Len(ast) THEN ast[i] ELSE n
    BY <1>1, <1>2, AppendProperties
  <2>2. new \in Seq(NodesOf(Nat)) /\ Len(new) = Len(ast) + 1 BY <1>1, <1>2, AppendProperties
  <2> QED BY <1>1, <2>1, <2>2
<1> HIDE DEF new
<1>4. \A i \in 1 .. Len(new) : new[i] \in NodesOf(1 .. i - 1)
  <2> SUFFICES ASSUME NEW i \in 1 .. Len(new) PROVE new[i] \in NodesOf(1 .. i - 1) OBVIOUS
  <2>1. CASE i \in 1 .. Len(ast)
    <3>1. ast[i] \in NodesOf(1 .. i - 1) BY <2>1 DEF WellFormed
    <3> QED BY <1>3, <2>1, <3>1
  <2>2. CASE i = Len(ast) + 1
    <3>1. i - 1 = Len(ast) BY <1>1, <2>2
    <3> QED BY <1>3, <2>2, <3>1
  <2> QED BY <1>1, <1>3, <2>1, <2>2
<1>5. WellFormed(new) BY <1>3, <1>4 DEF WellFormed
<1>6. Extends(new, ast) BY <1>1, <1>3 DEF Extends
<1> QED BY <1>3, <1>5, <1>6 DEF new
-------------------------------------------------------------------------------
(***************************************************************************)
(* What the parser has on its stack and what the text says is there.       *)
(***************************************************************************)
LEMMA ArityIs ==
  ASSUME NEW t \in Tokens
  PROVE  Arity(t) \in 0 .. 3
BY DEF Arity

\* The height of the stack behind each token.
LEMMA HeightIs ==
  ASSUME NEW tokens \in Seq(Tokens)
  PROVE  /\ Height(tokens) \in [0 .. Len(tokens) -> Int] /\ Height(tokens)[0] = 0
         /\ \A k \in 1 .. Len(tokens) : Height(tokens)[k] = Height(tokens)[k - 1] - Arity(tokens[k]) + 1
<1> DEFINE n == Len(tokens)
           step == [k \in 1 .. n |-> [x \in Int |-> x - Arity(tokens[k]) + 1]]
           Equation(f) == [k \in 0 .. n |-> IF k = 0 THEN 0 ELSE f[k - 1] - Arity(tokens[k]) + 1]
<1>1. n \in Nat /\ \A k \in 1 .. n : Arity(tokens[k]) \in Int
  <2>1. \A k \in 1 .. n : Arity(tokens[k]) \in 0 .. 3 BY ArityIs
  <2> QED BY <2>1
<1>2. \A k \in 1 .. n : \A x \in Int : step[k][x] = x - Arity(tokens[k]) + 1 /\ step[k][x] \in Int BY <1>1
<1> HIDE DEF n, step
<1>3. 0 \in Int OBVIOUS
<1>4. \E f : Recursive(f, Int, 0, n, step) BY <1>1, <1>2, <1>3, RecursionExists, Zenon
<1>5. PICK f : f \in [0 .. n -> Int] /\ f[0] = 0 /\ \A k \in 1 .. n : f[k] = step[k][f[k - 1]]
  BY <1>4 DEF Recursive
<1>6. ASSUME NEW k \in 1 .. n PROVE f[k] = f[k - 1] - Arity(tokens[k]) + 1
  <2>1. k - 1 \in 0 .. n BY <1>1
  <2>2. f[k - 1] \in Int BY <1>5, <2>1
  <2> QED BY <1>2, <1>5, <2>2
<1>7. f = Equation(f)
  <2>1. f = [k \in 0 .. n |-> f[k]] BY <1>5
  <2>2. \A k \in 0 .. n : k = 0 \/ k \in 1 .. n BY <1>1
  <2> QED BY <1>5, <1>6, <2>1, <2>2
<1>8. Height(tokens) = CHOOSE h : h = Equation(h) BY DEF Height, n
<1> HIDE DEF Equation
<1> DEFINE h == Height(tokens)
<1>9. h = Equation(h) BY <1>7, <1>8
<1> HIDE DEF h
<1>10. /\ DOMAIN h = 0 .. n /\ h[0] = 0
       /\ \A k \in 1 .. n : k - 1 \in 0 .. n /\ h[k] = h[k - 1] - Arity(tokens[k]) + 1
  <2>1. \A k \in 0 .. n : h[k] = IF k = 0 THEN 0 ELSE h[k - 1] - Arity(tokens[k]) + 1 BY <1>9 DEF Equation
  <2>2. DOMAIN h = 0 .. n BY <1>9 DEF Equation
  <2>3. 0 \in 0 .. n /\ \A k \in 1 .. n : k \in 0 .. n /\ k # 0 /\ k - 1 \in 0 .. n BY <1>1
  <2> QED BY <2>1, <2>2, <2>3
<1> DEFINE G == {k \in 0 .. n : h[k] \in Int}
<1>11. \A k \in 0 .. n : k \in G
  <2>1. 0 \in G BY <1>1, <1>10
  <2>2. \A k \in 1 .. n : k - 1 \in G => k \in G BY <1>1, <1>10
  <2> HIDE DEF G
  <2> QED BY <1>1, <2>1, <2>2, EveryPlace, Zenon
<1>12. h \in [0 .. n -> Int]
  <2>1. h = [k \in 0 .. n |-> h[k]] BY <1>9 DEF Equation
  <2> QED BY <1>11, <2>1
<1> QED BY <1>10, <1>12 DEF h, n

\* The evaluation of the text, token by token.
LEMMA EvaluationIs ==
  ASSUME NEW in, NEW u, Len(source.tokens) \in Nat
  PROVE  /\ Evaluation(in, u)[0] = <<>>
         /\ \A k \in 1 .. Len(source.tokens) :
              Evaluation(in, u)[k] = Evaluated(Evaluation(in, u)[k - 1], source.tokens[k], in, u)
<1> DEFINE n == Len(source.tokens)
           Next1(x, k) == Evaluated(x, source.tokens[k], in, u)
           Equation(f) == [k \in 0 .. n |-> IF k = 0 THEN <<>> ELSE Evaluated(f[k - 1], source.tokens[k], in, u)]
           Follows(f, m) == /\ DOMAIN f = 0 .. m /\ f = [k \in 0 .. m |-> f[k]] /\ f[0] = <<>>
                            /\ \A k \in 1 .. m : f[k] = Next1(f[k - 1], k)
           G == {m \in 0 .. n : \E f : Follows(f, m)}
<1> HIDE DEF Next1
<1>1. 0 \in G
  <2>1. Follows([k \in 0 .. 0 |-> <<>>], 0) OBVIOUS
  <2> HIDE DEF Follows
  <2> QED BY <2>1
<1>2. ASSUME NEW m \in 1 .. n, m - 1 \in G PROVE m \in G
  <2>1. PICK f : Follows(f, m - 1) BY <1>2
  <2>2. f[0] = <<>> /\ \A k \in 1 .. m - 1 : f[k] = Next1(f[k - 1], k) BY <2>1
  <2> DEFINE g == [k \in 0 .. m |-> IF k = m THEN Next1(f[m - 1], m) ELSE f[k]]
  <2>3. DOMAIN g = 0 .. m /\ g = [k \in 0 .. m |-> g[k]] OBVIOUS
  <2>4. g[m] = Next1(f[m - 1], m) /\ \A k \in 0 .. m - 1 : g[k] = f[k] OBVIOUS
  <2> HIDE DEF g
  <2>5. g[0] = <<>> BY <2>2, <2>4
  <2>6. ASSUME NEW k \in 1 .. m PROVE g[k] = Next1(g[k - 1], k)
    <3>1. g[k - 1] = f[k - 1] BY <2>4
    <3>2. CASE k = m BY <2>4, <3>1, <3>2
    <3>3. CASE k # m
      <4>1. k \in 1 .. m - 1 /\ k \in 0 .. m - 1 BY <3>3
      <4> QED BY <2>2, <2>4, <3>1, <4>1
    <3> QED BY <3>2, <3>3
  <2>7. Follows(g, m) BY <2>3, <2>5, <2>6
  <2> HIDE DEF Follows
  <2> QED BY <2>7
<1>3. n \in G
  <2>1. n \in Nat OBVIOUS
  <2> HIDE DEF G, n
  <2>2. \A m \in 0 .. n : m \in G BY <1>1, <1>2, <2>1, EveryPlace, Zenon
  <2> QED BY <2>1, <2>2
<1>4. PICK f : Follows(f, n) BY <1>3
<1>5. f = Equation(f)
  <2>1. f = [k \in 0 .. n |-> f[k]] BY <1>4
  <2>2. \A k \in 0 .. n : k = 0 \/ k \in 1 .. n OBVIOUS
  <2>3. \A k \in 0 .. n : f[k] = IF k = 0 THEN <<>> ELSE Evaluated(f[k - 1], source.tokens[k], in, u)
    BY <1>4, <2>2 DEF Next1
  <2> QED BY <2>1, <2>3
<1>6. Evaluation(in, u) = CHOOSE h : h = Equation(h) BY DEF Evaluation
<1> DEFINE h == Evaluation(in, u)
<1>7. h = Equation(h)
  <2> HIDE DEF Equation
  <2> QED BY <1>5, <1>6
<1> HIDE DEF h
<1>8. \A k \in 0 .. n : h[k] = IF k = 0 THEN <<>> ELSE Evaluated(h[k - 1], source.tokens[k], in, u) BY <1>7
<1>9. 0 \in 0 .. n /\ \A k \in 1 .. n : k \in 0 .. n /\ k # 0 OBVIOUS
<1> QED BY <1>8, <1>9 DEF h

\* The top of a stack and the rest of it.
LEMMA TopIs ==
  ASSUME NEW S, NEW s \in Seq(S), NEW n \in 0 .. Len(s)
  PROVE  /\ Top(s, n) \in Seq(S) /\ Len(Top(s, n)) = n /\ Rest(s, n) \in Seq(S) /\ Len(Rest(s, n)) = Len(s) - n
         /\ \A j \in 1 .. n : Top(s, n)[j] = s[Len(s) - n + j] /\ Len(s) - n + j \in 1 .. Len(s)
         /\ \A j \in 1 .. Len(s) - n : Rest(s, n)[j] = s[j]
BY DEF Top, Rest
Entry == [value : Words \union {Undef}, const : BOOLEAN]

\* Place p is what the parser has for an operand e of the text.
Stands(e, ast, p, val) ==
  e.value \in {Undef, val[p]} /\ (e.value # Undef => (e.const <=> (optimal /\ IsNumber(ast[p]))))

Matches(E, stk, ast, val) ==
  /\ E \in Seq(Entry) /\ Len(E) = Len(stk)
  /\ \A j \in 1 .. Len(stk) : Stands(E[j], ast, stk[j], val)

\* A node stands for an entry in every larger heap.
LEMMA StandsMore ==
  ASSUME NEW ast, NEW ast2, Extends(ast2, ast), NEW p \in 1 .. Len(ast), NEW e, NEW val,
         Stands(e, ast, p, val)
  PROVE  Stands(e, ast2, p, val)
<1>1. ast2[p] = ast[p] BY DEF Extends
<1> QED BY <1>1 DEF Stands

\* If two stacks match then so do their tops.
LEMMA MatchesTop ==
  ASSUME NEW ast, NEW stk \in Seq(1 .. Len(ast)), NEW E, NEW val, Matches(E, stk, ast, val),
         NEW n \in 0 .. Len(stk)
  PROVE  Top(stk, n) \in Seq(1 .. Len(ast)) /\ Len(Top(stk, n)) = n /\ Matches(Top(E, n), Top(stk, n), ast, val)
<1>1. E \in Seq(Entry) /\ Len(E) = Len(stk) /\ \A j \in 1 .. Len(stk) : Stands(E[j], ast, stk[j], val)
  BY DEF Matches
<1>2. /\ Top(stk, n) \in Seq(1 .. Len(ast)) /\ Len(Top(stk, n)) = n
      /\ \A j \in 1 .. n : Top(stk, n)[j] = stk[Len(stk) - n + j] /\ Len(stk) - n + j \in 1 .. Len(stk)
  BY TopIs
<1>3. n \in 0 .. Len(E) BY <1>1
<1>4. /\ Top(E, n) \in Seq(Entry) /\ Len(Top(E, n)) = n
      /\ \A j \in 1 .. n : Top(E, n)[j] = E[Len(E) - n + j]
  BY ZenonT(60), <1>1, <1>3, TopIs
<1>5. ASSUME NEW j \in 1 .. n PROVE Stands(Top(E, n)[j], ast, Top(stk, n)[j], val)
  <2>1. PICK i \in 1 .. Len(stk) : i = Len(stk) - n + j BY <1>2
  <2>2. Top(E, n)[j] = E[i] /\ Top(stk, n)[j] = stk[i] BY <1>1, <1>2, <1>4, <2>1
  <2> QED BY <1>1, <2>2
<1> QED BY <1>2, <1>4, <1>5 DEF Matches

\* The operands of a token are replaced by what it makes of them.
LEMMA MatchesPushed ==
  ASSUME NEW ast, NEW ast2, Extends(ast2, ast), Len(ast) \in Nat, Len(ast2) \in Nat,
         NEW stk \in Seq(1 .. Len(ast)), NEW E, NEW val, Matches(E, stk, ast, val),
         NEW n \in 0 .. Len(stk), NEW p \in 1 .. Len(ast2), NEW e \in Entry, Stands(e, ast2, p, val)
  PROVE  Matches(Append(Rest(E, n), e), Append(Rest(stk, n), p), ast2, val)
<1>1. E \in Seq(Entry) /\ Len(E) = Len(stk) /\ \A j \in 1 .. Len(stk) : Stands(E[j], ast, stk[j], val)
  BY DEF Matches
<1>2. n \in 0 .. Len(E) BY <1>1
<1>3. PICK x : x = Rest(stk, n) OBVIOUS
<1>4. PICK y : y = Rest(E, n) OBVIOUS
<1>11. Len(stk) \in Nat OBVIOUS
<1>5. PICK m \in 0 .. Len(stk) : m = Len(stk) - n
  <2>1. Len(stk) - n \in 0 .. Len(stk) BY <1>11
  <2> QED BY <2>1
<1>6. /\ x \in Seq(1 .. Len(ast)) /\ Len(x) = m /\ \A j \in 1 .. m : x[j] = stk[j]
  BY ZenonT(60), <1>3, <1>5, TopIs
<1>7. y \in Seq(Entry) /\ Len(y) = m /\ \A j \in 1 .. m : y[j] = E[j]
  <2>1. /\ Rest(E, n) \in Seq(Entry) /\ Len(Rest(E, n)) = Len(E) - n
        /\ \A j \in 1 .. Len(E) - n : Rest(E, n)[j] = E[j]
    BY <1>1, <1>2, TopIs
  <2> QED BY <1>1, <1>4, <1>5, <2>1
<1>8. /\ Append(y, e) \in Seq(Entry) /\ Len(Append(y, e)) = m + 1
      /\ \A j \in 1 .. m : Append(y, e)[j] = y[j]
      /\ Append(y, e)[m + 1] = e
  <2>1. /\ Append(y, e) \in Seq(Entry) /\ Len(Append(y, e)) = Len(y) + 1
        /\ \A j \in 1 .. Len(y) + 1 : Append(y, e)[j] = IF j <= Len(y) THEN y[j] ELSE e
    BY <1>7, AppendProperties
  <2> QED BY <1>5, <1>7, <2>1
<1>9. /\ Len(Append(x, p)) = m + 1 /\ \A j \in 1 .. m : Append(x, p)[j] = x[j]
      /\ Append(x, p)[m + 1] = p
  <2>1. x \in Seq(Nat) /\ p \in Nat
    <3>1. 1 .. Len(ast) \subseteq Nat OBVIOUS
    <3> QED BY <1>6, <3>1
  <2>2. /\ Len(Append(x, p)) = Len(x) + 1
        /\ \A j \in 1 .. Len(x) + 1 : Append(x, p)[j] = IF j <= Len(x) THEN x[j] ELSE p
    BY <2>1, AppendProperties
  <2> QED BY <1>5, <1>6, <2>2
<1>10. ASSUME NEW j \in 1 .. m + 1 PROVE Stands(Append(y, e)[j], ast2, Append(x, p)[j], val)
  <2>1. CASE j = m + 1
    <3>1. Append(y, e)[j] = e /\ Append(x, p)[j] = p BY <1>8, <1>9, <2>1
    <3> QED BY <3>1
  <2>2. CASE j \in 1 .. m
    <3>1. j \in 1 .. Len(stk) BY <2>2
    <3>2. stk[j] \in 1 .. Len(ast) /\ Stands(E[j], ast, stk[j], val) BY <1>1, <3>1
    <3>3. Stands(E[j], ast2, stk[j], val) BY <3>2, StandsMore
    <3>4. Append(y, e)[j] = E[j] /\ Append(x, p)[j] = stk[j] BY <1>6, <1>7, <1>8, <1>9, <2>2
    <3> QED BY <3>3, <3>4
  <2>3. m \in Nat BY <1>11
  <2>4. j = m + 1 \/ j \in 1 .. m BY <2>3
  <2> QED BY <2>1, <2>2, <2>4
<1> QED BY <1>3, <1>4, <1>8, <1>9, <1>10 DEF Matches

\* A stack whose top was replaced.
LEMMA StackPushed ==
  ASSUME NEW ast, NEW ast2, Len(ast) \in Nat, Len(ast2) \in Nat, Len(ast) <= Len(ast2),
         NEW stk \in Seq(1 .. Len(ast)), NEW n \in 0 .. Len(stk), NEW p \in 1 .. Len(ast2)
  PROVE  /\ Append(Rest(stk, n), p) \in Seq(1 .. Len(ast2))
         /\ Len(Append(Rest(stk, n), p)) = Len(stk) - n + 1
<1>1. 1 .. Len(ast) \subseteq 1 .. Len(ast2) OBVIOUS
<1>2. stk \in Seq(1 .. Len(ast2)) BY <1>1
<1>3. Rest(stk, n) \in Seq(1 .. Len(ast2)) /\ Len(Rest(stk, n)) = Len(stk) - n BY <1>2, TopIs
<1> QED BY <1>3
-------------------------------------------------------------------------------
(***************************************************************************)
(* What a reduction leaves is what the text says of its operands.          *)
(***************************************************************************)
Operated(a, b, ast, val, in, u) ==
  /\ WellFormed(ast) /\ b \in Seq(1 .. Len(ast)) /\ Matches(a, b, ast, val)
  /\ in \in WordsIn /\ u \in BOOLEAN /\ optimal \in BOOLEAN /\ Valuation(val, ast, in, u)

\* What is known of one operand, as it is evaluated and as it is parsed.
OperandStands(a, b, ast, val, j) ==
  /\ b[j] \in 1 .. Len(ast) /\ Stands(a[j], ast, b[j], val)
  /\ a[j] \in Entry /\ a[j].value \in Words \union {Undef} /\ a[j].const \in BOOLEAN
  /\ val[b[j]] \in Words \union {Undef}
  /\ IsNumber(ast[b[j]]) => val[b[j]] = ast[b[j]].value /\ ast[b[j]].value \in Words

\* The operands of a token, evaluated and parsed.
LEMMA OperandIs ==
  ASSUME NEW a, NEW b, NEW ast, NEW val, NEW in, NEW u, Operated(a, b, ast, val, in, u),
         NEW j \in 1 .. Len(b)
  PROVE  OperandStands(a, b, ast, val, j)
<1>1. Len(a) = Len(b) /\ a \in Seq(Entry) /\ b \in Seq(1 .. Len(ast)) BY DEF Operated, Matches
<1>2. a[j] \in Entry /\ b[j] \in 1 .. Len(ast) BY <1>1
<1>3. Stands(a[j], ast, b[j], val) BY DEF Operated, Matches
<1>4. PICK p \in 1 .. Len(ast) : p = b[j] BY <1>2
<1>5. val[p] \in Words \union {Undef} /\ val[p] = NodeValue(val, ast[p], in, u) BY DEF Operated, Valuation
<1>6. IsNumber(ast[p]) => val[p] = ast[p].value /\ ast[p].value \in Words
  <2>1. Parts(ast[p], 1 .. p - 1) BY TreeIs DEF Operated
  <2> QED BY <1>5, <2>1 DEF IsNumber, NodeValue, Parts
<1> QED BY <1>2, <1>3, <1>4, <1>5, <1>6 DEF Entry, OperandStands

\* The parser builds a node of the heap.
LEMMA BuiltIs ==
  ASSUME NEW t \in Tokens, NEW P, NEW b \in Seq(P), Len(b) = Arity(t)
  PROVE  Built(t, b) \in NodesOf(P)
<1>1. CASE t \in {"num"} \X Words
  <2>1. t[1] = "num" /\ t[2] \in Words BY <1>1
  <2> QED BY <2>1 DEF Built, ASTNumber, NodesOf
<1>2. CASE t \in {"ref"} \X DOMAIN LocalVars
  <2>1. t[1] = "ref" /\ t[2] \in DOMAIN LocalVars BY <1>2
  <2>2. Built(t, b) = ASTRef(t[2]) BY <2>1 DEF Built
  <2> QED BY <2>1, <2>2 DEF ASTRef, NodesOf
<1>3. CASE t \in {"opr1"} \X UnaryOprs
  <2>1. t[1] = "opr1" /\ t[2] \in UnaryOprs BY <1>3
  <2>2. b[1] \in P BY <2>1 DEF Arity
  <2>3. Built(t, b) = ASTOpr1(t[2], b[1]) BY <2>1 DEF Built
  <2> QED BY <2>1, <2>2, <2>3 DEF ASTOpr1, NodesOf
<1>4. CASE t \in {"opr2"} \X BinaryOprs
  <2>1. t[1] = "opr2" /\ t[2] \in BinaryOprs BY <1>4
  <2>4. Len(b) = 2 BY <2>1 DEF Arity
  <2>2. b[1] \in P /\ b[2] \in P BY <2>4
  <2>3. Built(t, b) = ASTOpr2(b[1], t[2], b[2]) BY <2>1 DEF Built
  <2> QED BY <2>1, <2>2, <2>3 DEF ASTOpr2, NodesOf
<1>5. CASE t = <<"opr3">>
  <2>1. t[1] = "opr3" BY <1>5
  <2>2. b[1] \in P /\ b[2] \in P /\ b[3] \in P BY SMTT(30), <2>1 DEF Arity
  <2>3. Built(t, b) = ASTOpr3(b[1], b[2], b[3]) BY <2>1 DEF Built
  <2> QED BY <2>1, <2>2, <2>3 DEF ASTOpr3, NodesOf
<1> QED BY <1>1, <1>2, <1>3, <1>4, <1>5 DEF Tokens

\* What a token makes of its operands, by its kind.
LEMMA UnaryReduced ==
  ASSUME NEW a, NEW b, NEW ast, NEW val, NEW in, NEW u, Operated(a, b, ast, val, in, u),
         NEW t, t[1] = "opr1", t[2] \in UnaryOprs, t[2] = "!" => a[1].const, Len(b) = 1,
         NEW n, n = Built(t, b)
  PROVE  /\ Reduced(a, t, in, u) \in Entry
         /\ optimal /\ IsConstantOpr(ast, n) =>
              \A w \in Outcomes(FoldsTo(ast, n)) : Stands(Reduced(a, t, in, u), <<ASTNumber(w)>>, 1, <<w>>)
         /\ ~(optimal /\ IsConstantOpr(ast, n)) =>
              Stands(Reduced(a, t, in, u), <<n>>, 1, <<NodeValue(val, n, in, u)>>)
<1>1. PICK p : p = b[1] OBVIOUS
<1>2. PICK x \in Words \union {Undef}, k \in BOOLEAN :
         /\ a[1].value = x /\ a[1].const = k /\ x \in {Undef, val[p]}
         /\ x # Undef => (k <=> (optimal /\ IsNumber(ast[p])))
         /\ IsNumber(ast[p]) => val[p] = ast[p].value
  <2>1. 1 \in 1 .. Len(b) OBVIOUS
  <2>2. OperandStands(a, b, ast, val, 1) BY <2>1, OperandIs
  <2>3. /\ Stands(a[1], ast, b[1], val) /\ a[1].value \in Words \union {Undef} /\ a[1].const \in BOOLEAN
        /\ IsNumber(ast[b[1]]) => val[b[1]] = ast[b[1]].value
    BY <2>2 DEF OperandStands
  <2> QED BY <1>1, <2>3 DEF Stands
<1>3. IsNumber(ast[p]) => val[p] = ast[p].value BY <1>2
<1>4. n = ASTOpr1(t[2], p) BY <1>1 DEF Built
<1>5. n.node = "Opr1" /\ n.opr = t[2] /\ n.expr = p BY <1>4 DEF ASTOpr1
<1>6. PICK y : y = Unary(t[2], x) OBVIOUS
<1>7. y \in Words \union {Undef} /\ (x = Undef => y = Undef) BY <1>6, UnaryIs
<1>8. PICK e : e = Reduced(a, t, in, u) OBVIOUS
<1>9. e.value = y /\ e.const = k /\ e \in Entry
  <2>1. DOMAIN a = {1}
    <3>1. a \in Seq(Entry) /\ Len(a) = 1 BY DEF Operated, Matches
    <3> QED BY <3>1
  <2>2. e = [value |-> Unary(t[2], a[1].value), const |-> \A i \in DOMAIN a : a[i].const]
    BY <1>8 DEF Reduced
  <2>3. (\A i \in DOMAIN a : a[i].const) <=> k BY <1>2, <2>1
  <2>4. e = [value |-> y, const |-> k] BY <1>2, <1>6, <2>2, <2>3
  <2> QED BY <1>7, <2>4 DEF Entry
<1>10. ASSUME optimal /\ IsConstantOpr(ast, n), NEW w \in Outcomes(FoldsTo(ast, n))
       PROVE Stands(e, <<ASTNumber(w)>>, 1, <<w>>)
  <2>1. IsNumber(ast[p]) BY <1>5, <1>10 DEF IsConstantOpr
  <2>2. FoldsTo(ast, n) = Unary(t[2], val[p]) BY <1>3, <1>5, <2>1 DEF FoldsTo
  <2>3. y \in {Undef, w}
    <3>1. CASE x = Undef BY <1>7, <3>1
    <3>2. CASE x # Undef
      <4>1. FoldsTo(ast, n) = y BY <1>2, <1>6, <2>2, <3>2
      <4> QED BY <1>10, <4>1 DEF Outcomes
    <3> QED BY <3>1, <3>2
  <2>4. y # Undef => k BY <1>2, <1>7, <1>10, <2>1
  <2>5. <<ASTNumber(w)>>[1] = ASTNumber(w) /\ <<w>>[1] = w /\ IsNumber(ASTNumber(w)) BY DEF IsNumber, ASTNumber
  <2> QED BY <1>9, <1>10, <2>3, <2>4, <2>5 DEF Stands
<1>11. ASSUME ~(optimal /\ IsConstantOpr(ast, n))
       PROVE  Stands(e, <<n>>, 1, <<NodeValue(val, n, in, u)>>)
  <2>1. ~(optimal /\ IsNumber(ast[p])) BY <1>5, <1>11 DEF IsConstantOpr
  <2>2. PICK v : v = NodeValue(val, n, in, u) OBVIOUS
  <2>3. v = CodedUnary(t[2], val[p]) BY <1>5, <2>2 DEF NodeValue
  <2>4. ASSUME t[2] # "!" PROVE y \in {Undef, v}
    <3>1. v = Unary(t[2], val[p]) BY <2>3, <2>4 DEF CodedUnary
    <3> QED BY <1>2, <1>6, <1>7, <3>1
  <2>5. ASSUME t[2] = "!" PROVE y \in {Undef, v}
    <3>1. k BY <1>2, <2>5
    <3>2. x = Undef BY <1>2, <2>1, <3>1
    <3> QED BY <1>7, <3>2
  <2>6. y \in {Undef, v} BY <2>4, <2>5
  <2>7. y # Undef => ~k BY <1>2, <1>7, <2>1
  <2>8. <<n>>[1] = n /\ <<v>>[1] = v /\ ~IsNumber(n) BY <1>5 DEF IsNumber
  <2> QED BY <1>9, <2>2, <2>6, <2>7, <2>8 DEF Stands
<1> QED BY <1>8, <1>9, <1>10, <1>11

\* A binary token, evaluated and parsed, folded or not.
LEMMA BinaryReduced ==
  ASSUME NEW a, NEW b, NEW ast, NEW val, NEW in, NEW u, Operated(a, b, ast, val, in, u),
         NEW t, t[1] = "opr2", t[2] \in BinaryOprs, Len(b) = 2, NEW n, n = Built(t, b)
  PROVE  /\ Reduced(a, t, in, u) \in Entry
         /\ optimal /\ IsConstantOpr(ast, n) =>
              \A w \in Outcomes(FoldsTo(ast, n)) : Stands(Reduced(a, t, in, u), <<ASTNumber(w)>>, 1, <<w>>)
         /\ ~(optimal /\ IsConstantOpr(ast, n)) =>
              Stands(Reduced(a, t, in, u), <<n>>, 1, <<NodeValue(val, n, in, u)>>)
<1>1. PICK p, q : p = b[1] /\ q = b[2] OBVIOUS
<1>2. PICK x \in Words \union {Undef}, k \in BOOLEAN :
         /\ a[1].value = x /\ a[1].const = k /\ x \in {Undef, val[p]}
         /\ x # Undef => (k <=> (optimal /\ IsNumber(ast[p])))
         /\ IsNumber(ast[p]) => val[p] = ast[p].value
  <2>1. 1 \in 1 .. Len(b) OBVIOUS
  <2>2. OperandStands(a, b, ast, val, 1) BY <2>1, OperandIs
  <2>3. /\ Stands(a[1], ast, b[1], val) /\ a[1].value \in Words \union {Undef} /\ a[1].const \in BOOLEAN
        /\ IsNumber(ast[b[1]]) => val[b[1]] = ast[b[1]].value
    BY <2>2 DEF OperandStands
  <2> QED BY <1>1, <2>3 DEF Stands
<1>3. PICK z \in Words \union {Undef}, l \in BOOLEAN :
         /\ a[2].value = z /\ a[2].const = l /\ z \in {Undef, val[q]}
         /\ z # Undef => (l <=> (optimal /\ IsNumber(ast[q])))
         /\ IsNumber(ast[q]) => val[q] = ast[q].value
  <2>1. 2 \in 1 .. Len(b) OBVIOUS
  <2>2. OperandStands(a, b, ast, val, 2) BY <2>1, OperandIs
  <2>3. /\ Stands(a[2], ast, b[2], val) /\ a[2].value \in Words \union {Undef} /\ a[2].const \in BOOLEAN
        /\ IsNumber(ast[b[2]]) => val[b[2]] = ast[b[2]].value
    BY <2>2 DEF OperandStands
  <2> QED BY <1>1, <2>3 DEF Stands
<1>4. n = ASTOpr2(p, t[2], q) BY <1>1 DEF Built
<1>5. n.node = "Opr2" /\ n.opr = t[2] /\ n.lexpr = p /\ n.rexpr = q BY <1>4 DEF ASTOpr2
<1>12. PICK c \in BOOLEAN : c <=> (k /\ l) OBVIOUS
<1>13. u \in BOOLEAN BY DEF Operated
<1>14. PICK g \in BOOLEAN : g <=> (u \/ c) OBVIOUS
<1>6. PICK y : y = Binary(t[2], x, z, g) OBVIOUS
<1>7. y \in Words \union {Undef} /\ (x = Undef \/ z = Undef => y = Undef) BY <1>6, BinaryIs
<1>8. PICK e : e = Reduced(a, t, in, u) OBVIOUS
<1>9. e.value = y /\ e.const = c /\ e \in Entry
  <2>1. DOMAIN a = {1, 2}
    <3>1. a \in Seq(Entry) /\ Len(a) = 2 BY DEF Operated, Matches
    <3> QED BY <3>1
  <2>2. e = [value |-> Binary(t[2], a[1].value, a[2].value, u \/ (\A i \in DOMAIN a : a[i].const)),
             const |-> \A i \in DOMAIN a : a[i].const]
    BY <1>8 DEF Reduced
  <2>3. (\A i \in DOMAIN a : a[i].const) <=> c BY <1>2, <1>3, <1>12, <2>1
  <2>4. (\A i \in DOMAIN a : a[i].const) = c BY <2>3
  <2>5. e = [value |-> Binary(t[2], x, z, u \/ c), const |-> c] BY <1>2, <1>3, <2>2, <2>4
  <2>6. (u \/ c) = g BY <1>13, <1>14
  <2>7. e = [value |-> y, const |-> c] BY <1>6, <2>5, <2>6
  <2> QED BY <1>7, <2>7 DEF Entry
<1>10. ASSUME optimal /\ IsConstantOpr(ast, n), NEW w \in Outcomes(FoldsTo(ast, n))
       PROVE Stands(e, <<ASTNumber(w)>>, 1, <<w>>)
  <2>1. IsNumber(ast[p]) /\ IsNumber(ast[q]) BY <1>5, <1>10 DEF IsConstantOpr
  <2>2. FoldsTo(ast, n) = Binary(t[2], val[p], val[q], TRUE) BY <1>2, <1>3, <1>5, <2>1 DEF FoldsTo
  <2>3. y \in {Undef, w}
    <3>1. CASE x = Undef \/ z = Undef BY <1>7, <3>1
    <3>2. CASE x # Undef /\ z # Undef
      <4>1. g = TRUE BY <1>2, <1>3, <1>10, <1>12, <1>14, <2>1, <3>2
      <4>2. FoldsTo(ast, n) = y BY <1>2, <1>3, <1>6, <2>2, <3>2, <4>1
      <4> QED BY <1>10, <4>2 DEF Outcomes
    <3> QED BY <3>1, <3>2
  <2>4. y # Undef => c BY <1>2, <1>3, <1>7, <1>10, <1>12, <2>1
  <2>5. <<ASTNumber(w)>>[1] = ASTNumber(w) /\ <<w>>[1] = w /\ IsNumber(ASTNumber(w)) BY DEF IsNumber, ASTNumber
  <2> QED BY <1>9, <1>10, <2>3, <2>4, <2>5 DEF Stands
<1>11. ASSUME ~(optimal /\ IsConstantOpr(ast, n))
       PROVE  Stands(e, <<n>>, 1, <<NodeValue(val, n, in, u)>>)
  <2>1. ~(optimal /\ IsNumber(ast[p]) /\ IsNumber(ast[q])) BY <1>5, <1>11 DEF IsConstantOpr
  <2>2. PICK v : v = NodeValue(val, n, in, u) OBVIOUS
  <2>3. v = Binary(t[2], val[p], val[q], u) BY <1>5, <2>2 DEF NodeValue
  <2>4. y # Undef => ~c BY <1>2, <1>3, <1>7, <1>12, <2>1
  <2>5. y \in {Undef, v}
    <3>1. CASE y # Undef
      <4>1. g = u BY <1>13, <1>14, <2>4, <3>1
      <4>2. x = val[p] /\ z = val[q] BY <1>2, <1>3, <1>7, <3>1
      <4> QED BY <1>6, <2>3, <4>1, <4>2
    <3> QED BY <3>1
  <2>7. <<n>>[1] = n /\ <<v>>[1] = v /\ ~IsNumber(n) BY <1>5 DEF IsNumber
  <2> QED BY <1>9, <2>2, <2>4, <2>5, <2>7 DEF Stands
<1> QED BY <1>8, <1>9, <1>10, <1>11

\* A number or a reference, evaluated and parsed.
LEMMA LeafReduced ==
  ASSUME NEW a, NEW b, NEW ast, NEW val, NEW in, NEW u, Operated(a, b, ast, val, in, u),
         NEW t \in Tokens, t[1] = "num" \/ t[1] = "ref", NEW n, n = Built(t, b)
  PROVE  /\ Reduced(a, t, in, u) \in Entry /\ ~IsConstantOpr(ast, n) /\ ~IsConstantCond(ast, n)
         /\ Stands(Reduced(a, t, in, u), <<n>>, 1, <<NodeValue(val, n, in, u)>>)
<1>1. PICK e : e = Reduced(a, t, in, u) OBVIOUS
<1>2. PICK v : v = NodeValue(val, n, in, u) OBVIOUS
<1>3. <<n>>[1] = n /\ <<v>>[1] = v OBVIOUS
<1>6. in \in WordsIn /\ optimal \in BOOLEAN BY DEF Operated
<1>4. CASE t[1] = "num"
  <2>1. t[2] \in Words BY <1>4 DEF Tokens
  <2>2. n.node = "Number" /\ n.value = t[2] BY <1>4 DEF Built, ASTNumber
  <2>3. e = [value |-> t[2], const |-> optimal] BY <1>1, <1>4 DEF Reduced
  <2>4. v = t[2] BY <1>2, <2>2 DEF NodeValue
  <2>5. e.value = v /\ e.const = optimal /\ e \in Entry BY <1>6, <2>1, <2>3, <2>4 DEF Entry
  <2>6. Stands(e, <<n>>, 1, <<v>>) BY <1>3, <1>6, <2>2, <2>5 DEF Stands, IsNumber
  <2> QED BY <1>1, <1>2, <2>2, <2>5, <2>6 DEF IsConstantOpr, IsConstantCond
<1>5. CASE t[1] = "ref"
  <2>1. t[2] \in {"old", "new", "addr"} BY <1>5 DEF Tokens, LocalVars
  <2>2. n.node = "Ref" /\ n.name = t[2] BY <1>5 DEF Built, ASTRef
  <2>3. e = [value |-> in[t[2]], const |-> FALSE] BY <1>1, <1>5 DEF Reduced
  <2>4. v = in[t[2]] BY <1>2, <2>2 DEF NodeValue
  <2>5. in[t[2]] \in Words BY <1>6, <2>1 DEF WordsIn
  <2>6. e.value = v /\ e.const = FALSE /\ e \in Entry BY <2>3, <2>4, <2>5 DEF Entry
  <2>7. Stands(e, <<n>>, 1, <<v>>) BY <1>3, <2>2, <2>6 DEF Stands, IsNumber
  <2> QED BY <1>1, <1>2, <2>2, <2>6, <2>7 DEF IsConstantOpr, IsConstantCond
<1> QED BY <1>4, <1>5

\* A conditional, evaluated and parsed, chosen while parsing or not.
LEMMA ConditionReduced ==
  ASSUME NEW a, NEW b, NEW ast, NEW val, NEW in, NEW u, Operated(a, b, ast, val, in, u),
         NEW t, t[1] = "opr3", Len(b) = 3, NEW n, n = Built(t, b)
  PROVE  /\ Reduced(a, t, in, u) \in Entry /\ ~IsConstantOpr(ast, n)
         /\ IsConstantCond(ast, n) => Chosen(ast, n) \in 1 .. Len(ast)
         /\ optimal /\ IsConstantCond(ast, n) => Stands(Reduced(a, t, in, u), ast, Chosen(ast, n), val)
         /\ ~(optimal /\ IsConstantCond(ast, n)) =>
              Stands(Reduced(a, t, in, u), <<n>>, 1, <<NodeValue(val, n, in, u)>>)
<1>1. PICK p, q, r : p = b[1] /\ q = b[2] /\ r = b[3] OBVIOUS
<1>2. PICK x \in Words \union {Undef}, k \in BOOLEAN :
         /\ a[1].value = x /\ a[1].const = k /\ x \in {Undef, val[p]}
         /\ x # Undef => (k <=> (optimal /\ IsNumber(ast[p])))
         /\ IsNumber(ast[p]) => val[p] = ast[p].value
  <2>1. 1 \in 1 .. Len(b) OBVIOUS
  <2>2. OperandStands(a, b, ast, val, 1) BY <2>1, OperandIs
  <2>3. /\ Stands(a[1], ast, b[1], val) /\ a[1].value \in Words \union {Undef} /\ a[1].const \in BOOLEAN
        /\ IsNumber(ast[b[1]]) => val[b[1]] = ast[b[1]].value
    BY <2>2 DEF OperandStands
  <2> QED BY <1>1, <2>3 DEF Stands
<1>3. /\ q \in 1 .. Len(ast) /\ a[2].value \in Words \union {Undef} /\ a[2].const \in BOOLEAN
      /\ a[2].value \in {Undef, val[q]}
      /\ a[2].value # Undef => (a[2].const <=> (optimal /\ IsNumber(ast[q])))
  <2>1. 2 \in 1 .. Len(b) OBVIOUS
  <2>2. OperandStands(a, b, ast, val, 2) BY <2>1, OperandIs
  <2>3. /\ Stands(a[2], ast, b[2], val) /\ a[2].value \in Words \union {Undef} /\ a[2].const \in BOOLEAN
        /\ b[2] \in 1 .. Len(ast)
    BY <2>2 DEF OperandStands
  <2> QED BY <1>1, <2>3 DEF Stands
<1>4. /\ r \in 1 .. Len(ast) /\ a[3].value \in Words \union {Undef} /\ a[3].const \in BOOLEAN
      /\ a[3].value \in {Undef, val[r]}
      /\ a[3].value # Undef => (a[3].const <=> (optimal /\ IsNumber(ast[r])))
  <2>1. PICK i \in 1 .. Len(b) : i = 3 OBVIOUS
  <2>2. OperandStands(a, b, ast, val, i) BY <2>1, OperandIs
  <2>3. Stands(a[i], ast, b[i], val) /\ b[i] \in 1 .. Len(ast) BY <2>2 DEF OperandStands
  <2>4. a[i].value \in Words \union {Undef} /\ a[i].const \in BOOLEAN BY <2>2 DEF OperandStands
  <2> QED BY <1>1, <2>1, <2>3, <2>4 DEF Stands
<1>5. n.node = "Opr3" /\ n.cond = p /\ n.expr1 = q /\ n.expr2 = r BY <1>1 DEF Built, ASTOpr3
<1>6. PICK j \in {2, 3} : j = IF x = 0 THEN 3 ELSE 2 OBVIOUS
<1>7. PICK z \in Words \union {Undef}, l \in BOOLEAN, s \in 1 .. Len(ast) :
         /\ a[j].value = z /\ a[j].const = l /\ s = (IF x = 0 THEN r ELSE q) /\ z \in {Undef, val[s]}
         /\ z # Undef => (l <=> (optimal /\ IsNumber(ast[s])))
  BY <1>3, <1>4, <1>6
<1>8. PICK e : e = Reduced(a, t, in, u) OBVIOUS
<1>9. PICK y \in Words \union {Undef} : y = IF x = Undef THEN Undef ELSE z BY <1>7
<1>10. PICK c \in BOOLEAN : c <=> (k /\ x # Undef /\ l) OBVIOUS
<1>11. e.value = y /\ e.const = c /\ e \in Entry
  <2>1. e = [value |-> IF a[1].value = Undef THEN Undef ELSE a[IF a[1].value = 0 THEN 3 ELSE 2].value,
             const |-> a[1].const /\ a[1].value # Undef /\ a[IF a[1].value = 0 THEN 3 ELSE 2].const]
    BY <1>8 DEF Reduced
  <2>2. (IF a[1].value = 0 THEN 3 ELSE 2) = j BY <1>2, <1>6
  <2>3. e.value = IF x = Undef THEN Undef ELSE z BY <1>2, <1>7, <2>1, <2>2
  <2>4. e.const = (k /\ x # Undef /\ l) BY <1>2, <1>7, <2>1, <2>2
  <2>5. e.value = y /\ e.const = c BY <1>9, <1>10, <2>3, <2>4
  <2>6. e = [value |-> e.value, const |-> e.const] BY <2>1
  <2> QED BY <2>5, <2>6 DEF Entry
<1>12. ~IsConstantOpr(ast, n) BY <1>5 DEF IsConstantOpr
<1>13. IsConstantCond(ast, n) => Chosen(ast, n) \in 1 .. Len(ast) BY <1>3, <1>4, <1>5 DEF Chosen
<1>14. ASSUME optimal /\ IsConstantCond(ast, n) PROVE Stands(e, ast, Chosen(ast, n), val)
  <2>1. IsNumber(ast[p]) BY <1>5, <1>14 DEF IsConstantCond
  <2>2. x = Undef => y = Undef BY <1>9
  <2>3. x # Undef => Chosen(ast, n) = s BY <1>2, <1>5, <1>7, <2>1 DEF Chosen
  <2>4. y # Undef => x # Undef /\ y = z /\ c = l BY <1>2, <1>9, <1>10, <1>14, <2>1
  <2>5. CASE y = Undef BY <1>11, <2>5 DEF Stands
  <2>6. CASE y # Undef
    <3>1. Chosen(ast, n) = s /\ z # Undef BY <2>3, <2>4, <2>6
    <3>2. e.value = val[s] /\ (e.const <=> (optimal /\ IsNumber(ast[s]))) BY <1>7, <1>11, <2>4, <2>6, <3>1
    <3> QED BY <3>1, <3>2 DEF Stands
  <2> QED BY <2>5, <2>6
<1>15. ASSUME ~(optimal /\ IsConstantCond(ast, n))
       PROVE  Stands(e, <<n>>, 1, <<NodeValue(val, n, in, u)>>)
  <2>1. ~(optimal /\ IsNumber(ast[p])) BY <1>5, <1>15 DEF IsConstantCond
  <2>2. PICK v : v = NodeValue(val, n, in, u) OBVIOUS
  <2>3. v = IF val[p] = Undef THEN Undef ELSE IF val[p] = 0 THEN val[r] ELSE val[q]
    BY <1>5, <2>2 DEF NodeValue
  <2>4. y # Undef => ~c BY <1>2, <1>9, <1>10, <2>1
  <2>5. y \in {Undef, v} BY <1>2, <1>7, <1>9, <2>3
  <2>6. <<n>>[1] = n /\ <<v>>[1] = v /\ ~IsNumber(n) BY <1>5 DEF IsNumber
  <2> QED BY <1>11, <2>2, <2>4, <2>5, <2>6 DEF Stands
<1> QED BY <1>8, <1>11, <1>12, <1>13, <1>14, <1>15
\* Node n of a token, or what the optimiser makes of it, gets to place p of ast2.
Replaces(ast, n, ast2, p) ==
  \/ /\ ~(optimal /\ (IsConstantOpr(ast, n) \/ IsConstantCond(ast, n)))
     /\ ast2 = Append(ast, n) /\ p = Len(ast) + 1
  \/ /\ optimal /\ IsConstantOpr(ast, n)
     /\ \E w \in Outcomes(FoldsTo(ast, n)) : ast2 = Append(ast, ASTNumber(w)) /\ p = Len(ast) + 1
  \/ optimal /\ IsConstantCond(ast, n) /\ ast2 = ast /\ p = Chosen(ast, n)

\* Constants fold to a word, unless they divide by zero.
LEMMA FoldsToWord ==
  ASSUME NEW ast, WellFormed(ast), NEW n \in NodesOf(1 .. Len(ast)), IsConstantOpr(ast, n)
  PROVE  FoldsTo(ast, n) \in Words \union {Undef} /\ Outcomes(FoldsTo(ast, n)) \subseteq Words
<1>1. Parts(n, 1 .. Len(ast)) BY PartsOf
<1>2. \A p \in 1 .. Len(ast) : IsNumber(ast[p]) => ast[p].value \in Words
  <2> SUFFICES ASSUME NEW p \in 1 .. Len(ast), IsNumber(ast[p]) PROVE ast[p].value \in Words OBVIOUS
  <2>1. Parts(ast[p], 1 .. p - 1) BY TreeIs
  <2> QED BY <2>1 DEF Parts, IsNumber
<1>3. CASE n.node = "Opr1"
  <2>1. n.expr \in 1 .. Len(ast) /\ n.opr \in UnaryOprs BY <1>1, <1>3 DEF Parts
  <2>2. ast[n.expr].value \in Words BY <1>2, <1>3, <2>1 DEF IsConstantOpr
  <2>3. FoldsTo(ast, n) = Unary(n.opr, ast[n.expr].value) BY <1>3 DEF FoldsTo
  <2>4. FoldsTo(ast, n) \in Words \union {Undef} BY <2>1, <2>2, <2>3, UnaryIs
  <2> QED BY <2>4 DEF Outcomes
<1>4. CASE n.node = "Opr2"
  <2>1. n.lexpr \in 1 .. Len(ast) /\ n.rexpr \in 1 .. Len(ast) /\ n.opr \in BinaryOprs BY <1>1, <1>4 DEF Parts
  <2>2. ast[n.lexpr].value \in Words /\ ast[n.rexpr].value \in Words BY <1>2, <1>4, <2>1 DEF IsConstantOpr
  <2>3. FoldsTo(ast, n) = Binary(n.opr, ast[n.lexpr].value, ast[n.rexpr].value, TRUE) BY <1>4 DEF FoldsTo
  <2>4. FoldsTo(ast, n) \in Words \union {Undef} BY <2>1, <2>2, <2>3, BinaryIs
  <2> QED BY <2>4 DEF Outcomes
<1> QED BY <1>3, <1>4 DEF IsConstantOpr

\* What replaces it is a tree again.
LEMMA ReplacedTree ==
  ASSUME NEW ast, WellFormed(ast), NEW n \in NodesOf(1 .. Len(ast)), NEW ast2, NEW p,
         Replaces(ast, n, ast2, p)
  PROVE  /\ WellFormed(ast2) /\ Extends(ast2, ast) /\ p \in 1 .. Len(ast2)
         /\ Len(ast) \in Nat /\ Len(ast2) \in Nat /\ Len(ast) <= Len(ast2)
         /\ p = Len(ast) + 1 => ast2[p] = n \/ (optimal /\ IsConstantOpr(ast, n))
<1>1. Len(ast) \in Nat BY TreeIs
<1>2. ASSUME NEW m \in NodesOf(1 .. Len(ast)), ast2 = Append(ast, m), p = Len(ast) + 1
      PROVE  /\ WellFormed(ast2) /\ Extends(ast2, ast) /\ p \in 1 .. Len(ast2)
             /\ Len(ast2) \in Nat /\ Len(ast) <= Len(ast2) /\ ast2[p] = m
  <2>1. /\ WellFormed(ast2) /\ Extends(ast2, ast) /\ Len(ast2) = Len(ast) + 1 /\ ast2[Len(ast) + 1] = m
    BY <1>2, Allocated
  <2> QED BY <1>1, <1>2, <2>1
<1>3. CASE ast2 = Append(ast, n) /\ p = Len(ast) + 1 BY <1>1, <1>2, <1>3
<1>4. CASE /\ optimal /\ IsConstantOpr(ast, n)
           /\ \E w \in Outcomes(FoldsTo(ast, n)) : ast2 = Append(ast, ASTNumber(w)) /\ p = Len(ast) + 1
  <2>1. PICK w \in Words : ast2 = Append(ast, ASTNumber(w)) /\ p = Len(ast) + 1 BY <1>4, FoldsToWord
  <2>2. ASTNumber(w) \in NodesOf(1 .. Len(ast)) BY DEF ASTNumber, NodesOf
  <2> QED BY <1>1, <1>2, <1>4, <2>1, <2>2
<1>5. CASE optimal /\ IsConstantCond(ast, n) /\ ast2 = ast /\ p = Chosen(ast, n)
  <2>1. Parts(n, 1 .. Len(ast)) BY PartsOf
  <2>2. n.node = "Opr3" BY <1>5 DEF IsConstantCond
  <2>3. n.expr1 \in 1 .. Len(ast) /\ n.expr2 \in 1 .. Len(ast) BY <2>1, <2>2 DEF Parts
  <2>4. p \in 1 .. Len(ast) BY <1>5, <2>3 DEF Chosen
  <2>5. Extends(ast2, ast) BY <1>1, <1>5 DEF Extends
  <2> QED BY <1>1, <1>5, <2>4, <2>5
<1> QED BY <1>3, <1>4, <1>5 DEF Replaces

\* Whatever the parser does with a token, the result stands for its value.
LEMMA ReplacedStands ==
  ASSUME NEW a, NEW b, NEW ast, NEW val, NEW in, NEW u, Operated(a, b, ast, val, in, u),
         NEW t \in Tokens, t = <<"opr1", "!">> => a[1].const, Len(b) = Arity(t), NEW n, n = Built(t, b),
         NEW ast2, NEW p, Replaces(ast, n, ast2, p), Valuation(val, ast2, in, u)
  PROVE  Reduced(a, t, in, u) \in Entry /\ Stands(Reduced(a, t, in, u), ast2, p, val)
<1>1. WellFormed(ast) /\ b \in Seq(1 .. Len(ast)) /\ in \in WordsIn /\ optimal \in BOOLEAN BY DEF Operated
<1>2. n \in NodesOf(1 .. Len(ast)) BY <1>1, BuiltIs
<1>3. WellFormed(ast2) /\ p \in 1 .. Len(ast2) BY <1>1, <1>2, ReplacedTree
<1>4. val[p] = NodeValue(val, ast2[p], in, u) BY <1>3 DEF Valuation
<1>5. PICK e : e = Reduced(a, t, in, u) OBVIOUS
<1>6. /\ e \in Entry
      /\ optimal /\ IsConstantOpr(ast, n) =>
           \A w \in Outcomes(FoldsTo(ast, n)) : Stands(e, <<ASTNumber(w)>>, 1, <<w>>)
      /\ optimal /\ IsConstantCond(ast, n) => Stands(e, ast, Chosen(ast, n), val)
      /\ ~(optimal /\ (IsConstantOpr(ast, n) \/ IsConstantCond(ast, n))) =>
           Stands(e, <<n>>, 1, <<NodeValue(val, n, in, u)>>)
  <2>1. CASE t[1] = "num" \/ t[1] = "ref"
    <3>1. e \in Entry /\ ~IsConstantOpr(ast, n) /\ ~IsConstantCond(ast, n) BY <1>5, <2>1, LeafReduced
    <3>2. Stands(e, <<n>>, 1, <<NodeValue(val, n, in, u)>>) BY <1>5, <2>1, LeafReduced
    <3> QED BY <3>1, <3>2
  <2>2. CASE t[1] = "opr1"
    <3>1. t[2] \in UnaryOprs /\ (t[2] = "!" => a[1].const)
      <4>1. t \in {"opr1"} \X UnaryOprs BY <2>2 DEF Tokens
      <4> QED BY <4>1
    <3>2. Len(b) = 1 BY <2>2 DEF Arity
    <3>3. ~IsConstantCond(ast, n) BY <2>2 DEF Built, ASTOpr1, IsConstantCond
    <3> QED BY <1>5, <2>2, <3>1, <3>2, <3>3, UnaryReduced
  <2>3. CASE t[1] = "opr2"
    <3>1. t[2] \in BinaryOprs BY <2>3 DEF Tokens
    <3>2. Len(b) = 2 BY <2>3 DEF Arity
    <3>3. ~IsConstantCond(ast, n) BY <2>3 DEF Built, ASTOpr2, IsConstantCond
    <3> QED BY <1>5, <2>3, <3>1, <3>2, <3>3, BinaryReduced
  <2>4. CASE t[1] = "opr3"
    <3>1. Len(b) = 3 BY <2>4 DEF Arity
    <3> QED BY <1>5, <2>4, <3>1, ConditionReduced
  <2>5. t[1] \in {"num", "ref", "opr1", "opr2", "opr3"} BY DEF Tokens
  <2> QED BY <2>1, <2>2, <2>3, <2>4, <2>5
<1>7. CASE /\ ~(optimal /\ (IsConstantOpr(ast, n) \/ IsConstantCond(ast, n)))
           /\ ast2 = Append(ast, n) /\ p = Len(ast) + 1
  <2>1. ast2[p] = n BY <1>1, <1>2, <1>7, Allocated
  <2>2. PICK v : v = NodeValue(val, n, in, u) OBVIOUS
  <2>3. Stands(e, <<n>>, 1, <<v>>) BY <1>6, <1>7, <2>2
  <2>4. val[p] = v BY <1>4, <2>1, <2>2
  <2>5. <<n>>[1] = n /\ <<v>>[1] = v OBVIOUS
  <2>6. Stands(e, ast2, p, val) BY <2>1, <2>3, <2>4, <2>5 DEF Stands
  <2> QED BY <1>5, <1>6, <2>6
<1>8. CASE /\ optimal /\ IsConstantOpr(ast, n)
           /\ \E w \in Outcomes(FoldsTo(ast, n)) : ast2 = Append(ast, ASTNumber(w)) /\ p = Len(ast) + 1
  <2>1. PICK w \in Outcomes(FoldsTo(ast, n)) : ast2 = Append(ast, ASTNumber(w)) /\ p = Len(ast) + 1 BY <1>8
  <2>2. w \in Words BY <1>1, <1>2, <1>8, FoldsToWord
  <2>3. ASTNumber(w) \in NodesOf(1 .. Len(ast)) BY <2>2 DEF ASTNumber, NodesOf
  <2>4. ast2[p] = ASTNumber(w) BY <1>1, <2>1, <2>3, Allocated
  <2>5. val[p] = w BY <1>4, <2>4 DEF NodeValue, ASTNumber
  <2>6. Stands(e, <<ASTNumber(w)>>, 1, <<w>>) BY <1>6, <1>8
  <2>7. <<ASTNumber(w)>>[1] = ASTNumber(w) /\ <<w>>[1] = w OBVIOUS
  <2>8. Stands(e, ast2, p, val) BY <2>4, <2>5, <2>6, <2>7 DEF Stands
  <2> QED BY <1>5, <1>6, <2>8
<1>9. CASE optimal /\ IsConstantCond(ast, n) /\ ast2 = ast /\ p = Chosen(ast, n) BY <1>5, <1>6, <1>9
<1> QED BY <1>7, <1>8, <1>9 DEF Replaces

\* So the stacks match behind the token.
LEMMA ReplacedMatches ==
  ASSUME NEW ast, WellFormed(ast), NEW stk \in Seq(1 .. Len(ast)), NEW E, NEW val, Matches(E, stk, ast, val),
         NEW in \in WordsIn, NEW u \in BOOLEAN, optimal \in BOOLEAN,
         NEW t \in Tokens, t = <<"opr1", "!">> => Top(E, 1)[1].const, Arity(t) <= Len(stk), NEW ast2, NEW p,
         Replaces(ast, Built(t, Top(stk, Arity(t))), ast2, p), Valuation(val, ast2, in, u)
  PROVE  Matches(Evaluated(E, t, in, u), Append(Rest(stk, Arity(t)), p), ast2, val)
<1>1. PICK k \in 0 .. Len(stk) : k = Arity(t) BY ArityIs
<1>2. PICK b : b = Top(stk, k) OBVIOUS
<1>3. PICK a : a = Top(E, k) OBVIOUS
<1>4. b \in Seq(1 .. Len(ast)) /\ Len(b) = k /\ Matches(a, b, ast, val) BY <1>2, <1>3, MatchesTop
<1>5. PICK n : n = Built(t, b) OBVIOUS
<1>6. Replaces(ast, n, ast2, p) BY <1>1, <1>2, <1>5
<1>7. n \in NodesOf(1 .. Len(ast)) BY <1>1, <1>4, <1>5, BuiltIs
<1>8. /\ WellFormed(ast2) /\ Extends(ast2, ast) /\ p \in 1 .. Len(ast2)
      /\ Len(ast) \in Nat /\ Len(ast2) \in Nat
  BY <1>6, <1>7, ReplacedTree
<1>9. Valuation(val, ast, in, u) BY <1>8, ValuationOfPart
<1>10. Operated(a, b, ast, val, in, u) BY <1>4, <1>9 DEF Operated
<1>11. PICK e : e = Reduced(a, t, in, u) OBVIOUS
<1>15. t = <<"opr1", "!">> => a[1].const
  <2> SUFFICES ASSUME t = <<"opr1", "!">> PROVE a[1].const OBVIOUS
  <2>1. Arity(t) = 1 BY DEF Arity
  <2> QED BY <1>1, <1>3, <2>1
<1>12. e \in Entry /\ Stands(e, ast2, p, val) BY <1>1, <1>4, <1>5, <1>6, <1>10, <1>11, <1>15, ReplacedStands
<1>13. Matches(Append(Rest(E, k), e), Append(Rest(stk, k), p), ast2, val) BY <1>8, <1>12, MatchesPushed
<1>14. Evaluated(E, t, in, u) = Append(Rest(E, k), e) BY <1>1, <1>3, <1>11 DEF Evaluated
<1> QED BY <1>1, <1>13, <1>14
-------------------------------------------------------------------------------
(***************************************************************************)
(* The tree that is compiled and what the comparator means.                *)
(***************************************************************************)
LEMMA AllocatedTwo ==
  ASSUME NEW ast, WellFormed(ast), NEW n \in NodesOf(1 .. Len(ast)), NEW m \in NodesOf(1 .. Len(ast) + 1)
  PROVE  /\ WellFormed(ast \o <<n, m>>) /\ Extends(ast \o <<n, m>>, ast)
         /\ Len(ast \o <<n, m>>) = Len(ast) + 2
         /\ (ast \o <<n, m>>)[Len(ast) + 1] = n /\ (ast \o <<n, m>>)[Len(ast) + 2] = m
<1>1. Len(ast) \in Nat /\ ast \in Seq(NodesOf(Nat)) BY DEF WellFormed
<1>2. PICK x : x = Append(ast, n) OBVIOUS
<1>3. WellFormed(x) /\ Extends(x, ast) /\ Len(x) = Len(ast) + 1 /\ x[Len(ast) + 1] = n BY <1>2, Allocated
<1>4. PICK y : y = Append(x, m) OBVIOUS
<1>5. WellFormed(y) /\ Extends(y, x) /\ Len(y) = Len(x) + 1 /\ y[Len(x) + 1] = m
  <2>1. m \in NodesOf(1 .. Len(x)) BY <1>3
  <2> QED BY <1>3, <1>4, <2>1, Allocated
<1>6. n \in NodesOf(Nat) /\ m \in NodesOf(Nat)
  <2>1. 1 .. Len(ast) \subseteq Nat /\ 1 .. Len(ast) + 1 \subseteq Nat BY <1>1
  <2>2. NodesOf(1 .. Len(ast)) \subseteq NodesOf(Nat) BY <2>1 DEF NodesOf
  <2>3. NodesOf(1 .. Len(ast) + 1) \subseteq NodesOf(Nat) BY <2>1 DEF NodesOf
  <2> QED BY <2>2, <2>3
<1>7. y = ast \o <<n, m>>
  <2> DEFINE T == NodesOf(Nat)
  <2>1. ast \in Seq(T) /\ n \in T /\ m \in T BY <1>1, <1>6
  <2> HIDE DEF T
  <2>2. Append(Append(ast, n), m) = ast \o <<n, m>> BY <2>1
  <2> QED BY <1>2, <1>4, <2>2
<1>8. Extends(y, ast)
  <2>1. \A i \in 1 .. Len(ast) : i \in 1 .. Len(x) /\ x[i] = ast[i] BY <1>3 DEF Extends
  <2>2. \A i \in 1 .. Len(x) : i \in 1 .. Len(y) /\ y[i] = x[i] BY <1>5 DEF Extends
  <2>3. Len(ast) <= Len(y) BY <1>1, <1>3, <1>5
  <2> QED BY <2>1, <2>2, <2>3 DEF Extends
<1>9. Len(y) = Len(ast) + 2 BY <1>1, <1>3, <1>5
<1>10. y[Len(ast) + 1] = n
  <2>1. Len(ast) + 1 \in 1 .. Len(x) BY <1>1, <1>3
  <2> QED BY <1>3, <1>5, <2>1 DEF Extends
<1>11. y[Len(ast) + 2] = m
  <2>1. Len(x) + 1 = Len(ast) + 2 BY <1>1, <1>3
  <2> QED BY <1>5, <2>1
<1> QED BY <1>5, <1>7, <1>8, <1>9, <1>10, <1>11

\* The three references.
LEMMA ReferenceIs ==
  ASSUME NEW P, NEW name \in {"old", "new", "addr"}
  PROVE  ASTRef(name) \in NodesOf(P)
BY DEF ASTRef, NodesOf, LocalVars

\* Every comparator is of one kind.
LEMMA ComparatorsAre ==
  /\ DOMAIN Wrapping \subseteq Comparators /\ DOMAIN Relation \subseteq Comparators
  /\ Comparators = DOMAIN Wrapping \union DOMAIN Relation \union Ranges \union Masks \union {"Boolean"}
  /\ \A c \in DOMAIN Wrapping : /\ Wrapping[c] \in Comparisons /\ Wrapping[c] \in BinaryOprs
                                /\ c \notin DOMAIN Relation /\ c \notin Ranges /\ c \notin Masks /\ c # "Boolean"
  /\ \A c \in DOMAIN Relation : /\ Relation[c] \in Comparisons /\ Relation[c] \in BinaryOprs
                                /\ c \notin DOMAIN Wrapping /\ c \notin Ranges /\ c \notin Masks /\ c # "Boolean"
  /\ \A c \in Ranges : c \notin DOMAIN Wrapping /\ c \notin DOMAIN Relation /\ c \notin Masks /\ c # "Boolean"
  /\ \A c \in Masks : c \notin DOMAIN Wrapping /\ c \notin DOMAIN Relation /\ c \notin Ranges /\ c # "Boolean"
BY DEF Comparators, Wrapping, Relation, Ranges, Masks, Comparisons, BinaryOprs

\* The arguments of a comparator.
LEMMA ArgumentsIn ==
  ASSUME NEW S, NEW e \in Seq(S)
  PROVE  (Len(e) >= 1 => e[1] \in S) /\ (Len(e) >= 2 => e[2] \in S)
<1>1. Len(e) \in Nat /\ \A i \in 1 .. Len(e) : e[i] \in S OBVIOUS
<1>2. (Len(e) >= 1 => 1 \in 1 .. Len(e)) /\ (Len(e) >= 2 => 2 \in 1 .. Len(e)) BY <1>1
<1> QED BY <1>1, <1>2

\* The nodes a comparator adds make a tree, and its root is in it.
LEMMA ComparedIs ==
  ASSUME NEW ast, WellFormed(ast), NEW c \in Comparators, NEW e \in Seq(1 .. Len(ast)), Len(e) = Arguments(c)
  PROVE  /\ WellFormed(Compared(c, ast, e)) /\ Extends(Compared(c, ast, e), ast)
         /\ Root(c, ast, e) \in 1 .. Len(Compared(c, ast, e))
<1>1. Len(ast) \in Nat BY TreeIs
<1>2. PICK n \in Nat : n = Len(ast) + 1 BY <1>1
<1>3. n \in 1 .. n /\ 1 .. Len(ast) \subseteq 1 .. n BY <1>1, <1>2
<1>4. New \in NodesOf(1 .. Len(ast)) /\ ASTRef("old") \in NodesOf(1 .. n) BY ReferenceIs DEF New
<1>5. CASE c = "Boolean"
  <2>5. c \notin DOMAIN Wrapping /\ c \notin DOMAIN Relation /\ c \notin Ranges /\ c \notin Masks
    BY <1>5, ComparatorsAre
  <2>1. Compared(c, ast, e) = ast /\ Root(c, ast, e) = e[1] BY <1>5, <2>5 DEF Compared, Root
  <2>2. Len(e) = 1 BY <1>5 DEF Arguments, Relation, Ranges, Masks
  <2>3. e[1] \in 1 .. Len(ast) BY <2>2, ArgumentsIn
  <2>4. Extends(ast, ast) BY <1>1 DEF Extends
  <2> QED BY <2>1, <2>3, <2>4
<1>6. ASSUME NEW m \in NodesOf(1 .. n), Compared(c, ast, e) = ast \o <<New, m>>, c # "Boolean"
      PROVE  /\ WellFormed(Compared(c, ast, e)) /\ Extends(Compared(c, ast, e), ast)
             /\ Root(c, ast, e) \in 1 .. Len(Compared(c, ast, e))
  <2>1. PICK x : x = ast \o <<New, m>> OBVIOUS
  <2>2. WellFormed(x) /\ Extends(x, ast) /\ Len(x) = Len(ast) + 2
    <3>1. m \in NodesOf(1 .. Len(ast) + 1) BY <1>2, <1>6
    <3> QED BY <1>4, <2>1, <3>1, AllocatedTwo
  <2>3. Root(c, ast, e) = Len(x) BY <1>6, <2>1 DEF Root
  <2>4. Len(x) \in 1 .. Len(x) BY <1>1, <2>2
  <2> QED BY <1>6, <2>1, <2>2, <2>3, <2>4
<1>7. CASE c \in DOMAIN Wrapping
  <2>1. Len(e) = 1 BY <1>7, ComparatorsAre DEF Arguments
  <2>2. e[1] \in 1 .. n
    <3>1. e[1] \in 1 .. Len(ast) BY <2>1, ArgumentsIn
    <3> QED BY <1>3, <3>1
  <2>3. ASTOpr2(n, Wrapping[c], e[1]) \in NodesOf(1 .. n) BY <1>3, <1>7, <2>2, ComparatorsAre DEF ASTOpr2, NodesOf
  <2>4. c # "Boolean" /\ c \notin DOMAIN Relation /\ c \notin Ranges /\ c \notin Masks BY <1>7, ComparatorsAre
  <2>5. Compared(c, ast, e) = ast \o <<New, ASTOpr2(n, Wrapping[c], e[1])>> BY <1>2, <1>7, <2>4 DEF Compared
  <2> QED BY <1>6, <2>3, <2>4, <2>5
<1>8. CASE c \in Ranges
  <2>1. Len(e) = 2 BY <1>8, ComparatorsAre DEF Arguments
  <2>2. e[1] \in 1 .. n /\ e[2] \in 1 .. n
    <3>1. e[1] \in 1 .. Len(ast) /\ e[2] \in 1 .. Len(ast) BY <2>1, ArgumentsIn
    <3> QED BY <1>3, <3>1
  <2>3. PICK r \in BOOLEAN : r = (c = "NE_Range") OBVIOUS
  <2>4. ASTRange(n, e[1], e[2], r) \in NodesOf(1 .. n) BY <1>3, <2>2, <2>3 DEF ASTRange, NodesOf
  <2>5. c # "Boolean" /\ c \notin DOMAIN Wrapping /\ c \notin DOMAIN Relation /\ c \notin Masks BY <1>8, ComparatorsAre
  <2>6. Compared(c, ast, e) = ast \o <<New, ASTRange(n, e[1], e[2], r)>> BY <1>2, <1>8, <2>3, <2>5 DEF Compared
  <2> QED BY <1>6, <2>4, <2>5, <2>6
<1>9. CASE c \in Masks
  <2>1. Len(e) = 2 BY <1>9, ComparatorsAre DEF Arguments
  <2>2. e[1] \in 1 .. n /\ e[2] \in 1 .. n
    <3>1. e[1] \in 1 .. Len(ast) /\ e[2] \in 1 .. Len(ast) BY <2>1, ArgumentsIn
    <3> QED BY <1>3, <3>1
  <2>3. PICK r \in BOOLEAN : r = (c = "NE_Mask") OBVIOUS
  <2>4. ASTMask(n, e[1], e[2], r) \in NodesOf(1 .. n) BY <1>3, <2>2, <2>3 DEF ASTMask, NodesOf
  <2>5. c # "Boolean" /\ c \notin DOMAIN Wrapping /\ c \notin DOMAIN Relation /\ c \notin Ranges BY <1>9, ComparatorsAre
  <2>6. Compared(c, ast, e) = ast \o <<New, ASTMask(n, e[1], e[2], r)>> BY <1>2, <1>9, <2>3, <2>5 DEF Compared
  <2> QED BY <1>6, <2>4, <2>5, <2>6
<1>10. CASE c \in DOMAIN Relation
  <2> DEFINE m == ASTOpr2(n, Relation[c], n + 1)
             x == ast \o <<New, ASTRef("old")>>
  <2>1. c # "Boolean" /\ c \notin DOMAIN Wrapping /\ c \notin Ranges /\ c \notin Masks BY <1>10, ComparatorsAre
  <2>2. Compared(c, ast, e) = ast \o <<New, ASTRef("old"), m>> BY <1>2, <1>10, <2>1 DEF Compared
  <2>3. WellFormed(x) /\ Extends(x, ast) /\ Len(x) = Len(ast) + 2
    <3>1. ASTRef("old") \in NodesOf(1 .. Len(ast) + 1) BY <1>2, <1>4
    <3> QED BY <1>4, <3>1, AllocatedTwo
  <2>4. m \in NodesOf(1 .. Len(x))
    <3>1. n \in 1 .. Len(x) /\ n + 1 \in 1 .. Len(x) BY <1>1, <1>2, <2>3
    <3> QED BY <1>10, <3>1, ComparatorsAre DEF ASTOpr2, NodesOf
  <2>5. ast \o <<New, ASTRef("old"), m>> = Append(x, m)
    <3> DEFINE T == NodesOf(Nat)
    <3>1. 1 .. Len(ast) \subseteq Nat /\ 1 .. n \subseteq Nat /\ 1 .. Len(x) \subseteq Nat BY <2>3
    <3>2. ast \in Seq(T) /\ New \in T /\ ASTRef("old") \in T BY ReferenceIs DEF WellFormed, New
    <3>3. NodesOf(1 .. Len(x)) \subseteq T BY <3>1 DEF NodesOf
    <3>4. m \in T BY <2>4, <3>3
    <3> HIDE DEF T, m
    <3> QED BY <3>2, <3>4
  <2> HIDE DEF m, x
  <2>6. PICK y : y = Append(x, m) OBVIOUS
  <2>7. WellFormed(y) /\ Extends(y, x) /\ Len(y) = Len(x) + 1 BY <2>3, <2>4, <2>6, Allocated
  <2>8. Extends(y, ast)
    <3>1. Len(ast) <= Len(y) BY <1>1, <2>3, <2>7
    <3> QED BY <2>3, <2>7, <3>1 DEF Extends
  <2>9. Compared(c, ast, e) = y BY <2>2, <2>5, <2>6
  <2>10. Root(c, ast, e) = Len(y) BY <2>1, <2>9 DEF Root
  <2>11. Len(y) \in 1 .. Len(y) BY <1>1, <2>3, <2>7
  <2> QED BY <2>7, <2>8, <2>9, <2>10, <2>11
<1> QED BY <1>5, <1>7, <1>8, <1>9, <1>10, ComparatorsAre
\* The verdict on defined operands v.
Judged(c, v, in, u) ==
  CASE c = "Boolean"         -> v[1]
    [] c \in DOMAIN Wrapping -> Binary(Wrapping[c], in.new, v[1], u)
    [] c \in DOMAIN Relation -> Binary(Relation[c], in.new, in.old, u)
    [] c \in Ranges          -> Truth(in.new \in v[1] .. v[2] <=> c = "EQ_Range")
    [] c \in Masks           -> Truth((in.new & v[2]) = (v[1] & v[2]) <=> c = "EQ_Mask")

\* The meaning of a text is the judgement of the values of its expressions.
LEMMA MeaningCases ==
  ASSUME NEW E, E = Evaluation(input, sign)[Len(source.tokens)], NEW e, NEW ast, NEW val,
         Matches(E, e, ast, val)
  PROVE  \/ Meaning = Undef
         \/ \E v : /\ \A i \in 1 .. Len(e) : v[i] = val[e[i]] /\ v[i] # Undef
                   /\ Meaning = Judged(source.comparator, v, input, sign)
<1> DEFINE v == [i \in DOMAIN E |-> E[i].value]
<1>1. CASE \E i \in DOMAIN v : v[i] = Undef BY <1>1 DEF Meaning
<1>2. CASE ~\E i \in DOMAIN v : v[i] = Undef
  <2>1. Meaning = Judged(source.comparator, v, input, sign) BY <1>2 DEF Meaning, Judged
  <2>2. DOMAIN E = 1 .. Len(e) /\ \A i \in 1 .. Len(e) : Stands(E[i], ast, e[i], val) BY DEF Matches
  <2>3. \A i \in 1 .. Len(e) : v[i] = val[e[i]] /\ v[i] # Undef BY <1>2, <2>2 DEF Stands
  <2> HIDE DEF v
  <2> QED BY <2>1, <2>3
<1> QED BY <1>1, <1>2

\* The judgement of a comparator is the value of the node it adds.
LEMMA JudgedIs ==
  ASSUME NEW ast, WellFormed(ast), NEW c \in Comparators, NEW e \in Seq(1 .. Len(ast)), Len(e) = Arguments(c),
         NEW in \in WordsIn, NEW u \in BOOLEAN, NEW val, Valuation(val, Compared(c, ast, e), in, u),
         NEW v, \A i \in 1 .. Len(e) : v[i] = val[e[i]] /\ v[i] # Undef
  PROVE  Judged(c, v, in, u) = val[Root(c, ast, e)]
<1>1. Len(ast) \in Nat /\ in.new \in Words /\ in.old \in Words BY TreeIs DEF WordsIn
<1>2. PICK n \in Nat : n = Len(ast) + 1 BY <1>1
<1>3. PICK tree : tree = Compared(c, ast, e) OBVIOUS
<1>4. WellFormed(tree) /\ Extends(tree, ast) /\ Root(c, ast, e) \in 1 .. Len(tree) BY <1>3, ComparedIs
<1>5. \A i \in 1 .. Len(tree) : val[i] = NodeValue(val, tree[i], in, u) /\ val[i] \in Words \union {Undef}
  BY <1>3 DEF Valuation
<1>6. New \in NodesOf(1 .. Len(ast)) /\ ASTRef("old") \in NodesOf(1 .. Len(ast) + 1) BY ReferenceIs DEF New
<1>7. n \in 1 .. n /\ 1 .. Len(ast) \subseteq 1 .. n BY <1>1, <1>2
<1>8. NodeValue(val, New, in, u) = in.new BY DEF NodeValue, New, ASTRef
<1>9. NodeValue(val, ASTRef("old"), in, u) = in.old BY DEF NodeValue, ASTRef
<1>10. CASE c = "Boolean"
  <2>1. c \notin DOMAIN Wrapping /\ c \notin DOMAIN Relation /\ c \notin Ranges /\ c \notin Masks
    BY <1>10, ComparatorsAre
  <2>2. Len(e) = 1 BY <1>10, <2>1 DEF Arguments
  <2>3. v[1] = val[e[1]] BY <2>2
  <2>4. Root(c, ast, e) = e[1] BY <1>10 DEF Root
  <2>5. Judged(c, v, in, u) = v[1] BY <1>10, <2>1 DEF Judged
  <2> QED BY <2>3, <2>4, <2>5
<1>11. ASSUME NEW m \in NodesOf(1 .. n), tree = ast \o <<New, m>>, c # "Boolean"
       PROVE  val[n] = in.new /\ val[Root(c, ast, e)] = NodeValue(val, m, in, u)
  <2>1. m \in NodesOf(1 .. Len(ast) + 1) BY <1>2
  <2>2. Len(tree) = Len(ast) + 2 /\ tree[Len(ast) + 1] = New /\ tree[Len(ast) + 2] = m
    BY <1>6, <1>11, <2>1, AllocatedTwo
  <2>3. Root(c, ast, e) = Len(ast) + 2 BY <1>3, <1>11, <2>2 DEF Root
  <2>4. Len(ast) + 1 \in 1 .. Len(tree) /\ Len(ast) + 2 \in 1 .. Len(tree) BY <1>1, <2>2
  <2>5. val[Len(ast) + 1] = NodeValue(val, New, in, u) BY <1>5, <2>2, <2>4
  <2>6. val[Len(ast) + 2] = NodeValue(val, m, in, u) BY <1>5, <2>2, <2>4
  <2> QED BY <1>2, <1>8, <2>3, <2>5, <2>6
<1>12. CASE c \in DOMAIN Wrapping
  <2>1. c # "Boolean" /\ c \notin DOMAIN Relation /\ c \notin Ranges /\ c \notin Masks BY <1>12, ComparatorsAre
  <2>2. Len(e) = 1 BY <1>12, <2>1 DEF Arguments
  <2>3. e[1] \in 1 .. n
    <3>1. e[1] \in 1 .. Len(ast) BY SMTT(30), <2>2, ArgumentsIn
    <3> QED BY <1>7, <3>1
  <2>4. PICK m : m = ASTOpr2(n, Wrapping[c], e[1]) OBVIOUS
  <2>5. m \in NodesOf(1 .. n) BY <1>7, <1>12, <2>3, <2>4, ComparatorsAre DEF ASTOpr2, NodesOf
  <2>6. tree = ast \o <<New, m>> BY <1>2, <1>3, <1>12, <2>1, <2>4 DEF Compared
  <2>7. val[n] = in.new /\ val[Root(c, ast, e)] = NodeValue(val, m, in, u) BY <1>11, <2>1, <2>5, <2>6
  <2>8. NodeValue(val, m, in, u) = Binary(Wrapping[c], val[n], val[e[1]], u) BY <2>4 DEF NodeValue, ASTOpr2
  <2>9. v[1] = val[e[1]] BY <2>2
  <2>10. Judged(c, v, in, u) = Binary(Wrapping[c], in.new, v[1], u) BY <1>12, <2>1 DEF Judged
  <2> QED BY <2>7, <2>8, <2>9, <2>10
<1>13. CASE c \in DOMAIN Relation
  <2> DEFINE x == ast \o <<New, ASTRef("old")>>
  <2>1. c # "Boolean" /\ c \notin DOMAIN Wrapping /\ c \notin Ranges /\ c \notin Masks BY <1>13, ComparatorsAre
  <2>2. PICK m : m = ASTOpr2(n, Relation[c], n + 1) OBVIOUS
  <2>3. tree = ast \o <<New, ASTRef("old"), m>> BY <1>2, <1>3, <1>13, <2>1, <2>2 DEF Compared
  <2>4. /\ WellFormed(x) /\ Extends(x, ast) /\ Len(x) = Len(ast) + 2
        /\ x[Len(ast) + 1] = New /\ x[Len(ast) + 2] = ASTRef("old")
    BY <1>6, AllocatedTwo
  <2>5. m \in NodesOf(1 .. Len(x))
    <3>1. n \in 1 .. Len(x) /\ n + 1 \in 1 .. Len(x) BY <1>1, <1>2, <2>4
    <3> QED BY <1>13, <2>2, <3>1, ComparatorsAre DEF ASTOpr2, NodesOf
  <2>6. tree = Append(x, m)
    <3> DEFINE T == NodesOf(Nat)
    <3>1. 1 .. Len(x) \subseteq Nat OBVIOUS
    <3>2. ast \in Seq(T) /\ New \in T /\ ASTRef("old") \in T BY ReferenceIs DEF WellFormed, New
    <3>3. NodesOf(1 .. Len(x)) \subseteq T BY <3>1 DEF NodesOf
    <3>4. m \in T BY <2>5, <3>3
    <3> HIDE DEF T
    <3> QED BY SMTT(30), <2>3, <3>2, <3>4
  <2> HIDE DEF x
  <2>7. /\ Extends(tree, x) /\ Len(tree) = Len(x) + 1 /\ tree[Len(x) + 1] = m
    BY <2>4, <2>5, <2>6, Allocated
  <2>8. tree[Len(ast) + 1] = New /\ tree[Len(ast) + 2] = ASTRef("old")
    <3>1. Len(ast) + 1 \in 1 .. Len(x) /\ Len(ast) + 2 \in 1 .. Len(x) BY <1>1, <2>4
    <3> QED BY <2>4, <2>7, <3>1 DEF Extends
  <2>9. /\ Len(ast) + 1 \in 1 .. Len(tree) /\ Len(ast) + 2 \in 1 .. Len(tree) /\ Len(x) + 1 \in 1 .. Len(tree)
    BY <1>1, <2>4, <2>7
  <2>10. val[Len(ast) + 1] = in.new BY <1>5, <1>8, <2>8, <2>9
  <2>11. val[Len(ast) + 2] = in.old BY <1>5, <1>9, <2>8, <2>9
  <2>12. val[Len(x) + 1] = NodeValue(val, m, in, u) BY <1>5, <2>7, <2>9
  <2>13. NodeValue(val, m, in, u) = Binary(Relation[c], val[n], val[n + 1], u) BY <2>2 DEF NodeValue, ASTOpr2
  <2>14. val[n] = in.new /\ val[n + 1] = in.old
    <3>1. n + 1 = Len(ast) + 2 BY <1>1, <1>2
    <3> QED BY <1>2, <2>10, <2>11, <3>1
  <2>15. Root(c, ast, e) = Len(x) + 1 BY <1>3, <2>1, <2>7 DEF Root
  <2>16. Judged(c, v, in, u) = Binary(Relation[c], in.new, in.old, u) BY <1>13, <2>1 DEF Judged
  <2> QED BY <2>12, <2>13, <2>14, <2>15, <2>16
<1>14. \A k \in Words \union {Undef} : k # Undef => k \in Words OBVIOUS
<1>17. Len(e) = 2 => e[1] \in 1 .. Len(ast) /\ e[2] \in 1 .. Len(ast)
  <2> HAVE Len(e) = 2
  <2>1. Len(e) >= 1 /\ Len(e) >= 2 OBVIOUS
  <2> QED BY <2>1, ArgumentsIn
<1>15. CASE c \in Ranges
  <2>1. c # "Boolean" /\ c \notin DOMAIN Wrapping /\ c \notin DOMAIN Relation /\ c \notin Masks BY <1>15, ComparatorsAre
  <2>2. Len(e) = 2 BY <1>15, <2>1 DEF Arguments
  <2>3. e[1] \in 1 .. Len(ast) /\ e[2] \in 1 .. Len(ast) BY <1>17, <2>2
  <2>4. e[1] \in 1 .. n /\ e[2] \in 1 .. n BY <1>7, <2>3
  <2>5. PICK r \in BOOLEAN : r = (c = "NE_Range") OBVIOUS
  <2>6. PICK m : m = ASTRange(n, e[1], e[2], r) OBVIOUS
  <2>7. m \in NodesOf(1 .. n) BY <1>7, <2>4, <2>5, <2>6 DEF ASTRange, NodesOf
  <2>8. tree = ast \o <<New, m>> BY <1>2, <1>3, <1>15, <2>1, <2>5, <2>6 DEF Compared
  <2>9. val[n] = in.new /\ val[Root(c, ast, e)] = NodeValue(val, m, in, u) BY <1>11, <2>1, <2>7, <2>8
  <2>10. PICK a \in Words, b \in Words : a = v[1] /\ b = v[2] /\ a = val[e[1]] /\ b = val[e[2]]
    <3>1. v[1] = val[e[1]] /\ v[2] = val[e[2]] /\ v[1] # Undef /\ v[2] # Undef BY <2>2
    <3>2. e[1] \in 1 .. Len(tree) /\ e[2] \in 1 .. Len(tree) BY <1>4, <2>3 DEF Extends
    <3> QED BY <1>5, <3>1, <3>2
  <2>11. m.node = "Range" /\ m.expr = n /\ m.min = e[1] /\ m.max = e[2] /\ m.reverse = r BY <2>6 DEF ASTRange
  <2>12. PICK w \in Words : w = in.new BY <1>1
  <2>13. Undef \notin {w, a, b} OBVIOUS
  <2>14. NodeValue(val, m, in, u) = IF w >= a /\ w <= b THEN 1 - Truth(r) ELSE Truth(r)
    BY <2>9, <2>10, <2>11, <2>12, <2>13 DEF NodeValue
  <2>15. Judged(c, v, in, u) = Truth(w \in a .. b <=> c = "EQ_Range") BY <1>15, <2>1, <2>10, <2>12 DEF Judged
  <2>16. w \in a .. b <=> w >= a /\ w <= b
    <3>1. w \in Nat /\ a \in Nat /\ b \in Nat BY WrappedIs
    <3> QED BY <3>1
  <2>17. c = "EQ_Range" <=> ~r BY <1>15, <2>5 DEF Ranges
  <2>18. Truth(w \in a .. b <=> c = "EQ_Range") = IF w >= a /\ w <= b THEN 1 - Truth(r) ELSE Truth(r)
    BY <2>16, <2>17 DEF Truth
  <2> QED BY <2>9, <2>14, <2>15, <2>18
<1>16. CASE c \in Masks
  <2>1. c # "Boolean" /\ c \notin DOMAIN Wrapping /\ c \notin DOMAIN Relation /\ c \notin Ranges BY <1>16, ComparatorsAre
  <2>2. Len(e) = 2 BY <1>16, <2>1 DEF Arguments
  <2>3. e[1] \in 1 .. Len(ast) /\ e[2] \in 1 .. Len(ast) BY <1>17, <2>2
  <2>4. e[1] \in 1 .. n /\ e[2] \in 1 .. n BY <1>7, <2>3
  <2>5. PICK r \in BOOLEAN : r = (c = "NE_Mask") OBVIOUS
  <2>6. PICK m : m = ASTMask(n, e[1], e[2], r) OBVIOUS
  <2>7. m \in NodesOf(1 .. n) BY <1>7, <2>4, <2>5, <2>6 DEF ASTMask, NodesOf
  <2>8. tree = ast \o <<New, m>> BY <1>2, <1>3, <1>16, <2>1, <2>5, <2>6 DEF Compared
  <2>9. val[n] = in.new /\ val[Root(c, ast, e)] = NodeValue(val, m, in, u) BY <1>11, <2>1, <2>7, <2>8
  <2>10. PICK a \in Words, b \in Words : a = v[1] /\ b = v[2] /\ a = val[e[1]] /\ b = val[e[2]]
    <3>1. v[1] = val[e[1]] /\ v[2] = val[e[2]] /\ v[1] # Undef /\ v[2] # Undef BY <2>2
    <3>2. e[1] \in 1 .. Len(tree) /\ e[2] \in 1 .. Len(tree) BY <1>4, <2>3 DEF Extends
    <3> QED BY <1>5, <3>1, <3>2
  <2>11. m.node = "Mask" /\ m.expr = n /\ m.value = e[1] /\ m.mask = e[2] /\ m.reverse = r BY <2>6 DEF ASTMask
  <2>12. PICK w \in Words : w = in.new BY <1>1
  <2>13. Undef \notin {w, a, b} OBVIOUS
  <2>14. NodeValue(val, m, in, u) = IF (w & b) = (a & b) THEN 1 - Truth(r) ELSE Truth(r)
    BY <2>9, <2>10, <2>11, <2>12, <2>13 DEF NodeValue
  <2>15. Judged(c, v, in, u) = Truth((w & b) = (a & b) <=> c = "EQ_Mask") BY <1>16, <2>1, <2>10, <2>12 DEF Judged
  <2>16. c = "EQ_Mask" <=> ~r BY <1>16, <2>5 DEF Masks
  <2>17. Truth((w & b) = (a & b) <=> c = "EQ_Mask") = IF (w & b) = (a & b) THEN 1 - Truth(r) ELSE Truth(r)
    BY <2>16 DEF Truth
  <2> QED BY <2>9, <2>14, <2>15, <2>17
<1> QED BY <1>10, <1>12, <1>13, <1>15, <1>16, ComparatorsAre

\* So the meaning is the value of the root, wherever there is one.
LEMMA MeaningIs ==
  ASSUME WellFormed(nodes), source.comparator \in Comparators, exprs \in Seq(1 .. Len(nodes)),
         Len(exprs) = Arguments(source.comparator), input \in WordsIn, sign \in BOOLEAN,
         NEW val, Valuation(val, Compared(source.comparator, nodes, exprs), input, sign),
         Matches(Evaluation(input, sign)[Len(source.tokens)], exprs, nodes, val)
  PROVE  Meaning \in {Undef, val[Root(source.comparator, nodes, exprs)]}
<1>1. CASE Meaning = Undef BY <1>1
<1>2. CASE \E v : /\ \A i \in 1 .. Len(exprs) : v[i] = val[exprs[i]] /\ v[i] # Undef
                  /\ Meaning = Judged(source.comparator, v, input, sign)
  BY <1>2, JudgedIs
<1> QED BY <1>1, <1>2, MeaningCases
-------------------------------------------------------------------------------
(***************************************************************************)
(* The inductive invariant.                                                *)
(***************************************************************************)
\* The text negates constants only, and the parser folds them (a test can turn
\* that off): the code of "!" is wrong, and this is all that is asked of the text.
NegatesConstants ==
  \A k \in 1 .. Len(source.tokens) : source.tokens[k] = <<"opr1", "!">> =>
    \A in \in WordsIn, u \in BOOLEAN : Top(Evaluation(in, u)[k - 1], 1)[1].const

\* What a code ought to return.
Aim == IF NegatesConstants THEN Meaning ELSE Undef

\* After k tokens.
Parsed(k, stk, ast) ==
  /\ WellFormed(ast) /\ stk \in Seq(1 .. Len(ast)) /\ Len(stk) = Height(source.tokens)[k]
  /\ NegatesConstants =>
       \A in \in WordsIn, u \in BOOLEAN : \A val :
         Valuation(val, ast, in, u) => Matches(Evaluation(in, u)[k], stk, ast, val)

\* What is assumed of a text.
LEMMA TextIs ==
  ASSUME source \in Sources
  PROVE  /\ source.tokens \in Seq(Tokens) /\ Len(source.tokens) \in Nat /\ source.comparator \in Comparators
         /\ \A k \in 1 .. Len(source.tokens) :
              source.tokens[k] \in Tokens /\ Arity(source.tokens[k]) <= Height(source.tokens)[k - 1]
         /\ Height(source.tokens)[Len(source.tokens)] = Arguments(source.comparator)
<1>1. source.comparator \in Comparators /\ IsText(source.tokens, source.comparator)
  BY ExpressionAssumption
<1>2. source.tokens \in Seq(Tokens) BY <1>1 DEF IsText
<1>3. Len(source.tokens) \in Nat /\ \A k \in 1 .. Len(source.tokens) : source.tokens[k] \in Tokens
  BY <1>2
<1> QED BY <1>1, <1>2, <1>3 DEF IsText

\* Before the first token nothing is parsed.
LEMMA ParsedNothing ==
  ASSUME source \in Sources
  PROVE  Parsed(0, <<>>, <<>>)
<1>1. Height(source.tokens)[0] = 0 BY TextIs, HeightIs
<1>2. WellFormed(<<>>) BY DEF WellFormed
<1>3. ASSUME NEW in \in WordsIn, NEW u \in BOOLEAN, NEW val
      PROVE  Matches(Evaluation(in, u)[0], <<>>, <<>>, val)
  <2>1. Evaluation(in, u)[0] = <<>> BY TextIs, EvaluationIs
  <2> QED BY <2>1 DEF Matches
<1> QED BY <1>1, <1>2, <1>3 DEF Parsed

\* Behind a token one more is parsed.
LEMMA ParsedToken ==
  ASSUME source \in Sources, optimal \in BOOLEAN, NEW k \in 1 .. Len(source.tokens),
         NEW stk, NEW ast, Parsed(k - 1, stk, ast), NEW t, t = source.tokens[k], NEW ast2, NEW p,
         Replaces(ast, Built(t, Top(stk, Arity(t))), ast2, p)
  PROVE  Parsed(k, Append(Rest(stk, Arity(t)), p), ast2)
<1>1. WellFormed(ast) /\ stk \in Seq(1 .. Len(ast)) /\ Len(stk) = Height(source.tokens)[k - 1] BY DEF Parsed
<1>2. t \in Tokens /\ Arity(t) <= Len(stk) /\ Arity(t) \in 0 .. 3 /\ source.tokens \in Seq(Tokens)
  BY <1>1, TextIs, ArityIs
<1>3. PICK n \in 0 .. Len(stk) : n = Arity(t) BY <1>1, <1>2
<1>4. PICK b : b = Top(stk, n) OBVIOUS
<1>5. b \in Seq(1 .. Len(ast)) /\ Len(b) = n BY <1>1, <1>4, TopIs
<1>6. Built(t, b) \in NodesOf(1 .. Len(ast)) BY <1>1, <1>2, <1>3, <1>5, BuiltIs
<1>7. /\ WellFormed(ast2) /\ Extends(ast2, ast) /\ p \in 1 .. Len(ast2)
      /\ Len(ast) \in Nat /\ Len(ast2) \in Nat /\ Len(ast) <= Len(ast2)
  BY <1>1, <1>3, <1>4, <1>6, ReplacedTree
<1>8. PICK s : s = Append(Rest(stk, n), p) OBVIOUS
<1>9. s \in Seq(1 .. Len(ast2)) /\ Len(s) = Len(stk) - n + 1 BY SMTT(30), <1>1, <1>7, <1>8, StackPushed
<1>10. Len(s) = Height(source.tokens)[k]
  <2>1. Height(source.tokens)[k] = Height(source.tokens)[k - 1] - Arity(t) + 1 BY <1>2, HeightIs
  <2> QED BY <1>1, <1>3, <1>9, <2>1
<1>11. ASSUME NegatesConstants, NEW in \in WordsIn, NEW u \in BOOLEAN, NEW val, Valuation(val, ast2, in, u)
       PROVE  Matches(Evaluation(in, u)[k], s, ast2, val)
  <2>1. Valuation(val, ast, in, u) BY <1>7, <1>11, ValuationOfPart
  <2>2. PICK E : E = Evaluation(in, u)[k - 1] OBVIOUS
  <2>3. Matches(E, stk, ast, val) BY <1>11, <2>1, <2>2 DEF Parsed
  <2>4. t = <<"opr1", "!">> => Top(E, 1)[1].const BY <1>11, <2>2 DEF NegatesConstants
  <2>5. Matches(Evaluated(E, t, in, u), Append(Rest(stk, Arity(t)), p), ast2, val)
    BY <1>1, <1>2, <1>11, <2>3, <2>4, ReplacedMatches
  <2>6. Evaluation(in, u)[k] = Evaluated(E, t, in, u) BY <2>2, TextIs, EvaluationIs
  <2> QED BY <1>3, <1>8, <2>5, <2>6
<1>12. Parsed(k, s, ast2) BY <1>7, <1>9, <1>10, <1>11 DEF Parsed
<1> QED BY <1>3, <1>8, <1>12

\* What the text says does not change while it is worked on.
LEMMA EvaluationStays ==
  ASSUME source' = source, optimal' = optimal, NEW in, NEW u
  PROVE  Evaluation(in, u)' = Evaluation(in, u)
<1>1. \A a, t : Reduced(a, t, in, u)' = Reduced(a, t, in, u) BY DEF Reduced
<1>2. \A a, t : Evaluated(a, t, in, u)' = Evaluated(a, t, in, u) BY <1>1 DEF Evaluated
<1> QED BY <1>2 DEF Evaluation

\* So what is asked of it stays.
LEMMA NegatesStays == source' = source /\ optimal' = optimal => (NegatesConstants' <=> NegatesConstants)
<1> SUFFICES ASSUME source' = source, optimal' = optimal PROVE NegatesConstants' <=> NegatesConstants OBVIOUS
<1>1. \A in \in WordsIn, u \in BOOLEAN : Evaluation(in, u)' = Evaluation(in, u) BY EvaluationStays
<1> QED BY <1>1 DEF NegatesConstants

\* A step that leaves the text leaves what was parsed.
LEMMA ParsedStays ==
  ASSUME source' = source, optimal' = optimal, NEW k, NEW stk, NEW ast, Parsed(k, stk, ast)
  PROVE  Parsed(k, stk, ast)'
<1>1. \A in \in WordsIn, u \in BOOLEAN : Evaluation(in, u)' = Evaluation(in, u) BY EvaluationStays
<1> QED BY <1>1, NegatesStays DEF Parsed, Matches, Stands

\* It leaves the meaning if it leaves the input too.
LEMMA MeaningStays ==
  ASSUME source' = source, optimal' = optimal, input' = input, sign' = sign
  PROVE  Meaning' = Meaning
<1>1. Evaluation(input, sign)' = Evaluation(input, sign) BY EvaluationStays
<1> QED BY <1>1 DEF Meaning

\* So the code that is compiled keeps to it, whatever it is called with.
LEMMA CodeIsSafe ==
  ASSUME source \in Sources, optimal \in BOOLEAN, Parsed(Len(source.tokens), exprs, nodes),
         input \in WordsIn, sign \in BOOLEAN
  PROVE  Called(JITCode.size, input) \in Safe(JobOf(JITCode, sign, Aim))
<1>1. PICK c \in Comparators : c = source.comparator BY TextIs
<1>2. WellFormed(nodes) /\ exprs \in Seq(1 .. Len(nodes)) /\ Len(exprs) = Arguments(c)
  BY <1>1, TextIs DEF Parsed
<1>3. PICK tree : tree = Compared(c, nodes, exprs) OBVIOUS
<1>4. PICK root : root = Root(c, nodes, exprs) OBVIOUS
<1>5. WellFormed(tree) /\ Extends(tree, nodes) /\ root \in 1 .. Len(tree) BY <1>2, <1>3, <1>4, ComparedIs
<1>6. PICK val : Valuation(val, tree, input, sign) BY <1>5, ValuationExists
<1>7. Aim \in {Undef, val[root]}
  <2>1. CASE NegatesConstants
    <3>1. Valuation(val, nodes, input, sign) BY <1>5, <1>6, ValuationOfPart
    <3>2. Matches(Evaluation(input, sign)[Len(source.tokens)], exprs, nodes, val) BY <2>1, <3>1 DEF Parsed
    <3>3. Meaning \in {Undef, val[root]} BY <1>1, <1>2, <1>3, <1>4, <1>6, <3>2, MeaningIs
    <3> QED BY <2>1, <3>3 DEF Aim
  <2>2. CASE ~NegatesConstants BY <2>2 DEF Aim
  <2> QED BY <2>1, <2>2
<1>8. JITCode = CompileAST(tree, root) BY <1>1, <1>3, <1>4 DEF JITCode
<1>9. Called(CompileAST(tree, root).size, input) \in Safe(JobOf(CompileAST(tree, root), sign, Aim))
  BY <1>5, <1>6, <1>7, CalledIsSafe
<1> QED BY <1>8, <1>9

Machine == [pc |-> pc, regs |-> regs, frame |-> frame]

Control ==
  /\ source \in Sources /\ caller \in Callers /\ optimal \in BOOLEAN /\ (caller.kind # "test" => optimal)
  /\ todo \in Seq(BOOLEAN) /\ (phase \in {"parsing", "compiling"} => todo # <<>>)
  /\ phase # "done" => tested = Junk

\* What the parser has made of the text, and what the command asks of it.
Trees ==
  /\ phase = "parsing" =>
       pos \in 1 .. Len(source.tokens) + 1 /\ Parsed(pos - 1, stack, nodes) /\ codes = <<>>
  /\ phase \in {"compiling", "ready", "running", "fast"} => Parsed(Len(source.tokens), exprs, nodes)
  /\ phase = "fast" =>
       /\ optimal /\ source.comparator # "Boolean"
       /\ source.comparator \in DOMAIN Relation \/ \A i \in DOMAIN exprs : IsNumber(nodes[exprs[i]])

\* What is compiled is the code of that tree, however often.
Generates ==
  phase \in {"compiling", "ready", "running"} => \A u \in DOMAIN codes : u \in BOOLEAN /\ codes[u] = JITCode

Running ==
  phase = "running" =>
    sign \in DOMAIN codes /\ input \in Inputs /\ Machine \in Safe(JobOf(JITCode, sign, Aim))

IInv ==
  /\ Control /\ Trees /\ Generates /\ Running
  /\ NegatesConstants => TrapsOnlyOnUndefined

\* The invariant holds in the beginning.
LEMMA InitHolds == Init => IInv
<1> SUFFICES ASSUME Init PROVE IInv OBVIOUS
<1>1. source \in Sources /\ caller \in Callers /\ todo = caller.compiles /\ phase = "parsing" /\ pos = 1
      /\ stack = <<>> /\ nodes = <<>> /\ codes = <<>> /\ tested = Junk
  BY DEF Init
<1>2. optimal \in BOOLEAN /\ (caller.kind # "test" => optimal) BY DEF Init
<1>3. caller.compiles \in Seq(BOOLEAN) \ {<<>>} BY <1>1, ExpressionAssumption
<1>4. Control BY <1>1, <1>2, <1>3 DEF Control
<1>5. Trees
  <2>1. Parsed(0, <<>>, <<>>) BY <1>1, ParsedNothing
  <2>2. 1 - 1 = 0 /\ Len(source.tokens) \in Nat BY <1>1, TextIs
  <2>3. 1 \in 1 .. Len(source.tokens) + 1 BY <2>2
  <2> QED BY <1>1, <2>1, <2>2, <2>3 DEF Trees
<1> QED BY <1>1, <1>4, <1>5 DEF IInv, Generates, Running, TrapsOnlyOnUndefined

\* What the machine of the model reads is what the proof's machine reads.
LEMMA HeldIs ==
  ASSUME NEW x
  PROVE  At(Machine, x) = Held(x)
BY DEF At, Held, Machine

\* The generated code has a length.
LEMMA CodeLength ==
  ASSUME source \in Sources, Parsed(Len(source.tokens), exprs, nodes)
  PROVE  Len(JITCode.body) \in Nat
<1>1. PICK c \in Comparators : c = source.comparator BY TextIs
<1>2. WellFormed(nodes) /\ exprs \in Seq(1 .. Len(nodes)) /\ Len(exprs) = Arguments(c)
  BY <1>1, TextIs DEF Parsed
<1>3. PICK tree : tree = Compared(c, nodes, exprs) OBVIOUS
<1>4. PICK root : root = Root(c, nodes, exprs) OBVIOUS
<1>5. WellFormed(tree) /\ root \in 1 .. Len(tree) BY <1>2, <1>3, <1>4, ComparedIs
<1>6. 0 \in Nat OBVIOUS
<1>7. Code(tree)[root][0][R0] \in Codes BY <1>5, <1>6, CodeAt
<1>8. JITCode.body = Code(tree)[root][0][R0] BY <1>1, <1>3, <1>4 DEF JITCode, CompileAST
<1> QED BY <1>7, <1>8 DEF Codes

\* What a running code may do next.
LEMMA RunningIs ==
  ASSUME IInv, phase = "running", NEW k, k = JobOf(JITCode, sign, Aim)
  PROVE  /\ k.body = Body /\ k.unsigned = sign /\ k.value = Aim
         /\ Machine \in States(k) /\ Allowed(k, Machine, Safe(k)) /\ Machine.pc = pc
         /\ Len(Body) \in Nat /\ pc \in Nat
<1>1. sign \in DOMAIN codes /\ Machine \in Safe(k) BY DEF IInv, Running
<1>2. codes[sign] = JITCode BY <1>1 DEF IInv, Generates
<1>3. Machine \in States(k) /\ Allowed(k, Machine, Safe(k)) BY <1>1, SafeIs
<1>4. Len(JITCode.body) \in Nat
  <2>1. source \in Sources /\ Parsed(Len(source.tokens), exprs, nodes) BY DEF IInv, Control, Trees
  <2> QED BY <2>1, CodeLength
<1>5. k.body = Body BY <1>2 DEF JobOf, Body
<1>6. Len(Body) \in Nat BY <1>2, <1>4 DEF Body
<1>7. pc \in Nat BY <1>3 DEF States, Machine
<1> QED BY <1>2, <1>3, <1>5, <1>6, <1>7 DEF JobOf, Machine

\* A step of the code leaves everything else alone.
LEMMA StepStays ==
  ASSUME IInv, phase = "running", phase' = "running", Unmoved, NEW k, k = JobOf(JITCode, sign, Aim),
         Machine' \in Safe(k)
  PROVE  IInv'
<1>1. /\ source' = source /\ caller' = caller /\ optimal' = optimal /\ input' = input /\ nodes' = nodes
      /\ exprs' = exprs /\ todo' = todo /\ codes' = codes /\ sign' = sign /\ tested' = tested
  BY DEF Unmoved, parser
<1>2. Meaning' = Meaning BY <1>1, MeaningStays
<1>3. Aim' = Aim /\ (NegatesConstants' <=> NegatesConstants) BY <1>1, <1>2, NegatesStays DEF Aim
<1>4. JITCode' = JITCode BY <1>1 DEF JITCode
<1>5. Control' BY <1>1 DEF IInv, Control
<1>6. Trees'
  <2>1. Parsed(Len(source.tokens), exprs, nodes) BY DEF IInv, Trees
  <2>2. PICK n, e, a : n = Len(source.tokens) /\ e = exprs /\ a = nodes OBVIOUS
  <2>3. Parsed(n, e, a)' BY <1>1, <2>1, <2>2, ParsedStays
  <2> QED BY <1>1, <2>2, <2>3 DEF Trees
<1>7. Generates' BY <1>1, <1>4 DEF IInv, Generates
<1>8. Running'
  <2>1. sign' \in DOMAIN codes' /\ input' \in Inputs BY <1>1 DEF IInv, Running
  <2>2. JobOf(JITCode, sign, Aim)' = k BY <1>1, <1>3, <1>4
  <2> QED BY <2>1, <2>2 DEF Running
<1> QED BY <1>5, <1>6, <1>7, <1>8 DEF IInv, TrapsOnlyOnUndefined

\* A move keeps the invariant.
LEMMA MovSafe ==
  ASSUME IInv, ExecMov
  PROVE  IInv'
<1>1. PICK k : k = JobOf(JITCode, sign, Aim) OBVIOUS
<1>2. phase = "running" /\ pc <= Len(Body) /\ Instr.op = "mov" /\ phase' = "running" /\ Unmoved /\ pc' = pc + 1
  BY DEF ExecMov, Runs
<1>3. k.body = Body /\ Allowed(k, Machine, Safe(k)) /\ Machine.pc = pc
      /\ Len(Body) \in Nat /\ pc \in Nat
  BY <1>1, <1>2, RunningIs
<1>4. k.body[Machine.pc] = Instr BY <1>3 DEF Instr
<1>5. Moves(k, Machine, Safe(k))
  <2>1. ~(Machine.pc > Len(k.body)) BY <1>2, <1>3
  <2> QED BY <1>2, <1>4, <2>1, <1>3 DEF Allowed, Computes, Branches, Jumps
<1>6. PICK w : w = At(Machine, Instr.a) OBVIOUS
<1>7. w # Junk /\ Put(Machine, Instr.dst, w) \in Safe(k) BY <1>4, <1>5, <1>6 DEF Moves
<1>8. Reads(Instr.a) = {w} BY <1>6, <1>7, HeldIs DEF Reads
<1>9. Writes(Instr.dst, w) BY <1>8 DEF ExecMov
<1>10. Machine' = Put(Machine, Instr.dst, w) BY <1>2, <1>9 DEF Writes, Put, Machine
<1> QED BY <1>1, <1>2, <1>7, <1>10, StepStays

\* A computation keeps it.
LEMMA AluSafe ==
  ASSUME IInv, ExecAlu
  PROVE  IInv'
<1>1. PICK k : k = JobOf(JITCode, sign, Aim) OBVIOUS
<1>2. phase = "running" /\ pc <= Len(Body) /\ Instr.op = "alu" /\ phase' = "running" /\ Unmoved /\ pc' = pc + 1
  BY DEF ExecAlu, Runs
<1>3. k.body = Body /\ k.unsigned = sign /\ Allowed(k, Machine, Safe(k)) /\ Machine.pc = pc
      /\ Len(Body) \in Nat /\ pc \in Nat
  BY <1>1, <1>2, RunningIs
<1>4. k.body[Machine.pc] = Instr BY <1>3 DEF Instr
<1>5. Computes(k, Machine, Safe(k))
  <2>1. ~(Machine.pc > Len(k.body)) BY <1>2, <1>3
  <2> QED BY <1>2, <1>4, <2>1, <1>3 DEF Allowed, Moves, Branches, Jumps
<1>6. PICK x, y : x = At(Machine, Instr.a) /\ y = At(Machine, Instr.b) OBVIOUS
<1>7. PICK r : r = Binary(Instr.opr, x, y, sign) OBVIOUS
<1>8. x # Junk /\ y # Junk /\ \A w \in Outcomes(r) : Put(Machine, Instr.dst, w) \in Safe(k)
  BY <1>3, <1>4, <1>5, <1>6, <1>7 DEF Computes
<1>9. Reads(Instr.a) = {x} /\ Reads(Instr.b) = {y} BY <1>6, <1>8, HeldIs DEF Reads
<1>10. PICK w \in Outcomes(r) : Writes(Instr.dst, w) BY <1>7, <1>9 DEF ExecAlu, Outcomes
<1>11. Machine' = Put(Machine, Instr.dst, w) BY <1>2, <1>10 DEF Writes, Put, Machine
<1> QED BY <1>1, <1>2, <1>8, <1>11, StepStays

\* A conditional jump keeps it.
LEMMA CmpSafe ==
  ASSUME IInv, ExecCmp
  PROVE  IInv'
<1>1. PICK k : k = JobOf(JITCode, sign, Aim) OBVIOUS
<1>2. phase = "running" /\ pc <= Len(Body) /\ Instr.op = "cmp" /\ phase' = "running" /\ Unmoved
      /\ regs' = regs /\ frame' = frame
  BY DEF ExecCmp, Runs
<1>3. k.body = Body /\ k.unsigned = sign /\ Allowed(k, Machine, Safe(k)) /\ Machine.pc = pc
      /\ Len(Body) \in Nat /\ pc \in Nat
  BY <1>1, <1>2, RunningIs
<1>4. k.body[Machine.pc] = Instr BY <1>3 DEF Instr
<1>5. Branches(k, Machine, Safe(k))
  <2>1. ~(Machine.pc > Len(k.body)) BY <1>2, <1>3
  <2> QED BY <1>2, <1>4, <2>1, <1>3 DEF Allowed, Moves, Computes, Jumps
<1>6. PICK x, y : x = At(Machine, Instr.a) /\ y = At(Machine, Instr.b) OBVIOUS
<1>7. PICK p : p = pc + 1 + Binary(Instr.opr, x, y, sign \/ Instr.signless) * Instr.skip OBVIOUS
<1>8. x # Junk /\ y # Junk /\ Goto(Machine, p) \in Safe(k)
  BY <1>3, <1>4, <1>5, <1>6, <1>7 DEF Branches
<1>9. Reads(Instr.a) = {x} /\ Reads(Instr.b) = {y} BY <1>6, <1>8, HeldIs DEF Reads
<1>10. pc' = p BY <1>7, <1>9 DEF ExecCmp
<1>11. Machine' = Goto(Machine, p) BY <1>2, <1>10 DEF Goto, Machine
<1> QED BY <1>1, <1>2, <1>8, <1>11, StepStays

\* A jump keeps it.
LEMMA JumpSafe ==
  ASSUME IInv, ExecJump
  PROVE  IInv'
<1>1. PICK k : k = JobOf(JITCode, sign, Aim) OBVIOUS
<1>2. phase = "running" /\ pc <= Len(Body) /\ Instr.op = "jump" /\ phase' = "running" /\ Unmoved
      /\ regs' = regs /\ frame' = frame /\ pc' = pc + 1 + Instr.skip
  BY DEF ExecJump, Runs
<1>3. k.body = Body /\ Allowed(k, Machine, Safe(k)) /\ Machine.pc = pc
      /\ Len(Body) \in Nat /\ pc \in Nat
  BY <1>1, <1>2, RunningIs
<1>4. k.body[Machine.pc] = Instr BY <1>3 DEF Instr
<1>5. Jumps(k, Machine, Safe(k))
  <2>1. ~(Machine.pc > Len(k.body)) BY <1>2, <1>3
  <2> QED BY <1>2, <1>4, <2>1, <1>3 DEF Allowed, Moves, Computes, Branches
<1>6. Goto(Machine, pc + 1 + Instr.skip) \in Safe(k) BY <1>3, <1>4, <1>5 DEF Jumps
<1>7. Machine' = Goto(Machine, pc + 1 + Instr.skip) BY <1>2 DEF Goto, Machine
<1> QED BY <1>1, <1>2, <1>6, <1>7, StepStays

\* The frame conditions of a step that leaves the tree and the codes alone.
LEMMA TreesStay ==
  ASSUME IInv, source' = source, optimal' = optimal, nodes' = nodes, exprs' = exprs,
         phase \in {"compiling", "ready", "running", "fast"}
  PROVE  Parsed(Len(source.tokens), exprs, nodes)' /\ JITCode' = JITCode
<1>1. Parsed(Len(source.tokens), exprs, nodes) BY DEF IInv, Trees
<1>2. PICK n, e, a : n = Len(source.tokens) /\ e = exprs /\ a = nodes OBVIOUS
<1>3. Parsed(n, e, a)' BY <1>1, <1>2, ParsedStays
<1>4. JITCode' = JITCode BY DEF JITCode
<1> QED BY <1>2, <1>3, <1>4

\* A trap keeps it: the text has no value there.
LEMMA TrapSafe ==
  ASSUME IInv, AluTraps
  PROVE  IInv'
<1>1. PICK k : k = JobOf(JITCode, sign, Aim) OBVIOUS
<1>2. phase = "running" /\ pc <= Len(Body) /\ Instr.op = "alu" /\ phase' = "trapped" /\ Unmoved
  BY DEF AluTraps, Runs
<1>3. k.body = Body /\ k.unsigned = sign /\ k.value = Aim /\ Allowed(k, Machine, Safe(k)) /\ Machine.pc = pc
      /\ Len(Body) \in Nat /\ pc \in Nat
  BY <1>1, <1>2, RunningIs
<1>4. k.body[Machine.pc] = Instr BY <1>3 DEF Instr
<1>5. Computes(k, Machine, Safe(k))
  <2>1. ~(Machine.pc > Len(k.body)) BY <1>2, <1>3
  <2> QED BY <1>2, <1>4, <2>1, <1>3 DEF Allowed, Moves, Branches, Jumps
<1>6. PICK x, y : x = At(Machine, Instr.a) /\ y = At(Machine, Instr.b) OBVIOUS
<1>7. x # Junk /\ y # Junk /\ (Binary(Instr.opr, x, y, sign) = Undef => Aim = Undef)
  BY <1>3, <1>4, <1>5, <1>6 DEF Computes
<1>8. Reads(Instr.a) = {x} /\ Reads(Instr.b) = {y} BY <1>6, <1>7, HeldIs DEF Reads
<1>9. Aim = Undef BY <1>7, <1>8 DEF AluTraps
<1>10. /\ source' = source /\ caller' = caller /\ optimal' = optimal /\ input' = input
       /\ todo' = todo /\ codes' = codes /\ sign' = sign /\ tested' = tested
  BY <1>2 DEF Unmoved, parser
<1>11. Meaning' = Meaning /\ (NegatesConstants' <=> NegatesConstants) BY <1>10, MeaningStays, NegatesStays
<1>12. NegatesConstants' => TrapsOnlyOnUndefined' BY <1>9, <1>11 DEF Aim, TrapsOnlyOnUndefined
<1>13. Control' BY <1>2, <1>10 DEF IInv, Control
<1> QED BY <1>2, <1>12, <1>13 DEF IInv, Trees, Generates, Running

\* A return keeps it: the first register holds the meaning.
LEMMA ReturnSafe ==
  ASSUME IInv, Return
  PROVE  IInv'
<1>1. phase = "running" /\ Unmoved /\ phase' = IF caller.kind = "scan" /\ todo # <<>> THEN "compiling" ELSE "done"
  BY DEF Return, AtReturn
<1>2. /\ source' = source /\ caller' = caller /\ optimal' = optimal /\ nodes' = nodes /\ exprs' = exprs
      /\ todo' = todo /\ codes' = codes /\ tested' = tested
  BY <1>1 DEF Unmoved, parser
<1>3. Parsed(Len(source.tokens), exprs, nodes)' /\ JITCode' = JITCode BY <1>1, <1>2, TreesStay
<1>4. Control' BY <1>1, <1>2 DEF IInv, Control
<1>5. Trees' BY <1>1, <1>3 DEF Trees
<1>6. Generates' BY <1>1, <1>2, <1>3 DEF IInv, Generates
<1>7. Running' /\ TrapsOnlyOnUndefined' BY <1>1 DEF Running, TrapsOnlyOnUndefined
<1> QED BY <1>4, <1>5, <1>6, <1>7 DEF IInv

\* So does every instruction.
LEMMA ExecuteSafe == IInv /\ Execute => IInv'
BY MovSafe, AluSafe, TrapSafe, CmpSafe, JumpSafe, ReturnSafe DEF Execute

\* A reduction puts the node, or what the optimiser makes of it, on the stack.
LEMMA PushesHolds ==
  ASSUME IInv, Parsing, NEW ast2, NEW p, Replaces(nodes, Reduction, ast2, p), Pushes(ast2, p)
  PROVE  IInv'
<1>1. /\ source' = source /\ caller' = caller /\ optimal' = optimal /\ todo' = todo /\ codes' = codes
      /\ phase' = phase /\ tested' = tested /\ pos' = pos + 1 /\ nodes' = ast2
      /\ stack' = Append(Rest(stack, Arity(Token)), p)
  BY DEF Pushes
<1>2. phase = "parsing" /\ pos <= Len(source.tokens) BY DEF Parsing
<1>3. source \in Sources /\ optimal \in BOOLEAN BY DEF IInv, Control
<1>4. pos \in 1 .. Len(source.tokens) + 1 /\ Parsed(pos - 1, stack, nodes) /\ codes = <<>>
  BY <1>2 DEF IInv, Trees
<1>5. Len(source.tokens) \in Nat BY <1>3, TextIs
<1>6. PICK k \in 1 .. Len(source.tokens) : k = pos BY <1>2, <1>4, <1>5
<1>7. PICK t : t = source.tokens[k] OBVIOUS
<1>8. PICK s : s = Append(Rest(stack, Arity(t)), p) OBVIOUS
<1>9. Replaces(nodes, Built(t, Top(stack, Arity(t))), ast2, p) BY <1>6, <1>7 DEF Reduction, Token
<1>10. Parsed(k, s, ast2) BY <1>3, <1>4, <1>6, <1>7, <1>8, <1>9, ParsedToken
<1>11. Parsed(k, s, ast2)' BY <1>1, <1>10, ParsedStays
<1>12. stack' = s /\ pos' - 1 = k /\ pos' \in 1 .. Len(source.tokens) + 1
  BY <1>1, <1>4, <1>5, <1>6, <1>7, <1>8 DEF Token
<1>13. Trees' BY <1>1, <1>2, <1>4, <1>11, <1>12 DEF Trees
<1>14. Control' BY <1>1 DEF IInv, Control
<1>15. Generates' /\ Running' /\ TrapsOnlyOnUndefined' BY <1>1, <1>2 DEF Generates, Running, TrapsOnlyOnUndefined
<1> QED BY <1>13, <1>14, <1>15 DEF IInv

\* The end of the text keeps the invariant, with code to be made or without.
LEMMA AcceptHolds ==
  ASSUME IInv, Accept
  PROVE  IInv'
<1>1. /\ source' = source /\ caller' = caller /\ optimal' = optimal /\ todo' = todo /\ codes' = codes
      /\ nodes' = nodes /\ tested' = tested /\ exprs' = stack
      /\ phase = "parsing" /\ pos > Len(source.tokens)
  BY DEF Accept, parser
<1>2. phase' \in {"compiling", "rejected", "fast"} BY DEF Accept
<1>3. source \in Sources BY DEF IInv, Control
<1>4. pos \in 1 .. Len(source.tokens) + 1 /\ Parsed(pos - 1, stack, nodes) /\ codes = <<>>
  BY <1>1 DEF IInv, Trees
<1>5. Len(source.tokens) \in Nat BY <1>3, TextIs
<1>6. PICK n : n = Len(source.tokens) OBVIOUS
<1>7. pos - 1 = n BY <1>1, <1>4, <1>5, <1>6
<1>8. PICK e, a : e = stack /\ a = nodes OBVIOUS
<1>9. Parsed(n, e, a) BY <1>4, <1>7, <1>8
<1>10. Parsed(n, e, a)' BY <1>1, <1>9, ParsedStays
<1>11. Parsed(Len(source.tokens), exprs, nodes)' BY <1>1, <1>6, <1>8, <1>10
<1>12. ASSUME phase' = "fast"
       PROVE  /\ optimal' /\ source'.comparator # "Boolean"
              /\ source'.comparator \in DOMAIN Relation \/ \A i \in DOMAIN exprs' : IsNumber(nodes'[exprs'[i]])
  <2>1. caller.kind # "test" /\ (source.comparator \in DOMAIN Relation \/ IsFast) BY <1>12 DEF Accept
  <2>2. optimal BY <2>1 DEF IInv, Control
  <2>3. "Boolean" \notin DOMAIN Relation BY DEF Relation
  <2> QED BY <1>1, <2>1, <2>2, <2>3 DEF IsFast
<1>13. Trees' BY <1>2, <1>11, <1>12 DEF Trees
<1>14. Control' BY <1>1, <1>2 DEF IInv, Control
<1>15. Generates' BY <1>1, <1>4 DEF Generates
<1>16. Running' /\ TrapsOnlyOnUndefined' BY <1>2 DEF Running, TrapsOnlyOnUndefined
<1> QED BY <1>13, <1>14, <1>15, <1>16 DEF IInv

\* So does every step of the parser.
LEMMA ParseHolds == IInv /\ Parse => IInv'
<1> SUFFICES ASSUME IInv, Parse PROVE IInv' OBVIOUS
<1>1. CASE Reduce
  <2>1. Replaces(nodes, Reduction, Append(nodes, Reduction), Len(nodes) + 1) BY <1>1 DEF Reduce, Replaces
  <2>2. Parsing /\ Pushes(Append(nodes, Reduction), Len(nodes) + 1) BY <1>1 DEF Reduce, Allocates
  <2> QED BY <2>1, <2>2, PushesHolds
<1>2. CASE Fold
  <2>1. PICK w \in Outcomes(FoldsTo(nodes, Reduction)) : Allocates(ASTNumber(w)) BY <1>2 DEF Fold, Outcomes
  <2>2. Parsing /\ Pushes(Append(nodes, ASTNumber(w)), Len(nodes) + 1) BY <1>2, <2>1 DEF Fold, Allocates
  <2>3. Replaces(nodes, Reduction, Append(nodes, ASTNumber(w)), Len(nodes) + 1) BY <1>2, <2>1 DEF Fold, Replaces
  <2> QED BY <2>2, <2>3, PushesHolds
<1>3. CASE Choose
  <2>1. Replaces(nodes, Reduction, nodes, Chosen(nodes, Reduction)) BY <1>3 DEF Choose, Replaces
  <2>2. Parsing /\ Pushes(nodes, Chosen(nodes, Reduction)) BY <1>3 DEF Choose
  <2> QED BY <2>1, <2>2, PushesHolds
<1>4. CASE FoldTraps
  <2>1. /\ source' = source /\ caller' = caller /\ optimal' = optimal /\ todo' = todo /\ codes' = codes
        /\ tested' = tested /\ phase = "parsing" /\ phase' = "trapped"
    BY <1>4 DEF FoldTraps, Parsing, parser
  <2>2. codes = <<>> BY <2>1 DEF IInv, Trees
  <2>3. Control' BY <2>1 DEF IInv, Control
  <2> QED BY <2>1, <2>2, <2>3 DEF IInv, Trees, Generates, Running, TrapsOnlyOnUndefined
<1> QED BY <1>1, <1>2, <1>3, <1>4, AcceptHolds DEF Parse

\* So does the compiler.
LEMMA CompileHolds ==
  ASSUME IInv, Compile
  PROVE  IInv'
<1>1. /\ source' = source /\ caller' = caller /\ optimal' = optimal /\ nodes' = nodes /\ exprs' = exprs
      /\ tested' = tested /\ phase = "compiling" /\ todo' = Tail(todo)
      /\ codes' = Adding(Head(todo), JITCode) /\ phase' = Compiled
  BY DEF Compile, parser
<1>2. phase' \in {"compiling", "ready"} /\ (phase' = "compiling" => Len(todo) > 1) BY <1>1 DEF Compiled
<1>3. todo \in Seq(BOOLEAN) /\ todo # <<>> BY <1>1 DEF IInv, Control
<1>4. Head(todo) \in BOOLEAN /\ Tail(todo) \in Seq(BOOLEAN) /\ (Len(todo) > 1 => Tail(todo) # <<>>)
  <2>1. Head(todo) \in BOOLEAN /\ Tail(todo) \in Seq(BOOLEAN) /\ Len(Tail(todo)) = Len(todo) - 1
    BY <1>3, HeadTailProperties
  <2>2. PICK r : r = Tail(todo) OBVIOUS
  <2>3. Len(todo) > 1 => r # <<>>
    <3>1. Len(<<>>) = 0 /\ Len(todo) \in Nat BY <1>3
    <3>2. Len(r) = Len(todo) - 1 BY <2>1, <2>2
    <3>3. Len(todo) > 1 => Len(r) # 0 BY <3>1, <3>2
    <3> QED BY <3>1, <3>3
  <2> QED BY <2>1, <2>2, <2>3
<1>5. Parsed(Len(source.tokens), exprs, nodes)' /\ JITCode' = JITCode BY <1>1, TreesStay
<1>6. Generates'
  <2>1. \A u \in DOMAIN codes : u \in BOOLEAN /\ codes[u] = JITCode BY <1>1 DEF IInv, Generates
  <2>2. PICK h \in BOOLEAN : h = Head(todo) BY <1>4
  <2>3. \A u \in DOMAIN codes' : (u = h \/ u \in DOMAIN codes) /\ codes'[u] = IF u = h THEN JITCode ELSE codes[u]
    BY <1>1, <2>2 DEF Adding
  <2> QED BY <1>5, <2>1, <2>3 DEF Generates
<1>7. Trees' BY <1>2, <1>5 DEF Trees
<1>8. Control' BY <1>1, <1>2, <1>3, <1>4 DEF IInv, Control
<1>9. Running' /\ TrapsOnlyOnUndefined' BY <1>2 DEF Running, TrapsOnlyOnUndefined
<1> QED BY <1>6, <1>7, <1>8, <1>9 DEF IInv

\* CodeIsSafe as a formula that holds after a step as well.
LEMMA CallableIs ==
  /\ source \in Sources /\ optimal \in BOOLEAN /\ Parsed(Len(source.tokens), exprs, nodes)
  /\ input \in WordsIn /\ sign \in BOOLEAN
  => Called(JITCode.size, input) \in Safe(JobOf(JITCode, sign, Aim))
BY CodeIsSafe

\* So does a call of the code.
LEMMA CallHolds ==
  ASSUME IInv, Call
  PROVE  IInv'
<1>1. /\ source' = source /\ caller' = caller /\ optimal' = optimal /\ nodes' = nodes /\ exprs' = exprs
      /\ tested' = tested /\ phase = "ready" /\ phase' = "running" /\ todo' = todo /\ codes' = codes
      /\ pc' = 1 /\ regs' = [r \in 0 .. 2 |-> Junk]
  BY DEF Call, parser
<1>2. PICK u \in DOMAIN codes :
        /\ sign' = u
        /\ input' \in Inputs
        /\ frame' = [i \in 0 .. codes[u].size - 1 |->
                       CASE i = 0 -> input'.old [] i = 1 -> input'.new
                         [] i = 2 -> input'.addr [] OTHER -> Junk]
  BY DEF Call
<1>3. Parsed(Len(source.tokens), exprs, nodes)' /\ JITCode' = JITCode BY <1>1, TreesStay
<1>4. u \in BOOLEAN /\ codes[u] = JITCode BY <1>1 DEF IInv, Generates
<1>5. Machine' = Called(JITCode.size, input)'
  <2>1. frame' = [i \in 0 .. JITCode'.size - 1 |->
                    CASE i = 0 -> input'.old [] i = 1 -> input'.new
                      [] i = 2 -> input'.addr [] OTHER -> Junk]
    BY <1>2, <1>3, <1>4
  <2> QED BY <1>1, <2>1 DEF Machine, Called
<1>6. input' \in WordsIn BY <1>2, ExpressionAssumption DEF WordsIn
<1>7. source' \in Sources /\ optimal' \in BOOLEAN BY <1>1 DEF IInv, Control
<1>8. (Called(JITCode.size, input) \in Safe(JobOf(JITCode, sign, Aim)))'
  <2>1. ( /\ source \in Sources /\ optimal \in BOOLEAN /\ Parsed(Len(source.tokens), exprs, nodes)
          /\ input \in WordsIn /\ sign \in BOOLEAN
          => Called(JITCode.size, input) \in Safe(JobOf(JITCode, sign, Aim)))'
    BY CallableIs, PTL
  <2> QED BY <1>2, <1>3, <1>4, <1>6, <1>7, <2>1
<1>9. Running' BY <1>1, <1>2, <1>5, <1>8 DEF Running
<1>10. Trees' BY <1>1, <1>3 DEF Trees
<1>11. Generates' BY <1>1, <1>3 DEF IInv, Generates
<1>12. Control' BY <1>1 DEF IInv, Control
<1>13. TrapsOnlyOnUndefined' BY <1>1 DEF TrapsOnlyOnUndefined
<1> QED BY <1>9, <1>10, <1>11, <1>12, <1>13 DEF IInv

\* So does every step.
LEMMA NextHolds == IInv /\ [Next]_vars => IInv'
<1> SUFFICES ASSUME IInv, [Next]_vars PROVE IInv' OBVIOUS
<1>1. CASE Parse BY <1>1, ParseHolds
<1>2. CASE Execute BY <1>2, ExecuteSafe
<1>3. CASE Compile BY <1>3, CompileHolds
<1>4. CASE Call BY <1>4, CallHolds
<1>5. CASE CompileMoved
  <2>1. /\ source' = source /\ caller' = caller /\ optimal' = optimal /\ todo' = todo
        /\ tested' = tested /\ phase = "compiling" /\ phase' = "crashed"
    BY <1>5 DEF CompileMoved, parser
  <2>2. Control' BY <2>1 DEF IInv, Control
  <2> QED BY <2>1, <2>2 DEF IInv, Trees, Generates, Running, TrapsOnlyOnUndefined
<1>6. CASE CompareFast
  <2>1. /\ source' = source /\ caller' = caller /\ optimal' = optimal /\ todo' = todo
        /\ phase = "fast" /\ phase' = "done"
    BY <1>6 DEF CompareFast, parser
  <2>2. Control' BY <2>1 DEF IInv, Control
  <2> QED BY <2>1, <2>2 DEF IInv, Trees, Generates, Running, TrapsOnlyOnUndefined
<1>7. CASE UNCHANGED vars
  <2>1. /\ source' = source /\ caller' = caller /\ optimal' = optimal /\ input' = input /\ nodes' = nodes
        /\ exprs' = exprs /\ todo' = todo /\ codes' = codes /\ sign' = sign /\ tested' = tested
        /\ stack' = stack /\ pos' = pos /\ phase' = phase /\ Machine' = Machine
    BY <1>7 DEF vars, parser, machine, Machine
  <2>2. Meaning' = Meaning BY <2>1, MeaningStays
  <2>3. Aim' = Aim /\ (NegatesConstants' <=> NegatesConstants) BY <2>1, <2>2, NegatesStays DEF Aim
  <2>4. JITCode' = JITCode BY <2>1 DEF JITCode
  <2>5. Control' BY <2>1 DEF IInv, Control
  <2>6. Trees'
    <3>1. PICK n, k, e, a, s : n = Len(source.tokens) /\ k = pos - 1 /\ e = exprs /\ a = nodes /\ s = stack
      OBVIOUS
    <3>2. phase = "parsing" => Parsed(k, s, a)' BY <2>1, <3>1, ParsedStays DEF IInv, Trees
    <3>3. phase \in {"compiling", "ready", "running", "fast"} => Parsed(n, e, a)'
      BY <2>1, <3>1, ParsedStays DEF IInv, Trees
    <3> QED BY <2>1, <3>1, <3>2, <3>3 DEF IInv, Trees
  <2>7. Generates' BY <2>1, <2>4 DEF IInv, Generates
  <2>8. Running' BY <2>1, <2>3, <2>4 DEF IInv, Running
  <2>9. NegatesConstants' => TrapsOnlyOnUndefined' BY <2>1, <2>2, <2>3 DEF IInv, TrapsOnlyOnUndefined
  <2> QED BY <2>5, <2>6, <2>7, <2>8, <2>9 DEF IInv
<1> QED BY <1>1, <1>2, <1>3, <1>4, <1>5, <1>6, <1>7 DEF Next

\* The invariant of the texts, trees, code and machine: IInv holds throughout.
THEOREM Invariance == Spec => []IInv
<1> QED BY InitHolds, NextHolds, PTL DEF Spec

\* The properties of the code follow from the invariant.
LEMMA IInvShows == IInv => OperandsReady /\ (NegatesConstants => TrapsOnlyOnUndefined /\ ResultIsMeaning)
<1> SUFFICES ASSUME IInv PROVE OperandsReady /\ (NegatesConstants => TrapsOnlyOnUndefined /\ ResultIsMeaning)
  OBVIOUS
<1>1. PICK k : k = JobOf(JITCode, sign, Aim) OBVIOUS
<1>2. ASSUME phase = "running", pc <= Len(Body)
      PROVE  CASE Instr.op = "mov"  -> /\ Held(Instr.a) # Junk
                                       /\ Instr.dst[1] = "slot" => Instr.dst[2] \in DOMAIN frame
               [] Instr.op = "jump" -> TRUE
               [] OTHER             -> Held(Instr.a) # Junk /\ Held(Instr.b) # Junk
  <2>1. k.body = Body /\ Allowed(k, Machine, Safe(k)) /\ Machine.pc = pc
        /\ Len(Body) \in Nat /\ pc \in Nat
    BY <1>1, <1>2, RunningIs
  <2>2. ~(Machine.pc > Len(k.body)) BY <1>2, <2>1
  <2>3. k.body[Machine.pc] = Instr /\ Machine.frame = frame BY <2>1 DEF Instr, Machine
  <2>4. At(Machine, Instr.a) = Held(Instr.a) /\ At(Machine, Instr.b) = Held(Instr.b) BY HeldIs
  <2>5. CASE Moves(k, Machine, Safe(k)) BY <2>3, <2>4, <2>5 DEF Moves
  <2>6. CASE Computes(k, Machine, Safe(k)) BY <2>3, <2>4, <2>6 DEF Computes
  <2>7. CASE Branches(k, Machine, Safe(k)) BY <2>3, <2>4, <2>7 DEF Branches
  <2>8. CASE Jumps(k, Machine, Safe(k)) BY <2>3, <2>8 DEF Jumps
  <2> QED BY <2>1, <2>2, <2>5, <2>6, <2>7, <2>8 DEF Allowed
<1>3. ASSUME NegatesConstants, AtReturn PROVE Meaning \in {Undef, regs[0]}
  <2>1. phase = "running" /\ pc > Len(Body) BY <1>3 DEF AtReturn
  <2>2. k.body = Body /\ k.value = Aim /\ Allowed(k, Machine, Safe(k)) /\ Machine.pc = pc
    BY <1>1, <2>1, RunningIs
  <2>3. Returns(k, Machine) BY <2>1, <2>2 DEF Allowed
  <2> QED BY <1>3, <2>2, <2>3 DEF Returns, Aim, Machine
<1> QED BY <1>2, <1>3 DEF OperandsReady, ResultIsMeaning, IInv
-------------------------------------------------------------------------------
(***************************************************************************)
(* Numbers of a type and the words they fit in.                            *)
(***************************************************************************)
LEMMA CastIs ==
  ASSUME NEW T \in NumberType, NEW w \in Words
  PROVE  /\ LowBits(T, w) \in 0 .. Pow2[T.bits] - 1 /\ Cast(T, w) \in Int
         /\ LowBits(T, Cast(T, w)) = LowBits(T, w)
         /\ Wrapped(Cast(T, w)) = w =>
              /\ Cast(T, w) = IF T.unsigned THEN w ELSE AsSigned(w)
              /\ w = IF T.unsigned \/ LowBits(T, w) < Pow2[T.bits - 1] THEN LowBits(T, w)
                     ELSE LowBits(T, w) + (Pow2[WordBits] - Pow2[T.bits])
<1>1. PICK b \in 1 .. WordBits : b = T.bits BY DEF NumberType
<1>2. WordBits \in 1 .. WordBits /\ b - 1 \in 0 .. WordBits /\ b \in 0 .. WordBits /\ WordBits - 1 \in 0 .. WordBits
      /\ b - 1 <= WordBits - 1 /\ b <= WordBits /\ WordBits \in 0 .. WordBits
  OBVIOUS
<1>3. PICK h \in Nat \ {0}, p \in Nat \ {0}, H \in Nat \ {0}, M \in Nat \ {0} :
        h = Pow2[b - 1] /\ p = Pow2[b] /\ H = Pow2[WordBits - 1] /\ M = Pow2[WordBits]
  BY <1>2, PowIs
<1>4. p = 2 * h /\ M = 2 * H BY <1>2, <1>3, PowIs
<1>5. h <= H /\ p <= M BY <1>2, <1>3, PowGrows
<1>6. w \in 0 .. M - 1 BY <1>3 DEF Words
<1>7. PICK x \in 0 .. p - 1 : x = w % p BY <1>3, <1>6
<1>8. LowBits(T, w) = x BY <1>1, <1>3, <1>7 DEF LowBits
<1>9. PICK c \in Int : c = IF T.unsigned \/ x < h THEN x ELSE x - p BY <1>3, <1>7
<1>10. Cast(T, w) = c BY <1>1, <1>3, <1>8, <1>9 DEF Cast
<1>11. LowBits(T, c) = x
  <2>1. c = x \/ c = x - p BY <1>9
  <2>2. x % p = x /\ (x - p) % p = x BY <1>3, <1>7
  <2> QED BY <1>1, <1>3, <2>1, <2>2 DEF LowBits
<1>12. Wrapped(c) = c % M /\ AsSigned(w) = IF w < H THEN w ELSE w - M BY <1>3 DEF Wrapped, AsSigned
<1>13. ASSUME c % M = w
       PROVE  /\ c = IF T.unsigned THEN w ELSE IF w < H THEN w ELSE w - M
              /\ w = IF T.unsigned \/ x < h THEN x ELSE x + (M - p)
  <2>1. CASE T.unsigned \/ x < h
    <3>1. c = x /\ x \in 0 .. M - 1 BY <1>3, <1>5, <1>7, <1>9, <2>1
    <3>2. x % M = x BY <1>3, <3>1
    <3>3. w = x BY <1>13, <3>1, <3>2
    <3>4. ~T.unsigned => w < H BY <1>3, <1>5, <1>7, <2>1, <3>3
    <3> QED BY <2>1, <3>1, <3>3, <3>4
  <2>2. CASE ~(T.unsigned \/ x < h)
    <3>1. c = x - p /\ x >= h BY <1>3, <1>7, <1>9, <2>2
    <3>2. x - p + M \in 0 .. M - 1 /\ x - p + M >= H BY <1>3, <1>4, <1>5, <1>7, <3>1
    <3>3. (x - p) % M = x - p + M
      <4>1. PICK y \in 0 .. M - 1 : y = x - p + M BY <3>2
      <4>2. (y - M) % M = y BY <1>3, <4>1
      <4>3. y - M = x - p BY <1>3, <1>7, <4>1
      <4> QED BY <4>1, <4>2, <4>3
    <3>4. w = x - p + M BY <1>13, <3>1, <3>3
    <3> QED BY <1>3, <1>7, <2>2, <3>1, <3>2, <3>4
  <2> QED BY <2>1, <2>2
<1> QED BY <1>1, <1>3, <1>7, <1>8, <1>10, <1>11, <1>12, <1>13

\* Adding a multiple of a higher power leaves the low bits alone ...
LEMMA LowBitsStay ==
  ASSUME NEW b \in 1 .. WordBits, NEW x \in Nat, NEW i \in 0 .. b - 1
  PROVE  ((x + (Pow2[WordBits] - Pow2[b])) \div Pow2[i]) % 2 = (x \div Pow2[i]) % 2
<1> DEFINE Stays(k, c, n, y) == ((y + (Pow2[n] - Pow2[c])) \div Pow2[k]) % 2 = (y \div Pow2[k]) % 2
           G == {k \in 0 .. WordBits : \A c \in k + 1 .. WordBits : \A n \in c .. WordBits : \A y \in Nat : Stays(k, c, n, y)}
<1>1. 0 \in G
  <2> SUFFICES ASSUME NEW c \in 1 .. WordBits, NEW n \in c .. WordBits, NEW y \in Nat PROVE Stays(0, c, n, y)
    OBVIOUS
  <2>1. n \in 1 .. WordBits /\ c - 1 \in 0 .. WordBits /\ n - 1 \in 0 .. WordBits /\ c - 1 <= n - 1 OBVIOUS
  <2>2. PICK p \in Nat \ {0}, q \in Nat \ {0} : p = Pow2[c - 1] /\ q = Pow2[n - 1] BY <2>1, PowIs
  <2>3. Pow2[c] = 2 * p /\ Pow2[n] = 2 * q /\ Pow2[0] = 1 BY <2>1, <2>2, PowIs
  <2>4. p <= q BY <2>1, <2>2, PowGrows
  <2>5. (y + (2 * q - 2 * p)) % 2 = y % 2 BY <2>2
  <2>6. y \div 1 = y /\ (y + (2 * q - 2 * p)) \div 1 = y + (2 * q - 2 * p) BY <2>2, <2>4
  <2> QED BY <2>3, <2>5, <2>6
<1>2. ASSUME NEW k \in 1 .. WordBits, k - 1 \in G PROVE k \in G
  <2> SUFFICES ASSUME NEW c \in k + 1 .. WordBits, NEW n \in c .. WordBits, NEW y \in Nat PROVE Stays(k, c, n, y)
    OBVIOUS
  <2>1. /\ n \in 1 .. WordBits /\ c \in 1 .. WordBits /\ c - 1 \in 0 .. WordBits /\ n - 1 \in 0 .. WordBits
        /\ c - 1 <= n - 1 /\ c - 1 \in (k - 1) + 1 .. WordBits /\ n - 1 \in c - 1 .. WordBits
    OBVIOUS
  <2>2. PICK p \in Nat \ {0}, q \in Nat \ {0} : p = Pow2[c - 1] /\ q = Pow2[n - 1] BY <2>1, PowIs
  <2>3. Pow2[c] = 2 * p /\ Pow2[n] = 2 * q BY <2>1, <2>2, PowIs
  <2>4. p <= q BY <2>1, <2>2, PowGrows
  <2>5. PICK z \in Nat : z = y + (2 * q - 2 * p) BY <2>2, <2>4
  <2>6. z \div 2 = y \div 2 + (q - p) /\ y \div 2 \in Nat
    <3>1. PICK r \in Nat : r = q - p BY <2>2, <2>4
    <3>2. z = y + 2 * r BY <2>2, <2>5, <3>1
    <3>3. (y + 2 * r) \div 2 = y \div 2 + r /\ y \div 2 \in Nat OBVIOUS
    <3> QED BY <3>1, <3>2, <3>3
  <2>7. z \div Pow2[k] = (z \div 2) \div Pow2[k - 1] /\ y \div Pow2[k] = (y \div 2) \div Pow2[k - 1] BY HalfIs
  <2>8. Stays(k - 1, c - 1, n - 1, y \div 2) BY <1>2, <2>1, <2>6
  <2> QED BY <2>2, <2>3, <2>5, <2>6, <2>7, <2>8
<1> HIDE DEF G
<1>3. \A k \in 0 .. WordBits : k \in G
  <2>1. WordBits \in Nat OBVIOUS
  <2> QED BY <1>1, <1>2, <2>1, EveryPlace, Zenon
<1>4. i \in G BY <1>3
<1>5. b \in i + 1 .. WordBits /\ WordBits \in b .. WordBits OBVIOUS
<1> QED BY <1>4, <1>5 DEF G

\* ... and above a number that is nearly as large all of them are set.
LEMMA HighBitsAreSet ==
  ASSUME NEW n \in 1 .. WordBits, NEW i \in 0 .. n - 1, NEW w \in (Pow2[n] - Pow2[i]) .. Pow2[n] - 1
  PROVE  (w \div Pow2[i]) % 2 = 1
<1> DEFINE IsSet(k, y) == (y \div Pow2[k]) % 2 = 1
           G == {k \in 0 .. WordBits : \A m \in k + 1 .. WordBits : \A y \in (Pow2[m] - Pow2[k]) .. Pow2[m] - 1 : IsSet(k, y)}
<1>1. 0 \in G
  <2> SUFFICES ASSUME NEW m \in 1 .. WordBits, NEW y \in (Pow2[m] - Pow2[0]) .. Pow2[m] - 1 PROVE IsSet(0, y)
    OBVIOUS
  <2>1. PICK p \in Nat \ {0} : p = Pow2[m - 1] /\ Pow2[m] = 2 * p /\ Pow2[0] = 1 BY PowIs
  <2>2. y = 2 * p - 1 BY <2>1
  <2>3. y \div 1 = y /\ y % 2 = 1 BY <2>1, <2>2
  <2> QED BY <2>1, <2>3
<1>2. ASSUME NEW k \in 1 .. WordBits, k - 1 \in G PROVE k \in G
  <2> SUFFICES ASSUME NEW m \in k + 1 .. WordBits, NEW y \in (Pow2[m] - Pow2[k]) .. Pow2[m] - 1 PROVE IsSet(k, y)
    OBVIOUS
  <2>1. m \in 1 .. WordBits /\ m - 1 \in 0 .. WordBits /\ k - 1 \in 0 .. WordBits /\ k - 1 <= m - 1
        /\ m - 1 \in (k - 1) + 1 .. WordBits
    OBVIOUS
  <2>2. PICK p \in Nat \ {0}, q \in Nat \ {0} : p = Pow2[k - 1] /\ q = Pow2[m - 1] BY <2>1, PowIs
  <2>3. Pow2[k] = 2 * p /\ Pow2[m] = 2 * q BY <2>1, <2>2, PowIs
  <2>4. p <= q BY <2>1, <2>2, PowGrows
  <2>5. y \in Nat /\ y >= 2 * q - 2 * p /\ y <= 2 * q - 1 BY <2>2, <2>3, <2>4
  <2>6. y \div 2 \in (q - p) .. q - 1 BY <2>2, <2>5
  <2>7. y \div Pow2[k] = (y \div 2) \div Pow2[k - 1] BY <2>5, HalfIs
  <2>8. IsSet(k - 1, y \div 2) BY <1>2, <2>1, <2>2, <2>6
  <2> QED BY <2>7, <2>8
<1> HIDE DEF G
<1>3. \A k \in 0 .. WordBits : k \in G
  <2>1. WordBits \in Nat OBVIOUS
  <2> QED BY <1>1, <1>2, <2>1, EveryPlace, Zenon
<1>4. i \in G /\ n \in i + 1 .. WordBits BY <1>3
<1> QED BY <1>4 DEF G

\* The bits of a word that fits are the low ones and copies of the sign.
Copies(T, w) == ~T.unsigned /\ LowBits(T, w) >= Pow2[T.bits - 1]

\* The bits of a word that survives a cast to a number type.
LEMMA FittingBits ==
  ASSUME NEW T \in NumberType, NEW w \in Words, Wrapped(Cast(T, w)) = w
  PROVE  /\ BitsOf(w) = BitsOf(LowBits(T, w)) \union (IF Copies(T, w) THEN T.bits .. WordBits - 1 ELSE {})
         /\ BitsOf(LowBits(T, w)) \subseteq 0 .. T.bits - 1
         /\ ~T.unsigned => (Copies(T, w) <=> T.bits - 1 \in BitsOf(LowBits(T, w)))
<1>1. PICK b \in 1 .. WordBits : b = T.bits BY DEF NumberType
<1>2. b - 1 \in 0 .. WordBits /\ b \in 0 .. WordBits /\ WordBits \in 1 .. WordBits /\ WordBits \in 0 .. WordBits
  OBVIOUS
<1>3. PICK h \in Nat \ {0}, p \in Nat \ {0}, M \in Nat \ {0} :
        h = Pow2[b - 1] /\ p = Pow2[b] /\ M = Pow2[WordBits]
  BY <1>2, PowIs
<1>13. p = 2 * h BY <1>2, <1>3, PowIs
<1>14. b <= WordBits OBVIOUS
<1>4. h <= p /\ p <= M
  <2>1. p <= M BY <1>2, <1>3, <1>14, PowGrows
  <2> QED BY <1>3, <1>13, <2>1
<1>5. PICK x \in 0 .. p - 1 : x = LowBits(T, w) BY <1>1, <1>3, CastIs
<1>6. w = IF ~Copies(T, w) THEN x ELSE x + (M - p)
  <2>1. w = IF T.unsigned \/ x < h THEN x ELSE x + (M - p) BY <1>1, <1>3, <1>5, CastIs
  <2>2. Copies(T, w) <=> ~(T.unsigned \/ x < h) BY <1>1, <1>3, <1>5 DEF Copies
  <2> QED BY <2>1, <2>2
<1>7. ASSUME NEW i \in 0 .. WordBits - 1
      PROVE  /\ i \in BitsOf(w) <=> (w \div Pow2[i]) % 2 = 1
             /\ i \in BitsOf(x) <=> (x \div Pow2[i]) % 2 = 1
             /\ Pow2[i] \in Nat \ {0}
  BY PowIs DEF BitsOf
<1>8. ASSUME NEW i \in b .. WordBits - 1 PROVE i \notin BitsOf(x)
  <2>1. i \in 0 .. WordBits - 1 /\ i \in 0 .. WordBits /\ b <= i OBVIOUS
  <2>2. PICK q \in Nat \ {0} : q = Pow2[i] BY <1>7, <2>1
  <2>6. p <= q BY <1>2, <1>3, <2>1, <2>2, PowGrows
  <2>3. x < q BY <1>3, <2>2, <2>6
  <2>4. x \div q = 0 BY <2>3
  <2>5. (x \div q) % 2 = 0 BY <2>4
  <2> QED BY <1>7, <2>1, <2>2, <2>5
<1>9. BitsOf(x) \subseteq 0 .. b - 1
  <2>1. BitsOf(x) \subseteq 0 .. WordBits - 1 BY DEF BitsOf
  <2>2. \A i \in 0 .. WordBits - 1 : i \in 0 .. b - 1 \/ i \in b .. WordBits - 1 OBVIOUS
  <2> QED BY <1>8, <2>1, <2>2
<1>10. ~T.unsigned => (Copies(T, w) <=> b - 1 \in BitsOf(x))
  <2>1. b - 1 \in 0 .. WordBits - 1 OBVIOUS
  <2>2. b - 1 \in BitsOf(x) <=> (x \div h) % 2 = 1 BY <1>3, <1>7, <2>1
  <2>3. (x \div h) % 2 = 1 <=> x >= h
    <3>1. CASE x >= h
      <4>1. x \in h .. 2 * h - 1 BY <1>3, <1>13, <3>1
      <4>2. x \div h = 1 BY <4>1
      <4> QED BY <3>1, <4>2
    <3>2. CASE x < h
      <4>1. x \div h = 0 BY <3>2
      <4> QED BY <3>2, <4>1
    <3> QED BY <1>3, <3>1, <3>2
  <2> QED BY <1>1, <1>3, <1>5, <2>2, <2>3 DEF Copies
<1>11. CASE ~Copies(T, w) BY <1>1, <1>5, <1>6, <1>9, <1>10, <1>11
<1>12. CASE Copies(T, w)
  <2>1. w = x + (M - p) /\ x >= h BY <1>1, <1>3, <1>5, <1>6, <1>12 DEF Copies
  <2>2. ASSUME NEW i \in 0 .. b - 1 PROVE i \in BitsOf(w) <=> i \in BitsOf(x)
    <3>1. i \in 0 .. WordBits - 1 OBVIOUS
    <3>3. x \in Nat BY <1>3
    <3>4. ((x + (Pow2[WordBits] - Pow2[b])) \div Pow2[i]) % 2 = (x \div Pow2[i]) % 2 BY <3>3, LowBitsStay
    <3>2. (w \div Pow2[i]) % 2 = (x \div Pow2[i]) % 2 BY <1>3, <2>1, <3>4
    <3> QED BY <1>7, <3>1, <3>2
  <2>3. ASSUME NEW i \in b .. WordBits - 1 PROVE i \in BitsOf(w)
    <3>1. i \in 0 .. WordBits - 1 /\ i \in 0 .. WordBits /\ b - 1 <= i OBVIOUS
    <3>2. PICK q \in Nat \ {0} : q = Pow2[i] BY <1>7, <3>1
    <3>3. h <= q BY <1>2, <1>3, <3>1, <3>2, PowGrows
    <3>4. w \in (M - q) .. M - 1 BY <1>3, <1>4, <1>13, <2>1, <3>3
    <3>5. (w \div Pow2[i]) % 2 = 1 BY <1>2, <1>3, <3>1, <3>2, <3>4, HighBitsAreSet
    <3> QED BY <1>7, <3>1, <3>5
  <2>4. BitsOf(w) = BitsOf(x) \union (b .. WordBits - 1)
    <3>1. BitsOf(w) \subseteq 0 .. WordBits - 1 BY DEF BitsOf
    <3>2. \A i \in 0 .. WordBits - 1 : i \in 0 .. b - 1 \/ i \in b .. WordBits - 1 OBVIOUS
    <3> QED BY <1>9, <2>2, <2>3, <3>1, <3>2
  <2> QED BY <1>1, <1>5, <1>9, <1>10, <1>12, <2>4
<1> QED BY <1>11, <1>12

\* Whether the masked bits of two words agree is seen from the low bits.
LEMMA MaskIs ==
  ASSUME NEW T \in NumberType, NEW x \in Words, NEW y \in Words, NEW m \in Words,
         Wrapped(Cast(T, x)) = x, Wrapped(Cast(T, y)) = y, Wrapped(Cast(T, m)) = m
  PROVE  (x & m) = (y & m) <=> (LowBits(T, x) & LowBits(T, m)) = (LowBits(T, y) & LowBits(T, m))
<1> DEFINE L(w) == BitsOf(LowBits(T, w))
           H(w) == IF Copies(T, w) THEN T.bits .. WordBits - 1 ELSE {}
<1>1. PICK b \in 1 .. WordBits : b = T.bits BY DEF NumberType
<1>2. ASSUME NEW w \in {x, y, m}
      PROVE  /\ BitsOf(w) = L(w) \union H(w) /\ L(w) \subseteq 0 .. b - 1
             /\ H(w) \subseteq b .. WordBits - 1 /\ H(w) \in {{}, b .. WordBits - 1}
             /\ H(w) # {} => b - 1 \in L(w)
             /\ b .. WordBits - 1 # {} /\ ~T.unsigned /\ b - 1 \in L(w) => H(w) = b .. WordBits - 1
             /\ T.unsigned => H(w) = {}
  <2>1. w \in Words /\ Wrapped(Cast(T, w)) = w OBVIOUS
  <2>2. /\ BitsOf(w) = L(w) \union H(w)
        /\ L(w) \subseteq 0 .. b - 1 /\ (~T.unsigned => (Copies(T, w) <=> b - 1 \in L(w)))
    BY <1>1, <2>1, FittingBits
  <2>3. T.unsigned => ~Copies(T, w) BY DEF Copies
  <2> QED BY <1>1, <2>2, <2>3
<1>3. /\ BitsOf(x & m) = BitsOf(x) \intersect BitsOf(m) /\ BitsOf(y & m) = BitsOf(y) \intersect BitsOf(m)
      /\ BitsOf(LowBits(T, x) & LowBits(T, m)) = L(x) \intersect L(m)
      /\ BitsOf(LowBits(T, y) & LowBits(T, m)) = L(y) \intersect L(m)
      /\ x & m \in Words /\ y & m \in Words
      /\ LowBits(T, x) & LowBits(T, m) \in Words /\ LowBits(T, y) & LowBits(T, m) \in Words
  BY BitwiseIs
<1> HIDE DEF L, H
<1>4. PICK D : D = b .. WordBits - 1 /\ D \intersect (0 .. b - 1) = {} OBVIOUS
<1>5. PICK Bx, By, Bm, Hx, Hy, Hm :
        /\ Bx = L(x) /\ By = L(y) /\ Bm = L(m) /\ Hx = H(x) /\ Hy = H(y) /\ Hm = H(m)
  OBVIOUS
<1>6. PICK e : e = b - 1 OBVIOUS
<1>7. /\ Bx \intersect D = {} /\ By \intersect D = {} /\ Bm \intersect D = {}
      /\ Hx \in {{}, D} /\ Hy \in {{}, D} /\ Hm \in {{}, D}
      /\ BitsOf(x) = Bx \union Hx /\ BitsOf(y) = By \union Hy /\ BitsOf(m) = Bm \union Hm
  <2>1. ASSUME NEW w \in {x, y, m} PROVE L(w) \intersect D = {} /\ H(w) \in {{}, D} /\ BitsOf(w) = L(w) \union H(w)
    BY <1>2, <1>4
  <2> QED BY <1>5, <2>1
<1>8. /\ Hx # {} => e \in Bx /\ ~T.unsigned
      /\ Hy # {} => e \in By /\ ~T.unsigned
      /\ Hm # {} => e \in Bm /\ ~T.unsigned
      /\ D # {} /\ ~T.unsigned /\ e \in Bx => Hx = D
      /\ D # {} /\ ~T.unsigned /\ e \in By => Hy = D
  <2>1. ASSUME NEW w \in {x, y, m}
        PROVE  /\ H(w) # {} => e \in L(w) /\ ~T.unsigned
               /\ D # {} /\ ~T.unsigned /\ e \in L(w) => H(w) = D
    BY <1>2, <1>4, <1>6
  <2> QED BY <1>5, <2>1
<1>9. ASSUME Bx \intersect Bm = By \intersect Bm
      PROVE  (Bx \union Hx) \intersect (Bm \union Hm) = (By \union Hy) \intersect (Bm \union Hm)
  <2>1. Hx \intersect Hm = Hy \intersect Hm BY <1>7, <1>8, <1>9
  <2> QED BY <1>7, <1>9, <2>1
<1>10. ASSUME (Bx \union Hx) \intersect (Bm \union Hm) = (By \union Hy) \intersect (Bm \union Hm)
       PROVE  Bx \intersect Bm = By \intersect Bm
  BY <1>7, <1>10
<1>11. (x & m) = (y & m) <=> BitsOf(x) \intersect BitsOf(m) = BitsOf(y) \intersect BitsOf(m)
  BY <1>3, BitsDetermine
<1>12. (LowBits(T, x) & LowBits(T, m)) = (LowBits(T, y) & LowBits(T, m)) <=> Bx \intersect Bm = By \intersect Bm
  BY <1>3, <1>5, BitsDetermine
<1> QED BY <1>7, <1>9, <1>10, <1>11, <1>12
-------------------------------------------------------------------------------
(***************************************************************************)
(* A comparator without code.                                              *)
(***************************************************************************)
\* A word that a number of type T has as its representation.
FitsIn(T, w) == w \in Words /\ Wrapped(Cast(T, w)) = w

\* Whether a range reaches from negative bounds to positive ones.
Spans(c, T, k) == c \in Ranges /\ ~T.unsigned /\ (AsSigned(k[1]) < 0) # (AsSigned(k[2]) < 0)

\* Numbers compare as the words they are stored in.
LEMMA CompareIs ==
  ASSUME NEW T \in NumberType, NEW o \in Comparisons, NEW a, NEW b, FitsIn(T, a), FitsIn(T, b)
  PROVE  Binary(o, a, b, T.unsigned) = Truth(Compares(o, Cast(T, a), Cast(T, b)))
<1>1. Cast(T, a) = (IF T.unsigned THEN a ELSE AsSigned(a)) /\ Cast(T, b) = (IF T.unsigned THEN b ELSE AsSigned(b))
  BY CastIs DEF FitsIn
<1>2. Undef # a /\ Undef # b BY DEF FitsIn
<1>3. o \notin Divisions /\ o \notin Shifts /\ o \notin {"+", "-", "*", "&", "|", "&&", "||"}
  BY DEF Comparisons, Divisions, Shifts
<1>4. T.unsigned \in BOOLEAN BY DEF NumberType
<1>5. CASE T.unsigned = TRUE
  <2>1. Binary(o, a, b, TRUE) = Truth(Compares(o, a, b)) BY <1>2, <1>3 DEF Binary
  <2> QED BY <1>1, <1>5, <2>1
<1>6. CASE T.unsigned = FALSE
  <2>1. Binary(o, a, b, FALSE) = Truth(Compares(o, AsSigned(a), AsSigned(b))) BY <1>2, <1>3 DEF Binary
  <2> QED BY <1>1, <1>6, <2>1
<1> QED BY <1>4, <1>5, <1>6

\* Ranges of numbers are ranges of words, unless the range spans zero.
LEMMA RangeIs ==
  ASSUME NEW T \in NumberType, NEW e, NEW lo, NEW hi, FitsIn(T, e), FitsIn(T, lo), FitsIn(T, hi),
         ~(~T.unsigned /\ (AsSigned(lo) < 0) # (AsSigned(hi) < 0))
  PROVE  e \in lo .. hi <=> Cast(T, e) >= Cast(T, lo) /\ Cast(T, e) <= Cast(T, hi)
<1>1. PICK M \in Nat, P \in Nat : /\ M = 2 * P /\ P > 0 /\ Words = 0 .. M - 1
                                  /\ \A w : AsSigned(w) = IF w < P THEN w ELSE w - M
  BY WordIs
<1>2. e \in 0 .. M - 1 /\ lo \in 0 .. M - 1 /\ hi \in 0 .. M - 1 BY <1>1 DEF FitsIn
<1>3. /\ Cast(T, e) = IF T.unsigned THEN e ELSE AsSigned(e)
      /\ Cast(T, lo) = IF T.unsigned THEN lo ELSE AsSigned(lo)
      /\ Cast(T, hi) = IF T.unsigned THEN hi ELSE AsSigned(hi)
  BY CastIs DEF FitsIn
<1>4. CASE T.unsigned BY <1>1, <1>2, <1>3, <1>4
<1>5. CASE ~T.unsigned
  <2>1. /\ Cast(T, e) = IF e < P THEN e ELSE e - M
        /\ Cast(T, lo) = IF lo < P THEN lo ELSE lo - M
        /\ Cast(T, hi) = IF hi < P THEN hi ELSE hi - M
    BY <1>1, <1>3, <1>5
  <2>2. lo < P <=> hi < P
    <3>1. (AsSigned(lo) < 0) = (AsSigned(hi) < 0) BY <1>5
    <3>2. (AsSigned(lo) < 0 <=> ~(lo < P)) /\ (AsSigned(hi) < 0 <=> ~(hi < P)) BY <1>1, <1>2
    <3> QED BY <3>1, <3>2
  <2> QED BY <1>1, <1>2, <2>1, <2>2
<1> QED BY <1>4, <1>5

\* The verdict on a word that is a number of type T, against constants that are.
LEMMA VerdictIs ==
  ASSUME NEW T \in NumberType, NEW c \in Comparators \ {"Boolean"}, NEW in, FitsIn(T, in.new),
         c \in DOMAIN Relation => FitsIn(T, in.old),
         NEW n, n = Arguments(c), NEW k, \A i \in 1 .. n : FitsIn(T, k[i]), ~Spans(c, T, k),
         NEW rhs, c \in DOMAIN Relation => rhs = <<Cast(T, in.old)>>,
         c \notin DOMAIN Relation => \A i \in 1 .. n : rhs[i] = Cast(T, k[i])
  PROVE  Judged(c, k, in, T.unsigned) = Truth(Verdict(c, T, Cast(T, in.new), rhs))
<1>1. CASE c \in DOMAIN Wrapping
  <2>1. c # "Boolean" /\ c \notin DOMAIN Relation /\ c \notin Ranges /\ c \notin Masks BY <1>1, ComparatorsAre
  <2>2. n = 1 BY <1>1, <2>1 DEF Arguments
  <2>3. FitsIn(T, k[1]) /\ rhs[1] = Cast(T, k[1]) BY <2>1, <2>2
  <2>4. PICK o \in Comparisons : o = Wrapping[c] /\ o = Ordering[c] /\ c \in DOMAIN Ordering
    BY <1>1 DEF Wrapping, Ordering, Comparisons
  <2>5. Binary(o, in.new, k[1], T.unsigned) = Truth(Compares(o, Cast(T, in.new), Cast(T, k[1])))
    BY <2>3, CompareIs
  <2>6. Judged(c, k, in, T.unsigned) = Binary(o, in.new, k[1], T.unsigned) BY <1>1, <2>1, <2>4 DEF Judged
  <2>7. c \notin {"EQ_Mask", "NE_Mask", "EQ_Range", "NE_Range"} BY <2>1 DEF Ranges, Masks
  <2>8. Verdict(c, T, Cast(T, in.new), rhs) = Compares(o, Cast(T, in.new), rhs[1]) BY <2>4, <2>7 DEF Verdict
  <2> QED BY <2>3, <2>5, <2>6, <2>8
<1>2. CASE c \in DOMAIN Relation
  <2>1. c # "Boolean" /\ c \notin DOMAIN Wrapping /\ c \notin Ranges /\ c \notin Masks BY <1>2, ComparatorsAre
  <2>3. FitsIn(T, in.old) /\ rhs[1] = Cast(T, in.old) BY <1>2
  <2>4. PICK o \in Comparisons : o = Relation[c] /\ o = Ordering[c] /\ c \in DOMAIN Ordering
    BY <1>2 DEF Relation, Ordering, Comparisons
  <2>5. Binary(o, in.new, in.old, T.unsigned) = Truth(Compares(o, Cast(T, in.new), Cast(T, in.old)))
    BY <2>3, CompareIs
  <2>6. Judged(c, k, in, T.unsigned) = Binary(o, in.new, in.old, T.unsigned) BY <1>2, <2>1, <2>4 DEF Judged
  <2>7. c \notin {"EQ_Mask", "NE_Mask", "EQ_Range", "NE_Range"} BY <2>1 DEF Ranges, Masks
  <2>8. Verdict(c, T, Cast(T, in.new), rhs) = Compares(o, Cast(T, in.new), rhs[1]) BY <2>4, <2>7 DEF Verdict
  <2> QED BY <2>3, <2>5, <2>6, <2>8
<1>3. CASE c \in Ranges
  <2>1. c # "Boolean" /\ c \notin DOMAIN Wrapping /\ c \notin DOMAIN Relation /\ c \notin Masks BY <1>3, ComparatorsAre
  <2>2. n = 2 BY <1>3, <2>1 DEF Arguments
  <2>3. /\ FitsIn(T, k[1]) /\ rhs[1] = Cast(T, k[1]) /\ FitsIn(T, k[2]) /\ rhs[2] = Cast(T, k[2])
    BY <2>1, <2>2
  <2>4. PICK a, b, e : a = k[1] /\ b = k[2] /\ e = in.new OBVIOUS
  <2>5. e \in a .. b <=> Cast(T, e) >= Cast(T, a) /\ Cast(T, e) <= Cast(T, b)
    BY <1>3, <2>3, <2>4, RangeIs DEF Spans
  <2>6. Judged(c, k, in, T.unsigned) = Truth(e \in a .. b <=> c = "EQ_Range") BY <1>3, <2>1, <2>4 DEF Judged
  <2>7. c \notin DOMAIN Ordering /\ c \notin {"EQ_Mask", "NE_Mask"} /\ c \in {"EQ_Range", "NE_Range"}
    BY <1>3 DEF Ranges, Ordering
  <2>8. Verdict(c, T, Cast(T, e), rhs)
        = ((Cast(T, e) >= Cast(T, a) /\ Cast(T, e) <= Cast(T, b)) # (c = "NE_Range"))
    BY <2>3, <2>4, <2>7 DEF Verdict, ComparatorRange
  <2>9. c = "EQ_Range" <=> ~(c = "NE_Range") BY <2>7
  <2> QED BY <2>4, <2>5, <2>6, <2>8, <2>9 DEF Truth
<1>4. CASE c \in Masks
  <2>1. c # "Boolean" /\ c \notin DOMAIN Wrapping /\ c \notin DOMAIN Relation /\ c \notin Ranges BY <1>4, ComparatorsAre
  <2>2. n = 2 BY <1>4, <2>1 DEF Arguments
  <2>3. /\ FitsIn(T, k[1]) /\ rhs[1] = Cast(T, k[1]) /\ FitsIn(T, k[2]) /\ rhs[2] = Cast(T, k[2])
    BY <2>1, <2>2
  <2>4. PICK a, b, e : a = k[1] /\ b = k[2] /\ e = in.new OBVIOUS
  <2>5. (e & b) = (a & b) <=> (LowBits(T, e) & LowBits(T, b)) = (LowBits(T, a) & LowBits(T, b))
    BY <2>3, <2>4, MaskIs DEF FitsIn
  <2>6. Judged(c, k, in, T.unsigned) = Truth((e & b) = (a & b) <=> c = "EQ_Mask") BY <1>4, <2>1, <2>4 DEF Judged
  <2>7. c \notin DOMAIN Ordering /\ c \in {"EQ_Mask", "NE_Mask"} /\ c \notin {"EQ_Range", "NE_Range"}
    BY <1>4 DEF Masks, Ordering
  <2>8. /\ LowBits(T, Cast(T, e)) = LowBits(T, e) /\ LowBits(T, Cast(T, a)) = LowBits(T, a)
        /\ LowBits(T, Cast(T, b)) = LowBits(T, b)
    BY <2>3, <2>4, CastIs DEF FitsIn
  <2>9. Verdict(c, T, Cast(T, e), rhs)
        = (((LowBits(T, e) & LowBits(T, b)) = (LowBits(T, a) & LowBits(T, b))) # (c = "NE_Mask"))
    BY <2>3, <2>4, <2>7, <2>8 DEF Verdict, ComparatorMask
  <2>10. c = "EQ_Mask" <=> ~(c = "NE_Mask") BY <2>7
  <2> QED BY <2>4, <2>5, <2>6, <2>9, <2>10 DEF Truth
<1> QED BY <1>1, <1>2, <1>3, <1>4, ComparatorsAre

\* What the text means where nothing has to be computed.
LEMMA ConstantMeaning ==
  ASSUME source \in Sources, Parsed(Len(source.tokens), exprs, nodes), NegatesConstants,
         input \in WordsIn, sign \in BOOLEAN, source.comparator # "Boolean",
         source.comparator \in DOMAIN Relation \/ \A i \in DOMAIN exprs : IsNumber(nodes[exprs[i]]),
         NEW k, k = [i \in DOMAIN exprs |-> nodes[exprs[i]].value]
  PROVE  /\ Meaning \in {Undef, Judged(source.comparator, k, input, sign)}
         /\ DOMAIN exprs = 1 .. Arguments(source.comparator)
         /\ source.comparator \notin DOMAIN Relation => \A i \in DOMAIN exprs : k[i] \in Words
<1>1. PICK c \in Comparators : c = source.comparator BY TextIs
<1>2. WellFormed(nodes) /\ exprs \in Seq(1 .. Len(nodes)) /\ Len(exprs) = Arguments(c)
  BY <1>1, TextIs DEF Parsed
<1>3. DOMAIN exprs = 1 .. Len(exprs) BY <1>2
<1>4. PICK val : Valuation(val, nodes, input, sign) BY <1>2, ValuationExists
<1>5. PICK E : E = Evaluation(input, sign)[Len(source.tokens)] OBVIOUS
<1>6. Matches(E, exprs, nodes, val) BY <1>4, <1>5 DEF Parsed
<1>7. c \notin DOMAIN Relation =>
        \A i \in 1 .. Len(exprs) : val[exprs[i]] = nodes[exprs[i]].value /\ nodes[exprs[i]].value \in Words
  <2> SUFFICES ASSUME c \notin DOMAIN Relation, NEW i \in 1 .. Len(exprs)
               PROVE  val[exprs[i]] = nodes[exprs[i]].value /\ nodes[exprs[i]].value \in Words
    OBVIOUS
  <2>1. PICK p \in 1 .. Len(nodes) : p = exprs[i] BY <1>2
  <2>2. IsNumber(nodes[p]) BY <1>1, <1>3, <2>1
  <2>3. val[p] = NodeValue(val, nodes[p], input, sign) BY <1>4, <2>1 DEF Valuation
  <2>4. Parts(nodes[p], 1 .. p - 1) BY <1>2, <2>1, TreeIs
  <2>5. nodes[p].value \in Words BY <2>2, <2>4 DEF Parts, IsNumber
  <2>6. val[p] = nodes[p].value BY <2>2, <2>3 DEF NodeValue, IsNumber
  <2> QED BY <2>1, <2>5, <2>6
<1>11. /\ DOMAIN exprs = 1 .. Arguments(source.comparator)
       /\ source.comparator \notin DOMAIN Relation => \A i \in DOMAIN exprs : k[i] \in Words
  <2>1. \A i \in DOMAIN exprs : k[i] = nodes[exprs[i]].value OBVIOUS
  <2> QED BY <1>1, <1>2, <1>3, <1>7, <2>1
<1> SUFFICES Meaning \in {Undef, Judged(source.comparator, k, input, sign)} BY <1>11, Zenon
<1>8. CASE Meaning = Undef BY <1>8
<1>9. CASE \E v : /\ \A i \in 1 .. Len(exprs) : v[i] = val[exprs[i]] /\ v[i] # Undef
                  /\ Meaning = Judged(c, v, input, sign)
  <2>1. PICK v : /\ \A i \in 1 .. Len(exprs) : v[i] = val[exprs[i]] /\ v[i] # Undef
                 /\ Meaning = Judged(c, v, input, sign)
    BY <1>9
  <2>2. c \notin DOMAIN Relation => \A i \in 1 .. Len(exprs) : v[i] = k[i] BY <1>3, <1>7, <2>1
  <2>3. CASE c \in DOMAIN Relation
    <3>1. c # "Boolean" /\ c \notin DOMAIN Wrapping /\ c \notin Ranges /\ c \notin Masks BY <2>3, ComparatorsAre
    <3>2. Judged(c, v, input, sign) = Judged(c, k, input, sign) BY <2>3, <3>1 DEF Judged
    <3> QED BY <1>1, <2>1, <3>2
  <2>4. CASE c \in DOMAIN Wrapping
    <3>1. c # "Boolean" /\ c \notin DOMAIN Relation /\ c \notin Ranges /\ c \notin Masks BY <2>4, ComparatorsAre
    <3>2. Len(exprs) = 1 BY <1>2, <2>4, <3>1 DEF Arguments
    <3>3. v[1] = k[1] BY <2>2, <3>1, <3>2
    <3>4. Judged(c, v, input, sign) = Judged(c, k, input, sign) BY <2>4, <3>1, <3>3 DEF Judged
    <3> QED BY <1>1, <2>1, <3>4
  <2>5. CASE c \in Ranges \/ c \in Masks
    <3>1. c # "Boolean" /\ c \notin DOMAIN Relation /\ c \notin DOMAIN Wrapping /\ (c \in Ranges => c \notin Masks)
      BY <2>5, ComparatorsAre
    <3>2. Len(exprs) = 2 BY <1>2, <2>5, <3>1 DEF Arguments
    <3>3. v[1] = k[1] /\ v[2] = k[2] BY <2>2, <3>1, <3>2
    <3>4. Judged(c, v, input, sign) = Judged(c, k, input, sign) BY <2>5, <3>1, <3>3 DEF Judged
    <3> QED BY <1>1, <2>1, <3>4
  <2> QED BY <1>1, <2>3, <2>4, <2>5, ComparatorsAre
<1>10. \/ Meaning = Undef
       \/ \E v : /\ \A i \in 1 .. Len(exprs) : v[i] = val[exprs[i]] /\ v[i] # Undef
                 /\ Meaning = Judged(c, v, input, sign)
  BY <1>1, <1>5, <1>6, MeaningCases
<1> QED BY <1>8, <1>9, <1>10

\* The meaning of a comparator whose arguments are constants.
LEMMA ConstantMeaningIs ==
  /\ source \in Sources /\ Parsed(Len(source.tokens), exprs, nodes) /\ NegatesConstants
  /\ input \in WordsIn /\ sign \in BOOLEAN /\ source.comparator # "Boolean"
  /\ source.comparator \in DOMAIN Relation \/ \A i \in DOMAIN exprs : IsNumber(nodes[exprs[i]])
  => /\ Meaning \in {Undef, Judged(source.comparator, [i \in DOMAIN exprs |-> nodes[exprs[i]].value], input, sign)}
     /\ DOMAIN exprs = 1 .. Arguments(source.comparator)
     /\ source.comparator \notin DOMAIN Relation => \A i \in DOMAIN exprs : nodes[exprs[i]].value \in Words
BY ConstantMeaning

\* A comparison without code gives the verdict of the code.
LEMMA FastHolds ==
  ASSUME IInv, CompareFast, NegatesConstants
  PROVE  FastAgrees'
<1>1. /\ source' = source /\ optimal' = optimal /\ nodes' = nodes /\ exprs' = exprs /\ phase = "fast"
  BY DEF CompareFast, parser
<1>2. PICK T \in NumberTypes, old \in Words, new \in Words :
        /\ Wrapped(Cast(T, old)) = old /\ Wrapped(Cast(T, new)) = new
        /\ input' = [old |-> old, new |-> new, addr |-> 0]
        /\ sign' = T.unsigned
        /\ tested' = [type |-> T, verdict |-> Verdict(source.comparator, T, Cast(T, new), Constructed(T))]
  BY DEF CompareFast
<1>3. T \in NumberType /\ T.unsigned \in BOOLEAN BY ExpressionAssumption DEF NumberType
<1>4. PICK in : in = [old |-> old, new |-> new, addr |-> 0] OBVIOUS
<1>5. in.old = old /\ in.new = new /\ in \in WordsIn /\ FitsIn(T, in.old) /\ FitsIn(T, in.new)
  BY <1>2, <1>4, WrappedIs DEF WordsIn, FitsIn
<1>6. PICK c \in Comparators : c = source.comparator BY TextIs DEF IInv, Control
<1>7. c # "Boolean" /\ (c \in DOMAIN Relation \/ \A i \in DOMAIN exprs : IsNumber(nodes[exprs[i]]))
  BY <1>1, <1>6 DEF IInv, Trees
<1>8. PICK k : k = [i \in DOMAIN exprs |-> nodes[exprs[i]].value] OBVIOUS
<1>9. /\ Meaning' \in {Undef, Judged(c, k, in, T.unsigned)}
      /\ DOMAIN exprs = 1 .. Arguments(c)
      /\ c \notin DOMAIN Relation => \A i \in DOMAIN exprs : k[i] \in Words
  <2>1. ( /\ source \in Sources /\ Parsed(Len(source.tokens), exprs, nodes) /\ NegatesConstants
          /\ input \in WordsIn /\ sign \in BOOLEAN /\ source.comparator # "Boolean"
          /\ source.comparator \in DOMAIN Relation \/ \A i \in DOMAIN exprs : IsNumber(nodes[exprs[i]])
          => /\ Meaning \in {Undef, Judged(source.comparator, [i \in DOMAIN exprs |-> nodes[exprs[i]].value], input, sign)}
             /\ DOMAIN exprs = 1 .. Arguments(source.comparator)
             /\ source.comparator \notin DOMAIN Relation => \A i \in DOMAIN exprs : nodes[exprs[i]].value \in Words)'
    BY ConstantMeaningIs, PTL
  <2>2. Parsed(Len(source.tokens), exprs, nodes)' BY <1>1, TreesStay
  <2>3. source' \in Sources /\ NegatesConstants' BY <1>1, NegatesStays DEF IInv, Control
  <2>4. input' = in /\ sign' = T.unsigned /\ in \in WordsIn /\ T.unsigned \in BOOLEAN BY <1>2, <1>3, <1>4, <1>5
  <2> QED BY <1>1, <1>6, <1>7, <1>8, <2>1, <2>2, <2>3, <2>4
<1>10. PICK rhs : rhs = Constructed(T) OBVIOUS
<1>11. /\ c \in DOMAIN Relation => rhs = <<Cast(T, in.old)>>
       /\ c \notin DOMAIN Relation => \A i \in DOMAIN exprs : rhs[i] = Cast(T, k[i])
  BY <1>2, <1>4, <1>5, <1>6, <1>8, <1>10 DEF Constructed
<1>12. tested'.type = T /\ tested'.verdict = Verdict(c, T, Cast(T, in.new), rhs)
  BY <1>2, <1>5, <1>6, <1>10
<1>13. ASSUME \A i \in DOMAIN k : Wrapped(Cast(T, k[i])) = k[i], ~Spans(c, T, k)
       PROVE  Meaning' \in {Undef, Truth(tested'.verdict)}
  <2>1. CASE c \in DOMAIN Relation
    <3>1. PICK n : n = Arguments(c) OBVIOUS
    <3>2. n = 0 BY <2>1, <3>1 DEF Arguments
    <3>3. \A i \in 1 .. n : FitsIn(T, k[i]) BY <3>2
    <3>4. Judged(c, k, in, T.unsigned) = Truth(Verdict(c, T, Cast(T, in.new), rhs))
      BY <1>3, <1>5, <1>7, <1>11, <1>13, <2>1, <3>1, <3>3, VerdictIs
    <3> QED BY <1>9, <1>12, <3>4
  <2>2. CASE c \notin DOMAIN Relation
    <3>1. PICK n : n = Arguments(c) OBVIOUS
    <3>2. \A i \in 1 .. n : FitsIn(T, k[i]) /\ rhs[i] = Cast(T, k[i])
      BY <1>8, <1>9, <1>11, <1>13, <2>2, <3>1 DEF FitsIn
    <3>3. Judged(c, k, in, T.unsigned) = Truth(Verdict(c, T, Cast(T, in.new), rhs))
      BY <1>3, <1>5, <1>7, <1>13, <2>2, <3>1, <3>2, VerdictIs
    <3> QED BY <1>9, <1>12, <3>3
  <2> QED BY <2>1, <2>2
<1>14. k = [i \in DOMAIN exprs |-> nodes[exprs[i]].value]' BY <1>1, <1>8
<1> QED BY <1>1, <1>6, <1>12, <1>13, <1>14 DEF FastAgrees, Spans

FInv == IInv /\ (NegatesConstants => FastAgrees)

\* Every step keeps the invariant and the agreement with the code.
LEMMA FInvNext == FInv /\ [Next]_vars => FInv'
<1> SUFFICES ASSUME FInv, [Next]_vars PROVE FInv' OBVIOUS
<1>1. IInv' BY NextHolds DEF FInv
<1>2. source' = source /\ optimal' = optimal
  BY DEF Next, vars, parser, Parse, Execute, Reduce, Fold, Choose, FoldTraps, Accept, Allocates, Pushes, CompareFast,
         Compile, CompileMoved, Call, ExecMov, ExecAlu, AluTraps, ExecCmp, ExecJump, Return, Unmoved
<1>3. NegatesConstants' <=> NegatesConstants BY <1>2, NegatesStays
<1>4. CASE CompareFast BY <1>1, <1>3, <1>4, FastHolds DEF FInv
<1>5. CASE phase' # "done"
  <2>1. tested' = Junk BY <1>1, <1>5 DEF IInv, Control
  <2> QED BY <1>1, <2>1 DEF FInv, FastAgrees
<1>6. CASE Return
  <2>1. phase = "running" /\ tested' = tested BY <1>6 DEF Return, AtReturn, Unmoved
  <2>2. tested = Junk BY <2>1 DEF FInv, IInv, Control
  <2> QED BY <1>1, <2>1, <2>2 DEF FInv, FastAgrees
<1>7. CASE UNCHANGED vars
  <2>1. Meaning' = Meaning BY <1>7, MeaningStays DEF vars, parser, machine
  <2>2. FastAgrees' <=> FastAgrees BY <1>7, <2>1 DEF vars, parser, machine, FastAgrees
  <2> QED BY <1>1, <1>3, <2>2 DEF FInv
<1>8. CASE Next /\ ~CompareFast /\ ~Return
  <2>1. phase' # "done"
    <3>1. CASE Parse
      <4>1. CASE Accept BY <4>1 DEF Accept
      <4>2. CASE ~Accept
        BY <3>1, <4>2 DEF Parse, Reduce, Fold, Choose, FoldTraps, Allocates, Pushes, Parsing
      <4> QED BY <4>1, <4>2
    <3>2. CASE Execute BY <1>8, <3>2 DEF Execute, ExecMov, ExecAlu, AluTraps, ExecCmp, ExecJump, Runs
    <3>3. CASE Compile \/ CompileMoved \/ Call BY <3>3 DEF Compile, CompileMoved, Call, Compiled
    <3> QED BY <1>8, <3>1, <3>2, <3>3 DEF Next
  <2> QED BY <1>5, <2>1
<1> QED BY <1>4, <1>6, <1>7, <1>8 DEF Next

\* Both hold in the beginning.
LEMMA FInvInit == Init => FInv
BY InitHolds DEF FInv, FastAgrees, Init
-------------------------------------------------------------------------------
\* Whatever the text, the inputs and the sign: every word that the code reads was
\* written before, in a frame that has room for it.
THEOREM ReadsAreReady == Spec => []OperandsReady
<1>1. IInv => OperandsReady BY IInvShows
<1> QED BY <1>1, Invariance, PTL

\* Of a text that negates folded constants only: the code returns what the text
\* means, wherever it means anything.
THEOREM CodeMeansText == Spec => [](NegatesConstants => ResultIsMeaning)
<1>1. IInv => (NegatesConstants => ResultIsMeaning) BY IInvShows
<1> QED BY <1>1, Invariance, PTL

\* Of such a text: the code traps only where the text means nothing.
THEOREM TrapsAreUndefined == Spec => [](NegatesConstants => TrapsOnlyOnUndefined)
<1>1. IInv => (NegatesConstants => TrapsOnlyOnUndefined) BY IInvShows
<1> QED BY <1>1, Invariance, PTL

\* Of such a text: a comparator of a number type gives the verdict the code would
\* give.
THEOREM FastIsCode == Spec => [](NegatesConstants => FastAgrees)
<1>1. FInv => (NegatesConstants => FastAgrees) BY DEF FInv
<1>2. Spec => []FInv BY FInvInit, FInvNext, PTL DEF Spec
<1> QED BY <1>1, <1>2, PTL
===============================================================================
