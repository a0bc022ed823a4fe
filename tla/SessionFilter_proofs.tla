------------------------- MODULE SessionFilter_proofs -------------------------
(***************************************************************************)
(* What a filter and a refresh make of a match list, for any lists, values *)
(* and tests, whatever the target stores or unmaps between the reads.      *)
(***************************************************************************)
EXTENDS SessionFilter, SequenceTheorems, FiniteSetTheorems, WellFoundedInduction, TLAPS

-------------------------------------------------------------------------------
(***************************************************************************)
(* A finite set of numbers in ascending order.                             *)
(***************************************************************************)
\* A set of numbers that is not empty has a least one.
LEMMA LeastInSet ==
  ASSUME NEW S, S \subseteq Nat, S # {}
  PROVE  \E x \in S : \A y \in S : x <= y
<1>1. PICK x \in S : \A y \in S : <<y, x>> \notin OpToRel(<, Nat)
  BY NatLessThanWellFounded, WFMin
<1>2. \A y \in S : ~(y < x)
  <2> SUFFICES ASSUME NEW y \in S, y < x PROVE FALSE OBVIOUS
  <2>1. <<y, x>> \in Nat \X Nat BY <1>1
  <2>2. <<y, x>>[1] < <<y, x>>[2] OBVIOUS
  <2>3. <<y, x>> \in {ss \in Nat \X Nat : ss[1] < ss[2]} BY <2>1, <2>2
  <2> QED BY <1>1, <2>3 DEF OpToRel
<1>3. \A y \in S : x <= y BY <1>2
<1> QED BY <1>3

Ordered(s, S) ==
  /\ s \in [1 .. Cardinality(S) -> S]
  /\ \A i, j \in 1 .. Cardinality(S) : i < j => s[i] < s[j]

\* The largest number goes to the end of the others.
LEMMA OrderGrows ==
  ASSUME NEW n \in Nat, NEW S \in SUBSET (1 .. n), NEW s, Ordered(s, S)
  PROVE  \E t : Ordered(t, S \union {n + 1})
<1> DEFINE c == Cardinality(S)
           T == S \union {n + 1}
           t == [k \in 1 .. c + 1 |-> IF k = c + 1 THEN n + 1 ELSE s[k]]
<1>0. IsFiniteSet(1 .. n) BY FS_Interval
<1>1. IsFiniteSet(S) /\ n + 1 \notin S
  <2>1. n + 1 \notin 1 .. n OBVIOUS
  <2> QED BY <1>0, <2>1, FS_Subset
<1>2. c \in Nat /\ Cardinality(T) = c + 1 BY <1>1, FS_CardinalityType, FS_AddElement
<1> HIDE DEF c
<1>3. /\ s \in [1 .. c -> S]
      /\ \A i, j \in 1 .. c : i < j => s[i] < s[j]
  BY DEF Ordered, c
<1>4. \A k \in 1 .. c + 1 : k = c + 1 \/ k \in 1 .. c BY <1>2
<1>5. \A k \in 1 .. c : s[k] \in S /\ s[k] \in Nat /\ s[k] < n + 1 /\ k # c + 1
  <2> SUFFICES ASSUME NEW k \in 1 .. c
               PROVE  s[k] \in S /\ s[k] \in Nat /\ s[k] < n + 1 /\ k # c + 1
    OBVIOUS
  <2>1. s[k] \in S BY <1>3
  <2>2. s[k] \in 1 .. n BY <2>1
  <2> QED BY <1>2, <2>1, <2>2
<1>6. t \in [1 .. c + 1 -> T] BY <1>4, <1>5
<1>7. \A i, j \in 1 .. c + 1 : i < j => t[i] < t[j]
  <2> SUFFICES ASSUME NEW i \in 1 .. c + 1, NEW j \in 1 .. c + 1, i < j PROVE t[i] < t[j]
    OBVIOUS
  <2>1. i \in 1 .. c BY <1>2
  <2>2. t[i] = s[i] BY <1>5, <2>1
  <2>3. CASE j = c + 1 BY <1>5, <2>1, <2>2, <2>3
  <2>4. CASE j \in 1 .. c BY <1>3, <1>5, <2>1, <2>2, <2>4
  <2> QED BY <1>4, <2>3, <2>4
<1> HIDE DEF t, T
<1>8. Ordered(t, T) BY <1>2, <1>6, <1>7 DEF Ordered
<1> QED BY <1>8 DEF T

\* By the least bound for which it fails.
LEMMA OrderExists ==
  ASSUME NEW n \in Nat, NEW S \in SUBSET (1 .. n)
  PROVE  \E s : Ordered(s, S)
<1> DEFINE Bad == {m \in Nat : \E T \in SUBSET (1 .. m) : \A s : ~Ordered(s, T)}
<1> SUFFICES ASSUME Bad # {} PROVE FALSE OBVIOUS
<1>1. PICK m \in Bad : \A k \in Bad : m <= k BY LeastInSet
<1>2. m \in Nat /\ \E T \in SUBSET (1 .. m) : \A s : ~Ordered(s, T) BY <1>1
<1>3. PICK T \in SUBSET (1 .. m) : \A s : ~Ordered(s, T) BY <1>2
<1>4. m # 0
  <2> SUFFICES ASSUME m = 0 PROVE FALSE OBVIOUS
  <2>1. T = {} BY <1>3
  <2>2. Cardinality(T) = 0 BY <2>1, FS_EmptySet
  <2>3. Ordered([k \in 1 .. 0 |-> 0], T) BY <2>2 DEF Ordered
  <2> QED BY <1>3, <2>3
<1>5. m - 1 \in Nat /\ m - 1 \notin Bad
  <2>1. m - 1 \in Nat /\ ~(m <= m - 1) BY <1>2, <1>4
  <2> QED BY <1>1, <2>1
<1>6. T \ {m} \in SUBSET (1 .. m - 1) BY <1>2
<1>7. PICK s : Ordered(s, T \ {m}) BY <1>5, <1>6
<1>8. CASE m \in T
  <2>1. (T \ {m}) \union {m - 1 + 1} = T BY <1>2, <1>8
  <2>2. \E t : Ordered(t, (T \ {m}) \union {m - 1 + 1}) BY <1>5, <1>6, <1>7, OrderGrows
  <2> QED BY <1>3, <2>1, <2>2
<1>9. CASE m \notin T
  <2>1. T \ {m} = T BY <1>9
  <2> QED BY <1>3, <1>7, <2>1
<1> QED BY <1>8, <1>9

LEMMA InOrderIs ==
  ASSUME NEW n \in Nat, NEW S \in SUBSET (1 .. n)
  PROVE  /\ Cardinality(S) \in Nat
         /\ Ordered(InOrder(S), S)
         /\ \A x \in S : \E k \in 1 .. Cardinality(S) : InOrder(S)[k] = x
<1>0. IsFiniteSet(1 .. n) BY FS_Interval
<1>1. IsFiniteSet(S) /\ Cardinality(S) \in Nat BY <1>0, FS_Subset, FS_CardinalityType
<1>2. PICK t : Ordered(t, S) BY OrderExists
<1> DEFINE P(s) == \A i, j \in DOMAIN s : i < j => s[i] < s[j]
<1>3. t \in [1 .. Cardinality(S) -> S] /\ P(t) BY <1>2 DEF Ordered
<1>4. InOrder(S) \in [1 .. Cardinality(S) -> S] /\ P(InOrder(S))
  <2> HIDE DEF P
  <2>1. InOrder(S) = CHOOSE s \in [1 .. Cardinality(S) -> S] : P(s) BY DEF InOrder, P
  <2> QED BY <1>3, <2>1
<1>5. PICK s : s = InOrder(S) OBVIOUS
<1>6. Ordered(s, S) BY <1>4, <1>5 DEF Ordered
<1>7. s \in Injection(1 .. Cardinality(S), S)
  <2>1. \A i, j \in 1 .. Cardinality(S) : i # j => s[i] # s[j]
    <3> SUFFICES ASSUME NEW i \in 1 .. Cardinality(S), NEW j \in 1 .. Cardinality(S), i # j
                 PROVE  s[i] # s[j]
      OBVIOUS
    <3>1. i < j \/ j < i BY <1>1
    <3>2. s[i] \in 1 .. n /\ s[j] \in 1 .. n BY <1>6 DEF Ordered
    <3> QED BY <1>6, <3>1, <3>2 DEF Ordered
  <2> QED BY <1>6, <2>1 DEF Ordered, Injection, IsInjective
<1>8. s \in Surjection(1 .. Cardinality(S), S)
  <2>1. Cardinality(1 .. Cardinality(S)) = Cardinality(S) BY <1>1, FS_Interval
  <2> QED BY <1>1, <1>7, <2>1, FS_Injection
<1> QED BY <1>1, <1>5, <1>6, <1>8 DEF Surjection

USE ListAssumption, TestAssumption

-------------------------------------------------------------------------------
(***************************************************************************)
(* The invariant.                                                          *)
(***************************************************************************)
Distinct(s) == \A i, j \in 1 .. Len(s) : i # j => s[i].addr # s[j].addr

ListsDistinct == \A x \in TypeSet : Distinct(matches[x]) /\ Distinct(before[x])

\* What can be read now has been held.
NowHeld == test # Idle => \A a \in mapped : <<a, mem[a]>> \in held

\* Entry i of the list that is being read.
Now(i) ==
  IF ~Buffered /\ i <= Len(fetched) THEN [before[Type][i] EXCEPT !.value = fetched[i]]
  ELSE before[Type][i]

CurrentList ==
  Running =>
    /\ Len(List) = Len(before[Type]) /\ Len(fetched) <= Len(List)
    /\ \A i \in 1 .. Len(List) : List[i] = Now(i)
    /\ \A i \in 1 .. Len(fetched) : <<List[i].addr, fetched[i]>> \in held
    /\ ~Suitable(test, Type) => fetched = <<>>

LaterLists ==
  Running => \A k \in tidx + 1 .. Len(Types) : matches[Types[k]] = before[Types[k]]

\* What JudgedByHeldValues and RefreshHonest say of the list of x.
JudgedAt(x) ==
  test.form # "refresh" /\ FullyReached(x) =>
    IF ~Suitable(test, x) THEN matches[x] = before[x]
    ELSE \A i \in 1 .. Len(before[x]) :
           LET m    == before[x][i]
               kept == {k \in 1 .. Len(matches[x]) : matches[x][k].addr = m.addr}
           IN  \E v \in Values :
                 /\ <<m.addr, v>> \in held
                 /\ IF <<m.value, v>> \in Accepts[test][x]
                    THEN \E k \in kept : matches[x][k].value = v
                    ELSE kept = {}

RefreshedAt(x) ==
  test.form = "refresh" =>
    /\ Len(matches[x]) = Len(before[x])
    /\ \A i \in 1 .. Len(before[x]) :
         /\ \/ matches[x][i] = before[x][i]
            \/ <<matches[x][i].addr, matches[x][i].value>> \in held
         /\ x \in Integer /\ i \in Reached(x) =>
              <<before[x][i].addr, matches[x][i].value>> \in held

TreatedLists == \A x \in TypeSet : Treated(x) => JudgedAt(x) /\ RefreshedAt(x)

IInv ==
  TypeOK /\ ListsDistinct /\ NowHeld /\ CurrentList /\ LaterLists /\ TreatedLists

LEMMA TreatedSays == TreatedLists => JudgedByHeldValues /\ RefreshHonest
BY DEF TreatedLists, JudgedAt, RefreshedAt, JudgedByHeldValues, RefreshHonest

LEMMA TypeFacts ==
  /\ Len(Types) \in Nat
  /\ \A k \in 1 .. Len(Types) : Types[k] \in TypeSet
  /\ \A x \in TypeSet : \E k \in 1 .. Len(Types) : x = Types[k]
BY DEF TypeSet

LEMMA InitHolds == Init => IInv
<1> SUFFICES ASSUME Init PROVE IInv OBVIOUS
<1>1. TypeOK
  <2>1. 0 \in 0 .. MaxChanges /\ 0 \in 0 .. MaxCommands OBVIOUS
  <2>2. tidx \in 1 .. Len(Types) + 1 BY TypeFacts DEF Init
  <2>3. matches \in [TypeSet -> Seq(Match)] BY DEF Init
  <2>4. fetched \in Seq(Values) BY DEF Init
  <2> QED BY <2>1, <2>2, <2>3, <2>4 DEF Init, TypeOK
<1>2. ListsDistinct BY DEF Init, ListsDistinct, Distinct
<1>3. test = Idle BY DEF Init
<1> QED
  BY <1>1, <1>2, <1>3
     DEF IInv, NowHeld, CurrentList, LaterLists, TreatedLists, Treated, Running

-------------------------------------------------------------------------------
(***************************************************************************)
(* The steps.                                                              *)
(***************************************************************************)
\* A list that is not touched any more stays judged: less can be read and more
\* has been held.
LEMMA StaysJudged ==
  ASSUME NEW x \in TypeSet, JudgedAt(x), RefreshedAt(x),
         matches'[x] = matches[x], UNCHANGED <<before, test>>,
         mapped' \subseteq mapped, held \subseteq held'
  PROVE  JudgedAt(x)' /\ RefreshedAt(x)'
<1>1. Reached(x)' \subseteq Reached(x) BY DEF Reached
<1>2. Reached(x) \subseteq 1 .. Len(before[x]) BY DEF Reached
<1>3. FullyReached(x)' => FullyReached(x) BY <1>1, <1>2 DEF FullyReached
<1>4. JudgedAt(x)'
  <2> SUFFICES ASSUME (test.form # "refresh")', FullyReached(x)'
               PROVE  (IF ~Suitable(test, x) THEN matches[x] = before[x]
                       ELSE \A i \in 1 .. Len(before[x]) :
                              LET m    == before[x][i]
                                  kept == {k \in 1 .. Len(matches[x]) : matches[x][k].addr = m.addr}
                              IN  \E v \in Values :
                                    /\ <<m.addr, v>> \in held
                                    /\ IF <<m.value, v>> \in Accepts[test][x]
                                       THEN \E k \in kept : matches[x][k].value = v
                                       ELSE kept = {})'
    BY DEF JudgedAt
  <2>1. CASE ~Suitable(test, x) BY <1>3, <2>1 DEF JudgedAt, Suitable
  <2>2. CASE Suitable(test, x) BY <1>3, <2>2 DEF JudgedAt, Suitable
  <2> QED BY <2>1, <2>2
<1>5. RefreshedAt(x)' BY <1>1 DEF RefreshedAt
<1> QED BY <1>4, <1>5

\* A step that leaves the lists and the command alone.
LEMMA StepAside ==
  ASSUME IInv, TypeOK', NowHeld',
         UNCHANGED <<test, tidx, fetched, matches, before>>,
         mapped' \subseteq mapped, held \subseteq held'
  PROVE  IInv'
<1>1. ListsDistinct' BY DEF IInv, ListsDistinct
<1>2. CurrentList'
  <2>1. List' = List /\ Type' = Type BY DEF List, Type
  <2>2. \A i : Now(i)' = Now(i) BY <2>1 DEF Now, Buffered
  <2> QED BY <2>1, <2>2 DEF IInv, CurrentList, Running, Suitable
<1>3. LaterLists' BY DEF IInv, LaterLists, Running
<1>4. TreatedLists'
  <2> SUFFICES ASSUME NEW x \in TypeSet, Treated(x)' PROVE JudgedAt(x)' /\ RefreshedAt(x)'
    BY DEF TreatedLists
  <2>1. Treated(x) BY DEF Treated
  <2> QED BY <2>1, StaysJudged DEF IInv, TreatedLists
<1> QED BY <1>1, <1>2, <1>3, <1>4 DEF IInv

LEMMA BeginHolds == ASSUME IInv, NEW f \in Tests, Begin(f) PROVE IInv'
<1>1. TypeOK'
  <2>1. commands' \in 0 .. MaxCommands BY DEF IInv, TypeOK, Begin
  <2>2. tidx' \in 1 .. Len(Types) + 1 BY TypeFacts DEF Begin
  <2>3. fetched' \in Seq(Values) BY DEF Begin
  <2>4. held' \subseteq Addresses \X Values BY DEF IInv, TypeOK, Begin
  <2> QED BY <2>1, <2>2, <2>3, <2>4 DEF IInv, TypeOK, Begin, targetVars
<1>2. ListsDistinct' BY DEF IInv, ListsDistinct, Begin
<1>3. NowHeld' BY DEF NowHeld, Begin, targetVars
<1>4. CurrentList'
  <2> SUFFICES ASSUME Running' PROVE CurrentList' BY DEF CurrentList
  <2>1. Type' \in TypeSet BY TypeFacts DEF Type, Running, Begin
  <2>2. Len(fetched') = 0 /\ fetched' = <<>> BY DEF Begin
  <2>3. before'[Type'] = List' BY DEF Begin, List
  <2>4. Len(List') \in Nat BY <2>1 DEF IInv, TypeOK, Begin, List
  <2>5. ASSUME NEW i \in 1 .. Len(List') PROVE Now(i)' = List'[i]
    BY <2>2, <2>3 DEF Now
  <2> QED BY <2>2, <2>3, <2>4, <2>5 DEF CurrentList
<1>5. LaterLists' BY DEF LaterLists, Begin
<1>6. TreatedLists'
  <2>1. \A x : ~Treated(x)' BY DEF Treated, Begin
  <2> QED BY <2>1 DEF TreatedLists
<1> QED BY <1>1, <1>2, <1>3, <1>4, <1>5, <1>6 DEF IInv

LEMMA TypesDiffer ==
  \A i, j \in 1 .. Len(Types) : i # j => Types[i] # Types[j]
OBVIOUS

\* The current list is dealt with, and the next one taken.
LEMMA NextList ==
  ASSUME IInv, Running, TypeOK', tidx' = tidx + 1, fetched' = <<>>,
         UNCHANGED <<mem, mapped, test, before, held>>,
         NEW x \in TypeSet, x = Type,
         \A y \in TypeSet : y # x => matches'[y] = matches[y],
         Distinct(matches'[x]), JudgedAt(x)', RefreshedAt(x)'
  PROVE  IInv'
<1>1. tidx \in 1 .. Len(Types) /\ Len(Types) \in Nat
  BY TypeFacts DEF IInv, TypeOK, Running
<1>2. ListsDistinct' BY DEF IInv, ListsDistinct
<1>3. NowHeld' BY DEF IInv, NowHeld
<1>4. \A k \in tidx + 1 .. Len(Types) : matches'[Types[k]] = before'[Types[k]]
  <2> SUFFICES ASSUME NEW k \in tidx + 1 .. Len(Types)
               PROVE  matches'[Types[k]] = before'[Types[k]]
    OBVIOUS
  <2>1. k \in 1 .. Len(Types) /\ k # tidx BY <1>1
  <2>2. Types[k] \in TypeSet /\ Types[k] # x BY <1>1, <2>1, TypeFacts, TypesDiffer DEF Type
  <2> QED BY <2>2 DEF IInv, LaterLists
<1>5. LaterLists'
  <2>1. \A k \in tidx' + 1 .. Len(Types) : k \in tidx + 1 .. Len(Types) BY <1>1
  <2> QED BY <1>4, <2>1 DEF LaterLists
<1>6. CurrentList'
  <2> SUFFICES ASSUME Running' PROVE CurrentList' BY DEF CurrentList
  <2>1. tidx' \in tidx + 1 .. Len(Types) /\ tidx' \in 1 .. Len(Types)
    BY <1>1 DEF Running
  <2>2. Type' \in TypeSet BY <2>1, TypeFacts DEF Type
  <2>3. before'[Type'] = List' BY <1>4, <2>1 DEF List, Type
  <2>4. Len(fetched') = 0 OBVIOUS
  <2>5. Len(List') \in Nat BY <2>2 DEF TypeOK, List
  <2>6. ASSUME NEW i \in 1 .. Len(List') PROVE Now(i)' = List'[i]
    BY <2>3, <2>4 DEF Now
  <2> QED BY <2>3, <2>4, <2>5, <2>6 DEF CurrentList
<1>7. TreatedLists'
  <2> SUFFICES ASSUME NEW y \in TypeSet, Treated(y)' PROVE JudgedAt(y)' /\ RefreshedAt(y)'
    BY DEF TreatedLists
  <2>1. CASE y = x BY <2>1
  <2>2. CASE y # x
    <3>1. PICK k \in 1 .. tidx' - 1 : y = Types[k] BY DEF Treated
    <3>2. k # tidx BY <2>2, <3>1 DEF Type
    <3>3. k \in 1 .. tidx - 1 BY <1>1, <3>1, <3>2
    <3>4. Treated(y) BY <3>1, <3>3 DEF Treated
    <3> QED BY <2>2, <3>4, StaysJudged DEF IInv, TreatedLists
  <2> QED BY <2>1, <2>2
<1> QED BY <1>2, <1>3, <1>5, <1>6, <1>7 DEF IInv

\* The current list, while a command runs.
LEMMA RunningFacts ==
  ASSUME IInv, Running
  PROVE  /\ test \in Tests /\ Type \in TypeSet
         /\ tidx \in 1 .. Len(Types) /\ tidx + 1 \in 1 .. Len(Types) + 1
         /\ List \in Seq(Match) /\ before[Type] \in Seq(Match)
         /\ fetched \in Seq(Values)
         /\ Len(List) = Len(before[Type]) /\ Len(fetched) <= Len(List)
         /\ Len(List) \in Nat /\ Len(fetched) \in Nat
         /\ \A i \in 1 .. Len(fetched) :
              fetched[i] \in Values /\ <<List[i].addr, fetched[i]>> \in held
         /\ \A i \in 1 .. Len(List) :
              /\ List[i] \in Match /\ before[Type][i] \in Match
              /\ List[i] = Now(i) /\ List[i].addr = before[Type][i].addr
<1>1. test \in Tests /\ tidx \in 1 .. Len(Types) /\ tidx + 1 \in 1 .. Len(Types) + 1
  BY TypeFacts DEF IInv, TypeOK, Running
<1>2. Type \in TypeSet BY <1>1, TypeFacts DEF Type
<1>3. List \in Seq(Match) /\ before[Type] \in Seq(Match) /\ fetched \in Seq(Values)
  BY <1>2 DEF IInv, TypeOK, List
<1>4. /\ Len(List) = Len(before[Type]) /\ Len(fetched) <= Len(List)
      /\ \A i \in 1 .. Len(List) : List[i] = Now(i)
      /\ \A i \in 1 .. Len(fetched) : <<List[i].addr, fetched[i]>> \in held
  BY DEF IInv, CurrentList
<1>5. Len(List) \in Nat /\ Len(fetched) \in Nat BY <1>3
<1>6. \A i \in 1 .. Len(fetched) : fetched[i] \in Values BY <1>3
<1>7. \A i \in 1 .. Len(List) : List[i] \in Match /\ before[Type][i] \in Match
  BY <1>3, <1>4
<1>8. \A i \in 1 .. Len(List) : List[i].addr = before[Type][i].addr
  BY <1>4, <1>7 DEF Now, Match
<1> QED BY <1>1, <1>2, <1>3, <1>4, <1>5, <1>6, <1>7, <1>8

LEMMA SkipHolds == ASSUME IInv, SkipType PROVE IInv'
<1>1. Running /\ UNCHANGED <<targetVars, commands, test, fetched, matches, before, held>>
      /\ tidx' = tidx + 1
  BY DEF SkipType
<1>2. PICK x : x = Type OBVIOUS
<1>3. x \in TypeSet /\ x \in DOMAIN matches
  BY <1>1, <1>2, RunningFacts DEF IInv, TypeOK
<1>4. fetched = <<>>
  <2>1. CASE ~Suitable(test, Type) BY <1>1, <2>1 DEF IInv, CurrentList
  <2>2. CASE List = <<>>
    <3>1. Len(fetched) = 0 BY <1>1, <2>2, RunningFacts
    <3> QED BY <1>1, <3>1, RunningFacts, EmptySeq
  <2> QED BY <2>1, <2>2 DEF SkipType
<1>5. matches[x] = before[x]
  <2>0. \A i \in 1 .. Len(List) : ~(i <= Len(fetched)) BY <1>4
  <2>1. \A i \in 1 .. Len(List) : List[i] = before[Type][i]
    BY <1>1, <2>0, RunningFacts DEF Now
  <2> QED BY <1>1, <1>2, <2>1, RunningFacts, SeqEqual DEF List
<1>6. TypeOK'
  BY <1>1, RunningFacts DEF IInv, TypeOK, targetVars
<1>7. UNCHANGED <<mem, mapped>> BY <1>1 DEF targetVars
<1>8. Distinct(matches'[x]) BY <1>1, <1>3 DEF IInv, ListsDistinct
<1>9. JudgedAt(x)'
  <2>1. CASE ~Suitable(test, x) BY <1>1, <1>5, <2>1 DEF JudgedAt, Suitable
  <2>2. CASE List = <<>>
    <3>1. 1 .. Len(before'[x]) = {} BY <1>1, <1>2, <1>5, <2>2 DEF List
    <3> QED BY <1>1, <1>5, <3>1 DEF JudgedAt
  <2> QED BY <1>2, <2>1, <2>2 DEF SkipType
<1>10. RefreshedAt(x)'
  <2>1. CASE ~Suitable(test, x)
    <3>1. test.form = "refresh" => x \notin Integer BY <2>1 DEF Suitable
    <3> QED BY <1>1, <1>5, <3>1 DEF RefreshedAt
  <2>2. CASE List = <<>>
    <3>1. 1 .. Len(before'[x]) = {} BY <1>1, <1>2, <1>5, <2>2 DEF List
    <3> QED BY <1>1, <1>5, <3>1 DEF RefreshedAt
  <2> QED BY <1>2, <2>1, <2>2 DEF SkipType
<1> QED BY <1>1, <1>2, <1>3, <1>4, <1>6, <1>7, <1>8, <1>9, <1>10, NextList

LEMMA FetchHolds == ASSUME IInv, FetchEntry PROVE IInv'
<1>1. /\ Running /\ Suitable(test, Type) /\ CanFetch
      /\ UNCHANGED <<mem, mapped, changes, commands, test, tidx, before, held>>
  BY DEF FetchEntry, targetVars
<1>2. PICK x : x = Type OBVIOUS
<1>3. PICK n : n = Len(fetched) + 1 OBVIOUS
<1>4. n \in 1 .. Len(List) /\ List[n].addr \in mapped
  BY <1>1, <1>3, RunningFacts DEF CanFetch
<1>5. PICK v : v = mem[List[n].addr] OBVIOUS
<1>6. v \in Values /\ <<List[n].addr, v>> \in held
  <2>1. test # Idle BY <1>1 DEF Running
  <2> QED BY <1>4, <1>5, <2>1 DEF IInv, TypeOK, NowHeld
<1>7. /\ fetched' = Append(fetched, v)
      /\ matches' = IF Buffered THEN matches ELSE [matches EXCEPT ![Type][n].value = v]
  BY <1>3, <1>5 DEF FetchEntry
<1>8. /\ fetched' \in Seq(Values) /\ Len(fetched') = n
      /\ \A i \in 1 .. Len(fetched) : fetched'[i] = fetched[i]
      /\ fetched'[n] = v
  BY <1>1, <1>3, <1>6, <1>7, RunningFacts, AppendProperties
<1>9. x \in TypeSet /\ Type' = Type /\ List' = matches'[x] /\ x \in DOMAIN matches
  BY <1>1, <1>2, RunningFacts DEF Type, List, IInv, TypeOK
<1>10. \A i \in 1 .. Len(List) : i = n \/ (i <= n <=> i <= Len(fetched))
  BY <1>1, <1>3, RunningFacts
<1>11. /\ matches' \in [TypeSet -> Seq(Match)]
       /\ \A y \in TypeSet : y # x => matches'[y] = matches[y]
       /\ Len(List') = Len(List)
       /\ \A i \in 1 .. Len(List) : List'[i].addr = List[i].addr /\ List'[i] = Now(i)'
  <2>1. CASE Buffered
    <3>1. matches' = matches /\ List' = List BY <1>2, <1>7, <1>9, <2>1 DEF List
    <3>2. \A i \in 1 .. Len(List) : Now(i)' = Now(i)
      BY <1>1, <1>9, <2>1 DEF Now, Buffered
    <3> QED BY <1>1, <3>1, <3>2, RunningFacts DEF IInv, TypeOK
  <2>2. CASE ~Buffered
    <3> DEFINE m   == [List[n] EXCEPT !.value = v]
               new == [List EXCEPT ![n] = m]
    <3>1. List[n] \in Match BY <1>1, <1>4, RunningFacts
    <3>2. m \in Match /\ m.addr = List[n].addr /\ m.value = v BY <1>6, <3>1 DEF Match
    <3>3. matches' = [matches EXCEPT ![x] = new] BY <1>2, <1>7, <2>2 DEF List
    <3>4. m = [before[Type][n] EXCEPT !.value = v]
      <4>0. ~(n <= Len(fetched)) BY <1>1, <1>3, RunningFacts
      <4>1. List[n] = before[Type][n] BY <1>1, <1>4, <4>0, RunningFacts DEF Now
      <4> QED BY <4>1
    <3> HIDE DEF m
    <3>5. /\ new \in Seq(Match) /\ Len(new) = Len(List)
          /\ \A i \in 1 .. Len(List) : new[i] = IF i = n THEN m ELSE List[i]
      BY <1>1, <1>4, <3>2, RunningFacts, ExceptSeq
    <3> HIDE DEF new
    <3>6. List' = new BY <1>9, <3>3
    <3>7. matches' \in [TypeSet -> Seq(Match)] BY <1>9, <3>3, <3>5 DEF IInv, TypeOK
    <3>8. \A y \in TypeSet : y # x => matches'[y] = matches[y]
      BY <3>3 DEF IInv, TypeOK
    <3>9. ASSUME NEW i \in 1 .. Len(List)
          PROVE  List'[i].addr = List[i].addr /\ List'[i] = Now(i)'
      <4>1. Now(i)' = IF i <= n THEN [before[Type][i] EXCEPT !.value = fetched'[i]]
                      ELSE before[Type][i]
        BY <1>1, <1>8, <1>9, <2>2 DEF Now, Buffered
      <4>2. CASE i = n
        <5>1. i <= n BY <1>3, <1>4, <4>2
        <5> QED BY <1>8, <3>2, <3>4, <3>5, <3>6, <4>1, <4>2, <5>1
      <4>3. CASE i # n
        <5>1. List'[i] = List[i] BY <3>5, <3>6, <4>3
        <5>2. List[i] = Now(i) BY <1>1, RunningFacts
        <5>3. CASE i <= Len(fetched)
          <6>1. i \in 1 .. Len(fetched) /\ i <= n BY <1>10, <4>3, <5>3
          <6>2. fetched'[i] = fetched[i] BY <1>8, <6>1
          <6> QED BY <2>2, <4>1, <5>1, <5>2, <5>3, <6>1, <6>2 DEF Now
        <5>4. CASE ~(i <= Len(fetched))
          <6>1. ~(i <= n) BY <1>10, <4>3, <5>4
          <6> QED BY <4>1, <5>1, <5>2, <5>4, <6>1 DEF Now
        <5> QED BY <5>3, <5>4
      <4> QED BY <4>2, <4>3
    <3> QED BY <3>5, <3>6, <3>7, <3>8, <3>9
  <2> QED BY <2>1, <2>2
<1>12. TypeOK' BY <1>1, <1>8, <1>11 DEF IInv, TypeOK
<1>13. ListsDistinct'
  <2>1. Distinct(matches'[x])
    <3>1. Distinct(List) BY <1>2, <1>9 DEF IInv, ListsDistinct, List
    <3> QED BY <1>9, <1>11, <3>1 DEF Distinct
  <2>2. \A y \in TypeSet : Distinct(matches'[y])
    BY <1>11, <2>1 DEF IInv, ListsDistinct
  <2> QED BY <1>1, <2>2 DEF IInv, ListsDistinct
<1>14. NowHeld' BY <1>1 DEF IInv, NowHeld
<1>15. CurrentList'
  <2>1. Len(List') = Len(before'[Type']) /\ Len(fetched') <= Len(List')
    BY <1>1, <1>4, <1>8, <1>9, <1>11, RunningFacts
  <2>2. \A i \in 1 .. Len(List') : List'[i] = Now(i)' BY <1>11
  <2>3. ASSUME NEW i \in 1 .. Len(fetched')
        PROVE  <<List'[i].addr, fetched'[i]>> \in held'
    <3>1. i \in 1 .. Len(List) BY <1>1, <1>4, <1>8, RunningFacts
    <3>2. List'[i].addr = List[i].addr BY <1>11, <3>1
    <3>3. i = n \/ i \in 1 .. Len(fetched) BY <1>1, <1>3, <1>8, RunningFacts
    <3> QED BY <1>1, <1>6, <1>8, <3>2, <3>3, RunningFacts
  <2>4. Suitable(test, Type)' BY <1>1, <1>9 DEF Suitable
  <2> QED BY <2>1, <2>2, <2>3, <2>4 DEF CurrentList
<1>16. LaterLists'
  <2> SUFFICES ASSUME NEW k \in tidx + 1 .. Len(Types)
               PROVE  matches'[Types[k]] = before[Types[k]]
    BY <1>1 DEF LaterLists
  <2>1. k \in 1 .. Len(Types) /\ k # tidx BY <1>1, RunningFacts
  <2>2. Types[k] \in TypeSet /\ Types[k] # x
    BY <1>1, <1>2, <2>1, RunningFacts, TypeFacts, TypesDiffer DEF Type
  <2> QED BY <1>1, <1>11, <2>2 DEF IInv, LaterLists
<1>17. TreatedLists'
  <2> SUFFICES ASSUME NEW y \in TypeSet, Treated(y)' PROVE JudgedAt(y)' /\ RefreshedAt(y)'
    BY DEF TreatedLists
  <2>1. Treated(y) BY <1>1 DEF Treated
  <2>2. y # x
    <3>1. PICK k \in 1 .. tidx - 1 : y = Types[k] BY <2>1 DEF Treated
    <3>2. k \in 1 .. Len(Types) /\ k # tidx BY <1>1, <3>1, RunningFacts
    <3> QED BY <1>1, <1>2, <3>1, <3>2, RunningFacts, TypesDiffer DEF Type
  <2> QED BY <1>1, <1>11, <2>1, <2>2, StaysJudged DEF IInv, TreatedLists
<1> QED BY <1>12, <1>13, <1>14, <1>15, <1>16, <1>17 DEF IInv

\* What a filter makes of the current list.
LEMMA SurvivorsAre ==
  ASSUME IInv, Running
  PROVE  /\ Kept \in SUBSET (1 .. Len(List))
         /\ Survivors \in Seq(Match) /\ Len(Survivors) = Cardinality(Kept)
         /\ Ordered(InOrder(Kept), Kept)
         /\ \A i \in Kept : \E k \in 1 .. Len(Survivors) : InOrder(Kept)[k] = i
         /\ \A k \in 1 .. Len(Survivors) :
              /\ InOrder(Kept)[k] \in Kept
              /\ Survivors[k].addr = List[InOrder(Kept)[k]].addr
              /\ Survivors[k].value = NewValue(InOrder(Kept)[k])
<1>1. Kept \in SUBSET (1 .. Len(List)) BY DEF Kept
<1>2. PICK S : S = Kept OBVIOUS
<1>3. PICK s : s = InOrder(S) OBVIOUS
<1>4. /\ Cardinality(S) \in Nat /\ Ordered(s, S)
      /\ \A i \in S : \E k \in 1 .. Cardinality(S) : s[k] = i
  <2>1. PICK n : n = Len(List) OBVIOUS
  <2>2. n \in Nat /\ S \in SUBSET (1 .. n) BY <1>1, <1>2, <2>1, RunningFacts
  <2> QED BY <1>3, <2>2, InOrderIs, ZenonT(40)
<1>5. \A i \in 1 .. Len(List) : NewValue(i) \in Values
  <2> SUFFICES ASSUME NEW i \in 1 .. Len(List) PROVE NewValue(i) \in Values OBVIOUS
  <2>1. List[i] \in Match BY RunningFacts
  <2>2. List[i].value \in Values BY <2>1 DEF Match
  <2>3. i <= Len(fetched) => i \in 1 .. Len(fetched) BY RunningFacts
  <2>4. i <= Len(fetched) => fetched[i] \in Values BY <2>3, RunningFacts
  <2> QED BY <2>2, <2>4 DEF NewValue
<1> DEFINE entry(k) == [addr |-> List[s[k]].addr, value |-> NewValue(s[k])]
<1>6. Survivors = [k \in 1 .. Cardinality(S) |-> entry(k)] BY <1>2, <1>3 DEF Survivors
<1>7. \A k \in 1 .. Cardinality(S) : s[k] \in S /\ s[k] \in 1 .. Len(List)
  BY <1>1, <1>2, <1>4 DEF Ordered
<1>8. \A k \in 1 .. Cardinality(S) : entry(k) \in Match
  <2> SUFFICES ASSUME NEW k \in 1 .. Cardinality(S) PROVE entry(k) \in Match OBVIOUS
  <2>1. List[s[k]] \in Match BY <1>7, RunningFacts
  <2>2. List[s[k]].addr \in Addresses BY <2>1 DEF Match
  <2> QED BY <1>5, <1>7, <2>2 DEF Match
<1> HIDE DEF entry
<1>9. Survivors \in [1 .. Cardinality(S) -> Match] BY <1>6, <1>8
<1>10. Survivors \in Seq(Match) /\ Len(Survivors) = Cardinality(S)
  BY <1>4, <1>9, SeqDef, LenProperties
<1>11. \A k \in 1 .. Cardinality(S) :
         Survivors[k].addr = List[s[k]].addr /\ Survivors[k].value = NewValue(s[k])
  BY <1>6 DEF entry
<1> QED BY <1>1, <1>2, <1>3, <1>4, <1>7, <1>10, <1>11

\* When the call returns it has fetched all entries it can reach.
LEMMA FetchedAll ==
  ASSUME IInv, Running, ~CanFetch, NEW i \in Reached(Type)
  PROVE  i \in 1 .. Len(fetched)
<1>1. /\ i \in 1 .. Len(List) /\ Len(List) <= IOVMax
      /\ \A k \in 1 .. i : before[Type][k].addr \in mapped
  BY RunningFacts DEF Reached
<1> SUFFICES ASSUME ~(i <= Len(fetched)) PROVE FALSE BY <1>1, RunningFacts
<1>2. Len(fetched) + 1 \in 1 .. i /\ Len(fetched) < Len(List) BY <1>1, RunningFacts
<1>3. Len(fetched) + 1 \in 1 .. Len(List) BY <1>1, <1>2, RunningFacts
<1>4. List[Len(fetched) + 1].addr \in mapped BY <1>1, <1>2, <1>3, RunningFacts
<1> QED BY <1>1, <1>2, <1>4 DEF CanFetch

LEMMA FilterJudges ==
  ASSUME IInv, Running, Suitable(test, Type), ~CanFetch, test.form # "refresh",
         NEW x, x = Type, matches'[x] = Survivors, UNCHANGED <<mapped, test, before, held>>
  PROVE  JudgedAt(x)'
<1>1. Suitable(test, x)' BY DEF Suitable
<1>2. Reached(x)' = Reached(x) BY DEF Reached
<1> SUFFICES ASSUME FullyReached(x), NEW i \in 1 .. Len(before[x])
             PROVE  \E v \in Values :
                      /\ <<before[x][i].addr, v>> \in held
                      /\ IF <<before[x][i].value, v>> \in Accepts[test][x]
                         THEN \E k \in {n \in 1 .. Len(Survivors) : Survivors[n].addr = before[x][i].addr} :
                                Survivors[k].value = v
                         ELSE {n \in 1 .. Len(Survivors) : Survivors[n].addr = before[x][i].addr} = {}
  BY <1>1, <1>2 DEF JudgedAt, FullyReached
<1>3. i \in 1 .. Len(fetched) /\ i \in 1 .. Len(List) /\ i <= Len(fetched)
  <2>1. i \in Reached(Type) BY DEF FullyReached
  <2>2. i \in 1 .. Len(fetched) BY <2>1, FetchedAll
  <2> QED BY <2>2, RunningFacts
<1>4. PICK v : v = fetched[i] OBVIOUS
<1>5. v \in Values /\ <<List[i].addr, v>> \in held /\ NewValue(i) = v
  BY <1>3, <1>4, RunningFacts DEF NewValue
<1>6. List[i].addr = before[x][i].addr /\ List[i] = Now(i) /\ before[x][i] \in Match
  BY <1>3, RunningFacts
<1>7. i \in Kept <=> <<before[x][i].value, v>> \in Accepts[test][x]
  <2>1. i \in Kept <=> <<List[i].value, v>> \in Accepts[test][x] BY <1>3, <1>5 DEF Kept
  <2>2. CASE Buffered BY <1>6, <2>1, <2>2 DEF Now
  <2>3. CASE ~Buffered
    <3>1. test \in Tests /\ test \in Test BY RunningFacts
    <3>2. test.form = "constant" BY <2>3, <3>1 DEF Buffered, Test
    <3>3. x \in TypeSet /\ List[i].value \in Values /\ before[x][i].value \in Values
      BY <1>3, RunningFacts DEF Match
    <3>4. <<List[i].value, v>> \in Accepts[test][x] <=> <<before[x][i].value, v>> \in Accepts[test][x]
      BY <1>5, <3>1, <3>2, <3>3
    <3> QED BY <2>1, <3>4
  <2> QED BY <2>2, <2>3
<1>8. CASE i \in Kept
  <2>1. PICK k \in 1 .. Len(Survivors) : InOrder(Kept)[k] = i BY <1>8, SurvivorsAre
  <2>2. Survivors[k].addr = List[i].addr /\ Survivors[k].value = v
    BY <1>5, <2>1, SurvivorsAre
  <2> QED BY <1>5, <1>6, <1>7, <1>8, <2>1, <2>2, ZenonT(40)
<1>9. CASE i \notin Kept
  <2> SUFFICES ASSUME NEW k \in 1 .. Len(Survivors), Survivors[k].addr = before[x][i].addr
               PROVE  FALSE
    BY <1>5, <1>6, <1>7, <1>9, ZenonT(40)
  <2>1. InOrder(Kept)[k] \in Kept /\ InOrder(Kept)[k] \in 1 .. Len(List)
        /\ List[InOrder(Kept)[k]].addr = List[i].addr
    BY <1>6, SurvivorsAre
  <2>2. Distinct(List) BY RunningFacts DEF IInv, ListsDistinct, List
  <2>3. InOrder(Kept)[k] = i BY <1>3, <2>1, <2>2 DEF Distinct
  <2> QED BY <1>9, <2>1, <2>3
<1> QED BY <1>8, <1>9

LEMMA RefreshKeeps ==
  ASSUME IInv, Running, ~CanFetch, test.form = "refresh",
         NEW x, x = Type, UNCHANGED <<matches, mapped, test, before, held>>
  PROVE  RefreshedAt(x)'
<1>1. Reached(x)' = Reached(x) BY DEF Reached
<1>2. ~Buffered /\ matches[x] = List /\ Len(List) = Len(before[x])
  BY RunningFacts DEF Buffered, List
<1>3. ASSUME NEW i \in 1 .. Len(List)
      PROVE  /\ \/ List[i] = before[x][i]
                \/ <<List[i].addr, List[i].value>> \in held
             /\ i \in Reached(x) => <<before[x][i].addr, List[i].value>> \in held
  <2>1. List[i] = Now(i) /\ List[i].addr = before[x][i].addr /\ before[x][i] \in Match
    BY RunningFacts
  <2>2. CASE i <= Len(fetched)
    <3>1. i \in 1 .. Len(fetched) BY <2>2, RunningFacts
    <3>2. List[i].value = fetched[i] BY <1>2, <2>1, <2>2 DEF Now, Match
    <3> QED BY <2>1, <3>1, <3>2, RunningFacts
  <2>3. CASE ~(i <= Len(fetched))
    <3>1. i \notin 1 .. Len(fetched) BY <2>3
    <3> QED BY <2>1, <2>3, <3>1, FetchedAll DEF Now
  <2> QED BY <2>2, <2>3
<1> QED BY <1>1, <1>2, <1>3 DEF RefreshedAt

LEMMA FinishHolds == ASSUME IInv, FinishType PROVE IInv'
<1>1. /\ Running /\ Suitable(test, Type) /\ ~CanFetch
      /\ tidx' = tidx + 1 /\ fetched' = <<>>
      /\ UNCHANGED <<mem, mapped, changes, commands, test, before, held>>
      /\ matches' = IF test.form = "refresh" THEN matches ELSE [matches EXCEPT ![Type] = Survivors]
  BY DEF FinishType, targetVars
<1>2. PICK x : x = Type OBVIOUS
<1>3. x \in TypeSet BY <1>1, <1>2, RunningFacts
<1>4. matches \in [TypeSet -> Seq(Match)] BY DEF IInv, TypeOK
<1>5. /\ matches' \in [TypeSet -> Seq(Match)]
      /\ \A y \in TypeSet : y # x => matches'[y] = matches[y]
      /\ test.form # "refresh" => matches'[x] = Survivors
  BY <1>1, <1>2, <1>3, <1>4, SurvivorsAre
<1>6. TypeOK'
  <2>1. fetched' \in Seq(Values) BY <1>1
  <2> QED BY <1>1, <1>5, <2>1, RunningFacts DEF IInv, TypeOK
<1>7. Distinct(List) BY <1>1, RunningFacts DEF IInv, ListsDistinct, List
<1>8. CASE test.form = "refresh"
  <2>1. matches' = matches /\ Distinct(matches'[x])
    BY <1>1, <1>2, <1>7, <1>8 DEF List
  <2>2. RefreshedAt(x)' BY <1>1, <1>2, <1>8, <2>1, RefreshKeeps
  <2>3. JudgedAt(x)' BY <1>1, <1>8 DEF JudgedAt
  <2> QED BY <1>1, <1>2, <1>3, <1>5, <1>6, <2>1, <2>2, <2>3, NextList
<1>9. CASE test.form # "refresh"
  <2>1. JudgedAt(x)' BY <1>1, <1>2, <1>5, <1>9, FilterJudges
  <2>2. RefreshedAt(x)' BY <1>1, <1>9 DEF RefreshedAt
  <2>3. Distinct(Survivors)
    <3> SUFFICES ASSUME NEW i \in 1 .. Len(Survivors), NEW j \in 1 .. Len(Survivors), i # j
                 PROVE  Survivors[i].addr # Survivors[j].addr
      BY DEF Distinct
    <3> DEFINE s == InOrder(Kept)
    <3>1. /\ s[i] \in 1 .. Len(List) /\ s[j] \in 1 .. Len(List)
          /\ Survivors[i].addr = List[s[i]].addr /\ Survivors[j].addr = List[s[j]].addr
      BY <1>1, SurvivorsAre
    <3>2. i \in 1 .. Cardinality(Kept) /\ j \in 1 .. Cardinality(Kept) BY <1>1, SurvivorsAre
    <3>3. (i < j => s[i] < s[j]) /\ (j < i => s[j] < s[i])
      BY <1>1, <3>2, SurvivorsAre DEF Ordered
    <3> HIDE DEF s
    <3>4. i < j \/ j < i OBVIOUS
    <3>5. s[i] # s[j] BY <3>1, <3>3, <3>4
    <3> QED BY <1>7, <3>1, <3>5 DEF Distinct
  <2> QED BY <1>1, <1>2, <1>3, <1>5, <1>6, <1>9, <2>1, <2>2, <2>3, NextList
<1> QED BY <1>8, <1>9

LEMMA TargetHolds == ASSUME IInv, TargetRuns PROVE IInv'
<1>1. UNCHANGED <<commands, test, tidx, fetched, matches, before>> BY DEF TargetRuns
<1>2. changes' \in 0 .. MaxChanges BY DEF TargetRuns, IInv, TypeOK
<1>3. PICK a \in mapped :
        \/ \E v \in Values : /\ mem' = [mem EXCEPT ![a] = v]
                             /\ held' = held \union {<<a, v>>}
                             /\ UNCHANGED mapped
        \/ mapped' = mapped \ {a} /\ UNCHANGED <<mem, held>>
  BY DEF TargetRuns
<1>4. mem \in [Addresses -> Values] /\ mapped \subseteq Addresses /\ held \subseteq Addresses \X Values
  BY DEF IInv, TypeOK
<1>5. TypeOK' /\ NowHeld' /\ mapped' \subseteq mapped /\ held \subseteq held'
  <2>1. CASE mapped' = mapped \ {a} /\ UNCHANGED <<mem, held>>
    BY <1>1, <1>2, <2>1 DEF IInv, TypeOK, NowHeld
  <2>2. ASSUME NEW v \in Values, mem' = [mem EXCEPT ![a] = v],
               held' = held \union {<<a, v>>}, UNCHANGED mapped
        PROVE  TypeOK' /\ NowHeld' /\ mapped' \subseteq mapped /\ held \subseteq held'
    <3>1. mem' \in [Addresses -> Values] BY <1>4, <2>2
    <3>2. <<a, v>> \in Addresses \X Values BY <1>3, <1>4
    <3>3. held' \subseteq Addresses \X Values BY <1>4, <2>2, <3>2
    <3>4. TypeOK' BY <1>1, <1>2, <2>2, <3>1, <3>3 DEF IInv, TypeOK
    <3>5. \A b \in mapped : mem'[b] = IF b = a THEN v ELSE mem[b] BY <1>4, <2>2
    <3>6. NowHeld' BY <1>1, <2>2, <3>5 DEF IInv, NowHeld
    <3> QED BY <2>2, <3>4, <3>6
  <2> QED BY <1>3, <2>1, <2>2
<1> QED BY <1>1, <1>5, StepAside

LEMMA NextHolds == IInv /\ [Next]_vars => IInv'
<1> SUFFICES ASSUME IInv, [Next]_vars PROVE IInv' OBVIOUS
<1>1. ASSUME NEW f \in Tests, Begin(f) PROVE IInv' BY <1>1, BeginHolds
<1>2. CASE SkipType BY <1>2, SkipHolds
<1>3. CASE FetchEntry BY <1>3, FetchHolds
<1>4. CASE FinishType BY <1>4, FinishHolds
<1>5. CASE EndCommand
  <2>1. test' = Idle /\ UNCHANGED <<targetVars, commands, tidx, fetched, matches, before, held>>
    BY <1>5 DEF EndCommand
  <2>2. TypeOK' BY <2>1 DEF IInv, TypeOK, targetVars
  <2>3. ListsDistinct' BY <2>1 DEF IInv, ListsDistinct
  <2> QED
    BY <2>1, <2>2, <2>3
       DEF IInv, NowHeld, CurrentList, LaterLists, TreatedLists, Treated, Running
<1>6. CASE Reset
  <2>1. /\ test = Idle /\ test' = Idle /\ UNCHANGED <<targetVars, tidx, fetched, held>>
        /\ matches' = [x \in TypeSet |-> <<>>] /\ before' = matches'
        /\ commands' \in 0 .. MaxCommands
    BY <1>6 DEF Reset, IInv, TypeOK
  <2>2. matches' \in [TypeSet -> Seq(Match)] BY <2>1
  <2>3. TypeOK' BY <2>1, <2>2 DEF IInv, TypeOK, targetVars
  <2>4. ListsDistinct' BY <2>1 DEF ListsDistinct, Distinct
  <2> QED
    BY <2>1, <2>3, <2>4
       DEF IInv, NowHeld, CurrentList, LaterLists, TreatedLists, Treated, Running
<1>7. CASE TargetRuns BY <1>7, TargetHolds
<1>8. CASE UNCHANGED vars
  <2>1. UNCHANGED <<mem, mapped, changes, commands, test, tidx, fetched, matches, before, held>>
    BY <1>8 DEF vars, targetVars
  <2>2. TypeOK' /\ NowHeld' BY <2>1 DEF IInv, TypeOK, NowHeld
  <2> QED BY <2>1, <2>2, StepAside
<1> QED BY <1>1, <1>2, <1>3, <1>4, <1>5, <1>6, <1>7, <1>8 DEF Next

LEMMA Invariance == Spec => []IInv
BY InitHolds, NextHolds, PTL DEF Spec

-------------------------------------------------------------------------------
(***************************************************************************)
(* The theorems.                                                           *)
(***************************************************************************)
(***************************************************************************)
(* The lists, the buffer and the running command keep their types.         *)
(***************************************************************************)
THEOREM TypeCorrect == Spec => []TypeOK
<1>1. IInv => TypeOK BY DEF IInv
<1> QED BY <1>1, Invariance, PTL

(***************************************************************************)
(* A filter keeps or drops every match of a list that can be read by a     *)
(* value its address held while the command ran, and lists no value it was *)
(* not judged by.                                                          *)
(***************************************************************************)
THEOREM FilterIsHonest == Spec => []JudgedByHeldValues
<1>1. IInv => JudgedByHeldValues BY TreatedSays DEF IInv
<1> QED BY <1>1, Invariance, PTL

(***************************************************************************)
(* A refresh gives every match it reaches a value its address held, and    *)
(* leaves the others as they were, also if the read stops half-way.        *)
(***************************************************************************)
THEOREM RefreshIsHonest == Spec => []RefreshHonest
<1>1. IInv => RefreshHonest BY TreatedSays DEF IInv
<1> QED BY <1>1, Invariance, PTL

\* The addresses stay where they are.
LEMMA SameIsNarrower ==
  ASSUME NEW s, NEW t, Len(t) = Len(s), Len(s) \in Nat,
         \A i \in 1 .. Len(s) : t[i].addr = s[i].addr
  PROVE  Narrower(t, s)
<1> DEFINE e == [i \in 1 .. Len(t) |-> i]
<1>1. e \in [1 .. Len(t) -> 1 .. Len(s)] OBVIOUS
<1>2. \A i, j \in 1 .. Len(t) : i < j => e[i] < e[j] OBVIOUS
<1>3. \A i \in 1 .. Len(t) : t[i].addr = s[e[i]].addr OBVIOUS
<1> QED BY <1>1, <1>2, <1>3 DEF Narrower

(***************************************************************************)
(* No command adds a match, repeats one, reorders them or moves one to     *)
(* another address.                                                        *)
(***************************************************************************)
THEOREM ListsOnlyNarrow == Spec => OnlyNarrows
<1> DEFINE Step == \A x \in TypeSet : Narrower(matches'[x], matches[x])
<1> DEFINE AddressesStay ==
      IInv /\ Running =>
        /\ Len(List) = Len(before[Type])
        /\ \A i \in 1 .. Len(List) : List[i].addr = before[Type][i].addr
<1>1. IInv /\ IInv' /\ AddressesStay' /\ [Next]_vars => [Step]_vars
  <2> SUFFICES ASSUME IInv, IInv', AddressesStay', Next, NEW x \in TypeSet
               PROVE  Narrower(matches'[x], matches[x])
    OBVIOUS
  <2>1. matches[x] \in Seq(Match) /\ Len(matches[x]) \in Nat BY DEF IInv, TypeOK
  <2>2. ASSUME matches'[x] = matches[x] PROVE Narrower(matches'[x], matches[x])
    BY <2>1, <2>2, SameIsNarrower
  <2>3. CASE FetchEntry
    <3>1. Running /\ Running' /\ Type' = Type /\ UNCHANGED before
      BY <2>3 DEF FetchEntry, Running, Type
    <3>2. CASE x = Type
      <4>1. matches[x] = List /\ matches'[x] = List' BY <3>1, <3>2 DEF List
      <4>2. /\ Len(List) = Len(before[Type])
            /\ \A i \in 1 .. Len(List) : List[i].addr = before[Type][i].addr
        BY <3>1, RunningFacts
      <4>3. /\ Len(List') = Len(before[Type])
            /\ \A i \in 1 .. Len(List') : List'[i].addr = before[Type][i].addr
        BY <3>1
      <4> QED BY <2>1, <4>1, <4>2, <4>3, SameIsNarrower
    <3>3. CASE x # Type BY <2>2, <2>3, <3>3 DEF FetchEntry
    <3> QED BY <3>2, <3>3
  <2>4. CASE FinishType
    <3>1. Running BY <2>4 DEF FinishType
    <3>2. CASE matches'[x] = matches[x] BY <2>2, <3>2
    <3>3. CASE matches'[x] # matches[x]
      <4>1. x = Type /\ matches' = [matches EXCEPT ![Type] = Survivors]
        BY <2>4, <3>3 DEF FinishType
      <4>2. matches'[x] = Survivors /\ matches[x] = List
        BY <4>1 DEF IInv, TypeOK, List
      <4>3. PICK e : e = InOrder(Kept) OBVIOUS
      <4>4. /\ Ordered(e, Kept) /\ Kept \in SUBSET (1 .. Len(List))
            /\ Len(Survivors) = Cardinality(Kept)
            /\ \A k \in 1 .. Len(Survivors) : Survivors[k].addr = List[e[k]].addr
        BY <3>1, <4>3, SurvivorsAre
      <4>5. e \in [1 .. Len(Survivors) -> 1 .. Len(List)] BY <4>4 DEF Ordered
      <4>6. \A i, j \in 1 .. Len(Survivors) : i < j => e[i] < e[j] BY <4>4 DEF Ordered
      <4> QED BY <4>2, <4>4, <4>5, <4>6 DEF Narrower
    <3> QED BY <3>2, <3>3
  <2>5. CASE Reset
    <3>1. matches'[x] = <<>> BY <2>5 DEF Reset
    <3>2. PICK t : t = matches'[x] OBVIOUS
    <3>3. 1 .. Len(t) = {} BY <3>1, <3>2
    <3>4. [i \in 1 .. Len(t) |-> i] \in [1 .. Len(t) -> 1 .. Len(matches[x])] BY <3>3
    <3> QED BY <3>2, <3>3, <3>4 DEF Narrower
  <2>6. CASE (\E f \in Tests : Begin(f)) \/ SkipType \/ EndCommand \/ TargetRuns
    BY <2>2, <2>6 DEF Begin, SkipType, EndCommand, TargetRuns
  <2> QED BY <2>3, <2>4, <2>5, <2>6 DEF Next
<1>2. AddressesStay BY RunningFacts
<1>3. Spec => []IInv BY Invariance
<1> HIDE DEF AddressesStay
<1> QED BY <1>1, <1>2, <1>3, PTL DEF Spec, OnlyNarrows
===============================================================================
