----------------------------- MODULE Screen_proofs -----------------------------
(***************************************************************************)
(* What is on the terminal is what the shown list holds, for any heights,  *)
(* lists and messages and every sequence of commands and keys; and the     *)
(* commands and keys are those of the application.                         *)
(***************************************************************************)
EXTENDS Screen, App_proofs, FiniteSetTheorems

-------------------------------------------------------------------------------
(***************************************************************************)
(* Least and greatest numbers, and lines.                                  *)
(***************************************************************************)
LEMMA MinIs ==
  ASSUME NEW a \in Int, NEW b \in Int
  PROVE  Min({a, b}) = IF a <= b THEN a ELSE b
<1>1. PICK x \in {a, b} : \A y \in {a, b} : x <= y
  <2>1. CASE a <= b BY <2>1
  <2>2. CASE b <= a BY <2>2
  <2> QED BY <2>1, <2>2
<1>2. Min({a, b}) \in {a, b} /\ \A y \in {a, b} : Min({a, b}) <= y
  BY <1>1 DEF Min
<1> QED BY <1>2

LEMMA MaxIs ==
  ASSUME NEW S, S # {}, S \subseteq Nat, NEW n \in Nat, \A x \in S : x <= n
  PROVE  Max(S) \in S
<1> DEFINE D == {n - x : x \in S}
<1>1. D \subseteq Nat /\ D # {}
  <2>1. \A x \in S : n - x \in Nat
    <3> SUFFICES ASSUME NEW x \in S PROVE n - x \in Nat OBVIOUS
    <3>1. x \in Nat /\ x <= n OBVIOUS
    <3> QED BY <3>1
  <2> QED BY <2>1
<1>2. PICK d \in D : \A e \in D : d <= e
  <2> HIDE DEF D
  <2> QED BY <1>1, LeastInSet
<1>3. PICK x \in S : d = n - x BY <1>2
<1>4. ASSUME NEW y \in S PROVE y <= x
  <2>1. d <= n - y BY <1>2
  <2> QED BY <1>3, <2>1
<1> QED BY <1>3, <1>4 DEF Max

LEMMA LinesAre ==
  ASSUME NEW items \in Seq(Nat)
  PROVE  Lines(items) \in Nat
<1> DEFINE n == Len(items)
           step == [i \in 1 .. n |-> [m \in Nat |-> m + items[i]]]
           Is(f) == f = [i \in 0 .. n |-> IF i = 0 THEN 0 ELSE f[i - 1] + items[i]]
           upto == CHOOSE f : Is(f)
<1>1. n \in Nat /\ \A i \in 1 .. n : items[i] \in Nat OBVIOUS
<1>2. step \in [1 .. n -> [Nat -> Nat]] BY <1>1
<1>3. \A i \in 1 .. n, m \in Nat : step[i][m] = m + items[i] OBVIOUS
<1>4. Lines(items) = upto[n] BY DEF Lines
<1> HIDE DEF step, n
<1>5. PICK g : Recursive(g, Nat, 0, n, step)
  <2>1. \A i \in 1 .. n : \A m \in Nat : step[i][m] \in Nat BY <1>1, <1>2
  <2> QED BY <1>1, <2>1, RecursionExists
<1>6. \A i \in 1 .. n : g[i] = g[i - 1] + items[i]
  <2> SUFFICES ASSUME NEW i \in 1 .. n PROVE g[i] = g[i - 1] + items[i] OBVIOUS
  <2>1. i - 1 \in 0 .. n BY <1>1
  <2>2. g[i - 1] \in Nat BY <1>5, <2>1 DEF Recursive
  <2> QED BY <1>3, <1>5, <2>2 DEF Recursive
<1>7. Is(g)
  <2>1. \A i \in 0 .. n : g[i] = IF i = 0 THEN 0 ELSE g[i - 1] + items[i]
    <3>1. \A i \in 0 .. n : i = 0 \/ i \in 1 .. n BY <1>1
    <3> QED BY <1>5, <1>6, <3>1 DEF Recursive
  <2> QED BY <1>5, <2>1 DEF Recursive
<1>8. Is(upto)
  <2> HIDE DEF Is
  <2> QED BY <1>7
<1> HIDE DEF upto
<1>9. upto[0] = 0 /\ \A i \in 1 .. n : upto[i] = upto[i - 1] + items[i]
  <2>1. \A i \in 0 .. n : upto[i] = IF i = 0 THEN 0 ELSE upto[i - 1] + items[i]
    <3> SUFFICES ASSUME NEW i \in 0 .. n
                 PROVE  upto[i] = IF i = 0 THEN 0 ELSE upto[i - 1] + items[i]
      OBVIOUS
    <3>1. upto = [j \in 0 .. n |-> IF j = 0 THEN 0 ELSE upto[j - 1] + items[j]] BY <1>8
    <3> QED BY <3>1, Zenon
  <2>2. 0 \in 0 .. n /\ \A i \in 1 .. n : i \in 0 .. n /\ i # 0 BY <1>1
  <2> QED BY <2>1, <2>2
<1>10. ASSUME NEW i \in 1 .. n, upto[i - 1] \in Nat PROVE upto[i] \in Nat
  <2>1. items[i] \in Nat /\ upto[i] = upto[i - 1] + items[i] BY <1>1, <1>9
  <2> QED BY <1>10, <2>1
<1>11. \A i \in 0 .. n : upto[i] \in Nat
  <2>1. upto[0] \in Nat BY <1>9
  <2> QED BY <1>1, <1>10, <2>1, AllStay, Zenon
<1> QED BY <1>1, <1>4, <1>11

USE AppAssumption, ScreenAssumption

-------------------------------------------------------------------------------
(***************************************************************************)
(* Screen implements App.                                                  *)
(***************************************************************************)
LEMMA StepSimulates == [ScreenNext]_screenVars => [Next]_vars
<1> SUFFICES ASSUME [ScreenNext]_screenVars PROVE [Next]_vars OBVIOUS
<1>1. CASE RunCommand
  <2>1. \/ Report \/ \E p \in Pids : Attach(p)
        \/ \E name \in Names : Scan(name)
        \/ ResetSession
        \/ \E arg \in Names : \E i \in Argument(arg) : SelectSession(i) \/ DeleteSession(i)
        \/ \E v \in Views : ShowView(v)
    BY <1>1 DEF RunCommand
  <2> QED BY <2>1 DEF Next
<1>2. CASE RunEmptyLine BY <1>2 DEF RunEmptyLine, Next
<1>3. CASE RunFilter BY <1>3 DEF RunFilter, Next
<1>4. CASE KeyEnter BY <1>4 DEF KeyEnter, Next
<1>5. CASE RunHelp \/ RunClear \/ SwitchMode \/ KeyUp \/ KeyDown \/ Resize
  BY <1>5 DEF RunHelp, RunClear, SwitchMode, KeyUp, KeyDown, Resize, Unmoved
<1>6. CASE UNCHANGED screenVars BY <1>6 DEF screenVars
<1> QED BY <1>1, <1>2, <1>3, <1>4, <1>5, <1>6 DEF ScreenNext

(***************************************************************************)
(* Whatever is on the terminal, the commands and keys do to the sessions   *)
(* what App says, whose theorems hold of them.                             *)
(***************************************************************************)
THEOREM ScreenIsApp == ScreenSpec => Spec
<1>1. ScreenInit => Init BY DEF ScreenInit
<1> QED BY <1>1, StepSimulates, PTL DEF ScreenSpec, Spec

-------------------------------------------------------------------------------
(***************************************************************************)
(* What TUI::invalidate() leaves.                                          *)
(***************************************************************************)
TUI == [height : Nat \ {0}, list : BOOLEAN, selected : Nat, index : Nat, scroll : Nat,
        items : Seq(Nat)]

\* The cached rows are rows of this list, and as many as fit.
Window(t, items) ==
  /\ Len(t.items) = Min({t.height, Len(items)})
  /\ t.items = SubSeq(items, t.index + 1, t.index + Len(t.items))

\* What no redrawing changes.
Alike(t, u) == t.height = u.height /\ t.list = u.list /\ t.selected = u.selected

LEMMA WindowIs ==
  ASSUME NEW items \in Seq(Nat), NEW i \in Nat, NEW n \in Nat, i + n <= Len(items)
  PROVE  /\ SubSeq(items, i + 1, i + n) \in Seq(Nat)
         /\ Len(SubSeq(items, i + 1, i + n)) = n
<1>1. i + 1 \in 1 .. Len(items) + 1 /\ i + n \in 0 .. Len(items) /\ i + 1 \in Int /\ i + n \in Int
  OBVIOUS
<1>2. \A k \in i + 1 .. i + n : items[k] \in Nat
  <2>1. \A k \in i + 1 .. i + n : k \in 1 .. Len(items) BY <1>1
  <2> QED BY <2>1, ElementOfSeq
<1>3. PICK a, b : a = i + 1 /\ b = i + n OBVIOUS
<1>4. /\ SubSeq(items, a, b) \in Seq(Nat)
      /\ Len(SubSeq(items, a, b)) = IF a <= b THEN b - a + 1 ELSE 0
  BY <1>1, <1>2, <1>3, SubSeqProperties
<1>5. (IF a <= b THEN b - a + 1 ELSE 0) = n BY <1>3
<1> QED BY <1>3, <1>4, <1>5

LEMMA InvalidateIs ==
  ASSUME NEW t \in TUI, NEW items \in Seq(Nat), NEW tail \in BOOLEAN
  PROVE  /\ Invalidate(t, items, tail) \in TUI
         /\ Alike(Invalidate(t, items, tail), t)
         /\ Window(Invalidate(t, items, tail), items)
<1> DEFINE count    == Len(items)
           showTail == tail /\ ~t.list
           cached   == Min({t.height, count})
           index    == IF count <= t.height THEN 0
                       ELSE IF showTail THEN count - t.height ELSE t.index
           index2   == IF index + cached >= count THEN count - cached ELSE index
           window   == SubSeq(items, index2 + 1, index2 + cached)
           scroll   == IF showTail /\ count > t.height THEN 0 ELSE t.scroll
           scroll2  == IF showTail /\ Lines(window) > t.height
                       THEN Lines(window) - t.height ELSE scroll
           r        == Invalidate(t, items, tail)
<1>1. count \in Nat /\ t.height \in Nat /\ t.index \in Nat /\ t.scroll \in Nat BY DEF TUI
<1>2. r = [t EXCEPT !.items = window, !.index = index2, !.scroll = scroll2] BY DEF Invalidate
<1> HIDE DEF r, count, showTail
<1>3. cached = IF t.height <= count THEN t.height ELSE count
  <2>1. PICK h \in Int : h = t.height BY <1>1
  <2>2. count \in Int BY <1>1
  <2>3. Min({h, count}) = IF h <= count THEN h ELSE count BY <2>2, MinIs, Zenon
  <2> QED BY <2>1, <2>3
<1>4. index \in Nat
  <2>1. PICK h \in Nat, k \in Nat : h = t.height /\ k = t.index BY <1>1
  <2>2. CASE count <= h BY <2>1, <2>2
  <2>3. CASE ~(count <= h) BY <1>1, <2>1, <2>3
  <2> QED BY <2>2, <2>3, Zenon
<1> HIDE DEF index
<1>5. cached \in Nat /\ cached <= count BY <1>1, <1>3
<1>6. index2 \in Nat /\ index2 + cached <= count
  <2> HIDE DEF cached, count
  <2> QED BY <1>1, <1>4, <1>5
<1> HIDE DEF index2
<1>7. window \in Seq(Nat) /\ Len(window) = cached
  <2>1. PICK c \in Nat : c = cached BY <1>5
  <2>2. index2 + c <= Len(items) BY <1>6, <2>1 DEF count
  <2>3. SubSeq(items, index2 + 1, index2 + c) \in Seq(Nat) /\ Len(SubSeq(items, index2 + 1, index2 + c)) = c
    BY <1>6, <2>2, WindowIs
  <2> QED BY <2>1, <2>3
<1> HIDE DEF cached, window
<1>8. scroll2 \in Nat
  <2>1. Lines(window) \in Nat BY <1>7, LinesAre
  <2> HIDE DEF showTail
  <2> QED BY <1>1, <2>1
<1> HIDE DEF scroll2
<1>9. /\ r \in TUI /\ r.items = window /\ r.index = index2
      /\ r.height = t.height /\ r.list = t.list /\ r.selected = t.selected
  BY <1>2, <1>6, <1>7, <1>8 DEF TUI
<1>10. Window(r, items)
  <2>1. cached = Min({r.height, Len(items)}) BY <1>9 DEF cached, count
  <2>2. window = SubSeq(items, r.index + 1, r.index + cached) BY <1>9 DEF window
  <2> QED BY <1>7, <1>9, <2>1, <2>2 DEF Window
<1> QED BY <1>9, <1>10 DEF r, Alike

\* The selection after TUI::mode_switched().
Inside(t, items) == t.list /\ items # <<>> => t.selected < Len(items)

LEMMA LessIs ==
  /\ \A m, n \in Int : Less(m, n) \in Nat
  /\ \A m \in Nat \ {0} : Less(m, 1) <= m - 1
<1>1. ASSUME NEW m \in Int, NEW n \in Int PROVE Less(m, n) \in Nat
  <2>1. PICK k \in Int : k = m - n OBVIOUS
  <2>2. k % SizeMax \in Nat OBVIOUS
  <2> QED BY <2>1, <2>2 DEF Less
<1>2. ASSUME NEW m \in Nat \ {0} PROVE Less(m, 1) <= m - 1
  <2>1. PICK k \in Nat : k = m - 1 OBVIOUS
  <2>2. k % SizeMax <= k OBVIOUS
  <2> QED BY <2>1, <2>2 DEF Less
<1> QED BY <1>1, <1>2

LEMMA HiddenIs ==
  ASSUME NEW t \in TUI
  PROVE  Hidden(t) \in Nat
<1> DEFINE P(i) == Lines(SubSeq(t.items, 1, i - 1)) < t.scroll
<1> HIDE DEF P
<1>1. Len(t.items) \in Nat BY DEF TUI
<1>2. IsFiniteSet(1 .. Len(t.items))
  <2>1. PICK n \in Int : n = Len(t.items) BY <1>1
  <2>2. 1 \in Int /\ n \in Int OBVIOUS
  <2>3. IsFiniteSet(1 .. n) BY <2>2, FS_Interval, Zenon
  <2> QED BY <2>1, <2>3
<1>3. {i \in 1 .. Len(t.items) : P(i)} \in SUBSET (1 .. Len(t.items)) OBVIOUS
<1>4. IsFiniteSet({i \in 1 .. Len(t.items) : P(i)}) BY <1>2, <1>3, FS_Subset
<1>5. Cardinality({i \in 1 .. Len(t.items) : P(i)}) \in Nat BY <1>4, FS_CardinalityType
<1> QED BY <1>5 DEF Hidden, P

LEMMA ModeSwitchedIs ==
  ASSUME NEW t \in TUI, NEW items \in Seq(Nat), NEW tail \in BOOLEAN
  PROVE  LET u == ModeSwitched(t, items, tail)
         IN  u \in TUI /\ u.list = t.list /\ Window(u, items) /\ Inside(u, items)
<1> DEFINE chosen == Min({t.index + Hidden(t), Less(Len(items), 1)})
           t2     == IF t.list THEN [t EXCEPT !.selected = chosen] ELSE t
<1>1. PICK a \in Nat, b \in Nat, c \in Nat :
        a = t.index + Hidden(t) /\ b = Less(Len(items), 1) /\ c = Len(items)
  <2>1. t.index \in Nat BY DEF TUI
  <2>2. t.index + Hidden(t) \in Nat BY <2>1, HiddenIs
  <2>3. Len(items) \in Nat /\ Len(items) \in Int /\ 1 \in Int OBVIOUS
  <2>4. Less(Len(items), 1) \in Nat BY <2>3, LessIs
  <2> QED BY <2>2, <2>3, <2>4
<1>2. chosen \in Nat /\ chosen <= b
  <2>1. a \in Int /\ b \in Int OBVIOUS
  <2>2. Min({a, b}) = IF a <= b THEN a ELSE b BY <2>1, MinIs, Zenon
  <2>3. chosen = Min({a, b}) BY <1>1
  <2> HIDE DEF chosen
  <2> QED BY <2>2, <2>3
<1>3. items # <<>> => chosen < Len(items)
  <2> SUFFICES ASSUME items # <<>> PROVE chosen < Len(items) OBVIOUS
  <2>1. c \in Nat \ {0} BY <1>1
  <2>2. b <= c - 1 BY <1>1, <2>1, LessIs
  <2> HIDE DEF chosen
  <2> QED BY <1>1, <1>2, <2>1, <2>2
<1> HIDE DEF chosen
<1>4. t2 \in TUI /\ t2.list = t.list /\ Inside(t2, items) BY <1>2, <1>3 DEF TUI, Inside
<1>5. ModeSwitched(t, items, tail) = Invalidate(t2, items, tail) BY DEF ModeSwitched, chosen
<1> HIDE DEF t2
<1>6. PICK u : u = Invalidate(t2, items, tail) OBVIOUS
<1>7. u \in TUI /\ Alike(u, t2) /\ Window(u, items) BY <1>4, <1>6, InvalidateIs
<1>8. u.list = t.list /\ Inside(u, items) BY <1>4, <1>7 DEF Alike, Inside
<1> QED BY <1>5, <1>6, <1>7, <1>8

LEMMA ShowTUIIs ==
  ASSUME NEW t \in TUI, NEW v, NEW items \in Seq(Nat), NEW tail \in BOOLEAN
  PROVE  LET u == ShowTUI(t, v, items, tail)
         IN  u \in TUI /\ Window(u, items) /\ Inside(u, items)
<1> DEFINE first == [t EXCEPT !.selected = 0]
           t2    == IF v = Data THEN ModeSwitched([first EXCEPT !.list = TRUE], items, tail)
                    ELSE first
<1>1. first \in TUI /\ [first EXCEPT !.list = TRUE] \in TUI BY DEF TUI
<1>2. t2 \in TUI /\ Inside(t2, items)
  <2>1. CASE v = Data
    <3>1. PICK w : w = [first EXCEPT !.list = TRUE] OBVIOUS
    <3>2. t2 = ModeSwitched(w, items, tail) BY <2>1, <3>1
    <3>3. w \in TUI BY <1>1, <3>1
    <3> HIDE DEF t2
    <3> QED BY <3>2, <3>3, ModeSwitchedIs
  <2>2. CASE v # Data
    <3>1. first.selected = 0 BY DEF TUI
    <3>2. items # <<>> => 0 < Len(items) OBVIOUS
    <3>3. t2 = first BY <2>2
    <3> QED BY <1>1, <3>1, <3>2, <3>3 DEF Inside
  <2> QED BY <2>1, <2>2
<1>3. ShowTUI(t, v, items, tail) = Invalidate(t2, items, tail) BY DEF ShowTUI
<1> HIDE DEF t2
<1>4. PICK u : u = Invalidate(t2, items, tail) OBVIOUS
<1>5. u \in TUI /\ Alike(u, t2) /\ Window(u, items) BY <1>2, <1>4, InvalidateIs
<1>6. Inside(u, items) BY <1>2, <1>5 DEF Alike, Inside
<1> QED BY <1>3, <1>4, <1>5, <1>6

-------------------------------------------------------------------------------
(***************************************************************************)
(* The rows of a view.                                                     *)
(***************************************************************************)
LEMMA RowsIs ==
  ASSUME NEW n \in Nat
  PROVE  Rows(n) \in Seq(Nat) /\ Len(Rows(n)) = n
<1>1. Rows(n) \in [1 .. n -> Nat] BY DEF Rows
<1> QED BY <1>1, SeqDef, LenProperties DEF Rows

LEMMA RowsOfIs ==
  ASSUME NEW v \in Ids \union Views, NEW s \in Seq(Session), NEW m \in Seq(Nat), NEW n \in Nat
  PROVE  RowsOf(v, s, m, n) \in Seq(Nat)
<1> DEFINE sizes == {0} \union {x.size : x \in {y \in Range(s) : y.id = v}}
<1>1. Max(sizes) \in Nat
  <2>1. \A x \in sizes : x \in 0 .. MaxMatches
    <3>1. \A y \in Range(s) : y \in Session BY DEF Range
    <3>2. \A y \in Session : y.size \in 0 .. MaxMatches BY DEF Session
    <3> QED BY <3>1, <3>2
  <2>2. MaxMatches \in Nat /\ \A x \in 0 .. MaxMatches : x \in Nat /\ x <= MaxMatches OBVIOUS
  <2>3. sizes # {} OBVIOUS
  <2> HIDE DEF sizes
  <2>4. sizes \subseteq Nat /\ \A x \in sizes : x <= MaxMatches BY <2>1, <2>2
  <2>5. Max(sizes) \in sizes BY <2>2, <2>3, <2>4, MaxIs
  <2> QED BY <2>4, <2>5
<1> HIDE DEF sizes
<1>2. PICK k \in Nat : k = Max(sizes) BY <1>1
<1>3. Rows(k) \in Seq(Nat) /\ Rows(n) \in Seq(Nat) BY RowsIs
<1>4. CASE v = Message BY <1>4 DEF RowsOf
<1>5. CASE v \in OtherViews BY <1>3, <1>5 DEF RowsOf
<1>6. CASE v \notin OtherViews /\ v # Message
  <2>1. RowsOf(v, s, m, n) = Rows(Max(sizes)) BY <1>6 DEF RowsOf, sizes
  <2> QED BY <1>2, <1>3, <2>1
<1> QED BY <1>4, <1>5, <1>6

-------------------------------------------------------------------------------
(***************************************************************************)
(* What printing leaves.                                                   *)
(***************************************************************************)
\* The messages and the terminal while a command prints.
Display == [messages : Seq(Nat), tui : TUI]

\* The lists a message view has while one message is added: see Printed.
LEMMA StepsAre ==
  ASSUME NEW m \in Seq(Nat), NEW drops \in 0 .. Len(m), NEW h \in Nat
  PROVE  LET steps == [i \in 1 .. drops |-> SubSeq(m, i + 1, Len(m))]
                        \o <<Append(SubSeq(m, drops + 1, Len(m)), h)>>
         IN  steps \in Seq(Seq(Nat)) /\ Len(steps) = drops + 1
<1> DEFINE dropped == [i \in 1 .. drops |-> SubSeq(m, i + 1, Len(m))]
           last    == Append(SubSeq(m, drops + 1, Len(m)), h)
<1>1. PICK n \in Nat : n = Len(m) OBVIOUS
<1>2. ASSUME NEW i \in Nat PROVE SubSeq(m, i + 1, Len(m)) \in Seq(Nat)
  <2>1. PICK a \in Int : a = i + 1 /\ a >= 1 BY <1>2
  <2>2. \A k \in a .. n : m[k] \in Nat
    <3>1. \A k \in a .. n : k \in 1 .. Len(m) BY <1>1, <2>1
    <3> QED BY <3>1, ElementOfSeq
  <2>3. n \in Int OBVIOUS
  <2>4. SubSeq(m, a, n) \in Seq(Nat) BY <2>2, <2>3, SubSeqProperties
  <2> QED BY <1>1, <2>1, <2>4
<1>3. dropped \in Seq(Seq(Nat)) /\ Len(dropped) = drops
  <2>1. drops \in Nat /\ \A i \in 1 .. drops : i \in Nat BY <1>1
  <2>2. dropped \in [1 .. drops -> Seq(Nat)] BY <1>2, <2>1
  <2> QED BY <2>1, <2>2, SeqDef, LenProperties
<1>4. last \in Seq(Nat) BY <1>2, AppendProperties
<1> HIDE DEF dropped, last
<1>5. <<last>> \in Seq(Seq(Nat)) /\ Len(<<last>>) = 1 BY <1>4
<1>6. dropped \o <<last>> \in Seq(Seq(Nat)) /\ Len(dropped \o <<last>>) = drops + 1
  <2>1. PICK p \in Seq(Seq(Nat)), q \in Seq(Seq(Nat)) : p = dropped /\ q = <<last>> BY <1>3, <1>5
  <2>2. p \o q \in Seq(Seq(Nat)) /\ Len(p \o q) = Len(p) + Len(q) BY ConcatProperties, Zenon
  <2> QED BY <1>3, <1>5, <2>1, <2>2
<1> QED BY <1>6 DEF dropped, last

\* The terminal after it was told of a sequence of lists, one after the other.
LEMMA NotifiedIs ==
  ASSUME NEW t \in TUI, NEW n \in Nat \ {0}, NEW steps \in Seq(Seq(Nat)), Len(steps) = n
  PROVE  LET notified[i \in 0 .. Len(steps)] ==
               IF i = 0 THEN t ELSE Invalidate(notified[i - 1], steps[i], TRUE)
         IN  /\ notified[Len(steps)] \in TUI
             /\ notified[Len(steps)].list = t.list
             /\ Window(notified[Len(steps)], steps[n])
<1> DEFINE S == {u \in TUI : u.list = t.list}
           step == [i \in 1 .. n |-> [u \in S |-> Invalidate(u, steps[i], TRUE)]]
           Is(f) == f = [i \in 0 .. Len(steps) |->
                           IF i = 0 THEN t ELSE Invalidate(f[i - 1], steps[i], TRUE)]
           notified == CHOOSE f : Is(f)
<1>1. \A i \in 1 .. n : steps[i] \in Seq(Nat) OBVIOUS
<1>2. ASSUME NEW i \in 1 .. n, NEW u \in S
      PROVE  Invalidate(u, steps[i], TRUE) \in S /\ Window(Invalidate(u, steps[i], TRUE), steps[i])
  <2>1. u \in TUI /\ u.list = t.list OBVIOUS
  <2>2. PICK r : r = Invalidate(u, steps[i], TRUE) OBVIOUS
  <2>3. r \in TUI /\ Alike(r, u) /\ Window(r, steps[i]) BY <1>1, <2>1, <2>2, InvalidateIs
  <2>4. r \in S BY <2>1, <2>3 DEF Alike
  <2> HIDE DEF S
  <2> QED BY <2>2, <2>3, <2>4
<1>3. t \in S OBVIOUS
<1> HIDE DEF S
<1>4. \A i \in 1 .. n : \A u \in S : step[i][u] = Invalidate(u, steps[i], TRUE) OBVIOUS
<1> HIDE DEF step
<1>5. PICK g : Recursive(g, S, t, n, step)
  <2>1. \A i \in 1 .. n : \A u \in S : step[i][u] \in S
    <3> SUFFICES ASSUME NEW i \in 1 .. n, NEW u \in S PROVE step[i][u] \in S OBVIOUS
    <3>1. step[i][u] = Invalidate(u, steps[i], TRUE) BY <1>4
    <3> QED BY <1>2, <3>1, Zenon
  <2>2. n \in Nat OBVIOUS
  <2> QED BY <1>3, <2>1, <2>2, RecursionExists, Zenon
<1>6. Is(g)
  <2>1. ASSUME NEW i \in 0 .. n
        PROVE  g[i] = IF i = 0 THEN t ELSE Invalidate(g[i - 1], steps[i], TRUE)
    <3>1. CASE i = 0 BY <1>5, <3>1 DEF Recursive
    <3>2. CASE i # 0
      <4>1. i \in 1 .. n /\ i - 1 \in 0 .. n BY <3>2
      <4>2. g[i - 1] \in S /\ g[i] = step[i][g[i - 1]] BY <1>5, <4>1 DEF Recursive
      <4> QED BY <1>4, <3>2, <4>1, <4>2
    <3> QED BY <3>1, <3>2
  <2>2. g = [i \in 0 .. n |-> g[i]] BY <1>5 DEF Recursive
  <2> QED BY <2>1, <2>2
<1>7. Is(notified)
  <2> HIDE DEF Is
  <2> QED BY <1>6
<1> HIDE DEF notified
<1>8. \A i \in 0 .. n :
        notified[i] = IF i = 0 THEN t ELSE Invalidate(notified[i - 1], steps[i], TRUE)
  <2> SUFFICES ASSUME NEW i \in 0 .. n
               PROVE  notified[i] = IF i = 0 THEN t ELSE Invalidate(notified[i - 1], steps[i], TRUE)
    OBVIOUS
  <2>1. notified = [j \in 0 .. n |->
                      IF j = 0 THEN t ELSE Invalidate(notified[j - 1], steps[j], TRUE)] BY <1>7
  <2> QED BY <2>1, Zenon
<1>9. ASSUME NEW i \in 1 .. n, notified[i - 1] \in S
      PROVE  notified[i] \in S /\ Window(notified[i], steps[i])
  <2>1. i \in 0 .. n /\ i # 0 OBVIOUS
  <2>2. notified[i] = Invalidate(notified[i - 1], steps[i], TRUE) BY <1>8, <2>1
  <2> QED BY <1>2, <1>9, <2>2
<1>10. \A i \in 0 .. n : notified[i] \in S
  <2>1. notified[0] \in S
    <3>1. 0 \in 0 .. n OBVIOUS
    <3> QED BY <1>3, <1>8, <3>1
  <2>2. n \in Nat OBVIOUS
  <2> QED BY <1>9, <2>1, <2>2, AllStay, Zenon
<1>11. notified[n] \in S /\ Window(notified[n], steps[n])
  <2>1. n \in 1 .. n /\ n - 1 \in 0 .. n OBVIOUS
  <2> QED BY <1>9, <1>10, <2>1
<1>12. notified[Len(steps)] \in TUI /\ notified[Len(steps)].list = t.list BY <1>11 DEF S
<1>13. Window(notified[Len(steps)], steps[n]) BY <1>11
<1> QED BY <1>12, <1>13 DEF notified

LEMMA PrintedIs ==
  ASSUME NEW d \in Display, NEW h \in Nat
  PROVE  /\ Printed(d, h) \in Display
         /\ Printed(d, h).tui.list = d.tui.list
         /\ shown = Message => Window(Printed(d, h).tui, Printed(d, h).messages)
         /\ shown # Message => Printed(d, h).tui = d.tui
<1> DEFINE m      == d.messages
           drops  == IF Len(m) > MessageMax THEN Len(m) - MessageMax \div 2 ELSE 0
           steps  == [i \in 1 .. drops |-> SubSeq(m, i + 1, Len(m))]
                       \o <<Append(SubSeq(m, drops + 1, Len(m)), h)>>
           Is(f)  == f = [i \in 0 .. Len(steps) |->
                            IF i = 0 THEN d.tui ELSE Invalidate(f[i - 1], steps[i], TRUE)]
           notified == CHOOSE f : Is(f)
<1>1. m \in Seq(Nat) /\ d.tui \in TUI BY DEF Display
<1>2. drops \in 0 .. Len(m)
  <2>1. PICK k \in Nat, x \in Nat : k = Len(m) /\ x = MessageMax BY <1>1
  <2>2. x \div 2 \in Nat /\ x \div 2 <= x OBVIOUS
  <2>3. PICK y \in Nat : y = x \div 2 /\ y <= x BY <2>2
  <2>4. k > x => k - y \in 0 .. k BY <2>3
  <2>5. 0 \in 0 .. k OBVIOUS
  <2>6. drops = IF k > x THEN k - y ELSE 0 BY <2>1, <2>3
  <2> HIDE DEF drops, m
  <2> QED BY <2>1, <2>4, <2>5, <2>6
<1>3. Printed(d, h) = [messages |-> Last(steps),
                       tui |-> IF shown = Message THEN notified[Len(steps)] ELSE d.tui]
  BY DEF Printed
<1> HIDE DEF m, drops
<1>4. steps \in Seq(Seq(Nat)) /\ Len(steps) = drops + 1 BY <1>1, <1>2, StepsAre
<1> HIDE DEF steps
<1>5. PICK n \in Nat \ {0} : n = Len(steps)
  <2>1. Len(m) \in Nat BY <1>1
  <2>2. drops + 1 \in Nat \ {0} BY <1>2, <2>1
  <2> QED BY <1>4, <2>2
<1>6. notified[Len(steps)] \in TUI /\ notified[Len(steps)].list = d.tui.list
      /\ Window(notified[Len(steps)], steps[n])
  BY <1>1, <1>4, <1>5, NotifiedIs
<1> HIDE DEF notified
<1>7. Last(steps) = steps[n] /\ steps[n] \in Seq(Nat) BY <1>4, <1>5 DEF Last
<1> QED BY <1>1, <1>3, <1>6, <1>7 DEF Display

\* The invariant of the screen, together with the one of the application.
ScreenTypeOK == tui \in TUI /\ messages \in Seq(Nat) /\ rows \in Nat

SInv == IInv /\ ScreenTypeOK /\ ScreenShowsList /\ SelectionListed

ShownRowsFit == ShownRows \in Seq(Nat) /\ Window(tui, ShownRows) /\ Inside(tui, ShownRows)

LEMMA SInvIs == SInv <=> IInv /\ ScreenTypeOK /\ ShownRowsFit
<1>1. ASSUME IInv, ScreenTypeOK PROVE ShownRows \in Seq(Nat)
  <2>1. shown \in Ids \union Views /\ sessions \in Seq(Session) BY <1>1 DEF IInv, TypeOK
  <2> QED BY <1>1, <2>1, RowsOfIs DEF ShownRows, ScreenTypeOK
<1>2. ASSUME ScreenTypeOK
      PROVE  Window(tui, ShownRows) /\ Inside(tui, ShownRows) <=> ScreenShowsList /\ SelectionListed
  BY DEF Window, Inside, ScreenShowsList, SelectionListed
<1> QED BY <1>1, <1>2 DEF SInv, ShownRowsFit

LEMMA LoggedIs ==
  ASSUME ScreenTypeOK
  PROVE  /\ Logged \in Nat
         /\ LoggedTUI \in TUI /\ LoggedTUI.list = tui.list
         /\ shown # History => Logged = rows /\ LoggedTUI = tui
         /\ shown = History => Window(LoggedTUI, Rows(Logged))
<1>1. rows \in Nat /\ tui \in TUI BY DEF ScreenTypeOK
<1>2. Logged \in Nat
  <2>1. PICK a \in Nat, b \in Nat : a = rows + 1 /\ b = MaxRows BY <1>1
  <2>2. a \in Int /\ b \in Int OBVIOUS
  <2>3. Min({a, b}) = IF a <= b THEN a ELSE b BY <2>2, MinIs, Zenon
  <2> QED BY <1>1, <2>1, <2>3 DEF Logged
<1>3. CASE shown = History
  <2>1. PICK items, u : items = Rows(Logged) /\ u = Invalidate(tui, items, TRUE) OBVIOUS
  <2>2. items \in Seq(Nat) BY <1>2, <2>1, RowsIs
  <2>3. u \in TUI /\ Alike(u, tui) /\ Window(u, items) BY <1>1, <2>1, <2>2, InvalidateIs
  <2>4. LoggedTUI = u BY <1>3, <2>1 DEF LoggedTUI
  <2> QED BY <1>2, <1>3, <2>1, <2>3, <2>4 DEF Alike
<1>4. CASE shown # History BY <1>1, <1>2, <1>4 DEF Logged, LoggedTUI
<1> QED BY <1>3, <1>4

LEMMA PrintsIs ==
  ASSUME SInv, NEW out \in Outputs
  PROVE  /\ Prints(out) \in Display
         /\ Prints(out).tui.list = tui.list
         /\ shown = Message => Window(Prints(out).tui, Prints(out).messages)
         /\ shown # Message => Prints(out).tui = LoggedTUI
<1> DEFINE base == [messages |-> messages, tui |-> LoggedTUI]
           n    == Len(out)
           S == {d \in Display : /\ d.tui.list = tui.list
                                 /\ shown = Message => Window(d.tui, d.messages)
                                 /\ shown # Message => d.tui = LoggedTUI}
           step == [i \in 1 .. n |-> [d \in S |-> Printed(d, out[i])]]
           Is(f) == f = [i \in 0 .. Len(out) |->
                           IF i = 0 THEN base ELSE Printed(f[i - 1], out[i])]
           after == CHOOSE f : Is(f)
<1>1. n \in Nat /\ \A i \in 1 .. n : out[i] \in Nat
  <2>1. out \in Seq(Nat \ {0}) BY OutputAssumption
  <2> QED BY <2>1, ElementOfSeq
<1>2. base \in S
  <2>1. IInv /\ ScreenTypeOK /\ ShownRowsFit BY SInvIs
  <2>2. LoggedTUI \in TUI /\ LoggedTUI.list = tui.list BY <2>1, LoggedIs
  <2>3. base \in Display BY <2>1, <2>2 DEF ScreenTypeOK, Display
  <2>4. ASSUME shown = Message PROVE Window(LoggedTUI, messages)
    <3>1. LoggedTUI = tui BY <2>1, <2>4, LoggedIs
    <3>2. ShownRows = messages BY <2>4 DEF ShownRows, RowsOf
    <3> QED BY <2>1, <3>1, <3>2 DEF ShownRowsFit
  <2> QED BY <2>2, <2>3, <2>4
<1>3. Prints(out) = after[n] BY DEF Prints
<1>4. ASSUME NEW i \in 1 .. n, NEW d \in S PROVE Printed(d, out[i]) \in S
  <2>1. d \in Display /\ d.tui.list = tui.list /\ (shown # Message => d.tui = LoggedTUI) OBVIOUS
  <2>2. PICK r : r = Printed(d, out[i]) OBVIOUS
  <2>3. /\ r \in Display /\ r.tui.list = d.tui.list
        /\ shown = Message => Window(r.tui, r.messages)
        /\ shown # Message => r.tui = d.tui
    BY <1>1, <2>1, <2>2, PrintedIs
  <2>4. r \in S BY <2>1, <2>3
  <2> HIDE DEF S
  <2> QED BY <2>2, <2>4
<1>5. \A d \in S : /\ d \in Display /\ d.tui.list = tui.list
                   /\ shown = Message => Window(d.tui, d.messages)
                   /\ shown # Message => d.tui = LoggedTUI
  OBVIOUS
<1> HIDE DEF S, base, n
<1>6. \A i \in 1 .. n : \A d \in S : step[i][d] = Printed(d, out[i]) OBVIOUS
<1> HIDE DEF step
<1>7. PICK g : Recursive(g, S, base, n, step)
  <2>1. \A i \in 1 .. n : \A d \in S : step[i][d] \in S
    <3> SUFFICES ASSUME NEW i \in 1 .. n, NEW d \in S PROVE step[i][d] \in S OBVIOUS
    <3>1. step[i][d] = Printed(d, out[i]) BY <1>6
    <3> QED BY <1>4, <3>1, Zenon
  <2> QED BY <1>1, <1>2, <2>1, RecursionExists, Zenon
<1>8. Is(g)
  <2>1. ASSUME NEW i \in 0 .. n PROVE g[i] = IF i = 0 THEN base ELSE Printed(g[i - 1], out[i])
    <3>1. CASE i = 0 BY <1>7, <3>1 DEF Recursive
    <3>2. CASE i # 0
      <4>1. i \in 1 .. n /\ i - 1 \in 0 .. n BY <1>1, <3>2
      <4>2. g[i - 1] \in S /\ g[i] = step[i][g[i - 1]] BY <1>7, <4>1 DEF Recursive
      <4> QED BY <1>6, <3>2, <4>1, <4>2
    <3> QED BY <3>1, <3>2
  <2>2. g = [i \in 0 .. n |-> g[i]] BY <1>7 DEF Recursive
  <2> QED BY <2>1, <2>2 DEF n
<1>9. Is(after)
  <2> HIDE DEF Is
  <2> QED BY <1>8
<1> HIDE DEF after
<1>10. \A i \in 0 .. n : after[i] = IF i = 0 THEN base ELSE Printed(after[i - 1], out[i])
  <2> SUFFICES ASSUME NEW i \in 0 .. n
               PROVE  after[i] = IF i = 0 THEN base ELSE Printed(after[i - 1], out[i])
    OBVIOUS
  <2>1. after = [j \in 0 .. n |-> IF j = 0 THEN base ELSE Printed(after[j - 1], out[j])]
    BY <1>9 DEF n
  <2> QED BY <2>1, Zenon
<1>11. ASSUME NEW i \in 1 .. n, after[i - 1] \in S PROVE after[i] \in S
  <2>1. i \in 0 .. n /\ i # 0 BY <1>1
  <2>2. after[i] = Printed(after[i - 1], out[i]) BY <1>10, <2>1
  <2> QED BY <1>4, <1>11, <2>2
<1>12. after[0] \in S
  <2>1. 0 \in 0 .. n BY <1>1
  <2> QED BY <1>2, <1>10, <2>1
<1>13. \A i \in 0 .. n : after[i] \in S BY <1>1, <1>11, <1>12, AllStay, Zenon
<1>14. after[n] \in S
  <2>1. n \in 0 .. n BY <1>1
  <2> QED BY <1>13, <2>1
<1> QED BY <1>3, <1>5, <1>14

-------------------------------------------------------------------------------
(***************************************************************************)
(* The commands.                                                           *)
(***************************************************************************)
LEMMA SInvNext == IInv' /\ ScreenTypeOK' /\ ShownRowsFit' => SInv'
BY SInvIs, PTL

\* What the next lists and the next terminal must agree on.
LEMMA FitNext ==
  ASSUME IInv', tui' \in TUI, messages' \in Seq(Nat), rows' \in Nat,
         Window(tui', ShownRows'), Inside(tui', ShownRows')
  PROVE  SInv'
<1>1. shown' \in Ids \union Views /\ sessions' \in Seq(Session) BY DEF IInv, TypeOK
<1>2. ShownRows' = RowsOf(shown', sessions', messages', rows') BY DEF ShownRows
<1>3. ShownRows' \in Seq(Nat) BY <1>1, <1>2, RowsOfIs
<1>4. ScreenTypeOK' BY DEF ScreenTypeOK
<1>5. ShownRowsFit' BY <1>3 DEF ShownRowsFit
<1> QED BY <1>4, <1>5, SInvNext

LEMMA TailsAre == \A v : TailFlags(v) \subseteq BOOLEAN
BY DEF TailFlags

LEMMA CountsAre ==
  ASSUME SInv, NEW v, NEW n \in RowCounts(v)
  PROVE  n \in Nat
<1>1. Logged \in Nat BY SInvIs, LoggedIs
<1>2. CASE v = History BY <1>1, <1>2 DEF RowCounts
<1>3. CASE v \in OtherViews \ {History}
  <2>1. RowCounts(v) = ListSizes BY <1>3 DEF RowCounts
  <2> QED BY <2>1
<1>4. CASE v \notin OtherViews
  <2>1. v # History BY <1>4
  <2>2. RowCounts(v) = {0} BY <1>4, <2>1 DEF RowCounts
  <2> QED BY <2>2
<1> QED BY <1>2, <1>3, <1>4

LEMMA ShowsHold ==
  ASSUME SInv, IInv', NEW out \in Outputs, ThenShows(out)
  PROVE  SInv'
<1>1. Prints(out) \in Display BY PrintsIs
<1>2. messages' \in Seq(Nat) /\ Prints(out).tui \in TUI BY <1>1 DEF ThenShows, Display
<1>3. rows' \in Nat BY CountsAre DEF ThenShows
<1>4. shown' \in Ids \union Views /\ sessions' \in Seq(Session) BY DEF IInv, TypeOK
<1>5. PICK items : items = RowsOf(shown', sessions', messages', rows') OBVIOUS
<1>6. items \in Seq(Nat) /\ ShownRows' = items BY <1>2, <1>3, <1>4, <1>5, RowsOfIs DEF ShownRows
<1>7. PICK tail \in BOOLEAN : tui' = ShowTUI(Prints(out).tui, shown', items, tail)
  BY <1>5, TailsAre DEF ThenShows
<1>8. tui' \in TUI /\ Window(tui', items) /\ Inside(tui', items) BY <1>2, <1>6, <1>7, ShowTUIIs
<1> QED BY <1>2, <1>3, <1>6, <1>8, FitNext

\* A command in command mode that leaves the shown view and its list, and
\* notifies view v: v is shown, or the list that is shown has not changed.
LEMMA NotifiesHold ==
  ASSUME SInv, IInv', NEW out \in Outputs, NEW v, ThenNotifies(out, v), ~tui.list,
         shown' = shown, v = shown \/ sessions' = sessions \/ shown \notin Ids
  PROVE  SInv'
<1>1. IInv /\ ScreenTypeOK /\ ShownRowsFit BY SInvIs
<1>2. /\ Prints(out) \in Display
      /\ Prints(out).tui.list = tui.list
      /\ shown = Message => Window(Prints(out).tui, Prints(out).messages)
      /\ shown # Message => Prints(out).tui = LoggedTUI
  BY PrintsIs
<1>3. messages' \in Seq(Nat) /\ Prints(out).tui \in TUI BY <1>2 DEF ThenNotifies, Display
<1>4. rows' \in Nat BY <1>1, LoggedIs DEF ThenNotifies
<1>5. shown' \in Ids \union Views /\ sessions' \in Seq(Session) BY DEF IInv, TypeOK
<1>6. PICK items : items = RowsOf(shown', sessions', messages', rows') OBVIOUS
<1>7. items \in Seq(Nat) /\ ShownRows' = items BY <1>3, <1>4, <1>5, <1>6, RowsOfIs DEF ShownRows
<1>8. tui' \in TUI /\ tui'.list = tui.list /\ Window(tui', items)
  <2>1. CASE v = shown
    <3>1. PICK tail \in BOOLEAN : tui' = Invalidate(Prints(out).tui, items, tail)
      BY <1>6, <2>1, TailsAre DEF ThenNotifies
    <3> QED BY <1>2, <1>3, <1>7, <3>1, InvalidateIs DEF Alike
  <2>2. CASE v # shown
    <3>1. tui' = Prints(out).tui /\ messages' = Prints(out).messages /\ rows' = Logged
      BY <2>2 DEF ThenNotifies
    <3>2. CASE shown = Message
      <4>1. items = messages' BY <1>6, <3>2 DEF RowsOf
      <4> QED BY <1>2, <1>3, <3>1, <3>2, <4>1
    <3>3. CASE shown = History
      <4>1. items = Rows(Logged) BY <1>6, <3>1, <3>3 DEF RowsOf
      <4>2. shown # Message BY <3>3
      <4> QED BY <1>1, <1>2, <1>3, <3>1, <3>3, <4>1, <4>2, LoggedIs
    <3>4. CASE shown \notin {Message, History}
      <4>1. rows' = rows /\ tui' = tui BY <1>1, <1>2, <3>1, <3>4, LoggedIs
      <4>2. items = ShownRows
        <5>1. CASE shown \in OtherViews BY <1>6, <3>4, <4>1, <5>1 DEF RowsOf, ShownRows
        <5>2. CASE shown \notin OtherViews
          <6>1. shown \in Ids BY <1>1, <3>4, <5>2 DEF IInv, TypeOK, Views
          <6>2. sessions' = sessions BY <2>2, <6>1
          <6> QED BY <1>6, <3>4, <5>2, <6>2 DEF RowsOf, ShownRows
        <5> QED BY <5>1, <5>2
      <4> QED BY <1>1, <4>1, <4>2 DEF ScreenTypeOK, ShownRowsFit
    <3> QED BY <3>2, <3>3, <3>4
  <2> QED BY <2>1, <2>2
<1>9. Inside(tui', items) BY <1>8 DEF Inside
<1> QED BY <1>3, <1>4, <1>7, <1>8, <1>9, FitNext

LEMMA CommandsHold ==
  ASSUME SInv, IInv', RunCommand \/ RunEmptyLine \/ RunFilter \/ RunHelp \/ RunClear
  PROVE  SInv'
<1>1. IInv /\ ScreenTypeOK /\ ShownRowsFit BY SInvIs
<1>2. CASE RunCommand
  <2>1. PICK out \in Outputs : ThenShows(out) BY <1>2 DEF RunCommand
  <2> QED BY <2>1, ShowsHold
<1>3. CASE RunEmptyLine
  <2>1. rows' = 0 /\ messages' = messages /\ sessions' = sessions
    BY <1>3 DEF RunEmptyLine, EmptyLine
  <2>2. shown' \in Ids \union Views /\ sessions' \in Seq(Session) BY DEF IInv, TypeOK
  <2>3. messages' \in Seq(Nat) /\ rows' \in Nat /\ tui \in TUI BY <1>1, <2>1 DEF ScreenTypeOK
  <2>4. PICK items : items = RowsOf(shown', sessions', messages', rows') OBVIOUS
  <2>5. items \in Seq(Nat) /\ ShownRows' = items BY <2>2, <2>3, <2>4, RowsOfIs DEF ShownRows
  <2>6. PICK tail \in BOOLEAN : tui' = ShowTUI(tui, shown', items, tail)
    BY <1>3, <2>1, <2>4, TailsAre DEF RunEmptyLine
  <2>7. tui' \in TUI /\ Window(tui', items) /\ Inside(tui', items) BY <2>3, <2>5, <2>6, ShowTUIIs
  <2> QED BY <2>3, <2>5, <2>7, FitNext
<1>4. CASE RunFilter
  <2>1. PICK out \in Outputs : ThenNotifies(out, current) BY <1>4 DEF RunFilter
  <2>2. ~tui.list /\ shown' = shown BY <1>4 DEF RunFilter, Filter
  <2>3. current = shown \/ shown \notin Ids BY <1>1 DEF IInv, ShownIsCurrent
  <2> QED BY <2>1, <2>2, <2>3, NotifiesHold
<1>5. CASE RunHelp
  <2>1. PICK out \in Outputs : ThenNotifies(out, Nothing) BY <1>5 DEF RunHelp
  <2>2. ~tui.list /\ shown' = shown /\ sessions' = sessions BY <1>5 DEF RunHelp, vars
  <2> QED BY <2>1, <2>2, NotifiesHold
<1>6. CASE RunClear
  <2>1. /\ ~tui.list /\ messages' = <<>> /\ rows' = Logged
        /\ shown' = shown /\ sessions' = sessions
    BY <1>6 DEF RunClear, vars
  <2>2. shown' \in Ids \union Views /\ sessions' \in Seq(Session) BY DEF IInv, TypeOK
  <2>3. /\ Logged \in Nat /\ LoggedTUI \in TUI /\ LoggedTUI.list = tui.list
        /\ shown # History => Logged = rows /\ LoggedTUI = tui
        /\ shown = History => Window(LoggedTUI, Rows(Logged))
    BY <1>1, LoggedIs
  <2>4. messages' \in Seq(Nat) /\ rows' \in Nat BY <2>1, <2>3
  <2>5. PICK items : items = RowsOf(shown', sessions', messages', rows') OBVIOUS
  <2>6. items \in Seq(Nat) /\ ShownRows' = items BY <2>2, <2>4, <2>5, RowsOfIs DEF ShownRows
  <2>7. tui' \in TUI /\ tui'.list = tui.list /\ Window(tui', items)
    <3>1. CASE shown = Message
      <4>1. PICK empty : empty = <<>> /\ tui' = Invalidate(LoggedTUI, empty, TRUE)
        BY <1>6, <3>1 DEF RunClear
      <4>2. empty = items BY <2>1, <2>5, <3>1, <4>1 DEF RowsOf
      <4>3. TRUE \in BOOLEAN OBVIOUS
      <4> QED BY <2>3, <2>6, <4>1, <4>2, <4>3, InvalidateIs DEF Alike
    <3>2. CASE shown = History
      <4>1. items = Rows(Logged) BY <2>1, <2>5, <3>2 DEF RowsOf
      <4>2. tui' = LoggedTUI BY <1>6, <3>2 DEF RunClear
      <4> QED BY <2>3, <3>2, <4>1, <4>2
    <3>3. CASE shown \notin {Message, History}
      <4>1. tui' = tui /\ rows' = rows BY <1>6, <2>1, <2>3, <3>3 DEF RunClear
      <4>2. items = ShownRows BY <2>1, <2>5, <3>3, <4>1 DEF RowsOf, ShownRows
      <4> QED BY <1>1, <4>1, <4>2 DEF ScreenTypeOK, ShownRowsFit
    <3> QED BY <3>1, <3>2, <3>3
  <2>8. Inside(tui', items) BY <2>1, <2>7 DEF Inside
  <2> QED BY <2>4, <2>6, <2>7, <2>8, FitNext
<1> QED BY <1>2, <1>3, <1>4, <1>5, <1>6

-------------------------------------------------------------------------------
(***************************************************************************)
(* The keys.                                                               *)
(***************************************************************************)
\* A key that only moves.
LEMMA MovedHolds ==
  ASSUME SInv, IInv', Unmoved,
         tui' \in TUI, Window(tui', ShownRows), Inside(tui', ShownRows)
  PROVE  SInv'
<1>1. ScreenTypeOK BY SInvIs
<1>2. shown' = shown /\ sessions' = sessions /\ messages' = messages /\ rows' = rows
  BY DEF Unmoved, vars
<1>3. ShownRows' = ShownRows BY <1>2 DEF ShownRows
<1> QED BY <1>1, <1>2, <1>3, FitNext DEF ScreenTypeOK

\* The selection stays where it is while the list is drawn again.
LEMMA RedrawnIs ==
  ASSUME NEW t \in TUI, NEW items \in Seq(Nat), NEW tail \in BOOLEAN, Inside(t, items)
  PROVE  /\ Invalidate(t, items, tail) \in TUI
         /\ Window(Invalidate(t, items, tail), items)
         /\ Inside(Invalidate(t, items, tail), items)
<1>1. PICK u : u = Invalidate(t, items, tail) OBVIOUS
<1>2. u \in TUI /\ Alike(u, t) /\ Window(u, items) BY <1>1, InvalidateIs
<1>3. Inside(u, items) BY <1>2 DEF Alike, Inside
<1> QED BY <1>1, <1>2, <1>3

LEMMA ScrolledIs ==
  ASSUME NEW t \in TUI, NEW items \in Seq(Nat), Window(t, items), Inside(t, items), NEW n \in Nat
  PROVE  LET u == [t EXCEPT !.scroll = n]
         IN  u \in TUI /\ Window(u, items) /\ Inside(u, items)
<1>1. PICK u : u = [t EXCEPT !.scroll = n] OBVIOUS
<1>2. /\ u \in TUI /\ u.items = t.items /\ u.index = t.index /\ u.height = t.height
      /\ u.list = t.list /\ u.selected = t.selected
  BY <1>1 DEF TUI
<1> QED BY <1>1, <1>2 DEF Window, Inside

LEMMA LinesAboveIs ==
  ASSUME NEW t \in TUI, NEW k \in Nat
  PROVE  LinesAbove(t, k) \in Nat
<1>1. t.items \in Seq(Nat) /\ t.index \in Nat BY DEF TUI
<1>2. PICK a \in Int, b \in Int : a = Len(t.items) /\ b = k - t.index BY <1>1
<1>3. PICK c \in Int : c = Min({a, b}) /\ c <= a
  <2>1. Min({a, b}) = IF a <= b THEN a ELSE b BY MinIs, Zenon
  <2> QED BY <2>1
<1>4. \A i \in 1 .. c : t.items[i] \in Nat
  <2>1. \A i \in 1 .. c : i \in 1 .. Len(t.items) BY <1>2, <1>3
  <2> QED BY <1>1, <2>1, ElementOfSeq
<1>5. 1 \in Int OBVIOUS
<1>6. SubSeq(t.items, 1, c) \in Seq(Nat) BY <1>4, <1>5, SubSeqProperties
<1>7. Lines(SubSeq(t.items, 1, c)) \in Nat BY <1>6, LinesAre
<1> QED BY <1>2, <1>3, <1>7 DEF LinesAbove

LEMMA KeyUpHolds == SInv /\ IInv' /\ KeyUp => SInv'
<1> SUFFICES ASSUME SInv, IInv', KeyUp PROVE SInv' OBVIOUS
<1>1. tui \in TUI /\ ShownRows \in Seq(Nat) /\ Inside(tui, ShownRows)
  BY SInvIs DEF ScreenTypeOK, ShownRowsFit
<1>2. tui.list /\ tui.selected # 0 /\ Unmoved BY DEF KeyUp
<1>3. PICK t : t = [tui EXCEPT !.selected = @ - 1] OBVIOUS
<1>4. /\ t \in TUI /\ t.list /\ t.selected = tui.selected - 1 /\ t.selected \in Nat
      /\ t.selected < tui.selected
  <2>0. PICK k \in Nat \ {0} : k = tui.selected BY <1>1, <1>2 DEF TUI
  <2>1. PICK n \in Nat : n = k - 1 /\ n < k OBVIOUS
  <2>2. t = [tui EXCEPT !.selected = n] BY <1>3, <2>0, <2>1
  <2> QED BY <1>1, <1>2, <2>0, <2>1, <2>2 DEF TUI
<1>5. Inside(t, ShownRows)
  <2> SUFFICES ASSUME ShownRows # <<>> PROVE t.selected < Len(ShownRows) BY DEF Inside
  <2>1. tui.selected < Len(ShownRows) BY <1>1, <1>2 DEF Inside
  <2>2. tui.selected \in Nat /\ Len(ShownRows) \in Nat BY <1>1 DEF TUI
  <2> QED BY <1>4, <2>1, <2>2
<1>6. CASE t.selected < t.index
  <2>1. PICK u : u = [t EXCEPT !.index = t.selected, !.scroll = 0] OBVIOUS
  <2>2. u \in TUI /\ Inside(u, ShownRows) BY <1>4, <1>5, <2>1 DEF TUI, Inside
  <2>3. Redraws(u) BY <1>3, <1>6, <2>1 DEF KeyUp
  <2>4. PICK tail \in BOOLEAN : tui' = Invalidate(u, ShownRows, tail) BY <2>3, TailsAre DEF Redraws
  <2>5. tui' \in TUI /\ Window(tui', ShownRows) /\ Inside(tui', ShownRows)
    BY <1>1, <2>2, <2>4, RedrawnIs
  <2> QED BY <1>2, <2>5, MovedHolds
<1>7. CASE ~(t.selected < t.index)
  <2>1. PICK tail \in BOOLEAN :
          LET t2 == Invalidate(t, ShownRows, tail)
          IN  tui' = [t2 EXCEPT !.scroll = Min({@, LinesAbove(t2, t2.selected)})]
    BY <1>3, <1>7, TailsAre DEF KeyUp
  <2>2. PICK t2 : t2 = Invalidate(t, ShownRows, tail) OBVIOUS
  <2>3. t2 \in TUI /\ Window(t2, ShownRows) /\ Inside(t2, ShownRows)
    BY <1>1, <1>4, <1>5, <2>2, RedrawnIs
  <2>4. t2.selected \in Nat /\ t2.scroll \in Nat BY <2>3 DEF TUI
  <2>5. PICK a \in Nat, b \in Nat : a = t2.scroll /\ b = LinesAbove(t2, t2.selected)
    BY <2>3, <2>4, LinesAboveIs
  <2>6. PICK n \in Nat : n = Min({a, b})
    <3>1. a \in Int /\ b \in Int OBVIOUS
    <3>2. Min({a, b}) = IF a <= b THEN a ELSE b BY <3>1, MinIs, Zenon
    <3> QED BY <3>2
  <2>7. tui' = [t2 EXCEPT !.scroll = n] BY <2>1, <2>2, <2>5, <2>6
  <2>8. tui' \in TUI /\ Window(tui', ShownRows) /\ Inside(tui', ShownRows)
    BY <1>1, <2>3, <2>7, ScrolledIs
  <2> QED BY <1>2, <2>8, MovedHolds
<1> QED BY <1>6, <1>7

LEMMA KeyDownHolds == SInv /\ IInv' /\ KeyDown => SInv'
<1> SUFFICES ASSUME SInv, IInv', KeyDown PROVE SInv' OBVIOUS
<1>1. tui \in TUI /\ ShownRows \in Seq(Nat) BY SInvIs DEF ScreenTypeOK, ShownRowsFit
<1>2. tui.list /\ tui.selected < Less(Len(ShownRows), 1) /\ Unmoved BY DEF KeyDown
<1>3. PICK t : t = [tui EXCEPT !.selected = @ + 1] OBVIOUS
<1>4. t \in TUI /\ t.selected = tui.selected + 1 /\ tui.selected \in Nat
  <2>1. PICK n \in Nat : n = tui.selected + 1 BY <1>1 DEF TUI
  <2>2. t = [tui EXCEPT !.selected = n] BY <1>3, <2>1
  <2> QED BY <1>1, <2>1, <2>2 DEF TUI
<1>5. Inside(t, ShownRows)
  <2> SUFFICES ASSUME ShownRows # <<>> PROVE t.selected < Len(ShownRows) BY DEF Inside
  <2>1. PICK c \in Nat \ {0} : c = Len(ShownRows) BY <1>1
  <2>2. Less(c, 1) \in Nat /\ Less(c, 1) <= c - 1
    <3>1. c \in Int /\ 1 \in Int OBVIOUS
    <3> QED BY <3>1, LessIs
  <2> QED BY <1>2, <1>4, <2>1, <2>2
<1>6. CASE t.selected >= t.index + Len(t.items)
  <2>1. PICK t1 : t1 = [t EXCEPT !.index = @ + 1] OBVIOUS
  <2>2. t1 \in TUI /\ Inside(t1, ShownRows)
    <3>1. PICK n \in Nat : n = t.index + 1 BY <1>4 DEF TUI
    <3>2. t1 = [t EXCEPT !.index = n] BY <2>1, <3>1
    <3> QED BY <1>4, <1>5, <3>2 DEF TUI, Inside
  <2>3. PICK tail \in BOOLEAN :
          LET t2 == Invalidate(t1, ShownRows, tail)
          IN  tui' = [t2 EXCEPT !.scroll = Less(Lines(t2.items), t2.height)]
    BY <1>3, <1>6, <2>1, TailsAre DEF KeyDown
  <2>4. PICK t2 : t2 = Invalidate(t1, ShownRows, tail) OBVIOUS
  <2>5. t2 \in TUI /\ Window(t2, ShownRows) /\ Inside(t2, ShownRows)
    BY <1>1, <2>2, <2>4, RedrawnIs
  <2>6. PICK a \in Int, b \in Int : a = Lines(t2.items) /\ b = t2.height
    <3>1. t2.items \in Seq(Nat) /\ t2.height \in Nat BY <2>5 DEF TUI
    <3> QED BY <3>1, LinesAre
  <2>7. PICK n \in Nat : n = Less(a, b) BY LessIs
  <2>8. tui' = [t2 EXCEPT !.scroll = n] BY <2>3, <2>4, <2>6, <2>7
  <2>9. tui' \in TUI /\ Window(tui', ShownRows) /\ Inside(tui', ShownRows)
    BY <1>1, <2>5, <2>8, ScrolledIs
  <2> QED BY <1>2, <2>9, MovedHolds
<1>7. CASE ~(t.selected >= t.index + Len(t.items))
  <2>1. PICK tail \in BOOLEAN :
          LET t2 == Invalidate(t, ShownRows, tail)
              above == LinesAbove(t2, t2.selected + 1)
          IN  tui' = [t2 EXCEPT !.scroll = IF above > t2.height THEN above - t2.height ELSE @]
    BY <1>3, <1>7, TailsAre DEF KeyDown
  <2>2. PICK t2 : t2 = Invalidate(t, ShownRows, tail) OBVIOUS
  <2>3. t2 \in TUI /\ Window(t2, ShownRows) /\ Inside(t2, ShownRows)
    BY <1>1, <1>4, <1>5, <2>2, RedrawnIs
  <2>4. t2.selected + 1 \in Nat /\ t2.scroll \in Nat /\ t2.height \in Nat BY <2>3 DEF TUI
  <2>5. PICK above \in Nat : above = LinesAbove(t2, t2.selected + 1)
    BY <2>3, <2>4, LinesAboveIs
  <2>6. PICK n \in Nat : n = IF above > t2.height THEN above - t2.height ELSE t2.scroll BY <2>4
  <2>7. tui' = [t2 EXCEPT !.scroll = n] BY <2>1, <2>2, <2>5, <2>6
  <2>8. tui' \in TUI /\ Window(tui', ShownRows) /\ Inside(tui', ShownRows)
    BY <1>1, <2>3, <2>7, ScrolledIs
  <2> QED BY <1>2, <2>8, MovedHolds
<1> QED BY <1>6, <1>7

LEMMA OtherKeysHold ==
  ASSUME SInv, IInv', SwitchMode \/ KeyEnter \/ Resize
  PROVE  SInv'
<1>1. tui \in TUI /\ ShownRows \in Seq(Nat) BY SInvIs DEF ScreenTypeOK, ShownRowsFit
<1>2. CASE SwitchMode
  <2>1. PICK t : t = [tui EXCEPT !.list = ~tui.list] OBVIOUS
  <2>2. t \in TUI BY <1>1, <2>1 DEF TUI
  <2>3. PICK tail \in BOOLEAN : tui' = ModeSwitched(t, ShownRows, tail)
    BY <1>2, <2>1, TailsAre DEF SwitchMode
  <2>4. tui' \in TUI /\ Window(tui', ShownRows) /\ Inside(tui', ShownRows)
    BY <1>1, <2>2, <2>3, ModeSwitchedIs
  <2> QED BY <1>2, <2>4, MovedHolds DEF SwitchMode
<1>3. CASE Resize
  <2>1. PICK h \in Heights, tail \in BOOLEAN :
          tui' = ShowTUI([tui EXCEPT !.height = h], shown, ShownRows, tail)
    BY <1>3, TailsAre DEF Resize
  <2>2. PICK t : t = [tui EXCEPT !.height = h] OBVIOUS
  <2>3. t \in TUI BY <1>1, <2>2 DEF TUI
  <2>4. tui' \in TUI /\ Window(tui', ShownRows) /\ Inside(tui', ShownRows)
    BY <1>1, <2>1, <2>2, <2>3, ShowTUIIs
  <2> QED BY <1>3, <2>4, MovedHolds DEF Resize
<1>4. CASE KeyEnter
  <2>1. <<1>> \in Outputs /\ TRUE \in BOOLEAN BY OutputAssumption
  <2>2. PICK d : d = Prints(<<1>>) OBVIOUS
  <2>3. d \in Display BY <2>1, <2>2, PrintsIs
  <2>4. d.messages \in Seq(Nat) /\ d.tui \in TUI BY <2>3 DEF Display
  <2>5. PICK t : t = ShowTUI(d.tui, Message, d.messages, TRUE) OBVIOUS
  <2>6. t \in TUI BY <2>1, <2>4, <2>5, ShowTUIIs
  <2>7. PICK u : u = [t EXCEPT !.list = FALSE] OBVIOUS
  <2>8. u \in TUI /\ ~u.list BY <2>6, <2>7 DEF TUI
  <2>9. /\ messages' = d.messages /\ tui' = Invalidate(u, d.messages, TRUE)
        /\ rows' = 0 /\ shown' = Message
    BY <1>4, <2>2, <2>5, <2>7 DEF KeyEnter, Attach, Show
  <2>10. tui' \in TUI /\ Window(tui', messages') /\ Inside(tui', messages')
    BY <2>1, <2>4, <2>8, <2>9, RedrawnIs DEF Inside
  <2>11. ShownRows' = messages' BY <2>9 DEF ShownRows, RowsOf
  <2> QED BY <2>4, <2>9, <2>10, <2>11, FitNext
<1> QED BY <1>2, <1>3, <1>4

-------------------------------------------------------------------------------
(***************************************************************************)
(* The theorems.                                                           *)
(***************************************************************************)
LEMMA ScreenNextHolds == SInv /\ [ScreenNext]_screenVars => SInv'
<1> SUFFICES ASSUME SInv, [ScreenNext]_screenVars PROVE SInv' OBVIOUS
<1>1. IInv' BY StepSimulates, NextHolds DEF SInv
<1>2. CASE RunCommand \/ RunEmptyLine \/ RunFilter \/ RunHelp \/ RunClear
  BY <1>1, <1>2, CommandsHold
<1>3. CASE KeyUp BY <1>1, <1>3, KeyUpHolds
<1>4. CASE KeyDown BY <1>1, <1>4, KeyDownHolds
<1>5. CASE SwitchMode \/ KeyEnter \/ Resize BY <1>1, <1>5, OtherKeysHold
<1>6. CASE UNCHANGED screenVars
  <2>1. /\ shown' = shown /\ sessions' = sessions /\ messages' = messages
        /\ rows' = rows /\ tui' = tui
    BY <1>6 DEF screenVars, vars
  <2>2. ShownRows' = ShownRows BY <2>1 DEF ShownRows
  <2>3. ScreenTypeOK' /\ ShownRowsFit'
    BY <2>1, <2>2, SInvIs DEF ScreenTypeOK, ShownRowsFit
  <2> QED BY <1>1, <2>3, SInvNext
<1> QED BY <1>2, <1>3, <1>4, <1>5, <1>6 DEF ScreenNext

LEMMA ScreenInitHolds == ScreenInit => SInv
<1> SUFFICES ASSUME ScreenInit PROVE SInv OBVIOUS
<1>1. IInv
  BY DEF ScreenInit, Init, IInv, TypeOK, CurrentListed, ShownIsCurrent, ViewIsShown, Ids, Views
<1>2. PICK h \in Heights :
        tui = [height |-> h, list |-> FALSE, selected |-> 0, index |-> 0, scroll |-> 0, items |-> <<>>]
  BY DEF ScreenInit
<1>3. messages = <<>> /\ rows = 0 /\ shown = Message BY DEF ScreenInit, Init
<1>4. ScreenTypeOK BY <1>2, <1>3 DEF ScreenTypeOK, TUI
<1>5. ShownRows = <<>> BY <1>3 DEF ShownRows, RowsOf
<1>6. Window(tui, <<>>)
  <2>1. h \in Int /\ 0 \in Int /\ 0 <= h OBVIOUS
  <2>2. Min({h, 0}) = IF h <= 0 THEN h ELSE 0 BY <2>1, MinIs, Zenon
  <2>3. Min({h, 0}) = 0 BY <2>1, <2>2
  <2> QED BY <1>2, <2>3 DEF Window
<1>7. ShownRowsFit BY <1>2, <1>5, <1>6 DEF ShownRowsFit, Inside
<1> QED BY <1>1, <1>4, <1>7, SInvIs

LEMMA ScreenInvariance == ScreenSpec => []SInv
BY ScreenInitHolds, ScreenNextHolds, PTL DEF ScreenSpec

(***************************************************************************)
(* The cached rows are rows of the list TUI::_provider has now, and as     *)
(* many as fit: no command changes a list without an invalidate().         *)
(***************************************************************************)
THEOREM RowsAreListed == ScreenSpec => []ScreenShowsList
<1>1. SInv => ScreenShowsList BY DEF SInv
<1> QED BY <1>1, ScreenInvariance, PTL

(***************************************************************************)
(* Enter and the keys of a view work on a row of the shown list, however   *)
(* lists shrink and views change: _content_selected_index is inside it.    *)
(***************************************************************************)
THEOREM SelectionIsListed == ScreenSpec => []SelectionListed
<1>1. SInv => SelectionListed BY DEF SInv
<1> QED BY <1>1, ScreenInvariance, PTL

(***************************************************************************)
(* With keys, messages and a terminal the prompt still names a session of  *)
(* the list, the matches on the screen are those of the current session,   *)
(* and every session left keeps its process and its place in the order.    *)
(***************************************************************************)
THEOREM ScreenKeepsSessions ==
  ScreenSpec => [](CurrentListed /\ ShownIsCurrent /\ ViewIsShown) /\ SessionsKept
BY ScreenIsApp, CurrentIsListed, ScreenAgrees, ViewAgrees, OthersAreKept, PTL
===============================================================================
