------------------------------ MODULE App_proofs ------------------------------
(***************************************************************************)
(* The current session, the session list and the screen agree, for every   *)
(* number of sessions and every sequence of commands.                      *)
(***************************************************************************)
EXTENDS App, SequenceTheorems, WellFoundedInduction, TLAPS

-------------------------------------------------------------------------------
(***************************************************************************)
(* Numbers and recursive functions, for this module and those that extend  *)
(* it.                                                                     *)
(***************************************************************************)
\* A set of numbers that is not empty has a least one.
LEMMA LeastInSet ==
  ASSUME NEW S, S \subseteq Nat, S # {}
  PROVE  \E x \in S : \A y \in S : x <= y
<1>1. PICK x \in S : \A y \in S : <<y, x>> \notin OpToRel(<, Nat)
  BY NatLessThanWellFounded, WFMin
<1>2. \A y \in S : ~(y < x)
  <2> SUFFICES ASSUME NEW y \in S, y < x PROVE FALSE OBVIOUS
  <2>1. <<y, x>> \in Nat \X Nat BY <1>1
  <2>2. <<y, x>>[1] < <<y, x>>[2] OBVIOUS
  <2>3. <<y, x>> \in {ss \in Nat \X Nat : ss[1] < ss[2]} BY <2>1, <2>2
  <2> QED BY <1>1, <2>3 DEF OpToRel
<1>3. \A y \in S : x <= y BY <1>2
<1> QED BY <1>3

\* Induction on the places of a function.
LEMMA AllStay ==
  ASSUME NEW S, NEW n \in Nat, NEW f, f[0] \in S,
         \A i \in 1 .. n : f[i - 1] \in S => f[i] \in S
  PROVE  \A i \in 0 .. n : f[i] \in S
<1> DEFINE Bad == {i \in 0 .. n : f[i] \notin S}
<1> SUFFICES ASSUME Bad # {} PROVE FALSE OBVIOUS
<1>1. PICK i \in Bad : \A j \in Bad : i <= j
  <2>1. Bad \subseteq Nat OBVIOUS
  <2> HIDE DEF Bad
  <2> QED BY <2>1, LeastInSet
<1>2. i \in 1 .. n /\ f[i] \notin S BY <1>1
<1>3. i - 1 \in 0 .. n /\ ~(i <= i - 1) BY <1>2
<1>4. f[i - 1] \in S BY <1>1, <1>3
<1> QED BY <1>2, <1>4

\* g is defined at every place up to n from its value at the place before.
Recursive(g, S, base, n, step) ==
  g \in [0 .. n -> S] /\ g[0] = base /\ \A i \in 1 .. n : g[i] = step[i][g[i - 1]]

LEMMA RecursionExists ==
  ASSUME NEW S, NEW base \in S, NEW n \in Nat, NEW step,
         \A i \in 1 .. n : \A x \in S : step[i][x] \in S
  PROVE  \E g : Recursive(g, S, base, n, step)
<1> DEFINE Upto(m, g) == Recursive(g, S, base, m, step)
           Bad == {m \in 0 .. n : \A g : ~Upto(m, g)}
<1> SUFFICES ASSUME Bad # {} PROVE FALSE
  <2> HIDE DEF Upto
  <2>1. n \in 0 .. n OBVIOUS
  <2> QED BY <2>1 DEF Upto
<1>1. PICK m \in Bad : \A j \in Bad : m <= j
  <2>1. Bad \subseteq Nat OBVIOUS
  <2> HIDE DEF Bad
  <2> QED BY <2>1, LeastInSet
<1>2. m \in 0 .. n /\ \A g : ~Upto(m, g) BY <1>1
<1>3. m # 0
  <2> SUFFICES ASSUME m = 0 PROVE FALSE OBVIOUS
  <2>1. Upto(m, [i \in 0 .. 0 |-> base]) BY DEF Recursive
  <2> QED BY <1>2, <2>1
<1>4. m - 1 \in 0 .. n /\ ~(m <= m - 1) /\ m \in 1 .. n BY <1>2, <1>3
<1>5. PICK g : Upto(m - 1, g)
  <2>1. m - 1 \notin Bad BY <1>1, <1>4
  <2> QED BY <1>4, <2>1
<1> DEFINE h == [i \in 0 .. m |-> IF i = m THEN step[m][g[m - 1]] ELSE g[i]]
<1>6. \A i \in 0 .. m : i = m \/ i \in 0 .. m - 1 BY <1>4
<1>7. step[m][g[m - 1]] \in S
  <2>1. g[m - 1] \in S BY <1>4, <1>5 DEF Recursive
  <2> QED BY <1>4, <2>1
<1>8. h \in [0 .. m -> S] BY <1>5, <1>6, <1>7 DEF Recursive
<1>9. Upto(m, h)
  <2>1. h[0] = base BY <1>4, <1>5 DEF Recursive
  <2>2. ASSUME NEW i \in 1 .. m PROVE h[i] = step[i][h[i - 1]]
    <3>1. i - 1 \in 0 .. m - 1 /\ i - 1 \in 0 .. m /\ i - 1 # m /\ i \in 0 .. m BY <1>4
    <3>2. h[i - 1] = g[i - 1] BY <3>1
    <3>3. CASE i = m BY <3>1, <3>2, <3>3
    <3>4. CASE i # m
      <4>1. i \in 1 .. m - 1 BY <1>4, <3>4
      <4> QED BY <1>5, <3>1, <3>2, <3>4, <4>1 DEF Recursive
    <3> QED BY <3>3, <3>4
  <2> QED BY <1>8, <2>1, <2>2 DEF Recursive
<1> QED BY <1>2, <1>9

-------------------------------------------------------------------------------
(***************************************************************************)
(* The invariant.                                                          *)
(***************************************************************************)
IInv == TypeOK /\ CurrentListed /\ ShownIsCurrent /\ ViewIsShown

\* The list after the deletion of its session i.
LEMMA WithoutFacts ==
  ASSUME NEW S, NEW s \in Seq(S), NEW i \in 1 .. Len(s)
  PROVE  /\ Without(s, i) \in Seq(S)
         /\ Len(Without(s, i)) = Len(s) - 1
<1>1. Len(s) - 1 \in Nat /\ \A k \in 1 .. Len(s) : s[k] \in S OBVIOUS
<1>2. \A k \in 1 .. Len(s) - 1 : (IF k < i THEN s[k] ELSE s[k + 1]) \in S
  BY <1>1
<1>3. Without(s, i) \in [1 .. Len(s) - 1 -> S] BY <1>2 DEF Without
<1> QED BY <1>1, <1>3, SeqDef, LenProperties

LEMMA NextHolds == IInv /\ [Next]_vars => IInv'
<1> SUFFICES ASSUME IInv, [Next]_vars PROVE IInv'
    OBVIOUS
<1> USE AppAssumption
<1>0. /\ sessions \in Seq(Session) /\ process \in Pids \union {Nothing}
      /\ scans \in 0 .. MaxScans /\ current \in Ids \union {Nothing}
      /\ view \in Ids \union Views /\ shown \in Ids \union Views
  BY DEF IInv, TypeOK
<1>1. /\ Nothing \notin Ids /\ Nothing \notin Views
      /\ Views \intersect Ids = {} /\ Message \in Views
  BY DEF Ids, Views
<1>2. ASSUME UNCHANGED <<process, scans, sessions, current>>,
             NEW v \in Views \union {current}, Show(v)
      PROVE  IInv'
  <2>1. TypeOK' BY <1>0, <1>1, <1>2 DEF TypeOK, Show
  <2>2. CurrentListed' BY <1>2 DEF IInv, CurrentListed, ListedIds
  <2>3. ShownIsCurrent' BY <1>1, <1>2 DEF ShownIsCurrent, Show
  <2>4. ViewIsShown'
    <3>1. \A i \in 1 .. Len(sessions) : sessions[i] \in Session BY <1>0
    <3>2. ListedIds \subseteq Ids BY <3>1 DEF ListedIds, Session
    <3>3. sessions # <<>> => current \in Ids BY <3>2 DEF IInv, CurrentListed
    <3>4. sessions # <<>> => v # Nothing BY <1>1, <3>3
    <3> QED BY <1>2, <3>4 DEF ViewIsShown, Show
  <2> QED BY <2>1, <2>2, <2>3, <2>4 DEF IInv
<1>3. CASE Report \/ (\E v \in Views : ShowView(v)) \/ EmptyLine
  <2>1. CASE Report BY <1>1, <1>2, <2>1 DEF Report
  <2>2. CASE \E v \in Views : ShowView(v) BY <1>2, <2>2 DEF ShowView
  <2>3. CASE EmptyLine BY <1>1, <1>2, <2>3 DEF EmptyLine
  <2> QED BY <1>3, <2>1, <2>2, <2>3
<1>4. ASSUME NEW p \in Pids, Attach(p) PROVE IInv'
  <2>1. TypeOK' BY <1>0, <1>1, <1>4 DEF TypeOK, Attach, Show
  <2>2. CurrentListed' BY <1>4 DEF IInv, CurrentListed, ListedIds, Attach
  <2>3. ShownIsCurrent' /\ ViewIsShown'
    BY <1>1, <1>4 DEF ShownIsCurrent, ViewIsShown, Attach, Show
  <2> QED BY <2>1, <2>2, <2>3 DEF IInv
<1>5. ASSUME NEW name \in Names, Scan(name) PROVE IInv'
  <2>1. scans' \in Ids /\ scans' # Nothing BY <1>0, <1>5 DEF Scan, Ids
  <2>2. PICK n \in 1 .. MaxMatches :
          sessions' = Append(sessions, [id |-> scans', name |-> name, pid |-> process, size |-> n])
    BY <1>5 DEF Scan
  <2> DEFINE new == [id |-> scans', name |-> name, pid |-> process, size |-> n]
  <2>3. new \in Session /\ new.id = scans' BY <1>0, <1>5, <2>1 DEF Scan, Session
  <2> HIDE DEF new
  <2>4. /\ sessions' \in Seq(Session) /\ Len(sessions') = Len(sessions) + 1
        /\ sessions'[Len(sessions) + 1] = new
    BY <1>0, <2>2, <2>3 DEF new
  <2>5. current' = scans' /\ shown' = scans' /\ view' = scans' /\ process' = process
    BY <1>5, <2>1 DEF Scan, Show
  <2>6. scans' \in 0 .. MaxScans BY <2>1 DEF Ids
  <2>7. TypeOK' BY <1>0, <2>1, <2>4, <2>5, <2>6 DEF TypeOK
  <2>8. CurrentListed'
    <3>1. sessions' # <<>> /\ Len(sessions) + 1 \in 1 .. Len(sessions') BY <1>0, <2>4
    <3> QED BY <2>3, <2>4, <2>5, <3>1 DEF CurrentListed, ListedIds
  <2> QED BY <2>5, <2>7, <2>8 DEF IInv, ShownIsCurrent, ViewIsShown
<1>6. ASSUME NEW i \in 1 .. Len(sessions),
             NEW q \in Session, q.id = sessions[i].id, sessions' = [sessions EXCEPT ![i] = q]
      PROVE  /\ sessions' \in Seq(Session) /\ ListedIds' = ListedIds /\ sessions # <<>>
             /\ sessions' # <<>>
  <2>1. sessions' \in Seq(Session) /\ Len(sessions') = Len(sessions)
        /\ \A j \in 1 .. Len(sessions) : sessions'[j].id = sessions[j].id
    BY <1>0, <1>6
  <2> QED BY <1>0, <2>1 DEF ListedIds
<1>7. CASE Filter
  <2>0. PICK i \in 1 .. Len(sessions) :
          \E n \in 0 .. sessions[i].size : sessions' = [sessions EXCEPT ![i].size = n]
    BY <1>7 DEF Filter
  <2>1. PICK n \in 0 .. sessions[i].size : sessions' = [sessions EXCEPT ![i].size = n]
    BY <2>0
  <2>2. sessions[i] \in Session BY <1>0
  <2>3. PICK q : q = [sessions[i] EXCEPT !.size = n] OBVIOUS
  <2>4. q \in Session /\ q.id = sessions[i].id /\ sessions' = [sessions EXCEPT ![i] = q]
    BY <2>1, <2>2, <2>3 DEF Session
  <2>5. sessions' \in Seq(Session) /\ ListedIds' = ListedIds /\ sessions # <<>> /\ sessions' # <<>>
    BY <1>6, <2>4
  <2> QED
    BY <1>7, <2>5 DEF Filter, IInv, TypeOK, CurrentListed, ShownIsCurrent, ViewIsShown
<1>8. CASE ResetSession
  <2>1. PICK i \in 1 .. Len(sessions) : sessions' = [sessions EXCEPT ![i].size = 0]
    BY <1>8 DEF ResetSession
  <2>2. sessions[i] \in Session BY <1>0
  <2>3. PICK q : q = [sessions[i] EXCEPT !.size = 0] OBVIOUS
  <2>4. q \in Session /\ q.id = sessions[i].id /\ sessions' = [sessions EXCEPT ![i] = q]
    BY <2>1, <2>2, <2>3 DEF Session
  <2>5. sessions' \in Seq(Session) /\ ListedIds' = ListedIds /\ sessions # <<>> /\ sessions' # <<>>
    BY <1>6, <2>4
  <2> QED
    BY <1>1, <1>8, <2>5
       DEF ResetSession, Show, IInv, TypeOK, CurrentListed, ShownIsCurrent, ViewIsShown
<1>9. ASSUME NEW i \in 1 .. Len(sessions), SelectSession(i) PROVE IInv'
  <2>0. \A j \in 1 .. Len(sessions) : sessions[j] \in Session BY <1>0
  <2>1. sessions[i] \in Session /\ sessions[i].id \in Ids BY <1>9, <2>0 DEF Session
  <2>2. /\ sessions' \in Seq(Session) /\ ListedIds' = ListedIds /\ sessions # <<>>
        /\ sessions' # <<>>
    <3>1. CASE UNCHANGED sessions BY <1>0, <3>1 DEF ListedIds
    <3>2. CASE \E name \in Names : sessions' = [sessions EXCEPT ![i].name = name]
      <4>1. PICK name \in Names : sessions' = [sessions EXCEPT ![i].name = name] BY <3>2
      <4>2. PICK q : q = [sessions[i] EXCEPT !.name = name] OBVIOUS
      <4>3. q \in Session /\ q.id = sessions[i].id /\ sessions' = [sessions EXCEPT ![i] = q]
        BY <2>1, <4>1, <4>2 DEF Session
      <4> QED BY <1>6, <4>3
    <3> QED BY <1>9, <3>1, <3>2 DEF SelectSession
  <2>3. current' \in ListedIds BY <1>9 DEF SelectSession, ListedIds
  <2> QED
    BY <1>0, <1>1, <1>9, <2>1, <2>2, <2>3
       DEF SelectSession, Show, IInv, TypeOK, CurrentListed, ShownIsCurrent, ViewIsShown
<1>10. ASSUME NEW i \in 1 .. Len(sessions), DeleteSession(i) PROVE IInv'
  <2>1. sessions' \in Seq(Session) BY <1>0, <1>10, WithoutFacts DEF DeleteSession
  <2>2. CASE sessions' = <<>>
    BY <1>0, <1>1, <1>10, <2>1, <2>2
       DEF DeleteSession, Show, IInv, TypeOK, CurrentListed, ShownIsCurrent, ViewIsShown
  <2>3. CASE sessions' # <<>>
    <3>1. 1 \in 1 .. Len(sessions') /\ sessions'[1] \in Session BY <2>1, <2>3
    <3>2. current' = sessions'[1].id /\ current' \in Ids
      BY <1>10, <2>3, <3>1 DEF DeleteSession, Session
    <3>3. current' \in ListedIds' BY <3>1, <3>2 DEF ListedIds
    <3>4. shown' = current' /\ view' = current'
      BY <1>1, <1>10, <3>2 DEF DeleteSession, Show
    <3> QED
      BY <1>0, <1>10, <2>1, <2>3, <3>2, <3>3, <3>4
         DEF DeleteSession, IInv, TypeOK, CurrentListed, ShownIsCurrent, ViewIsShown
  <2> QED BY <2>2, <2>3
<1>11. CASE UNCHANGED vars
  BY <1>11 DEF vars, IInv, TypeOK, CurrentListed, ListedIds, ShownIsCurrent, ViewIsShown
<1> QED BY <1>3, <1>4, <1>5, <1>7, <1>8, <1>9, <1>10, <1>11 DEF Next, Argument

LEMMA Invariance == Spec => []IInv
<1>1. Init => IInv
  BY AppAssumption
     DEF Init, IInv, TypeOK, CurrentListed, ShownIsCurrent, ViewIsShown, Ids, Views
<1> QED BY <1>1, NextHolds, PTL DEF Spec

(***************************************************************************)
(* The application's pointers keep their types.                            *)
(***************************************************************************)
THEOREM TypeCorrect == Spec => []TypeOK
<1>1. IInv => TypeOK BY DEF IInv
<1> QED BY <1>1, Invariance, PTL

(***************************************************************************)
(* No command leaves the prompt with a session that is not in the list.    *)
(***************************************************************************)
THEOREM CurrentIsListed == Spec => []CurrentListed
<1>1. IInv => CurrentListed BY DEF IInv
<1> QED BY <1>1, Invariance, PTL

(***************************************************************************)
(* The matches on the screen are those the next filter narrows.            *)
(***************************************************************************)
THEOREM ScreenAgrees == Spec => []ShownIsCurrent
<1>1. IInv => ShownIsCurrent BY DEF IInv
<1> QED BY <1>1, Invariance, PTL

(***************************************************************************)
(* While there is a session, _current_view is what the screen shows: an    *)
(* empty line knows what to switch to.                                     *)
(***************************************************************************)
THEOREM ViewAgrees == Spec => []ViewIsShown
<1>1. IInv => ViewIsShown BY DEF IInv
<1> QED BY <1>1, Invariance, PTL

-------------------------------------------------------------------------------
(***************************************************************************)
(* What becomes of the session list.                                       *)
(***************************************************************************)
\* Every identity in the list has been given out.
Issued == \A k \in 1 .. Len(sessions) : sessions[k].id <= scans

\* A step keeps all sessions in their places, appends a new one, or deletes one.
Kept ==
  /\ Len(sessions') = Len(sessions) /\ scans' = scans
  /\ \A k \in 1 .. Len(sessions) :
       sessions'[k].id = sessions[k].id /\ sessions'[k].pid = sessions[k].pid

Appended ==
  /\ Len(sessions') = Len(sessions) + 1 /\ scans' = scans + 1
  /\ \A k \in 1 .. Len(sessions) : sessions'[k] = sessions[k]
  /\ sessions'[Len(sessions) + 1].id = scans'

Deleted ==
  /\ scans' = scans
  /\ \E i \in 1 .. Len(sessions) : sessions' = Without(sessions, i)

LEMMA ListSteps == IInv /\ [Next]_vars => Kept \/ Appended \/ Deleted
<1> SUFFICES ASSUME IInv, [Next]_vars PROVE Kept \/ Appended \/ Deleted
    OBVIOUS
<1>1. sessions \in Seq(Session) /\ scans \in Nat
  BY AppAssumption DEF IInv, TypeOK
<1>2. ASSUME UNCHANGED <<scans, sessions>> PROVE Kept BY <1>2 DEF Kept
<1>3. ASSUME UNCHANGED scans, NEW i \in 1 .. Len(sessions), NEW q,
             q.id = sessions[i].id, q.pid = sessions[i].pid,
             sessions' = [sessions EXCEPT ![i] = q]
      PROVE  Kept
  BY <1>1, <1>3 DEF Kept
<1>4. ASSUME NEW name \in Names, Scan(name) PROVE Appended
  <2>1. PICK n \in 1 .. MaxMatches :
          sessions' = Append(sessions, [id |-> scans', name |-> name, pid |-> process, size |-> n])
    BY <1>4 DEF Scan
  <2> QED BY <1>1, <1>4, <2>1 DEF Scan, Appended
<1>5. CASE Filter
  <2>1. PICK i \in 1 .. Len(sessions) :
          \E n \in 0 .. sessions[i].size : sessions' = [sessions EXCEPT ![i].size = n]
    BY <1>5 DEF Filter
  <2>2. PICK n \in 0 .. sessions[i].size : sessions' = [sessions EXCEPT ![i].size = n]
    BY <2>1
  <2>3. PICK q : q = [sessions[i] EXCEPT !.size = n] OBVIOUS
  <2>4. sessions[i] \in Session BY <1>1
  <2>5. q.id = sessions[i].id /\ q.pid = sessions[i].pid /\ sessions' = [sessions EXCEPT ![i] = q]
    BY <2>2, <2>3, <2>4 DEF Session
  <2> QED BY <1>3, <1>5, <2>5 DEF Filter
<1>6. CASE ResetSession
  <2>1. PICK i \in 1 .. Len(sessions) : sessions' = [sessions EXCEPT ![i].size = 0]
    BY <1>6 DEF ResetSession
  <2>2. PICK q : q = [sessions[i] EXCEPT !.size = 0] OBVIOUS
  <2>3. sessions[i] \in Session BY <1>1
  <2>4. q.id = sessions[i].id /\ q.pid = sessions[i].pid /\ sessions' = [sessions EXCEPT ![i] = q]
    BY <2>1, <2>2, <2>3 DEF Session
  <2> QED BY <1>3, <1>6, <2>4 DEF ResetSession
<1>7. ASSUME NEW i \in 1 .. Len(sessions), SelectSession(i) PROVE Kept
  <2>1. CASE UNCHANGED sessions BY <1>2, <1>7, <2>1 DEF SelectSession
  <2>2. CASE \E name \in Names : sessions' = [sessions EXCEPT ![i].name = name]
    <3>1. PICK name \in Names : sessions' = [sessions EXCEPT ![i].name = name] BY <2>2
    <3>2. PICK q : q = [sessions[i] EXCEPT !.name = name] OBVIOUS
    <3>3. sessions[i] \in Session BY <1>1
    <3>4. q.id = sessions[i].id /\ q.pid = sessions[i].pid /\ sessions' = [sessions EXCEPT ![i] = q]
      BY <3>1, <3>2, <3>3 DEF Session
    <3> QED BY <1>3, <1>7, <3>4 DEF SelectSession
  <2> QED BY <1>7, <2>1, <2>2 DEF SelectSession
<1>8. ASSUME NEW i \in 1 .. Len(sessions), DeleteSession(i) PROVE Deleted
  BY <1>8 DEF DeleteSession, Deleted
<1>9. CASE \/ Report \/ EmptyLine \/ UNCHANGED vars
           \/ (\E p \in Pids : Attach(p)) \/ (\E v \in Views : ShowView(v))
  BY <1>2, <1>9 DEF Report, EmptyLine, Attach, ShowView, vars
<1> QED BY <1>4, <1>5, <1>6, <1>7, <1>8, <1>9 DEF Next, Argument

\* The places of the sessions that are left when one is deleted.
LEMMA WithoutPlaces ==
  ASSUME NEW S, NEW s \in Seq(S), NEW d \in 1 .. Len(s)
  PROVE  \A k \in 1 .. Len(Without(s, d)) :
           /\ Without(s, d)[k] = s[IF k < d THEN k ELSE k + 1]
           /\ (IF k < d THEN k ELSE k + 1) \in 1 .. Len(s)
BY WithoutFacts DEF Without

LEMMA IssuedHolds == IInv /\ Issued /\ [Next]_vars => Issued'
<1> SUFFICES ASSUME IInv, Issued, [Next]_vars PROVE Issued'
    OBVIOUS
<1>1. sessions \in Seq(Session) /\ scans \in Nat
  BY AppAssumption DEF IInv, TypeOK
<1>2. \A k \in 1 .. Len(sessions) : sessions[k] \in Session /\ sessions[k].id \in Nat
  <2>1. \A k \in 1 .. Len(sessions) : sessions[k] \in Session BY <1>1
  <2> QED BY <2>1, AppAssumption DEF Session, Ids
<1>3. CASE Kept BY <1>3 DEF Kept, Issued
<1>4. CASE Appended
  <2> SUFFICES ASSUME NEW k \in 1 .. Len(sessions') PROVE sessions'[k].id <= scans'
      BY DEF Issued
  <2>1. k \in 1 .. Len(sessions) \/ k = Len(sessions) + 1 BY <1>1, <1>4 DEF Appended
  <2> QED BY <1>1, <1>2, <1>4, <2>1 DEF Appended, Issued
<1>5. CASE Deleted
  <2>1. PICK d \in 1 .. Len(sessions) : sessions' = Without(sessions, d) BY <1>5 DEF Deleted
  <2>2. \A k \in 1 .. Len(sessions') :
          \E n \in 1 .. Len(sessions) : sessions'[k] = sessions[n]
    BY <1>1, <2>1, WithoutPlaces
  <2> QED BY <1>5, <2>2 DEF Deleted, Issued
<1> QED BY <1>3, <1>4, <1>5, ListSteps

(***************************************************************************)
(* Every session that a command leaves, also a lone one, keeps the process *)
(* it was scanned in, whatever is attached, and the sessions their order.  *)
(***************************************************************************)
THEOREM OthersAreKept == Spec => SessionsKept
<1> DEFINE Step ==
      \A i, j \in 1 .. Len(sessions') :
        sessions'[i].id \in ListedIds /\ sessions'[j].id \in ListedIds /\ i <= j =>
          \E a, b \in 1 .. Len(sessions) :
            /\ WasAt(i, a) /\ WasAt(j, b)
            /\ i < j => a < b
<1>1. IInv /\ Issued /\ [Next]_vars => Step
  <2> SUFFICES ASSUME IInv, Issued, [Next]_vars,
                      NEW i \in 1 .. Len(sessions'), NEW j \in 1 .. Len(sessions'),
                      sessions'[i].id \in ListedIds, sessions'[j].id \in ListedIds, i <= j
               PROVE  \E a, b \in 1 .. Len(sessions) :
                        /\ WasAt(i, a) /\ WasAt(j, b)
                        /\ i < j => a < b
    OBVIOUS
  <2> USE DEF WasAt
  <2>1. sessions \in Seq(Session) /\ Len(sessions) \in Nat /\ scans \in Nat
    BY AppAssumption DEF IInv, TypeOK
  <2>2. CASE Kept BY <2>1, <2>2 DEF Kept
  <2>3. CASE Appended
    <3>1. ~(Len(sessions) + 1 \in {i, j})
      <4>1. \A id \in ListedIds : id <= scans BY DEF Issued, ListedIds
      <4>2. sessions'[Len(sessions) + 1].id = scans + 1 BY <2>3 DEF Appended
      <4>3. ~(scans + 1 <= scans) BY <2>1
      <4> QED BY <4>1, <4>2, <4>3
    <3>2. i \in 1 .. Len(sessions) /\ j \in 1 .. Len(sessions)
      BY <2>1, <2>3, <3>1 DEF Appended
    <3> QED BY <2>3, <3>2 DEF Appended
  <2>4. CASE Deleted
    <3>1. PICK d \in 1 .. Len(sessions) : sessions' = Without(sessions, d) BY <2>4 DEF Deleted
    <3> DEFINE place(k) == IF k < d THEN k ELSE k + 1
    <3>2. \A k \in 1 .. Len(sessions') :
            sessions'[k] = sessions[place(k)] /\ place(k) \in 1 .. Len(sessions)
      BY <2>1, <3>1, WithoutPlaces
    <3>3. i < j => place(i) < place(j) BY <2>1
    <3> HIDE DEF place
    <3> QED BY <3>2, <3>3
  <2> QED BY <2>2, <2>3, <2>4, ListSteps
<1>2. Init => Issued BY DEF Init, Issued
<1>3. Spec => []Issued BY <1>2, Invariance, IssuedHolds, PTL DEF Spec
<1>4. IInv /\ Issued /\ [Next]_vars => [Step]_vars BY <1>1
<1> QED BY <1>3, <1>4, Invariance, PTL DEF Spec, SessionsKept
===============================================================================
