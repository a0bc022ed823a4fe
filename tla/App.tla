---------------------------------- MODULE App ----------------------------------
(***************************************************************************)
(* The command line of mypower: the attached process, the list of scan     *)
(* sessions, the current one and the content that is shown                 *)
(* (src/src/mypower.cpp, mypower.hpp, cmd_attach.cpp, cmd_session.cpp and  *)
(* the run methods of cmd_scan.cpp).                                       *)
(*                                                                         *)
(* A session is a record of its identity, its name, the process it was     *)
(* scanned in and the number of its matches; what a scan or a filter does  *)
(* to the matches is in SessionScan and SessionFilter.                     *)
(***************************************************************************)
EXTENDS Integers, Sequences

CONSTANTS
  Pids,        \* processes that can be attached
  Names,       \* names of sessions and arguments of the session command
  NumberOf,    \* name -> the number std::stoul reads off its front, or Nothing
  MaxMatches,  \* bound on the matches of a session
  MaxScans,    \* bound on the scans that find something
  Nothing,     \* an empty shared_ptr
  Message,     \* the message view
  OtherViews   \* the further views that commands show: history, regions, ...

ASSUME AppAssumption ==
  /\ NumberOf \in [Names -> Nat \union {Nothing}]
  /\ MaxMatches \in Nat \ {0} /\ MaxScans \in Nat
  /\ Nothing \notin Pids /\ Nothing \notin Nat
  /\ Nothing # Message /\ {Nothing, Message} \intersect OtherViews = {}
  /\ ({Nothing, Message} \union OtherViews) \intersect (1 .. MaxScans) = {}

VARIABLES
  process,   \* _process
  scans,     \* how many sessions were ever created
  sessions,  \* _session_views
  current,   \* the identity of _current_session_view, or Nothing
  view,      \* _current_view: Message, one of OtherViews or the identity of a session
  shown      \* the _provider of the TUI

vars == <<process, scans, sessions, current, view, shown>>

Ids     == 1 .. MaxScans
Views   == {Message} \union OtherViews
Session == [id : Ids, name : Names, pid : Pids, size : 0 .. MaxMatches]

Init ==
  /\ process \in Pids \union {Nothing}
  /\ scans = 0
  /\ sessions = <<>>
  /\ current = Nothing
  /\ view = Message
  /\ shown = Message

\* Mutant: the view shown is not recorded.
ShowForgets(v) == shown' = (IF v = Nothing THEN Message ELSE v) /\ UNCHANGED view

\* App::show and Application::show: an empty pointer shows the message view and
\* leaves _current_view as it is.
Show(v) ==
  IF v = Nothing THEN shown' = Message /\ UNCHANGED view
                 ELSE shown' = v /\ view' = v

\* A command reports something: an error, a usage text, an empty result.
Report ==
  /\ Show(Message)
  /\ UNCHANGED <<process, scans, sessions, current>>

\* Mutant: the view that is shown stays.
AttachQuietly(p) == process' = p /\ UNCHANGED <<scans, sessions, current, view, shown>>

\* Mutant: the sessions read through the process that is attached now.
AttachRebinds(p) ==
  /\ process' = p
  /\ sessions' = [i \in 1 .. Len(sessions) |-> [sessions[i] EXCEPT !.pid = p]]
  /\ Show(Message)
  /\ UNCHANGED <<scans, current>>

\* attach and selfattach.  Sessions keep the process they were created with.
Attach(p) ==
  /\ process' = p
  /\ Show(Message)
  /\ UNCHANGED <<scans, sessions, current>>

\* scan finds something; without a process, or when it finds nothing, it only
\* reports that.
Scan(name) ==
  /\ process # Nothing /\ scans < MaxScans
  /\ scans' = scans + 1
  /\ \E n \in 1 .. MaxMatches :
       sessions' = Append(sessions, [id |-> scans', name |-> name, pid |-> process, size |-> n])
  /\ current' = scans'
  /\ Show(scans')
  /\ UNCHANGED process

\* filter narrows the current session and leaves the view.
Filter ==
  /\ current # Nothing /\ process # Nothing
  /\ \E i \in 1 .. Len(sessions) :
       /\ sessions[i].id = current
       /\ \E n \in 0 .. sessions[i].size : sessions' = [sessions EXCEPT ![i].size = n]
  /\ UNCHANGED <<process, scans, current, view, shown>>

\* reset drops the matches and regions of the current session.
ResetSession ==
  /\ current # Nothing
  /\ \E i \in 1 .. Len(sessions) :
       /\ sessions[i].id = current
       /\ sessions' = [sessions EXCEPT ![i].size = 0]
  /\ Show(current)
  /\ UNCHANGED <<process, scans, current>>

\* The session an argument of the session command stands for: by number, counted
\* from zero, or else the first session of that name.
Argument(arg) ==
  {i \in 1 .. Len(sessions) :
     IF NumberOf[arg] # Nothing THEN i = NumberOf[arg] + 1
     ELSE sessions[i].name = arg /\ \A j \in 1 .. i - 1 : sessions[j].name # arg}

SelectSession(i) ==
  /\ current' = sessions[i].id
  /\ \/ UNCHANGED sessions
     \/ \E name \in Names : sessions' = [sessions EXCEPT ![i].name = name]
  /\ Show(current')
  /\ UNCHANGED <<process, scans>>

Without(s, i) == [k \in 1 .. Len(s) - 1 |-> IF k < i THEN s[k] ELSE s[k + 1]]

\* Mutants: the current session stays the deleted one; the screen keeps showing it.
DeleteSessionCurrent(i) ==
  /\ sessions' = Without(sessions, i)
  /\ Show(current)
  /\ UNCHANGED <<process, scans, current>>
DeleteSessionShown(i) ==
  /\ sessions' = Without(sessions, i)
  /\ current' = IF sessions' = <<>> THEN Nothing ELSE sessions'[1].id
  /\ UNCHANGED <<process, scans, view, shown>>

\* session --delete: the first of the others becomes the current session.
DeleteSession(i) ==
  /\ sessions' = Without(sessions, i)
  /\ current' = IF sessions' = <<>> THEN Nothing ELSE sessions'[1].id
  /\ Show(current')
  /\ UNCHANGED <<process, scans>>

\* msg, history and the commands that show a list of their own.
ShowView(v) ==
  /\ Show(v)
  /\ UNCHANGED <<process, scans, sessions, current>>

\* An empty line switches between the messages and the current session.
EmptyLine ==
  /\ Show(IF view = Message THEN current ELSE Message)
  /\ UNCHANGED <<process, scans, sessions, current>>

Next ==
  \/ Report
  \/ \E p \in Pids : Attach(p)
  \/ \E name \in Names : Scan(name)
  \/ Filter
  \/ ResetSession
  \/ \E arg \in Names : \E i \in Argument(arg) : SelectSession(i) \/ DeleteSession(i)
  \/ \E v \in Views : ShowView(v)
  \/ EmptyLine

Spec == Init /\ [][Next]_vars

-------------------------------------------------------------------------------
(***************************************************************************)
(* Properties.                                                             *)
(***************************************************************************)
TypeOK ==
  /\ process \in Pids \union {Nothing}
  /\ scans \in 0 .. MaxScans
  /\ sessions \in Seq(Session)
  /\ current \in Ids \union {Nothing}
  /\ view \in Ids \union Views /\ shown \in Ids \union Views

ListedIds == {sessions[i].id : i \in 1 .. Len(sessions)}

\* There is a current session exactly when there is a session, and it is one of
\* the list: no command leaves the prompt with a session that was deleted.
CurrentListed ==
  IF sessions = <<>> THEN current = Nothing ELSE current \in ListedIds

\* The matches on the screen are those the next filter narrows and the key that
\* updates values reads again.
ShownIsCurrent == shown \in Ids => shown = current

\* While there is a session, _current_view is what the screen shows, so that an
\* empty line leaves the messages for the session and comes back.
ViewIsShown == sessions # <<>> => view = shown

\* Session k of the list after a step was the one at place a before it.
WasAt(k, a) == sessions[a].id = sessions'[k].id /\ sessions[a].pid = sessions'[k].pid

\* Every session, also the only one, stays bound to the process its addresses
\* come from, whatever is attached meanwhile; and deleting a session deletes that
\* one: the others keep their order.
SessionsKept ==
  [][\A i, j \in 1 .. Len(sessions') :
       sessions'[i].id \in ListedIds /\ sessions'[j].id \in ListedIds /\ i <= j =>
         \E a, b \in 1 .. Len(sessions) :
           /\ WasAt(i, a) /\ WasAt(j, b)
           /\ i < j => a < b]_vars
===============================================================================
