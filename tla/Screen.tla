--------------------------------- MODULE Screen ---------------------------------
(***************************************************************************)
(* What is on the terminal (src/tui/tui.cpp, tui.hpp), on top of the       *)
(* application: the window of the shown list, its cached rows, the         *)
(* selection and the two modes.  A command of App prints messages, changes *)
(* a list and shows one, and every such call reaches the TUI by            *)
(* tui_notify_changed() or show(); a key of the list mode only moves.      *)
(*                                                                         *)
(* A row is known by its height in lines.  Keys that make a view print its *)
(* rows in another way, and the timeouts of a data view, only call         *)
(* invalidate() again and are left out.                                    *)
(***************************************************************************)
EXTENDS App, FiniteSetsExt, SequencesExt

CONSTANTS
  History, Data, Processes,  \* the OtherViews told apart
  Heights,      \* content heights a terminal may have
  MessageMax,   \* _message_max
  Outputs,      \* what a command may print: sequences of the heights of messages
  ListSizes,    \* how many rows a data view or a list of processes may have
  MaxRows,      \* bound on the rows of the history
  MaxSelected,  \* bound on how far the selection moves in an empty list
  SizeMax       \* 2^64: sizes and indices wrap around there

ASSUME ScreenAssumption ==
  /\ OtherViews = {History, Data, Processes}
  /\ Heights \subseteq Nat \ {0} /\ Heights # {}
  /\ MessageMax \in Nat \ {0} /\ MaxRows \in Nat \ {0} /\ ListSizes \subseteq Nat
  /\ MaxSelected \in Nat /\ SizeMax \in Nat \ {0}

\* What attach prints is one line.
ASSUME OutputAssumption ==
  Outputs \subseteq Seq(Nat \ {0}) /\ {<<>>, <<1>>} \subseteq Outputs

VARIABLES
  messages,  \* the rows of the message view
  rows,      \* how many rows the other view has that is shown
  tui        \* [height: content_height; list: ~_command_mode; selected, index, scroll: the
             \* _content_*_index and _content_scroll_lines; items: _content_cached_items]

screenVars == <<vars, messages, rows, tui>>

ScreenInit ==
  /\ Init
  /\ messages = <<>> /\ rows = 0
  /\ tui \in [height : Heights, list : {FALSE}, selected : {0}, index : {0}, scroll : {0}, items : {<<>>}]

\* The lines of all rows together.
Lines(items) ==
  LET upto[i \in 0 .. Len(items)] == IF i = 0 THEN 0 ELSE upto[i - 1] + items[i]
  IN  upto[Len(items)]

Rows(n) == [i \in 1 .. n |-> 1]

\* The rows of view v, when the sessions are s, the messages m and another view
\* has n rows.
RowsOf(v, s, m, n) ==
  CASE v = Message       -> m
    [] v \in OtherViews  -> Rows(n)
    [] OTHER             -> Rows(Max({0} \union {x.size : x \in {y \in Range(s) : y.id = v}}))

\* ContentProviderFlagAutoScrollTail.  Only these two views set their flags,
\* those of the others are not initialised.
TailFlags(v) == IF v \in {Message, History} THEN {TRUE} ELSE BOOLEAN

\* TUI::invalidate
Invalidate(t, items, tail) ==
  LET count    == Len(items)
      showTail == tail /\ ~t.list
      cached   == Min({t.height, count})
      index    == IF count <= t.height THEN 0
                  ELSE IF showTail THEN count - t.height ELSE t.index
      index2   == IF index + cached >= count THEN count - cached ELSE index
      window   == SubSeq(items, index2 + 1, index2 + cached)
      scroll   == IF showTail /\ count > t.height THEN 0 ELSE t.scroll
  IN  [t EXCEPT !.items = window,
                !.index = index2,
                !.scroll = IF showTail /\ Lines(window) > t.height
                           THEN Lines(window) - t.height ELSE scroll]

\* What an unsigned subtraction yields.
Less(m, n) == (m - n) % SizeMax

\* How many of the cached rows begin above the first visible line.
Hidden(t) ==
  Cardinality({i \in 1 .. Len(t.items) : Lines(SubSeq(t.items, 1, i - 1)) < t.scroll})

\* Mutant: the selection is not limited to the list.
ModeSwitchedUnlimited(t, items, tail) ==
  Invalidate(IF t.list THEN [t EXCEPT !.selected = t.index + Hidden(t)] ELSE t, items, tail)

\* TUI::mode_switched: the list mode begins at the first visible row.  The
\* cached rows may still be those of the view shown before.
ModeSwitched(t, items, tail) ==
  Invalidate(IF t.list
             THEN [t EXCEPT !.selected = Min({t.index + Hidden(t), Less(Len(items), 1)})]
             ELSE t,
             items, tail)

\* TUI::show of view v; a data view asks for the list mode.
ShowTUI(t, v, items, tail) ==
  LET first == [t EXCEPT !.selected = 0]
  IN  Invalidate(IF v = Data THEN ModeSwitched([first EXCEPT !.list = TRUE], items, tail)
                 ELSE first,
                 items, tail)

-------------------------------------------------------------------------------
(* Commands.                                                                *)

\* The line goes into the history.
Logged == IF shown = History THEN Min({rows + 1, MaxRows}) ELSE rows

LoggedTUI == IF shown = History THEN Invalidate(tui, Rows(Logged), TRUE) ELSE tui

\* A message of h lines is printed: MessageView::stream drops the older half of
\* the messages, one by one, if there are too many, and the new one is added.
\* Each of these changes is notified.
Printed(d, h) ==
  LET m      == d.messages
      drops  == IF Len(m) > MessageMax THEN Len(m) - MessageMax \div 2 ELSE 0
      steps  == [i \in 1 .. drops |-> SubSeq(m, i + 1, Len(m))]
                  \o <<Append(SubSeq(m, drops + 1, Len(m)), h)>>
      notified[i \in 0 .. Len(steps)] ==
        IF i = 0 THEN d.tui ELSE Invalidate(notified[i - 1], steps[i], TRUE)
  IN  [messages |-> Last(steps),
       tui |-> IF shown = Message THEN notified[Len(steps)] ELSE d.tui]

Prints(out) ==
  LET after[i \in 0 .. Len(out)] ==
        IF i = 0 THEN [messages |-> messages, tui |-> LoggedTUI]
        ELSE Printed(after[i - 1], out[i])
  IN  after[Len(out)]

\* How many rows a view may have when it is shown.
RowCounts(v) ==
  CASE v = History -> IF shown = History THEN {Logged} ELSE 1 .. MaxRows
    [] v \in OtherViews \ {History} -> ListSizes
    [] v \notin OtherViews -> {0}

\* A command prints, does its work and ends by showing a view.
ThenShows(out) ==
  /\ messages' = Prints(out).messages
  /\ rows' \in RowCounts(shown')
  /\ \E tail \in TailFlags(shown') :
       tui' = ShowTUI(Prints(out).tui, shown', RowsOf(shown', sessions', messages', rows'), tail)

\* Mutant: a filter does not refresh the view.
ThenForgets(out, v) ==
  /\ messages' = Prints(out).messages
  /\ tui' = Prints(out).tui
  /\ rows' = Logged

\* A command prints, and view v is notified at its end.
ThenNotifies(out, v) ==
  /\ messages' = Prints(out).messages
  /\ rows' = Logged
  /\ IF v = shown
     THEN \E tail \in TailFlags(v) :
            tui' = Invalidate(Prints(out).tui, RowsOf(v, sessions', messages', rows'), tail)
     ELSE tui' = Prints(out).tui

\* The commands of App that show something, typed in command mode.
RunCommand ==
  /\ ~tui.list
  /\ \E out \in Outputs :
       \/ out # <<>> /\ Report /\ ThenShows(out)
       \/ out = <<1>> /\ \E p \in Pids : Attach(p) /\ ThenShows(out)
       \/ \E name \in Names : Scan(name) /\ ThenShows(out)
       \/ out = <<>> /\ ResetSession /\ ThenShows(out)
       \/ out = <<>> /\ \E arg \in Names : \E i \in Argument(arg) :
            (SelectSession(i) \/ DeleteSession(i)) /\ ThenShows(out)
       \/ out = <<>> /\ \E v \in Views : ShowView(v) /\ ThenShows(out)

\* An empty line is no command and is not recorded in the history.
RunEmptyLine ==
  /\ ~tui.list
  /\ EmptyLine
  /\ rows' = 0
  /\ \E tail \in TailFlags(shown') :
       tui' = ShowTUI(tui, shown', RowsOf(shown', sessions, messages, 0), tail)
  /\ UNCHANGED messages

\* RefreshView notifies the current session when the filter is done.
RunFilter ==
  /\ ~tui.list
  /\ Filter
  /\ \E out \in Outputs : ThenNotifies(out, current)

\* help and region --info print and leave the view.
RunHelp ==
  /\ ~tui.list
  /\ \E out \in Outputs : ThenNotifies(out, Nothing)
  /\ UNCHANGED vars

\* clear empties the message view.
RunClear ==
  /\ ~tui.list
  /\ messages' = <<>> /\ rows' = Logged
  /\ tui' = IF shown = Message THEN Invalidate(LoggedTUI, <<>>, TRUE) ELSE LoggedTUI
  /\ UNCHANGED vars

-------------------------------------------------------------------------------
(* Keys.                                                                    *)

ShownRows == RowsOf(shown, sessions, messages, rows)

Redraws(t) == \E tail \in TailFlags(shown) : tui' = Invalidate(t, ShownRows, tail)

Unmoved == UNCHANGED <<vars, messages, rows>>

\* ESC, and Ctrl-C in list mode.
SwitchMode ==
  /\ \E tail \in TailFlags(shown) :
       tui' = ModeSwitched([tui EXCEPT !.list = ~tui.list], ShownRows, tail)
  /\ Unmoved

\* The lines of the cached rows that come before row k of the list.
LinesAbove(t, k) == Lines(SubSeq(t.items, 1, Min({Len(t.items), k - t.index})))

\* KEY_UP in list mode.
KeyUp ==
  /\ tui.list /\ tui.selected # 0
  /\ LET t == [tui EXCEPT !.selected = @ - 1]
     IN  IF t.selected < t.index
         THEN Redraws([t EXCEPT !.index = t.selected, !.scroll = 0])
         ELSE \E tail \in TailFlags(shown) :
                LET t2 == Invalidate(t, ShownRows, tail)
                IN  tui' = [t2 EXCEPT !.scroll = Min({@, LinesAbove(t2, t2.selected)})]
  /\ Unmoved

\* KEY_DOWN in list mode.  The number of rows minus one wraps around in an
\* empty list, where the selection goes on without end.
KeyDown ==
  /\ tui.list /\ tui.selected < Less(Len(ShownRows), 1)
  /\ ShownRows = <<>> => tui.selected < MaxSelected
  /\ LET t == [tui EXCEPT !.selected = @ + 1]
     IN  \E tail \in TailFlags(shown) :
           IF t.selected >= t.index + Len(t.items)
           THEN LET t2 == Invalidate([t EXCEPT !.index = @ + 1], ShownRows, tail)
                IN  tui' = [t2 EXCEPT !.scroll = Less(Lines(t2.items), t2.height)]
           ELSE LET t2 == Invalidate(t, ShownRows, tail)
                    above == LinesAbove(t2, t2.selected + 1)
                IN  tui' = [t2 EXCEPT !.scroll = IF above > t2.height THEN above - t2.height ELSE @]
  /\ Unmoved

\* Enter in list mode: the list of processes answers with the command that
\* attaches the selected one, and the command mode begins when it is done.
KeyEnter ==
  /\ tui.list /\ shown = Processes /\ tui.selected < rows
  /\ \E p \in Pids : Attach(p)
  /\ LET d == Prints(<<1>>)
         t == ShowTUI(d.tui, Message, d.messages, TRUE)
     IN  /\ messages' = d.messages
         /\ tui' = Invalidate([t EXCEPT !.list = FALSE], d.messages, TRUE)
  /\ rows' = 0

\* KEY_RESIZE: the view is shown again.
Resize ==
  /\ \E h \in Heights, tail \in TailFlags(shown) :
       tui' = ShowTUI([tui EXCEPT !.height = h], shown, ShownRows, tail)
  /\ Unmoved

-------------------------------------------------------------------------------
ScreenNext ==
  \/ RunCommand \/ RunEmptyLine \/ RunFilter \/ RunHelp \/ RunClear
  \/ SwitchMode \/ KeyUp \/ KeyDown \/ KeyEnter \/ Resize

ScreenSpec == ScreenInit /\ [][ScreenNext]_screenVars

-------------------------------------------------------------------------------
(* Properties.                                                              *)

\* The rows on the screen are rows the shown list has now, and as many as fit:
\* whatever a command does to a list, the screen has been told of it.
ScreenShowsList ==
  /\ Len(tui.items) = Min({tui.height, Len(ShownRows)})
  /\ tui.items = SubSeq(ShownRows, tui.index + 1, tui.index + Len(tui.items))

\* In list mode the selected row is one of the list, also after the list has
\* shrunk or has been replaced: the row Enter and the keys of a view work on.
SelectionListed == tui.list /\ ShownRows # <<>> => tui.selected < Len(ShownRows)
===============================================================================
