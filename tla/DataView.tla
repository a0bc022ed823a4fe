-------------------------------- MODULE DataView --------------------------------
(***************************************************************************)
(* The view command and the block of memory it shows                       *)
(* (src/src/cmd_view.cpp).  A view reads its block when it is opened, on a *)
(* key, and on every turn of the terminal's loop in which it is shown,     *)
(* always through a reference to the application's pointer to the process. *)
(*                                                                         *)
(* The block is a sequence of cells; a row of some type is as many of them *)
(* as its size says.                                                       *)
(***************************************************************************)
EXTENDS Target, FiniteSets

CONSTANTS
  AddressMod, \* the number of addresses: 2^64
  Size,       \* type -> the size of a row, in cells
  Data,       \* the data view
  Requests,   \* the arguments of the view command, see Request
  Zero,       \* the value of a cell nothing was read into
  Missing,    \* an argument that is not given
  Unparsable, \* one that is not an expression
  Computed    \* one that is an expression, but not a constant

\* What the options, or the letters of x/, ask for; with until, the count is the
\* address of the end.
Expression == Nat \union {Missing, Unparsable, Computed}
Request == [types : SUBSET DOMAIN Size, address : Expression, count : Expression,
            until : BOOLEAN, limit : Nat]

ASSUME ViewAssumption ==
  /\ AddressMod \in Nat \ {0} /\ Requests \subseteq Request
  /\ \A t \in DOMAIN Size : Size[t] \in Nat \ {0}
  /\ Data \in OtherViews
  /\ {"view", "refresh"} \subseteq Watchers

VARIABLES
  data,     \* the view, or Nothing: its address, its cells, whether it has a
            \* timer (_auto_refresh) and, for the properties, the process it is of
  passes,   \* how often the cells will be read before the next key is awaited
  row,      \* how many cells the last reading has filled
  reading   \* process_vm_readv is copying

viewVars == <<data, passes, row, reading>>

ViewInit ==
  /\ data = Nothing
  /\ passes = 0
  /\ row = 0
  /\ reading = FALSE

\* The checks before the expressions are used.  Several types are recognised by the
\* number of leading zeros of type and type - 1, which is undefined for type - 1 = 0.
Refused(r) ==
  \/ process = Nothing \/ r.address = Missing
  \/ r.types = {} \/ Cardinality(r.types) > 1
  \/ r.address = Unparsable \/ r.count \in {Missing, Unparsable}
MayBeRefused(r) == Refused(r) \/ r.types = {"I8"}

\* A constant is expected, and not checked.
Crashes(r) == Computed \in {r.address, r.count}

\* The rows asked for: the distance to the end is in bytes, and taken for rows.
Count(r) == IF r.until THEN (r.count - r.address) % AddressMod ELSE r.count

TypeOf(r) == CHOOSE t \in r.types : TRUE

\* The limit is compared with a product that wraps around; a vector never holds more
\* than half of all addresses.  The count of a byte view is in bytes.
TooLarge(r) ==
  LET size == Size[TypeOf(r)]
  IN  IF r.types = {"BYTES"} THEN Count(r) > r.limit
      ELSE (Count(r) * size) % AddressMod > r.limit \/ Count(r) * size >= AddressMod \div 2

CellsOf(r) ==
  LET size == Size[TypeOf(r)]
  IN  IF r.types = {"BYTES"} THEN Count(r) - (Count(r) % size) ELSE Count(r) * size

\* The turn of the loop that follows a handler: a data view that is shown is read
\* before the next key is awaited, whatever the handler has read itself.
Turn(handler) ==
  /\ passes' = handler + (IF shown' = Data THEN 1 ELSE 0)
  /\ row' = IF data' = Nothing THEN 0 ELSE row
  /\ UNCHANGED reading

\* A view lives as long as the application or the terminal refers to it.
KeepData ==
  IF Data \in {view', shown'} THEN UNCHANGED <<data, held>>
  ELSE /\ data' = Nothing
       /\ held' = [held EXCEPT !["view"] = {}, !["refresh"] = {}]

\* A view of zeros is made, read and shown.
OpenData(r) ==
  /\ ~Refused(r) /\ ~Crashes(r) /\ ~TooLarge(r)
  /\ data' = [pid |-> process, address |-> r.address, auto |-> FALSE,
              cells |-> [i \in 1 .. CellsOf(r) |-> Zero]]
  /\ Show(Data)
  /\ Watch("view")
  /\ Turn(1)
  /\ UNCHANGED <<process, scans, sessions, current, crashed>>

RefuseData(r) ==
  /\ ~MayBeRefused(r) => ~Crashes(r) /\ TooLarge(r)
  /\ Report
  /\ KeepData
  /\ Turn(0)
  /\ UNCHANGED crashed

CrashOnData(r) ==
  /\ ~Refused(r) /\ Crashes(r)
  /\ crashed' = TRUE
  /\ UNCHANGED <<vars, viewVars, held>>

\* The keys of the view: a and A start and stop the timer, r reads the cells; the
\* others only change how they are drawn.
DataKey ==
  /\ shown = Data
  /\ UNCHANGED <<vars, held, crashed>>
  /\ \E auto \in BOOLEAN, handler \in {0, 1} :
       /\ data' = [data EXCEPT !.auto = auto]
       /\ auto # data.auto => handler = 0
       /\ Turn(handler)

\* No key comes before the timer of the view ends.
Timeout ==
  /\ shown = Data /\ data.auto
  /\ UNCHANGED <<vars, data, held, crashed>>
  /\ Turn(0)

\* DataViewContinuous::refresh.
BeginRefresh ==
  /\ passes > 0 /\ ~reading
  /\ reading' = TRUE
  /\ row' = 0
  /\ Watch("refresh")
  /\ UNCHANGED <<vars, data, passes, crashed>>

Source == data.address + row

\* The process is asked for, through the reference, for every reading.
RefreshCell ==
  /\ reading
  /\ row < Len(data.cells) /\ Readable(process, Source)
  /\ data' = [data EXCEPT !.cells[row + 1] = memory[process][Source]]
  /\ row' = row + 1
  /\ UNCHANGED <<vars, passes, reading, held, crashed>>

\* Everything is read, or everything before the first cell that cannot be.
EndRefresh ==
  /\ reading
  /\ row < Len(data.cells) => ~Readable(process, Source)
  /\ reading' = FALSE
  /\ passes' = passes - 1
  /\ UNCHANGED <<vars, data, row, held, crashed>>

Refresh == BeginRefresh \/ RefreshCell \/ EndRefresh
-------------------------------------------------------------------------------
(***************************************************************************)
(* Properties.                                                             *)
(***************************************************************************)
(***************************************************************************)
(* What a data view shows while a key is awaited is memory of the process  *)
(* it was opened for, although it reads whatever process is attached: the  *)
(* cells up to the place where the last reading ended were there since it  *)
(* began; those behind it, which can no longer be read, were there since   *)
(* the view was opened, or are the zeros it started with.                  *)
(***************************************************************************)
CellsHonest ==
  shown = Data /\ passes = 0 =>
    /\ row < Len(data.cells) => ~Readable(data.pid, Source)
    /\ \A i \in 1 .. Len(data.cells) :
         LET cell == <<data.pid, data.address + i - 1, data.cells[i]>>
         IN  IF i <= row THEN cell \in held["refresh"]
             ELSE data.cells[i] = Zero \/ cell \in held["view"]
===============================================================================
