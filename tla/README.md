# mypower in TLA+

A verification project for `mypower`, a memory scanner with a text user
interface: TLA+ modules of its components, TLC configurations that check them on
small instances, and TLAPS proofs of the most important properties for all
instances. Paths are relative to the root of the repository's source, `src/`;
`scanner.hpp:105` means `src/scanner.hpp`, line 105, there.

## 1. The system

mypower attaches to a process, searches its memory for values, keeps the
matches in sessions, narrows them as the target runs, and shows all of it in a
terminal. One thread reads keys and runs commands; a scan uses an OpenMP team.
The target is a process of its own that goes on running unless it is stopped.

| component | state it keeps | operations | what makes it correct |
|---|---|---|---|
| chunked reader: `MemoryMapper` and the loops of `ScanComparator`, `ScanExpression`, `ScanBytes` (`scanner.hpp`) | a buffer, the address of its first byte, what is cached, the tail carried to the next chunk, the window handed out | `next()`, and one comparison per step | every candidate is compared once, with the bytes of its own address; no access outside the mapping; every loop ends |
| session (`scanner.hpp`) | memory regions, one match list per number type | `scan`, `filter` in three forms, `update_matches`, `reset` | a scan of a stopped target is exact, under threads and failing reads; a filter judges by values the target held and only narrows |
| suspension (`process.hpp`, `process.cpp`) | the guard's `_process` | stop and continue the target, optionally all processes of its user | nobody is left stopped; what the user stopped stays stopped |
| expressions (`mathexpr.hpp`, `dsl.cpp`, `compexpr.hpp`) | trees, a stack frame per compiled function | parse, fold constants, compile, call | the code computes what the text says, within the frame it reserves |
| snapshots (`cmd_snapshot.cpp`) | two files per snapshot; regions and pages of a loaded one | save, load, `read` of a list of requests into a list of buffers | what is read from a snapshot is what the target held |
| application (`mypower.cpp`, `cmd_session.cpp`, `cmd_attach.cpp`) | attached process, list of sessions, current session, current view | attach, scan, filter, reset, select, delete, show | list, current session and screen agree |
| user interface (`tui/`) | selected row, scroll position, mode, history, line editor | keys, resize, notifications | the selection stays inside the list |
| memory map and region view (`vmmap.cpp`, `cmd_region.cpp`) | a copy of the regions of a process | read `/proc/pid/maps`, select, sort | a region carries the file it belongs to |
| pointer search (`cmd_pointer.cpp`) | the calls of `find_ref`, each with the matches it still has to handle | one recursive command | the chains it prints can be followed, and are all there are; it ends |
| data view (`cmd_view.cpp`) | a block of memory and a reference to the attached process | open, read again on a key, a timeout or a turn of the loop | it shows memory of the process it was opened for, and nothing older than it must |
| process list (`cmd_proc.cpp`) | a copy of `/proc` | refresh, attach | attaching replaces the target and nothing else |

They interact by calls: a command of the application parses an expression, stops
the target through a guard, lets a session scan through chunked readers with the
compiled expression as comparator, and shows the session. The shared state is
the target's memory, which changes at any time, the match lists during a
parallel scan, the process states that several instances and the user change,
and the files of snapshots.

The hard behaviours are the interleaving of scan threads on one list; reads that
return less than asked for, or fail, in the middle of a chunk, a list or a
region; a target that stores and unmaps between two reads of one command, or between two
scans of one recursive search;
suspensions that overlap; crashes in the middle of a save; and offsets, which
are computed by hand everywhere. `PROJECT.json` lists them as hazards, each at
its line, with the properties that cover it.

## 2. Modules

| module | models | composed with |
|---|---|---|
| `LinearScan` | what scanning one region promises: candidates in order, each with its own bytes | implemented by `MemoryMapper` |
| `MemoryMapper` | the chunked reader and the scanner loop that drives it | `Linear == INSTANCE LinearScan` |
| `SessionScan` | `Session::scan` as the scan command runs it, on top of what `LinearScan` promises | - |
| `SessionFilter` | the filters, `update_matches` and `reset` of a session | - |
| `SuspendResume` | `AutoSuspendResume`, `suspend`, `resume`, `kill_same_user` | - |
| `MathExpr` | trees, word arithmetic, constant folding | - |
| `JitCode` | `depth()` and `gencode()` | extends `MathExpr` |
| `Comparators` | the comparator classes of `comparator.hpp`, by number type | extends `MathExpr` |
| `ComparatorExpression` | the life of one expression: parsed, folded, compiled, called | extends `JitCode` and `Comparators` |
| `Snapshot` | saving, loading and reading snapshots | - |
| `App` | the commands: sessions, current session, current view | - |
| `Screen` | the list view of the TUI: rows, selection, scrolling, modes, messages, history | extends `App`: every command of `App` reaches the screen |
| `Target` | the processes: memory mapped line by line, stores and unmappings while mypower reads | extends `App`, for the attached process |
| `PointerSearch` | the `pointer` command and `find_ref` | extends `Target` |
| `DataView` | the `view` command and the block it shows | extends `Target` |
| `MemoryMap` | the regions made of `/proc/pid/maps`, and the `region` command | extends `Target` |
| `Inspection` | the three of them under the commands of `App` | extends `PointerSearch`, `DataView`, `MemoryMap` |
| `*_proofs` | theorems about the module they are named after; `SessionScan_proofs` also those about `MemoryMapper`, which the scan rests on; `Screen_proofs` and `Inspection_proofs` also relate theirs to `App` | extend it and `TLAPS`, and `App_proofs` where they need the sessions |
| `MC*` | the small instances | extend a module |

Definitions that begin with a mutated behaviour are marked `Mutant` in a comment
and are named by nothing else in the modules. Each is the code with one plausible
mistake, such as a dropped guard or a wrong offset. Put in the place of the
definition that follows it, it makes the property named in `PROJECT.json` fail,
which shows that the property depends on the code.

### MemoryMapper and LinearScan

The variables are the members of `MemoryMapper`, with pointers as offsets from
`_cache`. A cell of the buffer holds the *address* of the byte that was copied
into it, or `NoByte`: provenance is all the properties need. `NextChunk` is a
successful `next()` with both `memcpy`s and the bookkeeping of `cached_size` and
`backup_size`; `ChunkReadFails` is its exception, `EndOfRegion` its `false`.
`CompareNumber` is one turn of the loop of `ScanComparator` and
`ScanExpression`, `FindBytes` one hit of `memmem` in `ScanBytes`, whose step is
the length of the string. A read returns everything it was asked for or what
comes before a page boundary, as `process_vm_readv` does. A constructor that gets
no memory throws, and the region is dropped (`state = "failed"` from the start).

Nothing limits the step: `--step` is any `size_t`, and a search for a string steps
by its length. There is room for a carried tail of one page. `CarryOverruns` is the
`next()` that has a longer one to save: its `memcpy` leaves the mapping, and the
model ends there (`state = "overrun"`), since C++ says nothing of what follows.
`AccessesInCache` therefore says two things: that no other access leaves the
mapping, and that this one needs a step of more than a page and a byte.
`AddressNearValue` says how far a match may be listed from its value when bytes are
carried: such a window begins with bytes from before `address_begin()`, so its
matches are listed too high, by less than two steps. The bytes cut off at its end are
never looked at, which no property speaks of.

`LinearScan` is the abstract specification: a cursor, and comparisons of exact
bytes. The refinement mapping takes the cursor from `begin_addr + (iter -
win_begin)`; `NextChunk` is a stuttering step, because the cursor stays where it
was, unless bytes are lost or repeated at the seam of two chunks.

### SessionScan

Each OpenMP thread is a process with a program counter. `Claim` is the schedule
and the region filter, `ReadChunk`, `ReadFails` and `EndRegion` are the mapper,
`Compare` is one candidate; the append to the list is split into `EnterCritical`,
which looks up the end of the list, and `AddMatch`, which stores there, so that
without the critical section an append could be lost. `NextType` is the barrier
between the loops of two number types. `frozen` says whether the target was
stopped: if not, `TargetRuns` stores into its memory or unmaps an address at any
time. An address stands for one candidate, and that the mapper visits each with
its own bytes is the promise of `LinearScan`, which it keeps for aligned jobs only.
The constant `Android` says whether the conditions under `__ANDROID__` are compiled
in; a region's field `runtime` says whether its name is one they exclude. That a
thread gets memory for its buffer is assumed here; a thread that does not gives the
region up as one that fails at its first read does.

### SessionFilter

The three forms of `Session::filter` differ in where the values read are put
and in which lists they are suitable for. The relational and the complex form
read into a cleared buffer, the constant form and `update_matches` into the
matches themselves. One call of `process_vm_readv` for a list is a step per
entry (`FetchEntry`), since the target may store in between, and it stops at the
first entry that cannot be read; its result is ignored, as in the code. A test
is given by the pairs of old and new values it accepts. A value is read whole or
not at all. The survivors of a list are the matches at the positions `Kept`,
`InOrder`. The lists a session starts from hold no address twice
(`ListAssumption`), which is what a scan leaves (`NoDuplicates`). `before` and
`held` are history variables.

### SuspendResume

`CheckState` is the constructor's look at the process state, `SignalOther` one
turn of the loop of `kill_same_user`, `StopTarget` the final `kill`,
`LeaveScope` the end of the command, by return or exception, and `ContTarget`
the destructor's `kill`. An instance that is itself stopped takes no step. The
user may stop, continue and kill by hand. The processes are those of the user;
others `kill_same_user` passes over. A process that runs may `Fork` at any time,
also during the walk through `/proc`: the child is signalled if the walk comes to it
and `missed` by this instance if not, for numbers of processes wrap around and the
child may stand before or behind the entry the walk has reached. One that is forked
when the walk is over is missed in any case. The destructor walks anew. No option
sets
`ScanArgs::_suspend_same_user` yet; the run has it set for one command, since
the code behind it is complete. `found`, `undone`, `user_stopped`, `orphaned` and
`missed` are history variables.

### MathExpr, JitCode, ComparatorExpression

The source text of an expression is its tokens in the order in which the parser
reduces them. The parser's tables and the tokenizer are left out; what
they accept is `IsText`: every operator finds its operands and what is left over
are the arguments of the comparator. All nodes are in one sequence, in the order
in which they are allocated, and a `unique_ptr` is a place in it; children come
before their parents. `Reduce`, `Fold`, `FoldTraps` and `Choose` are the
constructors of `EXPR`, without and with `opt1`, `opt2` and `opt3`, and
`Compared` adds the nodes of `ComparatorExpression::compile`. `JitCode`
translates `depth()` and `gencode()` as functions on the places of a tree
(`NodeDepth`, `NodeCode`): a node's code is a list of instructions, with the
slots of the stack frame and with jumps, and `ComparatorExpression` executes it
one instruction per step, for the arguments `$old`, `$new` and `$addr`. What
sljit and the processor do with an instruction is external and modelled by what
it yields; a result C++ or sljit leaves undefined may be any word, and a division
may trap. The comparator is one `JITCode` per sign for a filter and one per
number type for a scan. `^` is not modelled: it can be parsed and there is no
code for it (`mathexpr.hpp:366`). Reading an uninitialised slot yields any word.
`ResultIsMeaning` compares with `Meaning`, which evaluates the tokens directly,
without trees and registers. Constants are unsigned in it once the parser folds
them, since that is the rule of the code; it does not say, then, that the rule is a
good one. `FoldingKeepsValue` compares the code with what the text means when
nothing is folded (`Unfolded`), and says where the two agree: always in unsigned
code, and in signed code as long as no constant is negative. A signed `-1>0` is 1
with folding and 0 without, where `tests/test_expr_sign.cpp:16`, which turns folding
off, expects 0.

An expression that needs no code is judged by a class of `comparator.hpp`
instead (`CompareFast`, on `Comparators`), for one number type. `FastAgrees`
compares it with `Meaning` for the value as that type reads it. Two cases are
outside of it, and its comment names them: a constant the type cannot hold,
which is cut to it (`cmd_scan.cpp:165`), and a range with one negative bound,
which the type compares signed and the parser's rule unsigned. Floating point
types are left out.

### Snapshot

A page is the unit: regions and what `process_vm_readv` returns are multiples of
it. `SaveChunk`, `SaveRegion`, `SaveRegionFails`, `DiskFull` and `Describe` are
`save_process`, one read or one region at a time; `Crash` may come between any
two of them and may cut the description off. `info_file` is declared after
`memory_file` and destroyed before it, so the description is complete while up to
`FileBuffer` pages of the `.memory` file are still in its `FILE` (`unwritten`).
`CloseMemory` is the `fclose` that writes them, or as many as the disk takes, and
nobody looks at its result. A save may also be of a loaded snapshot, read through
`relocate_remote` like any other process. The offsets of the description are the
running sum of the code (`offset`), and a `.json` that cannot be opened ends the
save with the `.memory` file closed. `LoadedRegion` and `Load` are
`load_process`; `Holds` and `Relocated` are the search of `relocate_remote`;
`CopyChunk` is one turn of the loop of `iovec_copy`. `image` is a history
variable: the target's memory when the save began. `held` says that the target
did not run meanwhile; the guard stops only a target it finds running, so one
that sleeps may store during the save. `FinishedKept` says what remains of "a
finished snapshot does not change": its description stays, and its pages are only
added to, by the tail of the save that wrote the description. A crash that loses
the tail leaves a complete description of regions the file does not hold;
`SnapshotFaithful` says that a load gives them up and does not deliver other pages.

### App and Screen

A session is its identity, its name, its process and the number of its matches.
The actions of `App` are the commands and keys that change the list, the current
session or the view; `Show` is `App::show`, which shows the messages for an empty
pointer and then does not record the view. `Report` stands for the error and
usage paths of all commands.

`Screen` puts the terminal under it. `tui` holds the members of `TUI`: height,
mode, selection, first cached row, scroll position and the cached rows. A row is
its height in lines. `Invalidate`, `ModeSwitched` and `ShowTUI` are the methods
of these names. A command is one step: it writes its line into the history,
prints messages (each one invalidates the view if the messages are shown), does
what `App` says, and ends in `show` (`ThenShows`) or in a notification of a view
(`ThenNotifies`). Keys and resizes come between commands, as there is one thread.

Details of the code the module keeps, although they look like slips: the flags of
views other than messages and history are never initialised (`tui.hpp:339`), so
every redraw of such a view may follow its tail or not (`TailFlags`); sizes are
unsigned, so that the last row of an empty list is a huge number and the
selection moves on (`Less`, bounded by `MaxSelected`); `mode_switched` runs before
the rows of a new view are fetched (`tui.hpp:533`); the scroll position of one
view stays when another is shown, and the row that is selected after a resize
may lie outside the window. Neither property claims more than this allows.

### Target, PointerSearch, DataView, MemoryMap and Inspection

`Target` is the environment of the three commands that look at memory without a
session. A cell is what one read yields, and it can be read if a line of the map
covers it with `r` and it is none of the `Holes`. `held` is a history variable:
for each watcher (a search, a view, one reading of a view) the cells that could
be read since it began. `crashed` is set where the code uses a null pointer.

*`PointerSearch`.* `stack` holds the calls of `find_ref`, each with the links that
lead to its pointer (the `PointerInfo`s that `_prev` strings together) and the
matches its loop has not handled. `ListRegions`, `ReadWord`, `TooManyResults` and
`SortResults` are the scan of one call; the regions are taken in any order, since
a team of threads does it, and given up at the first word that cannot be read.
`Nearest` is the order of `std::sort`, which may put equal distances in any order;
`WalkEnds`, `ReportChain`, `Follow` and `PassOver` are one turn of the loop each.
The exception `GotIt` empties the stack. `step` counts words: the candidates of a
region are every `step`-th of its words (`--step 8` is 1), and with `StepOfZero` the
reader divides by zero (`scanner.hpp:121`) or an assertion fails before. Steps that are no whole
words meet the carried tails and misread values of `MemoryMapper` and are not in this
module. Words are numbers below `Word`, and the
distance wraps around as in the code (`Distance`). A link that lands in the base
is printed before `offset_max` is looked at (`cmd_pointer.cpp:142`), so that limit
holds for all links but the last, although the option's help says
`struct offset max`.

*`DataView`.* `TUI::run` calls `tui_timeout` of the view that is shown before it
waits for a key (`tui.cpp:365`), and that reads the block whether the timer is on
or not. `Turn` therefore adds a reading to those of a handler. One reading is a
step per cell; it stops at the first cell that cannot be read, and its result is
ignored (`cmd_view.cpp:159`). `Refused`, `MayBeRefused`, `Crashes` and `TooLarge`
are the checks of the command in the order of the code. Details that look like
slips are kept: the distance to an end address is in bytes and is taken as a
number of rows (`cmd_view.cpp:487`), the size that is compared with the limit
wraps around (`:222`), type `I8` may be taken for several types, because
`__builtin_clz(0)` is undefined (`:452`), and an expression that is no constant
is used through a null pointer (`:464` and `:476` look at the tree instead of the
number).

*`MemoryMap`.* `MapOf` is `snapshot_impl`: a recursive function over the lines,
because a region of zeros (`[anon:.bss]`) takes the file of the region before it.
`RegionCommand` shows a copy of the selected regions, which later changes of the
map do not reach.

*`Inspection`.* Commands start only while a key is awaited (`Awaiting`); the
processes take steps at any time. `Plain` stands for the commands of `App` that
open none of these views.

## 3. Runs

| run | instance | distinct states | checks |
|---|---|---|---|
| `mapper` | pages of 4 bytes, buffer of two, regions of 1 to 5 pages, steps 1 to 6 and 9, widths from 1 to 4 | 4,373 | `AccessesInCache`, `LoopMeetsEnd`, `OwnBytes`, `AddressNearValue`, `ScanEnds`, and `LinearScanSpec`: on aligned jobs the mapper implements `LinearScan` |
| `scan` | two threads, three regions, one excluded, two types, one change by the target, `Android` | 352,512 | `FrozenScanExact`, `NoDuplicates`, `MatchesWanted`, `OnlyAppends`, `ScanTerminates` |
| `filter` | an integer list of up to three and a float list, two commands, one change, `IOVMax` 2 | 350,042 | `TypeOK`, `JudgedByHeldValues`, `RefreshHonest`, `OnlyNarrows` |
| `suspend` | two instances, two other processes, each there from the start or forked, three commands, two signals by hand | 182,729 | `NoneLeftStopped`, `StoppedWhileWorking`, `FoundStoppedKept`, `NobodyRunsWhileWorking`, `CommandsEnd` |
| `expression` | words of three bits, some 500 expressions, number types of two and three bits | 472,818 | `ResultIsMeaning`, `FoldingKeepsValue`, `OperandsReady`, `TrapsOnlyOnUndefined`, `FastAgrees` |
| `snapshot` | four regions of seven pages, a buffer of two, two file names, one store, two loads or crashes, one page in the `FILE` | 516,911 | `ReadDelivers`, `SnapshotFaithful`, `FinishedKept`, `CommandsEnd` |
| `screen` | two scans, two processes, two names, a terminal of one or two lines, lists of up to three rows, messages of one and two lines | 381,320 | `CurrentListed`, `ShownIsCurrent`, `ViewIsShown`, `ScreenShowsList`, `SelectionListed`, `SessionsKept` |
| `inspect` | two processes of three lines of map and seven words, words of three bits, one change, one search with up to three links and a step of one, two or no words, views of up to four cells | 924,374 | `LinksHeld`, `FrozenSearchExact`, `CellsHonest`, `BssFollowsFile`, `SearchEnds` |

Four runs show that the code does not do what the repository says of it:

| run | property | what happens |
|---|---|---|
| `mapper_unaligned` | `UnalignedValueIntact` | with step 1, a value across the end of a chunk is compared with stale bytes, which `tests/test_scanner_unaligned.cpp` expects to be found |
| `filter_gap` | `IncreasedKept` | a relational filter drops an increased value when an earlier entry of the list cannot be read, because it is compared with the zeros of the cleared buffer |
| `expression_not` | `ResultIsMeaning` | the code of `!x` yields the truth of `x`, while the parser folds `!` of a constant correctly |
| `expression_filter` | `ComplexFilterCompiles` | a filter with a computed operand compiles its expression twice, and the first time has moved the tree away |

### Why the bounds are enough

*Mapper.* A buffer of two pages and a region of five give first, middle and last
chunks, full, short and final reads, and carried tails of every length below the
step. Page 4 is the smallest with steps that divide it, that do not, and a value
that spans a seam. Steps 5, 6 and 9 are beyond the page: the longest whose tail
always fits, one whose tail may not or may, depending on the read, and one that
carries two pages. The proofs of the safety properties remove the bound, but for
`AddressNearValue`, which is only model-checked.

*Scan.* Two threads and one list give every race on an append; a region of two
candidates with a buffer of one has a seam and can be given up half-way; the
second type shows what the barrier is for. No region of the run has a name that
only Android excludes; the theorems hold for both values of `Android` and any
regions. The proofs remove the bound.

*Filter.* Three entries put an unreadable one before, between and after the
others and exceed `IOVMax`; two commands let the second work on values the first
has left; one change may come between any two entries.

*Suspension.* Two instances are needed for suspensions that overlap, the second
process for `kill_same_user`, two signals for stop-and-continue around a command,
and three commands for one that starts after an overlap. A process that is not
there at first is forked before, during or after a walk, and one child is enough
to be missed.

*Expressions.* The code depends on the shape of a tree, not on the width of a
word. The texts have every operator on variables and constants, the three cases
of operand order, nested to a depth at which two slots are in use at once,
conditions with divisions in the branch not taken, ranges and masks of compound
bounds; constants are on both sides of the sign. Three bits are enough for a sign, a carry and a shift that is too far.

*Snapshot.* Two touching regions, one without permissions and one that is read
in part only; requests at the start, the middle and the seam of regions, in
lists of one to three, against buffer lists that are shorter, equal and longer. One
page held back is enough for a last region that is cut off.

*Screen.* Two sessions allow the deletion of the first and the last, current or
not, down to an empty list, and two processes allow one to be left attached while
sessions of the other remain; names that are numbers and names that are not.
Terminals of one and two lines are resized into each other, with lists that are
empty, shorter and longer than they are, that shrink to nothing and to one row, and
messages that are taller; one message is the limit at which the older half is
dropped. `MaxMatches`, `MaxRows` and `MaxSelected` end what could grow. That more
than two sessions keep their order is left to the theorem. Deadlock is checked in
this run. The processes are interchangeable, so `PidSymmetry` is sound; the run has
no liveness property.

*Inspection.* The pointers of the first process lead to the base in one, two and
three links, above the pointer, too far below it, and in a circle; the three
searches have the limits on depth, offset and results one by one in their way, and
further ones see every second word only or have no step at all.
One change by a process may come before, between or after the reads of a search
or a view, which is enough for a chain whose words were never in memory together
and for a reading that ends early. Views are opened on cells that can be read,
that cannot, and on a hole in the middle. Lines of the map may go away before,
under and behind a region of zeros.

`CHECK_DEADLOCK FALSE` is given where the modelled work is finite and simply
ends: a scan, a bounded number of commands, a call.

### Fairness

Every fairness condition is weak and concerns only steps of mypower itself: the
thread that runs a command never waits for anything but a system call that
returns. `MemoryMapper` and `Snapshot` have it for the steps of a running command, `SessionScan` for each
thread, which the operating system schedules, and `SuspendResume` for each
instance that is not stopped; `Inspection` has it for `Work`, the steps of a search
or a reading that has begun. Nothing is assumed of the target, of the user or
of the typing of commands. In `SessionScan` the critical section needs no strong
fairness: with finitely many matches every thread gets in.

## 4. Proofs

All proofs are checked by TLAPS, from the named assumptions on the constants,
which TLC evaluates for every instance. They are about the shape of the instance:
`BufferAssumption` and `JobsAssumption` (`MemoryMapper`), `WordAssumption`
(`MathExpr`: words have at least one bit) and `ExpressionAssumption`
(`ComparatorExpression`: the texts are what the grammar accepts, the inputs words),
`RegionsAssumption` and
`ScanAssumption` (`SessionScan`), `TestAssumption` and `ListAssumption`
(`SessionFilter`), `SuspendAssumption`, `AppAssumption`, `ScreenAssumption` and
`OutputAssumption` (`Screen`: what a command prints are messages of at least one
line), `TargetAssumption`, `SearchAssumption`, `ViewAssumption`, `MapAssumption`
and `LinesAssumption` (`MemoryMap`: a map has finitely many lines, none of them
empty and no two overlapping), `InspectionAssumption`, and `SnapshotAssumption` and
`RequestsAssumption` (`Snapshot`: addresses and lengths are unsigned, lists of
requests and buffers finite; a length may be zero). The `TypeOK` of a module
whose types are proved is not checked by a run again, but for `SessionFilter`.

The models define what the code computes in a loop as recursive functions. The
proofs first show that such a function exists and has the value it is written to
have: `RecursionExists` does that for any step that keeps a set, and `AllStay`
(`EveryPlace` in `Snapshot_proofs`) is the induction over the places of one list;
both are derived from the well-foundedness of `<`, by the least place at which
they fail, and not from the library's induction theorems.

*`SessionScan_proofs`, the chunked reader.* For every page size, capacity and region,
and steps of any length: `ReaderTypeCorrect`, `CacheSafety`, `LoopsMeetEnd`,
`ComparisonsExact` and `ImplementsLinearScan`. The invariant is `ReaderIInv ==
ReaderTypeOK /\ Bounds /\ Exact /\ OwnBytes`. `AccessesInCache` is not inductive, since it says nothing of how much
is carried; `Bounds` adds that less than a step is, and no more than a page.
`JobsAssumption` limits the width of a number, which has at most eight bytes and so
fits in a page, and neither the step nor the length of a string: what such a step
can do to the buffer is the action `CarryOverruns`, and `AccessesInCache` holds
before and after it. `OwnBytes` needs `Exact`: over
an aligned job nothing is ever carried, every chunk ends on a page boundary and
the window holds exactly the chunk read last. That rests on divisibility lemmas
at the start of that part (a whole number of steps goes into a page, a page into
the capacity, so a step into what any read returns). The refinement is proved
step by step (`NextSimulates`): a comparison maps to a comparison, `NextChunk` to
a stuttering step.

*`SessionScan_proofs`, the scan.* For any team, regions, types and values: `TypeCorrect`,
`NoAddressTwice`, `OnlyWanted`, `ScanOnlyAppends`. `NoDuplicates` is not
inductive: that an address is new when it is added needs that no other thread
holds its region (`ClaimInv`), that every match of the current type lies behind
the thread that holds its region (`PlaceInv`, with `Passed`), that the types to
come are empty (`PendingInv`), and that the slot looked up is still the end of
the list (`LockInv`).

`FrozenScan`: the scan of a stopped target finds exactly the wanted values that
can be reached. On top of the invariant above, `ExactInv` says that buffers hold
what the target holds (`ChunkExact`), that every match is genuine (`Sound`), and
that nothing behind a thread (`CurrentComplete`) or in a finished type
(`EarlierComplete`) was overlooked.

*`SessionFilter_proofs`.* `FilterIsHonest`, `RefreshIsHonest`, `ListsOnlyNarrow`
and `TypeCorrect`, for lists of any length, any values and tests, and any stores
and unmappings. `JudgedByHeldValues` speaks of lists that are done with, so the
invariant carries the list that is being read (`CurrentList`: what was fetched was
held while the command ran, the rest is as it was) and the lists to come
(`LaterLists`). `ListsDistinct` is needed to know a match by its address, and
`NowHeld` that what the target holds is on record. The survivors are a set of
positions put in order: that there is an order and that it is found
(`OrderExists`, `InOrderIs`) is proved from the cardinality of finite sets, and
yields the embedding that `OnlyNarrows` asks for (`SurvivorsAre`).

*`App_proofs`.* `TypeCorrect`, `CurrentIsListed`, `ScreenAgrees`, `ViewAgrees` and
`OthersAreKept`, for any number of sessions, names and processes. The invariants
are inductive only together: deletion moves the current session and the screen at
once. `OthersAreKept`: every session that a step leaves, a lone one too, keeps the
process it was scanned in (`WasAt`), and those left keep their order. It rests on `Issued`, that every identity in the list has been given out
before, so the one a scan adds is new, and on where a deletion moves the places
of the list (`WithoutPlaces`).

*`Screen_proofs`.* `ScreenIsApp`: every step of `Screen` is a step of `App` or
leaves the application alone, so `ScreenKeepsSessions` carries the theorems of
`App_proofs` over. `RowsAreListed` and `SelectionIsListed`, for any sessions, lists,
heights of the terminal, messages and order of commands, keys and resizes. The
invariant is `SInv == IInv /\ ScreenTypeOK /\ ScreenShowsList /\ SelectionListed`.
Each method of `TUI` has a lemma: `InvalidateIs` says that the cached rows are a
window of the list, `ModeSwitchedIs` and `ShowTUIIs` where they leave the selection
and the window, `NotifiedIs` and `PrintedIs` that lists that shrink and messages
that are dropped by halves keep both. A command then needs only that it
ends in one of them (`ShowsHold`, `NotifiesHold`), which is where the code could
forget it. The keys need the most: `KeyDown` relies on a hidden row below the window
being one of the list.

*`ComparatorExpression_proofs`.* A small compiler is proved correct, for words and
number types of every width, texts of any size, any inputs and either sign:
`ReadsAreReady`, `CodeMeansText`, `TrapsAreUndefined` and `FastIsCode`. What a folded
constant means is taken from the parser, unsigned (`FoldingKeepsValue` is only
model-checked). The last three speak of texts in which `!` is applied only to constants the parser folds
(`NegatesConstants`), since the code of `!` is wrong, as `expression_not` shows;
the first needs no such limit. The invariant `IInv` follows the phases:

- `Control` and `Trees`: what each phase leaves alone, and that the nodes form a
  tree (`WellFormed`: each kind of node has its fields, children come first).
- `Parsed`: the parser's stack matches the stack of an evaluation of the same
  tokens. A node *stands for* a value with its mark `const` if, in every valuation
  of the nodes, it has that value, and is a number exactly if the mark says so
  (`Stands`). `ReplacedStands` is one reduction with all that `opt1`, `opt2` and
  `opt3` do to it; an undefined constant stands for anything.
- `Generates`: the codes are what `compile()` makes of the tree.
- `Running`: the machine is in a state of `Safe(k)`. A job `k` is a body of code,
  a size of the frame, a sign and the value it has to return, and `Safe(k)` is the
  largest set of states from which no instruction reads what was not written,
  leaves the frame, traps or returns the wrong word, and every step stays in the
  set; where the text means nothing, or negates something that is not folded,
  it may trap and return any word (`Aim`). So that a step keeps it is one lemma per instruction (`MovSafe` to
  `ReturnSafe`), and the work is to show that a call starts in it
  (`CalledIsSafe`). If it did not, there would be a *bad* state at the start of
  the code; `Reaches` says that from a bad state at the start of a node's code
  there is one at its end, with the node's value in the first register and all
  slots below its depth kept (`Opr1Reaches`, `Opr2Reaches` in its three orders of
  operands, `Opr3Reaches`, `RangeReaches`, `MaskReaches`), so at the end of the
  code there is a bad state whose return is right, which is none. The induction
  is over the places of the tree. `RoomOf` is where `depth()` must agree with the
  slots `gencode()` uses.

That depths, codes, values and evaluations exist is `RecursionExists` and
`FromBelowExists`, as above. `Safe` is a union of sets of states, which TLC cannot
enumerate: of this invariant TLC checks the consequences, the four properties.
For `FastIsCode` the invariant carries `FastAgrees` along (`FInv`); a number of
fewer bits is a word whose upper bits copy its sign (`FittingBits`), so that
comparisons, ranges and masks of numbers are those of words (`CompareIs`,
`RangeIs`), with `&` as the intersection of sets of bits (`BitwiseIs`).

*`SuspendResume_proofs`.* `NobodyLeftStopped`, `TargetHeld`, `FoundKept`,
`NobodyRuns` and `TypeCorrect`, for any number of instances, processes, commands
and signals by hand. `NoneLeftStopped` speaks of the end only; the invariant
behind it is `Covered`: a process that is stopped and that the user did not stop
has an instance that is `Responsible` for it, alive, behind its guard and not yet
past it while it resumes. An instance on its walk back is not responsible for what it
misses there. A fork keeps this (`ForkHolds`), because a child begins running and
every instance and its target are there already (`Births`). `Gathered` says the same of the way in: what
`kill_same_user` has passed stays stopped until it comes to the target.

*`Snapshot_proofs`.* `LoadedIsFaithful`, `FinishedStays` and `TypeCorrect`, for any
memory map, refused and short reads, size of the buffer, number of files and
number of pages a `FILE` holds back. What has been handed to the `FILE` (`Sent`) is
what is on disk followed by what is not (`unwritten`), so that a file cut off
anywhere is a prefix of what was sent, and `Faithful` speaks of prefixes. What
is true of a loaded snapshot must be true of every finished file (`Files`,
`Faithful`), which it is because it was true of the file while it was written
(`Saving`): the pages of the region that is being read are the last ones of the
file (`Reading`), so a region whose read fails half-way moves no offset of a later
one. That a name without a description is taken rests on a least element of a set
of numbers (`LeastInSet`).

`ReadIsFaithful`: what a read delivers, for requests and buffers of any number,
length and cut. Both lists are laid out as one line of pages; `Before` is where a
buffer begins on it, `FlatAt` says that `FlattenSeq` puts its elements there and
nothing else anywhere. The invariant `Copying` keeps both positions of the loop at
the same place of the line (`AtPlace`, twice), with all buffers holding the pages
of the requests up to it and untouched from there on (`Filled`); `ChunkFills` and
`PlaceMoves` are one turn. That the loop may stop at the end of either list is
`PlaceAtEnd`; that a relocated request stays in one region, whose pages begin at
its first address, is `PieceIs`.

*`Inspection_proofs`.* `ChainsHold`: `LinksHeld` for any processes, words, limits and
number of changes, with the search interleaved with commands, views and stores.
The invariant `SInv` says of every call on the stack what `LinksHeld` says of a
chain that is printed (`FrameOK`), and that whatever can be read now is on record
(`Facts(process) \subseteq held["search"]`), which makes a word that a scan reads a
fact; stores and unmappings only add to the record (`Undisturbed`). That a chain
is no longer than asked needs that all calls below the top one are not at the
limit.

`FrozenSearch`: `FrozenSearchExact` for any memory, maps, limits and order in which
the regions are read. `FInv` speaks of a search as long as nothing but what can be
read is on record (`Frozen`): once the target stores or unmaps anything, `held` has
more than `Facts` and the property promises nothing. Until then every chain has
been printed or is still to come under some call (`Complete`, `Under`): a call
whose scan has not begun stands for all addresses, one that scans for its matches
and for what is left of the regions (`Todo`), one that walks or waits for a call
above it for its remaining matches. What a call has found and what its regions
still hold must therefore be all there is (`Scanning`), the links below it must be
the start of a chain (`FrozenFrame`), and its matches must be within the limit
(`Within`), or giving up would lose chains that count. With `OneIsEnough` the early
end when not all are asked for is part of the invariant. The lemmas follow the
steps of the code: `ReadWordFreezes`, `FollowFreezes`, `PassOverFreezes` and the
others each show that a step takes from `Todo` only what it prints, hands to the
next call, or what no chain goes through. That no address is silently skipped
needs that the lines of a map do not overlap.

`InspectionIsApp`: every step of `Inspection` is a step of `App` or leaves the
application alone, so that what `App_proofs` shows holds of mypower with its
searches, views and lists as well. `CellsAreHonest`: `CellsHonest` for any
processes, memories and requests. The invariant `DInv` says that a view on the
screen is of the attached process: the only command that changes the process
takes the view from the screen (`PlainShows`, which needs the types of the session
list from `App_proofs`); that nothing that can be read now is missing from the
records since the view was opened and since the reading began; and that a
reading that is over ended at its last cell or at one that cannot be read.

`BssIsAdopted`: `BssFollowsFile` for maps of any number of lines. `MapOf` goes over
the lines in the order of their addresses; that there is one such order
(`LineOrderExists`) needs that the lines are finitely many and begin at different
addresses, which every unmapping keeps (`MapsStay`). `MapIsGood` then shows, line by
line, that a region follows the rule `Follows` whatever comes behind it: a region
of zeros carries a file only behind an unbroken row of that file's regions, and every
other region the file its own line names.

*Only model-checked.* All liveness properties (`ScanEnds`, `ScanTerminates`,
`CommandsEnd`, `SearchEnds`), since fairness and
`ENABLED` are out of the prover's reach; `AddressNearValue` and `FoldingKeepsValue`; and
what the theorems about expressions leave out: the code of `!` on something that
is not folded, which is wrong (`expression_not`).

## 5. What is not modelled

- The tokenizers and LR tables that `playlang` generates, option parsing, and
  the text of values and messages: pure functions of their input, or layout.
- The line editor, the recall of lines from the history, the layout of rows.
  Keys of a view that only print its rows in another way and `refresh-view` call
  `invalidate()` on an unchanged list, which any other key does as well. The names
  of Unity objects that a data view reads while it draws a row are layout, too.
- The regions of `SessionScan` and `Snapshot` are what `MemoryMap` yields, disjoint
  and ascending; the three are not composed. The expression by which `region`
  selects names is modelled as one word that must occur in them, and
  `region --info`, which prints sums, is left out.
- What the program does after a `memcpy` has left the mapping. No line of the
  repository promises that a long step is refused or works, so `AccessesInCache`
  names the case instead of a run that shows it violated.
- Pointer searches whose step is not a whole number of words, and the tails they
  carry: what the reader does with them is in `MemoryMapper`.
- Processes of other users, which no signal of mypower reaches.
- A data view is not a view of `Screen`, in which it is a number of rows.
- A snapshot's unused `write()` (`cmd_snapshot.cpp:212`), which copies in the
  direction of a read. Two instances that save under one name at the same time.
- What a scan does with a constant that its number type cannot hold, and floating
  point.
- An instance killed behind its guard leaves its target stopped; no code handles
  that, so `NoneLeftStopped` and `CommandsEnd` exclude it by name (`orphaned`).
- `snapshot` of the own process stops the instance itself until somebody
  continues it (`StopsItself`): nothing else would make it go on.
- `chproc`, `findref`, the Unity helper and the test command.

## 6. Plan

Done, in the order of importance: the chunked reader and its abstract
specification, the session scan, the filters, the suspension, the application,
the expressions, the snapshots, the comparators by width, the list view
composed with the application; the pointer search, the data view and the memory
map, composed under the application's commands with processes that run; proofs
for the reader, the scan, the filters, the application, the list view, the
suspension, the snapshots, the pointer search, the data view, the memory map and
the code of expressions.

Next:

1. *History recall and line editor* (`tui/tui.cpp:599-640`): the position in the
   history against a history that grows, and that an empty line or Ctrl-C does
   not reset.
2. *Abstract filter*: a list narrowed by one judgement per match, which
   `SessionFilter` implements when a list is read as a whole.
