------------------------------ MODULE PointerSearch ------------------------------
(***************************************************************************)
(* The pointer command (src/src/cmd_pointer.cpp): which words in memory    *)
(* lead, link by link, from a region the user names to an address?         *)
(* find_ref searches all writable memory for words that are close to a     *)
(* pointer, takes them in the order of their distance, and calls itself    *)
(* for the address of each.  Every call scans anew, and the target is not  *)
(* stopped.  That a scan of a region visits every step of it with its own  *)
(* bytes is the promise of LinearScan, which the reader keeps for steps    *)
(* that are words and divide its buffer: others are not searched here.     *)
(***************************************************************************)
EXTENDS Target, FiniteSets

CONSTANTS
  Word,     \* the number of words: 2^64
  Masked,   \* mask -> word -> their conjunction
  Configs   \* the searches asked for, see Config

Words == 0 .. Word - 1

\* A PointerConfig and the pointer that is searched for; the step is in words.
Config == [pointer : Words, begin : Words, end : Words, mask : DOMAIN Masked,
           step : Nat, depth_max : Nat, offset_max : Nat, result_max : Nat, find_all : BOOLEAN]

ASSUME SearchAssumption ==
  /\ Word \in Nat \ {0} /\ Addresses \subseteq Words /\ Values \subseteq Words
  /\ Configs \subseteq Config /\ Nothing \notin Configs
  /\ "search" \in Watchers

VARIABLES
  search,   \* what find_ref does: "idle", "enter", "scan", "walk" or "done"
  config,   \* the PointerConfig of the command, or Nothing
  stack,    \* the calls of find_ref, see Frame
  regions,  \* the parts of the regions that the scan still has to read
  chains    \* the chains printed so far

searchVars == <<search, config, stack, regions, chains>>

\* A PointerInfo: a word that points to the one before it, or offset bytes below.
\* Its _depth is the number of links up to it, which _prev leads to.
Link  == [addr : Addresses, value : Values, offset : Words]
\* One call: the links that lead to its pointer, and the matches it has not handled.
Frame == [links : Seq(Link), found : SUBSET (Addresses \X Values)]

\* The address that the link after these has to point to.
PointerOf(links) == IF links = <<>> THEN config.pointer ELSE links[Len(links)].addr

Top     == stack[Len(stack)]
Pointer == PointerOf(Top.links)

SearchInit ==
  /\ search = "idle"
  /\ config = Nothing
  /\ stack = <<>>
  /\ regions = {}
  /\ chains = {}

\* The command is called.  Without a process, the session asks a null pointer for the
\* regions.
SearchBegins(c) ==
  /\ search = "idle"
  /\ IF process = Nothing
     THEN crashed' = TRUE /\ UNCHANGED <<held, search, config, stack>>
     ELSE /\ search' = "enter"
          /\ config' = c
          /\ stack' = <<[links |-> <<>>, found |-> {}]>>
          /\ Watch("search")
          /\ UNCHANGED crashed
  /\ UNCHANGED <<regions, chains>>

\* find_ref returns, to the loop of the call before it or to run.
Return ==
  /\ stack' = SubSeq(stack, 1, Len(stack) - 1)
  /\ search' = IF Len(stack) = 1 THEN "done" ELSE "walk"
  /\ UNCHANGED <<config, regions, chains>>

TooDeep ==
  /\ search = "enter"
  /\ Len(Top.links) >= config.depth_max
  /\ Return

\* ScanComparator asserts that there is a step; built without assertions the reader
\* divides by it as soon as it has read something.
StepOfZero ==
  /\ search = "enter"
  /\ Len(Top.links) < config.depth_max
  /\ config.step = 0
  /\ crashed' = TRUE
  /\ UNCHANGED <<held, searchVars>>

\* A new session asks for the regions; those of which the scan reads are chosen.
ListRegions ==
  /\ search = "enter"
  /\ Len(Top.links) < config.depth_max
  /\ config.step # 0
  /\ regions' = {[next |-> line.first, end |-> line.end] :
                   line \in {l \in maps[process] : {"r", "w"} \subseteq l.perms}}
  /\ search' = "scan"
  /\ UNCHANGED <<config, stack, chains>>

Matches(v) == Masked[config.mask][v] = Masked[config.mask][Pointer]

\* Whether the scan gets all the words up to the next step: it looks at whole steps.
Whole(r) ==
  /\ r.next + config.step <= r.end
  /\ \A a \in r.next .. r.next + config.step - 1 : Readable(process, a)

\* What is left of a region after one step of it was read.
Advance(r) ==
  IF r.next + config.step < r.end THEN {[r EXCEPT !.next = @ + config.step]} ELSE {}

\* Mutant: a failing read is tried again.
ReadWordAgain(r) ==
  /\ search = "scan"
  /\ IF Whole(r)
     THEN LET v == memory[process][r.next]
          IN  /\ stack' = IF Matches(v)
                          THEN [stack EXCEPT ![Len(stack)].found = @ \union {<<r.next, v>>}]
                          ELSE stack
              /\ regions' = (regions \ {r}) \union Advance(r)
     ELSE UNCHANGED <<stack, regions>>
  /\ UNCHANGED <<search, config, chains>>

\* The scan reads a word of some region, in any order of the regions; a region is
\* given up at its first step that cannot be read.
ReadWord(r) ==
  /\ search = "scan"
  /\ IF Whole(r)
     THEN LET v == memory[process][r.next]
          IN  /\ stack' = IF Matches(v)
                          THEN [stack EXCEPT ![Len(stack)].found = @ \union {<<r.next, v>>}]
                          ELSE stack
              /\ regions' = (regions \ {r}) \union Advance(r)
     ELSE regions' = regions \ {r} /\ UNCHANGED stack
  /\ UNCHANGED <<search, config, chains>>

TooManyResults ==
  /\ search = "scan" /\ regions = {}
  /\ Cardinality(Top.found) > config.result_max
  /\ Return

SortResults ==
  /\ search = "scan" /\ regions = {}
  /\ Cardinality(Top.found) <= config.result_max
  /\ search' = "walk"
  /\ UNCHANGED <<config, stack, regions, chains>>

\* Mutant: the distance is taken as a signed number.
DistanceSigned(v) == Pointer - v

\* How far below the pointer a word points, as an unsigned number.
Distance(v) == (Pointer - v) % Word

\* The matches the order of the list may put first.
Nearest ==
  {m \in Top.found : \A other \in Top.found : Distance(m[2]) <= Distance(other[2])}

\* The loop ends with the list, or at the first word that points above the pointer.
WalkEnds ==
  /\ search = "walk"
  /\ \/ Top.found = {}
     \/ \E m \in Nearest : m[2] > Pointer
  /\ Return

InBase(a) == a >= config.begin /\ a < config.end

LinkOf(m) == [addr |-> m[1], value |-> m[2], offset |-> Pointer - m[2]]

Handled(m) == [stack EXCEPT ![Len(stack)].found = @ \ {m}]

\* The base is reached: the chain is printed, and the search is over unless all of
\* them are wanted.
ReportChain(m) ==
  /\ search = "walk"
  /\ m[2] <= Pointer /\ InBase(m[1])
  /\ chains' = chains \union {Append(Top.links, LinkOf(m))}
  /\ IF config.find_all THEN stack' = Handled(m) /\ UNCHANGED search
                        ELSE stack' = <<>> /\ search' = "done"
  /\ UNCHANGED <<config, regions>>

\* Mutant: the distance to the pointer is not limited.
FollowFar(m) ==
  /\ search = "walk"
  /\ m[2] <= Pointer /\ ~InBase(m[1])
  /\ stack' = Append(Handled(m), [links |-> Append(Top.links, LinkOf(m)), found |-> {}])
  /\ search' = "enter"
  /\ UNCHANGED <<config, regions, chains>>

Follow(m) ==
  /\ search = "walk"
  /\ m[2] <= Pointer /\ ~InBase(m[1])
  /\ Pointer - m[2] < config.offset_max
  /\ stack' = Append(Handled(m), [links |-> Append(Top.links, LinkOf(m)), found |-> {}])
  /\ search' = "enter"
  /\ UNCHANGED <<config, regions, chains>>

PassOver(m) ==
  /\ search = "walk"
  /\ m[2] <= Pointer /\ ~InBase(m[1])
  /\ Pointer - m[2] >= config.offset_max
  /\ stack' = Handled(m)
  /\ UNCHANGED <<search, config, regions, chains>>

SearchStep ==
  \/ StepOfZero
  \/ /\ \/ TooDeep \/ ListRegions \/ TooManyResults \/ SortResults \/ WalkEnds
        \/ \E r \in regions : ReadWord(r)
        \/ search = "walk" /\ \E m \in Nearest : ReportChain(m) \/ Follow(m) \/ PassOver(m)
     /\ UNCHANGED <<held, crashed>>

\* The command prints the time it took and returns to the terminal.
SearchReturns ==
  /\ search = "done"
  /\ search' = "idle" /\ config' = Nothing /\ chains' = {}
  /\ held' = [held EXCEPT !["search"] = {}]
  /\ UNCHANGED <<stack, regions, crashed>>
-------------------------------------------------------------------------------
(***************************************************************************)
(* Properties.                                                             *)
(***************************************************************************)
SearchTypeOK ==
  /\ search \in {"idle", "enter", "scan", "walk", "done"}
  /\ config \in Configs \union {Nothing}
  /\ stack \in Seq(Frame)
  /\ regions \subseteq [next : Addresses, end : Nat]
  /\ chains \subseteq Seq(Link)

\* Every link was in memory at some moment of the command and points to the link
\* before it, or at most so far below it that the code looks for its own pointers.
Linked(links) ==
  \A i \in 1 .. Len(links) :
    LET to == IF i = 1 THEN config.pointer ELSE links[i - 1].addr
    IN  /\ <<process, links[i].addr, links[i].value>> \in held["search"]
        /\ links[i].value + links[i].offset = to
        /\ i < Len(links) => links[i].offset < config.offset_max /\ ~InBase(links[i].addr)

(***************************************************************************)
(* A chain that is printed can be followed: although the target runs while *)
(* it is put together from several scans, each of its links was in memory, *)
(* and adding the offset to the value yields the next address; it enters   *)
(* the base region with its last link only and is no longer than asked.    *)
(* The offset of the last link is not limited: the code prints it before   *)
(* it looks at offset_max.                                                 *)
(***************************************************************************)
LinksHeld ==
  \A chain \in chains :
    /\ chain # <<>> /\ Len(chain) <= config.depth_max
    /\ InBase(chain[Len(chain)].addr)
    /\ Linked(chain)

\* What a scan can reach of the attached process: the steps of a writable region up
\* to the first that holds a word that cannot be read.
Reached ==
  {a \in Addresses :
     \E line \in maps[process] :
       /\ {"r", "w"} \subseteq line.perms
       /\ config.step # 0 /\ \E k \in 0 .. a : a = line.first + k * config.step
       /\ a + config.step <= line.end
       /\ \A b \in line.first .. a + config.step - 1 : Readable(process, b)}

\* The words that a search for an address looks at, unless they are too many.
Close(to) ==
  LET all == {a \in Reached : Masked[config.mask][memory[process][a]]
                                = Masked[config.mask][to]}
  IN  IF Cardinality(all) > config.result_max THEN {}
      ELSE {a \in all : memory[process][a] <= to}

(***************************************************************************)
(* All chains of a memory that stands still, without the search: sequences *)
(* of addresses, each among the words close to the address before it.      *)
(***************************************************************************)
AllChains ==
  LET To(path, i) == IF i = 1 THEN config.pointer ELSE path[i - 1]
      Paths == UNION {[1 .. n -> Reached] : n \in 1 .. config.depth_max}
      Leads(path) ==
        /\ \A i \in 1 .. Len(path) :
             /\ path[i] \in Close(To(path, i))
             /\ IF i = Len(path) THEN InBase(path[i])
                ELSE /\ ~InBase(path[i])
                     /\ To(path, i) - memory[process][path[i]] < config.offset_max
      ChainOf(path) ==
        [i \in 1 .. Len(path) |->
           [addr |-> path[i], value |-> memory[process][path[i]],
            offset |-> To(path, i) - memory[process][path[i]]]]
  IN  {ChainOf(path) : path \in {p \in Paths : Leads(p)}}

(***************************************************************************)
(* If the target changes nothing while the command runs, the command       *)
(* prints exactly the chains there are; or one of them, if there is one    *)
(* and not all are wanted.  The early end of the loop and the abandoned    *)
(* calls lose nothing but what the limits exclude.                         *)
(***************************************************************************)
FrozenSearchExact ==
  search = "done" /\ held["search"] = Facts(process) =>
    IF config.find_all THEN chains = AllChains
    ELSE /\ chains \subseteq AllChains /\ Cardinality(chains) <= 1
         /\ chains = {} => AllChains = {}

\* The command comes to its end whatever the target does to the pointers, also when
\* they lead in a circle; with a step of zero it takes mypower with it.
SearchEnds == search = "enter" ~> search = "idle" \/ crashed
===============================================================================
