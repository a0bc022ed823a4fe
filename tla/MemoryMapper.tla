----------------------------- MODULE MemoryMapper -----------------------------
(***************************************************************************)
(* The chunked reader of a memory scan (src/src/scanner.hpp): a            *)
(* MemoryMapper copies a region of the target through a fixed buffer, one  *)
(* chunk per call of next(), and carries the tail of a chunk that is       *)
(* shorter than the step over to the next chunk.  The scanner's loop walks *)
(* the window [begin(), end()) of the buffer and computes the target       *)
(* address of a candidate from address_begin() and its buffer offset.      *)
(*                                                                         *)
(* A buffer cell holds the address of the target byte that was copied into *)
(* it, or NoByte while it is still the zero page mmap returned.  Pointers  *)
(* are offsets from _cache.                                                *)
(***************************************************************************)
EXTENDS Integers

CONSTANTS
  Page,      \* sysconf(_SC_PAGESIZE)
  Capacity,  \* _cache_capacity
  Jobs,      \* the region scans started, see ScanJob
  Nothing,   \* no comparison has been made yet
  NoByte     \* a buffer cell nothing was read into

VARIABLES
  job,          \* the constructor's arguments and the scanner's
  cache,        \* the mapping of _total_memory bytes at _cache
  begin_addr,   \* _begin_addr, returned by address_begin()
  cached_size,  \* _cached_size
  backup_size,  \* _backup_size
  win_begin,    \* _begin, returned by begin()
  win_end,      \* _end, returned by end()
  iter,         \* the scanner's iter (ptr in ScanBytes)
  seen,         \* the address and the value last handed to the comparator
  state         \* "scanning", "done" (next() was false), "failed" (an exception
                \* left it) or "overrun" (a memcpy left the mapping)

readerVars == <<job, cache, begin_addr, cached_size, backup_size, win_begin, win_end,
          iter, seen, state>>
buffer == <<cache, begin_addr, cached_size, backup_size, win_begin, win_end>>

\* One call of the constructor, with the scanner it feeds: the region
\* [first, end), the distance between two candidates, the size of the value
\* compared and whether it is a number or a string.
ScanJob == [first : Nat, end : Nat, step : Nat \ {0}, width : Nat \ {0},
            kind : {"number", "bytes"}]

ASSUME BufferAssumption == Page \in Nat \ {0} /\ Capacity \in Nat \ {0}

\* A number has at most eight bytes and fits in a page.  ScanBytes::step() is the
\* length of the string.  Neither --step nor that length has an upper limit.
ASSUME JobsAssumption ==
  /\ Jobs \subseteq ScanJob
  /\ \A j \in Jobs : /\ j.first <= j.end
                     /\ j.kind = "number" => j.width <= Page
                     /\ j.kind = "bytes" => j.step = j.width

-------------------------------------------------------------------------------
Cells  == 0 .. Capacity + 2 * Page - 1

\* Mutant: the carried bytes follow the chunk without a page in between.
BackupTooLow == Capacity

Backup == Capacity + Page

\* The buffer after n bytes at target address addr were read to offset at.
ReadInto(at, addr, n) ==
  [c \in Cells |-> IF c \in at .. at + n - 1 THEN addr + (c - at) ELSE cache[c]]

\* memcpy(to, from, n) inside the buffer c.
Copy(c, to, from, n) ==
  [x \in Cells |-> IF x \in to .. to + n - 1 THEN c[from + (x - to)] ELSE c[x]]

(***************************************************************************)
(* The byte counts process_vm_readv may return for the read at addr of the *)
(* smaller of the capacity and what the region has left: all of it, or     *)
(* everything up to the first page that is not readable.  No byte at all   *)
(* is the error -1, see ChunkReadFails.                                         *)
(***************************************************************************)
ReadableSizes(addr) ==
  {n \in 1 .. Capacity :
     /\ addr + n <= job.end
     /\ n = Capacity \/ addr + n = job.end \/ (addr + n) % Page = 0}

\* The constructor; when it gets no memory it throws and the region is dropped.
ReaderInit ==
  /\ job \in Jobs
  /\ cache = [c \in Cells |-> NoByte]
  /\ begin_addr = job.first
  /\ cached_size = 0
  /\ backup_size = 0
  /\ win_begin = 0
  /\ win_end = 0
  /\ iter = 0
  /\ seen = Nothing
  /\ state \in {"scanning", "failed"}

\* The scanner has handled the window: a number scanner at iter = end, a string
\* search as soon as memmem finds no further occurrence.
WindowHandled == job.kind = "number" => iter = win_end

\* Mutants: the position after a chunk assumes a full read, or never moves.
NextAddressFullRead == begin_addr + Capacity
NextAddressStale    == begin_addr

NextAddress == begin_addr + cached_size

(***************************************************************************)
(* next() succeeds.  The bytes carried over are put in front of the chunk, *)
(* the window ends at the last whole step of what was read, and the rest   *)
(* is saved for the next call.                                             *)
(***************************************************************************)
NextChunk ==
  /\ state = "scanning" /\ WindowHandled
  /\ NextAddress < job.end
  /\ \E n \in ReadableSizes(NextAddress) :
       /\ n % job.step <= Page
       /\ LET at   == IF backup_size = 0 THEN 0 ELSE Page
              left == n % job.step
              start == at - backup_size
              stop == start + n - left
              joined == Copy(ReadInto(at, NextAddress, n), start, Backup, backup_size)
          IN  /\ cache' = Copy(joined, Backup, stop, left)
              /\ cached_size' = n
              /\ backup_size' = left
              /\ win_begin' = start
              /\ win_end' = stop
              /\ iter' = start
  /\ begin_addr' = NextAddress
  /\ UNCHANGED <<job, seen, state>>

\* The same when what is left of the chunk is more than the page set aside for
\* it: the memcpy runs past the end of the mapping, and nothing is said of what
\* the program does from there on.
CarryOverruns ==
  /\ state = "scanning" /\ WindowHandled
  /\ NextAddress < job.end
  /\ \E n \in ReadableSizes(NextAddress) : n % job.step > Page
  /\ state' = "overrun"
  /\ UNCHANGED <<job, buffer, iter, seen>>

\* next() throws because nothing can be read; Session::scan drops the region.
ChunkReadFails ==
  /\ state = "scanning" /\ WindowHandled
  /\ NextAddress < job.end
  /\ state' = "failed"
  /\ UNCHANGED <<job, buffer, iter, seen>>

\* next() returns false.
EndOfRegion ==
  /\ state = "scanning" /\ WindowHandled
  /\ NextAddress >= job.end
  /\ state' = "done"
  /\ UNCHANGED <<job, buffer, iter, seen>>

\* Mutant: addresses are counted from the end of the chunk.
CandidateFromEnd(i) ==
  [addr  |-> NextAddress + (i - win_begin),
   bytes |-> [k \in 0 .. job.width - 1 |-> cache[i + k]]]

\* The address computed for offset i, and the value found there.
Candidate(i) ==
  [addr  |-> begin_addr + (i - win_begin),
   bytes |-> [k \in 0 .. job.width - 1 |-> cache[i + k]]]

\* Mutant: the loop goes on by the size of the value.
CompareNumberByWidth ==
  /\ state = "scanning" /\ job.kind = "number"
  /\ iter # win_end
  /\ seen' = Candidate(iter)
  /\ iter' = iter + job.width
  /\ UNCHANGED <<job, buffer, state>>

\* One round of the loop of ScanComparator or ScanExpression.
CompareNumber ==
  /\ state = "scanning" /\ job.kind = "number"
  /\ iter # win_end
  /\ seen' = Candidate(iter)
  /\ iter' = iter + job.step
  /\ UNCHANGED <<job, buffer, state>>

\* memmem finds the string at offset ptr of the window.
FindBytes ==
  /\ state = "scanning" /\ job.kind = "bytes"
  /\ \E ptr \in iter .. win_end - job.width :
       /\ seen' = Candidate(ptr)
       /\ iter' = ptr + job.width
  /\ UNCHANGED <<job, buffer, state>>

ReaderNext ==
  \/ NextChunk \/ CarryOverruns \/ ChunkReadFails \/ EndOfRegion
  \/ CompareNumber \/ FindBytes

ReaderSpec == ReaderInit /\ [][ReaderNext]_readerVars

\* The scanning thread keeps running.
ReaderFairSpec == ReaderSpec /\ WF_readerVars(ReaderNext)
-------------------------------------------------------------------------------
(***************************************************************************)
(* Properties.                                                             *)
(***************************************************************************)
Bytes == Nat \union {NoByte}

ReaderTypeOK ==
  /\ job \in Jobs
  /\ cache \in [Cells -> Bytes]
  /\ begin_addr \in Nat /\ cached_size \in 0 .. Capacity
  /\ backup_size \in 0 .. Page
  /\ win_begin \in Cells /\ win_end \in Cells /\ iter \in Cells
  /\ \/ seen = Nothing
     \/ seen \in [addr : Nat, bytes : [0 .. job.width - 1 -> Bytes]]
  /\ state \in {"scanning", "done", "failed", "overrun"}

(***************************************************************************)
(* The scanner stays inside the mapping, with the number that may hang     *)
(* over the end of the window and the tail carried to the next call.  The  *)
(* memcpy that saves the tail leaves the mapping only for a step of more   *)
(* than a page and a byte: --step is not checked against the page, and     *)
(* neither is the length of a string.                                      *)
(***************************************************************************)
AccessesInCache ==
  /\ 0 <= win_begin /\ win_begin <= iter
  /\ win_end <= Backup
  /\ job.kind = "number" => win_end + job.width - 1 \in Cells
  /\ Backup + backup_size - 1 \in Cells
  /\ state = "overrun" => job.step > Page + 1

(***************************************************************************)
(* The loops of the number scanners stop at iter = end only by meeting it  *)
(* exactly: what is left of the window is always a whole number of steps,  *)
(* also when the step divides neither the chunk nor a partial read.        *)
(***************************************************************************)
LoopMeetsEnd ==
  job.kind = "number" => /\ iter <= win_end
                         /\ (win_end - iter) % job.step = 0

\* The default use: a step that divides the page and holds the whole value,
\* over page-aligned regions, with a buffer of whole pages.
Aligned(j) ==
  /\ Page % j.step = 0 /\ j.width <= j.step
  /\ j.first % Page = 0 /\ j.end % Page = 0
  /\ Capacity % Page = 0

(***************************************************************************)
(* The comparator is given the bytes of the very address that a match will *)
(* report: no stale byte of an earlier chunk, no zero of the spare pages,  *)
(* no shift by the carried bytes, even when reads come back short.         *)
(***************************************************************************)
OwnBytes ==
  Aligned(job) /\ seen # Nothing =>
    seen.bytes = [k \in 0 .. job.width - 1 |-> seen.addr + k]

(***************************************************************************)
(* What src/tests/test_scanner_unaligned.cpp expects of a scan with step 1 *)
(* and of the address of a match: a value that lies in the region is       *)
(* compared with its own bytes wherever it starts, also when it lies       *)
(* across the end of a chunk.                                              *)
(***************************************************************************)
UnalignedValueIntact ==
  seen # Nothing /\ seen.addr + job.width <= job.end =>
    seen.bytes = [k \in 0 .. job.width - 1 |-> seen.addr + k]

(***************************************************************************)
(* Where a step leaves a tail, the window begins with carried bytes while  *)
(* address_begin() is the address of the chunk behind them, and the tail   *)
(* is cut off at the end of the window although it began before the chunk. *)
(* A match is then listed above its value, by no more than what two chunks *)
(* carried, and never below it.                                            *)
(***************************************************************************)
AddressNearValue ==
  seen # Nothing /\ job.step <= Page /\ job.first % Page = 0 /\ job.end % Page = 0 =>
    seen.addr - seen.bytes[0] \in 0 .. 2 * (job.step - 1)

\* Every region scan ends, whatever the reads return.
ScanEnds == <>(state # "scanning")

(***************************************************************************)
(* The chunked reader implements the linear scan of an aligned region:     *)
(* candidates in order, none left out by a number scanner, each with its   *)
(* own bytes.  Any other job only starts as a linear scan does.            *)
(***************************************************************************)
Linear == INSTANCE LinearScan WITH pos <- begin_addr + (iter - win_begin)

LinearScanSpec ==
  Linear!Init /\ [][Aligned(job) => Linear!Next]_(Linear!linearVars)
===============================================================================
