------------------------------ MODULE KernelHeap ------------------------------
(***************************************************************************)
(* The kernel heap of src/memory/heap: a table with one flag byte per      *)
(* block.  A table entry is modelled by the set of flags that are set in   *)
(* the byte; the free entry is the empty set.                              *)
(*                                                                         *)
(* The three loops over the table (scan, mark taken, mark free) are        *)
(* written here by their results; HeapLoops runs them one iteration at a   *)
(* time and shows that they compute these results.                         *)
(***************************************************************************)
EXTENDS Integers, FiniteSetsExt

CONSTANTS TotalBlocks,  \* heap_table.total
          BlockSize,    \* PANDORAOS_HEAP_BLOCK_SIZE
          Word,         \* 2^32: sizes are computed modulo this
          Sizes         \* the sizes, in bytes, that callers ask for

ASSUME HeapAssumption ==
    /\ TotalBlocks \in Nat \ {0}
    /\ BlockSize \in Nat \ {0}
    /\ Word \in Nat \ {0}
    /\ Sizes \subseteq 0 .. Word - 1

VARIABLES entries,  \* heap_table.entries, inside the table
          spilled,  \* indexes past the end of the table that were written
          held,     \* what callers hold: the pointers not yet passed to kfree
          result    \* the block the last heap_malloc returned, or -ENOMEM

heapVars == <<entries, spilled, held, result>>

Blocks == 0 .. TotalBlocks - 1
Flags  == {"taken", "first", "next"}
FREE   == {}
ENOMEM == 3

(* The blocks of an allocation. *)
Run(a) == a.start .. a.start + a.blocks - 1

-------------------------------------------------------------------------------
(* Sizes and blocks. *)

heap_align_value_to_upper(val) ==
    IF val % BlockSize = 0 THEN val
                           ELSE (val - (val % BlockSize) + BlockSize) % Word

heap_total_blocks(size) == heap_align_value_to_upper(size) \div BlockSize

IsFree(tbl, i) == "taken" \notin tbl[i]

-------------------------------------------------------------------------------
(* The scan.  It stops at the first run of n free blocks.  When it runs    *)
(* off the table, bs still names the start of the free run at the end of   *)
(* the table, if there is one, and that block is returned although fewer   *)
(* than n blocks follow it.  For n = 0 the scan never stops early.         *)

Fits(tbl, n) ==
    {s \in Blocks : s + n <= TotalBlocks /\ \A i \in s .. s + n - 1 : IsFree(tbl, i)}

Trailing(tbl) == {s \in Blocks : \A i \in s .. TotalBlocks - 1 : IsFree(tbl, i)}

(* What the scan would return if finding a taken entry did not reset bs    *)
(* and bc (heap.c 87-88).                                                  *)
ScanWithoutReset(tbl, n) ==
    LET free == {i \in Blocks : IsFree(tbl, i)}
    IN  IF free = {} THEN -ENOMEM ELSE Min(free)

heap_get_start_block(tbl, n) ==
    IF n > 0 /\ Fits(tbl, n) # {} THEN Min(Fits(tbl, n))
    ELSE IF Trailing(tbl) # {} THEN Min(Trailing(tbl))
    ELSE -ENOMEM

-------------------------------------------------------------------------------
(* Marking.  Every block of a run but the last says that another follows.  *)

EntryFor(a, i) ==
    {"taken"} \cup (IF i = a.start THEN {"first"} ELSE {})
              \cup (IF i < a.start + a.blocks - 1 THEN {"next"} ELSE {})

heap_mark_blocks_taken(tbl, a) ==
    [i \in Blocks |-> IF i \in Run(a) THEN EntryFor(a, i) ELSE tbl[i]]

(* The blocks that heap_mark_blocks_free visits from block s: it goes on   *)
(* as long as the entry it has just cleared said that another follows.     *)
Chain(tbl, s) == {i \in Blocks : s <= i /\ \A j \in s .. i - 1 : "next" \in tbl[j]}

FreeOneOnly(tbl, s) == [tbl EXCEPT ![s] = FREE]

heap_mark_blocks_free(tbl, s) ==
    [i \in Blocks |-> IF i \in Chain(tbl, s) THEN FREE ELSE tbl[i]]

-------------------------------------------------------------------------------
(* The operations. *)

kheap_init ==
    /\ entries = [i \in Blocks |-> FREE]
    /\ spilled = {}
    /\ held = {}
    /\ result = 0

(* heap_malloc: the error path leaves the table alone; otherwise the run   *)
(* is marked from the start block on, past the end of the table when the   *)
(* scan returned a run that is too short.                                  *)
heap_malloc(size) ==
    LET n == heap_total_blocks(size)
        s == heap_get_start_block(entries, n)
        a == [start |-> s, blocks |-> n]
    IN  \/ /\ s < 0
           /\ result' = s
           /\ UNCHANGED <<entries, spilled, held>>
        \/ /\ s >= 0
           /\ result' = s
           /\ entries' = heap_mark_blocks_taken(entries, a)
           /\ spilled' = spilled \cup (Run(a) \ Blocks)
           /\ held' = held \cup {a}

(* heap_free of a pointer a caller holds. *)
heap_free(a) ==
    /\ entries' = heap_mark_blocks_free(entries, a.start)
    /\ held' = held \ {a}
    /\ UNCHANGED <<spilled, result>>

Next ==
    \/ \E size \in Sizes : heap_malloc(size)
    \/ \E a \in held : heap_free(a)

Spec == kheap_init /\ [][Next]_heapVars

-------------------------------------------------------------------------------
(* Properties. *)

Allocations == [start : Blocks, blocks : Nat]

(* Type correctness of the heap's state.  TLC cannot enumerate Nat, so the *)
(* spilled indexes and the allocations are described by membership.        *)
HeapTypeOK ==
    /\ entries \in [Blocks -> SUBSET Flags]
    /\ \A i \in spilled : i \in Nat /\ i >= TotalBlocks
    /\ \A a \in held : a \in Allocations
    /\ result \in Blocks \cup {-ENOMEM}

(* No two outstanding allocations overlap, not even in the part of a run   *)
(* that sticks out of the table (heap_get_start_block, heap.c 76-110).     *)
Disjoint == \A a, b \in held : a # b => Run(a) \cap Run(b) = {}

(* The flag bytes describe exactly the outstanding allocations: a block is *)
(* taken iff some allocation contains it, and its byte then places it as   *)
(* first, middle or last of that allocation, which is what                 *)
(* heap_mark_blocks_free (heap.c 158-170) relies on.                       *)
TableEncodes ==
    /\ \A a \in held : \A i \in Run(a) \cap Blocks : entries[i] = EntryFor(a, i)
    /\ \A i \in Blocks : ~IsFree(entries, i) => \E a \in held : i \in Run(a)

(* Only entries of the table are written: heap.h says that total is the    *)
(* "Amount of total entries", and heap_mark_blocks_taken indexes entries.  *)
WritesInsideTable == spilled = {}

(* What the callers of the heap rely on. *)
Abs == INSTANCE BlockAllocator
         WITH free   <- {i \in Blocks : IsFree(entries, i)},
              answer <- result,
              Counts <- {heap_total_blocks(size) : size \in Sizes}

(* The table of flag bytes implements a pool of blocks: a request is       *)
(* refused only when no run fits, a granted run is made of free blocks,    *)
(* and a free gives back exactly the blocks of the run, no more, no less   *)
(* (heap_malloc, heap_free).                                               *)
ImplementsAllocator == Abs!Spec
===============================================================================
