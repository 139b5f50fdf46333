------------------------------- MODULE HeapLoops -------------------------------
(***************************************************************************)
(* The three loops of heap.c, one iteration per step: the scan of          *)
(* heap_get_start_block, the marking of heap_mark_blocks_taken and the     *)
(* clearing of heap_mark_blocks_free.  Nothing else runs between the       *)
(* iterations (the kernel runs with interrupts off), so the table as it    *)
(* was when the operation began, kept in the history variable before, is   *)
(* what an observer between two operations sees.  With it this machine     *)
(* implements KernelHeap, whose operators are the results of the loops.    *)
(***************************************************************************)
EXTENDS KernelHeap

VARIABLES pc,      \* the loop that is running, or "idle"
          i,       \* the loop's index
          bc, bs,  \* locals of heap_get_start_block
          entry,   \* local of heap_mark_blocks_taken
          alloc,   \* the run being allocated or freed
          before   \* history: <<entries, spilled>> when the operation began

loopVars == <<entries, spilled, held, result, pc, i, bc, bs, entry, alloc, before>>

NoAlloc == [start |-> 0, blocks |-> 0]

LoopInit ==
    /\ kheap_init
    /\ pc = "idle"
    /\ i = 0 /\ bc = 0 /\ bs = -1 /\ entry = FREE
    /\ alloc = NoAlloc
    /\ before = <<entries, spilled>>

(* The operation returns; its locals are gone. *)
Return ==
    /\ pc' = "idle"
    /\ i' = 0 /\ bc' = 0 /\ bs' = -1 /\ entry' = FREE
    /\ alloc' = NoAlloc
    /\ before' = <<entries', spilled'>>

CallMalloc(size) ==
    /\ pc = "idle"
    /\ pc' = "scan"
    /\ i' = 0 /\ bc' = 0 /\ bs' = -1
    /\ alloc' = [start |-> 0, blocks |-> heap_total_blocks(size)]
    /\ UNCHANGED <<entries, spilled, held, result, entry, before>>

CallFree(a) ==
    /\ pc = "idle"
    /\ pc' = "free"
    /\ i' = a.start
    /\ alloc' = a
    /\ UNCHANGED <<entries, spilled, held, result, bc, bs, entry, before>>

-------------------------------------------------------------------------------
(* heap_get_start_block. *)

(* What the iteration would be if it went round without counting i. *)
ScanTakenStuck ==
    /\ pc = "scan" /\ i < TotalBlocks /\ ~IsFree(entries, i)
    /\ bc' = 0 /\ bs' = -1
    /\ UNCHANGED <<entries, spilled, held, result, pc, i, entry, alloc, before>>

(* What the iteration would be if a taken entry reset bs and not bc. *)
ScanTakenKeepsCount ==
    /\ pc = "scan" /\ i < TotalBlocks /\ ~IsFree(entries, i)
    /\ bc' = bc /\ bs' = -1
    /\ i' = i + 1
    /\ UNCHANGED <<entries, spilled, held, result, pc, entry, alloc, before>>

(* A taken entry resets the run found so far. *)
ScanTaken ==
    /\ pc = "scan" /\ i < TotalBlocks /\ ~IsFree(entries, i)
    /\ bc' = 0 /\ bs' = -1
    /\ i' = i + 1
    /\ UNCHANGED <<entries, spilled, held, result, pc, entry, alloc, before>>

(* After the loop, by break or at the end of the table: bs decides. *)
Scanned(start) ==
    IF start = -1
    THEN /\ result' = -ENOMEM
         /\ UNCHANGED <<entries, spilled, held>>
         /\ Return
    ELSE /\ pc' = "mark"
         /\ alloc' = [alloc EXCEPT !.start = start]
         /\ i' = start
         /\ bc' = 0 /\ bs' = -1
         /\ entry' = {"taken", "first"} \cup (IF alloc.blocks > 1 THEN {"next"} ELSE {})
         /\ UNCHANGED <<entries, spilled, held, result, before>>

ScanFree ==
    /\ pc = "scan" /\ i < TotalBlocks /\ IsFree(entries, i)
    /\ LET start == IF bs = -1 THEN i ELSE bs
       IN  IF bc + 1 = alloc.blocks
           THEN Scanned(start)
           ELSE /\ bs' = start /\ bc' = bc + 1 /\ i' = i + 1
                /\ UNCHANGED <<entries, spilled, held, result, pc, entry, alloc, before>>

ScanEnd ==
    /\ pc = "scan" /\ i >= TotalBlocks
    /\ Scanned(bs)

-------------------------------------------------------------------------------
(* heap_mark_blocks_taken. *)

end_block == alloc.start + alloc.blocks - 1

(* What the iteration would be if the next entry were compared with        *)
(* end_block instead of end_block - 1.                                     *)
MarkOffByOne ==
    /\ pc = "mark" /\ i <= end_block
    /\ IF i \in Blocks
       THEN entries' = [entries EXCEPT ![i] = entry] /\ UNCHANGED spilled
       ELSE spilled' = spilled \cup {i} /\ UNCHANGED entries
    /\ entry' = {"taken"} \cup (IF i # end_block THEN {"next"} ELSE {})
    /\ i' = i + 1
    /\ UNCHANGED <<held, result, pc, bc, bs, alloc, before>>

Mark ==
    /\ pc = "mark" /\ i <= end_block
    /\ IF i \in Blocks
       THEN entries' = [entries EXCEPT ![i] = entry] /\ UNCHANGED spilled
       ELSE spilled' = spilled \cup {i} /\ UNCHANGED entries
    /\ entry' = {"taken"} \cup (IF i # end_block - 1 THEN {"next"} ELSE {})
    /\ i' = i + 1
    /\ UNCHANGED <<held, result, pc, bc, bs, alloc, before>>

MarkEnd ==
    /\ pc = "mark" /\ i > end_block
    /\ result' = alloc.start
    /\ held' = held \cup {alloc}
    /\ UNCHANGED <<entries, spilled>>
    /\ Return

-------------------------------------------------------------------------------
(* heap_mark_blocks_free. *)

Freed ==
    /\ held' = held \ {alloc}
    /\ UNCHANGED <<spilled, result>>
    /\ Return

Clear ==
    /\ pc = "free" /\ i < TotalBlocks
    /\ entries' = [entries EXCEPT ![i] = FREE]
    /\ IF "next" \in entries[i]
       THEN /\ i' = i + 1
            /\ UNCHANGED <<spilled, held, result, pc, bc, bs, entry, alloc, before>>
       ELSE Freed

ClearEnd ==
    /\ pc = "free" /\ i >= TotalBlocks
    /\ UNCHANGED entries
    /\ Freed

LoopNext ==
    \/ \E size \in Sizes : CallMalloc(size)
    \/ \E a \in held : CallFree(a)
    \/ ScanTaken \/ ScanFree \/ ScanEnd
    \/ Mark \/ MarkEnd
    \/ Clear \/ ClearEnd

(* A loop that has begun is run to its end by the processor. *)
Iterate == ScanTaken \/ ScanFree \/ ScanEnd \/ Mark \/ MarkEnd \/ Clear \/ ClearEnd

LoopSpec == LoopInit /\ [][LoopNext]_loopVars /\ WF_loopVars(Iterate)

-------------------------------------------------------------------------------
(* Properties. *)

(* The heap as it is seen between two operations. *)
Atomic == INSTANCE KernelHeap WITH entries <- before[1], spilled <- before[2]

(* Run to their ends, the loops of heap.c compute what KernelHeap says, in *)
(* every state of the table that operations can produce.                   *)
LoopsImplementHeap == Atomic!Spec

(* The scan's counters describe the free run that ends just before i, and  *)
(* the run is shorter than the request (heap.c 79-102).                    *)
ScanInvariant ==
    pc = "scan" =>
        /\ i <= TotalBlocks
        /\ \A j \in i - bc .. i - 1 : IsFree(entries, j)
        /\ i > bc => ~IsFree(entries, i - bc - 1)
        /\ bs = IF bc = 0 THEN -1 ELSE i - bc
        /\ alloc.blocks > 0 => bc < alloc.blocks

(* No operation runs for ever. *)
LoopsTerminate == pc # "idle" ~> pc = "idle"
===============================================================================
