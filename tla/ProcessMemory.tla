---------------------------- MODULE ProcessMemory ----------------------------
(***************************************************************************)
(* The memory of processes: process_malloc, process_free, loading and      *)
(* termination of src/task/process.c on top of the kernel heap, together   *)
(* with the entries of each process's page directory that cover the heap.  *)
(*                                                                         *)
(* Every directory maps the heap one to one.  An entry is "ro" as          *)
(* paging_new_4gb makes it (present, user, not writable), "rw" once        *)
(* process_malloc has mapped it, and "np" (not present) once process_free  *)
(* has written 0 flags.  A page is as large as a heap block.  Handlers run *)
(* with interrupts off, so each is one action of any process.              *)
(***************************************************************************)
EXTENDS KernelHeap, FiniteSets

CONSTANTS Processes,      \* slots of the process table
          MaxAllocations, \* PANDORA_MAX_PROGRAM_ALLOCATIONS
          ImageBlocks,    \* blocks of a program's image
          StackBlocks,    \* blocks of its stack
          MaxKernelRuns,  \* bound: runs the rest of the kernel holds at a time
          None            \* an unused entry

AllocRecords == [ptr : Blocks, size : Sizes]

ASSUME MemoryAssumption ==
    /\ MaxAllocations \in Nat /\ ImageBlocks \in Nat \ {0} /\ StackBlocks \in Nat \ {0}
    /\ None \notin Allocations /\ None \notin AllocRecords

VARIABLES loaded,       \* the processes that exist
          allocations,  \* process->allocations
          image, stack, \* process->ptr or elf_memory, process->stack
          pages,        \* page table entries of the heap, per process
          kernelRuns,   \* what the rest of the kernel holds
          leaked        \* history: runs whose pointer was lost

memVars == <<entries, spilled, held, result, loaded, allocations, image, stack,
             pages, kernelRuns, leaked>>
procVars == <<loaded, allocations, image, stack, pages>>

Indexes  == 1 .. MaxAllocations
Identity == [b \in Blocks |-> "ro"]

(* The heap run and the pages of a recorded allocation: the directory maps *)
(* from ptr to paging_align_address(ptr + size).                           *)
RunOf(al) == [start |-> al.ptr, blocks |-> heap_total_blocks(al.size)]

(* A range that ends at ptr + size rounded down. *)
OnePageShort(al) == al.ptr .. al.ptr + (al.size \div BlockSize) - 1

PagesOf(al) == al.ptr .. al.ptr + ((al.size + BlockSize - 1) \div BlockSize) - 1

(* A mapping that takes flags of 0 for nothing to do. *)
MapIgnoresZero(dir, al, flags) ==
    [b \in Blocks |-> IF b \in PagesOf(al) /\ flags # "np" THEN flags ELSE dir[b]]

paging_map_to(dir, al, flags) ==
    [b \in Blocks |-> IF b \in PagesOf(al) THEN flags ELSE dir[b]]

(* The run kmalloc takes from the table tbl for n blocks; its start is     *)
(* negative when there is none.                                            *)
Taken(tbl, n) == [start |-> heap_get_start_block(tbl, n), blocks |-> n]

FreeIndexes(p) == {i \in Indexes : allocations[p][i] = None}

-------------------------------------------------------------------------------
MemInit ==
    /\ kheap_init
    /\ loaded = {}
    /\ allocations = [p \in Processes |-> [i \in Indexes |-> None]]
    /\ image = [p \in Processes |-> None]
    /\ stack = [p \in Processes |-> None]
    /\ pages = [p \in Processes |-> Identity]
    /\ kernelRuns = {}
    /\ leaked = {}

(* The rest of the kernel allocates and frees as well. *)
KernelAlloc(size) ==
    /\ Cardinality(kernelRuns) < MaxKernelRuns
    /\ heap_malloc(size)
    /\ kernelRuns' = kernelRuns \cup (held' \ held)
    /\ UNCHANGED <<procVars, leaked>>

KernelFree(a) ==
    /\ heap_free(a)
    /\ kernelRuns' = kernelRuns \ {a}
    /\ UNCHANGED <<procVars, leaked>>

-------------------------------------------------------------------------------
(* process_load_for_slot: the image, then the stack; when the stack cannot *)
(* be allocated process_free_process gives the image back.                 *)
process_load_for_slot(p) ==
    LET d  == Taken(entries, ImageBlocks)
        t1 == heap_mark_blocks_taken(entries, d)
        k  == Taken(t1, StackBlocks)
    IN  /\ p \notin loaded
        /\ \/ /\ d.start < 0
              /\ result' = d.start
              /\ UNCHANGED <<entries, spilled, held, procVars>>
           \/ /\ d.start >= 0 /\ k.start < 0
              /\ result' = k.start
              /\ entries' = heap_mark_blocks_free(t1, d.start)
              /\ spilled' = spilled \cup (Run(d) \ Blocks)
              /\ UNCHANGED <<held, procVars>>
           \/ /\ d.start >= 0 /\ k.start >= 0
              /\ result' = k.start
              /\ entries' = heap_mark_blocks_taken(t1, k)
              /\ spilled' = spilled \cup ((Run(d) \cup Run(k)) \ Blocks)
              /\ held' = held \cup {d, k}
              /\ loaded' = loaded \cup {p}
              /\ image' = [image EXCEPT ![p] = d]
              /\ stack' = [stack EXCEPT ![p] = k]
              /\ pages' = [pages EXCEPT ![p] = Identity]
              /\ UNCHANGED allocations
        /\ UNCHANGED <<kernelRuns, leaked>>

(* process_malloc (isr80h_command4_malloc).  The memory is taken before a  *)
(* free entry of allocations is looked for, and given back when there is   *)
(* none.                                                                   *)
process_malloc(p, size) ==
    LET n  == heap_total_blocks(size)
        a  == Taken(entries, n)
        t1 == heap_mark_blocks_taken(entries, a)
        al == [ptr |-> a.start, size |-> size]
    IN  /\ p \in loaded
        /\ result' = a.start
        /\ \/ /\ a.start < 0
              /\ UNCHANGED <<entries, spilled, held, procVars>>
           \/ /\ a.start >= 0 /\ FreeIndexes(p) = {}
              /\ entries' = heap_mark_blocks_free(t1, a.start)
              /\ spilled' = spilled \cup (Run(a) \ Blocks)
              /\ UNCHANGED <<held, procVars>>
           \/ /\ a.start >= 0 /\ FreeIndexes(p) # {}
              /\ entries' = t1
              /\ spilled' = spilled \cup (Run(a) \ Blocks)
              /\ held' = held \cup {a}
              /\ pages' = [pages EXCEPT ![p] = paging_map_to(@, al, "rw")]
              /\ allocations' = [allocations EXCEPT ![p][Min(FreeIndexes(p))] = al]
              /\ UNCHANGED <<loaded, image, stack>>
        /\ UNCHANGED <<kernelRuns, leaked>>

(* Slips of process_allocation_unjoin: nothing is cleared; only the        *)
(* pointer is.                                                             *)
UnjoinNothing(als, ptr) == als
UnjoinPointer(als, ptr) ==
    [i \in Indexes |-> IF als[i] # None /\ als[i].ptr = ptr
                      THEN [als[i] EXCEPT !.ptr = None] ELSE als[i]]

(* process_allocation_unjoin clears every entry with this pointer. *)
process_allocation_unjoin(als, ptr) ==
    [i \in Indexes |-> IF als[i] # None /\ als[i].ptr = ptr THEN None ELSE als[i]]

(* process_free (isr80h_command5_free) with any pointer a process passes:  *)
(* one that is not in its table is ignored.  The first match decides which *)
(* pages are unmapped.                                                     *)
process_free(p, ptr) ==
    LET matches == {i \in Indexes : allocations[p][i] # None /\ allocations[p][i].ptr = ptr}
        al == allocations[p][Min(matches)]
    IN  /\ p \in loaded
        /\ matches # {}
        /\ pages' = [pages EXCEPT ![p] = paging_map_to(@, al, "np")]
        /\ allocations' = [allocations EXCEPT ![p] = process_allocation_unjoin(@, ptr)]
        /\ entries' = heap_mark_blocks_free(entries, ptr)
        /\ held' = held \ {RunOf(al)}
        /\ UNCHANGED <<spilled, result, loaded, image, stack, kernelRuns, leaked>>

(* A termination that forgets the allocations. *)
SkipAllocations(tbl, p) == tbl

(* process_terminate_allocations: the table after freeing what is left of  *)
(* the allocations, one after the other.                                   *)
process_terminate_allocations(tbl, p) ==
    LET after[i \in 0 .. MaxAllocations] ==
            IF i = 0 THEN tbl
            ELSE IF allocations[p][i] = None THEN after[i - 1]
            ELSE heap_mark_blocks_free(after[i - 1], allocations[p][i].ptr)
    IN  after[MaxAllocations]

(* process_free_process after the allocations: program data, then stack. *)
process_free_process(tbl, p) ==
    heap_mark_blocks_free(
        heap_mark_blocks_free(process_terminate_allocations(tbl, p), image[p].start),
        stack[p].start)

Owned(p) ==
    {RunOf(allocations[p][i]) : i \in {j \in Indexes : allocations[p][j] # None}}
        \cup ({image[p], stack[p]} \ {None})

(* The process is gone: its directory is freed and its slot is cleared. *)
Gone(p) ==
    /\ loaded' = loaded \ {p}
    /\ allocations' = [allocations EXCEPT ![p] = [i \in Indexes |-> None]]
    /\ image' = [image EXCEPT ![p] = None]
    /\ stack' = [stack EXCEPT ![p] = None]
    /\ pages' = [pages EXCEPT ![p] = Identity]

process_terminate(p) ==
    /\ p \in loaded
    /\ entries' = process_free_process(entries, p)
    /\ held' = held \ Owned(p)
    /\ Gone(p)
    /\ UNCHANGED <<spilled, result, kernelRuns, leaked>>

(* copy_string_from_task with a pointer into a page that is not present:   *)
(* the copy faults after tmp was allocated, the exception handler          *)
(* terminates the process, and nobody frees tmp.                           *)
CopyFaults(p) ==
    LET tmp == Taken(entries, 1)
    IN  /\ p \in loaded
        /\ tmp.start >= 0
        /\ \E b \in Blocks \ Run(tmp) : pages[p][b] = "np"
        /\ entries' = process_free_process(heap_mark_blocks_taken(entries, tmp), p)
        /\ held' = (held \ Owned(p)) \cup {tmp}
        /\ leaked' = leaked \cup {tmp}
        /\ result' = tmp.start
        /\ Gone(p)
        /\ UNCHANGED <<spilled, kernelRuns>>

MemNext ==
    \/ \E size \in Sizes : KernelAlloc(size)
    \/ \E a \in kernelRuns : KernelFree(a)
    \/ \E p \in Processes :
          \/ process_load_for_slot(p)
          \/ \E size \in Sizes : process_malloc(p, size)
          \/ \E ptr \in Blocks : process_free(p, ptr)
          \/ process_terminate(p)
          \/ CopyFaults(p)

MemSpec == MemInit /\ [][MemNext]_memVars

-------------------------------------------------------------------------------
(* Properties. *)

(* Type correctness of the processes' memory. *)
MemTypeOK ==
    /\ HeapTypeOK
    /\ loaded \subseteq Processes
    /\ \A p \in Processes :
          /\ \A i \in Indexes : allocations[p][i] \in AllocRecords \cup {None}
          /\ pages[p] \in [Blocks -> {"ro", "rw", "np"}]

(* A process can write a page of the heap only while it owns it: nothing   *)
(* that was freed, and nothing another process or the kernel holds, stays  *)
(* writable in its directory (process_free unmaps before kfree).           *)
WritableIsOwned ==
    \A p \in loaded, b \in Blocks :
        pages[p][b] = "rw" => \E i \in Indexes : /\ allocations[p][i] # None
                                                 /\ b \in Run(RunOf(allocations[p][i]))

(* All of an allocation is usable: every block of it is mapped writable in *)
(* its owner's directory, also when the block was freed and unmapped       *)
(* before.                                                                 *)
OwnedIsWritable ==
    \A p \in loaded, i \in Indexes :
        allocations[p][i] # None =>
            \A b \in Run(RunOf(allocations[p][i])) \cap Blocks : pages[p][b] = "rw"

(* Every outstanding run of the heap has exactly one owner: no memory is   *)
(* shared by accident and none is lost, except the buffers that CopyFaults *)
(* abandons.                                                               *)
OneOwner ==
    /\ held = (UNION {Owned(p) : p \in loaded}) \cup kernelRuns \cup leaked
    /\ \A p, q \in loaded : p # q => Owned(p) \cap Owned(q) = {}
    /\ \A p \in loaded :
          /\ Owned(p) \cap (kernelRuns \cup leaked) = {}
          /\ Cardinality(Owned(p)) = 2 + MaxAllocations - Cardinality(FreeIndexes(p))

(* When a process ends, by exit or by an exception, every block it owned   *)
(* is free again (process_free_process).                                   *)
ExitReleases ==
    [][\A p \in loaded \ loaded' : \A a \in Owned(p) :
          \A b \in Run(a) \cap Blocks : IsFree(entries', b)]_memVars
===============================================================================
