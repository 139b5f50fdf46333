----------------------------- MODULE MemoryProofs -----------------------------
(***************************************************************************)
(* Proofs about memory: KernelHeap, HeapLoops and ProcessMemory, for a     *)
(* table, a block size and a set of request sizes of any size.             *)
(*                                                                         *)
(* First KernelHeap.  The invariant HeapInv is inductive for requests of   *)
(* at least one block.  A request of zero blocks is given a block that is  *)
(* not marked, which a later request can be given too; such requests are   *)
(* excluded by the hypothesis PositiveRequests of the theorems.  Then      *)
(* HeapLoops, where requests may be of any size.  Last ProcessMemory, for  *)
(* any number of processes and of allocations per process: each handler of *)
(* process.c calls the heap several times, and the lemmas about HeapOK     *)
(* take the table from call to call.                                       *)
(***************************************************************************)
EXTENDS ProcessMemory, HeapLoops, NatLemmas, FiniteSetTheorems, TLAPS

(* Every request is for at least one block after rounding. *)
PositiveRequests == \A size \in Sizes : heap_total_blocks(size) > 0

HeldPositive == \A a \in held : a.blocks > 0

HeapInv == HeapTypeOK /\ HeldPositive /\ Disjoint /\ TableEncodes

-------------------------------------------------------------------------------
(* Lemmas about the operators. *)

(* Rounding up and dividing keeps a size a natural number. *)
LEMMA BlocksOfSizeNat ==
    ASSUME NEW size \in Sizes
    PROVE  heap_total_blocks(size) \in Nat
<1>1. size \in Nat /\ BlockSize \in Nat /\ BlockSize > 0 /\ Word \in Nat /\ Word > 0
  BY HeapAssumption
<1>2. heap_align_value_to_upper(size) \in Nat
  BY <1>1 DEF heap_align_value_to_upper
<1> QED
  BY <1>1, <1>2 DEF heap_total_blocks

(* What heap_get_start_block returns for n > 0: a block such that all      *)
(* blocks of the table from it to the end of the run are free; the run is  *)
(* inside the table whenever some run of n free blocks is; an error only   *)
(* when none is.                                                           *)
LEMMA StartBlock ==
    ASSUME NEW tbl, NEW n \in Nat, n > 0
    PROVE  LET s == heap_get_start_block(tbl, n)
           IN  /\ s \in Blocks \cup {-ENOMEM}
               /\ s # -ENOMEM => /\ \A m \in (s .. s + n - 1) \cap Blocks : IsFree(tbl, m)
                                 /\ s + n <= TotalBlocks \/ Fits(tbl, n) = {}
                                 /\ s + n > TotalBlocks =>
                                      \A m \in s .. TotalBlocks - 1 : IsFree(tbl, m)
               /\ s = -ENOMEM => Fits(tbl, n) = {}
<1> USE HeapAssumption
<1> DEFINE s == heap_get_start_block(tbl, n)
<1>1. Fits(tbl, n) \subseteq Nat /\ Trailing(tbl) \subseteq Nat
  BY DEF Fits, Trailing, Blocks
<1>2. CASE Fits(tbl, n) # {}
  <2>1. s \in Fits(tbl, n)
    BY <1>1, <1>2, MinElement DEF heap_get_start_block
  <2>2. s \in Blocks /\ s + n <= TotalBlocks /\ \A m \in s .. s + n - 1 : IsFree(tbl, m)
    BY <2>1 DEF Fits
  <2> QED
    BY <2>2 DEF Blocks, ENOMEM
<1>3. CASE Fits(tbl, n) = {} /\ Trailing(tbl) # {}
  <2>1. s \in Trailing(tbl)
    BY <1>1, <1>3, MinElement DEF heap_get_start_block
  <2>2. s \in Blocks /\ \A m \in s .. TotalBlocks - 1 : IsFree(tbl, m)
    BY <2>1 DEF Trailing
  <2> QED
    BY <2>2, <1>3 DEF Blocks, ENOMEM
<1>4. CASE Fits(tbl, n) = {} /\ Trailing(tbl) = {}
  BY <1>4 DEF heap_get_start_block
<1> QED
  BY <1>2, <1>3, <1>4

-------------------------------------------------------------------------------
(* A table tbl that describes the set hs of outstanding runs.  The         *)
(* invariant says it of entries and held; process.c calls the heap        *)
(* several times in one handler, and the tables between the calls satisfy  *)
(* it as well.                                                             *)

HeapOK(tbl, hs) ==
    /\ tbl \in [Blocks -> SUBSET Flags]
    /\ \A a \in hs : a \in Allocations /\ a.blocks > 0
    /\ \A a, b \in hs : a # b => Run(a) \cap Run(b) = {}
    /\ \A a \in hs : \A m \in Run(a) \cap Blocks : tbl[m] = EntryFor(a, m)
    /\ \A m \in Blocks : ~IsFree(tbl, m) => \E a \in hs : m \in Run(a)

LEMMA InvGivesOK == HeapInv => HeapOK(entries, held)
BY DEF HeapInv, HeapTypeOK, HeldPositive, Disjoint, TableEncodes, HeapOK

(* heap_mark_blocks_free visits exactly the blocks of the run whose start  *)
(* it is given.                                                            *)
LEMMA ChainIsRun ==
    ASSUME NEW tbl, NEW hs, HeapOK(tbl, hs), NEW a \in hs
    PROVE  Chain(tbl, a.start) = Run(a) \cap Blocks
<1> USE HeapAssumption
<1> DEFINE last == a.start + a.blocks - 1
<1>1. a.start \in Blocks /\ a.blocks \in Nat /\ a.blocks > 0
  BY DEF HeapOK, Allocations
<1>2. \A j \in Run(a) \cap Blocks : tbl[j] = EntryFor(a, j)
  BY DEF HeapOK
<1>3. ASSUME NEW j \in Run(a) \cap Blocks
      PROVE  j \in Chain(tbl, a.start)
  <2>1. \A k \in a.start .. j - 1 : k \in Run(a) \cap Blocks /\ k < last
    BY <1>1, <1>3 DEF Run, Blocks
  <2>2. \A k \in a.start .. j - 1 : "next" \in tbl[k]
    BY <2>1, <1>2 DEF EntryFor
  <2> QED
    BY <2>2, <1>1, <1>3 DEF Chain, Run, Blocks
<1>4. ASSUME NEW j \in Chain(tbl, a.start), j \notin Run(a)
      PROVE  FALSE
  <2>1. last \in Run(a) \cap Blocks /\ last \in a.start .. j - 1
    BY <1>1, <1>4 DEF Chain, Run, Blocks
  <2>2. "next" \in tbl[last]
    BY <2>1, <1>4 DEF Chain
  <2>3. "next" \notin EntryFor(a, last)
    BY <1>1 DEF EntryFor, Blocks
  <2> QED
    BY <2>1, <2>2, <2>3, <1>2
<1> QED
  BY <1>3, <1>4 DEF Chain

(* The run that a search for n blocks finds is apart from every run that   *)
(* is outstanding, also where it sticks out of the table, and marking it   *)
(* adds it to the runs the table describes.                                *)
LEMMA TakingKeepsOK ==
    ASSUME NEW tbl, NEW hs, HeapOK(tbl, hs), NEW n \in Nat, n > 0,
           NEW s, s = heap_get_start_block(tbl, n), s >= 0,
           NEW a, a = [start |-> s, blocks |-> n]
    PROVE  /\ HeapOK(heap_mark_blocks_taken(tbl, a), hs \cup {a})
           /\ s \in Blocks /\ a \in Allocations
           /\ \A b \in hs : Run(b) \cap Run(a) = {}
           /\ a \notin hs
<1> USE HeapAssumption
<1> DEFINE new == heap_mark_blocks_taken(tbl, a)
<1>1. /\ s \in Blocks
      /\ \A m \in Run(a) \cap Blocks : IsFree(tbl, m)
      /\ s + n > TotalBlocks => \A m \in s .. TotalBlocks - 1 : IsFree(tbl, m)
  <2>1. /\ s \in Blocks \cup {-ENOMEM}
        /\ s # -ENOMEM => /\ \A m \in (s .. s + n - 1) \cap Blocks : IsFree(tbl, m)
                          /\ s + n > TotalBlocks =>
                               \A m \in s .. TotalBlocks - 1 : IsFree(tbl, m)
    BY StartBlock
  <2> QED
    BY <2>1 DEF Run, Blocks, ENOMEM
<1>2. a \in Allocations /\ a.blocks > 0 /\ s \in Run(a)
  BY <1>1 DEF Allocations, Run, Blocks
<1>3. \A m \in Blocks : new[m] = IF m \in Run(a) THEN EntryFor(a, m) ELSE tbl[m]
  BY DEF heap_mark_blocks_taken
<1>4. ASSUME NEW b \in hs, NEW m \in Run(b), m \in Run(a)
      PROVE  FALSE
  <2>1. /\ b.start \in Nat /\ b.start < TotalBlocks
        /\ b.blocks \in Nat /\ b.blocks > 0
    BY DEF HeapOK, Allocations, Blocks
  <2>2. \A j \in Run(b) \cap Blocks : ~IsFree(tbl, j)
    BY DEF HeapOK, IsFree, EntryFor
  <2>3. CASE m \in Blocks
    BY <2>2, <2>3, <1>1, <1>4
  <2>4. CASE m \notin Blocks
    <3>1. TotalBlocks - 1 \in Run(b) \cap Blocks /\ TotalBlocks - 1 \in s .. TotalBlocks - 1
          /\ s + n > TotalBlocks
      BY <2>1, <2>4, <1>1, <1>4 DEF Run, Blocks
    <3> QED
      BY <3>1, <2>2, <1>1
  <2> QED
    BY <2>3, <2>4
<1>5. a \notin hs
  BY <1>2, <1>4
<1>6. new \in [Blocks -> SUBSET Flags]
  <2>1. \A m \in Blocks : EntryFor(a, m) \in SUBSET Flags
    BY DEF EntryFor, Flags
  <2> QED
    BY <2>1 DEF HeapOK, heap_mark_blocks_taken
<1>7. ASSUME NEW b \in hs \cup {a}, NEW m \in Run(b) \cap Blocks
      PROVE  new[m] = EntryFor(b, m)
  <2>1. CASE b = a
    BY <2>1, <1>3, <1>7
  <2>2. CASE b \in hs
    BY <2>2, <1>3, <1>4, <1>7 DEF HeapOK
  <2> QED
    BY <2>1, <2>2
<1>8. ASSUME NEW m \in Blocks, ~IsFree(new, m)
      PROVE  \E b \in hs \cup {a} : m \in Run(b)
  <2>1. CASE m \notin Run(a)
    <3>1. ~IsFree(tbl, m)
      BY <2>1, <1>3, <1>8 DEF IsFree
    <3> QED
      BY <3>1 DEF HeapOK
  <2> QED
    BY <2>1
<1>9. \A b, c \in hs \cup {a} : b # c => Run(b) \cap Run(c) = {}
  BY <1>4 DEF HeapOK
<1>10. \A b \in hs \cup {a} : b \in Allocations /\ b.blocks > 0
  BY <1>2 DEF HeapOK
<1>11. HeapOK(new, hs \cup {a})
  BY <1>6, <1>7, <1>8, <1>9, <1>10 DEF HeapOK
<1> QED
  BY <1>1, <1>2, <1>4, <1>5, <1>11

(* Freeing an outstanding run clears its blocks and no others, and takes   *)
(* it away from the runs the table describes.                              *)
LEMMA FreeingKeepsOK ==
    ASSUME NEW tbl, NEW hs, HeapOK(tbl, hs), NEW a \in hs
    PROVE  /\ HeapOK(heap_mark_blocks_free(tbl, a.start), hs \ {a})
           /\ \A m \in Blocks : heap_mark_blocks_free(tbl, a.start)[m] =
                                    IF m \in Run(a) THEN FREE ELSE tbl[m]
<1> DEFINE new == heap_mark_blocks_free(tbl, a.start)
<1>1. /\ new \in [Blocks -> SUBSET Flags]
      /\ \A m \in Blocks : new[m] = IF m \in Run(a) THEN FREE ELSE tbl[m]
  BY ChainIsRun DEF heap_mark_blocks_free, HeapOK, FREE
<1> HIDE DEF new
<1>2. \A b \in hs \ {a} : \A m \in Run(b) \cap Blocks : new[m] = EntryFor(b, m)
  BY <1>1 DEF HeapOK
<1>3. \A m \in Blocks : ~IsFree(new, m) => \E b \in hs \ {a} : m \in Run(b)
  BY <1>1 DEF HeapOK, IsFree, FREE
<1>4. HeapOK(new, hs \ {a})
  BY <1>1, <1>2, <1>3 DEF HeapOK
<1> QED
  BY <1>1, <1>4 DEF new

-------------------------------------------------------------------------------
(* The inductive invariant. *)

LEMMA InitHeapInv == kheap_init => HeapInv
BY HeapAssumption
   DEF kheap_init, HeapInv, HeapTypeOK, HeldPositive, Disjoint, TableEncodes,
       Blocks, Flags, FREE, IsFree

(* heap_malloc preserves the invariant, whether or not it finds a run. *)
LEMMA MallocKeepsInv ==
    ASSUME HeapInv, PositiveRequests, NEW size \in Sizes, heap_malloc(size)
    PROVE  HeapInv'
<1> USE HeapAssumption
<1> DEFINE n == heap_total_blocks(size)
           s == heap_get_start_block(entries, n)
           a == [start |-> s, blocks |-> n]
<1>1. n \in Nat /\ n > 0
  BY BlocksOfSizeNat DEF PositiveRequests
<1>2. s \in Blocks \cup {-ENOMEM}
  BY <1>1, StartBlock
<1>3. HeapOK(entries, held)
  BY InvGivesOK
<1> HIDE DEF n, s
<1>4. CASE s < 0
  <2>1. UNCHANGED <<entries, spilled, held>> /\ result' = s
    BY <1>2, <1>4 DEF heap_malloc, n, s, Blocks, ENOMEM
  <2> QED
    BY <2>1, <1>2
       DEF HeapInv, HeapTypeOK, HeldPositive, Disjoint, TableEncodes, IsFree
<1>5. CASE s >= 0
  <2>1. /\ result' = s
        /\ entries' = heap_mark_blocks_taken(entries, a)
        /\ spilled' = spilled \cup (Run(a) \ Blocks)
        /\ held' = held \cup {a}
    <3>1. s \in Blocks
      BY <1>2, <1>5 DEF Blocks, ENOMEM
    <3> QED
      BY <3>1, <1>5 DEF heap_malloc, n, s, Blocks
  <2>2. HeapOK(heap_mark_blocks_taken(entries, a), held \cup {a}) /\ s \in Blocks
    BY <1>1, <1>3, <1>5, TakingKeepsOK DEF s
  <2>3. HeapOK(entries', held')
    BY <2>1, <2>2
  <2>4. \A m \in spilled' : m \in Nat /\ m >= TotalBlocks
    BY <2>1, <2>2, <1>1 DEF HeapInv, HeapTypeOK, Run, Blocks
  <2> QED
    BY <2>1, <2>2, <2>3, <2>4
       DEF HeapInv, HeapTypeOK, HeldPositive, Disjoint, TableEncodes, HeapOK
<1> QED
  BY <1>2, <1>4, <1>5 DEF Blocks, ENOMEM

(* heap_free of an outstanding allocation preserves the invariant. *)
LEMMA FreeKeepsInv ==
    ASSUME HeapInv, NEW a \in held, heap_free(a)
    PROVE  HeapInv'
<1>1. HeapOK(entries, held)
  BY InvGivesOK
<1>2. HeapOK(entries', held')
  BY <1>1, FreeingKeepsOK DEF heap_free
<1> QED
  BY <1>2 DEF heap_free, HeapInv, HeapTypeOK, HeldPositive, Disjoint, TableEncodes, HeapOK

(* HeapInv is an invariant of the heap. *)
THEOREM HeapInvariant == PositiveRequests /\ Spec => []HeapInv
<1> SUFFICES ASSUME PositiveRequests
             PROVE  Spec => []HeapInv
  OBVIOUS
<1>1. HeapInv /\ [Next]_heapVars => HeapInv'
  <2> SUFFICES ASSUME HeapInv, [Next]_heapVars
               PROVE  HeapInv'
    OBVIOUS
  <2>1. CASE UNCHANGED heapVars
    BY <2>1 DEF heapVars, HeapInv, HeapTypeOK, HeldPositive, Disjoint, TableEncodes, IsFree
  <2>2. CASE \E size \in Sizes : heap_malloc(size)
    BY <2>2, MallocKeepsInv
  <2>3. CASE \E a \in held : heap_free(a)
    BY <2>3, FreeKeepsInv
  <2> QED
    BY <2>1, <2>2, <2>3 DEF Next
<1> QED
  BY <1>1, InitHeapInv, PTL DEF Spec

(* The heap's state keeps its types: the table is only ever indexed by     *)
(* blocks, spilled indexes are past its end, heap_malloc returns a block   *)
(* or -ENOMEM.                                                             *)
THEOREM TypeCorrect == PositiveRequests /\ Spec => []HeapTypeOK
BY HeapInvariant, PTL DEF HeapInv

(* No two outstanding allocations share a block, even when one of them     *)
(* sticks out of the table.                                                *)
THEOREM AllocationsDisjoint == PositiveRequests /\ Spec => []Disjoint
BY HeapInvariant, PTL DEF HeapInv

(* The flag bytes describe exactly the outstanding allocations. *)
THEOREM TableCorrect == PositiveRequests /\ Spec => []TableEncodes
BY HeapInvariant, PTL DEF HeapInv

-------------------------------------------------------------------------------
(* The refinement. *)

FreeBlocks == {m \in Blocks : IsFree(entries, m)}

(* Every heap_malloc is a Grant or a Refuse of the abstract allocator. *)
LEMMA MallocRefines ==
    ASSUME HeapInv, PositiveRequests, NEW size \in Sizes, heap_malloc(size)
    PROVE  Abs!Next
<1> USE HeapAssumption
<1> DEFINE n == heap_total_blocks(size)
           s == heap_get_start_block(entries, n)
           a == [start |-> s, blocks |-> n]
<1>1. n \in Nat /\ n > 0
  BY BlocksOfSizeNat DEF PositiveRequests
<1>2. /\ s \in Blocks \cup {-ENOMEM}
      /\ s # -ENOMEM => /\ \A m \in (s .. s + n - 1) \cap Blocks : IsFree(entries, m)
                        /\ s + n <= TotalBlocks \/ Fits(entries, n) = {}
      /\ s = -ENOMEM => Fits(entries, n) = {}
  BY <1>1, StartBlock
<1>3. n \in {heap_total_blocks(sz) : sz \in Sizes}
  OBVIOUS
<1> HIDE DEF n, s
<1>4. Abs!HasFit(n) => Fits(entries, n) # {}
  BY <1>1 DEF Abs!HasFit, Abs!Blocks, Fits, Blocks
<1>5. CASE s < 0
  <2>1. UNCHANGED <<entries, spilled, held>> /\ result' = s /\ s = -ENOMEM
    BY <1>2, <1>5 DEF heap_malloc, n, s, Blocks, ENOMEM
  <2>2. Abs!Refuse(n)
    BY <2>1, <1>2, <1>4 DEF Abs!Refuse, ENOMEM, IsFree
  <2> QED
    BY <2>2, <1>3 DEF Abs!Next
<1>6. CASE s >= 0
  <2>1. s \in Blocks /\ s # -ENOMEM
    BY <1>2, <1>6 DEF Blocks, ENOMEM
  <2>2. /\ result' = s
        /\ entries' = heap_mark_blocks_taken(entries, a)
        /\ held' = held \cup {a}
    BY <2>1, <1>6 DEF heap_malloc, n, s, Blocks
  <2>3. Run(a) \cap Blocks \subseteq FreeBlocks
    BY <2>1, <1>2 DEF Run, FreeBlocks
  <2>4. s \in FreeBlocks
    BY <2>1, <2>3, <1>1 DEF Run, Blocks
  <2>5. Run(a) \subseteq Blocks \/ ~Abs!HasFit(n)
    BY <2>1, <1>1, <1>2, <1>4 DEF Run, Blocks
  <2>6. FreeBlocks' = FreeBlocks \ Run(a)
    <3>1. \A m \in Blocks : entries'[m] = IF m \in Run(a) THEN EntryFor(a, m) ELSE entries[m]
      BY <2>2 DEF heap_mark_blocks_taken
    <3>2. \A m \in Blocks : IsFree(entries, m)' <=> IsFree(entries, m) /\ m \notin Run(a)
      BY <3>1 DEF IsFree, EntryFor
    <3> QED
      BY <3>2 DEF FreeBlocks
  <2>7. Abs!Grant(n)
    BY <2>2, <2>3, <2>4, <2>5, <2>6
       DEF Abs!Grant, Abs!Run, Abs!Blocks, Run, Blocks, FreeBlocks
  <2> QED
    BY <2>7, <1>3 DEF Abs!Next
<1> QED
  BY <1>2, <1>5, <1>6 DEF Blocks, ENOMEM

(* Every heap_free is a GiveBack of the abstract allocator. *)
LEMMA FreeRefines ==
    ASSUME HeapInv, NEW a \in held, heap_free(a)
    PROVE  Abs!Next
<1>1. /\ held' = held \ {a}
      /\ result' = result
      /\ \A m \in Blocks : entries'[m] = IF m \in Run(a) THEN FREE ELSE entries[m]
  BY InvGivesOK, FreeingKeepsOK DEF heap_free
<1>2. FreeBlocks' = FreeBlocks \cup (Run(a) \cap Blocks)
  BY <1>1 DEF FreeBlocks, IsFree, FREE
<1>3. Abs!GiveBack(a)
  BY <1>1, <1>2 DEF Abs!GiveBack, Abs!Run, Abs!Blocks, Run, Blocks, FreeBlocks
<1> QED
  BY <1>3 DEF Abs!Next

(* The table of flag bytes implements the pool of blocks: heap_malloc and  *)
(* heap_free of heap.c are the Grant, Refuse and GiveBack that the rest of *)
(* the kernel relies on.                                                   *)
THEOREM HeapImplementsAllocator == PositiveRequests /\ Spec => ImplementsAllocator
<1> SUFFICES ASSUME PositiveRequests
             PROVE  Spec => Abs!Spec
  BY DEF ImplementsAllocator
<1>1. kheap_init => Abs!Init
  BY DEF kheap_init, Abs!Init, Abs!Blocks, Blocks, IsFree, FREE
<1>2. HeapInv /\ [Next]_heapVars => [Abs!Next]_Abs!vars
  <2> SUFFICES ASSUME HeapInv, [Next]_heapVars
               PROVE  [Abs!Next]_Abs!vars
    OBVIOUS
  <2>1. CASE UNCHANGED heapVars
    BY <2>1 DEF heapVars, Abs!vars, IsFree
  <2>2. CASE \E size \in Sizes : heap_malloc(size)
    BY <2>2, MallocRefines
  <2>3. CASE \E a \in held : heap_free(a)
    BY <2>3, FreeRefines
  <2> QED
    BY <2>1, <2>2, <2>3 DEF Next
<1> QED
  BY <1>1, <1>2, HeapInvariant, PTL DEF Spec, Abs!Spec

-------------------------------------------------------------------------------
(***************************************************************************)
(* Proofs about HeapLoops: the loops of heap.c, run one iteration at a     *)
(* time, compute the operators that KernelHeap states, for every size of   *)
(* the table and every request, those of no blocks included.               *)
(***************************************************************************)

(* The scan of the table tbl for n blocks has reached block k, and the run *)
(* of free blocks just before k has length c.  No run of n free blocks     *)
(* ends before k.                                                          *)
ScanAt(tbl, n, k, c) ==
    /\ n \in Nat /\ k \in 0 .. TotalBlocks /\ c \in 0 .. k
    /\ \A j \in k - c .. k - 1 : IsFree(tbl, j)
    /\ k > c => ~IsFree(tbl, k - c - 1)
    /\ n > 0 => c < n
    /\ n > 0 => \A s \in 0 .. k - n : \E j \in s .. s + n - 1 : ~IsFree(tbl, j)

Idle == pc = "idle" /\ before = <<entries, spilled>>

Scanning ==
    /\ pc = "scan" /\ before = <<entries, spilled>>
    /\ \E size \in Sizes : alloc = [start |-> 0, blocks |-> heap_total_blocks(size)]
    /\ ScanAt(entries, alloc.blocks, i, bc)
    /\ bs = IF bc = 0 THEN -1 ELSE i - bc

(* The blocks of the run up to i are marked, in the table or past its end. *)
Marking ==
    /\ pc = "mark"
    /\ \E size \in Sizes : alloc.blocks = heap_total_blocks(size)
    /\ alloc \in Allocations
    /\ alloc.start = heap_get_start_block(before[1], alloc.blocks)
    /\ i \in alloc.start .. alloc.start + alloc.blocks
    /\ entries = [j \in Blocks |-> IF j \in alloc.start .. i - 1 THEN EntryFor(alloc, j)
                                   ELSE before[1][j]]
    /\ spilled = before[2] \cup ((alloc.start .. i - 1) \ Blocks)
    /\ i <= end_block => entry = EntryFor(alloc, i)

(* The blocks up to i are cleared, and each of them said that another      *)
(* follows.                                                                *)
Clearing ==
    /\ pc = "free"
    /\ alloc \in held
    /\ i \in alloc.start .. TotalBlocks
    /\ \A j \in alloc.start .. i - 1 : "next" \in before[1][j]
    /\ entries = [j \in Blocks |-> IF j \in alloc.start .. i - 1 THEN FREE ELSE before[1][j]]
    /\ spilled = before[2]

LoopInv ==
    /\ \A a \in held : a \in Allocations
    /\ before = <<before[1], before[2]>> /\ before[1] \in [Blocks -> SUBSET Flags]
    /\ Idle \/ Scanning \/ Marking \/ Clearing

-------------------------------------------------------------------------------
(* The scan. *)

(* A taken block: the run found so far is over. *)
LEMMA ScanOverTaken ==
    ASSUME NEW tbl, NEW n, NEW k, NEW c, ScanAt(tbl, n, k, c), k < TotalBlocks, ~IsFree(tbl, k)
    PROVE  ScanAt(tbl, n, k + 1, 0)
<1> USE HeapAssumption
<1>1. ASSUME n > 0, NEW s \in 0 .. k + 1 - n
      PROVE  \E j \in s .. s + n - 1 : ~IsFree(tbl, j)
  <2>1. CASE s \in 0 .. k - n
    BY <1>1, <2>1 DEF ScanAt
  <2>2. CASE s = k + 1 - n
    <3>1. k \in s .. s + n - 1
      BY <1>1, <2>2 DEF ScanAt
    <3> QED
      BY <3>1
  <2> QED
    BY <2>1, <2>2 DEF ScanAt
<1> QED
  BY <1>1 DEF ScanAt

(* A free block that does not complete the run. *)
LEMMA ScanOverFree ==
    ASSUME NEW tbl, NEW n, NEW k, NEW c, ScanAt(tbl, n, k, c), k < TotalBlocks, IsFree(tbl, k),
           c + 1 # n
    PROVE  ScanAt(tbl, n, k + 1, c + 1)
<1> USE HeapAssumption
<1>1. ASSUME n > 0, NEW s \in 0 .. k + 1 - n
      PROVE  \E j \in s .. s + n - 1 : ~IsFree(tbl, j)
  <2>1. CASE s \in 0 .. k - n
    BY <1>1, <2>1 DEF ScanAt
  <2>2. CASE s = k + 1 - n
    <3>1. k - c - 1 \in s .. s + n - 1 /\ k > c
      BY <1>1, <2>2 DEF ScanAt
    <3> QED
      BY <3>1 DEF ScanAt
  <2> QED
    BY <2>1, <2>2 DEF ScanAt
<1>2. \A j \in k + 1 - (c + 1) .. k + 1 - 1 : IsFree(tbl, j)
  BY DEF ScanAt
<1>3. k + 1 > c + 1 => ~IsFree(tbl, k + 1 - (c + 1) - 1)
  BY DEF ScanAt
<1> QED
  BY <1>1, <1>2, <1>3 DEF ScanAt

(* The break: the run is the first that fits. *)
LEMMA ScanFinds ==
    ASSUME NEW tbl, NEW n, NEW k, NEW c, ScanAt(tbl, n, k, c), k < TotalBlocks, IsFree(tbl, k),
           c + 1 = n
    PROVE  heap_get_start_block(tbl, n) = k - c /\ k - c \in Blocks
<1> USE HeapAssumption
<1> DEFINE m == k - c
<1>1. /\ n \in Nat /\ n > 0 /\ k \in 0 .. TotalBlocks /\ c \in 0 .. k
      /\ m \in Blocks /\ m + n <= TotalBlocks
  BY DEF ScanAt, Blocks
<1>2. \A j \in m .. m + n - 1 : IsFree(tbl, j)
  BY <1>1 DEF ScanAt
<1>3. m \in Fits(tbl, n)
  BY <1>1, <1>2 DEF Fits
<1>4. ASSUME NEW y \in Fits(tbl, n)
      PROVE  m <= y
  <2>1. y \in Nat /\ \A j \in y .. y + n - 1 : IsFree(tbl, j)
    BY DEF Fits, Blocks
  <2>2. y \notin 0 .. k - n
    BY <1>1, <2>1 DEF ScanAt
  <2> QED
    BY <1>1, <2>1, <2>2
<1>5. Fits(tbl, n) \subseteq Nat
  BY DEF Fits, Blocks
<1> HIDE DEF m
<1>6. Min(Fits(tbl, n)) = m
  BY <1>3, <1>4, <1>5, MinIs
<1> QED
  BY <1>1, <1>3, <1>6 DEF heap_get_start_block, m

(* The end of the table: the run at the end, if there is one. *)
LEMMA ScanEnds ==
    ASSUME NEW tbl, NEW n, NEW c, ScanAt(tbl, n, TotalBlocks, c)
    PROVE  /\ heap_get_start_block(tbl, n) = IF c = 0 THEN -ENOMEM ELSE TotalBlocks - c
           /\ c # 0 => TotalBlocks - c \in Blocks
<1> USE HeapAssumption
<1> DEFINE m == TotalBlocks - c
<1>1. n \in Nat /\ c \in 0 .. TotalBlocks
  BY DEF ScanAt
<1>2. ASSUME n > 0
      PROVE  Fits(tbl, n) = {}
  <2> SUFFICES ASSUME NEW y \in Fits(tbl, n) PROVE FALSE
    OBVIOUS
  <2>1. y \in 0 .. TotalBlocks - n /\ \A j \in y .. y + n - 1 : IsFree(tbl, j)
    BY <1>1 DEF Fits, Blocks
  <2> QED
    BY <1>2, <2>1 DEF ScanAt
<1>3. ASSUME NEW y \in Trailing(tbl)
      PROVE  y \in Nat /\ m <= y /\ c # 0
  <2>1. y \in Blocks /\ \A j \in y .. TotalBlocks - 1 : IsFree(tbl, j)
    BY DEF Trailing
  <2>2. TotalBlocks > c => m - 1 \notin y .. TotalBlocks - 1
    BY <1>1, <2>1 DEF ScanAt
  <2> QED
    BY <1>1, <2>1, <2>2 DEF Blocks
<1>4. CASE c = 0
  <2>1. Trailing(tbl) = {}
    BY <1>3, <1>4
  <2> QED
    BY <1>2, <1>4, <2>1 DEF heap_get_start_block
<1>5. CASE c # 0
  <2>1. m \in Trailing(tbl)
    BY <1>1, <1>5 DEF ScanAt, Trailing, Blocks
  <2>2. Trailing(tbl) \subseteq Nat
    BY <1>3
  <2>3. \A y \in Trailing(tbl) : m <= y
    BY <1>3
  <2> HIDE DEF m
  <2>4. Min(Trailing(tbl)) = m
    BY <2>1, <2>2, <2>3, MinIs
  <2>5. m \in Blocks
    BY <2>1 DEF Trailing
  <2> QED
    BY <1>2, <1>5, <2>1, <2>4, <2>5 DEF heap_get_start_block, m
<1> QED
  BY <1>4, <1>5

-------------------------------------------------------------------------------
(* Each step keeps the invariant. *)

LEMMA InitLoopInv == LoopInit => LoopInv
BY DEF LoopInit, kheap_init, LoopInv, Idle, FREE

LEMMA CallMallocKeepsLoop ==
    ASSUME LoopInv, NEW size \in Sizes, CallMalloc(size)
    PROVE  LoopInv'
<1> DEFINE n == heap_total_blocks(size)
<1>1. n \in Nat
  BY BlocksOfSizeNat
<1>2. /\ UNCHANGED <<entries, spilled, held, before>> /\ pc' = "scan"
      /\ alloc' = [start |-> 0, blocks |-> n] /\ i' = 0 /\ bc' = 0 /\ bs' = -1
      /\ before = <<entries, spilled>>
  BY DEF CallMalloc, LoopInv, Idle, Scanning, Marking, Clearing
<1>3. ScanAt(entries, n, 0, 0)
  <2> HIDE DEF n
  <2> QED
    BY <1>1, HeapAssumption DEF ScanAt
<1>4. Scanning'
  BY <1>2, <1>3 DEF Scanning, ScanAt, IsFree
<1> QED
  BY <1>2, <1>4 DEF LoopInv

LEMMA CallFreeKeepsLoop ==
    ASSUME LoopInv, NEW a \in held, CallFree(a)
    PROVE  LoopInv'
<1>1. /\ UNCHANGED <<entries, spilled, held, before>> /\ pc' = "free"
      /\ i' = a.start /\ alloc' = a
      /\ before = <<entries, spilled>>
  BY DEF CallFree, LoopInv, Idle, Scanning, Marking, Clearing
<1>2. a.start \in 0 .. TotalBlocks - 1
  BY DEF LoopInv, Allocations, Blocks
<1>3. entries = [j \in Blocks |-> entries[j]]
  BY <1>1 DEF LoopInv
<1>4. Clearing'
  BY <1>1, <1>2, <1>3, HeapAssumption DEF Clearing
<1> QED
  BY <1>1, <1>4 DEF LoopInv

LEMMA ScanTakenKeepsLoop ==
    ASSUME LoopInv, ScanTaken
    PROVE  LoopInv'
<1>1. /\ Scanning /\ UNCHANGED <<entries, spilled, held, pc, alloc, before>>
      /\ bc' = 0 /\ bs' = -1 /\ i' = i + 1 /\ i < TotalBlocks /\ ~IsFree(entries, i)
  BY DEF ScanTaken, LoopInv, Idle, Marking, Clearing
<1>2. ScanAt(entries, alloc.blocks, i + 1, 0)
  BY <1>1, ScanOverTaken DEF Scanning
<1>3. Scanning'
  BY <1>1, <1>2 DEF Scanning, ScanAt, IsFree
<1> QED
  BY <1>1, <1>3 DEF LoopInv

(* The scan is over: a block was found and marking begins, or nothing.     *)
LEMMA ScannedKeepsLoop ==
    ASSUME LoopInv, Scanning, NEW start,
           start = -1 \/ (start \in Blocks /\ start = heap_get_start_block(entries, alloc.blocks)),
           Scanned(start)
    PROVE  LoopInv'
<1> USE HeapAssumption
<1>1. PICK size \in Sizes : alloc = [start |-> 0, blocks |-> heap_total_blocks(size)]
  BY DEF Scanning
<1>2. before = <<entries, spilled>> /\ before[1] = entries /\ before[2] = spilled
  BY DEF Scanning
<1>3. CASE start = -1
  <2>1. /\ pc' = "idle" /\ before' = <<entries', spilled'>>
        /\ UNCHANGED <<entries, spilled, held>>
    BY <1>3 DEF Scanned, Return
  <2> QED
    BY <1>2, <2>1 DEF LoopInv, Idle
<1>4. CASE start # -1
  <2> DEFINE n == heap_total_blocks(size)
  <2>1. /\ start \in Blocks /\ start = heap_get_start_block(entries, n)
        /\ pc' = "mark" /\ alloc' = [start |-> start, blocks |-> n] /\ i' = start
        /\ entry' = {"taken", "first"} \cup (IF n > 1 THEN {"next"} ELSE {})
        /\ UNCHANGED <<entries, spilled, held, before>>
    BY <1>1, <1>4 DEF Scanned
  <2>2. n \in Nat
    BY BlocksOfSizeNat
  <2> HIDE DEF n
  <2>3. start \in Nat
    BY <2>1 DEF Blocks
  <2>4. alloc' \in Allocations /\ alloc'.start = start /\ alloc'.blocks = n
    BY <2>1, <2>2 DEF Allocations
  <2>5. entry' = EntryFor(alloc', i') \/ ~(i' <= end_block')
    BY <2>1, <2>2, <2>3 DEF EntryFor, end_block
  <2>6. entries = [j \in Blocks |-> entries[j]]
    BY <1>2 DEF LoopInv
  <2>7. Marking'
    <3>1. \E sz \in Sizes : alloc'.blocks = heap_total_blocks(sz)
      BY <2>4 DEF n
    <3>2. alloc'.start = heap_get_start_block(before[1]', alloc'.blocks)
      BY <1>2, <2>1, <2>4
    <3>3. i' \in alloc'.start .. alloc'.start + alloc'.blocks
      BY <2>1, <2>2, <2>3, <2>4
    <3>4. alloc'.start .. i' - 1 = {}
      BY <2>1, <2>3, <2>4
    <3>5. entries' = [j \in Blocks |-> IF j \in alloc'.start .. i' - 1 THEN EntryFor(alloc', j)
                                       ELSE before[1]'[j]]
      BY <1>2, <2>1, <2>6, <3>4
    <3>6. spilled' = before[2]' \cup ((alloc'.start .. i' - 1) \ Blocks)
      BY <1>2, <2>1, <3>4
    <3> QED
      BY <2>1, <2>4, <2>5, <3>1, <3>2, <3>3, <3>5, <3>6 DEF Marking, EntryFor
  <2> QED
    BY <2>1, <2>7 DEF LoopInv
<1> QED
  BY <1>3, <1>4

LEMMA ScanFreeKeepsLoop ==
    ASSUME LoopInv, ScanFree
    PROVE  LoopInv'
<1> DEFINE start == IF bs = -1 THEN i ELSE bs
<1>1. Scanning /\ i < TotalBlocks /\ IsFree(entries, i)
  BY DEF ScanFree, LoopInv, Idle, Marking, Clearing
<1>2. ScanAt(entries, alloc.blocks, i, bc) /\ bs = IF bc = 0 THEN -1 ELSE i - bc
  BY <1>1 DEF Scanning
<1>3. start = i - bc /\ i \in Nat /\ bc \in Nat
  BY <1>2, HeapAssumption DEF ScanAt
<1> HIDE DEF start
<1>4. CASE bc + 1 = alloc.blocks
  <2>1. start \in Blocks /\ start = heap_get_start_block(entries, alloc.blocks)
    BY <1>1, <1>2, <1>3, <1>4, ScanFinds
  <2>2. Scanned(start)
    BY <1>4 DEF ScanFree, start
  <2> QED
    BY <1>1, <2>1, <2>2, ScannedKeepsLoop
<1>5. CASE bc + 1 # alloc.blocks
  <2>1. /\ UNCHANGED <<entries, spilled, held, pc, alloc, before>>
        /\ bs' = start /\ bc' = bc + 1 /\ i' = i + 1
    BY <1>5 DEF ScanFree, start
  <2>2. ScanAt(entries, alloc.blocks, i + 1, bc + 1)
    BY <1>1, <1>2, <1>5, ScanOverFree
  <2>3. bs' = IF bc' = 0 THEN -1 ELSE i' - bc'
    BY <1>3, <2>1
  <2>4. Scanning'
    BY <1>1, <2>1, <2>2, <2>3 DEF Scanning, ScanAt, IsFree
  <2> QED
    BY <2>1, <2>4 DEF LoopInv
<1> QED
  BY <1>4, <1>5

LEMMA ScanEndKeepsLoop ==
    ASSUME LoopInv, ScanEnd
    PROVE  LoopInv'
<1>1. Scanning /\ i >= TotalBlocks /\ Scanned(bs)
  BY DEF ScanEnd, LoopInv, Idle, Marking, Clearing
<1>2. /\ ScanAt(entries, alloc.blocks, TotalBlocks, bc) /\ i = TotalBlocks
      /\ bs = IF bc = 0 THEN -1 ELSE i - bc
  BY <1>1, HeapAssumption DEF Scanning, ScanAt
<1>3. bs = -1 \/ (bs \in Blocks /\ bs = heap_get_start_block(entries, alloc.blocks))
  BY <1>2, ScanEnds
<1> QED
  BY <1>1, <1>3, ScannedKeepsLoop

LEMMA MarkKeepsLoop ==
    ASSUME LoopInv, Mark
    PROVE  LoopInv'
<1> USE HeapAssumption
<1> DEFINE st == alloc.start
           n == alloc.blocks
           old == before[1]
<1>1. /\ Marking /\ i <= end_block
      /\ UNCHANGED <<held, pc, alloc, before>> /\ i' = i + 1
      /\ entry' = {"taken"} \cup (IF i # end_block - 1 THEN {"next"} ELSE {})
  BY DEF Mark, LoopInv, Idle, Scanning, Clearing
<1>2. /\ st \in Blocks /\ n \in Nat /\ i \in st .. st + n /\ entry = EntryFor(alloc, i)
      /\ entries = [j \in Blocks |-> IF j \in st .. i - 1 THEN EntryFor(alloc, j) ELSE old[j]]
      /\ spilled = before[2] \cup ((st .. i - 1) \ Blocks)
  BY <1>1 DEF Marking, Allocations
<1>3. st \in Nat /\ i \in Nat /\ i' \in st .. st + n /\ st .. i' - 1 = (st .. i - 1) \cup {i}
  BY <1>1, <1>2 DEF Blocks, end_block
<1>4. i' <= end_block => entry' = EntryFor(alloc, i')
  BY <1>1, <1>2, <1>3 DEF EntryFor, end_block
<1>5. /\ entries' = [j \in Blocks |-> IF j \in st .. i' - 1 THEN EntryFor(alloc, j) ELSE old[j]]
      /\ spilled' = before[2] \cup ((st .. i' - 1) \ Blocks)
  <2>1. CASE i \in Blocks
    <3>1. entries' = [entries EXCEPT ![i] = entry] /\ spilled' = spilled
      BY <2>1 DEF Mark
    <3>2. \A j \in Blocks : entries'[j] = IF j = i THEN EntryFor(alloc, j) ELSE entries[j]
      BY <1>2, <2>1, <3>1
    <3> QED
      <4>1. \A j \in Blocks : entries'[j] =
                IF j \in st .. i' - 1 THEN EntryFor(alloc, j) ELSE old[j]
        BY <1>2, <1>3, <3>2
      <4>2. entries' = [j \in Blocks |-> entries'[j]]
        BY <1>2, <3>1
      <4>3. entries' = [j \in Blocks |->
                IF j \in st .. i' - 1 THEN EntryFor(alloc, j) ELSE old[j]]
        BY <4>1, <4>2, Zenon
      <4>4. spilled' = before[2] \cup ((st .. i' - 1) \ Blocks)
        BY <1>2, <1>3, <2>1, <3>1
      <4> QED
        BY <4>3, <4>4
  <2>2. CASE i \notin Blocks
    <3>1. entries' = entries /\ spilled' = spilled \cup {i}
      BY <2>2 DEF Mark
    <3> QED
      BY <1>2, <1>3, <2>2, <3>1
  <2> QED
    BY <2>1, <2>2
<1>6. Marking'
  <2>1. /\ pc' = "mark" /\ alloc' \in Allocations
        /\ \E size \in Sizes : alloc'.blocks = heap_total_blocks(size)
        /\ alloc'.start = heap_get_start_block(before'[1], alloc'.blocks)
    BY <1>1 DEF Marking
  <2>2. /\ i' \in alloc'.start .. alloc'.start + alloc'.blocks
        /\ entries' = [j \in Blocks |-> IF j \in alloc'.start .. i' - 1 THEN EntryFor(alloc', j)
                                        ELSE before'[1][j]]
        /\ spilled' = before'[2] \cup ((alloc'.start .. i' - 1) \ Blocks)
        /\ i' <= end_block' => entry' = EntryFor(alloc', i')
    BY <1>1, <1>3, <1>4, <1>5 DEF EntryFor, end_block
  <2> QED
    BY <2>1, <2>2 DEF Marking, EntryFor
<1> QED
  BY <1>1, <1>6 DEF LoopInv

(* The end of heap_mark_blocks_taken: the whole run is marked. *)
LEMMA MarkEnds ==
    ASSUME LoopInv, MarkEnd
    PROVE  /\ Marking /\ UNCHANGED <<entries, spilled>>
           /\ entries = heap_mark_blocks_taken(before[1], alloc)
           /\ spilled = before[2] \cup (Run(alloc) \ Blocks)
           /\ held' = held \cup {alloc} /\ result' = alloc.start
           /\ pc' = "idle" /\ before' = <<entries, spilled>>
<1> USE HeapAssumption
<1>1. /\ Marking /\ i > end_block /\ UNCHANGED <<entries, spilled>>
      /\ held' = held \cup {alloc} /\ result' = alloc.start
      /\ pc' = "idle" /\ before' = <<entries, spilled>>
  BY DEF MarkEnd, Return, LoopInv, Idle, Scanning, Clearing
<1>2. alloc.start \in Nat /\ alloc.blocks \in Nat
      /\ i \in alloc.start .. alloc.start + alloc.blocks
  BY <1>1 DEF Marking, Allocations, Blocks
<1>3. alloc.start .. i - 1 = Run(alloc)
  BY <1>1, <1>2 DEF end_block, Run
<1> QED
  BY <1>1, <1>3 DEF Marking, heap_mark_blocks_taken

LEMMA MarkEndKeepsLoop ==
    ASSUME LoopInv, MarkEnd
    PROVE  LoopInv'
<1>1. /\ Marking /\ UNCHANGED <<entries, spilled>>
      /\ entries = heap_mark_blocks_taken(before[1], alloc)
      /\ held' = held \cup {alloc}
      /\ pc' = "idle" /\ before' = <<entries, spilled>>
  BY MarkEnds
<1>2. entries \in [Blocks -> SUBSET Flags]
  <2>1. \A j : EntryFor(alloc, j) \in SUBSET Flags
    BY DEF EntryFor, Flags
  <2> QED
    BY <1>1, <2>1 DEF heap_mark_blocks_taken, LoopInv
<1> QED
  BY <1>1, <1>2 DEF LoopInv, Idle, Marking

(* The end of heap_mark_blocks_free: the chain is cleared. *)
LEMMA ClearEnds ==
    ASSUME LoopInv, (Clear /\ "next" \notin entries[i]) \/ ClearEnd
    PROVE  /\ Clearing
           /\ entries' = heap_mark_blocks_free(before[1], alloc.start)
           /\ held' = held \ {alloc} /\ UNCHANGED <<spilled, result>>
           /\ pc' = "idle" /\ before' = <<entries', spilled>>
<1> USE HeapAssumption
<1> DEFINE st == alloc.start
           old == before[1]
<1>1. /\ Clearing
      /\ held' = held \ {alloc} /\ UNCHANGED <<spilled, result>>
      /\ pc' = "idle" /\ before' = <<entries', spilled>>
  BY DEF Clear, ClearEnd, Freed, Return, LoopInv, Idle, Scanning, Marking
<1>2. st \in Blocks /\ st \in Nat
  BY <1>1 DEF Clearing, LoopInv, Allocations, Blocks
<1>3. /\ i \in st .. TotalBlocks /\ \A j \in st .. i - 1 : "next" \in old[j]
      /\ entries = [j \in Blocks |-> IF j \in st .. i - 1 THEN FREE ELSE old[j]]
  BY <1>1 DEF Clearing
<1> HIDE DEF st, old
<1>4. entries' = [j \in Blocks |-> IF j \in Chain(old, st) THEN FREE ELSE old[j]]
  <2>1. CASE i < TotalBlocks
    <3>1. i \in Blocks /\ i \in Nat
      BY <1>2, <1>3, <2>1 DEF Blocks
    <3>2. entries' = [entries EXCEPT ![i] = FREE] /\ "next" \notin entries[i]
      BY <1>3, <1>2, <2>1 DEF Clear, ClearEnd
    <3>3. "next" \notin old[i]
      BY <1>2, <1>3, <3>1, <3>2
    <3>4. \A j \in Blocks : j \in Chain(old, st) <=> j \in (st .. i - 1) \cup {i}
      BY <1>2, <1>3, <3>1, <3>3 DEF Chain, Blocks
    <3>5. \A j \in Blocks : entries'[j] = IF j \in (st .. i - 1) \cup {i} THEN FREE ELSE old[j]
      BY <1>3, <3>1, <3>2
    <3>6. entries' = [j \in Blocks |-> entries'[j]]
      BY <1>3, <3>2
    <3>7. \A j \in Blocks : entries'[j] = IF j \in Chain(old, st) THEN FREE ELSE old[j]
      BY <3>4, <3>5
    <3> QED
      BY <3>6, <3>7
  <2>2. CASE i = TotalBlocks
    <3>1. entries' = entries
      BY <2>2 DEF Clear, ClearEnd
    <3>2. \A j \in Blocks : j \in Chain(old, st) <=> j \in st .. i - 1
      BY <1>2, <1>3, <2>2 DEF Chain, Blocks
    <3>3. \A j \in Blocks : entries'[j] = IF j \in Chain(old, st) THEN FREE ELSE old[j]
      BY <1>3, <3>1, <3>2
    <3>4. entries' = [j \in Blocks |-> entries'[j]]
      BY <1>3, <3>1
    <3> QED
      BY <3>3, <3>4
  <2>3. i < TotalBlocks \/ i = TotalBlocks
    BY <1>2, <1>3
  <2> QED
    BY <2>1, <2>2, <2>3
<1> QED
  BY <1>1, <1>4 DEF heap_mark_blocks_free, st, old

LEMMA ClearKeepsLoop ==
    ASSUME LoopInv, Clear \/ ClearEnd
    PROVE  LoopInv'
<1> USE HeapAssumption
<1>1. CASE (Clear /\ "next" \notin entries[i]) \/ ClearEnd
  <2>1. /\ entries' = heap_mark_blocks_free(before[1], alloc.start)
        /\ held' = held \ {alloc}
        /\ pc' = "idle" /\ before' = <<entries', spilled>> /\ spilled' = spilled
    BY <1>1, ClearEnds
  <2>2. entries' \in [Blocks -> SUBSET Flags]
    BY <2>1 DEF LoopInv, heap_mark_blocks_free, FREE
  <2> QED
    BY <2>1, <2>2 DEF LoopInv, Idle
<1>2. CASE Clear /\ "next" \in entries[i]
  <2> DEFINE st == alloc.start
             old == before[1]
  <2>1. /\ Clearing /\ i < TotalBlocks /\ entries' = [entries EXCEPT ![i] = FREE]
        /\ i' = i + 1 /\ UNCHANGED <<spilled, held, pc, alloc, before>>
    BY <1>2 DEF Clear, LoopInv, Idle, Scanning, Marking
  <2>2. st \in Nat
    BY <2>1 DEF Clearing, LoopInv, Allocations, Blocks
  <2>3. /\ i \in st .. TotalBlocks /\ \A j \in st .. i - 1 : "next" \in old[j]
        /\ entries = [j \in Blocks |-> IF j \in st .. i - 1 THEN FREE ELSE old[j]]
    BY <2>1 DEF Clearing
  <2> HIDE DEF st, old
  <2>4. i \in Nat /\ i \in Blocks /\ i' \in st .. TotalBlocks /\ st .. i' - 1 = (st .. i - 1) \cup {i}
    BY <2>1, <2>2, <2>3 DEF Blocks
  <2>5. "next" \in old[i]
    BY <1>2, <2>2, <2>3, <2>4
  <2>6. \A j \in st .. i' - 1 : "next" \in old[j]
    BY <2>3, <2>4, <2>5
  <2>7. entries' = [j \in Blocks |-> IF j \in st .. i' - 1 THEN FREE ELSE old[j]]
    BY <2>1, <2>3, <2>4
  <2>8. Clearing'
    BY <2>1, <2>4, <2>6, <2>7 DEF Clearing, st, old
  <2> QED
    BY <2>1, <2>8 DEF LoopInv
<1> QED
  BY <1>1, <1>2

(* The invariant of the loops holds. *)
THEOREM LoopInvariant == LoopSpec => []LoopInv
<1>1. LoopInv /\ [LoopNext]_loopVars => LoopInv'
  <2> SUFFICES ASSUME LoopInv, [LoopNext]_loopVars
               PROVE  LoopInv'
    OBVIOUS
  <2>1. CASE UNCHANGED loopVars
    BY <2>1 DEF loopVars, LoopInv, Idle, Scanning, ScanAt, IsFree, Marking, EntryFor, end_block,
                Clearing
  <2>2. CASE \E size \in Sizes : CallMalloc(size)
    BY <2>2, CallMallocKeepsLoop
  <2>3. CASE \E a \in held : CallFree(a)
    BY <2>3, CallFreeKeepsLoop
  <2>4. CASE ScanTaken
    BY <2>4, ScanTakenKeepsLoop
  <2>5. CASE ScanFree
    BY <2>5, ScanFreeKeepsLoop
  <2>6. CASE ScanEnd
    BY <2>6, ScanEndKeepsLoop
  <2>7. CASE Mark
    BY <2>7, MarkKeepsLoop
  <2>8. CASE MarkEnd
    BY <2>8, MarkEndKeepsLoop
  <2>9. CASE Clear \/ ClearEnd
    BY <2>9, ClearKeepsLoop
  <2> QED
    BY <2>1, <2>2, <2>3, <2>4, <2>5, <2>6, <2>7, <2>8, <2>9 DEF LoopNext
<1> QED
  BY <1>1, InitLoopInv, PTL DEF LoopSpec

(* The counters of the scan describe the free run that ends just before i, *)
(* in a table of any size (heap_get_start_block).                          *)
THEOREM ScanSound == LoopSpec => []ScanInvariant
<1>1. LoopInv => ScanInvariant
  <2> SUFFICES ASSUME LoopInv, pc = "scan"
               PROVE  ScanInvariant
    BY DEF ScanInvariant
  <2>1. Scanning
    BY DEF LoopInv, Idle, Marking, Clearing
  <2> QED
    BY <2>1, HeapAssumption DEF Scanning, ScanAt, ScanInvariant
<1> QED
  BY <1>1, LoopInvariant, PTL

-------------------------------------------------------------------------------
(* The refinement.  Atomic!Op is Op with the table of before. *)

LEMMA AtomicOps ==
    /\ \A size : Atomic!heap_total_blocks(size) = heap_total_blocks(size)
    /\ \A tbl, n : Atomic!heap_get_start_block(tbl, n) = heap_get_start_block(tbl, n)
    /\ \A tbl, a : Atomic!heap_mark_blocks_taken(tbl, a) = heap_mark_blocks_taken(tbl, a)
    /\ \A tbl, s : Atomic!heap_mark_blocks_free(tbl, s) = heap_mark_blocks_free(tbl, s)
    /\ \A a : Atomic!Run(a) = Run(a)
    /\ Atomic!Blocks = Blocks
<1>1. Atomic!Blocks = Blocks
  BY DEF Atomic!Blocks, Blocks
<1>2. \A size : Atomic!heap_total_blocks(size) = heap_total_blocks(size)
  BY DEF Atomic!heap_total_blocks, heap_total_blocks, Atomic!heap_align_value_to_upper,
         heap_align_value_to_upper
<1>3. ASSUME NEW tbl, NEW n
      PROVE  Atomic!heap_get_start_block(tbl, n) = heap_get_start_block(tbl, n)
  <2>1. Atomic!Fits(tbl, n) = Fits(tbl, n) /\ Atomic!Trailing(tbl) = Trailing(tbl)
    BY <1>1 DEF Atomic!Fits, Fits, Atomic!Trailing, Trailing, Atomic!IsFree, IsFree
  <2>2. Atomic!ENOMEM = ENOMEM
    BY DEF Atomic!ENOMEM, ENOMEM
  <2> QED
    BY <2>1, <2>2 DEF Atomic!heap_get_start_block, heap_get_start_block, Atomic!Min, Min
<1>4. ASSUME NEW tbl, NEW a
      PROVE  /\ Atomic!heap_mark_blocks_taken(tbl, a) = heap_mark_blocks_taken(tbl, a)
             /\ Atomic!Run(a) = Run(a)
  BY <1>1 DEF Atomic!heap_mark_blocks_taken, heap_mark_blocks_taken, Atomic!Run, Run,
              Atomic!EntryFor, EntryFor
<1>5. ASSUME NEW tbl, NEW s
      PROVE  Atomic!heap_mark_blocks_free(tbl, s) = heap_mark_blocks_free(tbl, s)
  BY <1>1 DEF Atomic!heap_mark_blocks_free, heap_mark_blocks_free, Atomic!Chain, Chain,
              Atomic!FREE, FREE
<1> QED
  BY <1>1, <1>2, <1>3, <1>4, <1>5

(* A loop that goes on is not seen. *)
LEMMA HiddenSteps ==
    ASSUME LoopInv,
           \/ \E size \in Sizes : CallMalloc(size)
           \/ \E a \in held : CallFree(a)
           \/ ScanTaken \/ ScanFree \/ Mark \/ (Clear /\ "next" \in entries[i])
           \/ (ScanEnd /\ bs # -1) \/ UNCHANGED loopVars
    PROVE  UNCHANGED <<before, held, result>>
<1>1. ASSUME ScanFree
      PROVE  UNCHANGED <<before, held, result>>
  <2> DEFINE start == IF bs = -1 THEN i ELSE bs
  <2>1. start # -1
    BY <1>1, HeapAssumption
       DEF ScanFree, LoopInv, Idle, Scanning, ScanAt, Marking, Clearing
  <2>2. Scanned(start) \/ UNCHANGED <<before, held, result>>
    BY <1>1 DEF ScanFree
  <2> QED
    BY <2>1, <2>2 DEF Scanned
<1> QED
  BY <1>1 DEF CallMalloc, CallFree, ScanTaken, Mark, Clear, ScanEnd, Scanned, loopVars

(* The scan finds nothing: heap_malloc answers -ENOMEM. *)
LEMMA ScanEndRefines ==
    ASSUME LoopInv, ScanEnd, bs = -1
    PROVE  Atomic!Next
<1> USE HeapAssumption
<1>1. Scanning /\ i >= TotalBlocks /\ Scanned(-1)
  BY DEF ScanEnd, LoopInv, Idle, Marking, Clearing
<1>2. PICK size \in Sizes : alloc = [start |-> 0, blocks |-> heap_total_blocks(size)]
  BY <1>1 DEF Scanning
<1>3. /\ ScanAt(entries, alloc.blocks, TotalBlocks, bc) /\ bc \in Nat
      /\ before = <<entries, spilled>> /\ bs = IF bc = 0 THEN -1 ELSE i - bc
      /\ bc <= i
  BY <1>1 DEF Scanning, ScanAt
<1>4. bc = 0
  <2> SUFFICES ASSUME bc # 0 PROVE FALSE
    OBVIOUS
  <2>1. i - bc = -1 /\ i \in Nat
    BY <1>1, <1>3 DEF Scanning, ScanAt
  <2> QED
    BY <1>3, <2>1
<1>5. heap_get_start_block(before[1], heap_total_blocks(size)) = -ENOMEM
  <2>1. heap_get_start_block(entries, alloc.blocks) = -ENOMEM
    BY <1>3, <1>4, ScanEnds
  <2> QED
    BY <1>2, <1>3, <2>1
<1>6. result' = -ENOMEM /\ UNCHANGED <<before, held>>
  BY <1>1, <1>3 DEF Scanned, Return
<1>7. Atomic!heap_malloc(size)
  BY <1>5, <1>6, AtomicOps DEF Atomic!heap_malloc, ENOMEM
<1> QED
  BY <1>7 DEF Atomic!Next

(* The run is marked: heap_malloc returns it. *)
LEMMA MarkEndRefines ==
    ASSUME LoopInv, MarkEnd
    PROVE  Atomic!Next
<1>1. /\ Marking
      /\ entries = heap_mark_blocks_taken(before[1], alloc)
      /\ spilled = before[2] \cup (Run(alloc) \ Blocks)
      /\ held' = held \cup {alloc} /\ result' = alloc.start
      /\ before' = <<entries, spilled>>
  BY MarkEnds
<1>2. PICK size \in Sizes : alloc.blocks = heap_total_blocks(size)
  BY <1>1 DEF Marking
<1>3. /\ alloc \in Allocations
      /\ alloc.start = heap_get_start_block(before[1], heap_total_blocks(size))
  BY <1>1, <1>2 DEF Marking
<1>4. alloc = [start |-> alloc.start, blocks |-> alloc.blocks] /\ alloc.start >= 0
  BY <1>3, HeapAssumption DEF Allocations, Blocks
<1> DEFINE s == heap_get_start_block(before[1], heap_total_blocks(size))
           a == [start |-> s, blocks |-> heap_total_blocks(size)]
<1>5. a = alloc /\ s >= 0
  BY <1>2, <1>3, <1>4
<1>6. /\ before'[1] = heap_mark_blocks_taken(before[1], a)
      /\ before'[2] = before[2] \cup (Run(a) \ Blocks)
      /\ held' = held \cup {a} /\ result' = s
  BY <1>1, <1>3, <1>5
<1>7. Atomic!heap_malloc(size)
  BY <1>5, <1>6, AtomicOps DEF Atomic!heap_malloc
<1> QED
  BY <1>7 DEF Atomic!Next

(* The chain is cleared: heap_free returns. *)
LEMMA ClearEndRefines ==
    ASSUME LoopInv, (Clear /\ "next" \notin entries[i]) \/ ClearEnd
    PROVE  Atomic!Next
<1>1. /\ Clearing
      /\ entries' = heap_mark_blocks_free(before[1], alloc.start)
      /\ held' = held \ {alloc} /\ UNCHANGED <<spilled, result>>
      /\ before' = <<entries', spilled>>
  BY ClearEnds
<1>2. alloc \in held /\ before[2] = spilled
  BY <1>1 DEF Clearing
<1>3. Atomic!heap_free(alloc)
  BY <1>1, <1>2, AtomicOps DEF Atomic!heap_free
<1> QED
  BY <1>2, <1>3 DEF Atomic!Next

(* The loops of heap.c implement the atomic operations of KernelHeap: the  *)
(* results of the scan, of the marking and of the clearing are the ones    *)
(* that KernelHeap defines, for every table and every request.             *)
THEOREM LoopsRefineHeap == LoopSpec => LoopsImplementHeap
<1>1. LoopInit => Atomic!kheap_init
  BY DEF LoopInit, kheap_init, Atomic!kheap_init, Atomic!Blocks, Blocks, Atomic!FREE, FREE
<1>2. LoopInv /\ [LoopNext]_loopVars => [Atomic!Next]_Atomic!heapVars
  <2> SUFFICES ASSUME LoopInv, [LoopNext]_loopVars
               PROVE  Atomic!Next \/ UNCHANGED Atomic!heapVars
    OBVIOUS
  <2>1. CASE UNCHANGED <<before, held, result>>
    BY <2>1 DEF Atomic!heapVars
  <2>2. CASE ScanEnd /\ bs = -1
    BY <2>2, ScanEndRefines
  <2>3. CASE MarkEnd
    BY <2>3, MarkEndRefines
  <2>4. CASE (Clear /\ "next" \notin entries[i]) \/ ClearEnd
    BY <2>4, ClearEndRefines
  <2> QED
    BY <2>1, <2>2, <2>3, <2>4, HiddenSteps DEF LoopNext
<1> QED
  BY <1>1, <1>2, LoopInvariant, PTL DEF LoopSpec, LoopsImplementHeap, Atomic!Spec

-------------------------------------------------------------------------------
(* ProcessMemory: the inductive invariant. *)

MemShapes ==
    /\ loaded \subseteq Processes
    /\ allocations \in [Processes -> [Indexes -> AllocRecords \cup {None}]]
    /\ image \in [Processes -> Allocations \cup {None}]
    /\ stack \in [Processes -> Allocations \cup {None}]
    /\ pages \in [Processes -> [Blocks -> {"ro", "rw", "np"}]]

(* A process with the allocations als, the image im, the stack st and the  *)
(* directory pg: its runs are all different, and a page is writable if and *)
(* only if it belongs to an allocation.                                    *)
ProcessOK(als, im, st, pg) ==
    /\ im \in Allocations /\ st \in Allocations /\ im # st
    /\ \A e \in Indexes : als[e] # None => RunOf(als[e]) # im /\ RunOf(als[e]) # st
    /\ \A e, j \in Indexes :
          e # j /\ als[e] # None /\ als[j] # None => RunOf(als[e]) # RunOf(als[j])
    /\ \A b \in Blocks :
          pg[b] = "rw" <=> \E e \in Indexes : als[e] # None /\ b \in Run(RunOf(als[e]))

(* The runs hs of the heap are those of the processes ld, where own[p] are *)
(* the runs of p, those of the kernel and those that were lost.            *)
Accounted(hs, ld, own, kr, lk) ==
    /\ hs = (UNION {own[p] : p \in ld}) \cup kr \cup lk
    /\ \A p, q \in ld : p # q => own[p] \cap own[q] = {}
    /\ \A p \in ld : own[p] \cap (kr \cup lk) = {}
    /\ kr \cap lk = {}

Own == [p \in Processes |-> Owned(p)]

MemInv ==
    /\ HeapInv
    /\ MemShapes
    /\ \A p \in loaded : ProcessOK(allocations[p], image[p], stack[p], pages[p])
    /\ \A p \in Processes \ loaded : \A e \in Indexes : allocations[p][e] = None
    /\ Accounted(held, loaded, Own, kernelRuns, leaked)

-------------------------------------------------------------------------------
(* Lemmas about the operators. *)

(* The pages that process_malloc maps and process_free unmaps are those of *)
(* the blocks that the heap gave: paging_align_address and                 *)
(* heap_align_value_to_upper round alike, unless the size overflows, which *)
(* leaves no blocks.                                                       *)
LEMMA PagesAreRun ==
    ASSUME PositiveRequests, NEW al \in AllocRecords
    PROVE  /\ PagesOf(al) = Run(RunOf(al))
           /\ RunOf(al) \in Allocations /\ RunOf(al).blocks > 0
           /\ RunOf(al).start = al.ptr
<1> USE HeapAssumption
<1> DEFINE B == BlockSize
           v == al.size
           q == v \div B
           r == v % B
<1>1. al.ptr \in Blocks /\ v \in Sizes /\ v \in Nat /\ v < Word /\ B \in Nat \ {0}
      /\ Word \in Nat \ {0}
  <2>1. al.ptr \in Blocks /\ al.size \in Sizes
    BY DEF AllocRecords
  <2>2. al.size \in 0 .. Word - 1
    BY <2>1
  <2> QED
    BY <2>1, <2>2
<1>2. q \in Int /\ r \in 0 .. B - 1 /\ v = B * q + r
  <2>1. v \in Int
    BY <1>1
  <2> QED
    BY <1>1, <2>1, DivMod, Zenon
<1>3. heap_total_blocks(v) > 0 /\ heap_total_blocks(v) \in Nat
  BY <1>1, BlocksOfSizeNat DEF PositiveRequests
<1> HIDE DEF v, B, q, r
<1>4. heap_total_blocks(v) = (v + B - 1) \div B
  <2>1. CASE r = 0
    <3>1. heap_total_blocks(v) = (B * q + 0) \div B
      BY <1>1, <1>2, <2>1 DEF heap_total_blocks, heap_align_value_to_upper, r, B
    <3>2. v + B - 1 = B * q + (B - 1)
      BY <1>1, <1>2, <2>1
    <3>3. B - 1 \in 0 .. B - 1 /\ 0 \in 0 .. B - 1
      BY <1>1
    <3>4. (B * q + 0) \div B = q /\ (B * q + (B - 1)) \div B = q
      BY <1>1, <1>2, <3>3, ModUnique, Zenon
    <3> QED
      BY <3>1, <3>2, <3>4
  <2>2. CASE r # 0
    <3> DEFINE y == v - r + B
    <3>1. y = B * (q + 1) + 0 /\ v + B - 1 = B * (q + 1) + (r - 1) /\ y \in Nat
      BY <1>1, <1>2, <2>2
    <3>2. heap_total_blocks(v) = (y % Word) \div B
      BY <2>2 DEF heap_total_blocks, heap_align_value_to_upper, r, B
    <3>3. q + 1 \in Int /\ r - 1 \in 0 .. B - 1 /\ 0 \in 0 .. B - 1
      BY <1>1, <1>2, <2>2
    <3>4. (B * (q + 1) + 0) \div B = q + 1 /\ (B * (q + 1) + (r - 1)) \div B = q + 1
      BY <1>1, <3>3, ModUnique, Zenon
    <3>5. y < Word
      <4> SUFFICES ASSUME y >= Word PROVE FALSE
        BY <1>1, <3>1
      <4> DEFINE z == y % Word
      <4>1. z \in Nat /\ z < Word
        BY <1>1, <3>1
      <4>2. z < B
        <5>1. CASE B > Word
          BY <5>1, <4>1, <1>1
        <5>2. CASE B <= Word
          <6>1. y < 2 * Word /\ y - Word < B
            BY <5>2, <1>1, <1>2, <2>2
          <6>2. z = y - Word
            BY <6>1, <1>1, <3>1
          <6> QED
            BY <6>1, <6>2
        <5> QED
          BY <5>1, <5>2, <1>1
      <4>3. z \div B = 0
        <5> HIDE DEF z
        <5> QED
          BY <4>1, <4>2, <1>1
      <4> QED
        BY <4>3, <3>2, <1>3
    <3>6. y % Word = y
      BY <1>1, <3>1, <3>5
    <3> QED
      BY <3>1, <3>2, <3>4, <3>6
  <2> QED
    BY <2>1, <2>2
<1>5. RunOf(al) = [start |-> al.ptr, blocks |-> heap_total_blocks(v)]
  BY DEF RunOf, v
<1>6. PagesOf(al) = al.ptr .. al.ptr + heap_total_blocks(v) - 1
  BY <1>4 DEF PagesOf, v, B
<1> QED
  BY <1>1, <1>3, <1>5, <1>6 DEF Run, Allocations

(* A search for a block that is not refused has found a run apart from all *)
(* others; Taken is that run.                                              *)
LEMMA TakenKeepsOK ==
    ASSUME NEW tbl, NEW hs, HeapOK(tbl, hs), NEW n \in Nat, n > 0, Taken(tbl, n).start >= 0
    PROVE  LET a == Taken(tbl, n)
           IN  /\ HeapOK(heap_mark_blocks_taken(tbl, a), hs \cup {a})
               /\ a \in Allocations /\ a.start \in Blocks /\ a.blocks = n /\ a # None
               /\ \A b \in hs : Run(b) \cap Run(a) = {}
               /\ a \notin hs
<1> DEFINE s == heap_get_start_block(tbl, n)
           a == [start |-> s, blocks |-> n]
<1>1. Taken(tbl, n) = a /\ s >= 0
  BY DEF Taken
<1>2. /\ HeapOK(heap_mark_blocks_taken(tbl, a), hs \cup {a})
      /\ s \in Blocks /\ a \in Allocations
      /\ \A b \in hs : Run(b) \cap Run(a) = {}
      /\ a \notin hs
  <2> HIDE DEF s
  <2> QED
    BY <1>1, TakingKeepsOK DEF s
<1> HIDE DEF s
<1> QED
  BY <1>1, <1>2, MemoryAssumption

(* The start of a run that is not found. *)
LEMMA TakenStart ==
    ASSUME NEW tbl, NEW n \in Nat, n > 0
    PROVE  /\ Taken(tbl, n).start \in Blocks \cup {-ENOMEM}
           /\ Taken(tbl, n).start < 0 => Taken(tbl, n).start = -ENOMEM
<1>1. heap_get_start_block(tbl, n) \in Blocks \cup {-ENOMEM}
  BY StartBlock
<1> QED
  BY <1>1, HeapAssumption DEF Taken, Blocks, ENOMEM

(* Clearing the mark of a run never makes an entry that is not a table     *)
(* entry.                                                                  *)
LEMMA FreeingKeepsTable ==
    ASSUME NEW tbl \in [Blocks -> SUBSET Flags], NEW s
    PROVE  heap_mark_blocks_free(tbl, s) \in [Blocks -> SUBSET Flags]
BY DEF heap_mark_blocks_free, FREE

(* The runs of the allocations up to index e. *)
AllocRuns(als, e) == {RunOf(als[j]) : j \in {k \in 1 .. e : als[k] # None}}

(* process_terminate_allocations frees the runs of all allocations and no  *)
(* others: the loop has freed those up to e after e iterations.            *)
LEMMA TerminateAllocationsFrees ==
    ASSUME NEW tbl, NEW hs, HeapOK(tbl, hs), PositiveRequests, NEW p \in Processes,
           allocations[p] \in [Indexes -> AllocRecords \cup {None}],
           AllocRuns(allocations[p], MaxAllocations) \subseteq hs,
           \A e, j \in Indexes :
              e # j /\ allocations[p][e] # None /\ allocations[p][j] # None =>
                  RunOf(allocations[p][e]) # RunOf(allocations[p][j])
    PROVE  HeapOK(process_terminate_allocations(tbl, p),
                  hs \ AllocRuns(allocations[p], MaxAllocations))
<1> DEFINE N == MaxAllocations
           als == allocations[p]
           T == [Blocks -> SUBSET Flags]
           Body(g) == [e \in 0 .. N |->
                         IF e = 0 THEN tbl
                         ELSE IF als[e] = None THEN g[e - 1]
                         ELSE heap_mark_blocks_free(g[e - 1], als[e].ptr)]
           after == CHOOSE g : g = Body(g)
<1>1. N \in Nat
  BY MemoryAssumption
<1>2. \E g : g = Body(g)
  <2> DEFINE step == [x \in T \X (1 .. N) |->
                        IF als[x[2]] = None THEN x[1]
                        ELSE heap_mark_blocks_free(x[1], als[x[2]].ptr)]
  <2>1. step \in [T \X (1 .. N) -> T]
    BY FreeingKeepsTable
  <2>2. tbl \in T
    BY DEF HeapOK
  <2>3. \A x \in T, e \in 1 .. N :
           step[<<x, e>>] = IF als[e] = None THEN x ELSE heap_mark_blocks_free(x, als[e].ptr)
    OBVIOUS
  <2> HIDE DEF step, T
  <2>4. PICK g : LoopValues(g, N, T, tbl, step)
    BY <1>1, <2>1, <2>2, LoopHasValues, Zenon
  <2>5. ASSUME NEW e \in 0 .. N
        PROVE  g[e] = Body(g)[e]
    <3>1. CASE e = 0
      BY <2>4, <3>1 DEF LoopValues
    <3>2. CASE e # 0
      <4>1. e \in 1 .. N /\ e - 1 \in 0 .. N
        BY <1>1, <3>2
      <4>2. g[e] = step[<<g[e - 1], e>>] /\ g[e - 1] \in T
        BY <2>4, <4>1 DEF LoopValues
      <4> QED
        BY <2>3, <3>2, <4>1, <4>2
    <3> QED
      BY <3>1, <3>2
  <2>6. g = Body(g)
    BY <2>4, <2>5 DEF LoopValues
  <2> QED
    BY <2>6
<1>3. after = Body(after)
  BY <1>2
<1>4. process_terminate_allocations(tbl, p) = after[N]
  BY DEF process_terminate_allocations
<1> HIDE DEF after
<1>5. /\ after[0] = tbl
      /\ \A e \in 1 .. N : after[e] = IF als[e] = None THEN after[e - 1]
                                      ELSE heap_mark_blocks_free(after[e - 1], als[e].ptr)
  BY <1>1, <1>3, SMTT(30)
<1> DEFINE S == {e \in 0 .. N : HeapOK(after[e], hs \ AllocRuns(als, e))}
<1>6. 0 \in S
  <2>1. AllocRuns(als, 0) = {}
    BY DEF AllocRuns
  <2> QED
    BY <1>1, <1>5, <2>1
<1>7. ASSUME NEW e \in S \cap (0 .. N - 1)
      PROVE  e + 1 \in S
  <2>1. HeapOK(after[e], hs \ AllocRuns(als, e)) /\ e + 1 \in 1 .. N /\ e + 1 - 1 = e
    BY <1>1
  <2>2. CASE als[e + 1] = None
    <3>1. AllocRuns(als, e + 1) = AllocRuns(als, e)
      BY <2>1, <2>2 DEF AllocRuns
    <3>2. after[e + 1] = after[e]
      BY <1>5, <2>1, <2>2
    <3>3. HeapOK(after[e + 1], hs \ AllocRuns(als, e + 1))
      BY <2>1, <3>1, <3>2
    <3> QED
      BY <2>1, <3>3
  <2>3. CASE als[e + 1] # None
    <3> DEFINE a == RunOf(als[e + 1])
    <3>1. als[e + 1] \in AllocRecords /\ e + 1 \in Indexes
      BY <2>1, <2>3 DEF Indexes
    <3>2. a.start = als[e + 1].ptr
      BY <3>1, PagesAreRun
    <3>3. AllocRuns(als, e + 1) = AllocRuns(als, e) \cup {a}
      BY <2>1, <2>3 DEF AllocRuns
    <3>4. a \in AllocRuns(als, N)
      BY <2>1, <2>3 DEF AllocRuns
    <3>5. a \notin AllocRuns(als, e)
      BY <1>1, <2>1, <2>3, <3>1 DEF AllocRuns, Indexes
    <3> HIDE DEF a
    <3>6. a \in hs \ AllocRuns(als, e)
      BY <3>4, <3>5
    <3>7. HeapOK(heap_mark_blocks_free(after[e], a.start), (hs \ AllocRuns(als, e)) \ {a})
      BY <2>1, <3>6, FreeingKeepsOK
    <3>8. (hs \ AllocRuns(als, e)) \ {a} = hs \ AllocRuns(als, e + 1)
      BY <3>3
    <3>9. after[e + 1] = heap_mark_blocks_free(after[e], a.start)
      BY <1>5, <2>1, <2>3, <3>2
    <3>10. HeapOK(after[e + 1], hs \ AllocRuns(als, e + 1))
      BY <3>7, <3>8, <3>9
    <3> QED
      BY <2>1, <3>10
  <2> QED
    BY <2>2, <2>3
<1>8. N \in S
  <2> HIDE DEF S
  <2>1. 0 .. N \subseteq S
    BY <1>1, <1>6, <1>7, Induction
  <2> QED
    BY <1>1, <2>1
<1> QED
  BY <1>4, <1>8

(* process_free_process frees the allocations, the image and the stack. *)
LEMMA FreeProcessFrees ==
    ASSUME NEW tbl, NEW hs, HeapOK(tbl, hs), PositiveRequests, MemInv, NEW p \in loaded,
           Owned(p) \subseteq hs
    PROVE  HeapOK(process_free_process(tbl, p), hs \ Owned(p))
<1> DEFINE als == allocations[p]
           runs == AllocRuns(als, MaxAllocations)
           t1 == process_terminate_allocations(tbl, p)
           t2 == heap_mark_blocks_free(t1, image[p].start)
<1>1. /\ p \in Processes
      /\ als \in [Indexes -> AllocRecords \cup {None}]
      /\ image[p] \in Allocations /\ stack[p] \in Allocations /\ image[p] # stack[p]
      /\ \A e \in Indexes : als[e] # None => RunOf(als[e]) # image[p] /\ RunOf(als[e]) # stack[p]
      /\ \A e, j \in Indexes :
            e # j /\ als[e] # None /\ als[j] # None => RunOf(als[e]) # RunOf(als[j])
  BY DEF MemInv, MemShapes, ProcessOK
<1>2. Owned(p) = runs \cup {image[p], stack[p]}
  <2>1. image[p] # None /\ stack[p] # None
    BY <1>1, MemoryAssumption
  <2> QED
    BY <2>1 DEF Owned, AllocRuns, Indexes
<1>3. image[p] \notin runs /\ stack[p] \notin runs
  BY <1>1 DEF AllocRuns, Indexes
<1>4. HeapOK(t1, hs \ runs)
  BY <1>1, <1>2, TerminateAllocationsFrees
<1> HIDE DEF als, runs, t1, t2
<1>5. HeapOK(t2, (hs \ runs) \ {image[p]})
  <2>1. image[p] \in hs \ runs
    BY <1>2, <1>3
  <2> QED
    BY <1>4, <2>1, FreeingKeepsOK DEF t2
<1>6. HeapOK(heap_mark_blocks_free(t2, stack[p].start), ((hs \ runs) \ {image[p]}) \ {stack[p]})
  <2>1. stack[p] \in (hs \ runs) \ {image[p]}
    BY <1>1, <1>2, <1>3
  <2> QED
    BY <1>5, <2>1, FreeingKeepsOK
<1>7. ((hs \ runs) \ {image[p]}) \ {stack[p]} = hs \ Owned(p)
  BY <1>2
<1> QED
  BY <1>6, <1>7 DEF process_free_process, t1, t2

-------------------------------------------------------------------------------
(* The accounts: what each kind of step does to them. *)

(* A new run for the kernel, or one whose pointer is lost. *)
LEMMA AccountRest ==
    ASSUME NEW hs, NEW ld, NEW own, NEW kr, NEW lk, Accounted(hs, ld, own, kr, lk),
           NEW X, X \cap hs = {}
    PROVE  /\ Accounted(hs \cup X, ld, own, kr \cup X, lk)
           /\ Accounted(hs \cup X, ld, own, kr, lk \cup X)
BY DEF Accounted

(* The kernel gives a run back. *)
LEMMA AccountKernelFree ==
    ASSUME NEW hs, NEW ld, NEW own, NEW kr, NEW lk, Accounted(hs, ld, own, kr, lk), NEW a \in kr
    PROVE  Accounted(hs \ {a}, ld, own, kr \ {a}, lk)
BY DEF Accounted

(* The runs of a process change. *)
LEMMA AccountChange ==
    ASSUME NEW hs, NEW ld, NEW own, NEW kr, NEW lk, Accounted(hs, ld, own, kr, lk),
           NEW p \in ld, NEW own2, \A q \in ld : q # p => own2[q] = own[q],
           own2[p] \cap (hs \ own[p]) = {}
    PROVE  Accounted((hs \ own[p]) \cup own2[p], ld, own2, kr, lk)
<1> DEFINE others == (UNION {own[q] : q \in ld \ {p}}) \cup kr \cup lk
<1>1. hs \ own[p] = others /\ hs = others \cup own[p]
  BY DEF Accounted
<1>2. (UNION {own2[q] : q \in ld}) = (UNION {own[q] : q \in ld \ {p}}) \cup own2[p]
  OBVIOUS
<1>3. \A q \in ld \ {p} : own[q] \subseteq others
  OBVIOUS
<1>4. kr \subseteq others /\ lk \subseteq others
  OBVIOUS
<1>5. (hs \ own[p]) \cup own2[p] = (UNION {own2[q] : q \in ld}) \cup kr \cup lk
  BY <1>1, <1>2
<1>6. \A q, r \in ld : q # r => own2[q] \cap own2[r] = {}
  BY <1>1, <1>3 DEF Accounted
<1>7. \A q \in ld : own2[q] \cap (kr \cup lk) = {}
  BY <1>1, <1>4 DEF Accounted
<1> QED
  BY <1>5, <1>6, <1>7 DEF Accounted

(* A process is loaded. *)
LEMMA AccountNew ==
    ASSUME NEW hs, NEW ld, NEW own, NEW kr, NEW lk, Accounted(hs, ld, own, kr, lk),
           NEW p, p \notin ld, NEW own2, \A q \in ld : own2[q] = own[q],
           own2[p] \cap hs = {}
    PROVE  Accounted(hs \cup own2[p], ld \cup {p}, own2, kr, lk)
<1>1. \A q \in ld : own2[q] \subseteq hs
  BY DEF Accounted
<1>2. hs \cup own2[p] = (UNION {own2[q] : q \in ld \cup {p}}) \cup kr \cup lk
  BY DEF Accounted
<1>3. \A q, r \in ld \cup {p} : q # r => own2[q] \cap own2[r] = {}
  BY <1>1 DEF Accounted
<1>4. \A q \in ld \cup {p} : own2[q] \cap (kr \cup lk) = {}
  BY DEF Accounted
<1> QED
  BY <1>2, <1>3, <1>4 DEF Accounted

(* A process is gone. *)
LEMMA AccountGone ==
    ASSUME NEW hs, NEW ld, NEW own, NEW kr, NEW lk, Accounted(hs, ld, own, kr, lk),
           NEW p \in ld, NEW own2, \A q \in ld : q # p => own2[q] = own[q]
    PROVE  Accounted(hs \ own[p], ld \ {p}, own2, kr, lk)
<1>1. hs \ own[p] = (UNION {own2[q] : q \in ld \ {p}}) \cup kr \cup lk
  BY DEF Accounted
<1> QED
  BY <1>1 DEF Accounted

-------------------------------------------------------------------------------
(* The invariant is inductive: one lemma per handler. *)

LEMMA InitMemInv == MemInit => MemInv
<1> SUFFICES ASSUME MemInit PROVE MemInv
  OBVIOUS
<1>1. HeapInv
  BY InitHeapInv DEF MemInit
<1>2. MemShapes
  BY DEF MemInit, MemShapes, Identity
<1>3. Accounted(held, loaded, Own, kernelRuns, leaked)
  BY DEF MemInit, kheap_init, Accounted
<1> QED
  BY <1>1, <1>2, <1>3 DEF MemInit, MemInv

(* The parts of the heap's invariant, put together again. *)
LEMMA HeapInvAgain ==
    ASSUME HeapOK(entries', held'), \A e \in spilled' : e \in Nat /\ e >= TotalBlocks,
           result' \in Blocks \cup {-ENOMEM}
    PROVE  HeapInv'
BY DEF HeapInv, HeapTypeOK, HeldPositive, Disjoint, TableEncodes, HeapOK

(* A run that starts in the table spills past its end only. *)
LEMMA SpillsPastEnd ==
    ASSUME NEW a \in Allocations
    PROVE  \A e \in Run(a) \ Blocks : e \in Nat /\ e >= TotalBlocks
BY HeapAssumption DEF Allocations, Run, Blocks

(* A step that leaves the processes alone. *)
LEMMA ProcessesStay ==
    ASSUME MemInv, UNCHANGED procVars, HeapInv',
           Accounted(held', loaded, Own, kernelRuns', leaked')
    PROVE  MemInv'
<1>1. Own' = Own
  BY DEF procVars, Own, Owned
<1>2. Accounted(held', loaded', Own', kernelRuns', leaked')
  BY <1>1 DEF procVars
<1>3. /\ MemShapes'
      /\ \A p \in loaded' : ProcessOK(allocations'[p], image'[p], stack'[p], pages'[p])
      /\ \A p \in Processes \ loaded' : \A e \in Indexes : allocations'[p][e] = None
  BY DEF MemInv, MemShapes, procVars
<1>4. Accounted(held, loaded, Own, kernelRuns, leaked)'
  BY <1>2 DEF Accounted, Own
<1> QED
  BY <1>3, <1>4 DEF MemInv

LEMMA KernelAllocKeepsInv ==
    ASSUME MemInv, PositiveRequests, NEW size \in Sizes, KernelAlloc(size)
    PROVE  MemInv'
<1>1. HeapInv'
  BY MallocKeepsInv DEF MemInv, KernelAlloc
<1>2. held \subseteq held' /\ leaked' = leaked /\ kernelRuns' = kernelRuns \cup (held' \ held)
  BY DEF KernelAlloc, heap_malloc
<1>3. Accounted(held \cup (held' \ held), loaded, Own, kernelRuns \cup (held' \ held), leaked)
  <2>1. (held' \ held) \cap held = {}
    OBVIOUS
  <2> QED
    BY <2>1, AccountRest DEF MemInv
<1>4. Accounted(held', loaded, Own, kernelRuns', leaked')
  <2>1. held \cup (held' \ held) = held'
    BY <1>2
  <2> QED
    BY <1>2, <1>3, <2>1
<1> QED
  BY <1>1, <1>4, ProcessesStay DEF KernelAlloc

LEMMA KernelFreeKeepsInv ==
    ASSUME MemInv, NEW a \in kernelRuns, KernelFree(a)
    PROVE  MemInv'
<1>1. a \in held
  BY DEF MemInv, Accounted
<1>2. HeapInv'
  BY <1>1, FreeKeepsInv DEF MemInv, KernelFree
<1>3. Accounted(held \ {a}, loaded, Own, kernelRuns \ {a}, leaked)
  BY AccountKernelFree DEF MemInv
<1> QED
  BY <1>2, <1>3, ProcessesStay DEF KernelFree, heap_free

(* The table, marked and cleared again, and no change of the processes:    *)
(* process_load_for_slot without memory for the stack, process_malloc      *)
(* without a free entry.                                                   *)
LEMMA TakenAndFreed ==
    ASSUME MemInv, NEW n \in Nat, n > 0, NEW a, a = Taken(entries, n), a.start >= 0,
           entries' = heap_mark_blocks_free(heap_mark_blocks_taken(entries, a), a.start),
           spilled' = spilled \cup (Run(a) \ Blocks), held' = held,
           result' \in Blocks \cup {-ENOMEM}, UNCHANGED procVars, UNCHANGED <<kernelRuns, leaked>>
    PROVE  MemInv'
<1> DEFINE t1 == heap_mark_blocks_taken(entries, a)
<1>1. HeapOK(entries, held)
  BY InvGivesOK DEF MemInv
<1>2. HeapOK(t1, held \cup {a}) /\ a \in Allocations /\ a \notin held
  BY <1>1, TakenKeepsOK
<1> HIDE DEF t1
<1>3. HeapOK(heap_mark_blocks_free(t1, a.start), (held \cup {a}) \ {a})
  BY <1>2, FreeingKeepsOK
<1>4. (held \cup {a}) \ {a} = held
  BY <1>2
<1>5. HeapOK(entries', held')
  BY <1>3, <1>4 DEF t1
<1>6. \A e \in spilled' : e \in Nat /\ e >= TotalBlocks
  BY <1>2, SpillsPastEnd DEF MemInv, HeapInv, HeapTypeOK
<1>7. HeapInv'
  BY <1>5, <1>6, HeapInvAgain
<1>8. Accounted(held', loaded, Own, kernelRuns', leaked')
  BY DEF MemInv
<1> QED
  BY <1>7, <1>8, ProcessesStay

(* A search that found nothing. *)
LEMMA NothingTaken ==
    ASSUME MemInv, NEW n \in Nat, n > 0, result' = Taken(entries, n).start, result' < 0,
           UNCHANGED <<entries, spilled, held>>, UNCHANGED procVars,
           UNCHANGED <<kernelRuns, leaked>>
    PROVE  MemInv'
<1>1. result' \in Blocks \cup {-ENOMEM}
  BY TakenStart
<1>2. HeapInv'
  <2>1. HeapOK(entries', held')
    BY InvGivesOK DEF MemInv
  <2> QED
    BY <1>1, <2>1, HeapInvAgain DEF MemInv, HeapInv, HeapTypeOK
<1>3. Accounted(held', loaded, Own, kernelRuns', leaked')
  BY DEF MemInv
<1> QED
  BY <1>2, <1>3, ProcessesStay

(* The runs of a process with the allocations als, the image im and the    *)
(* stack st.                                                               *)
RunsOf(als, im, st) ==
    {RunOf(als[e]) : e \in {j \in Indexes : als[j] # None}} \cup ({im, st} \ {None})

(* A step that changes one process, which may come or go. *)
LEMMA OneProcessChanges ==
    ASSUME MemInv, HeapInv', NEW p \in Processes,
           NEW als \in [Indexes -> AllocRecords \cup {None}],
           NEW im \in Allocations \cup {None}, NEW st \in Allocations \cup {None},
           NEW pg \in [Blocks -> {"ro", "rw", "np"}],
           allocations' = [allocations EXCEPT ![p] = als],
           image' = [image EXCEPT ![p] = im], stack' = [stack EXCEPT ![p] = st],
           pages' = [pages EXCEPT ![p] = pg],
           loaded' \subseteq Processes, \A q \in Processes \ {p} : q \in loaded' <=> q \in loaded,
           p \in loaded' => ProcessOK(als, im, st, pg),
           p \notin loaded' => \A e \in Indexes : als[e] = None,
           NEW own, own = [Own EXCEPT ![p] = RunsOf(als, im, st)],
           Accounted(held', loaded', own, kernelRuns', leaked')
    PROVE  MemInv'
<1>1. MemShapes'
  BY DEF MemInv, MemShapes
<1>2. \A q \in Processes \ {p} : /\ allocations'[q] = allocations[q] /\ image'[q] = image[q]
                                 /\ stack'[q] = stack[q] /\ pages'[q] = pages[q]
  BY DEF MemInv, MemShapes
<1>3. allocations'[p] = als /\ image'[p] = im /\ stack'[p] = st /\ pages'[p] = pg
  BY DEF MemInv, MemShapes
<1>4. /\ \A q \in loaded' : ProcessOK(allocations'[q], image'[q], stack'[q], pages'[q])
      /\ \A q \in Processes \ loaded' : \A e \in Indexes : allocations'[q][e] = None
  BY <1>2, <1>3 DEF MemInv, MemShapes
<1>5. Own' = own
  <2>1. \A q \in Processes : Owned(q)' = RunsOf(allocations'[q], image'[q], stack'[q])
    BY DEF Owned, RunsOf
  <2>2. \A q \in Processes : Owned(q) = RunsOf(allocations[q], image[q], stack[q])
    BY DEF Owned, RunsOf
  <2>3. \A q \in Processes : Owned(q)' = own[q]
    BY <1>2, <1>3, <2>1, <2>2 DEF Own
  <2> QED
    BY <2>3 DEF Own
<1> QED
  BY <1>1, <1>4, <1>5 DEF MemInv

LEMMA LoadKeepsInv ==
    ASSUME MemInv, NEW p \in Processes, process_load_for_slot(p)
    PROVE  MemInv'
<1> DEFINE d == Taken(entries, ImageBlocks)
           t1 == heap_mark_blocks_taken(entries, d)
           k == Taken(t1, StackBlocks)
<1>1. ImageBlocks \in Nat /\ ImageBlocks > 0 /\ StackBlocks \in Nat /\ StackBlocks > 0
  BY MemoryAssumption
<1>2. p \notin loaded /\ UNCHANGED <<kernelRuns, leaked>>
  BY DEF process_load_for_slot
<1>3. HeapOK(entries, held)
  BY InvGivesOK DEF MemInv
<1>4. CASE d.start < 0 /\ result' = d.start /\ UNCHANGED <<entries, spilled, held, procVars>>
  BY <1>1, <1>2, <1>4, NothingTaken
<1>5. CASE /\ d.start >= 0 /\ k.start < 0
           /\ result' = k.start
           /\ entries' = heap_mark_blocks_free(t1, d.start)
           /\ spilled' = spilled \cup (Run(d) \ Blocks)
           /\ UNCHANGED <<held, procVars>>
  <2>1. result' \in Blocks \cup {-ENOMEM}
    BY <1>1, <1>5, TakenStart
  <2> QED
    BY <1>1, <1>2, <1>5, <2>1, TakenAndFreed
<1>6. CASE /\ d.start >= 0 /\ k.start >= 0
           /\ result' = k.start
           /\ entries' = heap_mark_blocks_taken(t1, k)
           /\ spilled' = spilled \cup ((Run(d) \cup Run(k)) \ Blocks)
           /\ held' = held \cup {d, k}
           /\ loaded' = loaded \cup {p}
           /\ image' = [image EXCEPT ![p] = d]
           /\ stack' = [stack EXCEPT ![p] = k]
           /\ pages' = [pages EXCEPT ![p] = Identity]
           /\ UNCHANGED allocations
  <2>1. HeapOK(t1, held \cup {d}) /\ d \in Allocations /\ d \notin held /\ d # None
    BY <1>1, <1>3, <1>6, TakenKeepsOK
  <2> HIDE DEF d, t1
  <2>2. /\ HeapOK(heap_mark_blocks_taken(t1, k), (held \cup {d}) \cup {k})
        /\ k \in Allocations /\ k \notin held \cup {d} /\ k # None /\ k.start \in Blocks
    BY <1>1, <1>6, <2>1, TakenKeepsOK
  <2> HIDE DEF k
  <2>3. HeapInv'
    <3>1. (held \cup {d}) \cup {k} = held'
      BY <1>6
    <3>2. \A e \in spilled' : e \in Nat /\ e >= TotalBlocks
      BY <1>6, <2>1, <2>2, SpillsPastEnd DEF MemInv, HeapInv, HeapTypeOK
    <3> QED
      BY <1>6, <2>2, <3>1, <3>2, HeapInvAgain
  <2> DEFINE als == allocations[p]
  <2>4. als \in [Indexes -> AllocRecords \cup {None}] /\ \A e \in Indexes : als[e] = None
    BY <1>2 DEF MemInv, MemShapes
  <2>5. ProcessOK(als, d, k, Identity) /\ Identity \in [Blocks -> {"ro", "rw", "np"}]
    BY <2>1, <2>2, <2>4 DEF ProcessOK, Identity
  <2>6. RunsOf(als, d, k) = {d, k}
    BY <2>1, <2>2, <2>4 DEF RunsOf
  <2> DEFINE own == [Own EXCEPT ![p] = RunsOf(als, d, k)]
  <2>7. own[p] = {d, k} /\ \A q \in loaded : own[q] = Own[q]
    BY <1>2, <2>6 DEF Own
  <2>8. Accounted(held \cup own[p], loaded \cup {p}, own, kernelRuns, leaked)
    <3>1. own[p] \cap held = {}
      BY <2>1, <2>2, <2>7
    <3>2. Accounted(held, loaded, Own, kernelRuns, leaked)
      BY DEF MemInv
    <3> HIDE DEF own
    <3> QED
      BY <1>2, <2>7, <3>1, <3>2, AccountNew
  <2>9. Accounted(held', loaded', own, kernelRuns', leaked')
    BY <1>2, <1>6, <2>7, <2>8
  <2>10. allocations' = [allocations EXCEPT ![p] = als]
    BY <1>6 DEF MemInv, MemShapes
  <2>11. loaded' \subseteq Processes /\ \A q \in Processes \ {p} : q \in loaded' <=> q \in loaded
    BY <1>6 DEF MemInv, MemShapes
  <2> HIDE DEF als
  <2> QED
    BY <1>6, <2>1, <2>2, <2>3, <2>4, <2>5, <2>9, <2>10, <2>11, OneProcessChanges
<1> QED
  BY <1>4, <1>5, <1>6 DEF process_load_for_slot

(* What a loaded process owns is outstanding, in its own account only. *)
LEMMA OwnedIsHeld ==
    ASSUME MemInv, NEW p \in loaded
    PROVE  /\ p \in Processes
           /\ Own[p] = Owned(p) /\ Owned(p) = RunsOf(allocations[p], image[p], stack[p])
           /\ Owned(p) \subseteq held
<1>1. p \in Processes /\ Own[p] = Owned(p)
  BY DEF MemInv, MemShapes, Own
<1>2. Own[p] \subseteq held
  BY DEF MemInv, Accounted
<1> QED
  BY <1>1, <1>2 DEF Owned, RunsOf

LEMMA ProcessMallocKeepsInv ==
    ASSUME MemInv, PositiveRequests, NEW p \in Processes, NEW size \in Sizes,
           process_malloc(p, size)
    PROVE  MemInv'
<1> DEFINE n == heap_total_blocks(size)
           a == Taken(entries, n)
           t1 == heap_mark_blocks_taken(entries, a)
           al == [ptr |-> a.start, size |-> size]
           m == Min(FreeIndexes(p))
<1>1. n \in Nat /\ n > 0
  BY BlocksOfSizeNat DEF PositiveRequests
<1>2. p \in loaded /\ result' = a.start /\ UNCHANGED <<kernelRuns, leaked>>
  BY DEF process_malloc
<1>3. HeapOK(entries, held)
  BY InvGivesOK DEF MemInv
<1> HIDE DEF n
<1>4. CASE a.start < 0 /\ UNCHANGED <<entries, spilled, held, procVars>>
  BY <1>1, <1>2, <1>4, NothingTaken
<1>5. CASE /\ a.start >= 0
           /\ entries' = heap_mark_blocks_free(t1, a.start)
           /\ spilled' = spilled \cup (Run(a) \ Blocks)
           /\ UNCHANGED <<held, procVars>>
  <2>1. result' \in Blocks \cup {-ENOMEM}
    BY <1>1, <1>2, TakenStart
  <2> QED
    BY <1>1, <1>2, <1>5, <2>1, TakenAndFreed
<1>6. CASE /\ a.start >= 0 /\ FreeIndexes(p) # {}
           /\ entries' = t1
           /\ spilled' = spilled \cup (Run(a) \ Blocks)
           /\ held' = held \cup {a}
           /\ pages' = [pages EXCEPT ![p] = paging_map_to(@, al, "rw")]
           /\ allocations' = [allocations EXCEPT ![p][m] = al]
           /\ UNCHANGED <<loaded, image, stack>>
  <2>1. /\ HeapOK(t1, held \cup {a}) /\ a \in Allocations /\ a.start \in Blocks
        /\ a.blocks = n /\ a # None /\ a \notin held
    BY <1>1, <1>3, <1>6, TakenKeepsOK
  <2>2. RunOf(al) = a /\ al \in AllocRecords /\ al # None
    <3>1. al \in AllocRecords
      BY <2>1 DEF AllocRecords
    <3> QED
      BY <3>1, MemoryAssumption DEF RunOf, Taken, n
  <2>3. PagesOf(al) = Run(a)
    BY <2>2, PagesAreRun
  <2> HIDE DEF a, t1, al
  <2>4. m \in Indexes /\ allocations[p][m] = None
    <3>1. FreeIndexes(p) \subseteq Nat
      BY MemoryAssumption DEF FreeIndexes, Indexes
    <3>2. m \in FreeIndexes(p)
      BY <1>6, <3>1, MinElement
    <3> QED
      BY <3>2 DEF FreeIndexes
  <2> HIDE DEF m
  <2> DEFINE als == allocations[p]
             als2 == [als EXCEPT ![m] = al]
             pg == pages[p]
             pg2 == paging_map_to(pg, al, "rw")
  <2>5. HeapInv'
    <3>1. \A e \in spilled' : e \in Nat /\ e >= TotalBlocks
      BY <1>6, <2>1, SpillsPastEnd DEF MemInv, HeapInv, HeapTypeOK
    <3> QED
      BY <1>2, <1>6, <2>1, <3>1, HeapInvAgain
  <2>6. /\ als \in [Indexes -> AllocRecords \cup {None}] /\ pg \in [Blocks -> {"ro", "rw", "np"}]
        /\ image[p] \in Allocations \cup {None} /\ stack[p] \in Allocations \cup {None}
        /\ ProcessOK(als, image[p], stack[p], pg)
    BY <1>2 DEF MemInv, MemShapes
  <2>7. /\ als2 \in [Indexes -> AllocRecords \cup {None}]
        /\ pg2 \in [Blocks -> {"ro", "rw", "np"}]
        /\ als2[m] = al /\ \A e \in Indexes \ {m} : als2[e] = als[e]
        /\ \A b \in Blocks : pg2[b] = IF b \in Run(a) THEN "rw" ELSE pg[b]
    BY <2>2, <2>3, <2>4, <2>6 DEF paging_map_to
  <2>8. /\ Own[p] \subseteq held /\ Own[p] = RunsOf(als, image[p], stack[p])
    BY <1>2, OwnedIsHeld
  <2>9. image[p] # a /\ stack[p] # a /\ \A e \in Indexes : als[e] # None => RunOf(als[e]) # a
    BY <2>1, <2>6, <2>8, MemoryAssumption DEF RunsOf, ProcessOK
  <2> HIDE DEF als, als2, pg, pg2
  <2>10. ProcessOK(als2, image[p], stack[p], pg2)
    <3>1. /\ \A e \in Indexes : als2[e] # None =>
                RunOf(als2[e]) # image[p] /\ RunOf(als2[e]) # stack[p]
          /\ \A e, j \in Indexes :
                e # j /\ als2[e] # None /\ als2[j] # None => RunOf(als2[e]) # RunOf(als2[j])
      BY <2>2, <2>6, <2>7, <2>9 DEF ProcessOK
    <3>2. ASSUME NEW b \in Blocks
          PROVE  pg2[b] = "rw" <=> \E e \in Indexes : als2[e] # None /\ b \in Run(RunOf(als2[e]))
      <4>1. CASE b \in Run(a)
        BY <4>1, <2>2, <2>4, <2>7
      <4>2. CASE b \notin Run(a)
        BY <4>2, <2>2, <2>4, <2>6, <2>7 DEF ProcessOK, als
      <4> QED
        BY <4>1, <4>2
    <3> QED
      BY <2>6, <3>1, <3>2 DEF ProcessOK
  <2>11. RunsOf(als2, image[p], stack[p]) = RunsOf(als, image[p], stack[p]) \cup {a}
    BY <2>2, <2>4, <2>7 DEF RunsOf, als
  <2> DEFINE own == [Own EXCEPT ![p] = RunsOf(als2, image[p], stack[p])]
  <2>12. own[p] = Own[p] \cup {a} /\ \A q \in loaded : q # p => own[q] = Own[q]
    BY <2>8, <2>11 DEF Own, MemInv, MemShapes
  <2>13. Accounted((held \ Own[p]) \cup own[p], loaded, own, kernelRuns, leaked)
    <3>1. own[p] \cap (held \ Own[p]) = {}
      BY <2>1, <2>12
    <3>2. Accounted(held, loaded, Own, kernelRuns, leaked)
      BY DEF MemInv
    <3> HIDE DEF own
    <3> QED
      BY <1>2, <2>12, <3>1, <3>2, AccountChange
  <2>14. Accounted(held', loaded', own, kernelRuns', leaked')
    <3>1. (held \ Own[p]) \cup own[p] = held'
      BY <1>6, <2>8, <2>12
    <3> HIDE DEF own
    <3> QED
      BY <1>2, <1>6, <2>13, <3>1
  <2>15. /\ allocations' = [allocations EXCEPT ![p] = als2]
         /\ image' = [image EXCEPT ![p] = image[p]] /\ stack' = [stack EXCEPT ![p] = stack[p]]
         /\ pages' = [pages EXCEPT ![p] = pg2]
         /\ loaded' \subseteq Processes /\ p \in loaded'
         /\ \A q \in Processes \ {p} : q \in loaded' <=> q \in loaded
    BY <1>2, <1>6 DEF MemInv, MemShapes, als, als2, pg, pg2
  <2> QED
    BY <2>5, <2>6, <2>7, <2>10, <2>14, <2>15, OneProcessChanges
<1> QED
  BY <1>4, <1>5, <1>6 DEF process_malloc, n

LEMMA ProcessFreeKeepsInv ==
    ASSUME MemInv, PositiveRequests, NEW p \in Processes, NEW ptr \in Blocks, process_free(p, ptr)
    PROVE  MemInv'
<1> DEFINE als == allocations[p]
           matches == {e \in Indexes : als[e] # None /\ als[e].ptr = ptr}
           m == Min(matches)
           al == als[m]
           a == RunOf(al)
           als2 == process_allocation_unjoin(als, ptr)
           pg == pages[p]
           pg2 == paging_map_to(pg, al, "np")
<1>1. /\ p \in loaded /\ matches # {}
      /\ pages' = [pages EXCEPT ![p] = pg2]
      /\ allocations' = [allocations EXCEPT ![p] = als2]
      /\ entries' = heap_mark_blocks_free(entries, ptr)
      /\ held' = held \ {a}
      /\ UNCHANGED <<spilled, result, loaded, image, stack, kernelRuns, leaked>>
  BY DEF process_free
<1>2. HeapOK(entries, held)
  BY InvGivesOK DEF MemInv
<1>3. m \in Indexes /\ al # None /\ al.ptr = ptr
  <2>1. matches \subseteq Nat
    BY MemoryAssumption DEF Indexes
  <2>2. m \in matches
    <3> HIDE DEF matches
    <3> QED
      BY <1>1, <2>1, MinElement
  <2> QED
    BY <2>2
<1>4. /\ als \in [Indexes -> AllocRecords \cup {None}] /\ pg \in [Blocks -> {"ro", "rw", "np"}]
      /\ image[p] \in Allocations \cup {None} /\ stack[p] \in Allocations \cup {None}
      /\ ProcessOK(als, image[p], stack[p], pg)
  BY <1>1 DEF MemInv, MemShapes
<1> HIDE DEF m
<1>5. al \in AllocRecords /\ a \in Allocations /\ a.blocks > 0 /\ a.start = ptr
      /\ PagesOf(al) = Run(a)
  <2>1. al \in AllocRecords
    BY <1>3, <1>4
  <2> QED
    BY <1>3, <2>1, PagesAreRun
<1>6. Own[p] \subseteq held /\ Own[p] = RunsOf(als, image[p], stack[p])
  BY <1>1, OwnedIsHeld
<1>7. a \in Own[p] /\ a \in held
  BY <1>3, <1>6 DEF RunsOf
<1>8. ASSUME NEW e \in Indexes, als[e] # None, e # m
      PROVE  /\ als[e] \in AllocRecords /\ RunOf(als[e]) \in held /\ RunOf(als[e]) # a
             /\ Run(RunOf(als[e])) \cap Run(a) = {} /\ als[e].ptr # ptr
  <2>1. als[e] \in AllocRecords /\ RunOf(als[e]) \in held
    BY <1>4, <1>6, <1>8 DEF RunsOf
  <2>2. RunOf(als[e]) # a
    BY <1>3, <1>4, <1>8 DEF ProcessOK
  <2>3. Run(RunOf(als[e])) \cap Run(a) = {}
    BY <1>2, <1>7, <2>1, <2>2 DEF HeapOK
  <2>4. /\ RunOf(als[e]) \in Allocations /\ RunOf(als[e]).blocks > 0
        /\ RunOf(als[e]).start = als[e].ptr
    BY <2>1, PagesAreRun
  <2>5. als[e].ptr \in Run(RunOf(als[e])) /\ ptr \in Run(a)
    BY <1>5, <2>4, HeapAssumption DEF Run, Allocations, Blocks
  <2> QED
    BY <2>1, <2>2, <2>3, <2>5
<1>9. /\ als2 \in [Indexes -> AllocRecords \cup {None}]
      /\ pg2 \in [Blocks -> {"ro", "rw", "np"}]
      /\ als2[m] = None /\ \A e \in Indexes \ {m} : als2[e] = als[e]
      /\ \A b \in Blocks : pg2[b] = IF b \in Run(a) THEN "np" ELSE pg[b]
  BY <1>3, <1>4, <1>5, <1>8 DEF paging_map_to, process_allocation_unjoin
<1>10. HeapInv'
  <2>1. HeapOK(entries', held')
    BY <1>1, <1>2, <1>5, <1>7, FreeingKeepsOK
  <2> QED
    BY <1>1, <2>1, HeapInvAgain DEF MemInv, HeapInv, HeapTypeOK
<1>11. RunsOf(als2, image[p], stack[p]) = RunsOf(als, image[p], stack[p]) \ {a}
  <2>1. image[p] # a /\ stack[p] # a
    BY <1>3, <1>4 DEF ProcessOK
  <2> HIDE DEF als2, pg2, a
  <2>2. \A x : x \in {RunOf(als2[e]) : e \in {j \in Indexes : als2[j] # None}}
               <=> x \in {RunOf(als[e]) : e \in {j \in Indexes : als[j] # None}} /\ x # a
    <3>1. \A e \in Indexes : als[e] # None /\ e # m => RunOf(als[e]) # a
      BY <1>8
    <3>2. RunOf(als[m]) = a
      BY DEF a
    <3> HIDE DEF als
    <3> QED
      BY <1>3, <1>9, <3>1, <3>2
  <2> QED
    BY <2>1, <2>2 DEF RunsOf
<1>12. ProcessOK(als2, image[p], stack[p], pg2)
  <2> HIDE DEF als, als2, pg, pg2, a
  <2>1. ASSUME NEW b \in Blocks
        PROVE  pg2[b] = "rw" <=> \E e \in Indexes : als2[e] # None /\ b \in Run(RunOf(als2[e]))
    <3>1. CASE b \in Run(a)
      BY <3>1, <1>8, <1>9
    <3>2. CASE b \notin Run(a)
      <4>1. pg[b] = "rw" <=> \E e \in Indexes \ {m} : als[e] # None /\ b \in Run(RunOf(als[e]))
        BY <3>2, <1>4 DEF ProcessOK, a
      <4> QED
        BY <3>2, <4>1, <1>9
    <3> QED
      BY <3>1, <3>2
  <2>2. /\ \A e \in Indexes : als2[e] # None =>
              RunOf(als2[e]) # image[p] /\ RunOf(als2[e]) # stack[p]
        /\ \A e, j \in Indexes :
              e # j /\ als2[e] # None /\ als2[j] # None => RunOf(als2[e]) # RunOf(als2[j])
    BY <1>4, <1>9 DEF ProcessOK
  <2> QED
    BY <1>4, <2>1, <2>2 DEF ProcessOK
<1> HIDE DEF als, als2, pg, pg2, a
<1> DEFINE own == [Own EXCEPT ![p] = RunsOf(als2, image[p], stack[p])]
<1>13. own[p] = Own[p] \ {a} /\ \A q \in loaded : q # p => own[q] = Own[q]
  BY <1>6, <1>11 DEF Own, MemInv, MemShapes
<1>14. Accounted((held \ Own[p]) \cup own[p], loaded, own, kernelRuns, leaked)
  <2>1. own[p] \cap (held \ Own[p]) = {}
    BY <1>13
  <2>2. Accounted(held, loaded, Own, kernelRuns, leaked)
    BY DEF MemInv
  <2> HIDE DEF own
  <2> QED
    BY <1>1, <1>13, <2>1, <2>2, AccountChange
<1>15. Accounted(held', loaded', own, kernelRuns', leaked')
  <2>1. (held \ Own[p]) \cup own[p] = held'
    BY <1>1, <1>6, <1>7, <1>13
  <2> HIDE DEF own
  <2> QED
    BY <1>1, <1>14, <2>1
<1>16. /\ image' = [image EXCEPT ![p] = image[p]] /\ stack' = [stack EXCEPT ![p] = stack[p]]
       /\ loaded' \subseteq Processes /\ p \in loaded'
       /\ \A q \in Processes \ {p} : q \in loaded' <=> q \in loaded
  BY <1>1 DEF MemInv, MemShapes
<1> QED
  BY <1>1, <1>4, <1>9, <1>10, <1>12, <1>15, <1>16, OneProcessChanges

(* A process is gone, and its runs with it: what process_terminate and the *)
(* fault handler have in common.                                           *)
LEMMA GoneKeepsInv ==
    ASSUME MemInv, NEW p \in loaded, Gone(p), HeapInv', NEW X, X \cap held = {},
           held' = (held \ Owned(p)) \cup X, leaked' = leaked \cup X, kernelRuns' = kernelRuns
    PROVE  MemInv'
<1> DEFINE als == [e \in Indexes |-> None]
           own == [Own EXCEPT ![p] = RunsOf(als, None, None)]
<1>1. /\ als \in [Indexes -> AllocRecords \cup {None}] /\ \A e \in Indexes : als[e] = None
      /\ Identity \in [Blocks -> {"ro", "rw", "np"}]
  BY DEF Identity
<1>2. Own[p] = Owned(p) /\ p \in Processes
  BY OwnedIsHeld
<1>3. \A q \in loaded : q # p => own[q] = Own[q]
  BY DEF Own, MemInv, MemShapes
<1> HIDE DEF als, own
<1>4. Accounted(held \ Own[p], loaded \ {p}, own, kernelRuns, leaked)
  BY <1>3, AccountGone DEF MemInv
<1>5. Accounted((held \ Own[p]) \cup X, loaded \ {p}, own, kernelRuns, leaked \cup X)
  <2>1. X \cap (held \ Own[p]) = {}
    OBVIOUS
  <2> QED
    BY <1>4, <2>1, AccountRest
<1>6. Accounted(held', loaded', own, kernelRuns', leaked')
  BY <1>2, <1>5 DEF Gone
<1>7. /\ loaded' \subseteq Processes /\ p \notin loaded'
      /\ \A q \in Processes \ {p} : q \in loaded' <=> q \in loaded
  BY DEF Gone, MemInv, MemShapes
<1>8. /\ allocations' = [allocations EXCEPT ![p] = als]
      /\ image' = [image EXCEPT ![p] = None] /\ stack' = [stack EXCEPT ![p] = None]
      /\ pages' = [pages EXCEPT ![p] = Identity]
  BY DEF Gone, als
<1> QED
  BY <1>1, <1>2, <1>6, <1>7, <1>8, OneProcessChanges DEF own

LEMMA TerminateKeepsInv ==
    ASSUME MemInv, PositiveRequests, NEW p \in Processes, process_terminate(p)
    PROVE  MemInv'
<1>1. /\ p \in loaded /\ Gone(p) /\ held' = (held \ Owned(p)) \cup {} /\ leaked' = leaked \cup {}
      /\ kernelRuns' = kernelRuns /\ entries' = process_free_process(entries, p)
      /\ UNCHANGED <<spilled, result>>
  BY DEF process_terminate
<1>2. HeapOK(entries', held')
  <2>1. HeapOK(entries, held) /\ Owned(p) \subseteq held
    BY <1>1, InvGivesOK, OwnedIsHeld DEF MemInv
  <2> QED
    BY <1>1, <2>1, FreeProcessFrees
<1>3. HeapInv'
  BY <1>1, <1>2, HeapInvAgain DEF MemInv, HeapInv, HeapTypeOK
<1>4. {} \cap held = {}
  OBVIOUS
<1> QED
  BY <1>1, <1>3, <1>4, GoneKeepsInv

(* The heap after a fault in copy_string_from_task: tmp stays. *)
LEMMA FaultHeap ==
    ASSUME MemInv, PositiveRequests, NEW p \in Processes, CopyFaults(p)
    PROVE  LET tmp == Taken(entries, 1)
           IN  /\ HeapOK(entries', held') /\ tmp \in Allocations /\ tmp \notin held
               /\ held' = (held \ Owned(p)) \cup {tmp}
               /\ HeapOK(heap_mark_blocks_taken(entries, tmp), held \cup {tmp})
<1> DEFINE tmp == Taken(entries, 1)
           t1 == heap_mark_blocks_taken(entries, tmp)
<1>1. /\ p \in loaded /\ tmp.start >= 0
      /\ entries' = process_free_process(t1, p)
      /\ held' = (held \ Owned(p)) \cup {tmp}
  BY DEF CopyFaults
<1>2. HeapOK(entries, held) /\ Owned(p) \subseteq held
  BY <1>1, InvGivesOK, OwnedIsHeld DEF MemInv
<1>3. HeapOK(t1, held \cup {tmp}) /\ tmp \in Allocations /\ tmp \notin held
  BY <1>1, <1>2, TakenKeepsOK
<1> HIDE DEF tmp, t1
<1>4. HeapOK(process_free_process(t1, p), (held \cup {tmp}) \ Owned(p))
  BY <1>1, <1>2, <1>3, FreeProcessFrees
<1>5. (held \cup {tmp}) \ Owned(p) = (held \ Owned(p)) \cup {tmp}
  BY <1>2, <1>3
<1> QED
  BY <1>1, <1>3, <1>4, <1>5 DEF tmp, t1

LEMMA CopyFaultsKeepsInv ==
    ASSUME MemInv, PositiveRequests, NEW p \in Processes, CopyFaults(p)
    PROVE  MemInv'
<1> DEFINE tmp == Taken(entries, 1)
<1>1. /\ p \in loaded /\ Gone(p) /\ leaked' = leaked \cup {tmp} /\ kernelRuns' = kernelRuns
      /\ result' = tmp.start /\ spilled' = spilled
  BY DEF CopyFaults
<1>2. /\ HeapOK(entries', held') /\ tmp \notin held
      /\ held' = (held \ Owned(p)) \cup {tmp}
  BY FaultHeap
<1>3. result' \in Blocks \cup {-ENOMEM}
  BY <1>1, TakenStart
<1>4. HeapInv'
  BY <1>1, <1>2, <1>3, HeapInvAgain DEF MemInv, HeapInv, HeapTypeOK
<1>5. {tmp} \cap held = {}
  BY <1>2
<1> HIDE DEF tmp
<1> QED
  BY <1>1, <1>2, <1>4, <1>5, GoneKeepsInv

LEMMA NextKeepsMemInv ==
    ASSUME MemInv, PositiveRequests, [MemNext]_memVars
    PROVE  MemInv'
<1>1. CASE UNCHANGED memVars
  <2>1. HeapInv'
    BY <1>1 DEF memVars, MemInv, HeapInv, HeapTypeOK, HeldPositive, Disjoint, TableEncodes, IsFree
  <2>2. UNCHANGED procVars /\ Accounted(held', loaded, Own, kernelRuns', leaked')
    BY <1>1 DEF memVars, procVars, MemInv
  <2> QED
    BY <2>1, <2>2, ProcessesStay
<1>2. CASE \E size \in Sizes : KernelAlloc(size)
  BY <1>2, KernelAllocKeepsInv
<1>3. CASE \E a \in kernelRuns : KernelFree(a)
  BY <1>3, KernelFreeKeepsInv
<1>4. ASSUME NEW p \in Processes, process_load_for_slot(p)
      PROVE  MemInv'
  BY <1>4, LoadKeepsInv
<1>5. ASSUME NEW p \in Processes, NEW size \in Sizes, process_malloc(p, size)
      PROVE  MemInv'
  BY <1>5, ProcessMallocKeepsInv
<1>6. ASSUME NEW p \in Processes, NEW ptr \in Blocks, process_free(p, ptr)
      PROVE  MemInv'
  BY <1>6, ProcessFreeKeepsInv
<1>7. ASSUME NEW p \in Processes, process_terminate(p)
      PROVE  MemInv'
  BY <1>7, TerminateKeepsInv
<1>8. ASSUME NEW p \in Processes, CopyFaults(p)
      PROVE  MemInv'
  BY <1>8, CopyFaultsKeepsInv
<1> QED
  BY <1>1, <1>2, <1>3, <1>4, <1>5, <1>6, <1>7, <1>8 DEF MemNext

-------------------------------------------------------------------------------
(* What the invariant says. *)

(* The number of runs a process owns: its image, its stack and one for     *)
(* every entry of its allocations that is in use.                          *)
LEMMA OwnedCount ==
    ASSUME MemInv, NEW p \in loaded
    PROVE  Cardinality(Owned(p)) = 2 + MaxAllocations - Cardinality(FreeIndexes(p))
<1> DEFINE als == allocations[p]
           free == FreeIndexes(p)
           used == {e \in Indexes : als[e] # None}
           runs == {RunOf(als[e]) : e \in used}
           f == [e \in used |-> RunOf(als[e])]
<1>1. /\ image[p] \in Allocations /\ stack[p] \in Allocations /\ image[p] # stack[p]
      /\ \A e \in Indexes : als[e] # None => RunOf(als[e]) # image[p] /\ RunOf(als[e]) # stack[p]
      /\ \A e, j \in Indexes :
            e # j /\ als[e] # None /\ als[j] # None => RunOf(als[e]) # RunOf(als[j])
  BY DEF MemInv, ProcessOK
<1>2. IsFiniteSet(Indexes) /\ Cardinality(Indexes) = MaxAllocations
  <2>1. MaxAllocations \in Int /\ 1 \in Int /\ MaxAllocations >= 0
    BY MemoryAssumption
  <2>2. /\ IsFiniteSet(1 .. MaxAllocations)
        /\ Cardinality(1 .. MaxAllocations) =
              IF 1 > MaxAllocations THEN 0 ELSE MaxAllocations - 1 + 1
    BY <2>1, FS_Interval, Zenon
  <2> QED
    BY <2>1, <2>2 DEF Indexes
<1>3. free \cup used = Indexes /\ free \cap used = {}
  BY DEF FreeIndexes
<1>4. IsFiniteSet(free) /\ IsFiniteSet(used)
  BY <1>2, <1>3, FS_Subset
<1> HIDE DEF free
<1>5. Cardinality(free) \in Nat /\ Cardinality(used) \in Nat
  BY <1>4, FS_CardinalityType
<1>6. MaxAllocations = Cardinality(free) + Cardinality(used)
  <2>1. Cardinality(free \cup used) =
           Cardinality(free) + Cardinality(used) - Cardinality(free \cap used)
    BY <1>4, FS_Union
  <2>2. Cardinality(free \cap used) = 0
    BY <1>3, FS_EmptySet
  <2> HIDE DEF used
  <2> QED
    BY <1>2, <1>3, <1>5, <2>1, <2>2, SMTT(30)
<1>7. IsFiniteSet(runs) /\ Cardinality(runs) = Cardinality(used)
  <2>1. f \in [used -> runs]
    OBVIOUS
  <2>2. \A e, j \in used : f[e] = f[j] => e = j
    BY <1>1
  <2>3. \A a \in runs : \E e \in used : f[e] = a
    OBVIOUS
  <2> HIDE DEF f, runs, used
  <2>4. f \in Bijection(used, runs)
    BY <2>1, <2>2, <2>3 DEF Bijection, Injection, Surjection, IsInjective
  <2> QED
    BY <1>4, <2>4, FS_Bijection DEF ExistsBijection
<1>8. Owned(p) = (runs \cup {image[p]}) \cup {stack[p]}
  <2>1. image[p] # None /\ stack[p] # None
    BY <1>1, MemoryAssumption
  <2> QED
    BY <2>1 DEF Owned
<1>9. image[p] \notin runs /\ stack[p] \notin runs \cup {image[p]}
  BY <1>1
<1> HIDE DEF runs, used
<1>10. IsFiniteSet(runs \cup {image[p]}) /\ Cardinality(runs \cup {image[p]}) = Cardinality(runs) + 1
  BY <1>7, <1>9, FS_AddElement
<1>11. Cardinality(Owned(p)) = Cardinality(runs) + 1 + 1
  BY <1>8, <1>9, <1>10, FS_AddElement, SMTT(30)
<1> QED
  BY <1>5, <1>6, <1>7, <1>11 DEF free

LEMMA InvGivesOneOwner == MemInv => OneOwner
<1> SUFFICES ASSUME MemInv PROVE OneOwner
  OBVIOUS
<1>1. Accounted(held, loaded, Own, kernelRuns, leaked) /\ loaded \subseteq Processes
  BY DEF MemInv, MemShapes
<1>2. \A p \in loaded : Own[p] = Owned(p)
  BY <1>1 DEF Own
<1>3. {Own[p] : p \in loaded} = {Owned(p) : p \in loaded}
  BY <1>2
<1>4. held = (UNION {Owned(p) : p \in loaded}) \cup kernelRuns \cup leaked
  BY <1>1, <1>3 DEF Accounted
<1>5. \A p, q \in loaded : p # q => Owned(p) \cap Owned(q) = {}
  BY <1>1, <1>2 DEF Accounted
<1>6. \A p \in loaded : Owned(p) \cap (kernelRuns \cup leaked) = {}
  BY <1>1, <1>2 DEF Accounted
<1> QED
  BY <1>4, <1>5, <1>6, OwnedCount DEF OneOwner

(* A run that left the heap left its blocks free. *)
LEMMA ReleasedIsFree ==
    ASSUME NEW tbl, NEW tbl2, NEW hs, HeapOK(tbl, hs),
           NEW hs2, HeapOK(tbl2, hs2), hs2 \subseteq hs,
           NEW a \in hs, a \notin hs2, NEW b \in Run(a) \cap Blocks
    PROVE  IsFree(tbl2, b)
<1> SUFFICES ASSUME ~IsFree(tbl2, b) PROVE FALSE
  OBVIOUS
<1>1. PICK c \in hs2 : b \in Run(c)
  BY DEF HeapOK
<1>2. c \in hs /\ c # a
  BY <1>1
<1>3. Run(a) \cap Run(c) = {}
  BY <1>2 DEF HeapOK
<1> QED
  BY <1>1, <1>3

(* The step behind ExitReleases. *)
LEMMA EndedIsFree ==
    ASSUME MemInv, PositiveRequests, [MemNext]_memVars,
           NEW p \in loaded \ loaded', NEW a \in Owned(p), NEW b \in Run(a) \cap Blocks
    PROVE  IsFree(entries', b)
<1>1. HeapOK(entries, held) /\ Owned(p) \subseteq held /\ p \in Processes
  BY InvGivesOK, OwnedIsHeld DEF MemInv, MemShapes
<1>2. process_terminate(p) \/ CopyFaults(p)
  <2>1. ASSUME UNCHANGED loaded PROVE FALSE
    BY <2>1
  <2>2. ~UNCHANGED memVars
    BY <2>1 DEF memVars
  <2>3. ASSUME NEW size \in Sizes, KernelAlloc(size) PROVE FALSE
    BY <2>1, <2>3 DEF KernelAlloc, procVars
  <2>4. ASSUME NEW x \in kernelRuns, KernelFree(x) PROVE FALSE
    BY <2>1, <2>4 DEF KernelFree, procVars
  <2>5. ASSUME NEW q \in Processes, process_load_for_slot(q) PROVE FALSE
    BY <2>1, <2>5 DEF process_load_for_slot, procVars
  <2>6. ASSUME NEW q \in Processes, NEW size \in Sizes, process_malloc(q, size) PROVE FALSE
    BY <2>1, <2>6 DEF process_malloc, procVars
  <2>7. ASSUME NEW q \in Processes, NEW ptr \in Blocks, process_free(q, ptr) PROVE FALSE
    BY <2>1, <2>7 DEF process_free
  <2>8. \E q \in Processes : process_terminate(q) \/ CopyFaults(q)
    BY <2>2, <2>3, <2>4, <2>5, <2>6, <2>7 DEF MemNext
  <2>9. PICK q \in Processes : process_terminate(q) \/ CopyFaults(q)
    BY <2>8
  <2>10. loaded' = loaded \ {q}
    BY <2>9 DEF process_terminate, CopyFaults, Gone
  <2>11. q = p
    BY <2>10
  <2> QED
    BY <2>9, <2>11
<1>3. CASE process_terminate(p)
  <2>1. held' = held \ Owned(p) /\ entries' = process_free_process(entries, p)
    BY <1>3 DEF process_terminate
  <2>2. HeapOK(entries', held')
    BY <1>1, <2>1, FreeProcessFrees
  <2>3. held' \subseteq held /\ a \in held /\ a \notin held'
    BY <1>1, <2>1
  <2> QED
    BY <1>1, <2>2, <2>3, ReleasedIsFree
<1>4. CASE CopyFaults(p)
  <2> DEFINE tmp == Taken(entries, 1)
             t1 == heap_mark_blocks_taken(entries, tmp)
             both == held \cup {tmp}
  <2>1. /\ HeapOK(entries', held') /\ tmp \notin held
        /\ held' = (held \ Owned(p)) \cup {tmp}
        /\ HeapOK(t1, both)
    BY <1>1, <1>4, FaultHeap
  <2>2. held' \subseteq both /\ a \in both /\ a \notin held'
    BY <1>1, <2>1
  <2> HIDE DEF both, t1
  <2> QED
    BY <2>1, <2>2, ReleasedIsFree
<1> QED
  BY <1>2, <1>3, <1>4

-------------------------------------------------------------------------------
(* The theorems. *)

(* The inductive invariant holds: the heap's own invariant survives the    *)
(* several calls each handler of process.c makes.                          *)
THEOREM MemInvariant == PositiveRequests /\ MemSpec => []MemInv
<1> SUFFICES ASSUME PositiveRequests
             PROVE  MemSpec => []MemInv
  OBVIOUS
<1>1. MemInv /\ [MemNext]_memVars => MemInv'
  BY NextKeepsMemInv
<1> QED
  BY <1>1, InitMemInv, PTL DEF MemSpec

(* The state of every process keeps its types: an entry of allocations is  *)
(* empty or a block and a size, an entry of a directory is one that        *)
(* paging_new_4gb, process_malloc or process_free writes.                  *)
THEOREM MemTypeCorrect == PositiveRequests /\ MemSpec => []MemTypeOK
<1>1. MemInv => MemTypeOK
  BY DEF MemInv, MemShapes, HeapInv, MemTypeOK
<1> QED
  BY <1>1, MemInvariant, PTL

(* A process can write only pages it owns: process_free unmaps what it     *)
(* gives back.                                                             *)
THEOREM OnlyOwnedWritable == PositiveRequests /\ MemSpec => []WritableIsOwned
<1>1. MemInv => WritableIsOwned
  BY DEF MemInv, ProcessOK, WritableIsOwned
<1> QED
  BY <1>1, MemInvariant, PTL

(* Every block of an allocation is writable for its owner: process_malloc  *)
(* maps as many pages as the heap gave blocks.                             *)
THEOREM AllOwnedWritable == PositiveRequests /\ MemSpec => []OwnedIsWritable
<1>1. MemInv => OwnedIsWritable
  BY DEF MemInv, ProcessOK, OwnedIsWritable
<1> QED
  BY <1>1, MemInvariant, PTL

(* Every run of the heap has exactly one owner, and a process has as many  *)
(* as its table, image and stack name.                                     *)
THEOREM RunsHaveOneOwner == PositiveRequests /\ MemSpec => []OneOwner
BY InvGivesOneOwner, MemInvariant, PTL

(* process_free_process returns every block of a process to the heap, on   *)
(* exit and after an exception.                                            *)
THEOREM ExitFreesAll == PositiveRequests /\ MemSpec => ExitReleases
<1> SUFFICES ASSUME PositiveRequests
             PROVE  MemSpec => ExitReleases
  OBVIOUS
<1>1. MemInv /\ [MemNext]_memVars =>
         [\A p \in loaded \ loaded' : \A a \in Owned(p) :
             \A b \in Run(a) \cap Blocks : IsFree(entries', b)]_memVars
  BY EndedIsFree
<1> QED
  BY <1>1, MemInvariant, PTL DEF MemSpec, ExitReleases
===============================================================================
