---------------------------- MODULE BlockAllocator ----------------------------
(***************************************************************************)
(* What the callers of kmalloc/kfree rely on, without the block table: a   *)
(* pool of equal blocks, contiguous runs of which are granted and given    *)
(* back.  KernelHeap, which keeps the pool in a table of flag bytes the    *)
(* way heap.c does, is shown to implement this specification.              *)
(***************************************************************************)
EXTENDS Integers

CONSTANTS TotalBlocks,   \* number of blocks of the pool
          Counts         \* the numbers of blocks a caller may ask for

VARIABLES free,          \* the blocks nobody holds
          held,          \* the runs granted and not yet given back
          answer         \* what the last request returned

Blocks == 0 .. TotalBlocks - 1

(* The blocks of a granted run. *)
Run(a) == a.start .. a.start + a.blocks - 1

(* Some n consecutive blocks of the pool are free. *)
HasFit(n) == \E s \in Blocks : s + n <= TotalBlocks /\ s .. s + n - 1 \subseteq free

Init ==
    /\ free = Blocks
    /\ held = {}
    /\ answer = 0

(* A request is granted a run of free blocks.  The run may stick out of    *)
(* the pool only when no run of n free blocks exists: heap.c then hands    *)
(* out the free blocks at the end of the pool although they are too few.   *)
Grant(n) ==
    \E s \in free :
        LET a == [start |-> s, blocks |-> n]
        IN  /\ Run(a) \cap Blocks \subseteq free
            /\ Run(a) \subseteq Blocks \/ ~HasFit(n)
            /\ free' = free \ Run(a)
            /\ held' = held \cup {a}
            /\ answer' = s

(* A request is refused only when no run of n free blocks exists. *)
Refuse(n) ==
    /\ ~HasFit(n)
    /\ answer' = -3
    /\ UNCHANGED <<free, held>>

(* Giving a run back frees its blocks and nobody else's. *)
GiveBack(a) ==
    /\ held' = held \ {a}
    /\ free' = free \cup (Run(a) \cap Blocks)
    /\ UNCHANGED answer

Next ==
    \/ \E n \in Counts : Grant(n) \/ Refuse(n)
    \/ \E a \in held : GiveBack(a)

vars == <<free, held, answer>>

Spec == Init /\ [][Next]_vars
===============================================================================
