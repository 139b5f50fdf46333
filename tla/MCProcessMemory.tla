--------------------------- MODULE MCProcessMemory ---------------------------
(* Definitions for the run of ProcessMemory. *)
EXTENDS ProcessMemory

(* States that differ only in what the last heap_malloc returned have the  *)
(* same future: no action and no property of ProcessMemory but the type of *)
(* result reads it.                                                        *)
MemView == <<entries, spilled, held, loaded, allocations, image, stack, pages,
             kernelRuns, leaked>>
===============================================================================
