-------------------------------- MODULE Loader --------------------------------
(***************************************************************************)
(* What a program load allocates and gives back: process_load_for_slot,    *)
(* process_load_data, process_load_elf and process_load_binary of          *)
(* src/task/process.c, elf_load of src/loader/formats/elf_loader.c, fopen  *)
(* and fclose of src/fs/file.c and task_new of src/task/task.c, one step   *)
(* for each call that can fail.  Memory may run out at any kzalloc, and    *)
(* the disk may hold any file or none.                                     *)
(*                                                                         *)
(* Every struct is named by what it is for; live[s] are the structs of     *)
(* slot s that are allocated.  A null or error pointer that is used makes  *)
(* the kernel go wild: what happens depends on the memory it hits.         *)
(*                                                                         *)
(* program, bounds and pages are those of the load that goes on, or of the *)
(* last one; ElfImage says what they are.                                  *)
(***************************************************************************)
EXTENDS ElfImage, FiniteSets, FiniteSetsExt

CONSTANTS MaxProcesses,  \* PANDORA_MAX_PROCESSES
          Programs       \* the files that may be on the disk

ASSUME LoaderAssumption ==
    /\ MaxProcesses \in Nat \ {0}
    /\ \A p \in Programs : p.size \in Nat /\ p.phdrs \in Seq(Phdrs)

VARIABLES pc,        \* the call that comes next; "idle" between two loads
          slot,      \* process_slot of the load
          trying,    \* the kind of file process_load_data takes the file for
          live,      \* structs allocated for each slot
          file,      \* what fopen has allocated
          filetype,  \* process->filetype
          loaded,    \* the slots of the process table that are taken
          program,   \* the file that was read
          bounds,    \* elf_file: virtual and physical base and end
          pages      \* the page directory of the task

imageVars == <<program, bounds, pages>>

loaderVars == <<pc, slot, trying, live, file, filetype, loaded, program, bounds, pages>>

Slots   == 0 .. MaxProcesses - 1
Structs == {"process", "elf_file", "image", "stack", "task", "directory"}

NoProgram == [size |-> 0, header |-> <<>>, phdrs |-> <<>>]

Calls   == {"process", "elf_file", "open", "stat", "image", "read", "validate",
            "stack", "task", "map"}

LoaderInit ==
    /\ pc = "idle"
    /\ slot = 0
    /\ trying = "elf"
    /\ live = [s \in Slots |-> {}]
    /\ file = {}
    /\ filetype = [s \in Slots |-> "elf"]
    /\ loaded = {}
    /\ program = NoProgram /\ bounds = NoBounds /\ pages = paging_new_4gb

With(s, structs)    == [live EXCEPT ![s] = @ \cup structs]
Without(s, structs) == [live EXCEPT ![s] = @ \ structs]

Has(struct) == struct \in live[slot]

(* A pointer that is null or an error value is used. *)
Wild ==
    /\ pc' = "wild"
    /\ UNCHANGED <<slot, trying, live, file, filetype, loaded, imageVars>>

-------------------------------------------------------------------------------
(* Giving back. *)

(* process->elf_file, or process->ptr in its place, is set: only           *)
(* process_load_elf and process_load_binary do it, at their end.           *)
DataSet(s) == s \in loaded \/ (s = slot /\ pc \in {"stack", "task", "map"})

(* A process_free_process that forgets the stack. *)
FreeAllButStack(s) ==
    {"process", "task", "directory"}
        \cup (IF ~DataSet(s) THEN {}
              ELSE IF filetype[s] = "binary" THEN {"image"} ELSE {"elf_file", "image"})

(* What process_free_process frees of the slot s: the program data that    *)
(* the file type names, the stack, the task with its directory, and the    *)
(* struct itself.                                                          *)
process_free_process(s) ==
    {"process", "stack", "task", "directory"}
        \cup (IF ~DataSet(s) THEN {}
              ELSE IF filetype[s] = "binary" THEN {"image"} ELSE {"elf_file", "image"})

(* An fclose that is not reached. *)
NotClosed == file

(* fclose: the descriptor, the file system's descriptor and its item go;   *)
(* the parsed path is not reachable any more.                              *)
fclose == file \ {"descriptor"}

(* The error exit of process_load_for_slot, with rest still allocated. *)
LoadFails(rest) ==
    /\ live' = [live EXCEPT ![slot] = rest \ process_free_process(slot)]
    /\ pc' = "idle"
    /\ program' = NoProgram /\ bounds' = NoBounds /\ pages' = paging_new_4gb
    /\ UNCHANGED <<slot, trying, filetype, loaded>>

(* What elf_load and process_load_binary free themselves when they fail. *)
FreedByLoader == IF trying = "elf" THEN {"elf_file", "image"} ELSE {"image"}

(* The error exits of elf_load and process_load_binary. *)
DataFails ==
    /\ file' = fclose
    /\ LoadFails(live[slot] \ FreedByLoader)

(* A fallback that does not free what elf_load had read. *)
NotElfKeepsImage ==
    /\ file' = fclose
    /\ trying' = "binary"
    /\ pc' = "open"
    /\ UNCHANGED <<slot, live, filetype, loaded, imageVars>>

(* elf_load answers EINFORMAT: process_load_data tries again with          *)
(* process_load_binary.                                                    *)
NotElf ==
    /\ file' = fclose
    /\ live' = Without(slot, FreedByLoader)
    /\ trying' = "binary"
    /\ pc' = "open"
    /\ UNCHANGED <<slot, filetype, loaded, imageVars>>

-------------------------------------------------------------------------------
(* The calls of a load, in the order of the code. *)

(* A search that takes the number of processes for the first free slot. *)
LoadAtCount ==
    /\ pc = "idle"
    /\ slot' = Cardinality(loaded)
    /\ filetype' = [filetype EXCEPT ![slot'] = "elf"]
    /\ trying' = "elf"
    /\ pc' = "process"
    /\ program' = NoProgram /\ bounds' = NoBounds /\ pages' = paging_new_4gb
    /\ UNCHANGED <<live, file, loaded>>

(* process_load: the first free slot. *)
process_load ==
    /\ pc = "idle" /\ loaded # Slots
    /\ slot' = Min(Slots \ loaded)
    /\ filetype' = [filetype EXCEPT ![slot'] = "elf"]   \* process_init: 0
    /\ trying' = "elf"
    /\ pc' = "process"
    /\ program' = NoProgram /\ bounds' = NoBounds /\ pages' = paging_new_4gb
    /\ UNCHANGED <<live, file, loaded>>

AllocProcess ==
    /\ pc = "process"
    /\ \/ pc' = "elf_file" /\ live' = With(slot, {"process"})
       \/ pc' = "idle" /\ UNCHANGED live
    /\ UNCHANGED <<slot, trying, file, filetype, loaded, imageVars>>

(* elf_file_new is not checked: without memory elf_file is null, and       *)
(* elf_load uses it sooner or later on every path.                         *)
elf_file_new ==
    /\ pc = "elf_file"
    /\ \/ /\ pc' = "open"
          /\ live' = With(slot, {"elf_file"})
          /\ UNCHANGED <<slot, trying, file, filetype, loaded, imageVars>>
       \/ Wild

(* fopen.  It fails cleanly for a path that cannot be parsed; when the     *)
(* file system cannot open the file it closes the error value, and a       *)
(* descriptor that cannot be allocated is used all the same.               *)
fopen ==
    /\ pc = "open"
    /\ \/ DataFails
       \/ Wild
       \/ /\ pc' = "stat"
          /\ file' = file \cup {"path", "descriptor"}
          /\ UNCHANGED <<slot, trying, live, filetype, loaded, imageVars>>

(* fstat fails for a directory. *)
fstat ==
    /\ pc = "stat"
    /\ \/ DataFails
       \/ pc' = "image" /\ UNCHANGED <<slot, trying, live, file, filetype, loaded, imageVars>>

(* kzalloc(stat.filesize): process_load_binary checks it, elf_load reads   *)
(* into the null pointer.                                                  *)
AllocImage ==
    /\ pc = "image"
    /\ \/ /\ pc' = "read"
          /\ live' = With(slot, {"image"})
          /\ UNCHANGED <<slot, trying, file, filetype, loaded, imageVars>>
       \/ trying = "elf" /\ Wild
       \/ trying = "binary" /\ DataFails

(* fread of the whole file.  The binary loader then fills in the process   *)
(* and closes the file.                                                    *)
fread ==
    /\ pc = "read"
    /\ \/ DataFails
       \/ /\ trying = "elf"
          /\ pc' = "validate"
          /\ UNCHANGED <<slot, trying, live, file, filetype, loaded, imageVars>>
       \/ /\ trying = "binary"
          /\ pc' = "stack"
          /\ filetype' = [filetype EXCEPT ![slot] = "binary"]
          /\ file' = fclose
          /\ program' \in {p \in Programs : ~elf_validate_loaded(p.header)}
          /\ UNCHANGED <<slot, trying, live, loaded, bounds, pages>>

(* elf_process_loaded and the end of elf_load. *)
elf_process_loaded ==
    /\ pc = "validate"
    /\ \E p \in Programs :
        \/ ~elf_validate_loaded(p.header) /\ NotElf
        \/ /\ elf_validate_loaded(p.header)
           /\ pc' = "stack"
           /\ file' = fclose
           /\ program' = p
           /\ bounds' = elf_process_pheaders(p.phdrs)
           /\ UNCHANGED <<slot, trying, live, filetype, loaded, pages>>

AllocStack ==
    /\ pc = "stack"
    /\ \/ /\ pc' = "task"
          /\ live' = With(slot, {"stack"})
          /\ UNCHANGED <<slot, trying, file, filetype, loaded, imageVars>>
       \/ /\ LoadFails(live[slot])
          /\ UNCHANGED file

(* task_new.  When the struct or its directory cannot be allocated it      *)
(* frees the null task.  If that does no harm it returns an error value,   *)
(* which the check after the call lets pass: ERROR_I(...) == 0 is false    *)
(* for it.                                                                 *)
task_new ==
    /\ pc = "task"
    /\ \/ Wild
       \/ /\ pc' = "map"
          /\ live' \in {With(slot, {"task", "directory"}), live}
          /\ UNCHANGED <<slot, trying, file, filetype, loaded, imageVars>>

(* process_map_memory, and the end of the load. *)
process_map_memory ==
    LET mapped == MapProgram(filetype[slot], program)
    IN  /\ pc = "map"
        /\ \/ ~Has("task") /\ Wild
           \/ /\ Has("task") /\ ~mapped.ok
              /\ LoadFails(live[slot])
              /\ UNCHANGED file
           \/ /\ Has("task") /\ mapped.ok
              /\ pc' = "idle"
              /\ loaded' = loaded \cup {slot}
              /\ pages' = mapped.dir
              /\ UNCHANGED <<slot, trying, live, file, filetype, program, bounds>>

(* process_terminate of a loaded process. *)
process_terminate(s) ==
    /\ pc = "idle" /\ s \in loaded
    /\ loaded' = loaded \ {s}
    /\ live' = Without(s, process_free_process(s))
    /\ program' = NoProgram /\ bounds' = NoBounds /\ pages' = paging_new_4gb
    /\ UNCHANGED <<pc, slot, trying, file, filetype>>

LoaderNext ==
    \/ process_load \/ AllocProcess \/ elf_file_new
    \/ fopen \/ fstat \/ AllocImage \/ fread \/ elf_process_loaded
    \/ AllocStack \/ task_new \/ process_map_memory
    \/ \E s \in Slots : process_terminate(s)

LoaderSpec == LoaderInit /\ [][LoaderNext]_loaderVars

-------------------------------------------------------------------------------
(* Properties. *)

(* Type correctness of the loader's state. *)
LoaderTypeOK ==
    /\ pc \in Calls \cup {"idle", "wild"}
    /\ slot \in Slots
    /\ trying \in {"elf", "binary"}
    /\ live \in [Slots -> SUBSET Structs]
    /\ file \subseteq {"path", "descriptor"}
    /\ filetype \in [Slots -> {"elf", "binary"}]
    /\ loaded \subseteq Slots
    /\ program.size \in Nat
    /\ \A p \in Pages : pages[p].page \in Nat /\ pages[p].writable \in BOOLEAN

(* Whichever call fails, and after a termination, a slot that holds no     *)
(* process holds no memory either (the error exits of elf_load,            *)
(* process_load_binary and process_load_for_slot; process_free_process).   *)
NothingLeft == pc = "idle" => \A s \in Slots \ loaded : live[s] = {}

(* A process that is in the table has all it needs and nothing else: the   *)
(* structs of a first attempt as an ELF file are gone when it was loaded   *)
(* as a binary.                                                            *)
CompleteProcess ==
    \A s \in loaded :
        live[s] = {"process", "image", "stack", "task", "directory"}
                      \cup (IF filetype[s] = "elf" THEN {"elf_file"} ELSE {})

(* No file stays open after a load, however it ended: the descriptor table *)
(* cannot fill up (fclose on every path of elf_load and                    *)
(* process_load_binary).                                                   *)
FilesClosed == pc \in {"idle", "stack", "task", "map"} => "descriptor" \notin file

-------------------------------------------------------------------------------
(* What a process sees. *)

Mapped == pc = "idle" /\ slot \in loaded /\ program # NoProgram
IsElf  == filetype[slot] = "elf"

(* Where the directory leads an address. *)
Physical(a) == pages[Page(a)].page * PageSize + (a % PageSize)

Covered(phdr) ==
    LET from == Page(phdr.vaddr)
        to   == Page(paging_align_address(phdr.vaddr + phdr.memsz))
    IN  from .. to - 1

(* No other header of the program touches the pages of header k. *)
Alone(k) ==
    \A j \in DOMAIN program.phdrs \ {k} :
        Covered(program.phdrs[j]) \cap Covered(program.phdrs[k]) = {}

(* Every byte of a segment that is in the file is at its address in the    *)
(* process, and the process may write there if and only if the header says *)
(* so, when no other header touches the segment's pages; wherever in a     *)
(* page the segment begins and ends (process_map_elf, process.c 425-452).  *)
(* A flat binary is at the program address as a whole.                     *)
SegmentsInPlace ==
    Mapped =>
        IF IsElf
        THEN \A k \in DOMAIN program.phdrs :
                LET h == program.phdrs[k]
                IN  Alone(k) /\ h.type = "load" =>
                        \A b \in 0 .. h.filesz - 1 :
                            /\ Physical(h.vaddr + b) = ImageAddress + h.offset + b
                            /\ pages[Page(h.vaddr + b)].writable = h.writable
        ELSE \A b \in 0 .. program.size - 1 :
                /\ Physical(ProgramAddress + b) = ImageAddress + b
                /\ pages[Page(ProgramAddress + b)].writable

(* The process may write only to its own image and stack, if every segment *)
(* fits into the blocks of the image with its bss (paging_map_to and the   *)
(* roundings of process.c 441-443 and 481).                                *)
WritesOwnPages ==
    LET ends == paging_align_address(ImageAddress + program.size)
        fits == \A k \in DOMAIN program.phdrs :
                    ImageAddress + program.phdrs[k].offset + program.phdrs[k].memsz <= ends
    IN  Mapped /\ (IsElf => fits) =>
            \A p \in Pages : pages[p].writable =>
                \/ pages[p].page \in Page(ImageAddress) .. Page(ends) - 1
                \/ pages[p].page \in Page(StackAddress) .. Page(StackAddress + StackSize) - 1

(* The bounds of an ELF file enclose its segments and are bounds of some,  *)
(* in whatever order the headers come (elf_process_phdr_pt_load).          *)
BoundsEnclose ==
    Mapped /\ IsElf =>
        LET segments == {h \in Range(program.phdrs) : h.type = "load"}
        IN  segments # {} =>
                /\ bounds.base = Min({h.vaddr : h \in segments})
                /\ bounds.end = Max({h.vaddr + h.filesz : h \in segments})

(* The memory of a process is mapped only when it has a task: the comment  *)
(* at process.c 567, "NULL due to err code returned from task_new()", says *)
(* that the error was noticed.                                             *)
MappedWithTask == pc = "map" => Has("task")
===============================================================================
