------------------------------- MODULE ElfImage -------------------------------
(***************************************************************************)
(* Where a program goes: the checks and bounds of                          *)
(* src/loader/formats/elf_loader.c, the structs of elf.h, and the mapping  *)
(* of the program and the stack in src/task/process.c, down to the entries *)
(* of the page directory (src/memory/paging/paging.c).                     *)
(*                                                                         *)
(* A program is a file that has been read to ImageAddress: its size, its   *)
(* ELF header and its program headers.  A page directory gives each page a *)
(* physical page and says whether the process may write.                   *)
(***************************************************************************)
EXTENDS Integers, Sequences

CONSTANTS PageSize,        \* PAGING_PAGE_SIZE
          Word,            \* 2^32
          ProgramAddress,  \* PANDORA_PROGRAM_VIRTUAL_ADDRESS
          StackEnd,        \* PANDORA_PROGRAM_VIRTUAL_STACK_ADDRESS_END
          StackSize,       \* PANDORA_USER_PROGRAM_STACK_SIZE
          ImageAddress,    \* where the heap has put the file
          StackAddress     \* where the heap has put the stack

ASSUME ElfAssumption ==
    /\ PageSize \in Nat \ {0} /\ Word \in Nat \ {0} /\ Word % PageSize = 0
    /\ \A a \in {ProgramAddress, StackEnd, StackSize, ImageAddress, StackAddress} :
        a \in Nat /\ a < Word /\ a % PageSize = 0

paging_align_to_lower_page(a) == a - (a % PageSize)

paging_align_address(a) ==
    IF a % PageSize = 0 THEN a ELSE (a + PageSize - (a % PageSize)) % Word

Page(a) == a \div PageSize
Pages   == 0 .. Page(Word) - 1

(* The fields of a program header that are read (struct elf32_phdr). *)
Addresses == 0 .. Word - 1
Phdrs     == [type : STRING, offset : Addresses, vaddr : Addresses, filesz : Addresses,
              memsz : Addresses, writable : BOOLEAN]

-------------------------------------------------------------------------------
(* The ELF header and the bounds. *)

(* efl_valid_signature, elf_valid_class, elf_valid_encoding,               *)
(* elf_has_program_header and elf_is_executable.                           *)
elf_validate_loaded(header) ==
    /\ header.signature
    /\ header.class \in {"none", "32"}
    /\ header.data \in {"none", "lsb"}
    /\ header.phoff # 0
    /\ header.type = "exec" /\ header.entry >= ProgramAddress

NoBounds == [base |-> 0, physBase |-> 0, end |-> 0, physEnd |-> 0]

(* A comparison the wrong way round: the end of the first segment stays. *)
BoundsKeepFirstEnd(b, phdr) ==
    LET phys == ImageAddress + phdr.offset
        end  == (phdr.vaddr + phdr.filesz) % Word
        low  == IF b.base >= phdr.vaddr \/ b.base = 0
                THEN [b EXCEPT !.base = phdr.vaddr, !.physBase = phys] ELSE b
    IN  IF b.end >= end \/ b.end = 0
        THEN [low EXCEPT !.end = end, !.physEnd = phys + phdr.filesz] ELSE low

(* elf_process_phdr_pt_load.  Zero stands for a bound that is not set. *)
elf_process_phdr_pt_load(b, phdr) ==
    LET phys == ImageAddress + phdr.offset
        end  == (phdr.vaddr + phdr.filesz) % Word
        low  == IF b.base >= phdr.vaddr \/ b.base = 0
                THEN [b EXCEPT !.base = phdr.vaddr, !.physBase = phys] ELSE b
    IN  IF b.end <= end \/ b.end = 0
        THEN [low EXCEPT !.end = end, !.physEnd = phys + phdr.filesz] ELSE low

(* The bounds after all program headers, one after the other. *)
elf_process_pheaders(phdrs) ==
    LET after[k \in 0 .. Len(phdrs)] ==
            IF k = 0 THEN NoBounds
            ELSE IF phdrs[k].type = "load" THEN elf_process_phdr_pt_load(after[k - 1], phdrs[k])
            ELSE after[k - 1]
    IN  after[Len(phdrs)]

-------------------------------------------------------------------------------
(* Mapping. *)

(* paging_new_4gb: every page to itself, for reading. *)
paging_new_4gb == [p \in Pages |-> [page |-> p, writable |-> FALSE]]

(* A mapping one page longer. *)
MapOneMore(dir, virt, phys, end, writable) ==
    LET count == Page(end - phys) + 1
    IN  [ok |-> end >= phys,
         dir |-> [p \in Pages |->
                    IF end >= phys /\ p \in Page(virt) .. Page(virt) + count - 1
                    THEN [page |-> Page(phys) + p - Page(virt), writable |-> writable]
                    ELSE dir[p]]]

(* paging_map_to and paging_map_range, for aligned addresses. *)
paging_map_to(dir, virt, phys, end, writable) ==
    LET count == Page(end - phys)
    IN  [ok |-> end >= phys,
         dir |-> [p \in Pages |->
                    IF end >= phys /\ p \in Page(virt) .. Page(virt) + count - 1
                    THEN [page |-> Page(phys) + p - Page(virt), writable |-> writable]
                    ELSE dir[p]]]

(* A segment's end taken from its length alone. *)
MapFromLength(dir, phdr) ==
    LET phys == (ImageAddress + phdr.offset) % Word
        low  == paging_align_to_lower_page(phys)
    IN  paging_map_to(dir, paging_align_to_lower_page(phdr.vaddr), low,
                      paging_align_address((low + phdr.memsz) % Word), phdr.writable)

(* One program header of process_map_elf, which maps headers of every      *)
(* type.                                                                   *)
MapHeader(dir, phdr) ==
    LET phys == (ImageAddress + phdr.offset) % Word
    IN  paging_map_to(dir, paging_align_to_lower_page(phdr.vaddr),
                      paging_align_to_lower_page(phys),
                      paging_align_address((phys + phdr.memsz) % Word), phdr.writable)

(* The directory after all program headers, or after the first that fails. *)
process_map_elf(dir, phdrs) ==
    LET after[k \in 0 .. Len(phdrs)] ==
            IF k = 0 THEN [ok |-> TRUE, dir |-> dir]
            ELSE IF after[k - 1].ok THEN MapHeader(after[k - 1].dir, phdrs[k])
            ELSE after[k - 1]
    IN  after[Len(phdrs)]

(* Its result is not looked at. *)
process_map_binary(dir, size) ==
    [paging_map_to(dir, ProgramAddress, ImageAddress,
                   paging_align_address(ImageAddress + size), TRUE) EXCEPT !.ok = TRUE]

MapStack(dir) ==
    paging_map_to(dir, StackEnd, StackAddress, StackAddress + StackSize, TRUE).dir

(* process_map_memory: the program, then the stack. *)
MapProgram(filetype, program) ==
    LET m == IF filetype = "elf" THEN process_map_elf(paging_new_4gb, program.phdrs)
             ELSE process_map_binary(paging_new_4gb, program.size)
    IN  IF m.ok THEN [m EXCEPT !.dir = MapStack(@)] ELSE m
===============================================================================
