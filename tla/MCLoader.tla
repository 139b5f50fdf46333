------------------------------- MODULE MCLoader -------------------------------
(* Programs for the runs of Loader. *)
EXTENDS Loader

Good == [signature |-> TRUE, class |-> "32", data |-> "lsb", phoff |-> 1, type |-> "exec",
         entry |-> ProgramAddress]

Headers ==
    { Good, [Good EXCEPT !.signature = FALSE], [Good EXCEPT !.class = "64"],
      [Good EXCEPT !.data = "msb"], [Good EXCEPT !.phoff = 0], [Good EXCEPT !.type = "dyn"],
      [Good EXCEPT !.entry = ProgramAddress - 1], [Good EXCEPT !.class = "none"] }

Phdr(type, offset, vaddr, filesz, memsz, writable) ==
    [type |-> type, offset |-> offset, vaddr |-> vaddr, filesz |-> filesz, memsz |-> memsz,
     writable |-> writable]

Text == {Phdr("load", 0, ProgramAddress, n, n, FALSE) : n \in 1 .. 3}

(* A linker places a segment at an address that agrees with its offset in  *)
(* the position inside the page.  The last length wraps around when it is  *)
(* added to the address of the segment.                                    *)
Data ==
    {Phdr("load", o, ProgramAddress + a, n, n + bss, w) :
        o \in 1 .. 4, a \in {2, 3, 4, 5}, n \in 0 .. 2, bss \in {0, 1, 3, Word - ImageAddress},
        w \in BOOLEAN}

DataSegments == {h \in Data : h.offset % PageSize = h.vaddr % PageSize}

NoStack == Phdr("stack", 0, 0, 0, 0, TRUE)

(* ELF files as long as their segments, or one byte longer, with the       *)
(* headers in either order; and files with every flaw of the header.       *)
SomePrograms ==
    LET elf(t, d, more, p) ==
            [size |-> Max({t.filesz, d.offset + d.filesz}) + more, header |-> Good, phdrs |-> p]
    IN  UNION {{elf(t, d, more, <<t, d>>), elf(t, d, more, <<d, NoStack, t>>)} :
                    t \in Text, d \in DataSegments, more \in 0 .. 1}
        \cup {[size |-> n, header |-> h, phdrs |-> <<NoStack>>] : n \in 1 .. 5, h \in Headers}
===============================================================================
